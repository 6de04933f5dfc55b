------------------------------ MODULE ReadPath ------------------------------
(***************************************************************************)
(* How a request gets its answer from the replica of one vault: the read   *)
(* path ensureItemFresh (backend/backend.go) with its freshness window,    *)
(* its negative cache and its second look after a cycle, the readers on    *)
(* top of it (paths_item.go, paths_field.go), the upsert that creates an   *)
(* item when it finds none (locateItem and pathItemWrite in writes.go),    *)
(* op/invalidate and the config write, all against one single-flighted     *)
(* cycle.                                                                  *)
(*                                                                         *)
(* Every request asks for the same address, a title.  Titled are the items *)
(* that bear it; the others only make the vault non-empty.  A step is one  *)
(* critical section of v.mu, v.cycleMu or b.mu, or one 1Password request.  *)
(* Time is counted in ticks, which pass between any two steps; a zero      *)
(* time.Time is Never.  Bodies, versions and tombstones are VaultReplica's *)
(* and what the governor decides is Governor's: here a cycle may be        *)
(* refused, and usage may be above the ceiling, whenever.                  *)
(***************************************************************************)
EXTENDS Integers, FiniteSets

CONSTANTS
    Items,         \* item IDs; 1Password never gives an ID out twice
    Titled,        \* the items whose title is the address asked for
    Readers,       \* goroutines that serve item and field reads
    Upserters,     \* goroutines that serve item writes
    Background,    \* the timer, op/refresh or a listing, when it leads a cycle
    Nobody,        \* no cycle is in flight
    Configs,       \* what op/config may hold, as far as reads look at it
    MaxEvents      \* bound: ticks, changes of the vault, faults and operator requests together

ASSUME ItemsAssumption == Titled \subseteq Items
ASSUME NamesAssumption ==
    /\ Background # Nobody
    /\ {Background, Nobody} \cap (Readers \cup Upserters) = {}
    /\ Readers \cap Upserters = {}
ASSUME ConfigsAssumption ==
    /\ Configs # {}
    /\ Configs \subseteq [passthrough: BOOLEAN, ttl: Nat, negTtl: Nat, alwaysFresh: BOOLEAN,
                          serveStale: BOOLEAN, bound: Nat]

Requests == Readers \cup Upserters

Never == -1
Times == Nat \cup {Never}

VARIABLES
    now,
    (* 1Password *)
    present,     \* the active items
    unborn,      \* the items that were never there
    (* vaultReplica *)
    index,       \* the keys of v.overview
    lastCycle,
    suspect,     \* staleSuspect
    missed,      \* negativeCache: when a miss of the address was stored
    config,      \* b.config
    (* the cycle in flight *)
    flight,      \* how far it is
    leader,
    listing, toFetch, toRemove,
    whole,       \* history: it succeeded, and every item was fetched
    (* requests *)
    req,         \* request -> where it is, and its locals
    clearing,    \* an invalidation that has yet to clear the negative cache
    (* bounds *)
    events,
    (* history *)
    born,        \* titled item -> when it appeared
    lastApply,   \* when a cycle last succeeded
    unheeded,    \* nothing was applied that was listed after the last invalidation
    early,       \* the cycle in flight listed before the last invalidation
    overtaken,   \* ... and such a cycle has been applied since
    missedHeard  \* what the stored miss rests on

serverVars  == <<present, unborn, born>>
replicaVars == <<index, lastCycle, suspect>>
missVars    == <<missed, missedHeard>>
flightVars  == <<flight, leader, listing, toFetch, toRemove, whole>>
markVars    == <<lastApply, unheeded, early, overtaken>>
vars == <<now, serverVars, replicaVars, missVars, config, flightVars, req,
          clearing, markVars, events>>

Phases == {"idle", "resolve", "known", "unknown", "cycle", "waiting", "again", "count", "cold",
           "store", "check", "body", "meta", "missing", "create", "applyWrite"}
Heard == {"nothing", "window", "listed"}

(* A request: where it is; the configuration and the now it took in        *)
(* ensureItemFresh; what its address resolved to.  History: what the       *)
(* answer rests on, and whether the response must say stale_suspect.       *)
Request == [pc: Phases, cfg: Configs, start: Nat, item: SUBSET Items, heard: Heard, owed: BOOLEAN]

TypeOK ==
    /\ now \in Nat
    /\ present \in SUBSET Items
    /\ unborn \in SUBSET Items
    /\ index \in SUBSET Items
    /\ lastCycle \in Times
    /\ suspect \in BOOLEAN
    /\ missed \in Times
    /\ config \in Configs
    /\ flight \in {"none", "list", "diff", "get", "done"}
    /\ leader \in Requests \cup {Background, Nobody}
    /\ listing \in SUBSET Items
    /\ toFetch \in SUBSET Items
    /\ toRemove \in SUBSET Items
    /\ whole \in BOOLEAN
    /\ req \in [Requests -> Request]
    /\ \A r \in Requests : req[r].pc \in {"known", "check", "body", "meta"} => req[r].item # {}
    /\ clearing \in BOOLEAN
    /\ events \in Nat
    /\ born \in [Titled -> Nat]
    /\ lastApply \in Times
    /\ unheeded \in BOOLEAN /\ early \in BOOLEAN /\ overtaken \in BOOLEAN
    /\ missedHeard \in Heard

Idle ==
    [pc |-> "idle", cfg |-> CHOOSE c \in Configs : TRUE, start |-> 0, item |-> {},
     heard |-> "nothing", owed |-> FALSE]

(* A process that has just started, before a vault that may hold items.    *)
Init ==
    /\ now = 0
    /\ present \in SUBSET Items
    /\ unborn = Items \ present
    /\ born = [i \in Titled |-> 0]
    /\ index = {} /\ lastCycle = Never /\ suspect = FALSE
    /\ missed = Never /\ missedHeard = "nothing"
    /\ config \in Configs
    /\ flight = "none" /\ leader = Nobody /\ whole = FALSE
    /\ listing = {} /\ toFetch = {} /\ toRemove = {}
    /\ req = [r \in Requests |-> Idle]
    /\ clearing = FALSE
    /\ lastApply = Never
    /\ unheeded = FALSE /\ early = FALSE /\ overtaken = FALSE
    /\ events = 0

-----------------------------------------------------------------------------
(* Bounds, the clock, and the people who use the vault.                    *)

Event == events < MaxEvents /\ events' = events + 1

Tick ==
    /\ Event
    /\ now' = now + 1
    /\ UNCHANGED <<serverVars, replicaVars, missVars, config, flightVars, req, clearing, markVars>>

Appears(i) ==
    /\ i \in unborn
    /\ Event
    /\ present' = present \cup {i}
    /\ unborn' = unborn \ {i}
    /\ born' = [j \in Titled |-> IF j = i THEN now ELSE born[j]]

Leaves(i) ==
    /\ i \in present
    /\ Event
    /\ present' = present \ {i}
    /\ UNCHANGED <<unborn, born>>

ChangedElsewhere ==
    /\ \E i \in Items : Appears(i) \/ Leaves(i)
    /\ UNCHANGED <<now, replicaVars, missVars, config, flightVars, req, clearing, markVars>>

-----------------------------------------------------------------------------
(* The cycle in flight.                                                    *)

Lead(c) == flight = "none" /\ flight' = "list" /\ leader' = c

CycleUnchanged ==
    UNCHANGED <<now, serverVars, config, req, clearing>>

BackgroundCycle ==
    /\ Lead(Background)
    /\ CycleUnchanged
    /\ UNCHANGED <<replicaVars, missVars, listing, toFetch, toRemove, whole, markVars,
                   events>>

SuspectCleared == suspect' = FALSE          \* mutant: the attempt is enough
SuspectKept == UNCHANGED suspect
(* The governor refuses, ListItems fails or a whole GetAll does.           *)
CycleFails ==
    /\ flight \in {"list", "get"}
    /\ Event
    /\ flight' = "done"
    /\ whole' = FALSE
    /\ toFetch' = {} /\ toRemove' = {}
    /\ early' = FALSE
    /\ SuspectKept
    /\ CycleUnchanged
    /\ UNCHANGED <<index, lastCycle, missVars, leader, listing, lastApply, unheeded, overtaken>>

ListItems ==
    /\ flight = "list"
    /\ flight' = "diff"
    /\ listing' = present
    /\ early' = FALSE
    /\ CycleUnchanged
    /\ UNCHANGED <<replicaVars, missVars, leader, toFetch, toRemove, whole, lastApply,
                   unheeded, overtaken, events>>

Diff ==
    /\ flight = "diff"
    /\ flight' = "get"
    /\ toFetch' = listing \ index
    /\ toRemove' = index \ listing
    /\ CycleUnchanged
    /\ listing' = {}
    /\ UNCHANGED <<replicaVars, missVars, leader, whole, markVars, events>>

(* GetItems and doCycle's last critical section, which VaultReplica has    *)
(* apart.  An item that is gone, or an error of its own, leaves an item    *)
(* out.  A response that has its body but not yet its metadata gets the    *)
(* metadata of the next cycle.                                             *)
Apply ==
    /\ flight = "get"
    /\ \E errs \in SUBSET (toFetch \cap present) :
          /\ IF errs = {} THEN UNCHANGED events ELSE Event
          /\ index' = (index \ toRemove) \cup ((toFetch \cap present) \ errs)
          /\ whole' = (errs = {})
    /\ flight' = "done"
    /\ toFetch' = {} /\ toRemove' = {}
    /\ missed' = Never /\ missedHeard' = "nothing"
    /\ lastCycle' = now
    /\ suspect' = FALSE
    /\ lastApply' = now
    /\ unheeded' = (unheeded /\ early)
    /\ overtaken' = (unheeded /\ early)
    /\ early' = FALSE
    /\ req' = [r \in Requests |->
                  IF req[r].pc = "meta" THEN [req[r] EXCEPT !.owed = FALSE] ELSE req[r]]
    /\ UNCHANGED <<now, serverVars, config, leader, listing, clearing>>

Waiting == {r \in Requests : req[r].pc = "waiting"}

(* A follower may have joined after the cycle listed.                      *)
Heed(r) == IF whole /\ r = leader THEN "listed" ELSE "nothing"

(* The cycle is unpublished and its WaitGroup done; a follower that has    *)
(* not run since may still be seen waiting to look again.                  *)
CycleReturns ==
    /\ flight = "done"
    /\ flight' = "none" /\ leader' = Nobody /\ whole' = FALSE
    /\ req' = [r \in Requests |->
                  IF r \in Waiting THEN [req[r] EXCEPT !.pc = "again", !.heard = Heed(r)]
                  ELSE req[r]]
    /\ UNCHANGED <<now, serverVars, replicaVars, missVars, config, listing, toFetch, toRemove,
                   clearing, markVars, events>>

-----------------------------------------------------------------------------
(* Requests.                                                               *)

Becomes(r, rec) == req' = [req EXCEPT ![r] = rec]
Goto(r, phase) == Becomes(r, [req[r] EXCEPT !.pc = phase])
Return(r) == Becomes(r, Idle)

ReplicaStays ==
    UNCHANGED <<now, serverVars, replicaVars, config, clearing, markVars>>
OthersStay == ReplicaStays /\ UNCHANGED <<missVars, flightVars, events>>

Matches == index \cap Titled
Ambiguous == Cardinality(Matches) > 1

(* The handler enters ensureItemFresh, an upsert only if it does not find  *)
(* the item at once.                                                       *)
Begin(r) ==
    /\ req[r].pc = "idle"
    /\ r \in Upserters => Matches = {}
    /\ Becomes(r, [Idle EXCEPT !.pc = "resolve", !.cfg = config, !.start = now])
    /\ OthersStay

Resolve(r) ==
    /\ req[r].pc = "resolve"
    /\ IF Ambiguous THEN Return(r)
       ELSE Becomes(r, [req[r] EXCEPT !.pc = IF Matches = {} THEN "unknown" ELSE "known",
                                      !.item = Matches])
    /\ OthersStay

Expired(r) ==
    lastCycle = Never \/ req[r].cfg.ttl = 0 \/ req[r].start - lastCycle >= req[r].cfg.ttl

(* A known item is served as it is within the window; without passthrough  *)
(* or above the ceiling too, with no promise.  An upsert that finds the    *)
(* item goes on as an update (VaultReplica's PutItem).                     *)
Serve(r, heard) ==
    IF r \in Readers THEN Becomes(r, [req[r] EXCEPT !.pc = "check", !.heard = heard]) ELSE Return(r)

Judge(r) ==
    /\ req[r].pc = "known"
    /\ \E above \in BOOLEAN :
          LET asks == req[r].cfg.passthrough /\ ~above
          IN  IF asks /\ (Expired(r) \/ req[r].cfg.alwaysFresh)
              THEN Goto(r, "cycle")
              ELSE Serve(r, IF asks THEN "window" ELSE "nothing")
    /\ OthersStay

HitForever(r) == missed # Never          \* mutant: an entry never expires
Hit(r) == missed # Never /\ req[r].start - missed < req[r].cfg.negTtl

(* An unknown address: at most one cycle, none if the miss is known.       *)
MissUnasked(r) ==
    /\ req[r].pc = "unknown"
    /\ ~req[r].cfg.passthrough
    /\ Goto(r, "count")
    /\ OthersStay

NotFound(r, heard) ==
    Becomes(r, [req[r] EXCEPT !.pc = IF r \in Readers THEN "missing" ELSE "create",
                              !.heard = heard])

MissKnown(r) ==
    /\ req[r].pc = "unknown"
    /\ req[r].cfg.passthrough
    /\ Hit(r)
    /\ NotFound(r, missedHeard)
    /\ OthersStay

MissAsked(r) ==
    /\ req[r].pc = "unknown"
    /\ req[r].cfg.passthrough
    /\ ~Hit(r)
    /\ missed' = Never /\ missedHeard' = "nothing"
    /\ Goto(r, "cycle")
    /\ ReplicaStays
    /\ UNCHANGED <<flightVars, events>>

(* runVaultCycle: lead, join, or fail for want of a client.                *)
LeadCycle(r) ==
    /\ req[r].pc = "cycle"
    /\ Lead(r)
    /\ Goto(r, "waiting")
    /\ ReplicaStays
    /\ UNCHANGED <<missVars, listing, toFetch, toRemove, whole, events>>

JoinCycle(r) ==
    /\ req[r].pc = "cycle"
    /\ flight # "none"
    /\ Goto(r, "waiting")
    /\ OthersStay

NoClient(r) ==
    /\ req[r].pc = "cycle"
    /\ Event
    /\ Goto(r, "again")
    /\ ReplicaStays
    /\ UNCHANGED <<missVars, flightVars>>

LookAgainAtOld(r) ==                     \* mutant: what was resolved first is served
    /\ req[r].pc = "again"
    /\ Goto(r, "check")
    /\ OthersStay

(* After the cycle, whatever came of it, the address is looked up again.   *)
LookAgain(r) ==
    /\ req[r].pc = "again"
    /\ IF Ambiguous THEN Return(r)
       ELSE IF Matches = {} THEN Goto(r, "count")
       ELSE IF r \in Upserters THEN Return(r)
       ELSE Becomes(r, [req[r] EXCEPT !.pc = "check", !.item = Matches])
    /\ OthersStay

(* An empty replica answers no "not found": a read gets errReplicaEmpty,   *)
(* and an upsert looks whether the vault was ever cycled.                  *)
CountUnchecked(r) ==                     \* mutant: an empty replica is not told apart
    /\ req[r].pc = "count"
    /\ Goto(r, "store")
    /\ OthersStay

Count(r) ==
    /\ req[r].pc = "count"
    /\ IF index # {} THEN Goto(r, "store")
       ELSE IF r \in Upserters THEN Goto(r, "cold")
       ELSE Return(r)
    /\ OthersStay

EmptyVault(r) ==
    /\ req[r].pc = "cold"
    /\ IF lastCycle # Never THEN Goto(r, "create") ELSE Return(r)
    /\ OthersStay

Stamp(r) == req[r].start

(* negativeCacheStore, with the time the request started.                  *)
StoreMiss(r) ==
    /\ req[r].pc = "store"
    /\ missed' = Stamp(r)
    /\ missedHeard' = req[r].heard
    /\ NotFound(r, req[r].heard)
    /\ ReplicaStays
    /\ UNCHANGED <<flightVars, events>>

TooStale(c) == ~c.serveStale /\ (lastCycle = Never \/ now - lastCycle > c.bound)

(* checkServeStaleAllowed asks the configuration of now, not of start.     *)
(* From here on only the item matters.                                     *)
CheckStale(r) ==
    /\ req[r].pc = "check"
    /\ IF TooStale(config) THEN Return(r)
       ELSE Becomes(r, [Idle EXCEPT !.pc = "body", !.item = req[r].item])
    /\ OthersStay

(* A cycle may have dropped the item since it was resolved.                *)
ReadBody(r) ==
    /\ req[r].pc = "body"
    /\ IF req[r].item \subseteq index
       THEN Becomes(r, [req[r] EXCEPT !.pc = "meta", !.owed = unheeded /\ ~overtaken])
       ELSE Return(r)
    /\ OthersStay

ReadMeta(r) ==
    /\ req[r].pc = "meta"
    /\ Return(r)
    /\ OthersStay

AnswerMissing(r) ==
    /\ req[r].pc = "missing"
    /\ Return(r)
    /\ OthersStay

(* The upsert creates the item it did not find, and folds it in.           *)
CreateItem(r) ==
    /\ req[r].pc = "create"
    /\ \E i \in Titled :
          /\ Appears(i)
          /\ Becomes(r, [req[r] EXCEPT !.pc = "applyWrite", !.item = {i}])
    /\ UNCHANGED <<now, replicaVars, missVars, config, flightVars, clearing, markVars>>

CreateFails(r) ==
    /\ req[r].pc = "create"
    /\ Return(r)
    /\ OthersStay

ApplyWrite(r) ==
    /\ req[r].pc = "applyWrite"
    /\ index' = index \cup req[r].item
    /\ missed' = Never /\ missedHeard' = "nothing"
    /\ Return(r)
    /\ UNCHANGED <<now, serverVars, lastCycle, suspect, config, flightVars, clearing, markVars,
                   events>>

-----------------------------------------------------------------------------
(* The operators' side.                                                    *)

CycleRemembered == UNCHANGED lastCycle      \* mutant: only the mark is set
CycleForgotten == lastCycle' = Never

(* invalidate holds v.mu twice.                                            *)
Invalidate ==
    /\ Event
    /\ ~clearing
    /\ clearing' = TRUE
    /\ CycleForgotten
    /\ suspect' = TRUE
    /\ unheeded' = TRUE
    /\ overtaken' = FALSE
    /\ early' = (flight \in {"diff", "get"})
    /\ UNCHANGED <<now, serverVars, index, missVars, config, flightVars, req, lastApply>>

ClearMisses ==
    /\ clearing
    /\ clearing' = FALSE
    /\ missed' = Never /\ missedHeard' = "nothing"
    /\ UNCHANGED <<now, serverVars, replicaVars, config, flightVars, req, markVars,
                   events>>

(* applyConfig's swap: configuration and negative caches under b.mu.       *)
WriteConfig ==
    /\ Event
    /\ config' \in Configs
    /\ missed' = Never /\ missedHeard' = "nothing"
    /\ UNCHANGED <<now, serverVars, replicaVars, flightVars, req, clearing, markVars>>

-----------------------------------------------------------------------------
CycleStep == CycleFails \/ ListItems \/ Diff \/ Apply \/ CycleReturns

RequestStep(r) ==
    \/ Resolve(r) \/ Judge(r) \/ MissUnasked(r) \/ MissKnown(r) \/ MissAsked(r)
    \/ LeadCycle(r) \/ JoinCycle(r) \/ NoClient(r) \/ LookAgain(r) \/ Count(r) \/ EmptyVault(r)
    \/ StoreMiss(r) \/ CheckStale(r) \/ ReadBody(r) \/ ReadMeta(r) \/ AnswerMissing(r)
    \/ CreateItem(r) \/ CreateFails(r) \/ ApplyWrite(r)

Next ==
    \/ Tick \/ ChangedElsewhere
    \/ BackgroundCycle \/ CycleStep
    \/ \E r \in Requests : Begin(r) \/ RequestStep(r)
    \/ Invalidate \/ ClearMisses \/ WriteConfig

Spec == Init /\ [][Next]_vars

-----------------------------------------------------------------------------
(* Properties.                                                             *)

(* Who says "not found", or creates the item, may do so: no item of that   *)
(* title that 1Password holds was there when the request started, or,      *)
(* where the negative cache answered, negative_cache_ttl before.  No       *)
(* promise comes with an answer that rests on a cycle that failed, that    *)
(* could not fetch every item or that was in flight already, or on no      *)
(* cycle (passthrough off).                                                *)
MissIsJustified ==
    \A r \in Requests :
        req[r].pc \in {"missing", "create"} /\ req[r].heard = "listed" =>
            \A i \in Titled \cap present : born[i] + req[r].cfg.negTtl >= req[r].start

(* errReplicaEmpty: before a first cycle nobody is told "not found", and   *)
(* no upsert creates.  (A listing of such a vault is empty.)               *)
ColdIsNotAbsent ==
    \A r \in Requests : req[r].pc \in {"missing", "create"} => lastApply # Never

(* An invalidation marked the replica, and no cycle was applied after it.  *)
Marked == unheeded /\ ~overtaken

(* A read is served from the window only from a replica that a cycle has   *)
(* confirmed less than passthrough_ttl before the read started and that no *)
(* invalidation has marked since, whatever cycles, invalidations and       *)
(* config writes ran in between; and never with passthrough_ttl 0.  (The   *)
(* cycle may have listed before the invalidation it was applied after.)    *)
WindowHolds ==
    [][\A r \in Requests :
          req[r].pc = "known" /\ req'[r].heard = "window" =>
              /\ req[r].cfg.ttl # 0
              /\ lastApply # Never /\ lastApply + req[r].cfg.ttl > req[r].start
              /\ ~Marked]_vars

(* Whoever has read data from before an invalidation and is about to read  *)
(* the metadata that goes with it is told stale_suspect, whatever cycles   *)
(* failed meanwhile.  Two holes: a cycle that had listed before the        *)
(* invalidation is applied after it (overtaken), and a cycle applied       *)
(* between the body and the metadata of one response.                      *)
SuspectIsTold == \A r \in Requests : req[r].pc = "meta" /\ req[r].owed => suspect

-----------------------------------------------------------------------------
(* The inductive invariant behind the safety properties.                   *)

(* Nothing is stamped with a time to come.                                 *)
PastStamps ==
    /\ lastApply <= now
    /\ missed <= now
    /\ \A i \in Titled : born[i] <= now
    /\ \A r \in Requests : req[r].start <= now

(* A zero lastCycle or an empty replica is all there is before a cycle.    *)
WarmFits ==
    /\ lastCycle # Never => lastCycle = lastApply
    /\ index # {} \/ missed # Never => lastApply # Never
    /\ \A r \in Requests : req[r].pc \in {"store", "applyWrite"} => lastApply # Never

HeardFits ==
    /\ missedHeard # "window"
    /\ \A r \in Requests : req[r].heard = "window" => req[r].pc = "check"
    /\ \A r \in Requests :
          req[r].pc \in {"resolve", "known", "unknown", "cycle", "waiting"} =>
              req[r].heard = "nothing"

(* An invalidation is forgotten by no cycle but one that has applied.      *)
InvalidationKept ==
    /\ Marked => suspect /\ lastCycle = Never
    /\ \A r \in Requests : req[r].pc = "meta" /\ req[r].owed => Marked

(* Item i is in the index and the cycle in flight will leave it there.     *)
Survives(i) ==
    /\ i \in index
    /\ flight = "diff" => i \in listing
    /\ flight = "get" => i \notin toRemove

(* 1Password has held item i since before r started.                       *)
Older(i, r) == i \in present /\ born[i] < req[r].start

(* A cycle finds whatever was there when its leader started ...            *)
CycleFinds ==
    flight # "none" /\ leader \in Requests =>
        /\ req[leader].pc = "waiting"
        /\ \A i \in Titled :
              Older(i, leader) =>
                  /\ flight = "diff" => i \in listing
                  /\ flight = "get" => i \in toFetch \/ Survives(i)
                  /\ flight = "done" /\ whole => i \in index

(* ... which its leader then finds in the index, or else it is not there.  *)
LeaderFinds ==
    \A r \in Requests, i \in Titled :
        req[r].heard = "listed" /\ Older(i, r) =>
            /\ req[r].pc = "again" => Survives(i)
            /\ req[r].pc \notin {"count", "cold", "store"}

MissFits ==
    missed # Never /\ missedHeard = "listed" =>
        \A i \in Titled \cap present : born[i] >= missed

IInv ==
    /\ TypeOK
    /\ PastStamps
    /\ WarmFits
    /\ HeardFits
    /\ InvalidationKept
    /\ CycleFinds
    /\ LeaderFinds
    /\ MissFits
    /\ MissIsJustified
    /\ ColdIsNotAbsent
    /\ SuspectIsTold

=============================================================================
