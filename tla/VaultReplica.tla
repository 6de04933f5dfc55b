---------------------------- MODULE VaultReplica ----------------------------
(***************************************************************************)
(* One vault of the op secrets engine: the 1Password vault behind it, the  *)
(* in-memory replica (backend/replica.go), the single-flighted delta cycle *)
(* (backend/cycle.go) and the write handlers that fold their result into   *)
(* the replica (backend/writes.go).                                        *)
(*                                                                         *)
(* Granularity.  A step is one critical section of v.mu or v.cycleMu, or   *)
(* one 1Password request seen at the moment 1Password serves it.  Between  *)
(* two steps of a goroutine any other goroutine may run.                   *)
(*                                                                         *)
(* Data.  An item is its ID and a version.  1Password stamps every edit    *)
(* with a new Version and a new UpdatedAt, so one number stands for both:  *)
(* overview[i] is the UpdatedAt the index holds for item i, bodies[i] the  *)
(* Version of the body, and Absent says that the map has no such key.      *)
(* Titles, addresses, the negative cache and the freshness window of the   *)
(* read path are left out; what the governor decides is in Governor: here  *)
(* a cycle may simply be denied.  Who asks for cycles is in Engine.        *)
(***************************************************************************)
EXTENDS Integers, FiniteSets

CONSTANTS
    Items,        \* item IDs; 1Password never gives an ID out twice
    Callers,      \* goroutines that call runCycle
    Writers,      \* goroutines inside a write handler
    Nobody,       \* "no inflight cycle" (v.inflight == nil)
    ChunkSize,    \* IDs per GetAll request (maxGetAllIDs)
    MaxEdits,     \* bound: changes of the 1Password vault in a behaviour
    MaxFaults     \* bound: denials, failed or lost requests, crashes

ASSUME NobodyAssumption == Nobody \notin Callers \cup Items
ASSUME BoundAssumption ==
    ChunkSize \in Nat \ {0} /\ MaxEdits \in Nat /\ MaxFaults \in Nat

Absent == 0

VARIABLES
    (* the 1Password vault *)
    state,       \* item -> "unborn", "active", "archived" or "deleted"
    version,     \* item -> its Version, and the rank of its UpdatedAt
    (* vaultReplica *)
    overview,    \* item -> UpdatedAt in v.overview, or Absent
    bodies,      \* item -> Version of the body in v.bodies, or Absent
    tombstones,  \* IDs deleted through the engine
    freshness,   \* "never" cycled, "cycled" (lastCycle set), or "suspect": invalidated since
    consecutiveFailures,
    (* runCycle and doCycle *)
    inflight,    \* the caller that leads the published cycle, or Nobody
    pc,          \* caller -> where it is in runCycle / doCycle
    leader,      \* caller -> whose result it waits for
    ret,         \* caller -> outcome of its last call
    active,      \* caller -> item -> UpdatedAt its ListItems returned, or Absent
    toFetch,     \* caller -> IDs still to be fetched
    toRemove,    \* caller -> IDs to drop
    results,     \* caller -> item -> Version fetched, Absent for a per-item error
    (* write handlers *)
    wpc,         \* writer -> where it is in its handler
    target,      \* writer -> the item it addresses
    wver,        \* writer -> Version of the item 1Password returned
    (* bounds *)
    edits, faults,
    (* history: what the engine has promised its callers *)
    acked,       \* item -> highest Version a caller was told is written
    raced,       \* items a cycle dropped while 1Password held them active
    gone,        \* items whose deletion through the engine was folded in
    revived      \* items in gone that a late applyWrite put back

serverVars  == <<state, version>>
indexVars   == <<overview, bodies>>
replicaVars == <<indexVars, tombstones, freshness, consecutiveFailures>>
fetchVars   == <<active, toFetch, toRemove, results>>
flightVars  == <<inflight, leader>>
cycleVars   == <<flightVars, pc, ret, fetchVars>>
writerVars  == <<wpc, target, wver>>
historyVars == <<acked, raced, gone, revived>>
vars == <<serverVars, replicaVars, cycleVars, writerVars, edits, faults, historyVars>>

NoItems == [i \in Items |-> Absent]

Phases == {"idle", "waiting", "list", "diff", "get", "unpublish", "release"}
InCycle == {"list", "diff", "get", "unpublish"}     \* between lines 101 and 107
Outcomes == {"none", "ok", "denied", "failed"}
WriterPhases == {"idle", "put", "applyWrite", "delete", "applyDelete"}
Exists == {"active", "archived"}

TypeOK ==
    /\ state \in [Items -> {"unborn", "deleted"} \cup Exists]
    /\ version \in [Items -> Nat]
    /\ overview \in [Items -> Nat]
    /\ bodies \in [Items -> Nat]
    /\ tombstones \in SUBSET Items
    /\ freshness \in {"never", "cycled", "suspect"}
    /\ consecutiveFailures \in Nat
    /\ inflight \in Callers \cup {Nobody}
    /\ pc \in [Callers -> Phases]
    /\ leader \in [Callers -> Callers \cup {Nobody}]
    /\ ret \in [Callers -> Outcomes]
    /\ active \in [Callers -> [Items -> Nat]]
    /\ toFetch \in [Callers -> SUBSET Items]
    /\ toRemove \in [Callers -> SUBSET Items]
    /\ results \in [Callers -> [Items -> Nat]]
    /\ wpc \in [Writers -> WriterPhases]
    /\ target \in [Writers -> Items \cup {Nobody}]
    /\ \A w \in Writers : wpc[w] # "idle" => target[w] \in Items
    /\ wver \in [Writers -> Nat]
    /\ edits \in Nat
    /\ faults \in Nat
    /\ acked \in [Items -> Nat]
    /\ raced \in SUBSET Items
    /\ gone \in SUBSET Items
    /\ revived \in SUBSET Items

(* newVaultReplica: nothing is known of a vault that may already hold      *)
(* items.                                                                  *)
EmptyReplica ==
    /\ overview = NoItems
    /\ bodies = NoItems
    /\ tombstones = {}
    /\ freshness = "never"
    /\ consecutiveFailures = 0

NoCycles ==
    /\ inflight = Nobody
    /\ pc = [c \in Callers |-> "idle"]
    /\ leader = [c \in Callers |-> Nobody]
    /\ ret = [c \in Callers |-> "none"]
    /\ active = [c \in Callers |-> NoItems]
    /\ toFetch = [c \in Callers |-> {}]
    /\ toRemove = [c \in Callers |-> {}]
    /\ results = [c \in Callers |-> NoItems]

Init ==
    /\ state \in [Items -> {"unborn", "active"}]
    /\ version = [i \in Items |-> IF state[i] = "active" THEN 1 ELSE 0]
    /\ EmptyReplica
    /\ NoCycles
    /\ wpc = [w \in Writers |-> "idle"]
    /\ target = [w \in Writers |-> Nobody]
    /\ wver = [w \in Writers |-> 0]
    /\ edits = 0
    /\ faults = 0
    /\ acked = NoItems
    /\ raced = {}
    /\ gone = {}
    /\ revived = {}

-----------------------------------------------------------------------------
(* Bounds.                                                                 *)

Edit  == edits < MaxEdits /\ edits' = edits + 1
Fault == faults < MaxFaults /\ faults' = faults + 1

(* 1Password changes item i: its Version and its UpdatedAt grow.           *)
Store(i, s) ==
    /\ Edit
    /\ state' = [state EXCEPT ![i] = s]
    /\ version' = [version EXCEPT ![i] = @ + 1]

-----------------------------------------------------------------------------
(* 1Password is shared: people and other clients change the vault too.     *)

ChangedElsewhere(i) ==
    /\ \/ state[i] = "unborn" /\ Store(i, "active")
       \/ state[i] \in Exists /\ \E s \in Exists \cup {"deleted"} : Store(i, s)
    /\ UNCHANGED <<replicaVars, cycleVars, writerVars, faults, historyVars>>

-----------------------------------------------------------------------------
(* The delta cycle.                                                        *)

Set(f, c, v) == [f EXCEPT ![c] = v]

RunCycleUnguarded(c) ==      \* mutant: v.inflight is not looked at
    /\ pc[c] = "idle"
    /\ ret' = Set(ret, c, "none")
    /\ inflight' = c
    /\ pc' = Set(pc, c, "list")
    /\ UNCHANGED <<serverVars, replicaVars, leader, fetchVars, writerVars, edits, faults, historyVars>>

(* runCycle, up to doCycle: lead a new cycle, or wait for the published    *)
(* one.                                                                    *)
RunCycle(c) ==
    /\ pc[c] = "idle"
    /\ ret' = Set(ret, c, "none")
    /\ IF inflight = Nobody
       THEN inflight' = c /\ pc' = Set(pc, c, "list") /\ UNCHANGED leader
       ELSE pc' = Set(pc, c, "waiting") /\ leader' = Set(leader, c, inflight) /\ UNCHANGED inflight
    /\ UNCHANGED <<serverVars, replicaVars, fetchVars, writerVars, edits, faults, historyVars>>

(* doCycle returns an error.                                               *)
Fails(c, outcome) ==
    /\ Fault
    /\ pc' = Set(pc, c, "unpublish")
    /\ ret' = Set(ret, c, outcome)
    /\ UNCHANGED <<serverVars, indexVars, tombstones, freshness, flightVars, fetchVars,
                   writerVars, edits, historyVars>>

GateDenies(c) ==
    /\ pc[c] = "list"
    /\ Fails(c, "denied")
    /\ UNCHANGED consecutiveFailures

(* A whole-call error of ListItems or of one GetAll request.               *)
RequestFails(c) ==
    /\ \/ pc[c] = "list"
       \/ pc[c] = "get" /\ toFetch[c] # {}
    /\ Fails(c, "failed")
    /\ consecutiveFailures' = consecutiveFailures + 1

(* ListItems, Active items only.                                           *)
Listed == [i \in Items |-> IF state[i] = "active" THEN version[i] ELSE Absent]

ListItems(c) ==
    /\ pc[c] = "list"
    /\ pc' = Set(pc, c, "diff")
    /\ active' = Set(active, c, Listed)
    /\ UNCHANGED <<serverVars, replicaVars, flightVars, ret, toFetch, toRemove, results,
                   writerVars, edits, faults, historyVars>>

(* The diff of UpdatedAt against the index, under v.mu.                    *)
ChangedNewOnly(c) ==                       \* mutant: an update goes unseen
    {i \in Items : active[c][i] # Absent /\ overview[i] = Absent}
Changed(c) == {i \in Items : active[c][i] # Absent /\ overview[i] # active[c][i]}

Unlisted(c) == {i \in Items : overview[i] # Absent /\ active[c][i] = Absent}

Diff(c) ==
    /\ pc[c] = "diff"
    /\ pc' = Set(pc, c, "get")
    /\ toFetch' = Set(toFetch, c, Changed(c))
    /\ toRemove' = Set(toRemove, c, Unlisted(c))
    /\ UNCHANGED <<serverVars, replicaVars, flightVars, ret, active, results, writerVars,
                   edits, faults, historyVars>>

(* One GetAll request: each ID of the chunk answers with the item as it is *)
(* now or with an error of its own.                                        *)
GetItems(c) ==
    /\ pc[c] = "get"
    /\ \E chunk \in SUBSET toFetch[c] :
          /\ chunk # {}
          /\ Cardinality(chunk) = ChunkSize \/ (chunk = toFetch[c] /\ Cardinality(chunk) < ChunkSize)
          /\ \E errs \in SUBSET chunk :
                /\ IF errs = {} THEN UNCHANGED faults ELSE Fault
                /\ results' = Set(results, c,
                      [i \in Items |-> CASE i \in chunk \ errs /\ state[i] \in Exists -> version[i]
                                         [] i \in chunk /\ (i \in errs \/ state[i] \notin Exists) -> Absent
                                         [] OTHER -> results[c][i]])
          /\ toFetch' = Set(toFetch, c, toFetch[c] \ chunk)
    /\ UNCHANGED <<serverVars, replicaVars, flightVars, pc, ret, active, toRemove, writerVars,
                   edits, historyVars>>

(* What a fetched result may touch: never a tombstoned item, never a newer *)
(* body.                                                                   *)
LandedRegressing(c) ==           \* mutant: versions are not compared
    {i \in Items : results[c][i] # Absent /\ i \notin tombstones}

Landed(c) ==
    {i \in Items : results[c][i] # Absent /\ i \notin tombstones /\ bodies[i] <= results[c][i]}

IndexOfListing(c) == active[c]   \* mutant: the listing becomes the index, fetched or not
NewIndex(c) ==
    [i \in Items |-> IF i \in toRemove[c] THEN Absent
                     ELSE IF i \in Landed(c) THEN active[c][i] ELSE overview[i]]

BodiesKept(c) ==                 \* mutant: the body of a dropped item is kept
    [i \in Items |-> IF i \in Landed(c) THEN results[c][i] ELSE bodies[i]]
NewBodies(c) ==
    [i \in Items |-> IF i \in toRemove[c] THEN Absent
                     ELSE IF i \in Landed(c) THEN results[c][i] ELSE bodies[i]]

KeptTombstones(c) == {i \in tombstones : active[c][i] # Absent}

(* doCycle's last critical section.                                        *)
Apply(c) ==
    /\ pc[c] = "get"
    /\ toFetch[c] = {}
    /\ overview' = NewIndex(c)
    /\ bodies' = NewBodies(c)
    /\ tombstones' = KeptTombstones(c)
    /\ freshness' = "cycled"
    /\ consecutiveFailures' = 0
    /\ pc' = Set(pc, c, "unpublish")
    /\ ret' = Set(ret, c, "ok")
    /\ acked' = [i \in Items |-> IF i \in toRemove[c] /\ state[i] # "active" THEN Absent ELSE acked[i]]
    /\ raced' = (raced \cup {i \in toRemove[c] : state[i] = "active"}) \ Landed(c)
    /\ revived' = revived \ toRemove[c]
    /\ UNCHANGED <<serverVars, flightVars, fetchVars, writerVars, edits, faults, gone>>

(* v.inflight = nil: the next caller leads a cycle of its own.             *)
Unpublish(c) ==
    /\ pc[c] = "unpublish"
    /\ inflight' = Nobody
    /\ pc' = Set(pc, c, "release")
    /\ active' = Set(active, c, NoItems)
    /\ toFetch' = Set(toFetch, c, {})
    /\ toRemove' = Set(toRemove, c, {})
    /\ results' = Set(results, c, NoItems)
    /\ UNCHANGED <<serverVars, replicaVars, leader, ret, writerVars, edits, faults, historyVars>>

FollowersForgotten(c) == {}                 \* mutant: wg.Done is missing
Followers(c) == {d \in Callers : pc[d] = "waiting" /\ leader[d] = c}
(* wg.Done: the leader and everyone who waits for it return r.err.         *)
Release(c) ==
    /\ pc[c] = "release"
    /\ LET back == {c} \cup Followers(c)
       IN  /\ pc' = [d \in Callers |-> IF d \in back THEN "idle" ELSE pc[d]]
           /\ leader' = [d \in Callers |-> IF d \in back THEN Nobody ELSE leader[d]]
           /\ ret' = [d \in Callers |-> IF d \in back THEN ret[c] ELSE ret[d]]
    /\ UNCHANGED <<serverVars, replicaVars, inflight, fetchVars, writerVars, edits, faults,
                   historyVars>>

-----------------------------------------------------------------------------
(* The write handlers.  A handler finds the item in the replica (after a   *)
(* miss cycle if need be: that is one of the Callers), asks 1Password to   *)
(* change it, and folds the answer into the replica.                       *)

WriterStays == UNCHANGED <<replicaVars, cycleVars, historyVars>>

(* The handler returns, and its locals with it.                            *)
Return(w) ==
    /\ wpc' = Set(wpc, w, "idle")
    /\ target' = Set(target, w, Nobody)
    /\ wver' = Set(wver, w, 0)

LocateMissed(w) ==               \* mutant: a miss goes on as if it were found
    /\ wpc[w] = "idle"
    /\ wpc' = Set(wpc, w, "put")
    /\ UNCHANGED <<serverVars, target, wver, edits, faults>>
    /\ WriterStays

(* locateItem found the item.                                              *)
Locate(w) ==
    /\ wpc[w] = "idle"
    /\ \E i \in Items, op \in {"put", "delete"} :
          /\ overview[i] # Absent
          /\ wpc' = Set(wpc, w, op)
          /\ target' = Set(target, w, i)
    /\ UNCHANGED <<serverVars, wver, edits, faults>>
    /\ WriterStays

(* 1Password answers with the item it stored: CreateItem for an address    *)
(* that is nowhere in the replica, PutItem for one that was found.         *)
CreateItem(w) ==
    /\ wpc[w] = "idle"
    /\ \E i \in Items :
          /\ state[i] = "unborn"
          /\ Store(i, "active")
          /\ target' = Set(target, w, i)
          /\ wver' = Set(wver, w, version[i] + 1)
    /\ wpc' = Set(wpc, w, "applyWrite")
    /\ UNCHANGED faults
    /\ WriterStays

PutItem(w) ==
    /\ wpc[w] = "put"
    /\ state[target[w]] \in Exists
    /\ Store(target[w], state[target[w]])
    /\ wver' = Set(wver, w, version[target[w]] + 1)
    /\ wpc' = Set(wpc, w, "applyWrite")
    /\ UNCHANGED <<target, faults>>
    /\ WriterStays

DeleteItem(w) ==
    /\ wpc[w] = "delete"
    /\ state[target[w]] \in Exists
    /\ Store(target[w], "deleted")
    /\ wpc' = Set(wpc, w, "applyDelete")
    /\ UNCHANGED <<target, wver, faults>>
    /\ WriterStays

(* The SDK call fails, and the handler returns the error: 1Password has no *)
(* such item, or refuses, or does as it was told but the answer is lost.   *)
WriteFails(w) ==
    /\ wpc[w] \in {"put", "delete"}
    /\ \/ /\ state[target[w]] \notin Exists
          /\ UNCHANGED <<serverVars, edits, faults>>
       \/ /\ Fault
          /\ UNCHANGED <<serverVars, edits>>
       \/ /\ state[target[w]] \in Exists
          /\ Fault
          /\ Store(target[w], IF wpc[w] = "put" THEN state[target[w]] ELSE "deleted")
    /\ Return(w)
    /\ WriterStays

SupersedesAlways(i, v) == i \in Items              \* mutant: applyWrite compares nothing
Supersedes(i, v) == bodies[i] <= v

ApplyWrite(w) ==
    LET i == target[w]
    IN  /\ wpc[w] = "applyWrite"
        /\ IF Supersedes(i, wver[w])
           THEN /\ tombstones' = tombstones \ {i}
                /\ overview' = Set(overview, i, wver[w])
                /\ bodies' = Set(bodies, i, wver[w])
                /\ revived' = revived \cup ({i} \cap gone)
           ELSE UNCHANGED <<indexVars, tombstones, revived>>
        /\ acked' = Set(acked, i, IF wver[w] > acked[i] THEN wver[w] ELSE acked[i])
        /\ Return(w)
        /\ UNCHANGED <<serverVars, freshness, consecutiveFailures, cycleVars, edits, faults, raced, gone>>

NotBuried(i) == tombstones                      \* mutant: no tombstone is left
Buried(i) == tombstones \cup {i}

ApplyDelete(w) ==
    LET i == target[w]
    IN  /\ wpc[w] = "applyDelete"
        /\ overview' = Set(overview, i, Absent)
        /\ bodies' = Set(bodies, i, Absent)
        /\ tombstones' = Buried(i)
        /\ acked' = Set(acked, i, Absent)
        /\ gone' = gone \cup {i}
        /\ revived' = revived \ {i}
        /\ Return(w)
        /\ UNCHANGED <<serverVars, freshness, consecutiveFailures, cycleVars, edits, faults, raced>>

-----------------------------------------------------------------------------
(* op/invalidate: no request is spent, the vault is only marked.           *)
Invalidate ==
    /\ freshness' = "suspect"
    /\ UNCHANGED <<serverVars, indexVars, tombstones, consecutiveFailures, cycleVars,
                   writerVars, edits, faults, historyVars>>

(* The plugin process dies and starts again: there is no copy on disk.     *)
Restart ==
    /\ Fault
    /\ overview' = NoItems /\ bodies' = NoItems /\ tombstones' = {}
    /\ freshness' = "never" /\ consecutiveFailures' = 0
    /\ inflight' = Nobody
    /\ pc' = [c \in Callers |-> "idle"]
    /\ leader' = [c \in Callers |-> Nobody]
    /\ ret' = [c \in Callers |-> "none"]
    /\ active' = [c \in Callers |-> NoItems]
    /\ toFetch' = [c \in Callers |-> {}]
    /\ toRemove' = [c \in Callers |-> {}]
    /\ results' = [c \in Callers |-> NoItems]
    /\ wpc' = [w \in Writers |-> "idle"]
    /\ target' = [w \in Writers |-> Nobody]
    /\ wver' = [w \in Writers |-> 0]
    /\ acked' = NoItems
    /\ raced' = {}
    /\ revived' = {}
    /\ UNCHANGED <<serverVars, edits, gone>>

-----------------------------------------------------------------------------
LeaderStep(c) ==
    \/ GateDenies(c) \/ RequestFails(c) \/ ListItems(c) \/ Diff(c) \/ GetItems(c)
    \/ Apply(c) \/ Unpublish(c) \/ Release(c)

WriterStep(w) ==
    \/ Locate(w) \/ CreateItem(w) \/ PutItem(w) \/ DeleteItem(w) \/ WriteFails(w)
    \/ ApplyWrite(w) \/ ApplyDelete(w)

Next ==
    \/ \E i \in Items : ChangedElsewhere(i)
    \/ \E c \in Callers : RunCycle(c) \/ LeaderStep(c)
    \/ \E w \in Writers : WriterStep(w)
    \/ Invalidate
    \/ Restart

Spec == Init /\ [][Next]_vars

(* The timer cycles a vault whose replica is empty (coldStart) or whose    *)
(* lastCycle is set (periodic).  It passes over one that holds items and   *)
(* has no lastCycle: invalidated since, or written to before its first     *)
(* cycle.  Only a read, a refresh or a write that misses cycles that one.  *)
PassedOver == freshness # "cycled" /\ overview # NoItems

TimerTick == ~PassedOver /\ \E c \in Callers : RunCycle(c)

(* An SDK call returns, with an answer or with an error; a goroutine that  *)
(* can run does; and the timer never stops.  Nothing makes anybody read,   *)
(* refresh, write or change the vault.                                     *)
FairSpec ==
    /\ Spec
    /\ \A c \in Callers : WF_vars(LeaderStep(c))
    /\ WF_vars(TimerTick)

-----------------------------------------------------------------------------
(* Properties.                                                             *)

(* Full materialization: an item is in the index exactly when its body is  *)
(* held (rebuildIndexesLocked, body and the read paths rely on it: a       *)
(* resolved address without a body, or a body no address reaches).         *)
IndexMatchesBodies ==
    \A i \in Items : overview[i] = Absent <=> bodies[i] = Absent

(* The index never runs ahead of the body it stands for.  If it did, the   *)
(* next diff would find the UpdatedAt equal and the old body would stay    *)
(* for ever: no retry bookkeeping would notice.                            *)
IndexNotAheadOfBody ==
    \A i \in Items : overview[i] <= bodies[i] /\ bodies[i] <= version[i]

(* A write a caller was told of is what the replica serves, or something   *)
(* newer, against every racing cycle and every late applyWrite; the one    *)
(* hole is a cycle that listed before the item was there (raced).          *)
AckedWriteVisible ==
    \A i \in Items \ raced : acked[i] <= bodies[i]

(* An item deleted through the engine is never served again, whatever      *)
(* cycle, failure or restart is under way; the one hole is a write to the  *)
(* same item whose answer is folded in after the delete (revived).         *)
DeletedStaysGone ==
    \A i \in gone \ revived : overview[i] = Absent /\ bodies[i] = Absent

(* No step puts an older body in the place of a newer one.                 *)
BodyNeverRegresses ==
    [][\A i \in Items : bodies[i] # Absent /\ bodies'[i] # Absent => bodies[i] <= bodies'[i]]_vars

(* Whoever calls for a cycle returns, followers of a failed leader too.    *)
EveryCallReturns == \A c \in Callers : []<>(pc[c] = "idle")

(* Once the vault is quiet and faults have ended, the replica ends up with *)
(* exactly the active items, each at its last version, index and body; or  *)
(* it is passed over for good, left invalidated with nobody reading it.    *)
Converges ==
    \/ <>[](overview = Listed /\ bodies = Listed)
    \/ <>[]PassedOver

(* runCycle keeps the promise of Coalescing: callers see one execution at  *)
(* a time, and the outcome of the one they joined.                         *)
Promise == INSTANCE Coalescing WITH
    open    <- inflight,
    group   <- [c \in Callers |-> IF pc[c] = "idle" THEN Nobody
                                  ELSE IF pc[c] = "waiting" THEN leader[c] ELSE c],
    outcome <- [c \in Callers |-> IF pc[c] = "idle" THEN ret[c] ELSE "none"]

Coalesces == Promise!Spec

(* backend/writes.go's plan, "an immediate read returns the new value":     *)
(* AckedWriteVisible without its hole.                                     *)
ReadYourWrites == \A i \in Items : acked[i] <= bodies[i]

-----------------------------------------------------------------------------
(* The inductive invariant behind the safety properties.                   *)

(* The cycle being led is the published one, and the other way round.      *)
SingleFlight ==
    /\ \A c \in Callers : pc[c] \in InCycle => inflight = c
    /\ inflight # Nobody => pc[inflight] \in InCycle
    /\ \A c \in Callers : pc[c] = "waiting" => leader[c] \in Callers

(* What 1Password says of an item's life and Version.                      *)
ServerFits ==
    /\ \A i \in Items : state[i] \in Exists => version[i] > 0
    /\ \A i \in Items : acked[i] <= version[i]
    /\ \A i \in gone : state[i] = "deleted"

(* Locals of doCycle: the fetch follows the listing, so no body is older   *)
(* than its listing, and what goes was not listed.                         *)
LocalsFit ==
    \A c \in Callers :
        /\ pc[c] \notin {"get", "unpublish"} =>
              results[c] = NoItems /\ toFetch[c] = {} /\ toRemove[c] = {}
        /\ \A i \in Items : active[c][i] <= version[i]
        /\ \A i \in toFetch[c] : active[c][i] # Absent
        /\ \A i \in toRemove[c] : active[c][i] = Absent
        /\ \A i \in Items : results[c][i] # Absent =>
              /\ active[c][i] # Absent
              /\ active[c][i] <= results[c][i]
              /\ results[c][i] <= version[i]

(* A writer waiting for v.mu holds what 1Password answered.                *)
WritersFit ==
    \A w \in Writers :
        /\ wpc[w] = "applyWrite" => 0 < wver[w] /\ wver[w] <= version[target[w]]
        /\ wpc[w] = "applyDelete" => state[target[w]] = "deleted"

(* A fetched body may be older than an acknowledged write only if the      *)
(* replica already holds something at least as new as that write.          *)
FetchedFits ==
    \A c \in Callers, i \in Items :
        pc[c] = "get" /\ results[c][i] # Absent =>
            acked[i] <= results[c][i] \/ acked[i] <= bodies[i]

(* A cycle that still lists a deleted item meets its tombstone.            *)
DeadAreBuried ==
    \A c \in Callers, i \in gone :
        pc[c] \in {"diff", "get"} /\ active[c][i] # Absent => i \in tombstones \cup revived

IInv ==
    /\ TypeOK
    /\ SingleFlight
    /\ ServerFits
    /\ LocalsFit
    /\ WritersFit
    /\ FetchedFits
    /\ DeadAreBuried
    /\ IndexMatchesBodies
    /\ IndexNotAheadOfBody
    /\ AckedWriteVisible
    /\ DeletedStaysGone

=============================================================================
