--------------------------- MODULE ReadPathProofs ---------------------------
(***************************************************************************)
(* What an answer of the read path is worth, for every number of items,    *)
(* readers and upserters, every configuration and every bound: IInv of     *)
(* ReadPath is inductive, and its properties follow.                       *)
(***************************************************************************)
EXTENDS ReadPath, TLAPS

USE ItemsAssumption, NamesAssumption, ConfigsAssumption

\* The configuration and the record a request starts from are what they should be.
LEMMA IdleTyped == Idle \in Request /\ Idle.pc = "idle" /\ Idle.heard = "nothing" /\ Idle.owed = FALSE
                   /\ Idle.start = 0 /\ Idle.item = {}
  <1>1. (CHOOSE c \in Configs : TRUE) \in Configs
    OBVIOUS
  <1> QED
    BY <1>1 DEF Idle, Request, Phases, Heard

\* A step moves request r only.
Only(r) == /\ req' \in [Requests -> Request]
           /\ \A q \in Requests : q # r => req'[q] = req[q]

\* It works with the configuration and the time it started with.
Held(r) == req'[r].cfg = req[r].cfg /\ req'[r].start = req[r].start

\* A request that becomes a well-formed record leaves the others alone.
LEMMA BecomesTyped ==
    ASSUME req \in [Requests -> Request], NEW r \in Requests, NEW rec \in Request, Becomes(r, rec)
    PROVE  Only(r) /\ req'[r] = rec
  BY DEF Becomes, Only

\* What the updates of a record do, field by field: a request goes on,
LEMMA GotoDoes ==
    ASSUME req \in [Requests -> Request], NEW r \in Requests,
           NEW p \in Phases, Goto(r, p)
    PROVE  /\ Only(r)
           /\ req'[r].pc = p /\ req'[r].cfg = req[r].cfg /\ req'[r].start = req[r].start
           /\ req'[r].item = req[r].item /\ req'[r].heard = req[r].heard /\ req'[r].owed = req[r].owed
  <1> DEFINE rec == [req[r] EXCEPT !.pc = p]
  <1>1. req[r] \in Request
    OBVIOUS
  <1>2. rec \in Request
    BY <1>1, IdleTyped DEF Request, Phases, Heard
  <1>3. /\ rec.pc = p /\ rec.cfg = req[r].cfg /\ rec.start = req[r].start
        /\ rec.item = req[r].item /\ rec.heard = req[r].heard /\ rec.owed = req[r].owed
    BY <1>1, IdleTyped DEF Request
  <1>4. Becomes(r, rec)
    BY DEF Goto
  <1> HIDE DEF rec
  <1>5. Only(r) /\ req'[r] = rec
    BY <1>2, <1>4, BecomesTyped
  <1> QED
    BY <1>3, <1>5

\* it goes on with what it has heard,
LEMMA HearingDoes ==
    ASSUME req \in [Requests -> Request], NEW r \in Requests,
           NEW p \in Phases, NEW h \in Heard,
           Becomes(r, [req[r] EXCEPT !.pc = p, !.heard = h])
    PROVE  /\ Only(r)
           /\ req'[r].pc = p /\ req'[r].cfg = req[r].cfg /\ req'[r].start = req[r].start
           /\ req'[r].item = req[r].item /\ req'[r].heard = h /\ req'[r].owed = req[r].owed
  <1> DEFINE rec == [req[r] EXCEPT !.pc = p, !.heard = h]
  <1>1. req[r] \in Request
    OBVIOUS
  <1>2. rec \in Request
    BY <1>1, IdleTyped DEF Request, Phases, Heard
  <1>3. /\ rec.pc = p /\ rec.cfg = req[r].cfg /\ rec.start = req[r].start
        /\ rec.item = req[r].item /\ rec.heard = h /\ rec.owed = req[r].owed
    BY <1>1, IdleTyped DEF Request
  <1>4. Becomes(r, rec)
    BY DEF Becomes
  <1> HIDE DEF rec
  <1>5. Only(r) /\ req'[r] = rec
    BY <1>2, <1>4, BecomesTyped
  <1> QED
    BY <1>3, <1>5

\* with an item,
LEMMA FindingDoes ==
    ASSUME req \in [Requests -> Request], NEW r \in Requests,
           NEW p \in Phases, NEW i \in SUBSET Items,
           Becomes(r, [req[r] EXCEPT !.pc = p, !.item = i])
    PROVE  /\ Only(r)
           /\ req'[r].pc = p /\ req'[r].cfg = req[r].cfg /\ req'[r].start = req[r].start
           /\ req'[r].item = i /\ req'[r].heard = req[r].heard /\ req'[r].owed = req[r].owed
  <1> DEFINE rec == [req[r] EXCEPT !.pc = p, !.item = i]
  <1>1. req[r] \in Request
    OBVIOUS
  <1>2. rec \in Request
    BY <1>1, IdleTyped DEF Request, Phases, Heard
  <1>3. /\ rec.pc = p /\ rec.cfg = req[r].cfg /\ rec.start = req[r].start
        /\ rec.item = i /\ rec.heard = req[r].heard /\ rec.owed = req[r].owed
    BY <1>1, IdleTyped DEF Request
  <1>4. Becomes(r, rec)
    BY DEF Becomes
  <1> HIDE DEF rec
  <1>5. Only(r) /\ req'[r] = rec
    BY <1>2, <1>4, BecomesTyped
  <1> QED
    BY <1>3, <1>5

\* with what its response owes,
LEMMA OwingDoes ==
    ASSUME req \in [Requests -> Request], NEW r \in Requests,
           NEW p \in Phases, NEW o \in BOOLEAN,
           Becomes(r, [req[r] EXCEPT !.pc = p, !.owed = o])
    PROVE  /\ Only(r)
           /\ req'[r].pc = p /\ req'[r].cfg = req[r].cfg /\ req'[r].start = req[r].start
           /\ req'[r].item = req[r].item /\ req'[r].heard = req[r].heard /\ req'[r].owed = o
  <1> DEFINE rec == [req[r] EXCEPT !.pc = p, !.owed = o]
  <1>1. req[r] \in Request
    OBVIOUS
  <1>2. rec \in Request
    BY <1>1, IdleTyped DEF Request, Phases, Heard
  <1>3. /\ rec.pc = p /\ rec.cfg = req[r].cfg /\ rec.start = req[r].start
        /\ rec.item = req[r].item /\ rec.heard = req[r].heard /\ rec.owed = o
    BY <1>1, IdleTyped DEF Request
  <1>4. Becomes(r, rec)
    BY DEF Becomes
  <1> HIDE DEF rec
  <1>5. Only(r) /\ req'[r] = rec
    BY <1>2, <1>4, BecomesTyped
  <1> QED
    BY <1>3, <1>5

\* with the item alone,
LEMMA BodyDoes ==
    ASSUME req \in [Requests -> Request], NEW r \in Requests,
           NEW i \in SUBSET Items,
           Becomes(r, [Idle EXCEPT !.pc = "body", !.item = i])
    PROVE  /\ Only(r)
           /\ req'[r].pc = "body" /\ req'[r].cfg = Idle.cfg /\ req'[r].start = 0
           /\ req'[r].item = i /\ req'[r].heard = "nothing" /\ req'[r].owed = FALSE
  <1> DEFINE rec == [Idle EXCEPT !.pc = "body", !.item = i]
  <1>1. req[r] \in Request
    OBVIOUS
  <1>2. rec \in Request
    BY <1>1, IdleTyped DEF Request, Phases, Heard
  <1>3. /\ rec.pc = "body" /\ rec.cfg = Idle.cfg /\ rec.start = 0
        /\ rec.item = i /\ rec.heard = "nothing" /\ rec.owed = FALSE
    BY <1>1, IdleTyped DEF Request
  <1>4. Becomes(r, rec)
    BY DEF Becomes
  <1> HIDE DEF rec
  <1>5. Only(r) /\ req'[r] = rec
    BY <1>2, <1>4, BecomesTyped
  <1> QED
    BY <1>3, <1>5

\* it starts,
LEMMA BeginDoes ==
    ASSUME req \in [Requests -> Request], NEW r \in Requests,
           config \in Configs, now \in Nat,
           Becomes(r, [Idle EXCEPT !.pc = "resolve", !.cfg = config, !.start = now])
    PROVE  /\ Only(r)
           /\ req'[r].pc = "resolve" /\ req'[r].cfg = config /\ req'[r].start = now
           /\ req'[r].item = {} /\ req'[r].heard = "nothing" /\ req'[r].owed = FALSE
  <1> DEFINE rec == [Idle EXCEPT !.pc = "resolve", !.cfg = config, !.start = now]
  <1>1. req[r] \in Request
    OBVIOUS
  <1>2. rec \in Request
    BY <1>1, IdleTyped DEF Request, Phases, Heard
  <1>3. /\ rec.pc = "resolve" /\ rec.cfg = config /\ rec.start = now
        /\ rec.item = {} /\ rec.heard = "nothing" /\ rec.owed = FALSE
    BY <1>1, IdleTyped DEF Request
  <1>4. Becomes(r, rec)
    BY DEF Becomes
  <1> HIDE DEF rec
  <1>5. Only(r) /\ req'[r] = rec
    BY <1>2, <1>4, BecomesTyped
  <1> QED
    BY <1>3, <1>5

\* or it returns.
LEMMA ReturnDoes ==
    ASSUME req \in [Requests -> Request], NEW r \in Requests, Return(r)
    PROVE  /\ Only(r) /\ req'[r].pc = "idle" /\ req'[r].start = 0 /\ req'[r].item = {}
           /\ req'[r].heard = "nothing" /\ req'[r].owed = FALSE
  BY IdleTyped, BecomesTyped DEF Return, Only

-----------------------------------------------------------------------------
\* What the inductive invariant says of one request ...
Sound(r) ==
    /\ req[r].start <= now
    /\ req[r].pc \in {"store", "applyWrite", "missing", "create"} => lastApply # Never
    /\ req[r].heard = "window" => req[r].pc = "check"
    /\ req[r].pc \in {"resolve", "known", "unknown", "cycle", "waiting"} => req[r].heard = "nothing"
    /\ req[r].pc = "meta" /\ req[r].owed => unheeded /\ ~overtaken
    /\ req[r].heard = "listed" =>
          \A i \in Titled :
              /\ Older(i, r) => /\ req[r].pc = "again" => Survives(i)
                                /\ req[r].pc \notin {"count", "cold", "store"}
              /\ req[r].pc \in {"missing", "create"} /\ i \in present =>
                    born[i] + req[r].cfg.negTtl >= req[r].start

\* ... and what it says of the replica and the vault.
Replica ==
    /\ lastApply <= now /\ missed <= now
    /\ \A i \in Titled : born[i] <= now
    /\ lastCycle # Never => lastCycle = lastApply
    /\ index # {} \/ missed # Never => lastApply # Never
    /\ missedHeard # "window"
    /\ unheeded /\ ~overtaken => suspect /\ lastCycle = Never
    /\ MissFits

\* Together with the cycle's part they are the inductive invariant.
LEMMA Parts == IInv <=> TypeOK /\ Replica /\ CycleFinds /\ \A r \in Requests : Sound(r)
  <1> DEFINE All == TypeOK /\ Replica /\ CycleFinds /\ \A r \in Requests : Sound(r)
  <1>1. ASSUME IInv PROVE All
    <2>1. TypeOK /\ Replica /\ CycleFinds
      BY <1>1 DEF IInv, Replica, PastStamps, WarmFits, HeardFits, InvalidationKept, Marked
    <2>2. ASSUME NEW r \in Requests PROVE Sound(r)
      BY <1>1 DEF IInv, Sound, PastStamps, WarmFits, HeardFits, InvalidationKept, Marked,
                  LeaderFinds, MissIsJustified, ColdIsNotAbsent
    <2> QED
      BY <2>1, <2>2
  <1>2. ASSUME All PROVE IInv
    <2>1. PastStamps /\ WarmFits /\ HeardFits /\ InvalidationKept
      BY <1>2 DEF Replica, Sound, PastStamps, WarmFits, HeardFits, InvalidationKept, Marked
    <2>2. LeaderFinds /\ MissIsJustified /\ ColdIsNotAbsent
      BY <1>2 DEF Sound, LeaderFinds, MissIsJustified, ColdIsNotAbsent
    <2>3. SuspectIsTold
      BY <1>2 DEF Sound, Replica, SuspectIsTold
    <2> QED
      BY <1>2, <2>1, <2>2, <2>3 DEF IInv, Replica
  <1> QED
    BY <1>1, <1>2

\* The same of the next state.
LEMMA PartsNext ==
    ASSUME TypeOK', Replica', CycleFinds', \A r \in Requests : Sound(r)'
    PROVE  IInv'
  <1>1. (TypeOK /\ Replica /\ CycleFinds /\ (\A r \in Requests : Sound(r)) => IInv)'
    BY Parts, PTL
  <1> QED
    BY <1>1

-----------------------------------------------------------------------------
\* A step of a request keeps its record well formed and sound.
LEMMA RequestSound ==
    ASSUME TypeOK, Replica, CycleFinds, NEW r \in Requests, Sound(r), Begin(r) \/ RequestStep(r)
    PROVE  /\ Only(r)
           /\ req'[r].pc \in {"known", "check", "body", "meta"} => req'[r].item # {}
           /\ Sound(r)'
  <1>0. /\ req \in [Requests -> Request] /\ req[r] \in Request
        /\ config \in Configs /\ now \in Nat /\ lastApply \in Times /\ lastCycle \in Times
        /\ missed \in Times /\ missedHeard \in Heard /\ index \in SUBSET Items
        /\ born \in [Titled -> Nat]
        /\ req[r].pc \in {"known", "check", "body", "meta"} => req[r].item # {}
    BY DEF TypeOK
  <1>f. /\ req[r].pc \in Phases /\ req[r].heard \in Heard /\ req[r].owed \in BOOLEAN
        /\ req[r].start \in Nat /\ req[r].item \in SUBSET Items
        /\ req[r].cfg \in Configs /\ req[r].cfg.ttl \in Nat /\ req[r].cfg.negTtl \in Nat
    BY <1>0 DEF Request
  <1> DEFINE Goal == /\ Only(r)
                     /\ req'[r].pc \in {"known", "check", "body", "meta"} => req'[r].item # {}
                     /\ Sound(r)'
  <1>p. /\ Phases = {"idle", "resolve", "known", "unknown", "cycle", "waiting", "again", "count", "cold",
                     "store", "check", "body", "meta", "missing", "create", "applyWrite"}
        /\ Heard = {"nothing", "window", "listed"}
    BY DEF Phases, Heard
  <1>m. Matches \in SUBSET Items
    BY <1>0 DEF Matches
  <1>r. ASSUME Return(r), now' = now PROVE Goal
    <2>1. /\ Only(r) /\ req'[r].pc = "idle" /\ req'[r].start = 0 /\ req'[r].item = {}
          /\ req'[r].heard = "nothing" /\ req'[r].owed = FALSE
      BY <1>0, <1>r, ReturnDoes
    <2>2. req'[r].start <= now'
      BY <1>0, <1>r, <2>1
    <2>3. Sound(r)'
      BY <2>1, <2>2 DEF Sound
    <2> QED
      BY <2>1, <2>3
  <1>u. OthersStay => UNCHANGED <<now, present, born, index, flight, listing, toRemove, markVars>>
    BY DEF OthersStay, ReplicaStays, serverVars, replicaVars, flightVars
  <1>1. CASE Begin(r)
    <2>1. /\ Only(r) /\ req'[r].pc = "resolve" /\ req'[r].start = now /\ req'[r].heard = "nothing"
          /\ req'[r].owed = FALSE /\ now' = now
      BY <1>0, <1>1, BeginDoes DEF Begin, OthersStay, ReplicaStays, serverVars, markVars
    <2>2. req'[r].start <= now'
      BY <1>0, <2>1
    <2> QED
      BY <2>1, <2>2 DEF Sound
  <1>2. CASE Resolve(r)
    <2>1. CASE Return(r)
      BY <1>r, <1>2, <2>1 DEF Resolve, OthersStay, ReplicaStays, serverVars, markVars
    <2>2. CASE ~Return(r)
      <3>1. PICK p \in {"known", "unknown"} :
              /\ Becomes(r, [req[r] EXCEPT !.pc = p, !.item = Matches])
              /\ p = "known" => Matches # {}
        BY <1>2, <2>2 DEF Resolve
      <3>2. /\ Only(r) /\ req'[r].pc = p /\ req'[r].heard = req[r].heard /\ req'[r].item = Matches
            /\ req'[r].start = req[r].start
        BY <1>0, <1>f, <1>p, <1>m, <3>1, FindingDoes, ZenonT(60)
      <3>3. req[r].pc = "resolve" /\ UNCHANGED now
        BY <1>u, <1>2 DEF Resolve
      <3>4. req'[r].heard = "nothing" /\ req'[r].start <= now'
        BY <3>2, <3>3 DEF Sound
      <3> QED
        BY <3>1, <3>2, <3>4 DEF Sound
    <2> QED
      BY <2>1, <2>2
  <1>3. CASE Judge(r)
    <2>1. PICK above \in BOOLEAN :
            LET asks == req[r].cfg.passthrough /\ ~above
            IN  IF asks /\ (Expired(r) \/ req[r].cfg.alwaysFresh)
                THEN Goto(r, "cycle")
                ELSE Serve(r, IF asks THEN "window" ELSE "nothing")
      BY <1>3 DEF Judge
    <2>2. UNCHANGED <<now, markVars>> /\ req[r].pc = "known"
      BY <1>3 DEF Judge, OthersStay, ReplicaStays, serverVars, markVars
    <2>3. CASE Goto(r, "cycle")
      BY <1>0, <1>f, <1>p, <1>3, <2>2, <2>3, GotoDoes DEF Judge, Sound, markVars
    <2>4. CASE Return(r)
      BY <1>r, <2>2, <2>4
    <2>5. ASSUME NEW h \in {"nothing", "window"}, Becomes(r, [req[r] EXCEPT !.pc = "check", !.heard = h])
          PROVE  Goal
      <3>1. /\ Only(r) /\ req'[r].pc = "check" /\ req'[r].heard = h /\ req'[r].cfg = req[r].cfg
            /\ req'[r].start = req[r].start /\ req'[r].item = req[r].item
        BY <1>0, <1>f, <1>p, <2>5, HearingDoes
      <3>2. req'[r].item # {} /\ req'[r].start <= now'
        BY <1>0, <2>2, <3>1 DEF Sound
      <3> QED
        BY <2>5, <3>1, <3>2 DEF Sound
    <2> QED
      BY <2>1, <2>3, <2>4, <2>5 DEF Serve
  <1>4. CASE MissUnasked(r)
    BY <1>0, <1>f, <1>p, <1>4, GotoDoes DEF MissUnasked, OthersStay, ReplicaStays, serverVars,
       markVars, Sound
  <1>5. CASE MissKnown(r)
    <2>1. PICK p \in {"missing", "create"} : Becomes(r, [req[r] EXCEPT !.pc = p, !.heard = missedHeard])
      BY <1>5 DEF MissKnown, NotFound
    <2>2. /\ Only(r) /\ req'[r].pc = p /\ req'[r].heard = missedHeard /\ req'[r].cfg = req[r].cfg
          /\ req'[r].start = req[r].start
      BY <1>0, <1>f, <1>p, <2>1, HearingDoes
    <2>3. /\ UNCHANGED <<now, present, born, markVars>> /\ missed # Never
          /\ req[r].start - missed < req[r].cfg.negTtl
      BY <1>u, <1>5 DEF MissKnown, Hit
    <2>4. req'[r].start <= now' /\ lastApply' # Never
      BY <2>2, <2>3 DEF Sound, Replica, markVars
    <2>5. ASSUME missedHeard = "listed", NEW i \in Titled, i \in present
          PROVE  born'[i] + req'[r].cfg.negTtl >= req'[r].start
      <3>1. born[i] >= missed /\ born[i] \in Nat /\ missed \in Nat
        BY <1>0, <2>3, <2>5 DEF Replica, MissFits, Times
      <3> QED
        BY <1>f, <2>2, <2>3, <3>1
    <2> QED
      BY <2>1, <2>2, <2>3, <2>4, <2>5 DEF Sound, Replica
  <1>6. CASE MissAsked(r)
    BY <1>0, <1>f, <1>p, <1>6, GotoDoes DEF MissAsked, OthersStay, ReplicaStays, serverVars, markVars,
       Sound
  <1>7. CASE LeadCycle(r)
    BY <1>0, <1>f, <1>p, <1>7, GotoDoes DEF LeadCycle, OthersStay, ReplicaStays, serverVars, markVars,
       Sound
  <1>8. CASE JoinCycle(r)
    BY <1>0, <1>f, <1>p, <1>8, GotoDoes DEF JoinCycle, OthersStay, ReplicaStays, serverVars, markVars,
       Sound
  <1>9. CASE NoClient(r)
    BY <1>0, <1>f, <1>p, <1>9, GotoDoes DEF NoClient, OthersStay, ReplicaStays, serverVars, markVars,
       Sound
  <1>10. CASE LookAgain(r)
    <2>1. UNCHANGED <<now, present, born, index, markVars>> /\ req[r].pc = "again"
      BY <1>u, <1>10 DEF LookAgain
    <2>2. CASE Return(r)
      BY <1>r, <2>1, <2>2
    <2>3. CASE Matches = {} /\ Goto(r, "count")
      <3>1. /\ Only(r) /\ req'[r].pc = "count" /\ req'[r].cfg = req[r].cfg
            /\ req'[r].start = req[r].start /\ req'[r].heard = req[r].heard
        BY <1>0, <1>f, <1>p, <2>3, GotoDoes
      <3>2. ASSUME req[r].heard = "listed", NEW i \in Titled PROVE ~Older(i, r)
        BY <2>1, <2>3, <3>2 DEF Sound, Survives, Matches
      <3>3. \A i \in Titled : Older(i, r)' => Older(i, r)
        BY <2>1, <3>1 DEF Older
      <3> QED
        BY <2>1, <3>1, <3>2, <3>3 DEF Sound, markVars
    <2>4. CASE Matches # {} /\ Becomes(r, [req[r] EXCEPT !.pc = "check", !.item = Matches])
      <3>1. /\ Only(r) /\ req'[r].pc = "check" /\ req'[r].item # {} /\ req'[r].cfg = req[r].cfg
            /\ req'[r].start = req[r].start /\ req'[r].heard = req[r].heard
        BY <1>0, <1>f, <1>p, <1>m, <2>4, FindingDoes, ZenonT(60)
      <3> QED
        BY <1>0, <1>f, <1>p, <2>1, <3>1 DEF Sound, markVars
    <2> QED
      BY <1>10, <2>2, <2>3, <2>4 DEF LookAgain
  <1>11. CASE Count(r)
    <2>1. UNCHANGED <<now, present, born, index, markVars>> /\ req[r].pc = "count"
      BY <1>u, <1>11 DEF Count
    <2>2. CASE Return(r)
      BY <1>r, <2>1, <2>2
    <2>3. ASSUME NEW p \in {"store", "cold"}, Goto(r, p), p = "store" => index # {} PROVE Goal
      <3>1. /\ Only(r) /\ req'[r].pc = p /\ req'[r].cfg = req[r].cfg
            /\ req'[r].start = req[r].start /\ req'[r].heard = req[r].heard
        BY <1>0, <1>f, <1>p, <2>3, GotoDoes
      <3>2. \A i \in Titled : Older(i, r)' => Older(i, r)
        BY <2>1, <3>1 DEF Older
      <3>3. p = "store" => lastApply' # Never
        BY <2>1, <2>3 DEF Replica, markVars
      <3> QED
        BY <2>1, <3>1, <3>2, <3>3 DEF Sound
    <2> QED
      BY <1>11, <2>2, <2>3 DEF Count
  <1>12. CASE EmptyVault(r)
    <2>1. UNCHANGED <<now, present, born, markVars>> /\ req[r].pc = "cold"
      BY <1>u, <1>12 DEF EmptyVault
    <2>2. CASE Return(r)
      BY <1>r, <2>1, <2>2
    <2>3. CASE lastCycle # Never /\ Goto(r, "create")
      <3>1. /\ Only(r) /\ req'[r].pc = "create" /\ req'[r].cfg = req[r].cfg
            /\ req'[r].start = req[r].start /\ req'[r].heard = req[r].heard
        BY <1>0, <1>f, <1>p, <2>3, GotoDoes
      <3>2. ASSUME req[r].heard = "listed", NEW i \in Titled, i \in present
            PROVE  born[i] + req[r].cfg.negTtl >= req[r].start
        BY <1>0, <1>f, <1>p, <2>1, <3>2 DEF Sound, Older
      <3>3. lastApply' # Never
        BY <2>1, <2>3 DEF Replica, markVars
      <3> QED
        BY <2>1, <3>1, <3>2, <3>3 DEF Sound
    <2> QED
      BY <1>12, <2>2, <2>3 DEF EmptyVault
  <1>13. CASE StoreMiss(r)
    <2>1. UNCHANGED <<now, present, born, markVars>> /\ req[r].pc = "store"
      BY <1>13 DEF StoreMiss, ReplicaStays, serverVars
    <2>2. PICK p \in {"missing", "create"} : Becomes(r, [req[r] EXCEPT !.pc = p, !.heard = req[r].heard])
      BY <1>13 DEF StoreMiss, NotFound
    <2>3. /\ Only(r) /\ req'[r].pc = p /\ req'[r].cfg = req[r].cfg
          /\ req'[r].start = req[r].start /\ req'[r].heard = req[r].heard
      BY <1>0, <1>f, <1>p, <2>2, HearingDoes, ZenonT(60)
    <2>4. ASSUME req[r].heard = "listed", NEW i \in Titled, i \in present
          PROVE  born[i] + req[r].cfg.negTtl >= req[r].start
      BY <1>0, <1>f, <1>p, <2>1, <2>4 DEF Sound, Older
    <2>5. lastApply' # Never /\ req[r].heard # "window"
      BY <2>1 DEF Sound, markVars
    <2> QED
      BY <2>1, <2>3, <2>4, <2>5 DEF Sound
  <1>14. CASE CheckStale(r)
    <2>1. CASE Return(r)
      BY <1>r, <1>u, <1>14, <2>1 DEF CheckStale
    <2>2. CASE Becomes(r, [Idle EXCEPT !.pc = "body", !.item = req[r].item])
      <3>1. /\ Only(r) /\ req'[r].pc = "body" /\ req'[r].start = 0 /\ req'[r].heard = "nothing"
            /\ req'[r].item = req[r].item
        BY <1>0, <1>f, <1>p, <2>2, BodyDoes
      <3>2. req'[r].start <= now' /\ req'[r].item # {}
        BY <1>0, <1>u, <1>14, <3>1 DEF CheckStale
      <3> QED
        BY <3>1, <3>2 DEF Sound
    <2> QED
      BY <1>14, <2>1, <2>2 DEF CheckStale
  <1>15. CASE ReadBody(r)
    <2>1. CASE Return(r)
      BY <1>r, <1>u, <1>15, <2>1 DEF ReadBody
    <2>2. CASE Becomes(r, [req[r] EXCEPT !.pc = "meta", !.owed = unheeded /\ ~overtaken])
      <3>1. (unheeded /\ ~overtaken) \in BOOLEAN /\ unheeded \in BOOLEAN /\ overtaken \in BOOLEAN
        BY DEF TypeOK
      <3>2. /\ Only(r) /\ req'[r].pc = "meta" /\ req'[r].cfg = req[r].cfg
            /\ req'[r].start = req[r].start /\ req'[r].heard = req[r].heard
            /\ req'[r].owed = (unheeded /\ ~overtaken) /\ req'[r].item = req[r].item
        BY <1>0, <1>f, <1>p, <2>2, <3>1, OwingDoes
      <3>3. UNCHANGED <<now, markVars>> /\ req[r].pc = "body"
        BY <1>u, <1>15 DEF ReadBody
      <3> QED
        BY <1>0, <1>f, <1>p, <3>1, <3>2, <3>3 DEF Sound, markVars
    <2> QED
      BY <1>15, <2>1, <2>2 DEF ReadBody
  <1>16. CASE ReadMeta(r)
    BY <1>r, <1>16 DEF ReadMeta, OthersStay, ReplicaStays, serverVars, markVars
  <1>17. CASE AnswerMissing(r)
    BY <1>r, <1>17 DEF AnswerMissing, OthersStay, ReplicaStays, serverVars, markVars
  <1>18. CASE CreateItem(r)
    <2>1. PICK i \in Titled : Becomes(r, [req[r] EXCEPT !.pc = "applyWrite", !.item = {i}])
      BY <1>18 DEF CreateItem
    <2>0. {i} \in SUBSET Items /\ "applyWrite" \in Phases
      BY <1>p
    <2>2. /\ Only(r) /\ req'[r].pc = "applyWrite" /\ req'[r].cfg = req[r].cfg
          /\ req'[r].start = req[r].start /\ req'[r].heard = req[r].heard
      BY <1>0, <2>0, <2>1, FindingDoes
    <2>3. UNCHANGED <<now, markVars>> /\ req[r].pc = "create"
      BY <1>18 DEF CreateItem
    <2> QED
      BY <1>0, <1>f, <1>p, <2>2, <2>3 DEF Sound, markVars
  <1>19. CASE CreateFails(r)
    BY <1>r, <1>19 DEF CreateFails, OthersStay, ReplicaStays, serverVars, markVars
  <1>20. CASE ApplyWrite(r)
    BY <1>r, <1>20 DEF ApplyWrite, OthersStay, ReplicaStays, serverVars, markVars
  <1> QED
    BY <1>1, <1>2, <1>3, <1>4, <1>5, <1>6, <1>7, <1>8, <1>9, <1>10, <1>11, <1>12, <1>13, <1>14, <1>15,
       <1>16, <1>17, <1>18, <1>19, <1>20 DEF RequestStep

\* Most of a request's steps change nothing but the request.
LEMMA QuietSteps ==
    ASSUME NEW r \in Requests, Begin(r) \/ RequestStep(r)
    PROVE  \/ OthersStay
           \/ MissAsked(r) \/ LeadCycle(r) \/ NoClient(r)
           \/ StoreMiss(r) \/ CreateItem(r) \/ ApplyWrite(r)
  BY DEF RequestStep, Begin, Resolve, Judge, MissUnasked, MissKnown, JoinCycle, LookAgain, Count,
     EmptyVault, CheckStale, ReadBody, ReadMeta, AnswerMissing, CreateFails

\* What OthersStay keeps, variable by variable.
LEMMA OthersKept ==
    ASSUME OthersStay
    PROVE  UNCHANGED <<now, present, unborn, born, index, lastCycle, suspect, missed, missedHeard,
                       config, flight, leader, listing, toFetch, toRemove, whole, clearing,
                       lastApply, unheeded, early, overtaken, events>>
  BY DEF OthersStay, ReplicaStays, serverVars, replicaVars, missVars, flightVars, markVars

\* A step of a request keeps the types.
LEMMA RequestTyped ==
    ASSUME TypeOK, NEW r \in Requests, Begin(r) \/ RequestStep(r), Only(r),
           req'[r].pc \in {"known", "check", "body", "meta"} => req'[r].item # {}
    PROVE  TypeOK'
  <1>1. /\ req' \in [Requests -> Request]
        /\ \A q \in Requests : req'[q].pc \in {"known", "check", "body", "meta"} => req'[q].item # {}
    BY DEF Only, TypeOK
  <1>2. req[r] \in Request
    BY DEF TypeOK
  <1>3. CASE OthersStay
    BY <1>1, <1>3, OthersKept DEF TypeOK
  <1>4. CASE MissAsked(r)
    BY <1>1, <1>2, <1>4 DEF MissAsked, TypeOK, ReplicaStays, serverVars, replicaVars, missVars,
       flightVars, markVars, Times, Heard
  <1>5. CASE LeadCycle(r)
    BY <1>1, <1>2, <1>5 DEF LeadCycle, TypeOK, ReplicaStays, serverVars, replicaVars, missVars,
       flightVars, markVars, Lead
  <1>6. CASE NoClient(r)
    BY <1>1, <1>2, <1>6 DEF NoClient, TypeOK, ReplicaStays, serverVars, replicaVars, missVars,
       flightVars, markVars, Event
  <1>7. CASE StoreMiss(r)
    BY <1>1, <1>2, <1>7 DEF StoreMiss, TypeOK, ReplicaStays, serverVars, replicaVars, missVars,
       flightVars, markVars, Stamp, Times, Request
  <1>8. CASE CreateItem(r)
    BY <1>1, <1>2, <1>8 DEF CreateItem, TypeOK, ReplicaStays, serverVars, replicaVars, missVars,
       flightVars, markVars, Appears, Event
  <1>9. CASE ApplyWrite(r)
    BY <1>1, <1>2, <1>9 DEF ApplyWrite, TypeOK, ReplicaStays, serverVars, replicaVars, missVars,
       flightVars, markVars, Times, Heard, Request
  <1> QED
    BY <1>3, <1>4, <1>5, <1>6, <1>7, <1>8, <1>9, QuietSteps

\* A step of a request keeps what is known of the replica and the vault.
LEMMA RequestReplica ==
    ASSUME TypeOK, Replica, NEW r \in Requests, Sound(r), Begin(r) \/ RequestStep(r)
    PROVE  Replica'
  <1>1. /\ now \in Nat /\ missed \in Times /\ lastApply \in Times /\ born \in [Titled -> Nat]
        /\ index \in SUBSET Items /\ req[r] \in Request
    BY DEF TypeOK
  <1>2. req[r].start \in Nat /\ req[r].heard \in Heard
    BY <1>1 DEF Request
  <1>3. CASE OthersStay
    BY <1>3, OthersKept DEF Replica, MissFits
  <1>4. CASE MissAsked(r)
    BY <1>1, <1>4 DEF MissAsked, Replica, MissFits, Never, ReplicaStays, serverVars, replicaVars,
       markVars
  <1>5. CASE LeadCycle(r)
    BY <1>5 DEF LeadCycle, Replica, MissFits, ReplicaStays, serverVars, replicaVars, missVars, markVars
  <1>6. CASE NoClient(r)
    BY <1>6 DEF NoClient, Replica, MissFits, ReplicaStays, serverVars, replicaVars, missVars, markVars
  <1>7. CASE StoreMiss(r)
    <2>1. UNCHANGED <<now, present, born, index, lastCycle, suspect, lastApply, unheeded, overtaken>>
      BY <1>7 DEF StoreMiss, ReplicaStays, serverVars, replicaVars, markVars
    <2>2. missed' = req[r].start /\ missedHeard' = req[r].heard /\ req[r].pc = "store"
      BY <1>7 DEF StoreMiss, Stamp
    <2>3. req[r].start <= now /\ lastApply # Never /\ req[r].heard # "window"
      BY <2>2 DEF Sound
    <2>4. ASSUME req[r].heard = "listed", NEW i \in Titled, i \in present PROVE born[i] >= req[r].start
      BY <1>1, <1>2, <2>2, <2>4 DEF Sound, Older
    <2>5. MissFits'
      BY <2>1, <2>2, <2>4 DEF MissFits
    <2> QED
      BY <2>1, <2>2, <2>3, <2>5 DEF Replica
  <1>8. CASE CreateItem(r)
    <2>1. PICK i \in Titled : Appears(i)
      BY <1>8 DEF CreateItem
    <2>2. UNCHANGED <<now, index, lastCycle, suspect, missed, missedHeard, lastApply, unheeded, overtaken>>
      BY <1>8 DEF CreateItem, replicaVars, missVars, markVars
    <2>3. \A j \in Titled : born'[j] <= now
      BY <1>1, <2>1 DEF Appears, Replica
    <2>4. MissFits'
      BY <1>1, <2>1, <2>2 DEF Appears, Replica, MissFits
    <2> QED
      BY <2>2, <2>3, <2>4 DEF Replica
  <1>9. CASE ApplyWrite(r)
    <2>1. lastApply # Never
      BY <1>9 DEF ApplyWrite, Sound
    <2> QED
      BY <1>1, <1>9, <2>1 DEF ApplyWrite, Replica, MissFits, Never, serverVars, markVars
  <1> QED
    BY <1>3, <1>4, <1>5, <1>6, <1>7, <1>8, <1>9, QuietSteps

-----------------------------------------------------------------------------
\* Nothing a sound request rests on is disturbed: what has appeared has just
\* appeared, and what a cycle leaves in the index stays there.
Calm ==
    /\ now <= now' /\ lastApply <= lastApply'
    /\ \A i \in Titled : i \in present' => \/ i \in present /\ born'[i] = born[i]
                                           \/ born'[i] >= now
    /\ \A i \in Titled : i \in present' /\ Survives(i) => Survives(i)'

\* In a calm step an item is old for a request only if it was before.
LEMMA OlderBefore ==
    ASSUME TypeOK, TypeOK', Calm, NEW q \in Requests, Sound(q), req'[q].start = req[q].start,
           NEW i \in Titled, Older(i, q)'
    PROVE  Older(i, q) /\ i \in present'
  <1>1. now \in Nat /\ born' \in [Titled -> Nat] /\ req[q].start \in Nat
    BY DEF TypeOK, Request
  <1> QED
    BY <1>1 DEF Calm, Older, Sound

\* A request that does not move stays sound.
LEMMA CalmKeeps ==
    ASSUME TypeOK, TypeOK', Calm, NEW q \in Requests, Sound(q),
           req'[q].pc = req[q].pc, req'[q].cfg = req[q].cfg, req'[q].start = req[q].start,
           req'[q].heard = req[q].heard,
           req'[q].pc = "meta" /\ req'[q].owed => unheeded' /\ ~overtaken'
    PROVE  Sound(q)'
  <1>1. /\ now \in Nat /\ now' \in Nat /\ lastApply \in Times /\ lastApply' \in Times
        /\ born \in [Titled -> Nat] /\ born' \in [Titled -> Nat] /\ req[q] \in Request
    BY DEF TypeOK
  <1>2. req[q].start \in Nat /\ req[q].cfg.ttl \in Nat /\ req[q].cfg.negTtl \in Nat
    BY <1>1 DEF Request
  <1>3. req'[q].start <= now'
    BY <1>1, <1>2 DEF Sound, Calm
  <1>4. lastApply # Never => lastApply' # Never
    BY <1>1 DEF Calm, Times, Never
  <1>6. ASSUME req[q].heard = "listed", NEW i \in Titled, Older(i, q)'
        PROVE  /\ req[q].pc = "again" => Survives(i)'
               /\ req[q].pc \notin {"count", "cold", "store"}
    <2>1. Older(i, q) /\ i \in present'
      BY <1>6, OlderBefore
    <2> QED
      BY <1>6, <2>1 DEF Sound, Calm
  <1>7. ASSUME req[q].heard = "listed", req[q].pc \in {"missing", "create"}, NEW i \in Titled, i \in present'
        PROVE  born'[i] + req[q].cfg.negTtl >= req[q].start
    BY <1>1, <1>2, <1>7 DEF Sound, Calm
  <1> QED
    BY <1>3, <1>4, <1>6, <1>7 DEF Sound

\* A calm step that leaves the cycle and its leader alone.
LEMMA CycleKept ==
    ASSUME TypeOK, TypeOK', Calm, CycleFinds, UNCHANGED flightVars,
           \A q \in Requests : Sound(q),
           leader \in Requests /\ flight # "none" => req'[leader] = req[leader]
    PROVE  CycleFinds'
  <1> SUFFICES ASSUME flight # "none", leader \in Requests
               PROVE  /\ req[leader].pc = "waiting"
                      /\ \A i \in Titled :
                            Older(i, leader)' =>
                              /\ flight = "diff" => i \in listing
                              /\ flight = "get" => i \in toFetch \/ Survives(i)'
                              /\ flight = "done" /\ whole => i \in index'
    BY DEF CycleFinds, flightVars
  <1>1. \A i \in Titled : Older(i, leader)' => Older(i, leader) /\ i \in present'
    BY OlderBefore DEF flightVars
  <1>2. \A i \in Titled : flight = "done" /\ i \in present' /\ i \in index => i \in index'
    BY DEF Calm, Survives
  <1> QED
    BY <1>1, <1>2 DEF CycleFinds, Calm

\* Every step of a request is calm.
LEMMA RequestCalm ==
    ASSUME TypeOK, NEW r \in Requests, Begin(r) \/ RequestStep(r)
    PROVE  /\ Calm
           /\ UNCHANGED <<unheeded, overtaken>>
           /\ UNCHANGED flightVars \/ LeadCycle(r)
  <1>1. now \in Nat /\ lastApply \in Times /\ born \in [Titled -> Nat]
    BY DEF TypeOK
  <1>2. now <= now /\ lastApply <= lastApply
    BY <1>1 DEF Times, Never
  <1>3. CASE OthersStay
    BY <1>2, <1>3, OthersKept DEF Calm, Survives, flightVars
  <1>4. CASE MissAsked(r)
    BY <1>2, <1>4 DEF MissAsked, Calm, Survives, ReplicaStays, serverVars, replicaVars, missVars,
       flightVars, markVars
  <1>5. CASE LeadCycle(r)
    BY <1>2, <1>5 DEF LeadCycle, Lead, Calm, Survives, ReplicaStays, serverVars, replicaVars,
       missVars, flightVars, markVars
  <1>6. CASE NoClient(r)
    BY <1>2, <1>6 DEF NoClient, Calm, Survives, ReplicaStays, serverVars, replicaVars, missVars,
       flightVars, markVars
  <1>7. CASE StoreMiss(r)
    BY <1>2, <1>7 DEF StoreMiss, Calm, Survives, ReplicaStays, serverVars, replicaVars, missVars,
       flightVars, markVars
  <1>8. CASE CreateItem(r)
    <2>1. PICK i \in Titled : Appears(i)
      BY <1>8 DEF CreateItem
    <2>2. UNCHANGED <<now, index, flight, leader, listing, toFetch, toRemove, whole, lastApply, unheeded, overtaken>>
      BY <1>8 DEF CreateItem, replicaVars, flightVars, markVars
    <2>3. \A j \in Titled : j \in present' => \/ j \in present /\ born'[j] = born[j]
                                              \/ born'[j] >= now
      BY <1>1, <2>1 DEF Appears
    <2> QED
      BY <1>2, <2>2, <2>3 DEF Calm, Survives, flightVars
  <1>9. CASE ApplyWrite(r)
    BY <1>2, <1>9 DEF ApplyWrite, Calm, Survives, ReplicaStays, serverVars, replicaVars, missVars,
       flightVars, markVars
  <1> QED
    BY <1>3, <1>4, <1>5, <1>6, <1>7, <1>8, <1>9, QuietSteps

\* A step of a request keeps the inductive invariant.
LEMMA RequestKeeps ==
    ASSUME IInv, NEW r \in Requests, Begin(r) \/ RequestStep(r)
    PROVE  IInv'
  <1>1. TypeOK /\ Replica /\ CycleFinds /\ \A q \in Requests : Sound(q)
    BY Parts
  <1>2. /\ Only(r)
        /\ req'[r].pc \in {"known", "check", "body", "meta"} => req'[r].item # {}
        /\ Sound(r)'
    BY <1>1, RequestSound
  <1>3. TypeOK'
    BY <1>1, <1>2, RequestTyped
  <1>4. Replica'
    BY <1>1, RequestReplica
  <1>5. /\ Calm
        /\ UNCHANGED <<unheeded, overtaken>>
        /\ UNCHANGED flightVars \/ LeadCycle(r)
    BY <1>1, RequestCalm
  <1>6. ASSUME NEW q \in Requests PROVE Sound(q)'
    <2>1. CASE q = r
      BY <1>2, <2>1
    <2>2. CASE q # r
      <3>1. req'[q] = req[q] /\ Sound(q)
        BY <1>1, <1>2, <2>2 DEF Only
      <3>2. req[q].pc = "meta" /\ req[q].owed => unheeded /\ ~overtaken
        BY <3>1 DEF Sound
      <3> QED
        BY <1>1, <1>3, <1>5, <3>1, <3>2, CalmKeeps
    <2> QED
      BY <2>1, <2>2
  <1>7. CycleFinds'
    <2>1. CASE LeadCycle(r)
      <3>1. flight' = "list" /\ leader' = r
        BY <2>1 DEF LeadCycle, Lead
      <3>2. req'[r].pc = "waiting"
        BY <1>1, <2>1, GotoDoes DEF LeadCycle, TypeOK, Phases
      <3> QED
        BY <3>1, <3>2 DEF CycleFinds
    <2>2. CASE UNCHANGED flightVars
      <3>1. req[r].pc # "waiting"
        BY DEF RequestStep, Begin, Resolve, Judge, MissUnasked, MissKnown, MissAsked, LeadCycle,
               JoinCycle, NoClient, LookAgain, Count, EmptyVault, StoreMiss, CheckStale, ReadBody,
               ReadMeta, AnswerMissing, CreateItem, CreateFails, ApplyWrite
      <3>2. leader \in Requests /\ flight # "none" => req'[leader] = req[leader]
        BY <1>1, <1>2, <3>1 DEF CycleFinds, Only
      <3> QED
        BY <1>1, <1>3, <1>5, <2>2, <3>2, CycleKept
    <2> QED
      BY <1>5, <2>1, <2>2
  <1> QED
    BY <1>3, <1>4, <1>6, <1>7, PartsNext

-----------------------------------------------------------------------------
\* The clock, the people who use the vault and the operators: no request moves.
LEMMA OutsideKeeps ==
    ASSUME IInv, Tick \/ ChangedElsewhere \/ Invalidate \/ ClearMisses \/ WriteConfig
    PROVE  IInv'
  <1>1. TypeOK /\ Replica /\ CycleFinds /\ \A q \in Requests : Sound(q)
    BY Parts
  <1>2. /\ now \in Nat /\ events \in Nat /\ missed \in Times /\ lastApply \in Times /\ lastCycle \in Times
        /\ born \in [Titled -> Nat]
    BY <1>1 DEF TypeOK
  <1>3. now <= now /\ lastApply <= lastApply /\ now <= now + 1
    BY <1>2 DEF Times, Never
  <1>4. /\ UNCHANGED <<req, flight, leader, listing, toFetch, toRemove, whole, index, lastApply>>
        /\ UNCHANGED flightVars
    BY DEF Tick, ChangedElsewhere, Invalidate, ClearMisses, WriteConfig, serverVars, replicaVars,
       flightVars,
           markVars
  <1>5. TypeOK' /\ Replica' /\ Calm /\ (unheeded /\ ~overtaken => unheeded' /\ ~overtaken')
    <2>1. CASE Tick
      <3>1. TypeOK'
        BY <1>1, <1>2, <2>1 DEF Tick, Event, TypeOK, ReplicaStays, serverVars, replicaVars, missVars,
           flightVars, markVars
      <3>2. Replica'
        BY <1>1, <1>2, <2>1 DEF Tick, Replica, MissFits, Times, Never, ReplicaStays, serverVars,
           replicaVars, missVars, flightVars, markVars
      <3>3. Calm
        BY <1>3, <1>4, <2>1 DEF Tick, Calm, Survives, serverVars
      <3> QED
        BY <2>1, <3>1, <3>2, <3>3 DEF Tick, markVars
    <2>2. CASE ChangedElsewhere
      <3>1. PICK i \in Items : Appears(i) \/ Leaves(i)
        BY <2>2 DEF ChangedElsewhere
      <3>2. UNCHANGED <<now, lastCycle, suspect, missed, missedHeard, config, clearing, unheeded, early,
                        overtaken>>
        BY <2>2 DEF ChangedElsewhere, replicaVars, missVars, markVars
      <3>3. TypeOK'
        BY <1>1, <1>2, <1>4, <3>1, <3>2 DEF Appears, Leaves, Event, TypeOK
      <3>4. \A j \in Titled : /\ born'[j] <= now
                              /\ j \in present' => \/ j \in present /\ born'[j] = born[j]
                                                   \/ born'[j] = now
        BY <1>1, <1>2, <3>1 DEF Appears, Leaves, Replica
      <3>5. MissFits'
        BY <1>1, <1>2, <3>2, <3>4 DEF Replica, MissFits
      <3>6. Replica'
        BY <1>1, <1>4, <3>2, <3>4, <3>5 DEF Replica
      <3>7. Calm
        BY <1>3, <1>4, <3>2, <3>4 DEF Calm, Survives
      <3> QED
        BY <3>2, <3>3, <3>6, <3>7
    <2>3. CASE Invalidate
      <3>0. early' \in BOOLEAN
        BY <2>3 DEF Invalidate
      <3>8. clearing' = TRUE /\ suspect' = TRUE /\ unheeded' = TRUE /\ overtaken' = FALSE
        BY <2>3 DEF Invalidate
      <3>9. /\ lastCycle' \in Times /\ events' = events + 1
            /\ UNCHANGED <<now, present, unborn, born, missed, missedHeard, config>>
        BY <2>3, Zenon DEF Invalidate, CycleForgotten, Event, Times, serverVars, missVars
      <3>1. TypeOK'
        <4>1. /\ now' \in Nat /\ present' \in SUBSET Items /\ unborn' \in SUBSET Items
              /\ index' \in SUBSET Items /\ lastCycle' \in Times /\ missed' \in Times /\ config' \in Configs
              /\ missedHeard' \in Heard /\ events' \in Nat /\ born' \in [Titled -> Nat] /\ lastApply' \in Times
          BY <1>1, <1>2, <1>4, <3>9 DEF TypeOK
        <4>2. /\ flight' \in {"none", "list", "diff", "get", "done"}
              /\ leader' \in Requests \cup {Background, Nobody}
              /\ listing' \in SUBSET Items /\ toFetch' \in SUBSET Items /\ toRemove' \in SUBSET Items
              /\ whole' \in BOOLEAN
              /\ req' \in [Requests -> Request]
              /\ \A r \in Requests : req'[r].pc \in {"known", "check", "body", "meta"} => req'[r].item # {}
          BY <1>1, <1>4 DEF TypeOK
        <4> QED
          BY <3>0, <3>8, <4>1, <4>2 DEF TypeOK
      <3>2. Replica'
        BY <1>1, <1>2, <2>3 DEF Invalidate, CycleForgotten, Replica, MissFits, ReplicaStays, serverVars,
           replicaVars, missVars, flightVars, markVars
      <3>3. Calm
        BY <1>3, <1>4, <2>3 DEF Invalidate, Calm, Survives, serverVars
      <3> QED
        BY <2>3, <3>1, <3>2, <3>3 DEF Invalidate
    <2>4. CASE ClearMisses
      <3>1. TypeOK'
        BY <1>1, <1>2, <2>4, ZenonT(60) DEF ClearMisses, TypeOK, Times, Heard, ReplicaStays, serverVars,
           replicaVars, missVars, flightVars, markVars
      <3>2. Replica'
        BY <1>1, <1>2, <2>4 DEF ClearMisses, Replica, MissFits, Never, ReplicaStays, serverVars,
           replicaVars, missVars, flightVars, markVars
      <3>3. Calm
        BY <1>3, <1>4, <2>4 DEF ClearMisses, Calm, Survives, serverVars
      <3> QED
        BY <2>4, <3>1, <3>2, <3>3 DEF ClearMisses, markVars
    <2>5. CASE WriteConfig
      <3>1. TypeOK'
        BY <1>1, <1>2, <2>5 DEF WriteConfig, Event, TypeOK, Times, Heard, ReplicaStays, serverVars,
           replicaVars, missVars, flightVars, markVars
      <3>2. Replica'
        BY <1>1, <1>2, <2>5 DEF WriteConfig, Replica, MissFits, Never, ReplicaStays, serverVars,
           replicaVars, missVars, flightVars, markVars
      <3>3. Calm
        BY <1>3, <1>4, <2>5 DEF WriteConfig, Calm, Survives, serverVars
      <3> QED
        BY <2>5, <3>1, <3>2, <3>3 DEF WriteConfig, markVars
    <2> QED
      BY <2>1, <2>2, <2>3, <2>4, <2>5
  <1>6. ASSUME NEW q \in Requests PROVE Sound(q)'
    <2>1. Sound(q) /\ req'[q] = req[q]
      BY <1>1, <1>4
    <2>2. req[q].pc = "meta" /\ req[q].owed => unheeded' /\ ~overtaken'
      BY <1>5, <2>1 DEF Sound
    <2> QED
      BY <1>1, <1>5, <2>1, <2>2, CalmKeeps
  <1>7. CycleFinds'
    BY <1>1, <1>4, <1>5, CycleKept
  <1> QED
    BY <1>5, <1>6, <1>7, PartsNext

-----------------------------------------------------------------------------
\* The steps of the cycle that move no request.
LEMMA FetchingKeeps ==
    ASSUME IInv, BackgroundCycle \/ CycleFails \/ ListItems \/ Diff
    PROVE  IInv'
  <1>1. TypeOK /\ Replica /\ CycleFinds /\ \A q \in Requests : Sound(q)
    BY Parts
  <1>2. now <= now /\ lastApply <= lastApply /\ events \in Nat
    BY <1>1 DEF TypeOK, Times, Never
  <1>3. UNCHANGED <<now, present, unborn, born, config, req, clearing, index, lastCycle, suspect, missed,
                    missedHeard, lastApply, unheeded, overtaken>>
    BY DEF BackgroundCycle, CycleFails, ListItems, Diff, CycleUnchanged, SuspectKept, serverVars,
       replicaVars,
           missVars, markVars
  <1>4. /\ flight' \in {"none", "list", "diff", "get", "done"}
        /\ leader' \in Requests \cup {Background, Nobody}
        /\ listing' \in SUBSET Items /\ toFetch' \in SUBSET Items /\ toRemove' \in SUBSET Items
        /\ whole' \in BOOLEAN /\ early' \in BOOLEAN /\ events' \in Nat
    <2>1. CASE BackgroundCycle
      BY <1>1, <2>1 DEF BackgroundCycle, Lead, TypeOK, markVars
    <2>2. CASE CycleFails
      <3>1. /\ flight' = "done" /\ leader' = leader /\ listing' = listing /\ toFetch' = {} /\ toRemove' = {}
            /\ whole' = FALSE /\ early' = FALSE /\ events' = events + 1
        BY <2>2 DEF CycleFails, Event
      <3>2. leader \in Requests \cup {Background, Nobody} /\ listing \in SUBSET Items /\ events \in Nat
        BY <1>1 DEF TypeOK
      <3>3. listing' \in SUBSET Items /\ toFetch' \in SUBSET Items /\ toRemove' \in SUBSET Items
        BY <3>1, <3>2
      <3>4. leader' \in Requests \cup {Background, Nobody} /\ events' \in Nat
        BY <3>1, <3>2
      <3>5. flight' \in {"none", "list", "diff", "get", "done"}
        BY <3>1
      <3>6. whole' \in BOOLEAN /\ early' \in BOOLEAN
        BY <3>1
      <3> QED
        BY <3>3, <3>4, <3>5, <3>6
    <2>3. CASE ListItems
      BY <1>1, <2>3 DEF ListItems, TypeOK
    <2>4. CASE Diff
      BY <1>1, <2>4 DEF Diff, TypeOK, markVars
    <2> QED
      BY <2>1, <2>2, <2>3, <2>4
  <1>5. TypeOK'
    BY <1>1, <1>3, <1>4 DEF TypeOK
  <1>6. Replica'
    BY <1>1, <1>3 DEF Replica, MissFits
  <1>7. \A i \in Titled : i \in present' /\ Survives(i) => Survives(i)'
    <2>1. CASE BackgroundCycle
      BY <1>3, <2>1 DEF BackgroundCycle, Lead, Survives
    <2>2. CASE CycleFails
      BY <1>3, <2>2 DEF CycleFails, Survives
    <2>3. CASE ListItems
      BY <1>3, <2>3 DEF ListItems, Survives
    <2>4. CASE Diff
      BY <1>3, <2>4 DEF Diff, Survives
    <2> QED
      BY <2>1, <2>2, <2>3, <2>4
  <1>8. Calm
    BY <1>2, <1>3, <1>7 DEF Calm
  <1>9. ASSUME NEW q \in Requests PROVE Sound(q)'
    <2>1. Sound(q) /\ req'[q] = req[q]
      BY <1>1, <1>3
    <2>2. req[q].pc = "meta" /\ req[q].owed => unheeded' /\ ~overtaken'
      BY <1>3, <2>1 DEF Sound
    <2> QED
      BY <1>1, <1>5, <1>8, <2>1, <2>2, CalmKeeps
  <1>10. CycleFinds'
    <2>0. \A i \in Items : Older(i, leader)' /\ leader' = leader => Older(i, leader) /\ i \in present
      BY <1>3 DEF Older
    <2>1. CASE BackgroundCycle
      BY <2>1 DEF BackgroundCycle, Lead, CycleFinds, Requests
    <2>2. CASE CycleFails
      BY <1>1, <1>3, <2>2 DEF CycleFails, CycleFinds
    <2>3. CASE ListItems
      BY <1>1, <1>3, <2>0, <2>3 DEF ListItems, CycleFinds, Older
    <2>4. CASE Diff
      <3>1. /\ flight = "diff" /\ flight' = "get" /\ leader' = leader
            /\ toFetch' = listing \ index /\ toRemove' = index \ listing
        BY <2>4 DEF Diff
      <3>2. ASSUME leader \in Requests, NEW i \in Titled, Older(i, leader)'
            PROVE  i \in toFetch' \/ Survives(i)'
        <4>1. Older(i, leader)
          BY <1>3, <3>1, <3>2 DEF Older
        <4>2. i \in listing
          BY <1>1, <3>1, <3>2, <4>1 DEF CycleFinds
        <4> QED
          BY <1>3, <3>1, <4>2 DEF Survives
      <3>3. leader \in Requests => req'[leader].pc = "waiting"
        BY <1>1, <1>3, <3>1 DEF CycleFinds
      <3> QED
        BY <3>1, <3>2, <3>3 DEF CycleFinds
    <2> QED
      BY <2>1, <2>2, <2>3, <2>4
  <1> QED
    BY <1>5, <1>6, <1>9, <1>10, PartsNext

\* The step that applies a cycle; only the responses that are being read change.
LEMMA ApplyKeeps ==
    ASSUME IInv, Apply
    PROVE  IInv'
  <1>1. TypeOK /\ Replica /\ CycleFinds /\ \A q \in Requests : Sound(q)
    BY Parts
  <1>2. /\ now \in Nat /\ lastApply \in Times /\ events \in Nat /\ lastApply <= now
        /\ req \in [Requests -> Request] /\ born \in [Titled -> Nat]
    BY <1>1 DEF TypeOK, Replica
  <1>3. PICK errs \in SUBSET (toFetch \cap present) :
          /\ IF errs = {} THEN UNCHANGED events ELSE Event
          /\ index' = (index \ toRemove) \cup ((toFetch \cap present) \ errs)
          /\ whole' = (errs = {})
    BY DEF Apply
  <1>4. /\ UNCHANGED <<now, present, unborn, born, config, leader, listing, clearing>>
        /\ flight = "get" /\ flight' = "done" /\ toFetch' = {} /\ toRemove' = {}
        /\ missed' = Never /\ missedHeard' = "nothing" /\ lastCycle' = now /\ suspect' = FALSE
        /\ lastApply' = now /\ early' = FALSE
    BY DEF Apply, serverVars
  <1>5. unheeded' = (unheeded /\ early) /\ overtaken' = (unheeded /\ early)
    BY DEF Apply
  <1>6. ASSUME NEW q \in Requests
        PROVE  /\ req'[q] \in Request
               /\ req'[q].pc = req[q].pc /\ req'[q].cfg = req[q].cfg /\ req'[q].start = req[q].start
               /\ req'[q].heard = req[q].heard /\ req'[q].item = req[q].item
               /\ req'[q].pc = "meta" => ~req'[q].owed
    <2>1. req'[q] = IF req[q].pc = "meta" THEN [req[q] EXCEPT !.owed = FALSE] ELSE req[q]
      BY DEF Apply
    <2>2. req[q] \in Request
      BY <1>2
    <2>3. CASE req[q].pc = "meta"
      <3> DEFINE rec == [req[q] EXCEPT !.owed = FALSE]
      <3>1. /\ rec \in Request /\ rec.pc = req[q].pc /\ rec.cfg = req[q].cfg /\ rec.start = req[q].start
            /\ rec.heard = req[q].heard /\ rec.item = req[q].item /\ rec.owed = FALSE
        BY <2>2 DEF Request
      <3>2. req'[q] = rec
        BY <2>1, <2>3
      <3> HIDE DEF rec
      <3> QED
        BY <3>1, <3>2
    <2>4. CASE req[q].pc # "meta"
      BY <2>1, <2>2, <2>4
    <2> QED
      BY <2>3, <2>4
  <1>7. TypeOK'
    <2>1. req' \in [Requests -> Request]
      <3>1. req' = [q \in Requests |->
                      IF req[q].pc = "meta" THEN [req[q] EXCEPT !.owed = FALSE] ELSE req[q]]
        BY DEF Apply
      <3> QED
        BY <1>6, <3>1
    <2>2. \A q \in Requests : req'[q].pc \in {"known", "check", "body", "meta"} => req'[q].item # {}
      BY <1>1, <1>6 DEF TypeOK
    <2>3. unheeded' \in BOOLEAN /\ overtaken' \in BOOLEAN
      BY <1>5, Zenon
    <2>4. /\ now' \in Nat /\ present' \in SUBSET Items /\ unborn' \in SUBSET Items
          /\ lastCycle' \in Times /\ missed' \in Times /\ config' \in Configs /\ suspect' \in BOOLEAN
          /\ missedHeard' \in Heard /\ born' \in [Titled -> Nat] /\ lastApply' \in Times
      BY <1>1, <1>2, <1>4 DEF TypeOK, Times, Heard
    <2>5. /\ flight' \in {"none", "list", "diff", "get", "done"}
          /\ leader' \in Requests \cup {Background, Nobody}
          /\ listing' \in SUBSET Items /\ toFetch' \in SUBSET Items /\ toRemove' \in SUBSET Items
          /\ clearing' \in BOOLEAN /\ early' \in BOOLEAN
      BY <1>1, <1>4 DEF TypeOK
    <2>6. index' \in SUBSET Items /\ whole' \in BOOLEAN
      BY <1>1, <1>3 DEF TypeOK
    <2>7. events' \in Nat
      BY <1>2, <1>3 DEF Event
    <2> QED
      BY <2>1, <2>2, <2>3, <2>4, <2>5, <2>6, <2>7 DEF TypeOK
  <1>8. Replica'
    <2>1. lastApply' # Never /\ missed' <= now'
      BY <1>2, <1>4 DEF Never
    <2>2. unheeded' /\ ~overtaken' => FALSE
      BY <1>5
    <2> QED
      BY <1>1, <1>2, <1>4, <2>1, <2>2 DEF Replica, MissFits
  <1>9. Calm
    <2>1. now <= now' /\ lastApply <= lastApply'
      BY <1>2, <1>4
    <2>2. \A i \in Titled : i \in present' /\ Survives(i) => Survives(i)'
      BY <1>3, <1>4 DEF Survives
    <2> QED
      BY <1>4, <2>1, <2>2 DEF Calm
  <1>10. ASSUME NEW q \in Requests PROVE Sound(q)'
    BY <1>1, <1>6, <1>7, <1>9, CalmKeeps
  <1>11. CycleFinds'
    <2> SUFFICES ASSUME leader \in Requests
                 PROVE  /\ req'[leader].pc = "waiting"
                        /\ \A i \in Titled : Older(i, leader)' /\ whole' => i \in index'
      BY <1>4 DEF CycleFinds
    <2>1. req'[leader].pc = "waiting"
      BY <1>1, <1>4, <1>6 DEF CycleFinds
    <2>2. ASSUME NEW i \in Titled, Older(i, leader)', whole' PROVE i \in index'
      <3>1. Older(i, leader) /\ i \in present
        BY <1>4, <1>6, <2>2 DEF Older
      <3>2. i \in toFetch \/ Survives(i)
        BY <1>1, <1>4, <3>1 DEF CycleFinds
      <3> QED
        BY <1>3, <1>4, <2>2, <3>1, <3>2 DEF Survives
    <2> QED
      BY <2>1, <2>2
  <1> QED
    BY <1>7, <1>8, <1>10, <1>11, PartsNext

\* The end of a cycle: everyone who waits looks again.
LEMMA ReturningKeeps ==
    ASSUME IInv, CycleReturns
    PROVE  IInv'
  <1>1. TypeOK /\ Replica /\ CycleFinds /\ \A q \in Requests : Sound(q)
    BY Parts
  <1>2. /\ now \in Nat /\ lastApply \in Times /\ req \in [Requests -> Request]
        /\ now <= now /\ lastApply <= lastApply
    BY <1>1 DEF TypeOK, Times, Never
  <1>3. /\ UNCHANGED <<now, present, unborn, born, index, lastCycle, suspect, missed, missedHeard, config,
                       listing, toFetch, toRemove, clearing, lastApply, unheeded, early, overtaken, events>>
        /\ flight = "done" /\ flight' = "none" /\ leader' = Nobody /\ whole' = FALSE
    BY DEF CycleReturns, serverVars, replicaVars, missVars, markVars
  <1>4. ASSUME NEW q \in Requests
        PROVE  /\ req'[q] \in Request
               /\ req'[q].cfg = req[q].cfg /\ req'[q].start = req[q].start
               /\ req'[q].item = req[q].item /\ req'[q].owed = req[q].owed
               /\ q \notin Waiting => req'[q] = req[q]
               /\ q \in Waiting => req'[q].pc = "again" /\ req'[q].heard = Heed(q)
    <2>1. req'[q] = IF q \in Waiting THEN [req[q] EXCEPT !.pc = "again", !.heard = Heed(q)] ELSE req[q]
      BY DEF CycleReturns
    <2>2. req[q] \in Request /\ Heed(q) \in Heard /\ "again" \in Phases
      BY <1>2 DEF Heed, Heard, Phases
    <2>3. CASE q \in Waiting
      BY <2>1, <2>2, <2>3 DEF Request
    <2>4. CASE q \notin Waiting
      BY <2>1, <2>2, <2>4
    <2> QED
      BY <2>3, <2>4
  <1>5. TypeOK'
    <2>1. req' \in [Requests -> Request]
      <3>1. req' = [q \in Requests |->
                      IF q \in Waiting THEN [req[q] EXCEPT !.pc = "again", !.heard = Heed(q)] ELSE req[q]]
        BY DEF CycleReturns
      <3> QED
        BY <1>4, <3>1
    <2>2. \A q \in Requests : req'[q].pc \in {"known", "check", "body", "meta"} => req'[q].item # {}
      BY <1>1, <1>4 DEF TypeOK
    <2> QED
      BY <1>1, <1>3, <2>1, <2>2 DEF TypeOK
  <1>6. Replica'
    BY <1>1, <1>3 DEF Replica, MissFits
  <1>7. Calm
    BY <1>2, <1>3 DEF Calm, Survives
  <1>8. ASSUME NEW q \in Requests PROVE Sound(q)'
    <2>1. CASE q \notin Waiting
      <3>1. req'[q] = req[q] /\ Sound(q)
        BY <1>1, <1>4, <2>1
      <3>2. req[q].pc = "meta" /\ req[q].owed => unheeded' /\ ~overtaken'
        BY <1>3, <3>1 DEF Sound
      <3> QED
        BY <1>1, <1>5, <1>7, <3>1, <3>2, CalmKeeps
    <2>2. CASE q \in Waiting
      <3>1. req'[q].pc = "again" /\ req'[q].heard \in {"nothing", "listed"}
        BY <1>4, <2>2 DEF Heed
      <3>2. req'[q].start <= now'
        BY <1>1, <1>3, <1>4 DEF Sound
      <3>3. ASSUME req'[q].heard = "listed", NEW i \in Titled, Older(i, q)'
            PROVE  Survives(i)'
        <4>1. whole /\ q = leader
          BY <1>4, <2>2, <3>3 DEF Heed
        <4>2. Older(i, q)
          BY <1>3, <1>4, <3>3 DEF Older
        <4>3. i \in index
          BY <1>1, <1>3, <4>1, <4>2 DEF CycleFinds
        <4> QED
          BY <1>3, <4>3 DEF Survives
      <3> QED
        BY <3>1, <3>2, <3>3 DEF Sound
    <2> QED
      BY <2>1, <2>2
  <1>9. CycleFinds'
    BY <1>3 DEF CycleFinds
  <1> QED
    BY <1>5, <1>6, <1>8, <1>9, PartsNext

-----------------------------------------------------------------------------
\* The initial states satisfy the inductive invariant.
LEMMA InitSound == Init => IInv
  <1> SUFFICES ASSUME Init PROVE IInv
    OBVIOUS
  <1>2. \A r \in Requests : req[r] = Idle
    BY DEF Init
  <1>1. TypeOK
    <2>1. req \in [Requests -> Request]
      BY IdleTyped DEF Init
    <2>2. \A r \in Requests : req[r].pc = "idle"
      BY <1>2, IdleTyped
    <2>3. now \in Nat /\ born \in [Titled -> Nat] /\ events \in Nat
      BY DEF Init
    <2> QED
      BY <2>1, <2>2, <2>3 DEF Init, TypeOK, Times, Never, Heard
  <1>3. Replica
    BY DEF Init, Replica, MissFits, Never
  <1>4. CycleFinds
    BY DEF Init, CycleFinds
  <1>5. ASSUME NEW r \in Requests PROVE Sound(r)
    BY <1>2, IdleTyped DEF Init, Sound
  <1> QED
    BY <1>1, <1>3, <1>4, <1>5, Parts

\* Every step keeps the inductive invariant.
LEMMA NextSound == IInv /\ [Next]_vars => IInv'
  <1> SUFFICES ASSUME IInv, [Next]_vars PROVE IInv'
    OBVIOUS
  <1>1. CASE Tick \/ ChangedElsewhere \/ Invalidate \/ ClearMisses \/ WriteConfig
    BY <1>1, OutsideKeeps
  <1>2. CASE BackgroundCycle \/ CycleFails \/ ListItems \/ Diff
    BY <1>2, FetchingKeeps
  <1>3. CASE Apply
    BY <1>3, ApplyKeeps
  <1>4. CASE CycleReturns
    BY <1>4, ReturningKeeps
  <1>5. ASSUME NEW r \in Requests, Begin(r) \/ RequestStep(r) PROVE IInv'
    BY <1>5, RequestKeeps
  <1>6. CASE UNCHANGED vars
    <2>1. UNCHANGED <<now, present, unborn, born, index, lastCycle, suspect, missed, missedHeard, config,
                      flight, leader, listing, toFetch, toRemove, whole, req, clearing, lastApply, unheeded,
                      early, overtaken, events>>
      BY <1>6 DEF vars, serverVars, replicaVars, missVars, flightVars, markVars
    <2>2. TypeOK /\ Replica /\ CycleFinds /\ \A q \in Requests : Sound(q)
      BY Parts
    <2>3. TypeOK'
      BY <2>1, <2>2 DEF TypeOK
    <2>4. Replica' /\ CycleFinds'
      BY <2>1, <2>2 DEF Replica, MissFits, CycleFinds, Older, Survives
    <2>5. ASSUME NEW q \in Requests PROVE Sound(q)'
      BY <2>1, <2>2 DEF Sound, Older, Survives
    <2> QED
      BY <2>3, <2>4, <2>5, PartsNext
  <1> QED
    BY <1>1, <1>2, <1>3, <1>4, <1>5, <1>6 DEF Next, CycleStep

\* Only ensureItemFresh's look at the age of the replica serves from the window.
LEMMA OnlyJudgeServes ==
    ASSUME TypeOK, Replica, CycleFinds, \A q \in Requests : Sound(q), [Next]_vars,
           NEW r \in Requests, req[r].pc = "known", req[r].heard = "nothing", req'[r].heard = "window"
    PROVE  Judge(r)
  <1>1. req'[r] # req[r]
    OBVIOUS
  <1>2. ~UNCHANGED vars
    BY <1>1 DEF vars
  <1>3. ~(Tick \/ ChangedElsewhere \/ BackgroundCycle \/ CycleFails \/ ListItems \/ Diff
            \/ Invalidate \/ ClearMisses \/ WriteConfig)
    BY <1>1 DEF Tick, ChangedElsewhere, BackgroundCycle, CycleFails, ListItems, Diff, Invalidate,
                ClearMisses, WriteConfig, CycleUnchanged
  <1>4. ~Apply
    BY <1>1 DEF Apply
  <1>5. ~CycleReturns
    BY <1>1 DEF CycleReturns, Waiting
  <1>6. PICK q \in Requests : Begin(q) \/ RequestStep(q)
    BY <1>2, <1>3, <1>4, <1>5 DEF Next, CycleStep
  <1>7. q = r
    BY <1>1, <1>6, RequestSound DEF Only
  <1> QED
    BY <1>6, <1>7 DEF RequestStep, Begin, Resolve, MissUnasked, MissKnown, MissAsked, LeadCycle,
       JoinCycle, NoClient, LookAgain, Count, EmptyVault, StoreMiss, CheckStale, ReadBody, ReadMeta,
       AnswerMissing, CreateItem, CreateFails, ApplyWrite

\* It does so only from a replica that is young enough.
LEMMA JudgedWithin ==
    ASSUME TypeOK, NEW r \in Requests, Judge(r), req[r].heard = "nothing", req'[r].heard = "window"
    PROVE  ~Expired(r)
  <1>1. req \in [Requests -> Request]
    BY DEF TypeOK
  <1> SUFFICES ASSUME Expired(r) PROVE FALSE
    OBVIOUS
  <1>2. PICK h \in {"cycle", "nothing"} :
          IF h = "cycle" THEN Goto(r, "cycle") ELSE Serve(r, "nothing")
    BY DEF Judge
  <1>3. CASE Goto(r, "cycle")
    BY <1>1, <1>3, GotoDoes DEF Phases
  <1>4. CASE Becomes(r, [req[r] EXCEPT !.pc = "check", !.heard = "nothing"])
    BY <1>1, <1>4, HearingDoes DEF Phases, Heard
  <1>5. CASE Return(r)
    BY <1>1, <1>5, ReturnDoes
  <1> QED
    BY <1>2, <1>3, <1>4, <1>5 DEF Serve

\* IInv always holds ...
THEOREM Inductive == Spec => []IInv
  <1> QED
    BY InitSound, NextSound, PTL DEF Spec

\* ... so the state is always well typed,
THEOREM Typed == Spec => []TypeOK
  <1>1. IInv => TypeOK
    BY DEF IInv
  <1> QED
    BY Inductive, <1>1, PTL

\* "not found" and a create rest on a listing that was there to say so,
THEOREM Justified == Spec => []MissIsJustified
  <1>1. IInv => MissIsJustified
    BY DEF IInv
  <1> QED
    BY Inductive, <1>1, PTL

\* nobody takes a replica that was never loaded for an empty vault,
THEOREM NotCold == Spec => []ColdIsNotAbsent
  <1>1. IInv => ColdIsNotAbsent
    BY DEF IInv
  <1> QED
    BY Inductive, <1>1, PTL

\* a read is served from the window only if a cycle confirmed the replica
\* within passthrough_ttl and no invalidation has marked it since,
THEOREM Windowed == Spec => WindowHolds
  <1> DEFINE InWindow(r) == req[r].pc = "known" /\ req'[r].heard = "window" =>
                              /\ req[r].cfg.ttl # 0
                              /\ lastApply # Never /\ lastApply + req[r].cfg.ttl > req[r].start
                              /\ ~Marked
  <1>1. ASSUME IInv, [Next]_vars, NEW r \in Requests PROVE InWindow(r)
    <2>1. TypeOK /\ Replica /\ CycleFinds /\ \A q \in Requests : Sound(q)
      BY <1>1, Parts
    <2> SUFFICES ASSUME req[r].pc = "known", req'[r].heard = "window"
                 PROVE  /\ req[r].cfg.ttl # 0
                        /\ lastApply # Never /\ lastApply + req[r].cfg.ttl > req[r].start
                        /\ ~Marked
      OBVIOUS
    <2>2. req[r].heard = "nothing"
      BY <2>1 DEF Sound
    <2>3. Judge(r)
      BY <1>1, <2>1, <2>2, OnlyJudgeServes
    <2>4. ~Expired(r)
      BY <2>1, <2>2, <2>3, JudgedWithin
    <2>5. lastCycle = lastApply /\ (Marked => lastCycle = Never)
      BY <2>1, <2>4 DEF Replica, Expired, Marked
    <2>6. lastCycle \in Nat /\ req[r].start \in Nat /\ req[r].cfg.ttl \in Nat
      BY <2>1, <2>4 DEF TypeOK, Times, Request, Expired
    <2> QED
      BY <2>4, <2>5, <2>6 DEF Expired
  <1>2. IInv /\ [Next]_vars => [\A r \in Requests : InWindow(r)]_vars
    BY <1>1
  <1> QED
    BY Inductive, <1>2, PTL DEF Spec, WindowHolds

\* and stale_suspect is told where it is owed.
THEOREM Told == Spec => []SuspectIsTold
  <1>1. IInv => SuspectIsTold
    BY DEF IInv
  <1> QED
    BY Inductive, <1>1, PTL
=============================================================================
