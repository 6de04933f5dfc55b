------------------------- MODULE VaultReplicaProofs -------------------------
(***************************************************************************)
(* Proofs about VaultReplica, for every set of items, callers and writers, *)
(* every chunk size and every bound: the inductive invariant IInv, the     *)
(* safety properties it implies, and that runCycle implements Coalescing.  *)
(***************************************************************************)
EXTENDS VaultReplica, TLAPS

(* Typing: every step of doCycle, of a write handler, of 1Password and of  *)
(* a restart keeps every variable in its domain.                           *)
LEMMA TypeInit == Init => TypeOK
BY NobodyAssumption DEF Init, TypeOK, EmptyReplica, NoCycles, NoItems, Absent, Phases, Outcomes,
                        WriterPhases, Exists

(* A change of the 1Password vault keeps the types of the server and of the bound. *)
LEMMA TypeStore ==
    ASSUME TypeOK, NEW i \in Items, NEW s \in Exists \cup {"deleted"}, Store(i, s)
    PROVE  /\ state' \in [Items -> {"unborn", "deleted"} \cup Exists]
           /\ version' \in [Items -> Nat]
           /\ edits' \in Nat
BY DEF TypeOK, Store, Edit, Exists

(* Changes made elsewhere keep the types.                                   *)
LEMMA TypeServer ==
    ASSUME TypeOK, NEW i \in Items, ChangedElsewhere(i)
    PROVE  TypeOK'
<1>1. PICK s \in Exists \cup {"deleted"} : Store(i, s)
      BY DEF ChangedElsewhere, Exists
<1>2. UNCHANGED <<replicaVars, cycleVars, writerVars, faults, historyVars>>
      BY DEF ChangedElsewhere
<1> QED BY <1>1, <1>2, TypeStore
        DEF TypeOK, replicaVars, indexVars, cycleVars, flightVars, fetchVars, writerVars, historyVars

(* Entering runCycle keeps the types.                                       *)
LEMMA TypeRunCycle ==
    ASSUME TypeOK, NEW c \in Callers, RunCycle(c)
    PROVE  TypeOK'
BY DEF TypeOK, RunCycle, Set, Phases, Outcomes, serverVars, replicaVars, indexVars, fetchVars,
       writerVars, historyVars

(* Every step of doCycle keeps the types.                                   *)
LEMMA TypeLeader ==
    ASSUME TypeOK, NEW c \in Callers, LeaderStep(c)
    PROVE  TypeOK'
<1> USE DEF TypeOK, serverVars, replicaVars, indexVars, cycleVars, flightVars, fetchVars, writerVars,
            historyVars
<1>1. CASE GateDenies(c)
      BY <1>1 DEF GateDenies, Fails, Fault, Set, Phases, Outcomes
<1>2. CASE RequestFails(c)
      BY <1>2 DEF RequestFails, Fails, Fault, Set, Phases, Outcomes
<1>3. CASE ListItems(c)
      BY <1>3 DEF ListItems, Listed, Absent, Set, Phases
<1>4. CASE Diff(c)
      BY <1>4 DEF Diff, Changed, Unlisted, Set, Phases
<1>5. CASE GetItems(c)
      BY <1>5 DEF GetItems, Fault, Absent, Set
<1>6. CASE Apply(c)
      BY <1>6 DEF Apply, NewIndex, NewBodies, Landed, KeptTombstones, Absent, Set, Phases, Outcomes
<1>7. CASE Unpublish(c)
      BY <1>7 DEF Unpublish, NoItems, Absent, Set, Phases
<1>8. CASE Release(c)
      BY <1>8 DEF Release, Phases
<1> QED BY <1>1, <1>2, <1>3, <1>4, <1>5, <1>6, <1>7, <1>8 DEF LeaderStep

(* Every step of a write handler keeps the types.                           *)
LEMMA TypeWriter ==
    ASSUME TypeOK, NEW w \in Writers, WriterStep(w)
    PROVE  TypeOK'
<1> USE DEF TypeOK, WriterStays, serverVars, replicaVars, indexVars, cycleVars, flightVars, fetchVars,
            writerVars, historyVars
<1>1. CASE Locate(w)
      BY <1>1 DEF Locate, Set, WriterPhases
<1>2. CASE CreateItem(w)
      BY <1>2 DEF CreateItem, Store, Edit, Set, WriterPhases, Exists
<1>3. CASE PutItem(w)
      BY <1>3 DEF PutItem, Store, Edit, Set, WriterPhases, Exists
<1>4. CASE DeleteItem(w)
      BY <1>4 DEF DeleteItem, Store, Edit, Set, WriterPhases, Exists
<1>5. CASE WriteFails(w)
  <2>1. target[w] \in Items
        BY <1>5 DEF WriteFails
  <2>2. /\ state' \in [Items -> {"unborn", "deleted"} \cup Exists]
        /\ version' \in [Items -> Nat]
        /\ edits' \in Nat
        BY <1>5, <2>1, TypeStore DEF WriteFails
  <2>3. faults' \in Nat
        BY <1>5 DEF WriteFails, Fault
  <2> QED BY <1>5, <2>2, <2>3 DEF WriteFails, Return, Set, WriterPhases
<1>6. CASE ApplyWrite(w)
      BY <1>6 DEF ApplyWrite, Return, Set, WriterPhases
<1>7. CASE ApplyDelete(w)
      BY <1>7 DEF ApplyDelete, Return, Buried, Absent, Set, WriterPhases
<1> QED BY <1>1, <1>2, <1>3, <1>4, <1>5, <1>6, <1>7 DEF WriterStep

(* Invalidation and a restart keep the types.                               *)
LEMMA TypeRestart == TypeOK /\ (Invalidate \/ Restart) => TypeOK'
BY DEF TypeOK, Invalidate, Restart, Fault, NoItems, Absent, Phases, Outcomes, WriterPhases, serverVars,
       replicaVars, indexVars, cycleVars, flightVars, fetchVars, writerVars, historyVars

(* Every step keeps the types.                                              *)
LEMMA TypeStep == TypeOK /\ [Next]_vars => TypeOK'
<1> SUFFICES ASSUME TypeOK, [Next]_vars PROVE TypeOK'
    OBVIOUS
<1>1. CASE UNCHANGED vars
      BY <1>1 DEF TypeOK, vars, serverVars, replicaVars, indexVars, cycleVars, flightVars, fetchVars,
                  writerVars, historyVars
<1> QED BY <1>1, TypeServer, TypeRunCycle, TypeLeader, TypeWriter, TypeRestart DEF Next

(* The replica, the cycles' locals and the history always have the shape   *)
(* the code gives them.                                                    *)
THEOREM TypeCorrect == Spec => []TypeOK
BY TypeInit, TypeStep, PTL DEF Spec

(***************************************************************************)
(* The inductive invariant.                                                *)
(***************************************************************************)
LEMMA IInvInit == Init => IInv
BY TypeInit DEF Init, IInv, TypeOK, EmptyReplica, NoCycles, NoItems, Absent, Exists, InCycle,
    SingleFlight, ServerFits, LocalsFit, WritersFit, FetchedFits, DeadAreBuried, IndexMatchesBodies,
    IndexNotAheadOfBody, AckedWriteVisible, DeletedStaysGone

(* Whatever changes an item in 1Password only makes Versions grow, and an  *)
(* item that is deleted stays deleted.                                     *)
LEMMA StoreFacts ==
    ASSUME TypeOK, NEW i \in Items, NEW s \in Exists \cup {"deleted"}, state[i] # "deleted", Store(i, s)
    PROVE  /\ \A j \in Items : version[j] <= version'[j]
           /\ version'[i] = version[i] + 1
           /\ \A j \in Items : state'[j] \in Exists => state[j] \in Exists \/ version'[j] > 0
           /\ \A j \in Items : state[j] = "deleted" => state'[j] = "deleted"
BY DEF TypeOK, Store, Edit, Exists

(* What a change of 1Password cannot disturb: locals, promises and tombstones. *)
LEMMA InvServerMoves ==
    ASSUME IInv, TypeOK', UNCHANGED <<replicaVars, cycleVars, historyVars>>,
           \A j \in Items : version[j] <= version'[j],
           \A j \in Items : state'[j] \in Exists => state[j] \in Exists \/ version'[j] > 0,
           \A j \in Items : state[j] = "deleted" => state'[j] = "deleted"
    PROVE  /\ SingleFlight' /\ ServerFits' /\ LocalsFit' /\ FetchedFits' /\ DeadAreBuried'
           /\ IndexMatchesBodies' /\ IndexNotAheadOfBody' /\ AckedWriteVisible' /\ DeletedStaysGone'
<1> USE DEF IInv, TypeOK, Absent, Exists, replicaVars, indexVars, cycleVars, flightVars, fetchVars,
            historyVars
<1>1. SingleFlight' /\ FetchedFits' /\ DeadAreBuried'
      BY DEF SingleFlight, InCycle, FetchedFits, DeadAreBuried
<1>2. ServerFits'
      BY DEF ServerFits
<1>3. LocalsFit'
      BY DEF LocalsFit, NoItems
<1>4. IndexMatchesBodies' /\ IndexNotAheadOfBody'
      BY DEF IndexMatchesBodies, IndexNotAheadOfBody
<1>5. AckedWriteVisible' /\ DeletedStaysGone'
      BY DEF AckedWriteVisible, DeletedStaysGone
<1> QED BY <1>1, <1>2, <1>3, <1>4, <1>5

(* A change made elsewhere keeps the invariant.                             *)
LEMMA InvServer ==
    ASSUME IInv, TypeOK', NEW i \in Items, ChangedElsewhere(i)
    PROVE  IInv'
<1>1. PICK s \in Exists \cup {"deleted"} : Store(i, s)
      BY DEF ChangedElsewhere, Exists
<1>2. state[i] # "deleted" /\ UNCHANGED <<replicaVars, cycleVars, writerVars, historyVars>>
      BY DEF ChangedElsewhere, Exists
<1>3. WritersFit'
      BY <1>1, <1>2, StoreFacts DEF IInv, TypeOK, WritersFit, writerVars
<1> QED BY <1>1, <1>2, <1>3, StoreFacts, InvServerMoves DEF IInv

(* runCycle keeps the invariant: only one caller leads.                     *)
LEMMA InvRunCycle ==
    ASSUME IInv, TypeOK', NEW c \in Callers, RunCycle(c)
    PROVE  IInv'
<1> USE DEF IInv, TypeOK, Absent, NoItems, Set, Exists, InCycle, serverVars, replicaVars,
            indexVars, cycleVars, flightVars, fetchVars, writerVars, historyVars,
            RunCycle
<1>1. /\ ServerFits' /\ WritersFit' /\ IndexMatchesBodies' /\ IndexNotAheadOfBody'
      /\ AckedWriteVisible' /\ DeletedStaysGone'
      BY DEF ServerFits, WritersFit, IndexMatchesBodies, IndexNotAheadOfBody, AckedWriteVisible,
             DeletedStaysGone
<1>2. SingleFlight'
  <2>1. CASE inflight = Nobody
        BY <2>1, NobodyAssumption DEF SingleFlight
  <2>2. CASE inflight # Nobody
        BY <2>2 DEF SingleFlight
  <2> QED BY <2>1, <2>2
<1>3. LocalsFit'
  <2>1. version' = version /\ active' = active /\ results' = results
        /\ toFetch' = toFetch /\ toRemove' = toRemove
        OBVIOUS
  <2>2. \A d \in Callers : pc'[d] \notin {"get", "unpublish"} => pc[d] \notin {"get", "unpublish"}
        OBVIOUS
  <2>3. LocalsFit
        OBVIOUS
  <2> HIDE DEF IInv, TypeOK, RunCycle
  <2> QED BY <2>1, <2>2, <2>3 DEF LocalsFit
<1>4. FetchedFits'
      BY DEF FetchedFits
<1>5. DeadAreBuried'
      BY DEF DeadAreBuried
<1> QED BY <1>1, <1>2, <1>3, <1>4, <1>5

(* A denied cycle keeps the invariant.                                      *)
LEMMA InvGateDenies ==
    ASSUME IInv, TypeOK', NEW c \in Callers, GateDenies(c)
    PROVE  IInv'
<1> USE DEF IInv, TypeOK, Absent, NoItems, Set, Exists, InCycle, serverVars, replicaVars,
            indexVars, cycleVars, flightVars, fetchVars, writerVars, historyVars,
            GateDenies, Fails
<1>1. /\ ServerFits' /\ WritersFit' /\ IndexMatchesBodies' /\ IndexNotAheadOfBody'
      /\ AckedWriteVisible' /\ DeletedStaysGone'
      BY DEF ServerFits, WritersFit, IndexMatchesBodies, IndexNotAheadOfBody, AckedWriteVisible,
             DeletedStaysGone
<1>2. SingleFlight'
      BY DEF SingleFlight
<1>3. LocalsFit'
      BY DEF LocalsFit
<1>4. FetchedFits'
      BY DEF FetchedFits
<1>5. DeadAreBuried'
      BY DEF DeadAreBuried
<1> QED BY <1>1, <1>2, <1>3, <1>4, <1>5

(* A failed request keeps the invariant.                                    *)
LEMMA InvRequestFails ==
    ASSUME IInv, TypeOK', NEW c \in Callers, RequestFails(c)
    PROVE  IInv'
<1> USE DEF IInv, TypeOK, Absent, NoItems, Set, Exists, InCycle, serverVars, replicaVars,
            indexVars, cycleVars, flightVars, fetchVars, writerVars, historyVars,
            RequestFails, Fails
<1>1. /\ ServerFits' /\ WritersFit' /\ IndexMatchesBodies' /\ IndexNotAheadOfBody'
      /\ AckedWriteVisible' /\ DeletedStaysGone'
      BY DEF ServerFits, WritersFit, IndexMatchesBodies, IndexNotAheadOfBody, AckedWriteVisible,
             DeletedStaysGone
<1>2. SingleFlight'
      BY DEF SingleFlight
<1>3. LocalsFit'
      BY DEF LocalsFit
<1>4. FetchedFits'
      BY DEF FetchedFits
<1>5. DeadAreBuried'
      BY DEF DeadAreBuried
<1> QED BY <1>1, <1>2, <1>3, <1>4, <1>5

(* ListItems keeps the invariant: what it lists is 1Password's.             *)
LEMMA InvListItems ==
    ASSUME IInv, TypeOK', NEW c \in Callers, ListItems(c)
    PROVE  IInv'
<1> USE DEF IInv, TypeOK, Absent, NoItems, Set, Exists, InCycle, serverVars, replicaVars,
            indexVars, cycleVars, flightVars, fetchVars, writerVars, historyVars,
            ListItems, Listed
<1>1. /\ ServerFits' /\ WritersFit' /\ IndexMatchesBodies' /\ IndexNotAheadOfBody'
      /\ AckedWriteVisible' /\ DeletedStaysGone'
      BY DEF ServerFits, WritersFit, IndexMatchesBodies, IndexNotAheadOfBody, AckedWriteVisible,
             DeletedStaysGone
<1>2. SingleFlight'
      BY DEF SingleFlight
<1>3. LocalsFit'
      BY DEF LocalsFit
<1>4. FetchedFits'
      BY DEF FetchedFits
<1>5. DeadAreBuried'
      BY DEF DeadAreBuried, ServerFits
<1> QED BY <1>1, <1>2, <1>3, <1>4, <1>5

(* The diff keeps the invariant: what is fetched was listed, what goes was not. *)
LEMMA InvDiff ==
    ASSUME IInv, TypeOK', NEW c \in Callers, Diff(c)
    PROVE  IInv'
<1> USE DEF IInv, TypeOK, Absent, NoItems, Set, Exists, InCycle, serverVars, replicaVars,
            indexVars, cycleVars, flightVars, fetchVars, writerVars, historyVars,
            Diff, Changed, Unlisted
<1>1. /\ ServerFits' /\ WritersFit' /\ IndexMatchesBodies' /\ IndexNotAheadOfBody'
      /\ AckedWriteVisible' /\ DeletedStaysGone'
      BY DEF ServerFits, WritersFit, IndexMatchesBodies, IndexNotAheadOfBody, AckedWriteVisible,
             DeletedStaysGone
<1>2. SingleFlight'
      BY DEF SingleFlight
<1>3. LocalsFit'
      BY DEF LocalsFit
<1>4. FetchedFits'
  <2>1. results'[c] = NoItems
        BY DEF LocalsFit
  <2> QED BY <2>1 DEF FetchedFits
<1>5. DeadAreBuried'
      BY DEF DeadAreBuried
<1> QED BY <1>1, <1>2, <1>3, <1>4, <1>5

(* GetItems keeps the invariant: a body is fetched after its listing.       *)
LEMMA InvGetItems ==
    ASSUME IInv, TypeOK', NEW c \in Callers, GetItems(c)
    PROVE  IInv'
<1> USE DEF IInv, TypeOK, Absent, NoItems, Set, Exists, InCycle, serverVars, replicaVars,
            indexVars, cycleVars, flightVars, fetchVars, writerVars, historyVars,
            GetItems
<1>1. /\ SingleFlight' /\ ServerFits' /\ WritersFit' /\ DeadAreBuried' /\ IndexMatchesBodies'
      /\ IndexNotAheadOfBody' /\ AckedWriteVisible' /\ DeletedStaysGone'
      BY DEF SingleFlight, ServerFits, WritersFit, DeadAreBuried, IndexMatchesBodies,
             IndexNotAheadOfBody, AckedWriteVisible, DeletedStaysGone
<1>2. LocalsFit'
      BY DEF LocalsFit
<1>3. FetchedFits'
      BY DEF FetchedFits, ServerFits
<1> QED BY <1>1, <1>2, <1>3

(* The section that applies a cycle keeps the invariant.                    *)
LEMMA InvApply ==
    ASSUME IInv, TypeOK', NEW c \in Callers, Apply(c)
    PROVE  IInv'
<1>1. \A i \in Landed(c) :
          /\ i \notin toRemove[c] /\ i \notin tombstones
          /\ 0 < active[c][i] /\ active[c][i] <= results[c][i] /\ results[c][i] <= version[i]
          /\ bodies[i] <= results[c][i]
      BY DEF Landed, IInv, TypeOK, LocalsFit, Absent
<1>2. \A i \in Items :
          /\ i \in toRemove[c] => overview'[i] = Absent /\ bodies'[i] = Absent
          /\ i \in Landed(c) => overview'[i] = active[c][i] /\ bodies'[i] = results[c][i]
          /\ i \notin toRemove[c] \cup Landed(c) => overview'[i] = overview[i] /\ bodies'[i] = bodies[i]
      BY <1>1 DEF Apply, NewIndex, NewBodies
<1>3. /\ inflight = c
      /\ \A d \in Callers : pc'[d] \in InCycle => d = c
      /\ pc'[c] = "unpublish"
      BY DEF Apply, Set, IInv, TypeOK, SingleFlight, InCycle
<1>4. UNCHANGED <<serverVars, flightVars, fetchVars, writerVars, gone>>
      BY DEF Apply
<1>5. \A i \in Items : acked'[i] = IF i \in toRemove[c] /\ state[i] # "active" THEN Absent ELSE acked[i]
      BY DEF Apply
<1>6. toRemove[c] \in SUBSET Items /\ Landed(c) \in SUBSET Items
      BY DEF IInv, TypeOK, Landed
<1>7. SingleFlight'
      BY <1>3, <1>4 DEF Apply, Set, IInv, TypeOK, SingleFlight, InCycle, flightVars
<1>8. ServerFits'
  <2>1. ASSUME NEW i \in Items PROVE acked'[i] <= version'[i]
    <3>1. acked'[i] = 0 \/ acked'[i] = acked[i]
          BY <1>5 DEF Absent
    <3>2. version[i] \in Nat /\ acked[i] <= version[i] /\ version' = version
          BY <1>4 DEF IInv, TypeOK, ServerFits, serverVars
    <3> QED BY <3>1, <3>2
  <2> QED BY <1>4, <2>1 DEF IInv, ServerFits, serverVars
<1>9. LocalsFit'
      BY <1>4 DEF Apply, Set, IInv, TypeOK, LocalsFit, serverVars, fetchVars
<1>10. WritersFit'
      BY <1>4 DEF IInv, TypeOK, WritersFit, serverVars, writerVars
<1>11. FetchedFits' /\ DeadAreBuried'
      BY <1>3 DEF FetchedFits, DeadAreBuried, InCycle
<1>12. IndexMatchesBodies' /\ IndexNotAheadOfBody'
  <2> SUFFICES ASSUME NEW i \in Items
               PROVE  /\ overview'[i] = Absent <=> bodies'[i] = Absent
                      /\ overview'[i] <= bodies'[i] /\ bodies'[i] <= version'[i]
      BY DEF IndexMatchesBodies, IndexNotAheadOfBody
  <2>1. version'[i] = version[i] /\ version[i] \in Nat
        BY <1>4 DEF IInv, TypeOK, serverVars
  <2>2. CASE i \in toRemove[c]
        BY <1>2, <2>1, <2>2 DEF Absent
  <2>3. CASE i \in Landed(c)
        BY <1>1, <1>2, <2>1, <2>3 DEF IInv, TypeOK, Absent
  <2>4. CASE i \notin toRemove[c] \cup Landed(c)
        BY <1>2, <2>1, <2>4 DEF IInv, IndexMatchesBodies, IndexNotAheadOfBody
  <2> QED BY <2>2, <2>3, <2>4
<1>13. AckedWriteVisible'
  <2> SUFFICES ASSUME NEW i \in Items, i \notin raced' PROVE acked'[i] <= bodies'[i]
      BY DEF AckedWriteVisible
  <2>1. CASE i \in toRemove[c]
        BY <1>1, <1>5, <2>1 DEF Apply, IInv, TypeOK, Absent
  <2>2. CASE i \in Landed(c)
        BY <1>1, <1>2, <1>5, <2>2 DEF Apply, Landed, IInv, TypeOK, FetchedFits, Absent
  <2>3. CASE i \notin toRemove[c] \cup Landed(c)
        BY <1>2, <1>5, <2>3 DEF Apply, IInv, TypeOK, AckedWriteVisible
  <2> QED BY <2>1, <2>2, <2>3
<1>14. DeletedStaysGone'
  <2> SUFFICES ASSUME NEW i \in gone, i \notin revived'
               PROVE  overview'[i] = Absent /\ bodies'[i] = Absent
      BY <1>4 DEF DeletedStaysGone
  <2>1. CASE i \in toRemove[c]
        BY <1>2, <1>6, <2>1
  <2>2. CASE i \notin toRemove[c]
    <3>1. i \in Items /\ i \notin revived
          BY <2>2 DEF Apply, IInv, TypeOK
    <3>2. i \notin Landed(c)
          BY <1>1, <3>1 DEF Apply, IInv, DeadAreBuried, Absent
    <3> QED BY <1>2, <2>2, <3>1, <3>2 DEF IInv, DeletedStaysGone
  <2> QED BY <2>1, <2>2
<1> QED BY <1>7, <1>8, <1>9, <1>10, <1>11, <1>12, <1>13, <1>14 DEF IInv

(* v.inflight = nil keeps the invariant.                                    *)
LEMMA InvUnpublish ==
    ASSUME IInv, TypeOK', NEW c \in Callers, Unpublish(c)
    PROVE  IInv'
<1> USE DEF IInv, TypeOK, Absent, NoItems, Set, Exists, InCycle, serverVars, replicaVars,
            indexVars, cycleVars, flightVars, fetchVars, writerVars, historyVars,
            Unpublish
<1>1. /\ ServerFits' /\ WritersFit' /\ IndexMatchesBodies' /\ IndexNotAheadOfBody'
      /\ AckedWriteVisible' /\ DeletedStaysGone'
      BY DEF ServerFits, WritersFit, IndexMatchesBodies, IndexNotAheadOfBody, AckedWriteVisible,
             DeletedStaysGone
<1>2. SingleFlight'
      BY DEF SingleFlight
<1>3. LocalsFit'
      BY DEF LocalsFit
<1>4. FetchedFits'
      BY DEF FetchedFits
<1>5. DeadAreBuried'
      BY DEF DeadAreBuried
<1> QED BY <1>1, <1>2, <1>3, <1>4, <1>5

(* wg.Done keeps the invariant.                                             *)
LEMMA InvRelease ==
    ASSUME IInv, TypeOK', NEW c \in Callers, Release(c)
    PROVE  IInv'
<1> USE DEF IInv, TypeOK, Absent, NoItems, Set, Exists, InCycle, serverVars, replicaVars,
            indexVars, cycleVars, flightVars, fetchVars, writerVars, historyVars,
            Release, Followers
<1>1. /\ ServerFits' /\ WritersFit' /\ IndexMatchesBodies' /\ IndexNotAheadOfBody'
      /\ AckedWriteVisible' /\ DeletedStaysGone'
      BY DEF ServerFits, WritersFit, IndexMatchesBodies, IndexNotAheadOfBody, AckedWriteVisible,
             DeletedStaysGone
<1>2. SingleFlight'
      BY DEF SingleFlight
<1>3. LocalsFit'
      BY DEF LocalsFit
<1>4. FetchedFits'
      BY DEF FetchedFits
<1>5. DeadAreBuried'
      BY DEF DeadAreBuried
<1> QED BY <1>1, <1>2, <1>3, <1>4, <1>5

(* locateItem keeps the invariant.                                          *)
LEMMA InvLocate ==
    ASSUME IInv, TypeOK', NEW w \in Writers, Locate(w)
    PROVE  IInv'
<1> USE DEF IInv, TypeOK, Absent, NoItems, Set, Exists, InCycle, serverVars, replicaVars,
            indexVars, cycleVars, flightVars, fetchVars, writerVars, historyVars,
            Locate, WriterStays
<1>1. /\ SingleFlight' /\ ServerFits' /\ LocalsFit' /\ FetchedFits' /\ DeadAreBuried'
      /\ IndexMatchesBodies' /\ IndexNotAheadOfBody' /\ AckedWriteVisible' /\ DeletedStaysGone'
      BY DEF SingleFlight, ServerFits, LocalsFit, FetchedFits, DeadAreBuried, IndexMatchesBodies,
             IndexNotAheadOfBody, AckedWriteVisible, DeletedStaysGone
<1>2. WritersFit'
      BY DEF WritersFit
<1> QED BY <1>1, <1>2

(* CreateItem keeps the invariant.                                          *)
LEMMA InvCreateItem ==
    ASSUME IInv, TypeOK', NEW w \in Writers, CreateItem(w)
    PROVE  IInv'
<1>1. PICK i \in Items : /\ state[i] = "unborn"
                           /\ Store(i, "active")
                           /\ target' = [target EXCEPT ![w] = i]
                           /\ wver' = [wver EXCEPT ![w] = version[i] + 1]
      BY DEF CreateItem, Set
<1>2. wpc' = [wpc EXCEPT ![w] = "applyWrite"]
      BY DEF CreateItem, Set
<1>3. UNCHANGED <<replicaVars, cycleVars, historyVars>>
      BY DEF CreateItem, WriterStays
<1>4. /\ \A j \in Items : version[j] <= version'[j]
      /\ version'[i] = version[i] + 1
      /\ \A j \in Items : state'[j] \in Exists => state[j] \in Exists \/ version'[j] > 0
      /\ \A j \in Items : state[j] = "deleted" => state'[j] = "deleted"
      BY <1>1, StoreFacts DEF IInv, Exists
<1>5. WritersFit'
      BY <1>1, <1>2, <1>4 DEF IInv, TypeOK, WritersFit
<1> QED BY <1>3, <1>4, <1>5, InvServerMoves DEF IInv

(* PutItem keeps the invariant.                                             *)
LEMMA InvPutItem ==
    ASSUME IInv, TypeOK', NEW w \in Writers, PutItem(w)
    PROVE  IInv'
<1> DEFINE i == target[w]
<1>1. /\ i \in Items /\ state[i] \in Exists /\ Store(i, state[i])
      /\ wver' = [wver EXCEPT ![w] = version[i] + 1]
      /\ wpc' = [wpc EXCEPT ![w] = "applyWrite"]
      /\ target' = target
      /\ UNCHANGED <<replicaVars, cycleVars, historyVars>>
      BY DEF PutItem, WriterStays, IInv, TypeOK, Set
<1>2. /\ \A j \in Items : version[j] <= version'[j]
      /\ version'[i] = version[i] + 1
      /\ \A j \in Items : state'[j] \in Exists => state[j] \in Exists \/ version'[j] > 0
      /\ \A j \in Items : state[j] = "deleted" => state'[j] = "deleted"
      BY <1>1, StoreFacts DEF IInv, Exists
<1>3. WritersFit'
      BY <1>1, <1>2 DEF IInv, TypeOK, WritersFit
<1> QED BY <1>1, <1>2, <1>3, InvServerMoves DEF IInv

(* DeleteItem keeps the invariant.                                          *)
LEMMA InvDeleteItem ==
    ASSUME IInv, TypeOK', NEW w \in Writers, DeleteItem(w)
    PROVE  IInv'
<1> DEFINE i == target[w]
<1>1. /\ i \in Items /\ state[i] \in Exists /\ Store(i, "deleted")
      /\ wpc' = [wpc EXCEPT ![w] = "applyDelete"]
      /\ UNCHANGED <<target, wver>>
      /\ UNCHANGED <<replicaVars, cycleVars, historyVars>>
      BY DEF DeleteItem, WriterStays, IInv, TypeOK, Set
<1>2. /\ \A j \in Items : version[j] <= version'[j]
      /\ \A j \in Items : state'[j] \in Exists => state[j] \in Exists \/ version'[j] > 0
      /\ \A j \in Items : state[j] = "deleted" => state'[j] = "deleted"
      BY <1>1, StoreFacts DEF IInv, Exists
<1>3. state'[i] = "deleted"
      BY <1>1 DEF Store, IInv, TypeOK
<1>4. WritersFit'
      BY <1>1, <1>2, <1>3 DEF IInv, TypeOK, WritersFit
<1> QED BY <1>1, <1>2, <1>4, InvServerMoves DEF IInv

(* A failed write, its answer lost or not, keeps the invariant.             *)
LEMMA InvWriteFails ==
    ASSUME IInv, TypeOK', NEW w \in Writers, WriteFails(w)
    PROVE  IInv'
<1> DEFINE i == target[w]
<1>1. /\ i \in Items
      /\ wpc' = [wpc EXCEPT ![w] = "idle"]
      /\ target' = [target EXCEPT ![w] = Nobody]
      /\ wver' = [wver EXCEPT ![w] = 0]
      /\ UNCHANGED <<replicaVars, cycleVars, historyVars>>
      BY DEF WriteFails, Return, WriterStays, IInv, TypeOK, Set
<1>2. \/ UNCHANGED serverVars
      \/ /\ state[i] \in Exists
         /\ \E s \in Exists \cup {"deleted"} : Store(i, s)
      BY DEF WriteFails
<1>3. /\ \A j \in Items : version[j] <= version'[j]
      /\ \A j \in Items : state'[j] \in Exists => state[j] \in Exists \/ version'[j] > 0
      /\ \A j \in Items : state[j] = "deleted" => state'[j] = "deleted"
  <2>1. CASE UNCHANGED serverVars
        BY <2>1 DEF IInv, TypeOK, serverVars
  <2>2. CASE state[i] \in Exists /\ \E s \in Exists \cup {"deleted"} : Store(i, s)
        BY <1>1, <2>2, StoreFacts DEF IInv, Exists
  <2> QED BY <1>2, <2>1, <2>2
<1>4. WritersFit'
      BY <1>1, <1>3 DEF IInv, TypeOK, WritersFit
<1> QED BY <1>1, <1>3, <1>4, InvServerMoves DEF IInv

(* applyWrite keeps the invariant.                                          *)
LEMMA InvApplyWrite ==
    ASSUME IInv, TypeOK', NEW w \in Writers, ApplyWrite(w)
    PROVE  IInv'
<1> USE DEF IInv, TypeOK, Absent, NoItems, Set, Exists, InCycle, serverVars, replicaVars,
            indexVars, cycleVars, flightVars, fetchVars, writerVars, historyVars,
            ApplyWrite, Supersedes, Return
<1>1. SingleFlight' /\ LocalsFit'
      BY DEF SingleFlight, LocalsFit
<1>2. ServerFits'
      BY DEF ServerFits, WritersFit
<1>3. WritersFit'
      BY DEF WritersFit
<1>4. FetchedFits'
      BY DEF FetchedFits
<1>5. DeadAreBuried'
      BY DEF DeadAreBuried
<1>6. IndexMatchesBodies'
  <2>1. CASE Supersedes(target[w], wver[w])
        BY <2>1, SMTT(30) DEF IndexMatchesBodies, WritersFit
  <2>2. CASE ~ Supersedes(target[w], wver[w])
        BY <2>2 DEF IndexMatchesBodies
  <2> QED BY <2>1, <2>2
<1>7. IndexNotAheadOfBody'
  <2>1. CASE Supersedes(target[w], wver[w])
    <3>1. target[w] \in Items /\ wver[w] <= version[target[w]]
          BY DEF WritersFit
    <3>2. /\ overview' = [overview EXCEPT ![target[w]] = wver[w]]
          /\ bodies' = [bodies EXCEPT ![target[w]] = wver[w]]
          /\ version' = version
          BY <2>1
    <3> QED BY <3>1, <3>2 DEF IndexNotAheadOfBody
  <2>2. CASE ~ Supersedes(target[w], wver[w])
        BY <2>2 DEF IndexNotAheadOfBody
  <2> QED BY <2>1, <2>2
<1>8. AckedWriteVisible'
      BY DEF AckedWriteVisible
<1>9. DeletedStaysGone'
      BY DEF DeletedStaysGone
<1> QED BY <1>1, <1>2, <1>3, <1>4, <1>5, <1>6, <1>7, <1>8, <1>9

(* applyDelete keeps the invariant.                                         *)
LEMMA InvApplyDelete ==
    ASSUME IInv, TypeOK', NEW w \in Writers, ApplyDelete(w)
    PROVE  IInv'
<1> USE DEF IInv, TypeOK, Absent, NoItems, Set, Exists, InCycle, serverVars, replicaVars,
            indexVars, cycleVars, flightVars, fetchVars, writerVars, historyVars,
            ApplyDelete, Buried, Return
<1>1. SingleFlight' /\ LocalsFit'
      BY DEF SingleFlight, LocalsFit
<1>2. ServerFits'
      BY DEF ServerFits, WritersFit
<1>3. WritersFit'
      BY DEF WritersFit
<1>4. FetchedFits'
      BY DEF FetchedFits
<1>5. DeadAreBuried'
      BY DEF DeadAreBuried
<1>6. IndexMatchesBodies'
      BY DEF IndexMatchesBodies
<1>7. IndexNotAheadOfBody'
      BY DEF IndexNotAheadOfBody
<1>8. AckedWriteVisible'
      BY DEF AckedWriteVisible
<1>9. DeletedStaysGone'
      BY DEF DeletedStaysGone
<1> QED BY <1>1, <1>2, <1>3, <1>4, <1>5, <1>6, <1>7, <1>8, <1>9

(* Invalidation keeps the invariant.                                        *)
LEMMA InvInvalidate ==
    ASSUME IInv, TypeOK', Invalidate
    PROVE  IInv'
<1> USE DEF IInv, TypeOK, Absent, NoItems, Set, Exists, InCycle, serverVars, replicaVars,
            indexVars, cycleVars, flightVars, fetchVars, writerVars, historyVars,
            Invalidate
<1>1. /\ SingleFlight' /\ ServerFits' /\ LocalsFit' /\ WritersFit' /\ FetchedFits'
      /\ DeadAreBuried' /\ IndexMatchesBodies' /\ IndexNotAheadOfBody' /\ AckedWriteVisible'
      /\ DeletedStaysGone'
      BY DEF SingleFlight, ServerFits, LocalsFit, WritersFit, FetchedFits, DeadAreBuried,
             IndexMatchesBodies, IndexNotAheadOfBody, AckedWriteVisible, DeletedStaysGone
<1> QED BY <1>1

(* A restart keeps the invariant.                                           *)
LEMMA InvRestart ==
    ASSUME IInv, TypeOK', Restart
    PROVE  IInv'
<1> USE DEF IInv, TypeOK, Absent, NoItems, Set, Exists, InCycle, serverVars, replicaVars,
            indexVars, cycleVars, flightVars, fetchVars, writerVars, historyVars,
            Restart
<1>1. /\ SingleFlight' /\ WritersFit' /\ FetchedFits' /\ DeadAreBuried' /\ IndexMatchesBodies'
      /\ IndexNotAheadOfBody' /\ AckedWriteVisible' /\ DeletedStaysGone'
      BY DEF SingleFlight, WritersFit, FetchedFits, DeadAreBuried, IndexMatchesBodies,
             IndexNotAheadOfBody, AckedWriteVisible, DeletedStaysGone
<1>2. ServerFits'
      BY DEF ServerFits
<1>3. LocalsFit'
      BY DEF LocalsFit
<1> QED BY <1>1, <1>2, <1>3

(* Every step keeps the inductive invariant.                                *)
LEMMA IInvStep == IInv /\ [Next]_vars => IInv'
<1> SUFFICES ASSUME IInv, [Next]_vars PROVE IInv'
    OBVIOUS
<1>1. TypeOK'
      BY TypeStep DEF IInv
<1>2. CASE UNCHANGED vars
      BY <1>2 DEF IInv, TypeOK, SingleFlight, InCycle, ServerFits, LocalsFit, WritersFit, FetchedFits,
           DeadAreBuried, IndexMatchesBodies, IndexNotAheadOfBody, AckedWriteVisible, DeletedStaysGone,
           vars, serverVars, replicaVars, indexVars, cycleVars, flightVars, fetchVars, writerVars,
           historyVars
<1>3. ASSUME NEW c \in Callers, LeaderStep(c) PROVE IInv'
      BY <1>1, <1>3, InvGateDenies, InvRequestFails, InvListItems, InvDiff, InvGetItems, InvApply,
         InvUnpublish, InvRelease DEF LeaderStep
<1>4. ASSUME NEW w \in Writers, WriterStep(w) PROVE IInv'
      BY <1>1, <1>4, InvLocate, InvCreateItem, InvPutItem, InvDeleteItem, InvWriteFails, InvApplyWrite,
         InvApplyDelete DEF WriterStep
<1> QED BY <1>1, <1>2, <1>3, <1>4, InvServer, InvRunCycle, InvInvalidate, InvRestart DEF Next

(* The inductive invariant holds of cycle.go, replica.go and writes.go      *)
(* together, for any number of items, callers and writers.                  *)
THEOREM InductiveInvariant == Spec => []IInv
BY IInvInit, IInvStep, PTL DEF Spec

(* Full materialization: index and bodies have the same keys in every      *)
(* reachable state of every instance.                                      *)
THEOREM Materialized == Spec => []IndexMatchesBodies
<1>1. IInv => IndexMatchesBodies
      BY DEF IInv
<1> QED BY <1>1, InductiveInvariant, PTL

(* No body is ever stuck behind an index that claims to be newer.          *)
THEOREM NeverStuckBehindIndex == Spec => []IndexNotAheadOfBody
<1>1. IInv => IndexNotAheadOfBody
      BY DEF IInv
<1> QED BY <1>1, InductiveInvariant, PTL

(* An acknowledged write can disappear from the replica only through the   *)
(* race that ReadYourWrites shows.                                         *)
THEOREM AckedWritesServed == Spec => []AckedWriteVisible
<1>1. IInv => AckedWriteVisible
      BY DEF IInv
<1> QED BY <1>1, InductiveInvariant, PTL

(* No delta cycle resurrects an item deleted through the engine, whatever  *)
(* it listed before the delete.                                            *)
THEOREM DeletedItemsStayGone == Spec => []DeletedStaysGone
<1>1. IInv => DeletedStaysGone
      BY DEF IInv
<1> QED BY <1>1, InductiveInvariant, PTL

(* A held body is replaced only by one at least as new: by a cycle, by a   *)
(* write handler, in any order.                                            *)
LEMMA BodiesGrow ==
    ASSUME IInv, Next
    PROVE  \A i \in Items : bodies[i] # Absent /\ bodies'[i] # Absent => bodies[i] <= bodies'[i]
<1> USE DEF IInv, TypeOK
<1>1. CASE UNCHANGED bodies
      BY <1>1
<1>2. ASSUME NEW c \in Callers, Apply(c)
      PROVE  \A i \in Items : bodies[i] # Absent /\ bodies'[i] # Absent => bodies[i] <= bodies'[i]
      BY <1>2 DEF Apply, NewBodies, Landed
<1>3. ASSUME NEW w \in Writers, ApplyWrite(w)
      PROVE  \A i \in Items : bodies[i] # Absent /\ bodies'[i] # Absent => bodies[i] <= bodies'[i]
  <2>1. CASE Supersedes(target[w], wver[w])
    <3>1. /\ target[w] \in Items /\ wver[w] \in Nat
          /\ bodies[target[w]] <= wver[w]
          /\ bodies' = [bodies EXCEPT ![target[w]] = wver[w]]
          BY <1>3, <2>1 DEF ApplyWrite, Supersedes, Set
    <3> QED BY <3>1
  <2>2. CASE ~ Supersedes(target[w], wver[w])
        BY <1>3, <2>2 DEF ApplyWrite, indexVars
  <2> QED BY <2>1, <2>2
<1>4. ASSUME NEW w \in Writers, ApplyDelete(w)
      PROVE  \A i \in Items : bodies[i] # Absent /\ bodies'[i] # Absent => bodies[i] <= bodies'[i]
      BY <1>4 DEF ApplyDelete, Set
<1>5. CASE Restart
      BY <1>5 DEF Restart, NoItems
<1>6. ASSUME NEW i \in Items, ChangedElsewhere(i) PROVE UNCHANGED bodies
      BY <1>6 DEF ChangedElsewhere, replicaVars, indexVars
<1>7. ASSUME NEW c \in Callers, RunCycle(c) \/ (LeaderStep(c) /\ ~ Apply(c)) PROVE UNCHANGED bodies
      BY <1>7 DEF RunCycle, LeaderStep, GateDenies, RequestFails, Fails, ListItems, Diff, GetItems,
                  Unpublish, Release, replicaVars, indexVars
<1>8. ASSUME NEW w \in Writers, WriterStep(w), ~ ApplyWrite(w), ~ ApplyDelete(w) PROVE UNCHANGED bodies
      BY <1>8 DEF WriterStep, Locate, CreateItem, PutItem, DeleteItem, WriteFails, WriterStays,
                  replicaVars, indexVars
<1>9. CASE Invalidate
      BY <1>9 DEF Invalidate, indexVars
<1> QED BY <1>1, <1>2, <1>3, <1>4, <1>5, <1>6, <1>7, <1>8, <1>9 DEF Next

(* No step of the engine replaces a body by an older one.                   *)
THEOREM BodiesNeverRegress == Spec => BodyNeverRegresses
<1>1. IInv /\ [Next]_vars =>
          [\A i \in Items : bodies[i] # Absent /\ bodies'[i] # Absent => bodies[i] <= bodies'[i]]_vars
      BY BodiesGrow
<1> QED BY <1>1, InductiveInvariant, PTL DEF Spec, BodyNeverRegresses

(***************************************************************************)
(* runCycle implements Coalescing.                                         *)
(***************************************************************************)
Group == [c \in Callers |-> IF pc[c] = "idle" THEN Nobody
                            ELSE IF pc[c] = "waiting" THEN leader[c] ELSE c]
Outcome == [c \in Callers |-> IF pc[c] = "idle" THEN ret[c] ELSE "none"]

(* A step that shows the callers nothing new is a stutter of the promise.   *)
LEMMA PromiseStutters ==
    ASSUME UNCHANGED inflight, Group' = Group, Outcome' = Outcome
    PROVE  UNCHANGED Promise!vars
BY DEF Promise!vars, Group, Outcome

(* An engine that has just started is a promise with nothing open.          *)
LEMMA PromiseInit == Init => Promise!Init
BY DEF Init, NoCycles, Promise!Init

(* runCycle leads a group or joins the open one.                            *)
LEMMA PromiseRunCycle ==
    ASSUME IInv, NEW c \in Callers, RunCycle(c)
    PROVE  Promise!Lead(c) \/ Promise!Join(c)
<1> USE NobodyAssumption DEF RunCycle, Set, IInv, TypeOK, SingleFlight, InCycle
<1>1. CASE inflight = Nobody
      BY <1>1, ZenonT(60) DEF Promise!Lead, Promise!Out, Promise!Enter
<1>2. CASE inflight # Nobody
      BY <1>2, ZenonT(60) DEF Promise!Join, Promise!Out, Promise!Enter
<1> QED BY <1>1, <1>2

(* Unpublishing closes the open group.                                      *)
LEMMA PromiseUnpublish ==
    ASSUME IInv, NEW c \in Callers, Unpublish(c)
    PROVE  Promise!Close(c)
BY DEF Unpublish, Set, IInv, TypeOK, SingleFlight, InCycle, Promise!Close

(* Releasing returns to the whole group at once.                            *)
LEMMA PromiseRelease ==
    ASSUME IInv, NEW c \in Callers, Release(c)
    PROVE  \E o \in Outcomes : Promise!Finish(c, o)
<1> USE NobodyAssumption DEF Release, Followers, IInv, TypeOK, SingleFlight, InCycle
<1>1. inflight # c /\ ret[c] \in Outcomes /\ UNCHANGED inflight
      OBVIOUS
<1>2. Promise!Members(c) = {c} \cup Followers(c)
      BY DEF Promise!Members
<1>3. Group' = [d \in Callers |-> IF d \in {c} \cup Followers(c) THEN Nobody ELSE Group[d]]
      BY DEF Group
<1>4. Outcome' = [d \in Callers |-> IF d \in {c} \cup Followers(c) THEN ret[c] ELSE Outcome[d]]
      BY DEF Outcome
<1>5. ASSUME NEW o \in Outcomes, o = ret[c] PROVE Promise!Finish(c, o)
      BY <1>1, <1>2, <1>3, <1>4, <1>5 DEF Promise!Finish, Group, Outcome
<1> QED BY <1>1, <1>5

(* Listing, fetching and applying are stutters of the promise.              *)
LEMMA PromiseWork ==
    ASSUME IInv, NEW c \in Callers, LeaderStep(c), ~ Unpublish(c), ~ Release(c)
    PROVE  UNCHANGED Promise!vars
<1> USE DEF IInv, TypeOK, flightVars
<1>1. /\ UNCHANGED flightVars
      /\ pc[c] \notin {"idle", "waiting"} /\ pc'[c] \notin {"idle", "waiting"}
      /\ \A d \in Callers \ {c} : pc'[d] = pc[d] /\ ret'[d] = ret[d]
      BY DEF LeaderStep, GateDenies, RequestFails, Fails, ListItems, Diff, GetItems, Apply, Set
<1>2. Group' = Group
      BY <1>1 DEF Group
<1>3. Outcome' = Outcome
      BY <1>1 DEF Outcome
<1> QED BY <1>1, <1>2, <1>3, PromiseStutters

(* Every step of the replica is a step or a stutter of the promise.         *)
LEMMA PromiseStep == IInv /\ [Next]_vars => [Promise!Next]_(Promise!vars)
<1> SUFFICES ASSUME IInv, [Next]_vars PROVE [Promise!Next]_(Promise!vars)
    OBVIOUS
<1>1. CASE UNCHANGED cycleVars
      BY <1>1, PromiseStutters DEF Group, Outcome, cycleVars, flightVars
<1>2. CASE UNCHANGED vars
      BY <1>1, <1>2 DEF vars
<1>3. ASSUME NEW i \in Items, ChangedElsewhere(i) PROVE UNCHANGED cycleVars
      BY <1>3 DEF ChangedElsewhere
<1>4. ASSUME NEW w \in Writers, WriterStep(w) PROVE UNCHANGED cycleVars
      BY <1>4 DEF WriterStep, Locate, CreateItem, PutItem, DeleteItem, WriteFails, WriterStays,
                  ApplyWrite, ApplyDelete
<1>5. CASE Invalidate
      BY <1>1, <1>5 DEF Invalidate
<1>6. CASE Restart
      BY <1>6 DEF Restart, Promise!Next, Promise!Crash, Promise!Init
<1>7. ASSUME NEW c \in Callers, RunCycle(c) \/ LeaderStep(c) PROVE [Promise!Next]_(Promise!vars)
  <2>1. CASE RunCycle(c)
        BY <2>1, PromiseRunCycle DEF Promise!Next
  <2>2. CASE Unpublish(c)
        BY <2>2, PromiseUnpublish DEF Promise!Next
  <2>3. CASE Release(c)
    <3>1. \E o \in Outcomes : Promise!Finish(c, o)
          BY <2>3, PromiseRelease
    <3> QED BY <3>1 DEF Promise!Next
  <2>4. CASE LeaderStep(c) /\ ~ Unpublish(c) /\ ~ Release(c)
        BY <2>4, PromiseWork
  <2> QED BY <1>7, <2>1, <2>2, <2>3, <2>4
<1> QED BY <1>1, <1>2, <1>3, <1>4, <1>5, <1>6, <1>7 DEF Next

(* Callers see one execution at a time and the outcome of the one they     *)
(* joined, for any number of goroutines.                                   *)
THEOREM RunCycleCoalesces == Spec => Coalesces
BY PromiseInit, PromiseStep, InductiveInvariant, PTL DEF Spec, Coalesces, Promise!Spec

=============================================================================
