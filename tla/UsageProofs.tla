----------------------------- MODULE UsageProofs -----------------------------
(***************************************************************************)
(* The rolling counts of usagePct are exact, and a probe's percentage is   *)
(* the one of the configuration in force: for all windows, limits, tokens, *)
(* configurations and bounds.                                              *)
(***************************************************************************)
EXTENDS Usage, InductionLemmas

USE WindowsAssumption, ConfigsAssumption, PercentsAssumption, NoneAssumption, BoundsAssumption

-----------------------------------------------------------------------------
\* Pruning goes on from where it was, at most past the end, and what it passes
\* is a whole day old.
LEMMA PruningIsLate ==
    ASSUME TypeOK, NEW s \in Seq(Nat), first <= Len(s) + 1
    PROVE  /\ KeptFrom(s) \in first .. Len(s) + 1
           /\ \A j \in first .. KeptFrom(s) - 1 : s[j] <= now - Day
  <1> DEFINE young == {j \in first .. Len(s) : s[j] > now - Day} \cup {Len(s) + 1}
  <1>1. first \in Nat /\ Len(s) \in Nat /\ now \in Int
    BY DEF TypeOK
  <1>2. \A j \in 1 .. Len(s) : s[j] \in Nat
    OBVIOUS
  <1>3. young \in SUBSET (first .. Len(s) + 1) /\ young # {}
    BY <1>1
  <1>4. young \in SUBSET Nat
    BY <1>1, <1>3
  <1>5. Min(young) \in young /\ \A j \in young : Min(young) <= j
    <2> HIDE DEF young
    <2> QED
      BY <1>3, <1>4, MinIsSmallest
  <1>6. KeptFrom(s) = Min(young)
    BY DEF KeptFrom
  <1>7. ASSUME NEW j \in first .. KeptFrom(s) - 1 PROVE s[j] <= now - Day
    <2>1. Min(young) \in Nat /\ Min(young) <= Len(s) + 1
      BY <1>1, <1>3, <1>5
    <2>2. j < Min(young)
      BY <1>1, <1>6, <2>1
    <2>3. j \in first .. Len(s) /\ j \in 1 .. Len(s)
      BY <1>1, <1>6, <2>1 DEF TypeOK
    <2>4. j \notin young
      <3> HIDE DEF young
      <3> QED
        BY <1>1, <1>5, <2>1, <2>2, <2>3
    <2>5. ~ (s[j] > now - Day)
      BY <2>3, <2>4
    <2> QED
      BY <1>1, <1>2, <2>3, <2>5
  <1> QED
    BY <1>3, <1>5, <1>6, <1>7

\* What recordRequest appends is a sequence of instants, and leaves the units
\* before it where they were.
LEMMA UnitsAppended ==
    ASSUME TypeOK, NEW units \in Nat
    PROVE  LET s == stamps \o [j \in 1 .. units |-> now]
           IN  /\ s \in Seq(Nat)
               /\ Len(s) >= Len(stamps)
               /\ \A j \in 1 .. Len(stamps) : s[j] = stamps[j]
  <1> DEFINE t == [j \in 1 .. units |-> now]
  <1>1. now \in Nat /\ stamps \in Seq(Nat)
    BY DEF TypeOK
  <1>2. t \in Seq(Nat) /\ Len(t) = units
    BY <1>1
  <1> HIDE DEF t
  <1>3. stamps \o t \in Seq(Nat) /\ Len(stamps \o t) = Len(stamps) + units
    <2>1. stamps \o t \in Seq(Nat)
      BY <1>1, <1>2, SMTT(30)
    <2>2. Len(stamps \o t) = Len(stamps) + units
      BY <1>1, <1>2, SMTT(30)
    <2> QED
      BY <2>1, <2>2
  <1>4. \A j \in 1 .. Len(stamps) : (stamps \o t)[j] = stamps[j]
    BY <1>1, <1>2
  <1>5. Len(stamps) + units >= Len(stamps)
    BY <1>1
  <1> QED
    BY <1>3, <1>4, <1>5 DEF t

\* The units pruned away are a day old or older.
PrunedAreOld ==
    /\ first <= Len(stamps) + 1
    /\ \A j \in 1 .. first - 1 : stamps[j] <= now - Day

\* A probe under way runs with the token of the configuration that started it,
\* which asked for it, and so does what it measures.
Taken(m) ==
    /\ m.rewrites <= rewrites
    /\ m.rewrites = rewrites => m.token = config.token /\ config.probeCmd

TakenTogether ==
    /\ probing.step = "running" => Taken(probing)
    /\ measured # None => Taken(measured)

\* A percentage comes from a measurement of this process.
PctIsMeasured == measured = None => probedPct = 0

IInv == TypeOK /\ PrunedAreOld /\ TakenTogether /\ PctIsMeasured

\* Nothing counted has been pruned.
LEMMA NothingCountedIsGone == TypeOK /\ PrunedAreOld => CountsAreExact
  <1> SUFFICES ASSUME TypeOK, PrunedAreOld, NEW window \in {Hour, Day}
               PROVE  CountFrom(first, window) = CountFrom(1, window)
    BY DEF CountsAreExact
  <1>1. ASSUME NEW j \in 1 .. Len(stamps), stamps[j] > now - window PROVE j \in first .. Len(stamps)
    <2>1. stamps[j] \in Nat /\ now \in Nat /\ first \in Nat /\ Len(stamps) \in Nat
      BY DEF TypeOK
    <2>2. stamps[j] > now - Day
      BY <1>1, <2>1
    <2>3. j \notin 1 .. first - 1
      BY <2>1, <2>2 DEF PrunedAreOld
    <2> QED
      BY <2>1, <2>3
  <1>2. first .. Len(stamps) \subseteq 1 .. Len(stamps)
    BY DEF TypeOK
  <1>3. {j \in first .. Len(stamps) : stamps[j] > now - window}
            = {j \in 1 .. Len(stamps) : stamps[j] > now - window}
    BY <1>1, <1>2
  <1> QED
    BY <1>3 DEF CountFrom

LEMMA InitInductive == Init => IInv
  <1> SUFFICES ASSUME Init PROVE IInv
    OBVIOUS
  <1>1. TypeOK
    <2>1. now \in 0 .. MaxNow /\ rewrites \in 0 .. MaxRewrites /\ restarts \in 0 .. MaxRestarts
      BY DEF Init
    <2>2. stamps \in Seq(Nat) /\ first \in Nat \ {0} /\ probedPct \in Nat
      BY DEF Init
    <2> QED
      BY <2>1, <2>2 DEF Init, TypeOK
  <1>2. PrunedAreOld
    BY DEF Init, PrunedAreOld
  <1>3. TakenTogether /\ PctIsMeasured
    BY DEF Init, TakenTogether, PctIsMeasured, Idle
  <1> QED
    BY <1>1, <1>2, <1>3 DEF IInv

\* Every step keeps the types; a step of the events also where pruning is.
LEMMA NextEvents ==
    ASSUME IInv, [Next]_vars
    PROVE  stamps' \in Seq(Nat) /\ first' \in Nat \ {0} /\ PrunedAreOld'
  <1>1. /\ stamps \in Seq(Nat) /\ first \in Nat \ {0} /\ now \in Nat /\ Len(stamps) \in Nat
        /\ first <= Len(stamps) + 1
        /\ \A j \in 1 .. first - 1 : stamps[j] <= now - Day
        /\ \A j \in 1 .. Len(stamps) : stamps[j] \in Nat
    BY SMTT(30) DEF IInv, TypeOK, PrunedAreOld
  <1>2. ASSUME NEW s \in Seq(Nat), Len(s) >= Len(stamps), \A j \in 1 .. Len(stamps) : s[j] = stamps[j],
               stamps' = s, first' = KeptFrom(s), now' = now
        PROVE  first' \in Nat \ {0} /\ PrunedAreOld'
    <2>1. Len(s) \in Nat /\ first <= Len(s) + 1
      BY <1>1, <1>2
    <2>2. /\ KeptFrom(s) \in first .. Len(s) + 1
          /\ \A j \in first .. KeptFrom(s) - 1 : s[j] <= now - Day
      BY <2>1, PruningIsLate DEF IInv
    <2>3. ASSUME NEW j \in 1 .. KeptFrom(s) - 1 PROVE s[j] <= now - Day
      <3>1. CASE j < first
        <4>1. j \in 1 .. first - 1 /\ j \in 1 .. Len(stamps)
          BY <1>1, <2>2, <3>1
        <4> QED
          BY <1>1, <1>2, <4>1
      <3>2. CASE j >= first
        <4>1. j \in first .. KeptFrom(s) - 1
          BY <1>1, <2>2, <3>2
        <4> QED
          BY <2>2, <4>1
      <3> QED
        BY <1>1, <3>1, <3>2
    <2>4. KeptFrom(s) \in Nat \ {0} /\ KeptFrom(s) <= Len(s) + 1
      BY <1>1, <2>1, <2>2
    <2> QED
      BY <1>2, <2>3, <2>4 DEF PrunedAreOld
  <1>3. CASE Tick
    BY <1>1, <1>3 DEF Tick, eventVars, PrunedAreOld
  <1>4. ASSUME NEW units \in 0 .. MaxUnits, RecordRequest(units)
        PROVE  stamps' \in Seq(Nat) /\ first' \in Nat \ {0} /\ PrunedAreOld'
    <2> DEFINE s == stamps \o [j \in 1 .. units |-> now]
    <2>1. s \in Seq(Nat) /\ Len(s) >= Len(stamps) /\ \A j \in 1 .. Len(stamps) : s[j] = stamps[j]
      <3>1. units \in Nat /\ TypeOK
        BY DEF IInv
      <3> QED
        BY <3>1, UnitsAppended
    <2>2. stamps' = s /\ first' = KeptFrom(stamps') /\ now' = now
      BY <1>4 DEF RecordRequest
    <2> HIDE DEF s
    <2> QED
      BY <1>2, <2>1, <2>2
  <1>5. CASE Prune
    BY <1>1, <1>2, <1>5 DEF Prune
  <1>6. CASE Restart
    BY <1>6 DEF Restart, PrunedAreOld
  <1>7. CASE UNCHANGED <<now, eventVars>>
    BY <1>1, <1>7 DEF eventVars, PrunedAreOld
  <1> QED
    BY <1>3, <1>4, <1>5, <1>6, <1>7
       DEF Next, vars, ProbeDue, ProbeStarts, ProbeFails, ProbeAnswers, Reconfigure

\* Every step keeps the types of the rest.
LEMMA NextTyped ==
    ASSUME IInv, [Next]_vars
    PROVE  TypeOK'
  <1> USE DEF eventVars, probeVars
  <1>1. stamps' \in Seq(Nat) /\ first' \in Nat \ {0}
    BY NextEvents
  <1>2. TypeOK
    BY DEF IInv
  <1>3. config.token \in Tokens
    BY <1>2 DEF TypeOK
  <1>4. CASE Tick
    BY <1>1, <1>2, <1>4 DEF Tick, TypeOK
  <1>5. ASSUME NEW units \in 0 .. MaxUnits, RecordRequest(units) PROVE TypeOK'
    BY <1>1, <1>2, <1>5 DEF RecordRequest, TypeOK
  <1>6. CASE Prune
    BY <1>1, <1>2, <1>6 DEF Prune, TypeOK
  <1>7. CASE ProbeDue
    BY <1>1, <1>2, <1>7 DEF ProbeDue, TypeOK
  <1>8. CASE ProbeStarts
    <2>1. Started \in {Idle} \cup Running
      BY <1>2, <1>3 DEF Started, Running, TypeOK
    <2>2. probing' \in {Idle, Due} \cup Running
      BY <1>8, <2>1 DEF ProbeStarts
    <2> QED
      BY <1>1, <1>2, <1>8, <2>2 DEF ProbeStarts, TypeOK
  <1>9. CASE ProbeFails
    <2>1. now \in Nat
      BY <1>2 DEF TypeOK
    <2> QED
      BY <1>1, <1>2, <1>9, <2>1 DEF ProbeFails, TypeOK
  <1>10. CASE ProbeAnswers
    <2>1. probing \in Running
      BY <1>2, <1>10 DEF ProbeAnswers, TypeOK, Idle, Due
    <2>2. [token |-> probing.token, rewrites |-> probing.rewrites] \in Measurements
      BY <2>1 DEF Running, Measurements
    <2>3. probedPct' \in Nat /\ measured' \in Measurements \cup {None}
      BY <1>2, <1>10, <2>2 DEF ProbeAnswers, TypeOK
    <2> QED
      BY <1>1, <1>2, <1>10, <2>3 DEF ProbeAnswers, TypeOK
  <1>11. CASE Reconfigure
    BY <1>1, <1>2, <1>11 DEF Reconfigure, TypeOK
  <1>12. CASE Restart
    <2>1. restarts' \in 0 .. MaxRestarts
      BY <1>2, <1>12 DEF Restart, TypeOK
    <2>2. probedPct' \in Nat /\ lastProbeAt' \in Nat \cup {None} /\ probeHealthy' \in BOOLEAN
      BY <1>12 DEF Restart
    <2> QED
      BY <1>1, <1>2, <1>12, <2>1, <2>2 DEF Restart, TypeOK
  <1>13. CASE UNCHANGED vars
    BY <1>1, <1>2, <1>13 DEF vars, TypeOK
  <1> QED
    BY <1>4, <1>5, <1>6, <1>7, <1>8, <1>9, <1>10, <1>11, <1>12, <1>13 DEF Next

\* Command and token are taken in one section, so every step keeps them
\* together.
LEMMA NextTaken ==
    ASSUME IInv, [Next]_vars
    PROVE  TakenTogether'
  <1> USE DEF eventVars, probeVars
  <1>1. TypeOK /\ TakenTogether
    BY DEF IInv
  <1>2. rewrites \in Nat
    BY <1>1 DEF TypeOK
  <1>3. CASE UNCHANGED <<probing, measured, config, rewrites>>
    BY <1>1, <1>3 DEF TakenTogether, Taken
  <1>4. CASE ProbeDue
    BY <1>1, <1>4 DEF ProbeDue, Due, TakenTogether, Taken
  <1>5. CASE ProbeStarts
    <2>1. probing'.step = "running" => Taken(probing)'
      BY <1>2, <1>5 DEF ProbeStarts, Started, Idle, Taken
    <2>2. measured' # None => Taken(measured)'
      BY <1>1, <1>5 DEF ProbeStarts, TakenTogether, Taken
    <2> QED
      BY <2>1, <2>2 DEF TakenTogether
  <1>6. CASE ProbeFails
    BY <1>1, <1>6 DEF ProbeFails, Idle, TakenTogether, Taken
  <1>7. CASE ProbeAnswers
    BY <1>1, <1>7 DEF ProbeAnswers, Idle, TakenTogether, Taken
  <1>8. CASE Reconfigure
    <2>1. probing.step = "running" => probing.rewrites \in Nat
      BY <1>1 DEF TypeOK, Idle, Due, Running
    <2>2. measured # None => measured.rewrites \in Nat
      BY <1>1 DEF TypeOK, Measurements
    <2> QED
      BY <1>1, <1>2, <1>8, <2>1, <2>2 DEF Reconfigure, TakenTogether, Taken
  <1>9. CASE Restart
    BY <1>9 DEF Restart, Idle, TakenTogether
  <1> QED
    BY <1>3, <1>4, <1>5, <1>6, <1>7, <1>8, <1>9 DEF Next, vars, Tick, RecordRequest, Prune

\* Percentage and measurement are stored together, and forgotten together.
LEMMA NextMeasured ==
    ASSUME IInv, [Next]_vars
    PROVE  PctIsMeasured'
  <1> USE DEF eventVars, probeVars, PctIsMeasured
  <1>1. PctIsMeasured
    BY DEF IInv
  <1>2. CASE UNCHANGED <<probedPct, measured>>
    BY <1>1, <1>2
  <1>3. CASE ProbeAnswers
    <2>1. probing \in Running
      BY <1>3 DEF IInv, ProbeAnswers, TypeOK, Idle, Due
    <2>2. [token |-> probing.token, rewrites |-> probing.rewrites] # None
      BY <2>1 DEF Running
    <2> QED
      BY <1>1, <1>3, <2>2 DEF ProbeAnswers
  <1>4. CASE Restart
    BY <1>4 DEF Restart
  <1> QED
    BY <1>2, <1>3, <1>4
       DEF Next, vars, Tick, RecordRequest, Prune, ProbeDue, ProbeStarts, ProbeFails, Reconfigure

\* The inductive invariant.
THEOREM Inductive == Spec => []IInv
  <1>1. IInv /\ [Next]_vars => IInv'
    <2> SUFFICES ASSUME IInv, [Next]_vars PROVE IInv'
      OBVIOUS
    <2>1. TypeOK' /\ PrunedAreOld' /\ TakenTogether' /\ PctIsMeasured'
      BY NextEvents, NextTyped, NextTaken, NextMeasured
    <2> QED
      BY <2>1 DEF IInv
  <1> QED
    BY <1>1, InitInductive, PTL DEF Spec

\* The governor's counters and the probe's state stay well formed.
THEOREM UsageTyped == Spec => []TypeOK
  <1>1. IInv => TypeOK
    BY DEF IInv
  <1> QED
    BY <1>1, Inductive, PTL

\* governor.go:113-116: whenever it is pruned, and whatever the windows are, the
\* one slice gives the exact number of units of the last hour and of the last
\* 24 hours.
THEOREM CountsStayExact == Spec => []CountsAreExact
  <1>1. IInv => CountsAreExact
    BY NothingCountedIsGone DEF IInv
  <1> QED
    BY <1>1, Inductive, PTL

\* A larger of two numbers is one of them, and no smaller than the other.
LEMMA LargerOfTwo ==
    ASSUME NEW x \in Int, NEW y \in Int
    PROVE  Max({x, y}) = IF x >= y THEN x ELSE y
  <1> DEFINE m == IF x >= y THEN x ELSE y
  <1>1. m \in {x, y} /\ \A z \in {x, y} : m >= z
    OBVIOUS
  <1>2. ASSUME NEW z \in {x, y}, \A w \in {x, y} : z >= w PROVE z = m
    BY <1>2
  <1> HIDE DEF m
  <1>3. Max({x, y}) \in {x, y} /\ \A w \in {x, y} : Max({x, y}) >= w
    BY <1>1 DEF Max
  <1>4. Max({x, y}) = m
    BY <1>2, <1>3
  <1> QED
    BY <1>4 DEF m

\* governor.go:343-345: what is compared with the ceiling is what was used, or
\* more where a probe measured more, for all limits and windows.
THEOREM ProbeTightens == Spec => []ProbeOnlyTightens
  <1>1. IInv => ProbeOnlyTightens
    <2> SUFFICES ASSUME IInv PROVE ProbeOnlyTightens
      OBVIOUS
    <2>1. TypeOK /\ CountsAreExact /\ PctIsMeasured
      BY NothingCountedIsGone DEF IInv
    <2>2. LocalPct = UsedPct
      BY <2>1 DEF CountsAreExact, LocalPct, UsedPct
    <2>3. \A window \in {Hour, Day} : CountFrom(1, window) \in Nat
      <3> SUFFICES ASSUME NEW window \in {Hour, Day} PROVE CountFrom(1, window) \in Nat
        OBVIOUS
      <3> DEFINE places == {j \in 1 .. Len(stamps) : stamps[j] > now - window}
      <3>1. Len(stamps) \in Nat
        BY <2>1 DEF TypeOK
      <3>2. IsFiniteSet(1 .. Len(stamps))
        BY <3>1, FS_Interval
      <3>3. IsFiniteSet(places)
        BY <3>2, FS_Subset
      <3>4. Cardinality(places) \in Nat
        BY <3>3, FS_CardinalityType
      <3> QED
        BY <3>4 DEF CountFrom
    <2>4. \A count \in Nat, limit \in Nat \ {0} : pctOf(count, limit) \in Int
      BY DEF pctOf
    <2>5. config.hourlyLimit \in Nat \ {0} /\ config.dailyLimit \in Nat \ {0}
      BY <2>1 DEF TypeOK
    <2>6. UsedPct \in Int /\ UsedPct >= 0
      <3>1. \A count \in Nat, limit \in Nat \ {0} : pctOf(count, limit) >= 0
        BY DEF pctOf
      <3> DEFINE hourly == pctOf(CountFrom(1, Hour), config.hourlyLimit)
      <3> DEFINE daily == pctOf(CountFrom(1, Day), config.dailyLimit)
      <3>2. hourly \in Int /\ daily \in Int /\ hourly >= 0 /\ daily >= 0
        BY <2>3, <2>4, <2>5, <3>1
      <3>3. UsedPct = Max({hourly, daily})
        BY DEF UsedPct
      <3> HIDE DEF hourly, daily
      <3> QED
        BY <3>2, <3>3, LargerOfTwo
    <2>7. CASE ~probeHealthy
      BY <2>2, <2>7 DEF usagePct, ProbeOnlyTightens
    <2>8. CASE probeHealthy
      <3>1. probedPct \in Nat
        BY <2>1 DEF TypeOK
      <3>2. usagePct = IF UsedPct >= probedPct THEN UsedPct ELSE probedPct
        <4>1. usagePct = Max({UsedPct, probedPct})
          BY <2>2, <2>8 DEF usagePct
        <4>2. probedPct \in Int
          BY <3>1
        <4> QED
          BY <2>6, <4>1, <4>2, LargerOfTwo
      <3>3. CASE UsedPct >= probedPct
        BY <3>2, <3>3 DEF ProbeOnlyTightens
      <3>4. CASE ~ (UsedPct >= probedPct)
        <4>1. usagePct = probedPct /\ usagePct > UsedPct /\ probedPct # 0
          BY <2>6, <3>1, <3>2, <3>4
        <4> QED
          BY <2>1, <2>8, <4>1 DEF PctIsMeasured, ProbeOnlyTightens
      <3> QED
        BY <3>3, <3>4
    <2> QED
      BY <2>1, <2>7, <2>8 DEF TypeOK
  <1> QED
    BY <1>1, Inductive, PTL

\* governor.go probeNow: a measurement of the configuration in force is of its
\* token, and of a configuration that asks for a probe.
THEOREM ProbeFitsConfig == Spec => []ProbeIsOfConfig
  <1>1. IInv => ProbeIsOfConfig
    BY DEF IInv, TakenTogether, Taken, ProbeIsOfConfig
  <1> QED
    BY <1>1, Inductive, PTL
=============================================================================
