--------------------------- MODULE GovernorProofs ---------------------------
(****************************************************************************)
(* The governor's type invariant, that a 429 is honoured until its horizon, *)
(* that no blackout outlasts its window and that the hourly limit is never  *)
(* overshot by more than a job for every caller, for every set of vaults,   *)
(* callers, limits and intervals, every hour and every bound.               *)
(****************************************************************************)
EXTENDS Governor, InductionLemmas, TLAPS

USE HourAssumption, SettingsAssumption, BoundsAssumption

\* backoffDelay stays between one tick and its cap.
LEMMA DelayInWindow ==
    ASSUME NEW n, NEW cap \in Nat \ {0}
    PROVE  Delay(n, cap) \in 1 .. cap
  BY DEF Delay

\* No failures at all is a count.
LEMMA ZeroCounts == 0 \in 0 .. MaxFailures /\ 0 \in 0 .. MaxFaults /\ 0 \in 0 .. MaxRewrites
  OBVIOUS

\* Everyone idle, nothing counted, nothing failing.
LEMMA FreshTables ==
    /\ [a \in Ages |-> 0] \in [Ages -> Nat]
    /\ [v \in Vaults |-> 0] \in [Vaults -> 0 .. MaxFailures]
    /\ [v \in Vaults |-> 0] \in [Vaults -> Nat]
    /\ [w \in Callers |-> Idle] \in [Callers -> Jobs \cup {Idle}]
  BY ZeroCounts

\* A caller with a step other than "idle" has a job, and moving it to another
\* step leaves it one.
LEMMA StepsAreJobs ==
    ASSUME job \in [Callers -> Jobs \cup {Idle}], NEW w \in Callers, job[w].step # "idle"
    PROVE  /\ job[w] \in Jobs
           /\ \A s \in Steps : Step(w, s) => job' \in [Callers -> Jobs \cup {Idle}]
  <1>1. job[w] \in Jobs
    BY DEF Idle
  <1>2. ASSUME NEW s \in Steps PROVE [job[w] EXCEPT !.step = s] \in Jobs
    BY <1>1 DEF Jobs
  <1> QED
    BY <1>1, <1>2 DEF Step

\* Ending a job.
LEMMA LeavingIsTyped ==
    ASSUME job \in [Callers -> Jobs \cup {Idle}], NEW w \in Callers, Leave(w)
    PROVE  job' \in [Callers -> Jobs \cup {Idle}]
  BY DEF Leave

\* Ending a cycle: who ran it, and the writes that wait for it, have a job.
LEMMA EndingIsTyped ==
    ASSUME job \in [Callers -> Jobs \cup {Idle}], NEW w \in Callers, job[w].step # "idle", CycleEnds(w)
    PROVE  job' \in [Callers -> Jobs \cup {Idle}]
  <1>1. ASSUME NEW u \in Callers, job[u].step # "idle" PROVE [job[u] EXCEPT !.step = "lookAgain"] \in Jobs
    <2>1. job[u] \in Jobs
      BY <1>1 DEF Idle
    <2> QED
      BY <2>1 DEF Jobs, Steps
  <1>2. \A u \in Callers : u = w \/ Joined(u, job[w].vault) => job[u].step # "idle"
    BY DEF Joined
  <1> QED
    BY <1>1, <1>2 DEF CycleEnds

\* Counting units keeps the window a function of ages.
LEMMA SpendingIsTyped ==
    ASSUME spent \in [Ages -> Nat], NEW n \in Nat, Spend(n)
    PROVE  spent' \in [Ages -> Nat]
  BY DEF Spend, Ages

\* The engine-wide effect of a failure is typed.
LEMMA EngineFailureIsTyped ==
    ASSUME TypeOK, NEW e \in Errors, EngineFailure(e)
    PROVE  gstate' \in States /\ resumeIn' \in Nat /\ embargo' \in Nat
  BY SMTT(30) DEF TypeOK, EngineFailure, Errors, States, Horizon, Ages

\* The effect of a failure on its vault is typed.
LEMMA VaultFailureIsTyped ==
    ASSUME TypeOK, NEW v \in Vaults, NEW e \in Errors, VaultFailure(v, e)
    PROVE  failures' \in [Vaults -> 0 .. MaxFailures] /\ retryIn' \in [Vaults -> Nat]
  <1>1. More(failures[v]) \in 0 .. MaxFailures
    BY DEF TypeOK, More
  <1>2. Delay(More(failures[v]), interval) \in Nat
    BY DelayInWindow DEF TypeOK
  <1> QED
    BY <1>1, <1>2 DEF TypeOK, VaultFailure, backoffVars

-----------------------------------------------------------------------------
\* The initial states are typed.
LEMMA InitTyped == Init => TypeOK
  <1> SUFFICES ASSUME Init PROVE TypeOK
    OBVIOUS
  <1>1. phase \in Ages /\ hourlyLimit \in Limits /\ interval \in Intervals
    BY DEF Init
  <1> QED
    BY <1>1, FreshTables, ZeroCounts DEF Init, TypeOK, States

\* Every step keeps the types.
LEMMA NextTyped == TypeOK /\ [Next]_vars => TypeOK'
  <1> SUFFICES ASSUME TypeOK, [Next]_vars PROVE TypeOK'
    OBVIOUS
  <1>1. CASE Tick
    <2>1. phase' \in Ages
      BY <1>1 DEF Tick, TypeOK, Ages
    <2>2. spent' \in [Ages -> Nat]
      <3>1. \A a \in Ages : a # 0 => a - 1 \in Ages
        BY DEF Ages
      <3> QED
        BY <1>1, <3>1 DEF Tick, TypeOK
    <2>3. resumeIn' \in Nat /\ embargo' \in Nat /\ initRetryIn' \in Nat
      BY <1>1 DEF Tick, TypeOK, Down
    <2>4. retryIn' \in [Vaults -> Nat]
      BY <1>1 DEF Tick, TypeOK, Down
    <2> QED
      BY <1>1, <2>1, <2>2, <2>3, <2>4 DEF Tick, TypeOK, configVars
  <1>2. CASE Reconfigure
    BY <1>2 DEF Reconfigure, TypeOK, backoffVars, Cleared, States
  <1>3. CASE Restart
    <2>1. /\ failures' \in [Vaults -> 0 .. MaxFailures]
          /\ retryIn' \in [Vaults -> Nat]
          /\ spent' \in [Ages -> Nat]
          /\ job' \in [Callers -> Jobs \cup {Idle}]
      BY <1>3, FreshTables DEF Restart
    <2>2. faults' \in 0 .. MaxFaults
      BY <1>3 DEF Restart, Fault, TypeOK
    <2>3. UNCHANGED <<phase, hourlyLimit, interval, rewrites>>
      BY <1>3 DEF Restart
    <2>4. /\ gstate' \in States /\ resumeIn' \in Nat /\ embargo' \in Nat
          /\ initFailures' \in 0 .. MaxFailures /\ initRetryIn' \in Nat /\ client' \in BOOLEAN
          /\ longest' \in Intervals
      BY <1>3, ZeroCounts DEF Restart, States, TypeOK
    <2> QED
      BY <2>1, <2>2, <2>3, <2>4 DEF TypeOK
  <1>4. ASSUME NEW w \in Callers, Begin(w) \/ BeginWrite(w) PROVE TypeOK'
    <2>1. job' \in [Callers -> Jobs \cup {Idle}]
      BY <1>4 DEF Begin, BeginWrite, Start, TypeOK, Jobs, Steps, Kinds
    <2>2. gstate' \in States /\ resumeIn' = resumeIn /\ embargo' = embargo
      BY <1>4 DEF Begin, BeginWrite, TypeOK, govVars, Expire, States
    <2> QED
      BY <1>4, <2>1, <2>2 DEF Begin, BeginWrite, TypeOK, backoffVars, initVars, configVars
  <1>5. ASSUME NEW w \in Callers, Run(w) PROVE TypeOK'
    <2>1. job' \in [Callers -> Jobs \cup {Idle}]
      <3>1. /\ job \in [Callers -> Jobs \cup {Idle}] /\ job[w].step # "idle"
            /\ {"ask", "connect", "list", "fetch", "put", "wait"} \subseteq Steps
        BY <1>5 DEF Run, FindClient, LookAgain, Join, Ask, TypeOK, Steps, Calls
      <3>2. Leave(w) \/ CycleEnds(w) \/ \E s \in Steps : Step(w, s)
        BY <1>5, <3>1 DEF Run, FindClient, LookAgain, Located, Join, Ask
      <3> QED
        BY <3>1, <3>2, StepsAreJobs, LeavingIsTyped, EndingIsTyped
    <2>2. gstate' \in States /\ resumeIn' = resumeIn /\ embargo' = embargo
      BY <1>5 DEF Run, FindClient, LookAgain, Join, Ask, TypeOK, govVars, Expire, States
    <2> QED
      BY <1>5, <2>1, <2>2 DEF Run, FindClient, LookAgain, Join, Ask, TypeOK, backoffVars, initVars,
         configVars
  <1>6. ASSUME NEW w \in Callers, Connected(w) PROVE TypeOK'
    <2>1. job' \in [Callers -> Jobs \cup {Idle}]
      BY <1>6, StepsAreJobs DEF Connected, TypeOK, Steps
    <2> QED
      BY <1>6, <2>1 DEF Connected, TypeOK, govVars, backoffVars, configVars
  <1>7. ASSUME NEW w \in Callers, ConnectFails(w) PROVE TypeOK'
    <2>1. PICK e \in Errors :
            /\ EngineFailure(e)
            /\ IF e = "other"
               THEN /\ initFailures' = More(initFailures)
                    /\ initRetryIn' = Delay(More(initFailures), interval)
               ELSE UNCHANGED <<initFailures, initRetryIn>>
      BY <1>7 DEF ConnectFails
    <2>2. initFailures' \in 0 .. MaxFailures
      BY <2>1 DEF TypeOK, More
    <2>3. initRetryIn' \in Nat
      BY <2>1, DelayInWindow DEF TypeOK
    <2>4. job' \in [Callers -> Jobs \cup {Idle}]
      BY <1>7, LeavingIsTyped DEF ConnectFails, TypeOK
    <2> QED
      BY <1>7, <2>1, <2>2, <2>3, <2>4, EngineFailureIsTyped
         DEF ConnectFails, Fault, TypeOK, backoffVars, configVars
  <1>9. ASSUME NEW w \in Callers, FirstAnswer(w) PROVE TypeOK'
    <2>1. job' \in [Callers -> Jobs \cup {Idle}]
      BY <1>9, StepsAreJobs, LeavingIsTyped DEF FirstAnswer, TypeOK, Calls, Steps
    <2> QED
      BY <1>9, <2>1, SpendingIsTyped DEF FirstAnswer, TypeOK, govVars, backoffVars, initVars, configVars
  <1>10. ASSUME NEW w \in Callers, CycleDone(w) PROVE TypeOK'
    <2>1. job' \in [Callers -> Jobs \cup {Idle}]
      BY <1>10, EndingIsTyped DEF CycleDone, TypeOK
    <2>2. PICK chunks \in 0 .. MaxChunks : Spend(chunks)
      BY <1>10 DEF CycleDone
    <2>3. failures' \in [Vaults -> 0 .. MaxFailures] /\ retryIn' \in [Vaults -> Nat]
      BY <1>10, ZeroCounts DEF CycleDone, TypeOK
    <2> QED
      BY <1>10, <2>1, <2>2, <2>3, SpendingIsTyped DEF CycleDone, TypeOK, govVars, initVars, configVars
  <1>11. ASSUME NEW w \in Callers, WriteDone(w) PROVE TypeOK'
    <2>1. job' \in [Callers -> Jobs \cup {Idle}]
      BY <1>11, LeavingIsTyped DEF WriteDone, TypeOK
    <2> QED
      BY <1>11, <2>1, SpendingIsTyped DEF WriteDone, TypeOK, govVars, backoffVars, initVars, configVars
  <1>12. ASSUME NEW w \in Callers, CallFails(w) PROVE TypeOK'
    <2>1. job' \in [Callers -> Jobs \cup {Idle}]
      BY <1>12, LeavingIsTyped, EndingIsTyped DEF CallFails, TypeOK
    <2>2. PICK n \in Nat : Spend(n)
      BY <1>12 DEF CallFails
    <2>3. PICK e \in Errors : EngineFailure(e) /\ VaultFailure(job[w].vault, e)
      BY <1>12 DEF CallFails
    <2>4. job[w].vault \in Vaults
      BY <1>12, StepsAreJobs DEF CallFails, TypeOK, Calls, Jobs
    <2> QED
      BY <1>12, <2>1, <2>2, <2>3, <2>4, SpendingIsTyped, EngineFailureIsTyped, VaultFailureIsTyped
         DEF CallFails, Fault, TypeOK, initVars, configVars
  <1>13. CASE UNCHANGED vars
    BY <1>13 DEF vars, govVars, backoffVars, initVars, configVars, TypeOK
  <1> QED
    BY <1>1, <1>2, <1>3, <1>4, <1>5, <1>6, <1>7, <1>9, <1>10, <1>11, <1>12, <1>13
       DEF Next, Caller, Answer

\* The state of the governor and of its callers stays well formed.
THEOREM GovernorTyped == Spec => []TypeOK
  BY InitTyped, NextTyped, PTL DEF Spec

-----------------------------------------------------------------------------
\* Either the governor's engine-wide state and the history of the last 429 are
\* left alone but for an expiry, or a failure was recorded, or the clock
\* ticked, the configuration was rewritten or the process restarted.
LEMMA CallersAndTheState ==
    ASSUME NEW w \in Callers, Caller(w)
    PROVE  \/ UNCHANGED govVars
           \/ Expire
           \/ \E e \in Errors : EngineFailure(e)
  BY DEF Caller, Answer, Begin, BeginWrite, Run, FindClient, LookAgain, Join, Ask, Connected,
         FirstAnswer, CycleDone, WriteDone, ConnectFails, CallFails

\* No caller changes the phase or the configuration.
LEMMA CallersAndTheClock ==
    ASSUME NEW w \in Callers, Caller(w)
    PROVE  phase' = phase /\ interval' = interval /\ longest' = longest
  BY DEF Caller, Answer, Begin, BeginWrite, Run, FindClient, LookAgain, Join, Ask, Connected,
         FirstAnswer, CycleDone, WriteDone, ConnectFails, CallFails, configVars

\* A 429 is held by every step.
LEMMA NextHolds == TypeOK /\ RateLimitHeld /\ [Next]_vars => RateLimitHeld'
  <1> SUFFICES ASSUME TypeOK, RateLimitHeld, [Next]_vars PROVE RateLimitHeld'
    OBVIOUS
  <1>1. CASE Tick
    BY <1>1 DEF Tick, TypeOK, RateLimitHeld, Down
  <1>2. CASE Reconfigure
    BY <1>2 DEF Reconfigure, RateLimitHeld, Cleared
  <1>3. CASE Restart
    BY <1>3 DEF Restart, RateLimitHeld
  <1>4. ASSUME NEW w \in Callers, Caller(w) PROVE RateLimitHeld'
    <2>1. CASE UNCHANGED govVars
      BY <2>1 DEF govVars, RateLimitHeld
    <2>2. CASE Expire
      BY <2>2 DEF Expire, Expired, RateLimitHeld, TypeOK
    <2>3. ASSUME NEW e \in Errors, EngineFailure(e) PROVE RateLimitHeld'
      BY <2>3 DEF EngineFailure, Errors, RateLimitHeld
    <2> QED
      BY <1>4, <2>1, <2>2, <2>3, CallersAndTheState
  <1>5. CASE UNCHANGED vars
    BY <1>5 DEF vars, govVars, RateLimitHeld
  <1> QED
    BY <1>1, <1>2, <1>3, <1>4, <1>5 DEF Next

\* governor.go allow, recordRequest, reconfigure: a 429 halts the engine until
\* its horizon unless an auth failure takes the state over.
THEOREM RateLimitsHold == Spec => []RateLimitHeld
  <1>1. Init => RateLimitHeld
    BY DEF Init, RateLimitHeld
  <1> QED
    BY <1>1, InitTyped, NextTyped, NextHolds, PTL DEF Spec

-----------------------------------------------------------------------------
\* What a caller's step may do to the backoff windows: leave them, clear one,
\* or set one to at most the interval in force.
LEMMA CallersAndBackoff ==
    ASSUME TypeOK, NEW w \in Callers, Caller(w)
    PROVE  /\ \A v \in Vaults : retryIn'[v] <= retryIn[v] \/ retryIn'[v] <= interval
           /\ initRetryIn' <= initRetryIn \/ initRetryIn' <= interval
  <1>1. \A n : Delay(n, interval) <= interval
    BY DelayInWindow DEF TypeOK
  <1>2. CASE CallFails(w)
    <2>1. PICK e \in Errors : VaultFailure(job[w].vault, e)
      BY <1>2 DEF CallFails
    <2>2. \A v \in Vaults : retryIn'[v] <= retryIn[v] \/ retryIn'[v] <= interval
      BY <2>1, <1>1 DEF VaultFailure, backoffVars, TypeOK
    <2> QED
      BY <1>2, <2>2 DEF CallFails, initVars, TypeOK
  <1>3. CASE ConnectFails(w)
    BY <1>3, <1>1 DEF ConnectFails, backoffVars, TypeOK
  <1>4. CASE CycleDone(w)
    BY <1>4 DEF CycleDone, initVars, TypeOK
  <1>5. CASE Connected(w)
    BY <1>5 DEF Connected, backoffVars, TypeOK
  <1>6. CASE Begin(w) \/ BeginWrite(w) \/ Run(w) \/ FirstAnswer(w) \/ WriteDone(w)
    BY <1>6 DEF Begin, BeginWrite, Run, FindClient, LookAgain, Join, Ask, FirstAnswer, WriteDone,
       backoffVars, initVars, TypeOK
  <1> QED
    BY <1>2, <1>3, <1>4, <1>5, <1>6 DEF Caller, Answer

\* No step lets a blackout outlast its window.
LEMMA NextBounded ==
    TypeOK /\ TypeOK' /\ BlackoutBounded /\ [Next]_vars => BlackoutBounded'
  <1> SUFFICES ASSUME TypeOK, TypeOK', BlackoutBounded, [Next]_vars PROVE BlackoutBounded'
    OBVIOUS
  <1>0. /\ interval \in Nat /\ interval' \in Nat /\ longest \in Nat /\ longest' \in Nat
        /\ initRetryIn \in Nat /\ initRetryIn' \in Nat
        /\ retryIn \in [Vaults -> Nat] /\ retryIn' \in [Vaults -> Nat]
    BY DEF TypeOK
  <1>1. CASE Tick
    <2>1. resumeIn' <= Hour - phase'
      BY <1>1 DEF Tick, TypeOK, BlackoutBounded, Down, Ages
    <2>2. initRetryIn' <= initRetryIn /\ \A v \in Vaults : retryIn'[v] <= retryIn[v]
      BY <1>1 DEF Tick, TypeOK, Down
    <2> QED
      BY <1>0, <1>1, <2>1, <2>2 DEF BlackoutBounded, Tick, configVars
  <1>2. CASE Reconfigure
    <2>1. longest' >= longest /\ longest' >= interval'
      BY <1>0, <1>2 DEF Reconfigure
    <2> QED
      BY <1>0, <1>2, <2>1 DEF Reconfigure, BlackoutBounded, backoffVars
  <1>3. CASE Restart
    BY <1>0, <1>3 DEF Restart, BlackoutBounded, TypeOK, Ages
  <1>4. ASSUME NEW w \in Callers, Caller(w) PROVE BlackoutBounded'
    <2>1. resumeIn' <= Hour - phase'
      <3>1. phase' = phase /\ resumeIn <= Hour - phase
        BY <1>4, CallersAndTheClock DEF BlackoutBounded
      <3>2. CASE UNCHANGED govVars \/ Expire
        BY <3>1, <3>2 DEF govVars, Expire
      <3>3. ASSUME NEW e \in Errors, EngineFailure(e) PROVE resumeIn' <= Hour - phase'
        <4>1. resumeIn' = Hour - phase \/ resumeIn' = resumeIn
          BY <3>3 DEF EngineFailure, Horizon
        <4>2. Hour - phase <= Hour - phase
          BY DEF TypeOK, Ages
        <4> QED
          BY <3>1, <4>1, <4>2
      <3> QED
        BY <1>4, <3>2, <3>3, CallersAndTheState
    <2>2. interval' = interval /\ longest' = longest
      BY <1>4, CallersAndTheClock
    <2>3. /\ \A v \in Vaults : retryIn'[v] <= retryIn[v] \/ retryIn'[v] <= interval
          /\ initRetryIn' <= initRetryIn \/ initRetryIn' <= interval
      BY <1>4, CallersAndBackoff
    <2> QED
      BY <1>0, <2>1, <2>2, <2>3 DEF BlackoutBounded
  <1>5. CASE UNCHANGED vars
    BY <1>5 DEF vars, govVars, backoffVars, initVars, configVars, BlackoutBounded
  <1> QED
    BY <1>1, <1>2, <1>3, <1>4, <1>5 DEF Next

\* governor.go rateLimitResumeAt, backoffDelay: every blackout ends in its
\* window, whatever the limits and intervals are changed to meanwhile.
THEOREM BlackoutsBounded == Spec => []BlackoutBounded
  <1>1. Init => BlackoutBounded
    <2> SUFFICES ASSUME Init PROVE BlackoutBounded
      OBVIOUS
    <2>1. interval \in Nat \ {0}
      BY DEF Init
    <2> QED
      BY <2>1 DEF Init, BlackoutBounded, Ages
  <1> QED
    BY <1>1, InitTyped, NextTyped, NextBounded, PTL DEF Spec

-----------------------------------------------------------------------------
(* The hourly budget.  What was counted in the hour and what is still      *)
(* outstanding together only grow when a caller is let through, and then   *)
(* the count is below the limit and no caller holds more than a whole job. *)

Owed == [w \in Callers |-> Outstanding(w)]

\* A caller owes at most a whole job.
LEMMA OwedIsTyped ==
    ASSUME TypeOK
    PROVE  Owed \in [Callers -> Nat] /\ \A w \in Callers : Owed[w] <= 3 + MaxChunks
  BY DEF Owed, Outstanding, CycleOwes, WriteOwes, IsWrite

\* The hour is counted over finitely many ages.
LEMMA AgesFinite == IsFiniteSet(Ages) /\ 0 \in Ages
  BY FS_Interval DEF Ages

\* The count and the sum of what is owed are natural numbers.
LEMMA SumsAreTyped ==
    ASSUME TypeOK
    PROVE  HourlyCount \in Nat /\ SumFunction(Owed) \in Nat /\ Cardinality(Callers) \in Nat
  <1>1. SumFunction(spent) \in Nat
    BY AgesFinite, SumIsNat DEF TypeOK
  <1>2. SumFunction(Owed) \in Nat
    BY FiniteAssumption, OwedIsTyped, SumIsNat
  <1> QED
    BY <1>1, <1>2, FiniteAssumption, FS_CardinalityType DEF HourlyCount

\* The limit in force is at most the largest limit.
LEMMA LimitIsBounded ==
    ASSUME TypeOK
    PROVE  Max(Limits) \in Nat /\ hourlyLimit \in Nat /\ hourlyLimit <= Max(Limits)
  <1>1. \E m \in Limits : \A n \in Limits : m >= n
    BY FiniteAssumption, LargestExists DEF TypeOK
  <1>2. Max(Limits) \in Limits /\ \A n \in Limits : Max(Limits) >= n
    BY <1>1 DEF Max
  <1> QED
    BY <1>2 DEF TypeOK

\* Counting n units adds n to the count.
LEMMA SpendingCounts ==
    ASSUME TypeOK, TypeOK', NEW n \in Nat, Spend(n)
    PROVE  HourlyCount' = HourlyCount + n
  <1>1. spent \in [Ages -> Nat] /\ spent' \in [Ages -> Nat]
    BY DEF TypeOK
  <1>2. spent'[0] = spent[0] + n /\ \A a \in Ages \ {0} : spent'[a] = spent[a]
    BY <1>1, AgesFinite DEF Spend
  <1>3. SumFunction(spent') + spent[0] = SumFunction(spent) + spent'[0]
    BY <1>1, <1>2, AgesFinite, SumChanges
  <1>4. SumFunction(spent) \in Nat /\ SumFunction(spent') \in Nat
    BY <1>1, AgesFinite, SumIsNat
  <1>5. spent[0] \in Nat
    BY <1>1, AgesFinite
  <1> QED
    BY <1>2, <1>3, <1>4, <1>5 DEF HourlyCount

\* A caller's step changes what it owes, and nothing of what the others owe.
LEMMA OwingChanges ==
    ASSUME TypeOK, TypeOK', NEW w \in Callers,
           \A u \in Callers \ {w} : Outstanding(u)' = Outstanding(u)
    PROVE  SumFunction(Owed') + Outstanding(w) = SumFunction(Owed) + Outstanding(w)'
  <1>1. Owed \in [Callers -> Nat] /\ Owed' \in [Callers -> Nat]
    BY DEF Owed, Outstanding, CycleOwes, WriteOwes, IsWrite
  <1>2. \A u \in Callers \ {w} : Owed'[u] = Owed[u]
    BY DEF Owed
  <1>3. Owed[w] = Outstanding(w) /\ Owed'[w] = Outstanding(w)'
    BY DEF Owed
  <1> QED
    BY <1>1, <1>2, <1>3, FiniteAssumption, SumChanges

\* Who leaves owes nothing, a step that is no call leaves what a write owes, and
\* nobody else owes more or less.
LEMMA LeavingPays ==
    ASSUME TypeOK, NEW w \in Callers, Leave(w)
    PROVE  Outstanding(w)' = 0 /\ \A u \in Callers \ {w} : Outstanding(u)' = Outstanding(u)
  BY DEF TypeOK, Leave, Outstanding, CycleOwes, WriteOwes, IsWrite, Idle

LEMMA StepsPay ==
    ASSUME TypeOK, NEW w \in Callers, NEW s \in Steps, Step(w, s), job[w].step # "idle"
    PROVE  /\ \A u \in Callers \ {w} : Outstanding(u)' = Outstanding(u)
           /\ job'[w].step = s /\ (IsWrite(w)' <=> IsWrite(w))
  <1>1. job \in [Callers -> Jobs \cup {Idle}] /\ job[w] \in Jobs
    BY StepsAreJobs DEF TypeOK
  <1>2. job'[w].step = s /\ job'[w].kind = job[w].kind
    BY <1>1 DEF Step, Jobs
  <1>3. \A u \in Callers \ {w} : job'[u] = job[u]
    BY <1>1 DEF Step
  <1> QED
    BY <1>2, <1>3 DEF Outstanding, CycleOwes, WriteOwes, IsWrite

\* A cycle's end leaves to each write, the one that ran it and those that
\* joined, its own two units.
LEMMA EndingPays ==
    ASSUME TypeOK, NEW w \in Callers, job[w].step \in {"ask", "list", "get"}, CycleEnds(w)
    PROVE  /\ \A u \in Callers \ {w} : Outstanding(u)' = Outstanding(u)
           /\ Outstanding(w)' = WriteOwes(w)
  <1>1. job \in [Callers -> Jobs \cup {Idle}]
    BY DEF TypeOK
  <1>2. ASSUME NEW u \in Callers, job[u].step # "idle", job'[u] = [job[u] EXCEPT !.step = "lookAgain"]
        PROVE  job'[u].step = "lookAgain" /\ job'[u].kind = job[u].kind
    <2>1. job[u] \in Jobs
      BY <1>1, <1>2, StepsAreJobs
    <2> QED
      BY <1>2, <2>1 DEF Jobs
  <1>3. ASSUME NEW u \in Callers \ {w} PROVE Outstanding(u)' = Outstanding(u)
    <2>1. CASE Joined(u, job[w].vault)
      <3>1. job[u].step = "wait" /\ job'[u] = [job[u] EXCEPT !.step = "lookAgain"]
        BY <1>1, <2>1 DEF CycleEnds, Joined
      <3>2. job'[u].step = "lookAgain" /\ job'[u].kind = job[u].kind
        BY <1>2, <3>1
      <3> QED
        BY <3>1, <3>2 DEF Outstanding, CycleOwes, WriteOwes, IsWrite
    <2>2. CASE ~Joined(u, job[w].vault)
      <3>1. job'[u] = job[u]
        BY <1>1, <2>2 DEF CycleEnds
      <3> QED
        BY <3>1 DEF Outstanding, CycleOwes, WriteOwes, IsWrite
    <2> QED
      BY <2>1, <2>2
  <1>4. Outstanding(w)' = WriteOwes(w)
    <2>1. CASE ~IsWrite(w)
      <3>1. job'[w] = Idle
        BY <1>1, <2>1 DEF CycleEnds
      <3> QED
        BY <2>1, <3>1 DEF Outstanding, CycleOwes, WriteOwes, IsWrite, Idle
    <2>2. CASE IsWrite(w)
      <3>1. job'[w] = [job[w] EXCEPT !.step = "lookAgain"]
        BY <1>1, <2>2 DEF CycleEnds
      <3>2. job'[w].step = "lookAgain" /\ job'[w].kind = job[w].kind
        BY <1>2, <3>1
      <3> QED
        BY <2>2, <3>2 DEF Outstanding, CycleOwes, WriteOwes, IsWrite
    <2> QED
      BY <2>1, <2>2
  <1> QED
    BY <1>3, <1>4

\* A write that looks for its item owes what it did, or less.
LEMMA LocatingPays ==
    ASSUME TypeOK, NEW w \in Callers, Located(w),
           job[w].step = "lookAgain" \/ (job[w].step = "client" /\ IsWrite(w))
    PROVE  /\ \A u \in Callers \ {w} : Outstanding(u)' = Outstanding(u)
           /\ Outstanding(w)' <= Outstanding(w)
  <1>1. Outstanding(w) = 2
    BY DEF Outstanding, CycleOwes, WriteOwes, IsWrite
  <1>2. CASE Leave(w)
    BY <1>1, <1>2, LeavingPays
  <1>3. ASSUME NEW s \in {"fetch", "put"}, Step(w, s)
        PROVE  /\ \A u \in Callers \ {w} : Outstanding(u)' = Outstanding(u)
               /\ Outstanding(w)' <= Outstanding(w)
    <2>1. /\ \A u \in Callers \ {w} : Outstanding(u)' = Outstanding(u)
          /\ job'[w].step = s
      BY <1>3, StepsPay DEF Steps, Calls
    <2> QED
      BY <1>1, <2>1 DEF Outstanding, CycleOwes, WriteOwes, IsWrite
  <1> QED
    BY <1>2, <1>3 DEF Located

\* What a caller's step spends it no longer owes, unless the governor let it through.
LEMMA CallersPay ==
    ASSUME TypeOK, NEW w \in Callers, Caller(w)
    PROVE  /\ \A u \in Callers \ {w} : Outstanding(u)' = Outstanding(u)
           /\ \/ spent' = spent /\ HourlyCount < hourlyLimit
              \/ spent' = spent /\ Outstanding(w)' <= Outstanding(w)
              \/ \E n \in Nat : Spend(n) /\ Outstanding(w)' + n <= Outstanding(w)
  <1> DEFINE OthersOwe == \A u \in Callers \ {w} : Outstanding(u)' = Outstanding(u)
  <1>0. job \in [Callers -> Jobs \cup {Idle}] /\ MaxChunks \in Nat \ {0}
    BY DEF TypeOK
  <1>s. /\ Steps = {"list", "get", "fetch", "put", "client", "connect", "ask", "wait", "lookAgain"}
        /\ Outstanding(w) \in Nat
    BY DEF Steps, Calls, Outstanding, CycleOwes, WriteOwes, IsWrite
  <1>1. CASE Begin(w)
    <2>1. PICK v \in Vaults : Start(w, v, "cycle")
      BY <1>1 DEF Begin
    <2>2. job[w] = Idle /\ spent' = spent /\ OthersOwe
      BY <1>0, <1>1, <2>1 DEF Begin, Start, Outstanding, CycleOwes, WriteOwes, IsWrite
    <2>3. job'[w].step = "client" /\ job'[w].kind = "cycle"
      BY <1>0, <2>1 DEF Start
    <2>4. Outstanding(w)' = 0
      BY <2>3 DEF Outstanding, CycleOwes, WriteOwes, IsWrite
    <2> QED
      BY <1>s, <2>2, <2>4
  <1>2. CASE BeginWrite(w)
    <2>1. PICK v \in Vaults : IF Allowed(v, "manual") THEN Start(w, v, "write") ELSE UNCHANGED job
      BY <1>2 DEF BeginWrite
    <2>2. spent' = spent
      BY <1>2 DEF BeginWrite
    <2>3. OthersOwe
      BY <1>0, <2>1 DEF Start, Outstanding, CycleOwes, WriteOwes, IsWrite
    <2>4. CASE Allowed(v, "manual")
      BY <2>2, <2>3, <2>4 DEF Allowed
    <2>5. CASE ~Allowed(v, "manual")
      <3>1. Outstanding(w)' = Outstanding(w)
        BY <2>1, <2>5 DEF Outstanding, CycleOwes, WriteOwes, IsWrite
      <3> QED
        BY <1>s, <2>2, <2>3, <3>1
    <2> QED
      BY <2>4, <2>5
  <1>3. CASE FindClient(w)
    <2>1. job[w].step = "client" /\ spent' = spent
      BY <1>3 DEF FindClient
    <2>2. CASE Leave(w)
      BY <1>s, <2>1, <2>2, LeavingPays
    <2>3. CASE IsWrite(w) /\ Located(w)
      BY <2>1, <2>3, LocatingPays
    <2>4. ASSUME NEW s \in {"ask", "connect"}, Step(w, s)
          PROVE  OthersOwe /\ Outstanding(w)' <= Outstanding(w)
      <3>1. OthersOwe /\ job'[w].step = s /\ (IsWrite(w)' <=> IsWrite(w))
        BY <1>s, <2>1, <2>4, StepsPay
      <3> QED
        BY <2>1, <3>1 DEF Outstanding, CycleOwes, WriteOwes, IsWrite
    <2> QED
      BY <1>3, <2>1, <2>2, <2>3, <2>4 DEF FindClient
  <1>4. CASE LookAgain(w)
    BY <1>4, LocatingPays DEF LookAgain
  <1>5. CASE Join(w)
    <2>1. job[w].step = "ask" /\ spent' = spent
      BY <1>5 DEF Join
    <2>2. CASE Leave(w)
      BY <1>s, <2>1, <2>2, LeavingPays
    <2>3. CASE IsWrite(w) /\ Step(w, "wait")
      <3>1. OthersOwe /\ job'[w].step = "wait" /\ (IsWrite(w)' <=> IsWrite(w))
        BY <1>s, <2>1, <2>3, StepsPay
      <3>2. Outstanding(w)' <= Outstanding(w)
        BY <2>1, <2>3, <3>1 DEF Outstanding, CycleOwes, WriteOwes, IsWrite
      <3> QED
        BY <2>1, <3>1, <3>2
    <2> QED
      BY <1>5, <2>2, <2>3 DEF Join
  <1>6. CASE Ask(w)
    <2>1. job[w].step = "ask" /\ spent' = spent
      BY <1>6 DEF Ask
    <2>2. CASE CycleEnds(w)
      <3>1. OthersOwe /\ Outstanding(w)' = WriteOwes(w)
        BY <2>1, <2>2, EndingPays
      <3>2. Outstanding(w) = WriteOwes(w)
        BY <2>1 DEF Outstanding, CycleOwes, WriteOwes, IsWrite
      <3> QED
        BY <1>s, <2>1, <3>1, <3>2
    <2>3. ASSUME NEW class \in Classes, Allowed(job[w].vault, class), Step(w, "list")
          PROVE  OthersOwe /\ HourlyCount < hourlyLimit
      BY <1>s, <2>1, <2>3, StepsPay DEF Allowed
    <2> QED
      BY <1>6, <2>1, <2>2, <2>3 DEF Ask
  <1>7. CASE Connected(w)
    <2>1. job[w].step = "connect" /\ spent' = spent /\ Step(w, "client")
      BY <1>7 DEF Connected
    <2>2. OthersOwe /\ job'[w].step = "client" /\ (IsWrite(w)' <=> IsWrite(w))
      BY <1>s, <2>1, StepsPay
    <2>3. Outstanding(w)' <= Outstanding(w)
      BY <2>1, <2>2 DEF Outstanding, CycleOwes, WriteOwes, IsWrite
    <2> QED
      BY <2>1, <2>2, <2>3
  <1>8. CASE ConnectFails(w)
    BY <1>s, <1>8, LeavingPays DEF ConnectFails
  <1>9. CASE FirstAnswer(w)
    <2>1. Spend(1)
      BY <1>9 DEF FirstAnswer
    <2>2. ASSUME NEW s \in {"get", "put"}, Step(w, s),
                 \/ job[w].step = "list" /\ s = "get"
                 \/ job[w].step = "fetch" /\ s = "put"
          PROVE  OthersOwe /\ Outstanding(w)' + 1 <= Outstanding(w)
      <3>1. OthersOwe /\ job'[w].step = s /\ (IsWrite(w)' <=> IsWrite(w))
        BY <1>s, <2>2, StepsPay
      <3> QED
        BY <1>0, <2>2, <3>1 DEF Outstanding, CycleOwes, WriteOwes, IsWrite
    <2>3. ASSUME job[w].step = "fetch", Leave(w)
          PROVE  OthersOwe /\ Outstanding(w)' + 1 <= Outstanding(w)
      <3>1. Outstanding(w) = 2
        BY <2>3 DEF Outstanding, CycleOwes, WriteOwes
      <3> QED
        BY <2>3, <3>1, LeavingPays
    <2>4. OthersOwe /\ Outstanding(w)' + 1 <= Outstanding(w)
      BY <1>9, <2>2, <2>3 DEF FirstAnswer
    <2> QED
      BY <2>1, <2>4
  <1>10. CASE CycleDone(w)
    <2>1. job[w].step = "get" /\ CycleEnds(w)
      BY <1>10 DEF CycleDone
    <2>2. PICK n \in 0 .. MaxChunks : Spend(n)
      BY <1>10 DEF CycleDone
    <2>3. OthersOwe /\ Outstanding(w)' = WriteOwes(w)
      BY <2>1, EndingPays
    <2>4. Outstanding(w) = MaxChunks + WriteOwes(w) /\ WriteOwes(w) \in Nat
      BY <1>0, <2>1 DEF Outstanding, CycleOwes, WriteOwes, IsWrite
    <2> QED
      BY <1>0, <2>2, <2>3, <2>4
  <1>11. CASE WriteDone(w)
    <2>1. job[w].step = "put" /\ Leave(w) /\ Spend(1)
      BY <1>11 DEF WriteDone
    <2>2. Outstanding(w) = 1
      BY <2>1 DEF Outstanding, CycleOwes, WriteOwes, IsWrite
    <2> QED
      BY <2>1, <2>2, LeavingPays
  <1>12. CASE CallFails(w)
    <2>1. CASE job[w].step \in {"list", "get"}
      <3>1. PICK n \in 1 .. MaxChunks : Spend(n) /\ (job[w].step = "list" => n = 1)
        BY <1>0, <1>12, <2>1 DEF CallFails
      <3>2. OthersOwe /\ Outstanding(w)' = WriteOwes(w)
        BY <1>12, <2>1, EndingPays DEF CallFails
      <3>3. /\ job[w].step = "list" => Outstanding(w) = 1 + MaxChunks + WriteOwes(w)
            /\ job[w].step = "get" => Outstanding(w) = MaxChunks + WriteOwes(w)
            /\ WriteOwes(w) \in Nat
        BY <1>0, <2>1 DEF Outstanding, CycleOwes, WriteOwes, IsWrite
      <3> QED
        BY <1>0, <2>1, <3>1, <3>2, <3>3
    <2>2. CASE job[w].step \in {"fetch", "put"}
      <3>1. Spend(1) /\ Leave(w)
        BY <1>12, <2>2 DEF CallFails
      <3>2. Outstanding(w) >= 1
        BY <2>2 DEF Outstanding, CycleOwes, WriteOwes, IsWrite
      <3> QED
        BY <1>s, <3>1, <3>2, LeavingPays
    <2> QED
      BY <1>12, <2>1, <2>2 DEF CallFails, Calls
  <1> QED
    BY <1>1, <1>2, <1>3, <1>4, <1>5, <1>6, <1>7, <1>8, <1>9, <1>10, <1>11, <1>12 DEF Caller, Run, Answer

\* What an idle caller owes is nothing.
LEMMA IdleOweNothing ==
    ASSUME job = [w \in Callers |-> Idle]
    PROVE  Owed \in [Callers -> Nat] /\ \A w \in Callers : Owed[w] <= 0
  BY DEF Owed, Outstanding, CycleOwes, WriteOwes, IsWrite, Idle

\* With nothing counted and nothing owed the budget is kept.
LEMMA FreshBudget ==
    ASSUME TypeOK, spent = [a \in Ages |-> 0], job = [w \in Callers |-> Idle]
    PROVE  HourlyBudget
  <1>1. /\ spent \in [Ages -> Nat] /\ \A a \in Ages : spent[a] <= 0
        /\ Cardinality(Ages) \in Nat /\ 0 \in Nat
    BY AgesFinite, FS_CardinalityType
  <1>2. HourlyCount <= Cardinality(Ages) * 0
    BY <1>1, AgesFinite, SumIsBounded DEF HourlyCount
  <1>3. SumFunction(Owed) <= Cardinality(Callers) * 0
    BY FiniteAssumption, IdleOweNothing, SumIsBounded
  <1>4. HourlyCount = 0 /\ SumFunction(Owed) = 0
    BY <1>1, <1>2, <1>3, SumsAreTyped
  <1>5. Max(Limits) \in Nat /\ Max(Limits) >= 1
    BY LimitIsBounded DEF TypeOK
  <1>6. Cardinality(Callers) * (3 + MaxChunks) \in Nat
    BY SumsAreTyped
  <1>7. HourlyCount + SumFunction(Owed) <= Max(Limits) - 1 + Cardinality(Callers) * (3 + MaxChunks)
    BY <1>4, <1>5, <1>6
  <1> QED
    BY <1>7 DEF HourlyBudget, Owed

\* Every step keeps the budget.
LEMMA NextBudget == TypeOK /\ TypeOK' /\ HourlyBudget /\ [Next]_vars => HourlyBudget'
  <1> SUFFICES ASSUME TypeOK, TypeOK', HourlyBudget, [Next]_vars PROVE HourlyBudget'
    OBVIOUS
  <1> DEFINE allowance == Max(Limits) - 1 + Cardinality(Callers) * (3 + MaxChunks)
  <1>1. HourlyCount + SumFunction(Owed) <= allowance
    BY DEF HourlyBudget, Owed
  <1>2. HourlyCount \in Nat /\ SumFunction(Owed) \in Nat /\ allowance \in Nat
    <2>1. Max(Limits) - 1 \in Nat
      BY LimitIsBounded DEF TypeOK
    <2>2. Cardinality(Callers) * (3 + MaxChunks) \in Nat
      BY SumsAreTyped
    <2> QED
      BY <2>1, <2>2, SumsAreTyped
  <1>3. HourlyCount' \in Nat /\ SumFunction(Owed') \in Nat
    <2>1. spent' \in [Ages -> Nat] /\ Owed' \in [Callers -> Nat]
      BY DEF TypeOK, Owed, Outstanding, CycleOwes, WriteOwes, IsWrite
    <2> QED
      BY <2>1, AgesFinite, FiniteAssumption, SumIsNat DEF HourlyCount
  <1>4. SUFFICES HourlyCount' + SumFunction(Owed') <= allowance
    BY DEF HourlyBudget, Owed
  <1>5. CASE Tick
    <2>1. Owed' = Owed
      BY <1>5 DEF Tick, Owed, Outstanding, CycleOwes, WriteOwes, IsWrite
    <2>2. HourlyCount' <= HourlyCount
      <3>1. spent \in [0 .. Hour - 1 -> Nat] /\ spent' \in [0 .. Hour - 1 -> Nat]
        BY DEF TypeOK, Ages
      <3>2. spent'[0] = 0 /\ \A a \in 1 .. Hour - 1 : spent'[a] = spent[a - 1]
        BY <1>5 DEF Tick, Ages
      <3> QED
        BY <3>1, <3>2, SumShifts DEF HourlyCount
    <2> QED
      BY <1>1, <1>2, <1>3, <2>1, <2>2
  <1>6. CASE Reconfigure
    <2>1. Owed' = Owed /\ HourlyCount' = HourlyCount
      BY <1>6 DEF Reconfigure, Owed, Outstanding, CycleOwes, WriteOwes, IsWrite, HourlyCount
    <2> QED
      BY <1>1, <2>1
  <1>7. CASE Restart
    <2>1. spent' = [a \in Ages |-> 0] /\ job' = [w \in Callers |-> Idle]
      BY <1>7 DEF Restart
    <2>2. Owed' \in [Callers -> Nat] /\ \A w \in Callers : Owed'[w] <= 0
      BY <2>1 DEF Owed, Outstanding, CycleOwes, WriteOwes, IsWrite, Idle
    <2>3. /\ spent' \in [Ages -> Nat] /\ \A a \in Ages : spent'[a] <= 0
          /\ Cardinality(Ages) \in Nat /\ Cardinality(Callers) \in Nat /\ 0 \in Nat
      BY <2>1, AgesFinite, FiniteAssumption, FS_CardinalityType
    <2>4. HourlyCount' <= Cardinality(Ages) * 0
      BY <2>3, AgesFinite, SumIsBounded DEF HourlyCount
    <2>5. SumFunction(Owed') <= Cardinality(Callers) * 0
      BY <2>2, <2>3, FiniteAssumption, SumIsBounded
    <2> QED
      BY <1>2, <1>3, <2>3, <2>4, <2>5
  <1>8. ASSUME NEW w \in Callers, Caller(w) PROVE HourlyCount' + SumFunction(Owed') <= allowance
    <2>1. /\ SumFunction(Owed') + Outstanding(w) = SumFunction(Owed) + Outstanding(w)'
          /\ Outstanding(w) \in Nat /\ Outstanding(w)' \in Nat
      <3>1. Outstanding(w) \in Nat /\ Outstanding(w)' \in Nat
        BY DEF Outstanding, CycleOwes, WriteOwes, IsWrite
      <3> QED
        BY <1>8, <3>1, CallersPay, OwingChanges
    <2>2. CASE spent' = spent /\ HourlyCount < hourlyLimit
      <3>1. HourlyCount' = HourlyCount
        BY <2>2 DEF HourlyCount
      <3>2. SumFunction(Owed') <= Cardinality(Callers) * (3 + MaxChunks)
        <4>1. Owed' \in [Callers -> Nat] /\ \A u \in Callers : Owed'[u] <= 3 + MaxChunks
          BY DEF Owed, Outstanding, CycleOwes, WriteOwes, IsWrite
        <4>2. 3 + MaxChunks \in Nat
          OBVIOUS
        <4> QED
          BY <4>1, <4>2, FiniteAssumption, SumIsBounded
      <3>3. HourlyCount <= Max(Limits) - 1
        BY <1>2, <2>2, LimitIsBounded
      <3>4. Max(Limits) \in Nat /\ Cardinality(Callers) * (3 + MaxChunks) \in Nat
        BY LimitIsBounded, SumsAreTyped
      <3> QED
        BY <1>2, <1>3, <3>1, <3>2, <3>3, <3>4
    <2>3. CASE spent' = spent /\ Outstanding(w)' <= Outstanding(w)
      <3>1. HourlyCount' = HourlyCount
        BY <2>3 DEF HourlyCount
      <3> QED
        BY <1>1, <1>2, <1>3, <2>1, <2>3, <3>1
    <2>4. ASSUME NEW n \in Nat, Spend(n), Outstanding(w)' + n <= Outstanding(w)
          PROVE  HourlyCount' + SumFunction(Owed') <= allowance
      <3>1. HourlyCount' = HourlyCount + n
        BY <2>4, SpendingCounts
      <3> QED
        BY <1>1, <1>2, <1>3, <2>1, <2>4, <3>1
    <2> QED
      BY <1>8, <2>2, <2>3, <2>4, CallersPay
  <1>9. CASE UNCHANGED vars
    <2>1. Owed' = Owed /\ HourlyCount' = HourlyCount
      BY <1>9 DEF vars, Owed, Outstanding, CycleOwes, WriteOwes, IsWrite, HourlyCount
    <2> QED
      BY <1>1, <2>1
  <1> QED
    BY <1>5, <1>6, <1>7, <1>8, <1>9 DEF Next

\* governor.go allow, recordRequest, pruneLocked: the units of one hour and
\* those still outstanding overshoot the largest limit by at most one job for
\* each caller, for every number of callers and every length of a job.
THEOREM HourlyBudgetKept == Spec => []HourlyBudget
  <1>1. Init => HourlyBudget
    BY InitTyped, FreshBudget DEF Init
  <1> QED
    BY <1>1, InitTyped, NextTyped, NextBudget, PTL DEF Spec
=============================================================================
