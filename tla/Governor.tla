------------------------------ MODULE Governor ------------------------------
(***************************************************************************)
(* The rate governor (backend/governor.go) and the callers it paces: delta *)
(* cycles (cycle.go doCycle under backend.go runVaultCycle), item writes   *)
(* (writes.go beginWrite, fetchFresh, Put/Create/Delete) and the retried   *)
(* construction of the 1Password client (backend.go ensureClient).         *)
(*                                                                         *)
(* Every mutex section of the governor is one action (the two that end a   *)
(* cycle touch different state and are one together).  A caller asks the   *)
(* governor before its first call, and then spends its units as the answers*)
(* arrive; between its question and its last answer other callers ask,     *)
(* answer, fail and rewrite the configuration.  A write that does not know *)
(* its item runs or joins a cycle in between, which asks once more.        *)
(*                                                                         *)
(* Instants are kept as the ticks left until they are reached, so the      *)
(* clock needs no bound: `now.Before(x)' is `x's countdown is not 0'.      *)
(* The events slice is kept as the units recorded at each age below one    *)
(* hour; the slice itself, the daily window and the probe, which only the  *)
(* read path's ceiling and op/status look at, are in Usage.                *)
(***************************************************************************)
EXTENDS Integers, FiniteSetsExt

CONSTANTS
    Vaults,         \* vaults with a replica
    Callers,        \* concurrent triggers of cycles and writes
    Hour,           \* ticks in an hour
    Limits,         \* values of hourly_read_limit a config write may set
    Intervals,      \* values of refresh_interval, in ticks
    MaxChunks,      \* GetItems calls one cycle may need
    MaxFailures,    \* bound: consecutive failures are counted up to here
    MaxFaults,      \* bound: failed answers and restarts in a behaviour
    MaxRewrites     \* bound: config writes in a behaviour

ASSUME FiniteAssumption == IsFiniteSet(Callers) /\ IsFiniteSet(Limits)
ASSUME HourAssumption == Hour \in Nat \ {0}
ASSUME SettingsAssumption == /\ Limits \subseteq Nat \ {0}
                             /\ Intervals \subseteq Nat \ {0}
ASSUME BoundsAssumption == /\ MaxChunks \in Nat \ {0}
                           /\ MaxFailures \in Nat \ {0}
                           /\ MaxFaults \in Nat
                           /\ MaxRewrites \in Nat

VARIABLES
    phase,          \* ticks since the top of the hour
    spent,          \* units recorded, by age in ticks
    gstate,         \* governor.state
    resumeIn,       \* resumeAt
    failures,       \* backoff[v].consecutiveFailures; 0 when v has no entry
    retryIn,        \* backoff[v].nextAllowedAt
    initFailures,   \* clientInit.consecutiveFailures
    initRetryIn,    \* clientInit.nextAllowedAt
    hourlyLimit,
    interval,       \* refreshInterval
    client,         \* Backend.client is set
    job,            \* what each caller is doing
    faults,
    rewrites,
    embargo,        \* history: ticks left of the last 429's horizon, none left
                    \* once an auth failure was recorded after it
    longest         \* history: the longest interval in force in this process

govVars == <<gstate, resumeIn, embargo>>
backoffVars == <<failures, retryIn>>
initVars == <<initFailures, initRetryIn, client>>
configVars == <<hourlyLimit, interval, rewrites, longest>>
vars == <<phase, spent, govVars, backoffVars, initVars, configVars, job, faults>>

-----------------------------------------------------------------------------
Ages == 0 .. Hour - 1

States == {"normal", "rate_limited", "auth_failed"}

Kinds == {"cycle", "write"}

\* workClassMiss is asked and answered as workClassManual is: only the
\* periodic class is treated differently.
Classes == {"periodic", "manual"}

Calls == {"list", "get", "fetch", "put"}

Steps == Calls \cup {"client", "connect", "ask", "wait", "lookAgain"}

Idle == [step |-> "idle"]

Jobs == [vault : Vaults, kind : Kinds, step : Steps]

IsWrite(w) == job[w].kind = "write"

Errors == {"limited", "auth", "other"}

Down(n) == IF n = 0 THEN 0 ELSE n - 1

\* backoffDelay: 1, 2, 4, ... ticks, never more than cap.  (A faulty one first.)
DelayUncapped(n, cap) == 2 ^ (n - 1)

Delay(n, cap) == IF 2 ^ (n - 1) \in 1 .. cap THEN 2 ^ (n - 1) ELSE cap

More(n) == IF n < MaxFailures THEN n + 1 ELSE n

\* rateLimitResumeAt: the next top of the hour.  The SDK's error carries no
\* "retry in" text, so its other branch is not taken.  (A faulty one first.)
HorizonPast == 0 - phase

Horizon == Hour - phase

\* countSinceLocked(now, time.Hour)
HourlyCount == SumFunction(spent)

Step(w, s) == job' = [job EXCEPT ![w] = [@ EXCEPT !.step = s]]

Leave(w) == job' = [job EXCEPT ![w] = Idle]

Spend(n) == spent' = [spent EXCEPT ![0] = @ + n]

ExpiredNever == FALSE

Expired == gstate = "rate_limited" /\ resumeIn = 0

\* allow and clientInitAllowed both put an expired rate limit back to normal
\* before they decide anything else.
Expire ==
    /\ gstate' = IF Expired THEN "normal" ELSE gstate
    /\ UNCHANGED <<resumeIn, embargo>>

Open == gstate = "normal" \/ Expired

AllowedPastLimit(v, class) ==
    /\ Open
    /\ retryIn[v] = 0
    /\ class = "periodic" => 10 * HourlyCount < 8 * hourlyLimit

Allowed(v, class) ==
    /\ Open
    /\ retryIn[v] = 0
    /\ HourlyCount < hourlyLimit
    /\ class = "periodic" => 10 * HourlyCount < 8 * hourlyLimit

Cycling(v) == \E u \in Callers : job[u].step \in {"list", "get"} /\ job[u].vault = v

Joined(u, v) == job[u].step = "wait" /\ job[u].vault = v

\* The cycle w runs is over, done or failed.  Whoever asked for it as a read or
\* a refresh is done with it; a write looks for its item again, and so do the
\* writes that joined.
CycleEnds(w) ==
    job' = [u \in Callers |->
              IF u = w /\ ~IsWrite(w) THEN Idle
              ELSE IF u = w \/ Joined(u, job[w].vault) THEN [job[u] EXCEPT !.step = "lookAgain"]
              ELSE job[u]]

ClientInitAllowed == Open /\ initRetryIn = 0

\* What a failed call does to the engine-wide state: the first two cases of
\* recordRequest and of recordClientInitResult.
EngineFailure(error) ==
    /\ gstate' = CASE error = "limited" -> "rate_limited"
                   [] error = "auth"    -> "auth_failed"
                   [] OTHER             -> gstate
    /\ resumeIn' = IF error = "limited" THEN Horizon ELSE resumeIn
    /\ embargo' = CASE error = "limited" -> Horizon
                    [] error = "auth"    -> 0
                    [] OTHER             -> embargo

\* The default case of recordRequest.
VaultFailure(v, error) ==
    IF error = "other"
    THEN /\ failures' = [failures EXCEPT ![v] = More(@)]
         /\ retryIn' = [retryIn EXCEPT ![v] = Delay(More(failures[v]), interval)]
    ELSE UNCHANGED backoffVars

Fault == faults < MaxFaults /\ faults' = faults + 1

-----------------------------------------------------------------------------
\* The clock.
Tick ==
    /\ phase' = IF phase = Hour - 1 THEN 0 ELSE phase + 1
    /\ spent' = [a \in Ages |-> IF a = 0 THEN 0 ELSE spent[a - 1]]
    /\ resumeIn' = Down(resumeIn)
    /\ embargo' = Down(embargo)
    /\ retryIn' = [v \in Vaults |-> Down(retryIn[v])]
    /\ initRetryIn' = Down(initRetryIn)
    /\ UNCHANGED <<gstate, failures, initFailures, client, configVars, job, faults>>

Start(w, v, kind) == job' = [job EXCEPT ![w] = [vault |-> v, kind |-> kind, step |-> "client"]]

\* A cycle is triggered: runVaultCycle needs the client before it asks.
Begin(w) ==
    /\ job[w] = Idle
    /\ \E v \in Vaults : Start(w, v, "cycle")
    /\ UNCHANGED <<phase, spent, govVars, backoffVars, initVars, configVars, faults>>

\* A write request asks before it needs the client: beginWrite's allow, as
\* workClassManual.
BeginWrite(w) ==
    /\ job[w] = Idle
    /\ Expire
    /\ \E v \in Vaults :
         IF Allowed(v, "manual") THEN Start(w, v, "write") ELSE UNCHANGED job
    /\ UNCHANGED <<phase, spent, backoffVars, initVars, configVars, faults>>

\* locateItem's answer and what the handler makes of it: an update, a create or
\* a delete, or no call at all (ambiguous, replica empty, or not found).
Located(w) == (\E s \in {"fetch", "put"} : Step(w, s)) \/ Leave(w)

\* ensureClient up to the call of the client factory.  A write that has the
\* client looks for its item, and one that does not find it runs a cycle of its
\* own through ensureItemFresh, for which it has the client already.
FindClient(w) ==
    /\ job[w].step = "client"
    /\ \/ /\ client
          /\ Step(w, "ask") \/ (IsWrite(w) /\ Located(w))
          /\ UNCHANGED govVars
       \/ /\ ~client
          /\ Expire
          /\ IF ClientInitAllowed THEN Step(w, "connect") ELSE Leave(w)
    /\ UNCHANGED <<phase, spent, backoffVars, initVars, configVars, faults>>

\* The client factory returned a client: recordClientInitResult(nil).
Connected(w) ==
    /\ job[w].step = "connect"
    /\ client' = TRUE
    /\ initFailures' = 0
    /\ initRetryIn' = 0
    /\ Step(w, "client")
    /\ UNCHANGED <<phase, spent, govVars, backoffVars, configVars, faults>>

\* The client factory failed: recordClientInitResult(err).
ConnectFails(w) ==
    /\ job[w].step = "connect"
    /\ Fault
    /\ \E e \in Errors :
         /\ EngineFailure(e)
         /\ IF e = "other"
            THEN /\ initFailures' = More(initFailures)
                 /\ initRetryIn' = Delay(More(initFailures), interval)
            ELSE UNCHANGED <<initFailures, initRetryIn>>
    /\ Leave(w)
    /\ UNCHANGED <<phase, spent, backoffVars, client, configVars>>

\* The write's second look, after its cycle.
LookAgain(w) ==
    /\ job[w].step = "lookAgain"
    /\ Located(w)
    /\ UNCHANGED <<phase, spent, govVars, backoffVars, initVars, configVars, faults>>

\* runCycle: a cycle of this vault is running already.  The caller asks nothing
\* and waits for its result, after which only a write has more to spend.
Join(w) ==
    /\ job[w].step = "ask"
    /\ Cycling(job[w].vault)
    /\ IF IsWrite(w) THEN Step(w, "wait") ELSE Leave(w)
    /\ UNCHANGED <<phase, spent, govVars, backoffVars, initVars, configVars, faults>>

\* doCycle's allow, asked as the class of what triggered the cycle; a write asks
\* as a read would if its item became known since it looked and the window is
\* over.  A write whose cycle is denied goes on without one.
Ask(w) ==
    /\ job[w].step = "ask"
    /\ ~Cycling(job[w].vault)
    /\ Expire
    /\ \E class \in Classes :
         IF Allowed(job[w].vault, class) THEN Step(w, "list") ELSE CycleEnds(w)
    /\ UNCHANGED <<phase, spent, backoffVars, initVars, configVars, faults>>

\* ListItems or the write's own GetItems answered: recordRequest(v, 1, nil).
\* An update may still end here, when the item is gone or a field does not
\* apply.
FirstAnswer(w) ==
    /\ Spend(1)
    /\ \/ job[w].step = "list" /\ Step(w, "get")
       \/ job[w].step = "fetch" /\ (Step(w, "put") \/ Leave(w))
    /\ UNCHANGED <<phase, govVars, backoffVars, initVars, configVars, faults>>

\* The cycle's GetItems calls answered: recordRequest(v, chunks, nil) and, the
\* replica updated, recordSuccess(v).
CycleDone(w) ==
    /\ job[w].step = "get"
    /\ \E chunks \in 0 .. MaxChunks : Spend(chunks)
    /\ failures' = [failures EXCEPT ![job[w].vault] = 0]
    /\ retryIn' = [retryIn EXCEPT ![job[w].vault] = 0]
    /\ CycleEnds(w)
    /\ UNCHANGED <<phase, govVars, initVars, configVars, faults>>

\* PutItem, CreateItem or DeleteItem answered.  No recordSuccess here.
WriteDone(w) ==
    /\ job[w].step = "put"
    /\ Spend(1)
    /\ Leave(w)
    /\ UNCHANGED <<phase, govVars, backoffVars, initVars, configVars, faults>>

\* A call failed: recordRequest(v, units, err).  The cycle is over, or the write
\* gives up.
CallFails(w) ==
    /\ job[w].step \in Calls
    /\ Fault
    /\ IF job[w].step = "get" THEN \E chunks \in 1 .. MaxChunks : Spend(chunks)
                              ELSE Spend(1)
    /\ \E e \in Errors : EngineFailure(e) /\ VaultFailure(job[w].vault, e)
    /\ IF job[w].step \in {"list", "get"} THEN CycleEnds(w) ELSE Leave(w)
    /\ UNCHANGED <<phase, initVars, configVars>>

ClearedAlways == "normal"

\* reconfigure leaves a rate limit alone.
Cleared == IF gstate = "auth_failed" THEN "normal" ELSE gstate

\* applyConfig: a fresh client is set, then reconfigure.
Reconfigure ==
    /\ rewrites < MaxRewrites
    /\ rewrites' = rewrites + 1
    /\ hourlyLimit' \in Limits
    /\ interval' \in Intervals
    /\ longest' = IF interval' > longest THEN interval' ELSE longest
    /\ gstate' = Cleared
    /\ client' = TRUE
    /\ initFailures' = 0
    /\ initRetryIn' = 0
    /\ UNCHANGED <<phase, spent, resumeIn, embargo, backoffVars, job, faults>>

\* The plugin process restarts: newGovernor, then reconfigure with the stored
\* configuration.  Nothing the governor counted survives.
Restart ==
    /\ Fault
    /\ spent' = [a \in Ages |-> 0]
    /\ gstate' = "normal"
    /\ resumeIn' = 0
    /\ failures' = [v \in Vaults |-> 0]
    /\ retryIn' = [v \in Vaults |-> 0]
    /\ initFailures' = 0
    /\ initRetryIn' = 0
    /\ client' = FALSE
    /\ job' = [w \in Callers |-> Idle]
    /\ embargo' = 0
    /\ longest' = interval
    /\ UNCHANGED <<phase, hourlyLimit, interval, rewrites>>

Init ==
    /\ phase \in Ages
    /\ spent = [a \in Ages |-> 0]
    /\ gstate = "normal"
    /\ resumeIn = 0
    /\ failures = [v \in Vaults |-> 0]
    /\ retryIn = [v \in Vaults |-> 0]
    /\ initFailures = 0
    /\ initRetryIn = 0
    /\ hourlyLimit \in Limits
    /\ interval \in Intervals
    /\ client = FALSE
    /\ job = [w \in Callers |-> Idle]
    /\ faults = 0
    /\ rewrites = 0
    /\ embargo = 0
    /\ longest = interval

\* The rest of a call that is outstanding: the SDK or the factory answers.
Answer(w) == Connected(w) \/ FirstAnswer(w) \/ CycleDone(w) \/ WriteDone(w)

\* The caller's own thread, up to its next call.
Run(w) == FindClient(w) \/ LookAgain(w) \/ Join(w) \/ Ask(w)

Caller(w) ==
    \/ Begin(w)
    \/ BeginWrite(w)
    \/ Run(w)
    \/ Answer(w)
    \/ ConnectFails(w)
    \/ CallFails(w)

Next == Tick \/ Reconfigure \/ Restart \/ \E w \in Callers : Caller(w)

Spec == Init /\ [][Next]_vars

\* Time passes, a caller's thread runs, and the calls it makes come back (each
\* runs under a request's or the periodic function's context).  Nothing makes
\* a caller begin.
FairSpec ==
    /\ Spec
    /\ WF_vars(Tick)
    /\ \A w \in Callers : WF_vars(Run(w) \/ Answer(w))

-----------------------------------------------------------------------------
TypeOK ==
    /\ phase \in Ages
    /\ spent \in [Ages -> Nat]
    /\ gstate \in States
    /\ resumeIn \in Nat
    /\ failures \in [Vaults -> 0 .. MaxFailures]
    /\ retryIn \in [Vaults -> Nat]
    /\ initFailures \in 0 .. MaxFailures
    /\ initRetryIn \in Nat
    /\ hourlyLimit \in Limits
    /\ interval \in Intervals
    /\ client \in BOOLEAN
    /\ job \in [Callers -> Jobs \cup {Idle}]
    /\ faults \in 0 .. MaxFaults
    /\ rewrites \in 0 .. MaxRewrites
    /\ embargo \in Nat
    /\ longest \in Intervals

\* Units a caller may still record without asking the governor again: its
\* cycle's, and for a write that was let through its own fetch and put.
CycleOwes(w) ==
    CASE job[w].step = "list" -> 1 + MaxChunks
      [] job[w].step = "get"  -> MaxChunks
      [] OTHER -> 0

WriteOwes(w) ==
    CASE job[w].step = "idle" -> 0
      [] job[w].step = "put"  -> 1
      [] job[w].step \in {"fetch", "wait", "lookAgain"} -> 2
      [] OTHER -> IF IsWrite(w) THEN 2 ELSE 0

Outstanding(w) == CycleOwes(w) + WriteOwes(w)

\* governor.go allow checks the hourly count before a caller's calls and not at
\* each, so the limit can be overshot; but only by the callers let through
\* before the count reached it: what was recorded in the last hour and what is
\* still outstanding stay under the limit plus one whole job per caller, the
\* longest being a write that runs a cycle to find its item.
HourlyBudget ==
    HourlyCount + SumFunction([w \in Callers |-> Outstanding(w)])
        <= Max(Limits) - 1 + Cardinality(Callers) * (3 + MaxChunks)

\* A 429 halts the engine until the next top of the hour: no config rewrite, no
\* other vault's success, failure or retry ends it early.  The one exception
\* the code makes is a later auth failure, which takes the state over.
RateLimitHeld ==
    embargo > 0 => gstate = "rate_limited" /\ resumeIn = embargo

\* No failure blocks for longer than its window: a rate limit never past the
\* next top of the hour, and backoff never past the longest refresh interval
\* that has been in force since the process started, in whichever order
\* failures, retries and changes of the interval come.
BlackoutBounded ==
    /\ resumeIn <= Hour - phase
    /\ interval <= longest
    /\ initRetryIn <= longest
    /\ \A v \in Vaults : retryIn[v] <= longest

\* Whatever failed, each vault becomes reachable again without an operator,
\* except after an auth failure: rate limits expire, backoff runs out, the
\* hourly window drains, and a missing client may be constructed.  (Said of
\* the periodic class it is false: misses, writes and manual refreshes can hold
\* the count between the burst brake and the limit for ever.)
Recovers ==
    \A v \in Vaults :
        []<>(gstate = "auth_failed"
             \/ (Allowed(v, "manual") /\ (client \/ ClientInitAllowed)))

\* governor.go:149-151 "auth_failed ... clear[s] only on a successful config
\* rewrite".
AuthFailedSticky ==
    [][gstate = "auth_failed" /\ gstate' # "auth_failed" => Reconfigure \/ Restart]_vars
=============================================================================
