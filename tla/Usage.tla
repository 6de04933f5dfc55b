-------------------------------- MODULE Usage --------------------------------
(***************************************************************************)
(* What usagePct tells the read path's ceiling and op/status of the budget *)
(* already used (backend/governor.go): the units recorded in the last hour *)
(* and the last 24 hours, against their limits, and the percentage an      *)
(* external command last reported for the account (probeNow).              *)
(*                                                                         *)
(* The events slice is a suffix of all units ever recorded: `first' is the *)
(* place its pruning has reached in their sequence.  The timer looks       *)
(* whether a probe is due in one section of the mutex, takes the command   *)
(* and the token in a second and the result in a third; a config write     *)
(* comes before or after each of them.                                     *)
(***************************************************************************)
EXTENDS Integers, Sequences, FiniteSetsExt

CONSTANTS
    Hour, Day,      \* the two windows, in ticks
    Tokens,
    Configs,        \* configurations a write of op/config may set
    Percents,       \* percentages a probe may report
    None,
    MaxNow,         \* bound: ticks of the clock
    MaxUnits,       \* bound: units recorded between two restarts
    MaxRewrites,    \* bound: config writes
    MaxRestarts     \* bound: restarts

ASSUME WindowsAssumption == Hour \in Nat \ {0} /\ Day \in Nat /\ Hour <= Day
ASSUME ConfigsAssumption ==
    Configs \subseteq [hourlyLimit : Nat \ {0}, dailyLimit : Nat \ {0}, interval : Nat \ {0},
                       probeCmd : BOOLEAN, token : Tokens]
ASSUME PercentsAssumption == Percents \subseteq Nat
ASSUME NoneAssumption == None \notin Nat /\ None \notin [token : Tokens, rewrites : 0 .. MaxRewrites]
ASSUME BoundsAssumption ==
    MaxNow \in Nat /\ MaxUnits \in Nat /\ MaxRewrites \in Nat /\ MaxRestarts \in Nat

VARIABLES
    now,
    stamps,         \* the units recorded since the start, by their instant
    first,          \* the place in stamps of the first of governor.events
    config,         \* limits, interval, probeCmd (is one set?) and token
    probing,        \* what the timer is doing, and with which token
    lastProbeAt,    \* None for the zero time
    probeHealthy,
    probedPct,      \* probedAccountPct
    rewrites,
    restarts,
    measured        \* history: the token of the last measurement, and how many
                    \* config writes there were when its probe began

eventVars == <<stamps, first>>
probeVars == <<probing, lastProbeAt, probeHealthy, probedPct, measured>>
vars == <<now, eventVars, config, probeVars, rewrites, restarts>>

-----------------------------------------------------------------------------
Idle == [step |-> "idle"]
Due == [step |-> "due"]
Running == [step : {"running"}, token : Tokens, rewrites : 0 .. MaxRewrites]
Measurements == [token : Tokens, rewrites : 0 .. MaxRewrites]

\* countSinceLocked, of the units from place i on.
CountFrom(i, window) == Cardinality({j \in i .. Len(stamps) : stamps[j] > now - window})

\* pruneLocked, of the units s: up to the first of the last 24 hours.  (Two
\* faulty ones first: the wrong window, and one place too early.)
KeptFromHour(s) == Min({j \in first .. Len(s) : s[j] > now - Hour} \cup {Len(s) + 1})

KeptFromBefore(s) == Min({j \in first .. Len(s) : s[j] > now - Day} \cup {Len(s) + 1}) - 1

KeptFrom(s) == Min({j \in first .. Len(s) : s[j] > now - Day} \cup {Len(s) + 1})

pctOf(count, limit) == (count * 100) \div limit

LocalPct ==
    Max({pctOf(CountFrom(first, Hour), config.hourlyLimit), pctOf(CountFrom(first, Day), config.dailyLimit)})

\* (A faulty one first: what a failed probe leaves behind counts.)
ProbedAlways == Max({LocalPct, probedPct})

usagePct == IF probeHealthy THEN Max({LocalPct, probedPct}) ELSE LocalPct

-----------------------------------------------------------------------------
Tick ==
    /\ now < MaxNow
    /\ now' = now + 1
    /\ UNCHANGED <<eventVars, config, probeVars, rewrites, restarts>>

\* recordRequest: the units are stamped and the slice is pruned.
RecordRequest(units) ==
    /\ Len(stamps) + units <= MaxUnits
    /\ stamps' = stamps \o [j \in 1 .. units |-> now]
    /\ first' = KeptFrom(stamps')
    /\ UNCHANGED <<now, config, probeVars, rewrites, restarts>>

\* allow, usagePct and snapshot prune before they count.
Prune ==
    /\ first' = KeptFrom(stamps)
    /\ UNCHANGED <<now, stamps, config, probeVars, rewrites, restarts>>

\* runProbeIfDue
ProbeDue ==
    /\ probing = Idle
    /\ config.probeCmd
    /\ lastProbeAt # None => now - lastProbeAt >= config.interval
    /\ probing' = Due
    /\ UNCHANGED <<now, eventVars, config, lastProbeAt, probeHealthy, probedPct, measured, rewrites, restarts>>

StartedAnyway == [step |-> "running", token |-> config.token, rewrites |-> rewrites]

\* probeNow, its first section: the command may be gone.
Started ==
    IF config.probeCmd THEN [step |-> "running", token |-> config.token, rewrites |-> rewrites] ELSE Idle

ProbeStarts ==
    /\ probing = Due
    /\ probing' = Started
    /\ UNCHANGED <<now, eventVars, config, lastProbeAt, probeHealthy, probedPct, measured, rewrites, restarts>>

\* probeNow, its second section: the command failed, ran out of time, or its
\* output lacks the account's row.
ProbeFails ==
    /\ probing.step = "running"
    /\ probing' = Idle
    /\ lastProbeAt' = now
    /\ probeHealthy' = FALSE
    /\ UNCHANGED <<now, eventVars, config, probedPct, measured, rewrites, restarts>>

\* The account's row was found.  One that names no limit leaves the percentage.
ProbeAnswers ==
    /\ probing.step = "running"
    /\ probing' = Idle
    /\ lastProbeAt' = now
    /\ probeHealthy' = TRUE
    /\ \/ /\ probedPct' \in Percents
          /\ measured' = [token |-> probing.token, rewrites |-> probing.rewrites]
       \/ UNCHANGED <<probedPct, measured>>
    /\ UNCHANGED <<now, eventVars, config, rewrites, restarts>>

\* reconfigure.  What was recorded and probed stays.
Reconfigure ==
    /\ rewrites < MaxRewrites
    /\ rewrites' = rewrites + 1
    /\ config' \in Configs
    /\ UNCHANGED <<now, eventVars, probeVars, restarts>>

\* newGovernor, and reconfigure with the stored configuration.
Restart ==
    /\ restarts < MaxRestarts
    /\ restarts' = restarts + 1
    /\ stamps' = <<>>
    /\ first' = 1
    /\ probing' = Idle
    /\ lastProbeAt' = None
    /\ probeHealthy' = FALSE
    /\ probedPct' = 0
    /\ measured' = None
    /\ UNCHANGED <<now, config, rewrites>>

Init ==
    /\ now = 0
    /\ stamps = <<>>
    /\ first = 1
    /\ config \in Configs
    /\ probing = Idle
    /\ lastProbeAt = None
    /\ probeHealthy = FALSE
    /\ probedPct = 0
    /\ measured = None
    /\ rewrites = 0
    /\ restarts = 0

Next ==
    \/ Tick
    \/ \E units \in 0 .. MaxUnits : RecordRequest(units)
    \/ Prune
    \/ ProbeDue \/ ProbeStarts \/ ProbeFails \/ ProbeAnswers
    \/ Reconfigure
    \/ Restart

Spec == Init /\ [][Next]_vars

-----------------------------------------------------------------------------
TypeOK ==
    /\ now \in 0 .. MaxNow
    /\ stamps \in Seq(Nat)
    /\ first \in Nat \ {0}
    /\ config \in Configs
    /\ probing \in {Idle, Due} \cup Running
    /\ lastProbeAt \in Nat \cup {None}
    /\ probeHealthy \in BOOLEAN
    /\ probedPct \in Nat
    /\ rewrites \in 0 .. MaxRewrites
    /\ restarts \in 0 .. MaxRestarts
    /\ measured \in Measurements \cup {None}

\* governor.go:113-116: one slice, pruned whenever anybody records or looks, is
\* enough for both rolling counts.  At every moment each of them is the number
\* of units recorded in its window since the start.
CountsAreExact ==
    \A window \in {Hour, Day} : CountFrom(first, window) = CountFrom(1, window)

\* What was used since the start, of the limits in force.
UsedPct ==
    Max({pctOf(CountFrom(1, Hour), config.hourlyLimit), pctOf(CountFrom(1, Day), config.dailyLimit)})

\* governor.go:343-345 "the probe can only tighten the gate, never loosen it
\* below what local counters show": the ceiling is compared with what was really
\* used, or with more if a probe of this process measured more and the last one
\* did not fail, whatever was pruned, probed and restarted before.
ProbeOnlyTightens ==
    \/ usagePct = UsedPct
    \/ usagePct > UsedPct /\ probeHealthy /\ measured # None /\ usagePct = probedPct

\* governor.go probeNow: the percentage that tightens the ceiling is the one of
\* the token in force, and of a configuration that asks for a probe, once a
\* probe that began after the last config write has measured it, wherever config
\* writes fall between the timer's steps.  Nothing is said of an older
\* percentage, which reconfigure keeps even if it removes the command.
ProbeIsOfConfig ==
    probeHealthy /\ measured # None /\ measured.rewrites = rewrites
        => measured.token = config.token /\ config.probeCmd
=============================================================================
