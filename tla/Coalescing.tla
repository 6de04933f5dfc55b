----------------------------- MODULE Coalescing -----------------------------
(***************************************************************************)
(* What runCycle promises to the goroutines that call it, whatever a cycle *)
(* does: "concurrent triggers for the same vault coalesce into one cycle"  *)
(* (backend/cycle.go).  One execution is open at a time; whoever calls     *)
(* while it is open joins its group; the whole group returns at once, with *)
(* the outcome of that execution.                                          *)
(***************************************************************************)
EXTENDS Naturals

CONSTANTS Callers, Nobody, Outcomes

VARIABLES
    open,     \* the caller whose execution can still be joined, or Nobody
    group,    \* caller -> the caller whose execution it waits for, or Nobody
    outcome   \* caller -> what its last call returned; "none" during a call

vars == <<open, group, outcome>>

Init ==
    /\ open = Nobody
    /\ group = [c \in Callers |-> Nobody]
    /\ outcome = [c \in Callers |-> "none"]

Out(c) == group[c] = Nobody

Enter(c, l) ==
    /\ group' = [group EXCEPT ![c] = l]
    /\ outcome' = [outcome EXCEPT ![c] = "none"]

Lead(c) == Out(c) /\ open = Nobody /\ open' = c /\ Enter(c, c)

Join(c) == Out(c) /\ open # Nobody /\ Enter(c, open) /\ UNCHANGED open

Close(c) == open = c /\ open' = Nobody /\ UNCHANGED <<group, outcome>>

Members(l) == {c \in Callers : group[c] = l}

Finish(l, o) ==
    /\ l \in Members(l)
    /\ open # l
    /\ group' = [c \in Callers |-> IF c \in Members(l) THEN Nobody ELSE group[c]]
    /\ outcome' = [c \in Callers |-> IF c \in Members(l) THEN o ELSE outcome[c]]
    /\ UNCHANGED open

(* The process dies with every call in it.                                 *)
Crash == Init'

Next ==
    \/ \E c \in Callers : Lead(c) \/ Join(c) \/ Close(c)
    \/ \E l \in Callers, o \in Outcomes : Finish(l, o)
    \/ Crash

Spec == Init /\ [][Next]_vars

=============================================================================
