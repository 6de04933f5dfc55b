----------------------------- MODULE ConfigStore -----------------------------
(***************************************************************************)
(* What a write of op/config promises (backend/config.go applyConfig,      *)
(* backend.go loadPersistedConfig): it is kept in storage before it takes  *)
(* effect; it is answered with success when it is both; one that is        *)
(* refused leaves no trace; and a process that dies, in the middle of any  *)
(* number of writes, comes back with what is kept, or with nothing when    *)
(* storage cannot be read.                                                 *)
(***************************************************************************)
CONSTANTS Writers, Configs, None

VARIABLES
    stored,     \* the configuration in storage, or None
    inForce,    \* the one the engine works with, or None
    call        \* writer -> Out, or how far its write has got

vars == <<stored, inForce, call>>

Out == [phase |-> "out"]

Init ==
    /\ stored = None
    /\ inForce = None
    /\ call = [w \in Writers |-> Out]

At(w, phase) == call[w].phase = phase
Moves(w, phase) == call' = [call EXCEPT ![w].phase = phase]
Returns(w) == call' = [call EXCEPT ![w] = Out]

Asks(w, c) ==
    /\ call[w] = Out
    /\ call' = [call EXCEPT ![w] = [phase |-> "asked", cfg |-> c]]
    /\ UNCHANGED <<stored, inForce>>

IsRefused(w) == At(w, "asked") /\ Returns(w) /\ UNCHANGED <<stored, inForce>>

IsKept(w) == At(w, "asked") /\ stored' = call[w].cfg /\ Moves(w, "kept") /\ UNCHANGED inForce

TakesEffect(w) == At(w, "kept") /\ inForce' = call[w].cfg /\ Moves(w, "effective") /\ UNCHANGED stored

Succeeds(w) == At(w, "effective") /\ Returns(w) /\ UNCHANGED <<stored, inForce>>

Dies ==
    /\ inForce' \in {stored, None}
    /\ call' = [w \in Writers |-> Out]
    /\ UNCHANGED stored

Next ==
    \/ \E w \in Writers :
           (\E c \in Configs : Asks(w, c)) \/ IsRefused(w) \/ IsKept(w) \/ TakesEffect(w) \/ Succeeds(w)
    \/ Dies

Spec == Init /\ [][Next]_vars
=============================================================================
