------------------------------ MODULE MCEngine ------------------------------
(***************************************************************************)
(* One config writer and one request beside the timer.                     *)
(***************************************************************************)
EXTENDS Engine, TLC

Symmetry == Permutations(Vaults) \cup Permutations(Tokens) \cup Permutations(Writers)
=============================================================================
