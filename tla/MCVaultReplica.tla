--------------------------- MODULE MCVaultReplica ---------------------------
(* Small instances of VaultReplica for TLC.  The runs check behaviours, so *)
(* no symmetry is taken.                                                   *)
EXTENDS VaultReplica
=============================================================================
