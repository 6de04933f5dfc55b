------------------------------ MODULE MCUsage ------------------------------
(***************************************************************************)
(* Two tokens with a probe, at intervals of one and two ticks, and a       *)
(* configuration without one.                                              *)
(***************************************************************************)
EXTENDS Usage

CONSTANTS t1, t2

Config(interval, probe, tok) ==
    [hourlyLimit |-> 2, dailyLimit |-> 3, interval |-> interval, probeCmd |-> probe, token |-> tok]
MCConfigs == {Config(1, TRUE, t1), Config(2, TRUE, t2), Config(1, FALSE, t1)}
=============================================================================
