----------------------------- MODULE MCGovernor -----------------------------
(***************************************************************************)
(* Values of the settings a config write chooses from: a limit of one unit,*)
(* and one that a cycle overshoots; a refresh interval that cuts the second*)
(* backoff delay, and one that does not.  (Below five units the burst brake*)
(* denies nothing that the limit does not: no property is about it.)  No   *)
(* symmetry: both runs are about behaviours.                               *)
(***************************************************************************)
EXTENDS Governor

MCLimits == {1, 3}
MCIntervals == {1, 2}
=============================================================================
