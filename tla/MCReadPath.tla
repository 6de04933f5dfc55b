----------------------------- MODULE MCReadPath -----------------------------
(* Small instances of ReadPath for TLC.                                    *)
EXTENDS ReadPath

Conf(passthrough, ttl, negTtl, alwaysFresh, serveStale) ==
    [passthrough |-> passthrough, ttl |-> ttl, negTtl |-> negTtl, alwaysFresh |-> alwaysFresh,
     serveStale |-> serveStale, bound |-> 1]

MCConfigs == {Conf(TRUE, 1, 1, FALSE, TRUE), Conf(TRUE, 0, 0, FALSE, TRUE),
              Conf(FALSE, 1, 1, FALSE, FALSE)}

(* At first passthrough is on with a window of one tick, and the vault     *)
(* holds an item of another title; config writes and a removal change that.*)
MCInit == Init /\ config.passthrough /\ config.ttl = 1 /\ present \ Titled # {}
MCSpec == MCInit /\ [][Next]_vars
=============================================================================
