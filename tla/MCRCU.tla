-------------------------------- MODULE MCRCU --------------------------------
(* Two readers, so that one can join while the other rewrites its word, one *)
(* updater and two updates, so that one index can go stale.                 *)
EXTENDS RCU

CONSTANTS r1, r2, u1

MCReader == {r1, r2}
MCUpdater == {u1}
=============================================================================
