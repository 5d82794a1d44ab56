------------------------------ MODULE MCAsyncWork ------------------------------
(* Two workers and two works over a pool of one place: a work waits in the  *)
(* queue past its deadline, one is refused, and a thread interrupted once     *)
(* runs another work.                                                         *)
EXTENDS AsyncWork

CONSTANTS w1, w2, k1, k2

MCWork == {w1, w2}
MCWorker == {k1, k2}
MCOneWorker == {k1}
MCDelay == {1, 2}
================================================================================
