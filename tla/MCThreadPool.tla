---------------------------- MODULE MCThreadPool -----------------------------
(* Two workers and three callers over a limit of one, so that the pool is    *)
(* full, the list outgrows the limit and a caller is turned away.            *)
EXTENDS ThreadPool

CONSTANTS w1, w2, q1, q2, q3

MCWorker == {w1, w2}
MCRequest == {q1, q2, q3}
=============================================================================
