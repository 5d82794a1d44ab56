------------------------------- MODULE FifoLock -------------------------------
(***************************************************************************)
(* What a queue lock promises, with no memory words in it: threads are     *)
(* granted the lock one at a time, in the order in which they took their   *)
(* place in the queue.  MCSLock implements this specification.             *)
(***************************************************************************)
EXTENDS Sequences, Naturals

CONSTANT Thread

VARIABLES
    queue,      \* the threads that have asked, oldest first; its head owns the lock
    holding     \* the threads that know they own it

fifoVars == <<queue, holding>>

Init ==
    /\ queue = <<>>
    /\ holding = {}

(* A thread takes the last place; alone in the queue it owns the lock. *)
Arrive(t) ==
    /\ \A i \in 1..Len(queue) : queue[i] # t
    /\ queue' = Append(queue, t)
    /\ holding' = IF queue = <<>> THEN {t} ELSE holding

(* The thread at the head learns that its turn has come. *)
Grant(t) ==
    /\ queue # <<>>
    /\ Head(queue) = t
    /\ holding = {}
    /\ holding' = {t}
    /\ UNCHANGED queue

(* The owner leaves; nobody holds the lock until the next head is granted it. *)
Leave(t) ==
    /\ holding = {t}
    /\ queue # <<>>
    /\ Head(queue) = t
    /\ queue' = Tail(queue)
    /\ holding' = {}

Next == \E t \in Thread : Arrive(t) \/ Grant(t) \/ Leave(t)

Spec == Init /\ [][Next]_fifoVars
=============================================================================
