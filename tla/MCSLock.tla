------------------------------- MODULE MCSLock -------------------------------
(***************************************************************************)
(* The MCS queue lock of src/mcslock.c, one action per atomic access.      *)
(*                                                                         *)
(* Every thread brings a node of its own, so a node is named by its owner. *)
(* `lock` is the tail pointer; a node has a `next` pointer and a `wait`    *)
(* flag.  The node handed to mcslock_lock is uninitialised (mcslock.h:17), *)
(* hence the arbitrary initial `next` and `wait`.                          *)
(***************************************************************************)
EXTENDS Sequences, Naturals

CONSTANTS Thread, NULL

ASSUME NullAssumption == NULL \notin Thread

MCS_PROCEED == 0
MCS_WAIT == 1

VARIABLES
    lock,       \* tail of the queue of nodes, or NULL
    next,       \* node->next
    wait,       \* node->wait
    pc,         \* where each thread is in mcslock_lock / mcslock_unlock
    prev,       \* the local `prev` of mcslock_lock
    succ,       \* the local `next` of mcslock_unlock
    queue       \* history: the nodes in the order of their exchanges on `lock`

vars == <<lock, next, wait, pc, prev, succ, queue>>

Labels == {"idle", "exchange", "setwait", "link", "spin",
           "cs", "cas", "await", "handoff"}

(* Between the exchange and the call's return the thread waits for its turn... *)
Arriving == {"setwait", "link", "spin"}
(* ...and from the return of mcslock_lock to the releasing store it owns the lock. *)
Holding == {"cs", "cas", "await", "handoff"}

TypeOK ==
    /\ lock \in Thread \cup {NULL}
    /\ next \in [Thread -> Thread \cup {NULL}]
    /\ wait \in [Thread -> {MCS_PROCEED, MCS_WAIT}]
    /\ pc \in [Thread -> Labels]
    /\ prev \in [Thread -> Thread \cup {NULL}]
    /\ succ \in [Thread -> Thread \cup {NULL}]
    /\ queue \in Seq(Thread)

Init ==
    /\ lock = NULL
    /\ next \in [Thread -> Thread \cup {NULL}]
    /\ wait \in [Thread -> {MCS_PROCEED, MCS_WAIT}]
    /\ pc = [t \in Thread |-> "idle"]
    /\ prev = [t \in Thread |-> NULL]
    /\ succ = [t \in Thread |-> NULL]
    /\ queue = <<>>

-----------------------------------------------------------------------------
(* mcslock_lock *)

LockInitNode(t) ==
    /\ pc[t] = "idle"
    /\ next' = [next EXCEPT ![t] = NULL]
    /\ pc' = [pc EXCEPT ![t] = "exchange"]
    /\ UNCHANGED <<lock, wait, prev, succ, queue>>

(* Becoming the tail and learning the previous one is a single atomic step. *)
LockExchange(t) ==
    /\ pc[t] = "exchange"
    /\ prev' = [prev EXCEPT ![t] = lock]
    /\ lock' = t
    /\ pc' = [pc EXCEPT ![t] = IF lock = NULL THEN "cs" ELSE "setwait"]
    /\ queue' = Append(queue, t)
    /\ UNCHANGED <<next, wait, succ>>

(* Mutant: the flag keeps what the uninitialised node had. *)
LockSetWaitMissing(t) ==
    /\ pc[t] = "setwait"
    /\ pc' = [pc EXCEPT ![t] = "link"]
    /\ UNCHANGED <<lock, next, wait, prev, succ, queue>>

LockSetWait(t) ==
    /\ pc[t] = "setwait"
    /\ wait' = [wait EXCEPT ![t] = MCS_WAIT]
    /\ pc' = [pc EXCEPT ![t] = "link"]
    /\ UNCHANGED <<lock, next, prev, succ, queue>>

LockLink(t) ==
    /\ pc[t] = "link"
    /\ next' = [next EXCEPT ![prev[t]] = t]
    /\ pc' = [pc EXCEPT ![t] = "spin"]
    /\ UNCHANGED <<lock, wait, prev, succ, queue>>

(* wait_until_equal_u8: the loop's last iteration. *)
LockSpin(t) ==
    /\ pc[t] = "spin"
    /\ wait[t] = MCS_PROCEED
    /\ pc' = [pc EXCEPT ![t] = "cs"]
    /\ UNCHANGED <<lock, next, wait, prev, succ, queue>>

-----------------------------------------------------------------------------
(* mcslock_unlock *)

UnlockLoadNext(t) ==
    /\ pc[t] = "cs"
    /\ succ' = [succ EXCEPT ![t] = next[t]]
    /\ pc' = [pc EXCEPT ![t] = IF next[t] = NULL THEN "cas" ELSE "handoff"]
    /\ UNCHANGED <<lock, next, wait, prev, queue>>

(* Mutant: the tail is cleared without a comparison. *)
UnlockStoreNull(t) ==
    /\ pc[t] = "cas"
    /\ lock' = NULL
    /\ pc' = [pc EXCEPT ![t] = "idle"]
    /\ queue' = Tail(queue)
    /\ UNCHANGED <<next, wait, prev, succ>>

(* Mutant: an owner that loses the CAS leaves without handing over. *)
UnlockCasAndLeave(t) ==
    /\ pc[t] = "cas"
    /\ lock' = IF lock = t THEN NULL ELSE lock
    /\ pc' = [pc EXCEPT ![t] = "idle"]
    /\ queue' = Tail(queue)
    /\ UNCHANGED <<next, wait, prev, succ>>

UnlockCas(t) ==
    /\ pc[t] = "cas"
    /\ IF lock = t
       THEN /\ lock' = NULL
            /\ pc' = [pc EXCEPT ![t] = "idle"]
            /\ queue' = Tail(queue)
       ELSE /\ pc' = [pc EXCEPT ![t] = "await"]
            /\ UNCHANGED <<lock, queue>>
    /\ UNCHANGED <<next, wait, prev, succ>>

(* A successor has exchanged itself in but not linked itself yet. *)
UnlockAwaitLink(t) ==
    /\ pc[t] = "await"
    /\ next[t] # NULL
    /\ succ' = [succ EXCEPT ![t] = next[t]]
    /\ pc' = [pc EXCEPT ![t] = "handoff"]
    /\ UNCHANGED <<lock, next, wait, prev, queue>>

UnlockHandOff(t) ==
    /\ pc[t] = "handoff"
    /\ wait' = [wait EXCEPT ![succ[t]] = MCS_PROCEED]
    /\ pc' = [pc EXCEPT ![t] = "idle"]
    /\ queue' = Tail(queue)
    /\ UNCHANGED <<lock, next, prev, succ>>

-----------------------------------------------------------------------------
(* The steps of a call once it has begun, and of the owner leaving. *)
Step(t) ==
    \/ LockExchange(t) \/ LockSetWait(t) \/ LockLink(t) \/ LockSpin(t)
    \/ UnlockLoadNext(t) \/ UnlockCas(t) \/ UnlockAwaitLink(t) \/ UnlockHandOff(t)

Next == \E t \in Thread : LockInitNode(t) \/ Step(t)

Spec == Init /\ [][Next]_vars

(* A thread inside a call keeps running and an owner unlocks in the end;  *)
(* nobody is obliged to ask for the lock.                                  *)
FairSpec == Spec /\ \A t \in Thread : WF_vars(Step(t))

-----------------------------------------------------------------------------
(* No two threads are between the return of mcslock_lock and the store of  *)
(* mcslock_unlock that releases the lock.                                  *)
MutualExclusion ==
    \A t, u \in Thread : pc[t] \in Holding /\ pc[u] \in Holding => t = u

(* The inductive strengthening.  The tail pointer is the last node that    *)
(* exchanged, the nodes of the queue are distinct and are those of the     *)
(* threads in the calls.                                                   *)
QueueInv ==
    /\ lock = IF queue = <<>> THEN NULL ELSE queue[Len(queue)]
    /\ \A i, j \in 1..Len(queue) : queue[i] = queue[j] => i = j
    /\ \A t \in Thread :
          pc[t] \in Arriving \cup Holding <=> \E i \in 1..Len(queue) : queue[i] = t

(* Each node is linked to the one behind it exactly when that one has made *)
(* its link, and the last node is linked to nothing: the owner that loads  *)
(* a NULL next and loses the CAS will see the link appear.                 *)
LinkInv ==
    /\ \A t \in Thread : pc[t] = "exchange" => next[t] = NULL
    /\ queue # <<>> => next[queue[Len(queue)]] = NULL
    /\ \A i \in 1..Len(queue) - 1 :
          /\ pc[queue[i + 1]] \in {"setwait", "link"} =>
                /\ prev[queue[i + 1]] = queue[i]
                /\ next[queue[i]] = NULL
          /\ pc[queue[i + 1]] = "spin" => next[queue[i]] = queue[i + 1]

(* Only the first thread of the queue can own the lock, and every other is *)
(* held back by its own flag until its predecessor hands the lock over.    *)
TurnInv ==
    /\ queue # <<>> =>
          \/ pc[queue[1]] \in Holding
          \/ pc[queue[1]] = "spin" /\ wait[queue[1]] = MCS_PROCEED
    /\ \A i \in 2..Len(queue) :
          /\ pc[queue[i]] \in Arriving
          /\ pc[queue[i]] \in {"link", "spin"} => wait[queue[i]] = MCS_WAIT
    /\ \A t \in Thread :
          /\ pc[t] = "await" => Len(queue) > 1
          /\ pc[t] = "handoff" => /\ Len(queue) > 1
                                  /\ pc[queue[2]] = "spin"
                                  /\ succ[t] = queue[2]

IInv == TypeOK /\ QueueInv /\ LinkInv /\ TurnInv

(* The abstract lock that this one implements: threads get it in the order *)
(* of their exchanges.                                                     *)
Fifo == INSTANCE FifoLock WITH holding <- {t \in Thread : pc[t] \in Holding}

ImplementsFifoLock == Fifo!Spec

(* Every thread that has begun mcslock_lock gets the lock. *)
NoStarvation == \A t \in Thread : pc[t] = "exchange" ~> pc[t] = "cs"
=============================================================================
