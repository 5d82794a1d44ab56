---------------------------- MODULE Locks_proofs ----------------------------
(***************************************************************************)
(* Proofs about MCSLock for every set of threads: type correctness, mutual *)
(* exclusion, and the implementation of FifoLock.  Proofs about RCU for    *)
(* every number of readers, updaters, updates and joins: the inductive     *)
(* invariant RcuInv and what a grace period protects.                      *)
(***************************************************************************)
EXTENDS MCSLock, RCU, SeqLemmas

LEMMA InitIInv == Init => IInv
  <1> SUFFICES ASSUME Init PROVE IInv
    OBVIOUS
  <1>1. Len(queue) = 0
    BY EmptySeq DEF Init
  <1>2. TypeOK
    BY EmptySeq DEF Init, TypeOK, Labels
  <1>3. QueueInv /\ LinkInv /\ TurnInv
    BY <1>1 DEF Init, QueueInv, LinkInv, TurnInv, Arriving, Holding
  <1> QED
    BY <1>2, <1>3 DEF IInv

(* Consequences of the invariant used by most steps: a thread in the calls *)
(* has one place in the queue, and one that owns the lock has the first.   *)
LEMMA Places ==
    ASSUME IInv
    PROVE  /\ Len(queue) \in Nat
           /\ queue = <<>> <=> Len(queue) = 0
           /\ \A i \in 1..Len(queue) : queue[i] \in Thread
           /\ \A t \in Thread : pc[t] \in Holding => queue # <<>> /\ queue[1] = t
           /\ \A t \in Thread : pc[t] \in {"setwait", "link"} =>
                 \E i \in 2..Len(queue) : queue[i] = t
           /\ \A t \in Thread : pc[t] = "spin" => \E i \in 1..Len(queue) : queue[i] = t
  <1>1. /\ Len(queue) \in Nat
        /\ queue = <<>> <=> Len(queue) = 0
        /\ \A i \in 1..Len(queue) : queue[i] \in Thread
    BY QueuePlaces DEF IInv, TypeOK
  <1>2. ASSUME NEW t \in Thread, pc[t] \in Arriving \cup Holding
        PROVE  \E i \in 1..Len(queue) : queue[i] = t
    BY <1>2 DEF IInv, QueueInv
  <1>3. ASSUME NEW t \in Thread, pc[t] \in Holding
        PROVE  queue # <<>> /\ queue[1] = t
    <2>1. PICK i \in 1..Len(queue) : queue[i] = t
      BY <1>2, <1>3
    <2>2. i \notin 2..Len(queue)
      BY <2>1, <1>3 DEF IInv, TurnInv, Arriving, Holding
    <2> QED
      BY <1>1, <2>1, <2>2
  <1>4. ASSUME NEW t \in Thread, pc[t] \in {"setwait", "link"}
        PROVE  \E i \in 2..Len(queue) : queue[i] = t
    <2>1. PICK i \in 1..Len(queue) : queue[i] = t
      BY <1>2, <1>4 DEF Arriving
    <2>2. i # 1
      BY <2>1, <1>1, <1>4 DEF IInv, TurnInv, Holding
    <2> QED
      BY <1>1, <2>1, <2>2
  <1>5. \A t \in Thread : pc[t] = "spin" => \E i \in 1..Len(queue) : queue[i] = t
    BY <1>2 DEF Arriving
  <1> QED
    BY <1>1, <1>3, <1>4, <1>5

LEMMA LockInitNodeIInv ==
    ASSUME IInv, NEW t \in Thread, LockInitNode(t) PROVE IInv'
  <1>1. \A i \in 1..Len(queue) : queue[i] # t
    BY DEF IInv, QueueInv, LockInitNode, Arriving, Holding
  <1>2. TypeOK'
    BY DEF IInv, TypeOK, LockInitNode, Labels
  <1>3. QueueInv'
    BY <1>1 DEF IInv, TypeOK, QueueInv, LockInitNode, Arriving, Holding
  <1>4. LinkInv'
    BY <1>1, Places DEF IInv, TypeOK, LinkInv, LockInitNode
  <1>5. TurnInv'
    BY <1>1, Places DEF IInv, TypeOK, TurnInv, LockInitNode, Arriving, Holding
  <1> QED
    BY <1>2, <1>3, <1>4, <1>5 DEF IInv

LEMMA LockExchangeIInv ==
    ASSUME IInv, NEW t \in Thread, LockExchange(t) PROVE IInv'
  <1>1. \A i \in 1..Len(queue) : queue[i] # t
    BY DEF IInv, QueueInv, LockExchange, Arriving, Holding
  <1>2. /\ queue' \in Seq(Thread)
        /\ queue' # <<>>
        /\ Len(queue') = Len(queue) + 1
        /\ \A i \in 1..Len(queue) : queue'[i] = queue[i]
        /\ queue'[Len(queue) + 1] = t
    BY AppendPlaces DEF IInv, TypeOK, LockExchange
  <1>3. TypeOK'
    BY <1>2 DEF IInv, TypeOK, LockExchange, Labels
  <1>4. QueueInv'
    BY <1>1, <1>2, Places, NullAssumption
       DEF IInv, TypeOK, QueueInv, LockExchange, Arriving, Holding
  <1>5. LinkInv'
    BY <1>1, <1>2, Places, NullAssumption DEF IInv, TypeOK, QueueInv, LinkInv, LockExchange
  <1>6. TurnInv'
    BY <1>1, <1>2, Places, NullAssumption
       DEF IInv, TypeOK, QueueInv, TurnInv, LockExchange, Arriving, Holding
  <1> QED
    BY <1>3, <1>4, <1>5, <1>6 DEF IInv

LEMMA LockSetWaitIInv ==
    ASSUME IInv, NEW t \in Thread, LockSetWait(t) PROVE IInv'
  <1>1. TypeOK'
    BY DEF IInv, TypeOK, LockSetWait, Labels, MCS_WAIT
  <1>2. QueueInv'
    BY DEF IInv, TypeOK, QueueInv, LockSetWait, Arriving, Holding
  <1>3. LinkInv'
    BY Places DEF IInv, TypeOK, LinkInv, LockSetWait
  <1>4. TurnInv'
    BY Places DEF IInv, TypeOK, TurnInv, LockSetWait, Arriving, Holding
  <1> QED
    BY <1>1, <1>2, <1>3, <1>4 DEF IInv

LEMMA LockLinkIInv ==
    ASSUME IInv, NEW t \in Thread, LockLink(t) PROVE IInv'
  <1>1. PICK k \in 2..Len(queue) : queue[k] = t
    BY Places DEF LockLink
  <1>2. /\ k - 1 \in 1..Len(queue) - 1
        /\ prev[t] = queue[k - 1]
    BY <1>1, Places DEF IInv, LinkInv, LockLink
  <1>3. \A i \in 1..Len(queue) : queue[i] = queue[k - 1] => i = k - 1
    BY <1>2, Places DEF IInv, QueueInv
  <1>4. \A i \in 1..Len(queue) : queue[i] = t => i = k
    BY <1>1, Places DEF IInv, QueueInv
  <1>5. TypeOK'
    BY DEF IInv, TypeOK, LockLink, Labels
  <1>6. QueueInv'
    BY DEF IInv, TypeOK, QueueInv, LockLink, Arriving, Holding
  <1>7. LinkInv'
    <2>1. \A u \in Thread : pc'[u] = "exchange" => next'[u] = NULL
      <3>1. pc[queue[k - 1]] \in Arriving \cup Holding
        BY <1>2, Places DEF IInv, QueueInv
      <3>2. pc[prev[t]] # "exchange"
        BY <3>1, <1>2 DEF Arriving, Holding
      <3> QED
        BY <3>2 DEF IInv, TypeOK, LinkInv, LockLink
    <2>2. queue' # <<>> => next'[queue'[Len(queue')]] = NULL
      BY <1>2, <1>3, Places DEF IInv, TypeOK, LinkInv, LockLink
    <2>3. ASSUME NEW i \in 1..Len(queue) - 1
          PROVE  /\ pc'[queue[i + 1]] \in {"setwait", "link"} =>
                       /\ prev[queue[i + 1]] = queue[i]
                       /\ next'[queue[i]] = NULL
                 /\ pc'[queue[i + 1]] = "spin" => next'[queue[i]] = queue[i + 1]
      <3>1. CASE i = k - 1
        BY <3>1, <1>1, <1>2, Places DEF IInv, TypeOK, LinkInv, LockLink
      <3>2. CASE i # k - 1
        <4>1. queue[i] # prev[t] /\ queue[i + 1] # t
          BY <3>2, <1>2, <1>3, <1>4, Places
        <4> QED
          BY SMTT(30), <4>1, Places DEF IInv, TypeOK, LinkInv, LockLink
      <3> QED
        BY <3>1, <3>2
    <2> QED
      BY <2>1, <2>2, <2>3 DEF LinkInv, LockLink
  <1>8. TurnInv'
    BY <1>1, <1>4, Places DEF IInv, TypeOK, TurnInv, LockLink, Arriving, Holding
  <1> QED
    BY <1>5, <1>6, <1>7, <1>8 DEF IInv

LEMMA LockSpinIInv ==
    ASSUME IInv, NEW t \in Thread, LockSpin(t) PROVE IInv'
  <1>1. queue # <<>> /\ queue[1] = t
    BY Places DEF IInv, TurnInv, LockSpin, MCS_PROCEED, MCS_WAIT
  <1>2. TypeOK'
    BY DEF IInv, TypeOK, LockSpin, Labels
  <1>3. QueueInv'
    BY DEF IInv, TypeOK, QueueInv, LockSpin, Arriving, Holding
  <1>4. LinkInv'
    BY <1>1, Places DEF IInv, TypeOK, LinkInv, LockSpin
  <1>5. TurnInv'
    BY <1>1, Places DEF IInv, TypeOK, QueueInv, TurnInv, LockSpin, Arriving, Holding,
                        MCS_PROCEED, MCS_WAIT
  <1> QED
    BY <1>2, <1>3, <1>4, <1>5 DEF IInv

LEMMA UnlockLoadNextIInv ==
    ASSUME IInv, NEW t \in Thread, UnlockLoadNext(t) PROVE IInv'
  <1>1. queue # <<>> /\ queue[1] = t
    BY Places DEF UnlockLoadNext, Holding
  <1>2. next[t] # NULL => Len(queue) > 1 /\ pc[queue[2]] = "spin" /\ next[t] = queue[2]
    <2>1. SUFFICES ASSUME next[t] # NULL
                   PROVE  Len(queue) > 1 /\ pc[queue[2]] = "spin" /\ next[t] = queue[2]
      OBVIOUS
    <2>2. Len(queue) > 1
      BY <1>1, <2>1, Places DEF IInv, LinkInv
    <2>3. pc[queue[2]] \in Arriving
      BY <2>2, Places DEF IInv, TurnInv
    <2> QED
      BY <1>1, <2>1, <2>2, <2>3, Places DEF IInv, LinkInv, Arriving
  <1>3. TypeOK'
    BY DEF IInv, TypeOK, UnlockLoadNext, Labels
  <1>4. QueueInv'
    BY DEF IInv, TypeOK, QueueInv, UnlockLoadNext, Arriving, Holding
  <1>5. LinkInv'
    BY <1>1, Places DEF IInv, TypeOK, LinkInv, UnlockLoadNext
  <1>6. TurnInv'
    BY <1>1, <1>2, Places DEF IInv, TypeOK, QueueInv, TurnInv, UnlockLoadNext, Arriving, Holding
  <1> QED
    BY <1>3, <1>4, <1>5, <1>6 DEF IInv

LEMMA UnlockCasIInv ==
    ASSUME IInv, NEW t \in Thread, UnlockCas(t) PROVE IInv'
  <1>1. queue # <<>> /\ queue[1] = t
    BY Places DEF UnlockCas, Holding
  <1>2. lock = queue[Len(queue)]
    BY <1>1 DEF IInv, QueueInv
  <1>3. CASE lock = t
    <2>1. Len(queue) = 1
      <3>1. 1 \in 1..Len(queue) /\ Len(queue) \in 1..Len(queue)
        BY <1>1, Places
      <3>2. queue[1] = queue[Len(queue)] => 1 = Len(queue)
        BY <3>1 DEF IInv, QueueInv
      <3> QED
        BY <1>1, <1>2, <1>3, <3>2
    <2>2. queue' \in Seq(Thread) /\ Len(queue') = 0 /\ queue' = <<>>
      BY <1>1, <1>3, <2>1, TailPlaces DEF IInv, TypeOK, UnlockCas
    <2>3. \A u \in Thread : u # t => pc[u] \notin Arriving \cup Holding
      BY <1>1, <2>1, Places DEF IInv, QueueInv
    <2>4. TypeOK'
      BY <1>3, <2>2 DEF IInv, TypeOK, UnlockCas, Labels
    <2>5. QueueInv'
      BY <1>3, <2>2, <2>3 DEF IInv, TypeOK, QueueInv, UnlockCas, Arriving, Holding
    <2>6. LinkInv'
      BY <1>3, <2>2 DEF IInv, TypeOK, LinkInv, UnlockCas
    <2>7. TurnInv'
      BY <1>3, <2>2, <2>3 DEF IInv, TypeOK, TurnInv, UnlockCas, Arriving, Holding
    <2> QED
      BY <2>4, <2>5, <2>6, <2>7 DEF IInv
  <1>4. CASE lock # t
    <2>1. Len(queue) > 1
      BY <1>1, <1>2, <1>4, Places
    <2>2. TypeOK'
      BY <1>4 DEF IInv, TypeOK, UnlockCas, Labels
    <2>3. QueueInv'
      BY <1>4 DEF IInv, TypeOK, QueueInv, UnlockCas, Arriving, Holding
    <2>4. LinkInv'
      BY <1>1, <1>4, Places DEF IInv, TypeOK, LinkInv, UnlockCas
    <2>5. TurnInv'
      BY <1>1, <1>4, <2>1, Places DEF IInv, TypeOK, QueueInv, TurnInv, UnlockCas, Arriving, Holding
    <2> QED
      BY <2>2, <2>3, <2>4, <2>5 DEF IInv
  <1> QED
    BY <1>3, <1>4

LEMMA UnlockAwaitLinkIInv ==
    ASSUME IInv, NEW t \in Thread, UnlockAwaitLink(t) PROVE IInv'
  <1>1. queue # <<>> /\ queue[1] = t
    BY Places DEF UnlockAwaitLink, Holding
  <1>2. Len(queue) > 1 /\ pc[queue[2]] = "spin" /\ next[t] = queue[2]
    <2>1. Len(queue) > 1
      BY DEF IInv, TurnInv, UnlockAwaitLink
    <2>2. pc[queue[2]] \in Arriving
      BY <2>1, Places DEF IInv, TurnInv
    <2> QED
      BY <1>1, <2>1, <2>2, Places DEF IInv, LinkInv, Arriving, UnlockAwaitLink
  <1>3. TypeOK'
    BY DEF IInv, TypeOK, UnlockAwaitLink, Labels
  <1>4. QueueInv'
    BY DEF IInv, TypeOK, QueueInv, UnlockAwaitLink, Arriving, Holding
  <1>5. LinkInv'
    BY <1>1, Places DEF IInv, TypeOK, LinkInv, UnlockAwaitLink
  <1>6. TurnInv'
    BY <1>1, <1>2, Places DEF IInv, TypeOK, QueueInv, TurnInv, UnlockAwaitLink, Arriving, Holding
  <1> QED
    BY <1>3, <1>4, <1>5, <1>6 DEF IInv

LEMMA UnlockHandOffIInv ==
    ASSUME IInv, NEW t \in Thread, UnlockHandOff(t) PROVE IInv'
  <1>1. queue # <<>> /\ queue[1] = t
    BY Places DEF UnlockHandOff, Holding
  <1>2. Len(queue) > 1 /\ pc[queue[2]] = "spin" /\ succ[t] = queue[2]
    BY DEF IInv, TurnInv, UnlockHandOff
  <1>3. /\ queue' \in Seq(Thread)
        /\ queue' # <<>>
        /\ Len(queue') = Len(queue) - 1
        /\ \A i \in 1..Len(queue) - 1 : queue'[i] = queue[i + 1]
    BY <1>1, <1>2, TailPlaces DEF IInv, TypeOK, UnlockHandOff
  <1>4. \A i \in 2..Len(queue) : queue[i] # t
    BY <1>1, Places DEF IInv, QueueInv
  <1>5. TypeOK'
    BY <1>3 DEF IInv, TypeOK, UnlockHandOff, Labels, MCS_PROCEED, MCS_WAIT
  <1>6. QueueInv'
    <2>1. lock' = queue'[Len(queue')]
      BY <1>1, <1>2, <1>3, Places DEF IInv, QueueInv, UnlockHandOff
    <2>2. \A i, j \in 1..Len(queue') : queue'[i] = queue'[j] => i = j
      <3> SUFFICES ASSUME NEW i \in 1..Len(queue'), NEW j \in 1..Len(queue'),
                          queue'[i] = queue'[j]
                   PROVE  i = j
        OBVIOUS
      <3>1. /\ i + 1 \in 1..Len(queue) /\ j + 1 \in 1..Len(queue)
            /\ queue[i + 1] = queue[j + 1]
        BY <1>3, Places
      <3> QED
        BY <3>1 DEF IInv, QueueInv
    <2>3. ASSUME NEW u \in Thread
          PROVE  pc'[u] \in Arriving \cup Holding <=> \E i \in 1..Len(queue') : queue'[i] = u
      <3>1. CASE u = t
        <4>1. pc'[u] \notin Arriving \cup Holding
          BY <3>1 DEF IInv, TypeOK, UnlockHandOff, Arriving, Holding
        <4>2. \A i \in 1..Len(queue') : queue'[i] # u
          BY <3>1, <1>3, <1>4, Places
        <4> QED
          BY <4>1, <4>2
      <3>2. CASE u # t
        <4>1. pc'[u] = pc[u]
          BY <3>2 DEF IInv, TypeOK, UnlockHandOff
        <4>2. (\E i \in 1..Len(queue') : queue'[i] = u) <=>
              (\E i \in 1..Len(queue) : queue[i] = u)
          <5>1. ASSUME NEW i \in 1..Len(queue), queue[i] = u
                PROVE  \E j \in 1..Len(queue') : queue'[j] = u
            <6>1. i - 1 \in 1..Len(queue') /\ queue'[i - 1] = u
              BY <5>1, <3>2, <1>1, <1>3, Places
            <6> QED
              BY <6>1
          <5>2. ASSUME NEW j \in 1..Len(queue'), queue'[j] = u
                PROVE  \E i \in 1..Len(queue) : queue[i] = u
            <6>1. j + 1 \in 1..Len(queue) /\ queue[j + 1] = u
              BY <5>2, <1>3, Places
            <6> QED
              BY <6>1
          <5> QED
            BY <5>1, <5>2
        <4> QED
          BY <4>1, <4>2 DEF IInv, QueueInv
      <3> QED
        BY <3>1, <3>2
    <2> QED
      BY <1>3, <2>1, <2>2, <2>3 DEF QueueInv
  <1>7. LinkInv'
    <2>1. \A u \in Thread : pc'[u] = "exchange" => next'[u] = NULL
      BY DEF IInv, TypeOK, LinkInv, UnlockHandOff
    <2>2. next'[queue'[Len(queue')]] = NULL
      BY <1>1, <1>2, <1>3, Places DEF IInv, LinkInv, UnlockHandOff
    <2>3. ASSUME NEW i \in 1..Len(queue') - 1
          PROVE  /\ pc'[queue'[i + 1]] \in {"setwait", "link"} =>
                       /\ prev'[queue'[i + 1]] = queue'[i]
                       /\ next'[queue'[i]] = NULL
                 /\ pc'[queue'[i + 1]] = "spin" => next'[queue'[i]] = queue'[i + 1]
      <3>1. /\ i + 1 \in 1..Len(queue) - 1
            /\ queue'[i] = queue[i + 1]
            /\ queue'[i + 1] = queue[(i + 1) + 1]
            /\ queue[(i + 1) + 1] # t
            /\ queue[(i + 1) + 1] \in Thread
        BY <1>3, <1>4, Places
      <3>2. pc'[queue'[i + 1]] = pc[queue[(i + 1) + 1]]
        BY <3>1 DEF IInv, TypeOK, UnlockHandOff
      <3> QED
        BY <3>1, <3>2 DEF IInv, LinkInv, UnlockHandOff
    <2> QED
      BY <2>1, <2>2, <2>3 DEF LinkInv
  <1>8. TurnInv'
    <2>1. queue'[1] = queue[2] /\ queue[2] # t /\ queue[2] \in Thread
      BY <1>2, <1>3, <1>4, Places
    <2>2. pc'[queue'[1]] = "spin" /\ wait'[queue'[1]] = MCS_PROCEED
      BY <1>2, <2>1 DEF IInv, TypeOK, UnlockHandOff
    <2>3. ASSUME NEW i \in 2..Len(queue')
          PROVE  /\ pc'[queue'[i]] \in Arriving
                 /\ pc'[queue'[i]] \in {"link", "spin"} => wait'[queue'[i]] = MCS_WAIT
      <3>1. Len(queue) \in Nat /\ \A k \in 1..Len(queue) : queue[k] \in Thread
        BY Places
      <3>2. i + 1 \in 2..Len(queue) /\ i + 1 # 2 /\ queue'[i] = queue[i + 1]
        BY <1>3, <3>1
      <3>3. queue[i + 1] # t /\ queue[i + 1] \in Thread
        BY <1>4, <3>1, <3>2
      <3>4. queue[i + 1] # queue[2]
        BY <1>2, <3>1, <3>2 DEF IInv, QueueInv
      <3>5. pc'[queue'[i]] = pc[queue[i + 1]] /\ wait'[queue'[i]] = wait[queue[i + 1]]
        BY <1>2, <3>2, <3>3, <3>4 DEF IInv, TypeOK, UnlockHandOff
      <3> QED
        BY <3>2, <3>5 DEF IInv, TurnInv
    <2>4. \A u \in Thread : pc'[u] \notin {"await", "handoff"}
      <3>1. ASSUME NEW u \in Thread, u # t PROVE pc[u] \notin Holding
        BY <1>1, <3>1, Places
      <3> QED
        BY <3>1 DEF IInv, TypeOK, UnlockHandOff, Holding
    <2> QED
      BY <2>2, <2>3, <2>4 DEF TurnInv
  <1> QED
    BY <1>5, <1>6, <1>7, <1>8 DEF IInv

-----------------------------------------------------------------------------
(* The strengthened invariant holds in every reachable state. *)
THEOREM Inductive == Spec => []IInv
  <1>1. IInv /\ [Next]_vars => IInv'
    <2> SUFFICES ASSUME IInv, [Next]_vars PROVE IInv'
      OBVIOUS
    <2>1. CASE UNCHANGED vars
      BY <2>1 DEF IInv, TypeOK, QueueInv, LinkInv, TurnInv, vars
    <2>2. ASSUME NEW t \in Thread, LockInitNode(t) \/ Step(t) PROVE IInv'
      BY <2>2, LockInitNodeIInv, LockExchangeIInv, LockSetWaitIInv, LockLinkIInv, LockSpinIInv,
         UnlockLoadNextIInv, UnlockCasIInv, UnlockAwaitLinkIInv, UnlockHandOffIInv DEF Step
    <2> QED
      BY <2>1, <2>2 DEF Next
  <1> QED
    BY InitIInv, <1>1, PTL DEF Spec

(* Type correctness: the words of the lock only ever hold nodes or NULL. *)
THEOREM TypeCorrect == Spec => []TypeOK
  BY Inductive, PTL DEF IInv

LEMMA HoldersAgree == IInv => MutualExclusion
  BY Places DEF MutualExclusion

(* Mutual exclusion of mcslock_lock .. mcslock_unlock for every set of threads. *)
THEOREM Exclusive == Spec => []MutualExclusion
  BY Inductive, HoldersAgree, PTL

-----------------------------------------------------------------------------
(* Every step of the code is a step of the abstract queue lock or changes  *)
(* nothing it can see.                                                     *)
HoldingSet == {t \in Thread : pc[t] \in Holding}

LEMMA StepRefines ==
    ASSUME IInv, [Next]_vars PROVE [Fifo!Next]_<<queue, HoldingSet>>
  <1> USE DEF HoldingSet
  <1>1. CASE UNCHANGED vars
    BY <1>1 DEF vars
  <1>2. ASSUME NEW t \in Thread, LockInitNode(t) \/ LockSetWait(t) \/ LockLink(t)
                                 \/ UnlockLoadNext(t) \/ UnlockAwaitLink(t)
        PROVE  UNCHANGED <<queue, HoldingSet>>
    BY <1>2 DEF IInv, TypeOK, Holding, LockInitNode, LockSetWait, LockLink,
                UnlockLoadNext, UnlockAwaitLink
  <1>3. ASSUME NEW t \in Thread, LockExchange(t) PROVE Fifo!Arrive(t)
    <2>1. \A i \in 1..Len(queue) : queue[i] # t
      BY <1>3 DEF IInv, QueueInv, LockExchange, Arriving, Holding
    <2>2. lock = NULL <=> queue = <<>>
      BY Places, NullAssumption DEF IInv, QueueInv
    <2>3. queue = <<>> => HoldingSet = {}
      BY Places
    <2>4. HoldingSet' = IF queue = <<>> THEN {t} ELSE HoldingSet
      BY <1>3, <2>2, <2>3 DEF IInv, TypeOK, LockExchange, Holding
    <2> QED
      BY <1>3, <2>1, <2>4 DEF Fifo!Arrive, LockExchange
  <1>4. ASSUME NEW t \in Thread, LockSpin(t) PROVE Fifo!Grant(t)
    <2>1. queue # <<>> /\ queue[1] = t
      BY <1>4, Places DEF IInv, TurnInv, LockSpin, MCS_PROCEED, MCS_WAIT
    <2>2. HoldingSet = {}
      BY <1>4, <2>1, Places DEF LockSpin, Holding
    <2>3. HoldingSet' = {t}
      BY <1>4, <2>2 DEF IInv, TypeOK, LockSpin, Holding
    <2>4. Head(queue) = t
      BY <2>1, TailPlaces DEF IInv, TypeOK
    <2> QED
      BY <1>4, <2>1, <2>2, <2>3, <2>4 DEF Fifo!Grant, LockSpin
  <1>5. ASSUME NEW t \in Thread, UnlockCas(t) \/ UnlockHandOff(t)
        PROVE  Fifo!Leave(t) \/ UNCHANGED <<queue, HoldingSet>>
    <2>1. queue # <<>> /\ queue[1] = t
      BY <1>5, Places DEF UnlockCas, UnlockHandOff, Holding
    <2>2. HoldingSet = {t}
      BY <1>5, <2>1, Places DEF UnlockCas, UnlockHandOff, Holding
    <2>3. Head(queue) = t
      BY <2>1, TailPlaces DEF IInv, TypeOK
    <2>4. CASE pc[t] = "cas" /\ lock # t
      BY <1>5, <2>4 DEF IInv, TypeOK, UnlockCas, UnlockHandOff, Holding
    <2>5. CASE pc[t] = "handoff" \/ lock = t
      <3>1. queue' = Tail(queue) /\ pc' = [pc EXCEPT ![t] = "idle"]
        BY <1>5, <2>5 DEF UnlockCas, UnlockHandOff
      <3>2. HoldingSet' = {}
        BY <2>2, <3>1 DEF IInv, TypeOK, Holding
      <3> QED
        BY <2>1, <2>2, <2>3, <3>1, <3>2 DEF Fifo!Leave
    <2> QED
      BY <1>5, <2>4, <2>5 DEF UnlockCas, UnlockHandOff
  <1> QED
    BY <1>1, <1>2, <1>3, <1>4, <1>5 DEF Next, Step, Fifo!Next

(* The code implements FifoLock: the lock is granted in the order of the exchanges. *)
THEOREM Implements == Spec => ImplementsFifoLock
  <1>1. Init => Fifo!Init
    BY DEF Init, Fifo!Init, Holding
  <1>2. IInv /\ [Next]_vars => [Fifo!Next]_<<queue, HoldingSet>>
    BY StepRefines
  <1> QED
    BY <1>1, <1>2, Inductive, PTL DEF Spec, ImplementsFifoLock, Fifo!Spec, Fifo!fifoVars, HoldingSet

-----------------------------------------------------------------------------
(* The read-copy-update scheme. *)

LEMMA RcuTypeStep ==
    ASSUME RcuAssumption, RcuInv, RcuNext PROVE RcuTypeOK'
  <1> USE DEF Go, listVars, readVars, objVars, RcuAssumption, RcuInv, RcuTypeOK, Caller,
     ReaderLabel, UpdaterLabel, Version
  <1>1. ASSUME NEW r \in Reader, AddLock(r) PROVE RcuTypeOK'
    BY <1>1 DEF AddLock
  <1>2. ASSUME NEW r \in Reader, AddFind(r) PROVE RcuTypeOK'
    <2>1. Linked \subseteq Reader
      BY DEF Linked, ReachFrom
    <2>2. word[r].next \in Reader \cup {Nil} /\ EmptyWord \in Word
      BY DEF Word, EmptyWord
    <2>3. CASE r \in Linked
      BY <1>2, <2>3 DEF AddFind
    <2>4. CASE r \notin Linked
      <3>1. cursor' \in Reader \cup {Nil} /\ lost' \subseteq Reader /\ word' \in [Reader -> Word]
        BY <1>2, <2>1, <2>2, <2>4 DEF AddFind
      <3> QED
        BY <1>2, <2>4, <3>1 DEF AddFind
    <2> QED
      BY <2>3, <2>4
  <1>3. ASSUME NEW r \in Reader, AddAppend(r) PROVE RcuTypeOK'
    BY <1>3 DEF AddAppend, Word
  <1>4. ASSUME NEW r \in Reader, ReadLockIndex(r) PROVE RcuTypeOK'
    BY <1>4 DEF ReadLockIndex
  <1>5. ASSUME NEW r \in Reader, ReadLockLoad(r) PROVE RcuTypeOK'
    BY <1>5 DEF ReadLockLoad
  <1>6. ASSUME NEW r \in Reader, ReadLockStore(r) PROVE RcuTypeOK'
    <2>0. /\ reg[r].next \in {Nil, word[r].next} /\ word[r] \in Word
      <3>1. WordOK(r) /\ rpc[r] \in {"store", "unstore"}
        BY <1>6 DEF ReadLockStore, Words
      <3> QED
        BY <3>1 DEF WordOK
    <2>1. Erased(r) \subseteq Reader
      BY <2>0 DEF Erased, Word
    <2>2. ridx[r] % 2 \in {0, 1}
      OBVIOUS
    <2> QED
      BY <1>6, <2>1, <2>2 DEF ReadLockStore, Word
  <1>7. ASSUME NEW r \in Reader, ReadDeref(r) PROVE RcuTypeOK'
    BY <1>7 DEF ReadDeref
  <1>8. ASSUME NEW r \in Reader, ReadUnlockLoad(r) PROVE RcuTypeOK'
    BY <1>8 DEF ReadUnlockLoad
  <1>9. ASSUME NEW r \in Reader, ReadUnlockStore(r) PROVE RcuTypeOK'
    <2>0. /\ reg[r].next \in {Nil, word[r].next} /\ word[r] \in Word
      <3>1. WordOK(r) /\ rpc[r] \in {"store", "unstore"}
        BY <1>9 DEF ReadUnlockStore, Words
      <3> QED
        BY <3>1 DEF WordOK
    <2>1. Erased(r) \subseteq Reader
      BY <2>0 DEF Erased, Word
    <2>2. ridx[r] % 2 \in {0, 1}
      OBVIOUS
    <2> QED
      BY <1>9, <2>1, <2>2 DEF ReadUnlockStore, Word
  <1>10. ASSUME NEW u \in Updater, Clean(u) PROVE RcuTypeOK'
    BY <1>10 DEF Clean, Word, EmptyWord
  <1>11. ASSUME NEW u \in Updater, Assign(u) PROVE RcuTypeOK'
    BY <1>11 DEF Assign
  <1>12. ASSUME NEW u \in Updater, SyncLock(u) PROVE RcuTypeOK'
    BY <1>12 DEF SyncLock
  <1>13. ASSUME NEW u \in Updater, SyncWait1(u) PROVE RcuTypeOK'
    BY <1>13 DEF SyncWait1
  <1>14. ASSUME NEW u \in Updater, SyncHop1(u) PROVE RcuTypeOK'
    BY <1>14 DEF SyncHop1, LockHeld, Word
  <1>15. ASSUME NEW u \in Updater, SyncFlip(u) PROVE RcuTypeOK'
    BY <1>15 DEF SyncFlip
  <1>16. ASSUME NEW u \in Updater, SyncWait2(u) PROVE RcuTypeOK'
    BY <1>16 DEF SyncWait2
  <1>17. ASSUME NEW u \in Updater, SyncHop2(u) PROVE RcuTypeOK'
    BY <1>17 DEF SyncHop2, LockHeld, Word
  <1>18. ASSUME NEW u \in Updater, SyncUnlock(u) PROVE RcuTypeOK'
    BY <1>18 DEF SyncUnlock
  <1>19. ASSUME NEW u \in Updater, Free(u) PROVE RcuTypeOK'
    <2>1. old[u] \in Version
      BY <1>19 DEF Free, Versions
    <2> QED
      BY <1>19, <2>1 DEF Free
  <1> QED
    BY <1>1, <1>2, <1>3, <1>4, <1>5, <1>6, <1>7, <1>8, <1>9, <1>10, <1>11, <1>12, <1>13,
       <1>14, <1>15, <1>16, <1>17, <1>18, <1>19 DEF RcuNext, ReadStep, SyncStep

LEMMA LockHeldStep ==
    ASSUME RcuAssumption, RcuInv, RcuNext PROVE LockHeld'
  <1> USE DEF Go, listVars, readVars, objVars, RcuAssumption, RcuInv, RcuTypeOK, Caller,
     ReaderLabel, UpdaterLabel, LockHeld
  <1>1. ASSUME NEW r \in Reader, AddLock(r) PROVE LockHeld'
    BY <1>1 DEF AddLock
  <1>2. ASSUME NEW r \in Reader, AddFind(r) PROVE LockHeld'
    BY <1>2 DEF AddFind
  <1>3. ASSUME NEW r \in Reader, AddAppend(r) PROVE LockHeld'
    BY <1>3 DEF AddAppend
  <1>4. ASSUME NEW r \in Reader, ReadLockIndex(r) PROVE LockHeld'
    BY <1>4 DEF ReadLockIndex
  <1>5. ASSUME NEW r \in Reader, ReadLockLoad(r) PROVE LockHeld'
    BY <1>5 DEF ReadLockLoad
  <1>6. ASSUME NEW r \in Reader, ReadLockStore(r) PROVE LockHeld'
    BY <1>6 DEF ReadLockStore
  <1>7. ASSUME NEW r \in Reader, ReadDeref(r) PROVE LockHeld'
    BY <1>7 DEF ReadDeref
  <1>8. ASSUME NEW r \in Reader, ReadUnlockLoad(r) PROVE LockHeld'
    BY <1>8 DEF ReadUnlockLoad
  <1>9. ASSUME NEW r \in Reader, ReadUnlockStore(r) PROVE LockHeld'
    BY <1>9 DEF ReadUnlockStore
  <1>10. ASSUME NEW u \in Updater, Clean(u) PROVE LockHeld'
    BY <1>10 DEF Clean
  <1>11. ASSUME NEW u \in Updater, Assign(u) PROVE LockHeld'
    BY <1>11 DEF Assign
  <1>12. ASSUME NEW u \in Updater, SyncLock(u) PROVE LockHeld'
    BY <1>12 DEF SyncLock
  <1>13. ASSUME NEW u \in Updater, SyncWait1(u) PROVE LockHeld'
    BY <1>13 DEF SyncWait1
  <1>14. ASSUME NEW u \in Updater, SyncHop1(u) PROVE LockHeld'
    BY <1>14 DEF SyncHop1
  <1>15. ASSUME NEW u \in Updater, SyncFlip(u) PROVE LockHeld'
    BY <1>15 DEF SyncFlip
  <1>16. ASSUME NEW u \in Updater, SyncWait2(u) PROVE LockHeld'
    BY <1>16 DEF SyncWait2
  <1>17. ASSUME NEW u \in Updater, SyncHop2(u) PROVE LockHeld'
    BY <1>17 DEF SyncHop2
  <1>18. ASSUME NEW u \in Updater, SyncUnlock(u) PROVE LockHeld'
    BY <1>18 DEF SyncUnlock
  <1>19. ASSUME NEW u \in Updater, Free(u) PROVE LockHeld'
    BY <1>19 DEF Free
  <1> QED
    BY <1>1, <1>2, <1>3, <1>4, <1>5, <1>6, <1>7, <1>8, <1>9, <1>10, <1>11, <1>12, <1>13,
       <1>14, <1>15, <1>16, <1>17, <1>18, <1>19 DEF RcuNext, ReadStep, SyncStep

LEMMA WordsStep ==
    ASSUME RcuAssumption, RcuInv, RcuNext PROVE Words'
  <1>t. /\ word \in [Reader -> Word] /\ reg \in [Reader -> Word]
        /\ rpc \in [Caller -> ReaderLabel \cup UpdaterLabel] /\ ridx \in [Caller -> Nat]
        /\ cursor \in Reader \cup {Nil} /\ Nil \notin Caller
        /\ Reader \subseteq Caller /\ Updater \subseteq Caller /\ Reader \cap Updater = {}
    BY DEF RcuInv, RcuTypeOK, RcuAssumption, Caller
  <1>w. \A x \in Reader : WordOK(x)
    BY DEF RcuInv, Words
  <1>l. \A t \in Caller :
           list_lock = t <=> rpc[t] \in {"find", "append", "wait1", "hop1", "wait2", "hop2"}
    BY DEF RcuInv, LockHeld
  <1>1. ASSUME NEW r \in Reader, AddLock(r) PROVE Words'
    <2>1. ASSUME NEW x \in Reader PROVE WordOK(x)'
      <3>1. /\ rpc[x] # "append" /\ rpc'[x] # "append" /\ UNCHANGED <<word, reg, ridx>>
            /\ x # r => rpc'[x] = rpc[x]
            /\ rpc[r] \in {"new", "idle"} /\ rpc'[r] = "find" /\ WordOK(x)
        BY <1>1, <1>t, <1>l, <1>w DEF AddLock, listVars, readVars
      <3> QED
        BY <3>1 DEF WordOK
    <2> QED
      BY <2>1 DEF Words
  <1>2. ASSUME NEW r \in Reader, AddFind(r) PROVE Words'
    <2>0. ASSUME NEW x \in Reader, x # r PROVE rpc[x] # "append"
      BY <1>2, <1>t, <1>l, <2>0 DEF AddFind
    <2>1. ASSUME NEW x \in Reader PROVE WordOK(x)'
      <3>1. CASE r \in Linked
        BY <1>2, <1>t, <1>w, <2>0, <3>1 DEF AddFind, WordOK, readVars, objVars
      <3>2. CASE r \notin Linked
        <4>1. /\ word' = [word EXCEPT ![r] = EmptyWord] /\ rpc' = [rpc EXCEPT ![r] = "append"]
              /\ rpc[r] = "find" /\ UNCHANGED <<head, reg, ridx>>
          BY <1>2, <3>2 DEF AddFind, readVars, objVars
        <4>2. CASE x = r
          <5>1. /\ cursor' # r
                /\ cursor' = Nil => head = Nil
                /\ cursor' # Nil => cursor' \in Reader /\ word[cursor'].next = Nil
            BY <1>2, <1>t, <3>2 DEF AddFind, Linked, ReachFrom
          <5> QED
            BY <1>t, <4>1, <4>2, <5>1 DEF WordOK, EmptyWord
        <4>3. CASE x # r
          BY <1>t, <1>w, <2>0, <4>1, <4>3 DEF WordOK
        <4> QED
          BY <4>2, <4>3
      <3> QED
        BY <3>1, <3>2
    <2> QED
      BY <2>1 DEF Words
  <1>3. ASSUME NEW r \in Reader, AddAppend(r) PROVE Words'
    <2>0. ASSUME NEW x \in Reader PROVE rpc'[x] # "append"
      BY <1>3, <1>t, <1>l DEF AddAppend
    <2>1. ASSUME NEW x \in Reader PROVE WordOK(x)'
      <3>1. /\ word'[x].bits = word[x].bits
            /\ word'[x].next = word[x].next \/ word[x].next = Nil
        <4>1. rpc[r] = "append" /\ WordOK(r)
          BY <1>3, <1>w DEF AddAppend
        <4>2. CASE cursor = Nil
          BY <1>3, <4>2 DEF AddAppend
        <4>3. CASE cursor # Nil /\ x # cursor
          BY <1>3, <1>t, <4>3 DEF AddAppend
        <4>4. CASE cursor # Nil /\ x = cursor
          BY <1>3, <1>t, <4>1, <4>4 DEF AddAppend, WordOK, Word
        <4> QED
          BY <4>2, <4>3, <4>4
      <3>2. /\ UNCHANGED <<reg, ridx>> /\ rpc[r] = "append" /\ rpc' = [rpc EXCEPT ![r] = "idle"]
        BY <1>3 DEF AddAppend, readVars, objVars
      <3>3. WordOK(x)
        BY <1>w
      <3> QED
        BY <1>t, <2>0, <3>1, <3>2, <3>3 DEF WordOK
    <2> QED
      BY <2>1 DEF Words
  <1>4. ASSUME NEW r \in Reader, ReadLockIndex(r) PROVE Words'
    <2>1. ASSUME NEW x \in Reader PROVE WordOK(x)'
      BY <1>4, <1>t, <1>w DEF ReadLockIndex, Go, WordOK, listVars, readVars, objVars
    <2> QED
      BY <2>1 DEF Words
  <1>5. ASSUME NEW r \in Reader, ReadLockLoad(r) PROVE Words'
    <2>1. ASSUME NEW x \in Reader PROVE WordOK(x)'
      BY <1>5, <1>t, <1>w DEF ReadLockLoad, Go, WordOK, listVars, readVars, objVars
    <2> QED
      BY <2>1 DEF Words
  <1>6. ASSUME NEW r \in Reader, ReadLockStore(r) PROVE Words'
    <2>0. reg[r] \in Word /\ reg[r].bits = {}
      BY <1>6, <1>t, <1>w DEF ReadLockStore, Go, WordOK
    <2>1. /\ word' = [word EXCEPT ![r] = word'[r]] /\ word'[r].next = reg[r].next
          /\ word'[r].bits = {ridx[r] % 2} /\ rpc' = [rpc EXCEPT ![r] = "deref"]
          /\ UNCHANGED <<reg, ridx, cursor, head>> /\ rpc[r] \in {"store", "unstore"}
      BY <1>6, <1>t, <2>0 DEF ReadLockStore, Go, Word, listVars, readVars, objVars
    <2>2. ASSUME NEW x \in Reader PROVE WordOK(x)'
      <3>1. CASE x = r
        BY <1>t, <2>1, <3>1 DEF WordOK
      <3>2. CASE x # r
        <4>1. word'[x] = word[x] /\ rpc'[x] = rpc[x] /\ WordOK(x) /\ WordOK(r)
          BY <1>t, <1>w, <2>1, <3>2
        <4> QED
          BY <1>t, <2>1, <4>1 DEF WordOK
      <3> QED
        BY <3>1, <3>2
    <2> QED
      BY <2>2 DEF Words
  <1>7. ASSUME NEW r \in Reader, ReadDeref(r) PROVE Words'
    <2>1. ASSUME NEW x \in Reader PROVE WordOK(x)'
      BY <1>7, <1>t, <1>w DEF ReadDeref, Go, WordOK, listVars, readVars, objVars
    <2> QED
      BY <2>1 DEF Words
  <1>8. ASSUME NEW r \in Reader, ReadUnlockLoad(r) PROVE Words'
    <2>1. ASSUME NEW x \in Reader PROVE WordOK(x)'
      BY <1>8, <1>t, <1>w DEF ReadUnlockLoad, Go, WordOK, listVars, readVars, objVars
    <2> QED
      BY <2>1 DEF Words
  <1>9. ASSUME NEW r \in Reader, ReadUnlockStore(r) PROVE Words'
    <2>1. /\ word' = [word EXCEPT ![r] = word'[r]] /\ word'[r].next = reg[r].next
          /\ word'[r].bits = {} /\ rpc' = [rpc EXCEPT ![r] = "idle"]
          /\ UNCHANGED <<reg, ridx, cursor, head>> /\ rpc[r] \in {"store", "unstore"}
      BY <1>9, <1>t, <1>w DEF ReadUnlockStore, Go, WordOK, Word, listVars, readVars, objVars
    <2>2. ASSUME NEW x \in Reader PROVE WordOK(x)'
      <3>1. CASE x = r
        BY <1>t, <2>1, <3>1 DEF WordOK
      <3>2. CASE x # r
        <4>1. word'[x] = word[x] /\ rpc'[x] = rpc[x] /\ WordOK(x) /\ WordOK(r)
          BY <1>t, <1>w, <2>1, <3>2
        <4> QED
          BY <1>t, <2>1, <4>1 DEF WordOK
      <3> QED
        BY <3>1, <3>2
    <2> QED
      BY <2>2 DEF Words
  <1>10. ASSUME NEW u \in Updater, Clean(u) PROVE Words'
    <2>1. ASSUME NEW x \in Reader PROVE WordOK(x)'
      <3>1. word'[x] = EmptyWord /\ rpc'[x] = "new"
        BY <1>10, <1>t DEF Clean
      <3> QED
        BY <3>1 DEF WordOK, EmptyWord
    <2> QED
      BY <2>1 DEF Words
  <1>11. ASSUME NEW u \in Updater, Assign(u) PROVE Words'
    <2>1. ASSUME NEW x \in Reader PROVE WordOK(x)'
      BY <1>11, <1>t, <1>w DEF Assign, Go, WordOK, listVars, readVars, objVars
    <2> QED
      BY <2>1 DEF Words
  <1>12. ASSUME NEW u \in Updater, SyncLock(u) PROVE Words'
    <2>1. ASSUME NEW x \in Reader PROVE WordOK(x)'
      <3>1. rpc[x] # "append" /\ rpc'[x] = rpc[x] /\ UNCHANGED <<word, reg, ridx>> /\ WordOK(x)
        BY <1>12, <1>t, <1>l, <1>w DEF SyncLock, Go, listVars, readVars
      <3> QED
        BY <3>1 DEF WordOK
    <2> QED
      BY <2>1 DEF Words
  <1>13. ASSUME NEW u \in Updater, SyncWait1(u) PROVE Words'
    <2>1. ASSUME NEW x \in Reader PROVE WordOK(x)'
      BY <1>13, <1>t, <1>w DEF SyncWait1, Go, WordOK, listVars, readVars, objVars
    <2> QED
      BY <2>1 DEF Words
  <1>14. ASSUME NEW u \in Updater, SyncHop1(u) PROVE Words'
    <2>1. ASSUME NEW x \in Reader PROVE WordOK(x)'
      <3>1. rpc[x] # "append" /\ rpc'[x] = rpc[x] /\ UNCHANGED <<word, reg>> /\ ridx'[x] = ridx[x]
            /\ WordOK(x)
        BY <1>14, <1>t, <1>l, <1>w DEF SyncHop1, Go, listVars, readVars, objVars
      <3> QED
        BY <3>1 DEF WordOK
    <2> QED
      BY <2>1 DEF Words
  <1>15. ASSUME NEW u \in Updater, SyncFlip(u) PROVE Words'
    <2>1. ASSUME NEW x \in Reader PROVE WordOK(x)'
      <3>1. rpc[x] # "append" /\ rpc'[x] = rpc[x] /\ UNCHANGED <<word, reg>> /\ ridx'[x] = ridx[x]
            /\ WordOK(x)
        BY <1>15, <1>t, <1>l, <1>w DEF SyncFlip, Go, listVars, readVars, objVars
      <3> QED
        BY <3>1 DEF WordOK
    <2> QED
      BY <2>1 DEF Words
  <1>16. ASSUME NEW u \in Updater, SyncWait2(u) PROVE Words'
    <2>1. ASSUME NEW x \in Reader PROVE WordOK(x)'
      BY <1>16, <1>t, <1>w DEF SyncWait2, Go, WordOK, listVars, readVars, objVars
    <2> QED
      BY <2>1 DEF Words
  <1>17. ASSUME NEW u \in Updater, SyncHop2(u) PROVE Words'
    <2>1. ASSUME NEW x \in Reader PROVE WordOK(x)'
      <3>1. rpc[x] # "append" /\ rpc'[x] = rpc[x] /\ UNCHANGED <<word, reg>> /\ ridx'[x] = ridx[x]
            /\ WordOK(x)
        BY <1>17, <1>t, <1>l, <1>w DEF SyncHop2, Go, listVars, readVars, objVars
      <3> QED
        BY <3>1 DEF WordOK
    <2> QED
      BY <2>1 DEF Words
  <1>18. ASSUME NEW u \in Updater, SyncUnlock(u) PROVE Words'
    <2>1. ASSUME NEW x \in Reader PROVE WordOK(x)'
      BY <1>18, <1>t, <1>w DEF SyncUnlock, Go, WordOK, listVars, readVars, objVars
    <2> QED
      BY <2>1 DEF Words
  <1>19. ASSUME NEW u \in Updater, Free(u) PROVE Words'
    <2>1. ASSUME NEW x \in Reader PROVE WordOK(x)'
      BY <1>19, <1>t, <1>w DEF Free, Go, WordOK, listVars, readVars, objVars
    <2> QED
      BY <2>1 DEF Words
  <1> QED
    BY <1>1, <1>2, <1>3, <1>4, <1>5, <1>6, <1>7, <1>8, <1>9, <1>10, <1>11, <1>12, <1>13,
       <1>14, <1>15, <1>16, <1>17, <1>18, <1>19 DEF RcuNext, ReadStep, SyncStep

LEMMA VersionsStep ==
    ASSUME RcuAssumption, RcuInv, RcuNext PROVE Versions'
  <1> USE DEF Go, listVars, readVars, objVars, RcuAssumption, RcuInv, RcuTypeOK, Caller,
     ReaderLabel, UpdaterLabel, Versions, Version
  <1>1. ASSUME NEW r \in Reader, AddLock(r) PROVE Versions'
    BY <1>1 DEF AddLock
  <1>2. ASSUME NEW r \in Reader, AddFind(r) PROVE Versions'
    BY <1>2 DEF AddFind
  <1>3. ASSUME NEW r \in Reader, AddAppend(r) PROVE Versions'
    BY <1>3 DEF AddAppend
  <1>4. ASSUME NEW r \in Reader, ReadLockIndex(r) PROVE Versions'
    BY <1>4 DEF ReadLockIndex
  <1>5. ASSUME NEW r \in Reader, ReadLockLoad(r) PROVE Versions'
    BY <1>5 DEF ReadLockLoad
  <1>6. ASSUME NEW r \in Reader, ReadLockStore(r) PROVE Versions'
    BY <1>6 DEF ReadLockStore
  <1>7. ASSUME NEW r \in Reader, ReadDeref(r) PROVE Versions'
    BY <1>7 DEF ReadDeref
  <1>8. ASSUME NEW r \in Reader, ReadUnlockLoad(r) PROVE Versions'
    BY <1>8 DEF ReadUnlockLoad
  <1>9. ASSUME NEW r \in Reader, ReadUnlockStore(r) PROVE Versions'
    BY <1>9 DEF ReadUnlockStore
  <1>10. ASSUME NEW u \in Updater, Clean(u) PROVE Versions'
    BY <1>10 DEF Clean
  <1>11. ASSUME NEW u \in Updater, Assign(u) PROVE Versions'
    BY <1>11 DEF Assign
  <1>12. ASSUME NEW u \in Updater, SyncLock(u) PROVE Versions'
    BY <1>12 DEF SyncLock
  <1>13. ASSUME NEW u \in Updater, SyncWait1(u) PROVE Versions'
    BY <1>13 DEF SyncWait1
  <1>14. ASSUME NEW u \in Updater, SyncHop1(u) PROVE Versions'
    BY <1>14 DEF SyncHop1
  <1>15. ASSUME NEW u \in Updater, SyncFlip(u) PROVE Versions'
    BY <1>15 DEF SyncFlip
  <1>16. ASSUME NEW u \in Updater, SyncWait2(u) PROVE Versions'
    BY <1>16 DEF SyncWait2
  <1>17. ASSUME NEW u \in Updater, SyncHop2(u) PROVE Versions'
    BY <1>17 DEF SyncHop2
  <1>18. ASSUME NEW u \in Updater, SyncUnlock(u) PROVE Versions'
    BY <1>18 DEF SyncUnlock
  <1>19. ASSUME NEW u \in Updater, Free(u) PROVE Versions'
    BY <1>19 DEF Free
  <1> QED
    BY <1>1, <1>2, <1>3, <1>4, <1>5, <1>6, <1>7, <1>8, <1>9, <1>10, <1>11, <1>12, <1>13,
       <1>14, <1>15, <1>16, <1>17, <1>18, <1>19 DEF RcuNext, ReadStep, SyncStep

LEMMA TwoFlipsStep ==
    ASSUME RcuAssumption, RcuInv, RcuNext PROVE TwoFlips'
  <1> USE DEF Go, listVars, readVars, objVars, RcuAssumption, RcuInv, RcuTypeOK, Caller,
     ReaderLabel, UpdaterLabel, Versions, TwoFlips, Version, Past
  <1>1. ASSUME NEW r \in Reader, AddLock(r) PROVE TwoFlips'
    BY <1>1 DEF AddLock
  <1>2. ASSUME NEW r \in Reader, AddFind(r) PROVE TwoFlips'
    BY <1>2 DEF AddFind
  <1>3. ASSUME NEW r \in Reader, AddAppend(r) PROVE TwoFlips'
    BY <1>3 DEF AddAppend
  <1>4. ASSUME NEW r \in Reader, ReadLockIndex(r) PROVE TwoFlips'
    BY <1>4 DEF ReadLockIndex
  <1>5. ASSUME NEW r \in Reader, ReadLockLoad(r) PROVE TwoFlips'
    BY <1>5 DEF ReadLockLoad
  <1>6. ASSUME NEW r \in Reader, ReadLockStore(r) PROVE TwoFlips'
    BY <1>6 DEF ReadLockStore
  <1>7. ASSUME NEW r \in Reader, ReadDeref(r) PROVE TwoFlips'
    BY <1>7 DEF ReadDeref
  <1>8. ASSUME NEW r \in Reader, ReadUnlockLoad(r) PROVE TwoFlips'
    BY <1>8 DEF ReadUnlockLoad
  <1>9. ASSUME NEW r \in Reader, ReadUnlockStore(r) PROVE TwoFlips'
    BY <1>9 DEF ReadUnlockStore
  <1>10. ASSUME NEW u \in Updater, Clean(u) PROVE TwoFlips'
    BY <1>10 DEF Clean
  <1>11. ASSUME NEW u \in Updater, Assign(u) PROVE TwoFlips'
    BY <1>11 DEF Assign
  <1>12. ASSUME NEW u \in Updater, SyncLock(u) PROVE TwoFlips'
    BY <1>12 DEF SyncLock
  <1>13. ASSUME NEW u \in Updater, SyncWait1(u) PROVE TwoFlips'
    BY <1>13 DEF SyncWait1
  <1>14. ASSUME NEW u \in Updater, SyncHop1(u) PROVE TwoFlips'
    BY <1>14 DEF SyncHop1
  <1>15. ASSUME NEW u \in Updater, SyncFlip(u) PROVE TwoFlips'
    BY <1>15 DEF SyncFlip
  <1>16. ASSUME NEW u \in Updater, SyncWait2(u) PROVE TwoFlips'
    BY <1>16 DEF SyncWait2
  <1>17. ASSUME NEW u \in Updater, SyncHop2(u) PROVE TwoFlips'
    BY <1>17 DEF SyncHop2
  <1>18. ASSUME NEW u \in Updater, SyncUnlock(u) PROVE TwoFlips'
    BY <1>18 DEF SyncUnlock
  <1>19. ASSUME NEW u \in Updater, Free(u) PROVE TwoFlips'
    BY <1>19 DEF Free
  <1> QED
    BY <1>1, <1>2, <1>3, <1>4, <1>5, <1>6, <1>7, <1>8, <1>9, <1>10, <1>11, <1>12, <1>13,
       <1>14, <1>15, <1>16, <1>17, <1>18, <1>19 DEF RcuNext, ReadStep, SyncStep

(* What the steps leave alone of the list: links, head, and who appends. *)
LEMMA ChainKept ==
    ASSUME NEW list \in Seq(Reader), Chain(list), head' = head,
           \A i \in 1..Len(list) : word'[list[i]].next = word[list[i]].next,
           \A r \in Reader : rpc'[r] = "append" => rpc[r] = "append"
    PROVE  Chain(list)'
  BY DEF Chain

(* A reader that stores an old word cuts the list behind its node, or does nothing to it. *)
LEMMA StoreChain ==
    ASSUME RcuAssumption, NEW list \in Seq(Reader), Chain(list), NEW r \in Reader,
           \A x \in Reader : x # r => word'[x] = word[x],
           word'[r].next \in {Nil, word[r].next}, head' = head,
           \A x \in Reader : rpc'[x] = "append" => rpc[x] = "append"
    PROVE  \E front \in Seq(Reader) :
              /\ Chain(front)'
              /\ Len(front) \in Nat /\ Len(list) \in Nat /\ Len(front) <= Len(list)
              /\ \A i \in 1..Len(front) : front[i] = list[i]
  <1>0. Len(list) \in Nat /\ \A i \in 1..Len(list) : list[i] \in Reader
    OBVIOUS
  <1>1. CASE word'[r].next = word[r].next
    <2>1. Chain(list)'
      BY <1>0, <1>1, ChainKept
    <2> QED
      BY <1>0, <2>1
  <1>2. CASE \A i \in 1..Len(list) : list[i] # r
    <2>1. Chain(list)'
      BY <1>0, <1>2, ChainKept
    <2> QED
      BY <1>0, <2>1
  <1>3. CASE word'[r].next = Nil /\ \E i \in 1..Len(list) : list[i] = r
    <2>1. PICK p \in 1..Len(list) : list[p] = r
      BY <1>3
    <2> DEFINE front == SubSeq(list, 1, p)
    <2>2. /\ front \in Seq(Reader) /\ Len(front) = p
          /\ \A i \in 1..p : i \in 1..Len(list) /\ front[i] = list[i]
          /\ \A x : Contains(front, x) => Contains(list, x)
          /\ IsInjective(front)
      BY <1>0, <2>1, FrontPlaces DEF Chain
    <2>3. front # <<>> /\ head' = front[1]
      <3>1. Len(list) \in Nat /\ p # 0 /\ 1 \in 1..p
        BY <2>1
      <3>2. front # <<>> /\ list # <<>>
        BY <2>2, <3>1
      <3>3. front[1] = list[1]
        BY <2>2, <3>1
      <3> QED
        BY <3>2, <3>3 DEF Chain
    <2> HIDE DEF front
    <2>4. ASSUME NEW i \in 1..Len(front)
          PROVE  word'[front[i]].next = IF i = Len(front) THEN Nil ELSE front[i + 1]
      <3>1. CASE i = p
        BY <1>3, <2>1, <2>2, <3>1
      <3>2. CASE i # p
        <4>1. list[i] # r
          BY <1>0, <2>1, <2>2, <3>2 DEF Chain, IsInjective
        <4>2. word'[list[i]].next = list[i + 1] /\ i + 1 \in 1..p
          BY <1>0, <2>1, <2>2, <3>2, <4>1 DEF Chain
        <4> QED
          BY <2>2, <3>2, <4>2
      <3> QED
        BY <3>1, <3>2
    <2>5. Chain(front)'
      BY <2>2, <2>3, <2>4 DEF Chain
    <2> QED
      BY <1>0, <2>1, <2>2, <2>5
  <1> QED
    BY <1>1, <1>2, <1>3

(* A walk from the head meets the nodes of the list, and these only. *)
LEMMA LinkedListed ==
    ASSUME RcuAssumption, NEW list \in Seq(Reader), Chain(list), NEW r \in Reader
    PROVE  r \in Linked <=> Contains(list, r)
  <1>n. Len(list) \in Nat
    OBVIOUS
  <1>e. list # <<>> => 1 \in 1..Len(list) /\ head = list[1] /\ list[1] \in Reader
    <2>1. list # <<>> => Len(list) # 0
      OBVIOUS
    <2>2. list # <<>> => 1 \in 1..Len(list)
      BY <1>n, <2>1
    <2> QED
      BY <2>2 DEF Chain
  <1>0. /\ Len(list) \in Nat /\ (list = <<>> <=> Len(list) = 0) /\ DOMAIN list = 1..Len(list)
        /\ \A i \in 1..Len(list) : list[i] \in Reader
    OBVIOUS
  <1>1. ASSUME r \in Linked PROVE Contains(list, r)
    <2> DEFINE T == {list[i] : i \in 1..Len(list)}
    <2>1. T \in SUBSET Reader
      BY <1>0
    <2>2. head \in T \cup {Nil}
      <3>1. list = <<>> => head = Nil
        BY DEF Chain
      <3> QED
        BY <1>e, <3>1
    <2>3. ASSUME NEW i \in 1..Len(list) PROVE word[list[i]].next \in T \cup {Nil}
      <3>1. i # Len(list) => i + 1 \in 1..Len(list)
        BY <1>n
      <3> QED
        BY <3>1 DEF Chain
    <2>4. Closed(T)
      BY <2>3 DEF Closed
    <2>5. r \in T
      BY <1>1, <2>1, <2>2, <2>4 DEF Linked, ReachFrom
    <2> QED
      BY <1>0, <2>5 DEF Contains
  <1>2. ASSUME Contains(list, r) PROVE r \in Linked
    <2>1. ASSUME NEW S \in SUBSET Reader, head \in S \cup {Nil}, Closed(S) PROVE r \in S
      <3>1. list # <<>> => list[1] \in S
        BY <1>e, <2>1 DEF RcuAssumption
      <3>2. ASSUME NEW i \in 1..Len(list) - 1, list[i] \in S PROVE list[i + 1] \in S
        <4>1. i \in 1..Len(list) /\ i # Len(list) /\ i + 1 \in 1..Len(list)
          BY <1>n
        <4>2. word[list[i]].next = list[i + 1]
          BY <4>1 DEF Chain
        <4> QED
          BY <1>0, <2>1, <3>2, <4>1, <4>2 DEF Closed, RcuAssumption
      <3>3. \A i \in 1..Len(list) : list[i] \in S
        BY <3>1, <3>2, WalkReaches
      <3> QED
        BY <1>0, <1>2, <3>3 DEF Contains
    <2> QED
      BY <2>1 DEF Linked, ReachFrom
  <1> QED
    BY <1>1, <1>2

(* Updaters in their second loop have the lock, so there is one at most. *)
LEMMA Walkers ==
    ASSUME RcuAssumption, RcuInv
    PROVE  /\ Reader \subseteq Caller /\ Updater \subseteq Caller /\ Reader \cap Updater = {}
           /\ Nil \notin Caller /\ Nil \notin Version
           /\ \A r \in Reader : rpc[r] = "append" => list_lock = r
           /\ \A u \in Updater : rpc[u] \in {"wait1", "hop1", "wait2", "hop2"} => list_lock = u
           /\ rpc \in [Caller -> ReaderLabel \cup UpdaterLabel] /\ ridx \in [Caller -> Nat]
           /\ idx \in Nat /\ ptr \in Nat
           /\ held \in [Reader -> Version \cup {Nil}] /\ old \in [Updater -> Version \cup {Nil}]
           /\ stale \in [Reader -> BOOLEAN] /\ word \in [Reader -> Word] /\ freed \subseteq Version
  BY DEF RcuAssumption, RcuInv, RcuTypeOK, LockHeld, Caller, Version

(* A step that leaves a reader in its section, and the updaters no nearer, keeps its Grace. *)
LEMMA GraceKept ==
    ASSUME NEW list \in Seq(Reader), NEW i \in 1..Len(list), Grace(i, list),
           rpc'[list[i]] \in {"deref", "reading"} =>
              /\ rpc'[list[i]] = rpc[list[i]] /\ held'[list[i]] = held[list[i]]
              /\ ridx'[list[i]] = ridx[list[i]] /\ stale'[list[i]] = stale[list[i]],
           freed' = freed, idx' = idx,
           \A v \in Updater : Ahead(v, i, list) => Ahead(v, i, list)',
           \A v \in Updater : rpc'[v] \in Past => rpc[v] \in Past /\ old'[v] = old[v]
    PROVE  Grace(i, list)'
  BY DEF Grace

LEMMA AheadKept ==
    ASSUME NEW list \in Seq(Reader), NEW i \in 1..Len(list), NEW v \in Updater,
           Ahead(v, i, list), rpc'[v] = rpc[v], ridx'[v] = ridx[v], idx' = idx,
           ridx'[list[i]] = ridx[list[i]], cursor' = cursor
    PROVE  Ahead(v, i, list)'
  BY DEF Ahead

LEMMA ListedStep ==
    ASSUME RcuAssumption, RcuInv, RcuNext PROVE Listed'
  <1> PICK list \in Seq(Reader) : Chain(list) /\ \A i \in 1..Len(list) : Grace(i, list)
    BY DEF RcuInv, Listed
  <1>n. Len(list) \in Nat
    OBVIOUS
  <1>s. /\ Len(list) \in Nat /\ \A i \in 1..Len(list) : list[i] \in Reader
        /\ DOMAIN list = 1..Len(list) /\ (list = <<>> <=> Len(list) = 0)
    OBVIOUS
  <1>w. /\ Reader \subseteq Caller /\ Updater \subseteq Caller /\ Reader \cap Updater = {}
        /\ Nil \notin Caller /\ Nil \notin Version
        /\ \A r \in Reader : rpc[r] = "append" => list_lock = r
        /\ \A u \in Updater : rpc[u] \in {"wait1", "hop1", "wait2", "hop2"} => list_lock = u
        /\ rpc \in [Caller -> ReaderLabel \cup UpdaterLabel] /\ ridx \in [Caller -> Nat]
        /\ idx \in Nat /\ ptr \in Nat
        /\ held \in [Reader -> Version \cup {Nil}] /\ old \in [Updater -> Version \cup {Nil}]
        /\ stale \in [Reader -> BOOLEAN] /\ word \in [Reader -> Word] /\ freed \subseteq Version
    BY Walkers
  <1>v. /\ \A v \in freed : v < ptr
        /\ \A u \in Updater : old[u] # Nil => old[u] < ptr
        /\ \A r \in Reader : held[r] # Nil => rpc[r] = "reading"
        /\ \A r \in Reader : WordOK(r)
    BY DEF RcuInv, Versions, Words
  <1>1. ASSUME NEW r \in Reader, AddLock(r) PROVE Listed'
    <2>1. /\ UNCHANGED <<head, word>> /\ \A x \in Reader : rpc'[x] = "append" => rpc[x] = "append"
          /\ \A v \in Updater : rpc[v] \notin {"wait2", "hop2"} /\ rpc'[v] = rpc[v]
          /\ UNCHANGED <<idx, held, freed, old, stale>> /\ UNCHANGED ridx
          /\ rpc' = [rpc EXCEPT ![r] = "find"]
      BY <1>1, <1>s, <1>w DEF AddLock, Go, listVars, readVars, objVars
    <2>2. Chain(list)'
      BY <1>s, <2>1, ChainKept
    <2>3. ASSUME NEW i \in 1..Len(list) PROVE Grace(i, list)'
      <3>1. Grace(i, list) /\ list[i] \in Reader
        BY <1>s
      <3>2. \A v \in Updater : rpc'[v] = rpc[v] /\ ridx'[v] = ridx[v]
        BY <1>w, <2>1
      <3> QED
        BY <1>s, <1>w, <2>1, <3>1, <3>2 DEF Grace, Ahead
    <2> QED
      BY <2>2, <2>3 DEF Listed
  <1>2. ASSUME NEW r \in Reader, AddFind(r) PROVE Listed'
    <2>0. /\ rpc[r] = "find"
          /\ \A v \in Updater : rpc[v] \notin {"wait2", "hop2"} /\ rpc'[v] = rpc[v]
          /\ UNCHANGED <<head, idx, ridx, held, freed, old, stale>>
          /\ \A x \in Reader : x # r => rpc'[x] = rpc[x] /\ word'[x] = word[x]
      BY <1>2, <1>w DEF AddFind, readVars, objVars, RcuInv, LockHeld
    <2>1. ASSUME NEW i \in 1..Len(list) PROVE Grace(i, list)'
      <3>1. list[i] = r => rpc'[list[i]] \notin {"deref", "reading"}
        BY <1>2, <1>w DEF AddFind
      <3>2. Grace(i, list) /\ list[i] \in Reader
        BY <1>s
      <3> QED
        BY <1>s, <1>w, <2>0, <3>1, <3>2 DEF Grace, Ahead
    <2>2. CASE r \in Linked
      <3>1. word' = word /\ rpc'[r] = "failed"
        BY <1>2, <1>w, <2>2 DEF AddFind
      <3>2. Chain(list)'
        BY <1>s, <2>0, <3>1, ChainKept
      <3> QED
        BY <2>1, <3>2 DEF Listed
    <2>3. CASE r \notin Linked
      <3>1. ~Contains(list, r)
        BY <2>3, LinkedListed
      <3>2. \A i \in 1..Len(list) : list[i] # r
        BY <1>s, <3>1 DEF Contains
      <3>3. Chain(list)'
        BY <1>s, <2>0, <3>1, <3>2 DEF Chain
      <3> QED
        BY <2>1, <3>3 DEF Listed
    <2> QED
      BY <2>2, <2>3
  <1>3. ASSUME NEW r \in Reader, AddAppend(r) PROVE Listed'
    <2>0. /\ rpc[r] = "append"
          /\ \A v \in Updater : rpc[v] \notin {"wait2", "hop2"} /\ rpc'[v] = rpc[v]
          /\ UNCHANGED <<idx, ridx, held, freed, old, stale>>
          /\ rpc'[r] = "idle" /\ \A x \in Reader : x # r => rpc'[x] = rpc[x] /\ rpc[x] # "append"
      BY <1>3, <1>w DEF AddAppend, readVars, objVars, RcuInv, LockHeld
    <2>1. /\ word[r] = EmptyWord /\ cursor # r /\ (cursor = Nil => head = Nil)
          /\ (cursor # Nil => word[cursor].next = Nil) /\ cursor \in Reader \cup {Nil}
      BY <1>v, <2>0 DEF WordOK, RcuInv, RcuTypeOK
    <2>2. ~Contains(list, r) /\ \A i \in 1..Len(list) : list[i] # r
      BY <1>s, <2>0 DEF Chain, Contains
    <2> DEFINE long == Append(list, r)
    <2>3. /\ long \in Seq(Reader) /\ long # <<>> /\ Len(long) = Len(list) + 1
          /\ \A i \in 1..Len(list) : long[i] = list[i]
          /\ long[Len(list) + 1] = r
          /\ IsInjective(long)
      BY <2>2, AppendPlaces, AppendContains DEF Chain
    <2> HIDE DEF long
    <2>4. ASSUME NEW i \in 1..Len(list) PROVE Grace(i, list)'
      <3>1. Grace(i, list) /\ list[i] \in Reader /\ list[i] # r
        BY <1>s, <2>2
      <3> QED
        BY <1>s, <1>w, <2>0, <3>1 DEF Grace, Ahead
    <2>5. ASSUME NEW i \in 1..Len(long) PROVE Grace(i, long)'
      <3>1. CASE i = Len(list) + 1
        BY <2>0, <2>3, <3>1 DEF Grace
      <3>2. CASE i \in 1..Len(list)
        <4>1. Grace(i, list) /\ long[i] = list[i] /\ list[i] # r /\ list[i] \in Reader
          BY <1>s, <2>2, <2>3, <3>2
        <4> QED
          BY <1>s, <1>w, <2>0, <4>1 DEF Grace, Ahead
      <3> QED
        BY <1>s, <2>3, <3>1, <3>2
    <2>6. CASE cursor = Nil
      <3>1. head' = r /\ word' = word /\ list = <<>>
        BY <1>3, <1>s, <1>w, <2>1, <2>6 DEF AddAppend, Chain, Caller
      <3>2. Chain(long)'
        BY <1>s, <2>0, <2>1, <2>3, <3>1 DEF Chain, EmptyWord
      <3> QED
        BY <2>3, <2>5, <3>2 DEF Listed
    <2>7. CASE cursor # Nil
      <3>1. /\ head' = head /\ cursor \in Reader /\ word[cursor].next = Nil
            /\ word'[cursor].next = r /\ \A x \in Reader : x # cursor => word'[x] = word[x]
        BY <1>3, <1>w, <2>1, <2>7 DEF AddAppend, Word
      <3>2. CASE \A i \in 1..Len(list) : list[i] # cursor
        <4>1. \A i \in 1..Len(list) : word'[list[i]].next = word[list[i]].next
          BY <1>s, <3>1, <3>2
        <4>2. Chain(list)'
          BY <2>0, <3>1, <4>1, ChainKept
        <4> QED
          BY <2>4, <4>2 DEF Listed
      <3>3. CASE \E i \in 1..Len(list) : list[i] = cursor
        <4>1. PICK p \in 1..Len(list) : list[p] = cursor
          BY <3>3
        <4>2. p = Len(list)
          <5>1. p # Len(list) => p + 1 \in 1..Len(list)
            BY <1>n
          <5>2. p # Len(list) => word[list[p]].next = list[p + 1]
            BY DEF Chain
          <5>3. \A x \in Reader : x # Nil
            BY <1>w
          <5> QED
            BY <1>s, <3>1, <4>1, <5>1, <5>2, <5>3
        <4>3. \A i \in 1..Len(list) : i # p => list[i] # cursor
          BY <1>s, <4>1 DEF Chain, IsInjective
        <4>4. ASSUME NEW i \in 1..Len(long)
              PROVE  word'[long[i]].next = IF i = Len(long) THEN Nil ELSE long[i + 1]
          <5>1. CASE i = Len(list) + 1
            BY <1>s, <2>1, <2>3, <3>1, <5>1 DEF EmptyWord
          <5>2. CASE i = Len(list)
            <6>1. i # Len(long) /\ i \in 1..Len(list) /\ long[i + 1] = r
              BY <1>n, <2>3, <4>2, <5>2
            <6> QED
              BY <2>3, <3>1, <4>1, <4>2, <5>2, <6>1
          <5>3. CASE i \in 1..Len(list) - 1
            <6>0. /\ i \in 1..Len(list) /\ i + 1 \in 1..Len(list) /\ i # Len(list) /\ i # Len(list) + 1
              BY <1>n, <5>3
            <6>1. i # Len(long) /\ list[i] # cursor
              BY <2>3, <4>2, <4>3, <6>0
            <6>2. word'[list[i]].next = list[i + 1]
              BY <1>s, <3>1, <6>0, <6>1 DEF Chain
            <6> QED
              BY <2>3, <6>0, <6>1, <6>2
          <5>4. i = Len(list) + 1 \/ i = Len(list) \/ i \in 1..Len(list) - 1
            BY <1>n, <2>3
          <5> QED
            BY <5>1, <5>2, <5>3, <5>4
        <4>5. head' = long[1] /\ \A x \in Reader : rpc'[x] # "append"
          <5>1. 1 \in 1..Len(list) /\ list # <<>>
            BY <1>s, <4>1
          <5>2. long[1] = list[1] /\ head = list[1]
            BY <2>3, <5>1 DEF Chain
          <5> QED
            BY <2>0, <3>1, <5>2
        <4>6. Chain(long)'
          BY <2>3, <4>4, <4>5 DEF Chain
        <4> QED
          BY <2>3, <2>5, <4>6 DEF Listed
      <3> QED
        BY <3>2, <3>3
    <2> QED
      BY <2>6, <2>7
  <1>4. ASSUME NEW r \in Reader, ReadLockIndex(r) PROVE Listed'
    <2>1. /\ UNCHANGED <<head, word>> /\ \A x \in Reader : rpc'[x] = "append" => rpc[x] = "append"
          /\ UNCHANGED <<idx, held, freed, old, stale, cursor>>
          /\ rpc' = [rpc EXCEPT ![r] = "load"]
      BY <1>4, <1>s, <1>w DEF ReadLockIndex, Go, listVars, readVars, objVars
    <2>4. rpc[r] = "idle" /\ \A t \in Caller : t # r => ridx'[t] = ridx[t]
      BY <1>4, <1>w DEF ReadLockIndex, Go
    <2>2. Chain(list)'
      BY <1>s, <2>1, ChainKept
    <2>3. ASSUME NEW i \in 1..Len(list) PROVE Grace(i, list)'
      <3>1. Grace(i, list) /\ list[i] \in Reader
        BY <1>s
      <3>2. \A v \in Updater : v # r /\ rpc'[v] = rpc[v] /\ ridx'[v] = ridx[v]
        BY <1>w, <2>1, <2>4
      <3>3. CASE list[i] = r
        <4>1. rpc'[r] = "load"
          BY <1>w, <2>1
        <4> QED
          BY <3>3, <4>1 DEF Grace
      <3>4. CASE list[i] # r
        <4>1. rpc'[list[i]] = rpc[list[i]] /\ ridx'[list[i]] = ridx[list[i]]
              /\ held'[list[i]] = held[list[i]]
          BY <1>4, <1>w, <2>1, <3>1, <3>4, <2>4 DEF ReadLockIndex
        <4>2. ASSUME NEW v \in Updater, Ahead(v, i, list) PROVE Ahead(v, i, list)'
          BY <2>1, <3>2, <4>1, <4>2, AheadKept
        <4> QED
          BY <2>1, <3>1, <3>2, <4>1, <4>2, GraceKept
      <3> QED
        BY <3>3, <3>4
    <2> QED
      BY <2>2, <2>3 DEF Listed
  <1>5. ASSUME NEW r \in Reader, ReadLockLoad(r) PROVE Listed'
    <2>1. /\ UNCHANGED <<head, word>> /\ \A x \in Reader : rpc'[x] = "append" => rpc[x] = "append"
          /\ UNCHANGED <<idx, ridx, held, freed, old, stale, cursor>>
          /\ rpc' = [rpc EXCEPT ![r] = "store"]
      BY <1>5, <1>s, <1>w DEF ReadLockLoad, Go, listVars, readVars, objVars
    <2>2. Chain(list)'
      BY <1>s, <2>1, ChainKept
    <2>3. ASSUME NEW i \in 1..Len(list) PROVE Grace(i, list)'
      <3>1. Grace(i, list) /\ list[i] \in Reader
        BY <1>s
      <3>2. \A v \in Updater : v # r /\ rpc'[v] = rpc[v] /\ ridx'[v] = ridx[v]
        BY <1>w, <2>1
      <3>3. CASE list[i] = r
        <4>1. rpc'[r] = "store"
          BY <1>w, <2>1
        <4> QED
          BY <3>3, <4>1 DEF Grace
      <3>4. CASE list[i] # r
        <4>1. rpc'[list[i]] = rpc[list[i]] /\ ridx'[list[i]] = ridx[list[i]]
              /\ held'[list[i]] = held[list[i]]
          BY <1>5, <1>w, <2>1, <3>1, <3>4 DEF ReadLockLoad
        <4>2. ASSUME NEW v \in Updater, Ahead(v, i, list) PROVE Ahead(v, i, list)'
          BY <2>1, <3>2, <4>1, <4>2, AheadKept
        <4> QED
          BY <2>1, <3>1, <3>2, <4>1, <4>2, GraceKept
      <3> QED
        BY <3>3, <3>4
    <2> QED
      BY <2>2, <2>3 DEF Listed
  <1>6. ASSUME NEW r \in Reader, ReadLockStore(r) PROVE Listed'
    <2>1. /\ word' = [word EXCEPT ![r] = word'[r]] /\ word'[r].next = reg[r].next
          /\ UNCHANGED <<reg, ridx, idx, cursor, head, held, freed, old>>
          /\ rpc' = [rpc EXCEPT ![r] = "deref"] /\ rpc[r] \in {"store", "unstore"}
          /\ \A x \in Reader : x # r => stale'[x] = stale[x]
      BY <1>6, <1>w DEF ReadLockStore, Go, RcuInv, RcuTypeOK, Word, objVars
    <2>2. reg[r].next \in {Nil, word[r].next}
      BY <1>v, <2>1 DEF WordOK
    <2>3. PICK front \in Seq(Reader) :
             /\ Chain(front)'
             /\ Len(front) \in Nat /\ Len(list) \in Nat /\ Len(front) <= Len(list)
             /\ \A i \in 1..Len(front) : front[i] = list[i]
      <3>1. \A x \in Reader : x # r => word'[x] = word[x]
        BY <1>w, <2>1
      <3>2. word'[r].next \in {Nil, word[r].next}
        BY <2>1, <2>2
      <3>3. \A x \in Reader : rpc'[x] = "append" => rpc[x] = "append"
        BY <1>w, <2>1
      <3> QED
        BY <2>1, <3>1, <3>2, <3>3, StoreChain
    <2>4. ASSUME NEW i \in 1..Len(front) PROVE Grace(i, front)'
      <3>1. i \in 1..Len(list) /\ front[i] = list[i] /\ Grace(i, list) /\ list[i] \in Reader
        BY <1>s, <2>3
      <3>2. CASE list[i] = r
        <4>1. stale'[r] = (ridx[r] # idx)
          BY <1>6, <1>w DEF ReadLockStore
        <4>2. held[r] \notin freed
          BY <1>w, <1>v, <2>1
        <4>3. rpc'[r] = "deref"
          BY <1>w, <2>1
        <4> QED
          BY <2>1, <3>1, <3>2, <4>1, <4>2, <4>3 DEF Grace
      <3>3. CASE list[i] # r
        <4>1. rpc'[list[i]] = rpc[list[i]] /\ \A v \in Updater : rpc'[v] = rpc[v]
          BY <1>w, <2>1, <3>1, <3>3
        <4>2. ASSUME NEW v \in Updater, Ahead(v, i, list) PROVE Ahead(v, i, front)'
          BY <2>1, <2>3, <3>1, <4>1, <4>2 DEF Ahead
        <4>3. stale'[list[i]] = stale[list[i]]
          BY <2>1, <3>1, <3>3
        <4> QED
          BY <2>1, <3>1, <4>1, <4>2, <4>3 DEF Grace
      <3> QED
        BY <3>2, <3>3
    <2> QED
      BY <2>3, <2>4 DEF Listed
  <1>7. ASSUME NEW r \in Reader, ReadDeref(r) PROVE Listed'
    <2>1. /\ UNCHANGED <<head, word>> /\ \A x \in Reader : rpc'[x] = "append" => rpc[x] = "append"
          /\ UNCHANGED <<idx, ridx, freed, old, stale, cursor, ptr>>
          /\ rpc' = [rpc EXCEPT ![r] = "reading"]
      BY <1>7, <1>s, <1>w DEF ReadDeref, Go, listVars, readVars, objVars
    <2>2. Chain(list)'
      BY <1>s, <2>1, ChainKept
    <2>3. ASSUME NEW i \in 1..Len(list) PROVE Grace(i, list)'
      <3>1. Grace(i, list) /\ list[i] \in Reader
        BY <1>s
      <3>2. CASE list[i] # r
        <4>1. rpc'[list[i]] = rpc[list[i]] /\ held'[list[i]] = held[list[i]]
          BY <1>7, <1>w, <2>1, <3>1, <3>2 DEF ReadDeref
        <4>2. \A v \in Updater : v # r /\ rpc'[v] = rpc[v]
          BY <1>w, <2>1
        <4>3. ASSUME NEW v \in Updater, Ahead(v, i, list) PROVE Ahead(v, i, list)'
          BY <2>1, <4>2, <4>3, AheadKept
        <4> QED
          BY <2>1, <3>1, <4>1, <4>2, <4>3, GraceKept
      <3>3. CASE list[i] = r
        <4>1. held'[r] = ptr /\ rpc[r] = "deref" /\ \A v \in Updater : rpc'[v] = rpc[v]
          BY <1>7, <1>w, <2>1 DEF ReadDeref, Go
        <4>2. ptr \notin freed /\ \A v \in Updater : old[v] # ptr
          <5>1. ~(ptr < ptr) /\ ptr # Nil
            BY <1>w DEF Version, RcuInv, RcuTypeOK
          <5> QED
            BY <1>v, <5>1
        <4>3. ASSUME NEW v \in Updater, Ahead(v, i, list) PROVE Ahead(v, i, list)'
          BY <2>1, <4>1, <4>3, AheadKept
        <4>4. UNCHANGED <<idx, ridx, stale, freed, old>>
          BY <2>1
        <4> QED
          BY <3>1, <3>3, <4>1, <4>2, <4>3, <4>4 DEF Grace
      <3> QED
        BY <3>2, <3>3
    <2> QED
      BY <2>2, <2>3 DEF Listed
  <1>8. ASSUME NEW r \in Reader, ReadUnlockLoad(r) PROVE Listed'
    <2>1. /\ UNCHANGED <<head, word>> /\ \A x \in Reader : rpc'[x] = "append" => rpc[x] = "append"
          /\ UNCHANGED <<idx, ridx, freed, old, stale, cursor>>
          /\ rpc' = [rpc EXCEPT ![r] = "unstore"]
      BY <1>8, <1>s, <1>w DEF ReadUnlockLoad, Go, listVars, readVars, objVars
    <2>2. Chain(list)'
      BY <1>s, <2>1, ChainKept
    <2>3. ASSUME NEW i \in 1..Len(list) PROVE Grace(i, list)'
      <3>1. Grace(i, list) /\ list[i] \in Reader
        BY <1>s
      <3>2. \A v \in Updater : v # r /\ rpc'[v] = rpc[v] /\ ridx'[v] = ridx[v]
        BY <1>w, <2>1
      <3>3. CASE list[i] = r
        <4>1. rpc'[r] = "unstore"
          BY <1>w, <2>1
        <4> QED
          BY <3>3, <4>1 DEF Grace
      <3>4. CASE list[i] # r
        <4>1. rpc'[list[i]] = rpc[list[i]] /\ ridx'[list[i]] = ridx[list[i]]
              /\ held'[list[i]] = held[list[i]]
          BY <1>8, <1>w, <2>1, <3>1, <3>4 DEF ReadUnlockLoad
        <4>2. ASSUME NEW v \in Updater, Ahead(v, i, list) PROVE Ahead(v, i, list)'
          BY <2>1, <3>2, <4>1, <4>2, AheadKept
        <4> QED
          BY <2>1, <3>1, <3>2, <4>1, <4>2, GraceKept
      <3> QED
        BY <3>3, <3>4
    <2> QED
      BY <2>2, <2>3 DEF Listed
  <1>9. ASSUME NEW r \in Reader, ReadUnlockStore(r) PROVE Listed'
    <2>1. /\ word' = [word EXCEPT ![r] = word'[r]] /\ word'[r].next = reg[r].next
          /\ UNCHANGED <<reg, ridx, idx, cursor, head, held, freed, old>>
          /\ rpc' = [rpc EXCEPT ![r] = "idle"] /\ rpc[r] \in {"store", "unstore"}
          /\ \A x \in Reader : x # r => stale'[x] = stale[x]
      BY <1>9, <1>w DEF ReadUnlockStore, Go, RcuInv, RcuTypeOK, Word, objVars
    <2>2. reg[r].next \in {Nil, word[r].next}
      BY <1>v, <2>1 DEF WordOK
    <2>3. PICK front \in Seq(Reader) :
             /\ Chain(front)'
             /\ Len(front) \in Nat /\ Len(list) \in Nat /\ Len(front) <= Len(list)
             /\ \A i \in 1..Len(front) : front[i] = list[i]
      <3>1. \A x \in Reader : x # r => word'[x] = word[x]
        BY <1>w, <2>1
      <3>2. word'[r].next \in {Nil, word[r].next}
        BY <2>1, <2>2
      <3>3. \A x \in Reader : rpc'[x] = "append" => rpc[x] = "append"
        BY <1>w, <2>1
      <3> QED
        BY <2>1, <3>1, <3>2, <3>3, StoreChain
    <2>4. ASSUME NEW i \in 1..Len(front) PROVE Grace(i, front)'
      <3>1. i \in 1..Len(list) /\ front[i] = list[i] /\ Grace(i, list) /\ list[i] \in Reader
        BY <1>s, <2>3
      <3>2. CASE list[i] = r
        <4>1. rpc'[r] = "idle"
          BY <1>w, <2>1
        <4> QED
          BY <3>1, <3>2, <4>1 DEF Grace
      <3>3. CASE list[i] # r
        <4>1. rpc'[list[i]] = rpc[list[i]] /\ \A v \in Updater : rpc'[v] = rpc[v]
          BY <1>w, <2>1, <3>1, <3>3
        <4>2. ASSUME NEW v \in Updater, Ahead(v, i, list) PROVE Ahead(v, i, front)'
          BY <2>1, <2>3, <3>1, <4>1, <4>2 DEF Ahead
        <4>3. stale'[list[i]] = stale[list[i]]
          BY <2>1, <3>1, <3>3
        <4> QED
          BY <2>1, <3>1, <4>1, <4>2, <4>3 DEF Grace
      <3> QED
        BY <3>2, <3>3
    <2> QED
      BY <2>3, <2>4 DEF Listed
  <1>10. ASSUME NEW u \in Updater, Clean(u) PROVE Listed'
    <2>1. <<>> \in Seq(Reader) /\ Len(<<>>) = 0
      BY EmptySeq
    <2>2. head' = Nil /\ \A x \in Reader : rpc'[x] = "new"
      BY <1>10, <1>w DEF Clean
    <2>3. IsInjective(<<>>)
      BY DEF IsInjective
    <2>4. Chain(<<>>)'
      BY <2>1, <2>2, <2>3 DEF Chain
    <2>5. \A i \in 1..Len(<<>>) : Grace(i, <<>>)'
      BY <2>1
    <2> QED
      BY <2>1, <2>4, <2>5 DEF Listed
  <1>11. ASSUME NEW u \in Updater, Assign(u) PROVE Listed'
    <2>1. /\ UNCHANGED <<head, word>> /\ \A x \in Reader : rpc'[x] = rpc[x]
          /\ rpc'[u] = "sync" /\ \A v \in Updater : v # u => rpc'[v] = rpc[v]
          /\ UNCHANGED <<idx, ridx, held, freed, stale, cursor>> /\ rpc[u] = "assign"
          /\ \A v \in Updater : v # u => old'[v] = old[v]
      BY <1>11, <1>s, <1>w DEF Assign, Go, listVars, readVars, objVars
    <2>2. Chain(list)'
      BY <1>s, <2>1, ChainKept
    <2>3. ASSUME NEW i \in 1..Len(list) PROVE Grace(i, list)'
      <3>1. Grace(i, list) /\ list[i] \in Reader
        BY <1>s
      <3>2. ASSUME NEW v \in Updater, Ahead(v, i, list) PROVE Ahead(v, i, list)'
        <4>1. v # u
          BY <2>1, <3>2 DEF Ahead
        <4> QED
          BY <2>1, <3>2, <4>1, AheadKept
      <3>3. \A v \in Updater : rpc'[v] \in Past => v # u /\ rpc[v] \in Past /\ old'[v] = old[v]
        BY <2>1 DEF Past
      <3> QED
        BY <2>1, <3>1, <3>2, <3>3, GraceKept
    <2> QED
      BY <2>2, <2>3 DEF Listed
  <1>12. ASSUME NEW u \in Updater, SyncLock(u) PROVE Listed'
    <2>1. /\ UNCHANGED <<head, word>> /\ \A x \in Reader : rpc'[x] = rpc[x]
          /\ rpc'[u] = "wait1" /\ \A v \in Updater : v # u => rpc'[v] = rpc[v]
          /\ UNCHANGED <<idx, ridx, held, freed, old, stale>> /\ rpc[u] = "sync"
          /\ \A v \in Updater : rpc[v] \notin {"wait2", "hop2"}
      BY <1>12, <1>s, <1>w DEF SyncLock, Go, listVars, readVars, objVars
    <2>2. Chain(list)'
      BY <1>s, <2>1, ChainKept
    <2>3. ASSUME NEW i \in 1..Len(list) PROVE Grace(i, list)'
      <3>1. Grace(i, list) /\ list[i] \in Reader
        BY <1>s
      <3>2. ASSUME NEW v \in Updater, Ahead(v, i, list) PROVE FALSE
        BY <2>1, <3>2 DEF Ahead
      <3>3. \A v \in Updater : rpc'[v] \in Past => rpc[v] \in Past /\ old'[v] = old[v]
        BY <2>1 DEF Past
      <3> QED
        BY <2>1, <3>1, <3>2, <3>3, GraceKept
    <2> QED
      BY <2>2, <2>3 DEF Listed
  <1>13. ASSUME NEW u \in Updater, SyncWait1(u) PROVE Listed'
    <2>1. /\ UNCHANGED <<head, word>> /\ \A x \in Reader : rpc'[x] = rpc[x]
          /\ rpc'[u] = "hop1" /\ \A v \in Updater : v # u => rpc'[v] = rpc[v]
          /\ UNCHANGED <<idx, ridx, held, freed, old, stale, cursor>> /\ rpc[u] = "wait1"
      BY <1>13, <1>s, <1>w DEF SyncWait1, Go, listVars, readVars, objVars
    <2>2. Chain(list)'
      BY <1>s, <2>1, ChainKept
    <2>3. ASSUME NEW i \in 1..Len(list) PROVE Grace(i, list)'
      <3>1. Grace(i, list) /\ list[i] \in Reader
        BY <1>s
      <3>2. ASSUME NEW v \in Updater, Ahead(v, i, list) PROVE Ahead(v, i, list)'
        <4>1. v # u
          BY <2>1, <3>2 DEF Ahead
        <4> QED
          BY <2>1, <3>2, <4>1, AheadKept
      <3>3. \A v \in Updater : rpc'[v] \in Past => rpc[v] \in Past /\ old'[v] = old[v]
        BY <2>1 DEF Past
      <3> QED
        BY <2>1, <3>1, <3>2, <3>3, GraceKept
    <2> QED
      BY <2>2, <2>3 DEF Listed
  <1>14. ASSUME NEW u \in Updater, SyncHop1(u) PROVE Listed'
    <2>1. /\ UNCHANGED <<head, word>> /\ \A x \in Reader : rpc'[x] = rpc[x]
          /\ rpc'[u] = "wait1" /\ \A v \in Updater : v # u => rpc'[v] = rpc[v]
          /\ UNCHANGED <<idx, ridx, held, freed, old, stale>> /\ rpc[u] = "hop1"
          /\ \A v \in Updater : v # u => rpc[v] \notin {"wait1", "hop1", "wait2", "hop2"}
      BY <1>14, <1>s, <1>w DEF SyncHop1, Go, listVars, readVars, objVars
    <2>2. Chain(list)'
      BY <1>s, <2>1, ChainKept
    <2>3. ASSUME NEW i \in 1..Len(list) PROVE Grace(i, list)'
      <3>1. Grace(i, list) /\ list[i] \in Reader
        BY <1>s
      <3>2. ASSUME NEW v \in Updater, Ahead(v, i, list) PROVE FALSE
        BY <2>1, <3>2 DEF Ahead
      <3>3. \A v \in Updater : rpc'[v] \in Past => rpc[v] \in Past /\ old'[v] = old[v]
        BY <2>1 DEF Past
      <3> QED
        BY <2>1, <3>1, <3>2, <3>3, GraceKept
    <2> QED
      BY <2>2, <2>3 DEF Listed
  <1>15. ASSUME NEW u \in Updater, SyncFlip(u) PROVE Listed'
    <2>1. /\ UNCHANGED <<head, word>> /\ \A x \in Reader : rpc'[x] = rpc[x]
          /\ rpc'[u] = "wait2" /\ \A v \in Updater : v # u => rpc'[v] = rpc[v]
          /\ UNCHANGED <<held, freed, old, stale, head>> /\ rpc[u] = "wait1"
          /\ \A v \in Updater : v # u => rpc[v] \notin {"wait1", "hop1", "wait2", "hop2"}
          /\ idx' = idx + 1 /\ cursor' = head /\ ridx'[u] = idx
          /\ \A t \in Caller : t # u => ridx'[t] = ridx[t]
      BY <1>15, <1>s, <1>w DEF SyncFlip, Go, listVars, readVars, objVars
    <2>2. Chain(list)'
      BY <1>s, <2>1, ChainKept
    <2>3. ASSUME NEW i \in 1..Len(list) PROVE Grace(i, list)'
      <3>1. Grace(i, list) /\ list[i] \in Reader
        BY <1>s
      <3>2. head = list[1] /\ 1 \in 1..i /\ ridx'[list[i]] = ridx[list[i]]
        <4>1. Len(list) # 0 /\ 1 \in 1..i
          BY <1>n
        <4>2. list # <<>>
          BY <4>1
        <4>3. list[i] \in Caller /\ list[i] # u
          BY <1>w, <3>1
        <4> QED
          BY <2>1, <4>1, <4>2, <4>3 DEF Chain
      <3>3. ASSUME rpc[list[i]] \in {"deref", "reading"}, ~stale[list[i]] PROVE Ahead(u, i, list)'
        <4>1. \A v \in Updater : ~Ahead(v, i, list)
          BY <2>1 DEF Ahead
        <4>2. idx = ridx[list[i]]
          BY <3>1, <3>3, <4>1 DEF Grace
        <4> QED
          BY <2>1, <3>2, <4>2 DEF Ahead
      <3>4. \A v \in Updater : v # u /\ rpc'[v] \in Past => rpc[v] \in Past /\ ~Ahead(v, i, list)
        BY <2>1 DEF Ahead
      <3> QED
        BY <2>1, <3>1, <3>3, <3>4 DEF Grace
    <2> QED
      BY <2>2, <2>3 DEF Listed
  <1>16. ASSUME NEW u \in Updater, SyncWait2(u) PROVE Listed'
    <2>1. /\ UNCHANGED <<head, word>> /\ \A x \in Reader : rpc'[x] = rpc[x]
          /\ rpc'[u] = "hop2" /\ \A v \in Updater : v # u => rpc'[v] = rpc[v]
          /\ UNCHANGED <<idx, ridx, held, freed, old, stale, cursor>> /\ rpc[u] = "wait2"
          /\ ridx[u] % 2 \notin word[cursor].bits
      BY <1>16, <1>s, <1>w DEF SyncWait2, Go, listVars, readVars, objVars
    <2>2. Chain(list)'
      BY <1>s, <2>1, ChainKept
    <2>3. ASSUME NEW i \in 1..Len(list) PROVE Grace(i, list)'
      <3>1. Grace(i, list) /\ list[i] \in Reader
        BY <1>s
      <3>2. ASSUME rpc[list[i]] \in {"deref", "reading"}, Ahead(u, i, list) PROVE Ahead(u, i, list)'
        <4>1. PICK j \in 1..i : cursor = list[j]
          BY <3>2 DEF Ahead
        <4>2. j # i
          <5>1. word[list[i]].bits = {ridx[list[i]] % 2} /\ ridx[u] = ridx[list[i]]
            BY <1>v, <3>1, <3>2 DEF WordOK, Ahead
          <5> QED
            BY <2>1, <4>1, <5>1
        <4> QED
          BY <1>s, <2>1, <3>2, <4>1, <4>2 DEF Ahead
      <3>3. \A v \in Updater : v # u => (Ahead(v, i, list)' <=> Ahead(v, i, list))
        BY <2>1 DEF Ahead
      <3> QED
        BY <2>1, <3>1, <3>2, <3>3 DEF Grace, Past
    <2> QED
      BY <2>2, <2>3 DEF Listed
  <1>17. ASSUME NEW u \in Updater, SyncHop2(u) PROVE Listed'
    <2>1. /\ UNCHANGED <<head, word>> /\ \A x \in Reader : rpc'[x] = rpc[x]
          /\ rpc'[u] = "wait2" /\ \A v \in Updater : v # u => rpc'[v] = rpc[v]
          /\ UNCHANGED <<idx, ridx, held, freed, old, stale>> /\ rpc[u] = "hop2"
          /\ \A v \in Updater : v # u => rpc[v] \notin {"wait1", "hop1", "wait2", "hop2"}
          /\ cursor' = word[cursor].next
      BY <1>17, <1>s, <1>w DEF SyncHop2, Go, listVars, readVars, objVars
    <2>2. Chain(list)'
      BY <1>s, <2>1, ChainKept
    <2>3. ASSUME NEW i \in 1..Len(list) PROVE Grace(i, list)'
      <3>1. Grace(i, list) /\ list[i] \in Reader
        BY <1>s
      <3>2. ASSUME Ahead(u, i, list) PROVE Ahead(u, i, list)'
        <4>1. PICK j \in 1..i : cursor = list[j] /\ j < i
          BY <2>1, <3>2 DEF Ahead
        <4>2. j \in 1..Len(list) /\ j # Len(list) /\ j + 1 \in 1..i
          BY <1>n, <4>1
        <4>3. cursor' = list[j + 1]
          BY <2>1, <4>1, <4>2 DEF Chain
        <4> QED
          BY <2>1, <3>2, <4>2, <4>3 DEF Ahead
      <3>3. \A v \in Updater : v # u => ~Ahead(v, i, list) /\ rpc'[v] = rpc[v]
        BY <2>1 DEF Ahead
      <3> QED
        BY <2>1, <3>1, <3>2, <3>3 DEF Grace, Past
    <2> QED
      BY <2>2, <2>3 DEF Listed
  <1>18. ASSUME NEW u \in Updater, SyncUnlock(u) PROVE Listed'
    <2>1. /\ UNCHANGED <<head, word>> /\ \A x \in Reader : rpc'[x] = rpc[x]
          /\ rpc'[u] = "free" /\ \A v \in Updater : v # u => rpc'[v] = rpc[v]
          /\ UNCHANGED <<idx, ridx, held, freed, old, stale, cursor>> /\ rpc[u] = "wait2"
          /\ cursor = Nil
          /\ \A v \in Updater : v # u => rpc[v] \notin {"wait1", "hop1", "wait2", "hop2"}
      BY <1>18, <1>s, <1>w DEF SyncUnlock, Go, listVars, readVars, objVars
    <2>2. Chain(list)'
      BY <1>s, <2>1, ChainKept
    <2>3. ASSUME NEW i \in 1..Len(list) PROVE Grace(i, list)'
      <3>1. Grace(i, list) /\ list[i] \in Reader
        BY <1>s
      <3>2. \A v \in Updater : ~Ahead(v, i, list)
        <4>1. \A j \in 1..i : list[j] # Nil
          <5>1. \A j \in 1..i : j \in 1..Len(list)
            BY <1>n
          <5>2. Nil \notin Reader
            BY <1>w
          <5> QED
            BY <1>s, <5>1, <5>2
        <4>2. \A j \in 1..i : cursor # list[j]
          BY <2>1, <4>1
        <4> QED
          BY <4>2 DEF Ahead
      <3>3. \A v \in Updater : rpc'[v] \in Past => rpc[v] \in Past
        BY <2>1 DEF Past
      <3> QED
        BY <2>1, <3>1, <3>2, <3>3 DEF Grace
    <2> QED
      BY <2>2, <2>3 DEF Listed
  <1>19. ASSUME NEW u \in Updater, Free(u) PROVE Listed'
    <2>1. /\ UNCHANGED <<head, word>> /\ \A x \in Reader : rpc'[x] = rpc[x]
          /\ rpc'[u] = "assign" /\ \A v \in Updater : v # u => rpc'[v] = rpc[v]
          /\ UNCHANGED <<idx, ridx, held, old, stale, cursor>>
          /\ rpc[u] = "free" /\ freed' = freed \cup {old[u]}
      BY <1>19, <1>s, <1>w DEF Free, Go, listVars, readVars, objVars
    <2>2. Chain(list)'
      BY <1>s, <2>1, ChainKept
    <2>3. ASSUME NEW i \in 1..Len(list) PROVE Grace(i, list)'
      <3>1. Grace(i, list) /\ list[i] \in Reader
        BY <1>s
      <3>2. ~Ahead(u, i, list) /\ (rpc[list[i]] # "reading" => held[list[i]] = Nil)
        BY <1>v, <2>1, <3>1 DEF Ahead
      <3>3. old[u] # Nil
        BY <2>1 DEF RcuInv, Versions
      <3>4. \A v \in Updater : v # u => (Ahead(v, i, list)' <=> Ahead(v, i, list))
        BY <2>1 DEF Ahead
      <3>5. \A v \in Updater : Ahead(v, i, list) => v # u
        BY <3>2
      <3> QED
        BY <2>1, <3>1, <3>2, <3>3, <3>4, <3>5 DEF Grace, Past
    <2> QED
      BY <2>2, <2>3 DEF Listed
  <1> QED
    BY <1>1, <1>2, <1>3, <1>4, <1>5, <1>6, <1>7, <1>8, <1>9, <1>10, <1>11, <1>12, <1>13,
       <1>14, <1>15, <1>16, <1>17, <1>18, <1>19 DEF RcuNext, ReadStep, SyncStep

(* A step that adds no reader, and moves a link only by making what it led to a lost one. *)
LEMMA CoverKept ==
    ASSUME RcuAssumption, Covered, head' = head, lost \subseteq lost', init' \subseteq init,
           \A m \in Reader : word[m].next \in {word'[m].next, Nil} \cup lost',
           \A x \in Reader : rpc'[x] = "append" => rpc[x] = "append" /\ cursor' = cursor
    PROVE  Covered'
  <1> SUFFICES ASSUME NEW S \in SUBSET Reader,
                      head' \in S \cup {Nil}, lost' \subseteq S, Closed(S)'
               PROVE  /\ init' \subseteq S
                      /\ (\E x \in Reader : rpc'[x] = "append") => cursor' \in S \cup {Nil}
    BY DEF Covered
  <1>1. Closed(S)
    BY DEF Closed
  <1>2. /\ init \subseteq S
        /\ (\E x \in Reader : rpc[x] = "append") => cursor \in S \cup {Nil}
    BY <1>1 DEF Covered
  <1> QED
    BY <1>2

LEMMA CoveredStep ==
    ASSUME RcuAssumption, RcuInv, RcuNext PROVE Covered'
  <1>w. /\ Reader \subseteq Caller /\ Nil \notin Reader
        /\ \A r \in Reader : rpc[r] \in {"find", "append"} => list_lock = r
        /\ \A u \in Updater : rpc[u] \in {"wait1", "hop1", "wait2", "hop2"} => list_lock = u
        /\ Reader \cap Updater = {} /\ Updater \subseteq Caller
        /\ rpc \in [Caller -> ReaderLabel \cup UpdaterLabel]
        /\ word \in [Reader -> Word] /\ reg \in [Reader -> Word]
    BY DEF RcuAssumption, RcuInv, RcuTypeOK, LockHeld, Caller
  <1>c. Covered
    BY DEF RcuInv
  <1>o. \A r \in Reader : WordOK(r)
    BY DEF RcuInv, Words
  <1>1. ASSUME NEW r \in Reader, AddLock(r) PROVE Covered'
    <2>1. /\ UNCHANGED <<head, word, lost, init>>
          /\ \A x \in Reader : rpc'[x] = "append" => rpc[x] = "append" /\ cursor' = cursor
      BY <1>1, <1>w DEF AddLock, Go, listVars, readVars, objVars
    <2> QED
      BY <2>1, <1>c, CoverKept
  <1>2. ASSUME NEW r \in Reader, AddFind(r) PROVE Covered'
    <2>0. /\ head' = head /\ \A x \in Reader : x # r => rpc[x] # "append" /\ rpc'[x] # "append"
      BY <1>2, <1>w DEF AddFind
    <2>1. CASE r \in Linked
      <3>1. /\ UNCHANGED <<word, lost>> /\ init' \subseteq init /\ rpc'[r] = "failed"
        BY <1>2, <1>w, <2>1 DEF AddFind
      <3> QED
        BY <1>c, <2>0, <3>1, CoverKept
    <2>2. CASE r \notin Linked
      <3>1. /\ word' = [word EXCEPT ![r] = EmptyWord] /\ init' = init
            /\ lost' = lost \cup ({word[r].next} \ {Nil}) /\ cursor' \in Linked \cup {Nil}
        BY <1>2, <2>2 DEF AddFind
      <3> SUFFICES ASSUME NEW S \in SUBSET Reader,
                          head' \in S \cup {Nil}, lost' \subseteq S, Closed(S)'
                   PROVE  init' \subseteq S /\ cursor' \in S \cup {Nil}
        BY DEF Covered
      <3>2. ASSUME NEW m \in S PROVE word[m].next \in S \cup {Nil}
        <4>1. CASE m = r
          BY <3>1, <4>1
        <4>2. CASE m # r
          <5>1. word'[m] = word[m]
            BY <1>w, <3>1, <4>2
          <5> QED
            BY <5>1 DEF Closed
        <4> QED
          BY <4>1, <4>2
      <3>3. Closed(S)
        BY <3>2 DEF Closed
      <3>4. init \subseteq S
        BY <1>c, <2>0, <3>1, <3>3 DEF Covered
      <3>5. cursor' \in S \cup {Nil}
        BY <2>0, <3>1, <3>3 DEF Linked, ReachFrom
      <3> QED
        BY <3>1, <3>4, <3>5
    <2> QED
      BY <2>1, <2>2
  <1>3. ASSUME NEW r \in Reader, AddAppend(r) PROVE Covered'
    <2>0. /\ rpc[r] = "append" /\ \A x \in Reader : rpc'[x] # "append"
          /\ init' = init \cup {r} /\ lost' = lost \ {r}
      BY <1>3, <1>w DEF AddAppend
    <2>1. /\ word[r] = EmptyWord /\ cursor # r /\ (cursor = Nil => head = Nil)
          /\ (cursor # Nil => word[cursor].next = Nil) /\ cursor \in Reader \cup {Nil}
      BY <1>o, <2>0 DEF WordOK, RcuInv, RcuTypeOK
    <2> SUFFICES ASSUME NEW S \in SUBSET Reader,
                        head' \in S \cup {Nil}, lost' \subseteq S, Closed(S)'
                 PROVE  init' \subseteq S
      BY <2>0 DEF Covered
    <2>2. CASE cursor = Nil
      <3>1. head' = r /\ UNCHANGED word
        BY <1>3, <2>2 DEF AddAppend
      <3>2. Closed(S) /\ r \in S /\ lost \subseteq S /\ head \in S \cup {Nil}
        BY <1>w, <2>0, <2>1, <2>2, <3>1 DEF Closed
      <3> QED
        BY <1>c, <2>0, <3>2 DEF Covered
    <2>3. CASE cursor # Nil
      <3>1. /\ head' = head /\ cursor \in Reader
            /\ word'[cursor].next = r /\ \A m \in Reader : m # cursor => word'[m] = word[m]
        BY <1>3, <1>w, <2>1, <2>3 DEF AddAppend, Word
      <3>2. ASSUME NEW m \in S \cup {r} PROVE word[m].next \in S \cup {r, Nil}
        <4>1. CASE m = cursor
          BY <2>1, <2>3, <4>1
        <4>2. CASE m = r
          BY <2>1, <4>2 DEF EmptyWord
        <4>3. CASE m \in S /\ m # cursor
          BY <3>1, <4>3 DEF Closed
        <4> QED
          BY <4>1, <4>2, <4>3
      <3>3. Closed(S \cup {r})
        BY <3>2 DEF Closed
      <3>4. /\ S \cup {r} \in SUBSET Reader /\ lost \subseteq S \cup {r}
            /\ head \in (S \cup {r}) \cup {Nil}
        BY <2>0, <3>1
      <3>5. init \subseteq S \cup {r} /\ cursor \in (S \cup {r}) \cup {Nil}
        BY <1>c, <2>0, <3>3, <3>4 DEF Covered
      <3>6. cursor \in S
        BY <2>1, <2>3, <3>5
      <3>7. r \in S
        BY <1>w, <3>1, <3>6 DEF Closed
      <3> QED
        BY <2>0, <3>5, <3>7
    <2> QED
      BY <2>2, <2>3
  <1>4. ASSUME NEW r \in Reader, ReadLockIndex(r) PROVE Covered'
    <2>1. /\ UNCHANGED <<head, word, lost, init>>
          /\ \A x \in Reader : rpc'[x] = "append" => rpc[x] = "append" /\ cursor' = cursor
      BY <1>4, <1>w DEF ReadLockIndex, Go, listVars, readVars, objVars
    <2> QED
      BY <2>1, <1>c, CoverKept
  <1>5. ASSUME NEW r \in Reader, ReadLockLoad(r) PROVE Covered'
    <2>1. /\ UNCHANGED <<head, word, lost, init>>
          /\ \A x \in Reader : rpc'[x] = "append" => rpc[x] = "append" /\ cursor' = cursor
      BY <1>5, <1>w DEF ReadLockLoad, Go, listVars, readVars, objVars
    <2> QED
      BY <2>1, <1>c, CoverKept
  <1>6. ASSUME NEW r \in Reader, ReadLockStore(r) PROVE Covered'
    <2>1. /\ UNCHANGED <<head, init, cursor>> /\ lost' = lost \cup Erased(r)
          /\ \A x \in Reader : rpc'[x] = "append" => rpc[x] = "append"
          /\ rpc[r] \in {"store", "unstore"}
      BY <1>6, <1>w DEF ReadLockStore, Go, objVars
    <2>2. word'[r].next = reg[r].next /\ \A m \in Reader : m # r => word'[m] = word[m]
      BY <1>6, <1>w DEF ReadLockStore, Word
    <2>3. ASSUME NEW m \in Reader PROVE word[m].next \in {word'[m].next, Nil} \cup lost'
      <3>1. CASE m = r
        BY <2>1, <2>2, <3>1 DEF Erased
      <3>2. CASE m # r
        BY <2>2, <3>2
      <3> QED
        BY <3>1, <3>2
    <2> QED
      BY <1>c, <2>1, <2>3, CoverKept
  <1>7. ASSUME NEW r \in Reader, ReadDeref(r) PROVE Covered'
    <2>1. /\ UNCHANGED <<head, word, lost, init>>
          /\ \A x \in Reader : rpc'[x] = "append" => rpc[x] = "append" /\ cursor' = cursor
      BY <1>7, <1>w DEF ReadDeref, Go, listVars, readVars, objVars
    <2> QED
      BY <2>1, <1>c, CoverKept
  <1>8. ASSUME NEW r \in Reader, ReadUnlockLoad(r) PROVE Covered'
    <2>1. /\ UNCHANGED <<head, word, lost, init>>
          /\ \A x \in Reader : rpc'[x] = "append" => rpc[x] = "append" /\ cursor' = cursor
      BY <1>8, <1>w DEF ReadUnlockLoad, Go, listVars, readVars, objVars
    <2> QED
      BY <2>1, <1>c, CoverKept
  <1>9. ASSUME NEW r \in Reader, ReadUnlockStore(r) PROVE Covered'
    <2>1. /\ UNCHANGED <<head, init, cursor>> /\ lost' = lost \cup Erased(r)
          /\ \A x \in Reader : rpc'[x] = "append" => rpc[x] = "append"
          /\ rpc[r] \in {"store", "unstore"}
      BY <1>9, <1>w DEF ReadUnlockStore, Go, objVars
    <2>2. word'[r].next = reg[r].next /\ \A m \in Reader : m # r => word'[m] = word[m]
      BY <1>9, <1>w DEF ReadUnlockStore, Word
    <2>3. ASSUME NEW m \in Reader PROVE word[m].next \in {word'[m].next, Nil} \cup lost'
      <3>1. CASE m = r
        BY <2>1, <2>2, <3>1 DEF Erased
      <3>2. CASE m # r
        BY <2>2, <3>2
      <3> QED
        BY <3>1, <3>2
    <2> QED
      BY <1>c, <2>1, <2>3, CoverKept
  <1>10. ASSUME NEW u \in Updater, Clean(u) PROVE Covered'
    <2>1. init' = {} /\ \A x \in Reader : rpc'[x] = "new"
      BY <1>10, <1>w DEF Clean
    <2> QED
      BY <2>1 DEF Covered
  <1>11. ASSUME NEW u \in Updater, Assign(u) PROVE Covered'
    <2>1. /\ UNCHANGED <<head, word, lost, init>>
          /\ \A x \in Reader : rpc'[x] = "append" => rpc[x] = "append" /\ cursor' = cursor
      BY <1>11, <1>w DEF Assign, Go, listVars, readVars, objVars
    <2> QED
      BY <2>1, <1>c, CoverKept
  <1>12. ASSUME NEW u \in Updater, SyncLock(u) PROVE Covered'
    <2>1. /\ UNCHANGED <<head, word, lost, init>>
          /\ \A x \in Reader : rpc'[x] = "append" => rpc[x] = "append" /\ cursor' = cursor
      BY <1>12, <1>w DEF SyncLock, Go, listVars, readVars, objVars
    <2> QED
      BY <2>1, <1>c, CoverKept
  <1>13. ASSUME NEW u \in Updater, SyncWait1(u) PROVE Covered'
    <2>1. /\ UNCHANGED <<head, word, lost, init>>
          /\ \A x \in Reader : rpc'[x] = "append" => rpc[x] = "append" /\ cursor' = cursor
      BY <1>13, <1>w DEF SyncWait1, Go, listVars, readVars, objVars
    <2> QED
      BY <2>1, <1>c, CoverKept
  <1>14. ASSUME NEW u \in Updater, SyncHop1(u) PROVE Covered'
    <2>1. /\ UNCHANGED <<head, word, lost, init>>
          /\ \A x \in Reader : rpc'[x] = "append" => rpc[x] = "append" /\ cursor' = cursor
      BY <1>14, <1>w DEF SyncHop1, Go, listVars, readVars, objVars
    <2> QED
      BY <2>1, <1>c, CoverKept
  <1>15. ASSUME NEW u \in Updater, SyncFlip(u) PROVE Covered'
    <2>1. /\ UNCHANGED <<head, word, lost, init>>
          /\ \A x \in Reader : rpc'[x] = "append" => rpc[x] = "append" /\ cursor' = cursor
      BY <1>15, <1>w DEF SyncFlip, Go, listVars, readVars, objVars
    <2> QED
      BY <2>1, <1>c, CoverKept
  <1>16. ASSUME NEW u \in Updater, SyncWait2(u) PROVE Covered'
    <2>1. /\ UNCHANGED <<head, word, lost, init>>
          /\ \A x \in Reader : rpc'[x] = "append" => rpc[x] = "append" /\ cursor' = cursor
      BY <1>16, <1>w DEF SyncWait2, Go, listVars, readVars, objVars
    <2> QED
      BY <2>1, <1>c, CoverKept
  <1>17. ASSUME NEW u \in Updater, SyncHop2(u) PROVE Covered'
    <2>1. /\ UNCHANGED <<head, word, lost, init>>
          /\ \A x \in Reader : rpc'[x] = "append" => rpc[x] = "append" /\ cursor' = cursor
      BY <1>17, <1>w DEF SyncHop2, Go, listVars, readVars, objVars
    <2> QED
      BY <2>1, <1>c, CoverKept
  <1>18. ASSUME NEW u \in Updater, SyncUnlock(u) PROVE Covered'
    <2>1. /\ UNCHANGED <<head, word, lost, init>>
          /\ \A x \in Reader : rpc'[x] = "append" => rpc[x] = "append" /\ cursor' = cursor
      BY <1>18, <1>w DEF SyncUnlock, Go, listVars, readVars, objVars
    <2> QED
      BY <2>1, <1>c, CoverKept
  <1>19. ASSUME NEW u \in Updater, Free(u) PROVE Covered'
    <2>1. /\ UNCHANGED <<head, word, lost, init>>
          /\ \A x \in Reader : rpc'[x] = "append" => rpc[x] = "append" /\ cursor' = cursor
      BY <1>19, <1>w DEF Free, Go, listVars, readVars, objVars
    <2> QED
      BY <2>1, <1>c, CoverKept
  <1> QED
    BY <1>1, <1>2, <1>3, <1>4, <1>5, <1>6, <1>7, <1>8, <1>9, <1>10, <1>11, <1>12, <1>13,
       <1>14, <1>15, <1>16, <1>17, <1>18, <1>19 DEF RcuNext, ReadStep, SyncStep

LEMMA InitRcuInv == ASSUME RcuAssumption, RcuInit PROVE RcuInv
  <1> USE DEF RcuInit
  <1>1. RcuTypeOK
    BY DEF RcuAssumption, RcuTypeOK, Caller, ReaderLabel, UpdaterLabel, Word, EmptyWord, Version
  <1>2. LockHeld
    BY DEF RcuAssumption, LockHeld, Caller
  <1>3. Words
    BY DEF Words, WordOK, Caller, EmptyWord
  <1>4. Versions /\ TwoFlips
    BY DEF RcuAssumption, Versions, TwoFlips, Caller
  <1>5. Listed
    <2>1. <<>> \in Seq(Reader) /\ Len(<<>>) = 0 /\ IsInjective(<<>>)
      BY EmptySeq DEF IsInjective
    <2>2. \A x \in Reader : rpc[x] = "new"
      BY DEF Caller
    <2>3. Chain(<<>>)
      BY <2>1, <2>2 DEF Chain
    <2>4. \A i \in 1..Len(<<>>) : Grace(i, <<>>)
      BY <2>1
    <2> QED
      BY <2>1, <2>3, <2>4 DEF Listed
  <1>6. Covered
    BY DEF Covered, Caller
  <1> QED
    BY <1>1, <1>2, <1>3, <1>4, <1>5, <1>6 DEF RcuInv

LEMMA RcuInvStep == ASSUME RcuAssumption, RcuInv, [RcuNext]_rcuVars PROVE RcuInv'
  <1>1. CASE RcuNext
    BY <1>1, RcuTypeStep, LockHeldStep, WordsStep, VersionsStep, TwoFlipsStep, ListedStep,
       CoveredStep DEF RcuInv
  <1>2. CASE UNCHANGED rcuVars
    <2> USE <1>2 DEF rcuVars
    <2>1. RcuTypeOK' /\ LockHeld' /\ Words'
      BY DEF RcuInv, RcuTypeOK, LockHeld, Words, WordOK
    <2>2. Versions' /\ TwoFlips'
      BY DEF RcuInv, Versions, TwoFlips
    <2>3. Listed'
      BY DEF RcuInv, Listed, Chain, Grace, Ahead
    <2>4. Covered'
      BY DEF RcuInv, Covered, Closed
    <2> QED
      BY <2>1, <2>2, <2>3, <2>4 DEF RcuInv
  <1> QED
    BY <1>1, <1>2

(* The words, the lock, the versions and the places of the updaters in the list *)
(* stay what the grace period of rcu.h needs them to be.                        *)
THEOREM RcuInductive == ASSUME RcuAssumption PROVE RcuSpec => []RcuInv
  <1>1. RcuInit => RcuInv
    BY InitRcuInv
  <1>2. RcuInv /\ [RcuNext]_rcuVars => RcuInv'
    BY RcuInvStep
  <1> QED
    BY <1>1, <1>2, PTL DEF RcuSpec

(* synchronize_rcu frees no version under a reader that is on the list, unless    *)
(* the reader had set the bit of an index two grace periods old; and every reader *)
(* whose rcu_init succeeded is reached from the head or from a link a store       *)
(* erased or a thread gave up.                                                    *)
THEOREM GraceProtects == ASSUME RcuAssumption PROVE RcuSpec => []ReclaimSafe
  <1>1. ASSUME RcuInv PROVE ReclaimSafe
    <2>1. PICK list \in Seq(Reader) : Chain(list) /\ \A i \in 1..Len(list) : Grace(i, list)
      BY <1>1 DEF RcuInv, Listed
    <2>2. ASSUME NEW r \in Reader, held[r] \in freed, r \in Linked PROVE stale[r] /\ idx >= 2
      <3>1. rpc[r] = "reading"
        <4>1. freed \subseteq Version /\ Nil \notin Version
          BY <1>1 DEF RcuInv, RcuTypeOK, RcuAssumption, Version
        <4> QED
          BY <1>1, <2>2, <4>1 DEF RcuInv, Versions
      <3>2. PICK i \in 1..Len(list) : list[i] = r
        BY <2>1, <2>2, LinkedListed DEF Contains
      <3>3. stale[r]
        BY <2>1, <2>2, <3>1, <3>2 DEF Grace
      <3> QED
        BY <1>1, <2>2, <3>3 DEF RcuInv, TwoFlips
    <2>3. OnlyRacesLoseLinks
      <3> DEFINE T == Linked \cup UNION {ReachFrom(r) : r \in lost}
      <3>0. lost \subseteq Reader /\ word \in [Reader -> Word] /\ head \in Reader \cup {Nil}
            /\ Nil \notin Reader
        BY <1>1 DEF RcuInv, RcuTypeOK, RcuAssumption
      <3>1. \A n, m \in Reader : m \in ReachFrom(n) => word[m].next \in ReachFrom(n) \cup {Nil}
        BY <3>0 DEF ReachFrom, Closed, Word
      <3>2. \A m \in Linked : word[m].next \in Linked \cup {Nil}
        BY <3>0 DEF Linked, ReachFrom, Closed, Word
      <3>3. T \in SUBSET Reader
        BY DEF Linked, ReachFrom
      <3>4. head \in T \cup {Nil} /\ lost \subseteq T
        BY <3>0 DEF Linked, ReachFrom
      <3>5. ASSUME NEW m \in T PROVE word[m].next \in T \cup {Nil}
        <4>1. CASE m \in Linked
          BY <3>2, <4>1
        <4>2. CASE \E n \in lost : m \in ReachFrom(n)
          <5>1. PICK n \in lost : m \in ReachFrom(n)
            BY <4>2
          <5>2. n \in Reader /\ m \in Reader
            BY <3>0, <3>3
          <5>3. word[m].next \in ReachFrom(n) \cup {Nil}
            BY <3>1, <5>1, <5>2
          <5> QED
            BY <5>3
        <4> QED
          BY <4>1, <4>2
      <3>6. Closed(T)
        BY <3>5 DEF Closed
      <3> QED
        BY <1>1, <3>3, <3>4, <3>6 DEF RcuInv, Covered, OnlyRacesLoseLinks
    <2> QED
      BY <2>2, <2>3 DEF ReclaimSafe
  <1> QED
    BY <1>1, RcuInductive, PTL
=============================================================================
