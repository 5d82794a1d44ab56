----------------------------- MODULE Timers_proofs -----------------------------
(***************************************************************************)
(* Proofs about the two timers of the library, for any timers, any times   *)
(* and any number of slots.  The wheel: every timer is in its place and in *)
(* its order, no tick passes over one that is due, and a deleted timer is  *)
(* called once more at most.  The list: it is whole unless a tick comes    *)
(* into a section under the lock, discards are kept to, and ticks are on   *)
(* time.                                                                   *)
(***************************************************************************)
EXTENDS TimerWheel, TimerList, SeqLemmas, FiniteSetTheorems

-----------------------------------------------------------------------------
(* Turns of the wheel *)

(* Every slot comes once in any solt_nb ticks. *)
LEMMA Turn ==
    ASSUME NEW N \in Nat \ {0}, NEW x \in Nat, NEW a \in Nat
    PROVE  \E t \in Nat : x < t /\ t <= x + N /\ t % N = a % N
  <1> DEFINE r == a % N
             q == (x - r) \div N
             s == (x - r) % N
             t == (q + 1) * N + r
  <1>1. r \in 0..N - 1 /\ s \in 0..N - 1 /\ q \in Int
    OBVIOUS
  <1>2. x - r = N * q + s
    OBVIOUS
  <1>3. (q + 1) * N = N * q + N
    BY <1>1
  <1> HIDE DEF q, r, s
  <1>4. t = x - s + N
    BY <1>1, <1>2, <1>3
  <1>5. t % N = r
    BY <1>1
  <1> HIDE DEF t
  <1>6. t \in Nat /\ x < t /\ t <= x + N
    BY <1>1, <1>4
  <1> QED
    BY <1>5, <1>6 DEF r

LEMMA Slots ==
    ASSUME WheelAssumption, TypeOK
    PROVE  /\ \A n \in Node : tigger_ts[n] % solt_nb \in Slot
           /\ cur_ts % solt_nb \in Slot /\ Swept \in Seq(Node)
  BY DEF WheelAssumption, TypeOK, Slot, Swept

(* A sweep takes a linked timer off the front of its slot. *)
LEMMA FirstSwept ==
    ASSUME WheelAssumption, IInv, Swept # <<>>
    PROVE  /\ Swept \in Seq(Node) /\ Head(Swept) \in Node /\ Contains(Swept, Head(Swept))
           /\ state[Head(Swept)] = "linked"
           /\ IsInjective(Swept) /\ IsInjective(Tail(Swept)) /\ Tail(Swept) \in Seq(Node)
           /\ \A x : Contains(Tail(Swept), x) <=> Contains(Swept, x) /\ x # Head(Swept)
  <1>1. Swept \in Seq(Node) /\ cur_ts % solt_nb \in Slot
    BY Slots DEF IInv
  <1>2. IsInjective(Swept) /\ \A n \in Node : Contains(Swept, n) => state[n] = "linked"
    BY <1>1 DEF IInv, Placed, Swept
  <1> QED
    BY <1>1, <1>2, TailContains, TailPlaces

(* The timer that is called is the first that is due. *)
LEMMA FirstDue ==
    ASSUME IInv, tpc = "call"
    PROVE  /\ tigger # <<>> /\ Head(tigger) \in Node /\ state[Head(tigger)] = "due"
           /\ Tail(tigger) \in Seq(Node) /\ IsInjective(Tail(tigger))
           /\ \A x : Contains(Tail(tigger), x) <=> Contains(tigger, x) /\ x # Head(tigger)
  <1>1. tigger \in Seq(Node) /\ tigger # <<>> /\ IsInjective(tigger)
    BY DEF IInv, TypeOK, Placed
  <1>2. Head(tigger) \in Node /\ Contains(tigger, Head(tigger))
    BY <1>1, TailContains, TailPlaces
  <1> QED
    BY <1>1, <1>2, TailContains, TailPlaces DEF IInv, Placed

(* What an insertion adds. *)
LEMMA Inserted ==
    ASSUME WheelAssumption, IInv, NEW n \in Node, Insert(n), state[n] \in {"adding", "readding"},
           NEW i \in Slot, i = tigger_ts[n] % solt_nb
    PROVE  /\ solts' \in [Slot -> Seq(Node)] /\ born' \in Seq(Node)
           /\ \A j \in Slot : j # i => solts'[j] = solts[j]
           /\ \A x : Contains(solts'[i], x) <=> Contains(solts[i], x) \/ x = n
           /\ \A x : Contains(born', x) <=> Contains(born, x) \/ x = n
           /\ IsInjective(solts'[i]) /\ IsInjective(born')
           /\ state' = [state EXCEPT ![n] = "linked"]
  <1>1. solts[i] \in Seq(Node) /\ IsInjective(solts[i]) /\ ~Contains(solts[i], n)
    BY DEF IInv, TypeOK, Placed
  <1>2. born \in Seq(Node) /\ IsInjective(born) /\ ~Contains(born, n)
    BY DEF IInv, TypeOK, Placed
  <1>3. /\ solts' = [solts EXCEPT ![i] =
                         AddBefore(solts[i], {p \in Node : tigger_ts[p] >= tigger_ts[n]}, n)]
        /\ born' = Append(born, n) /\ state' = [state EXCEPT ![n] = "linked"]
    BY DEF Insert
  <1>4. /\ solts' \in [Slot -> Seq(Node)] /\ \A j \in Slot : j # i => solts'[j] = solts[j]
        /\ solts'[i] = AddBefore(solts[i], {p \in Node : tigger_ts[p] >= tigger_ts[n]}, n)
    BY <1>1, <1>3, AddBeforeContains DEF IInv, TypeOK
  <1> QED
    BY <1>1, <1>2, <1>3, <1>4, AddBeforeContains, AppendContains, AppendPlaces

-----------------------------------------------------------------------------
(* The order of a slot and of the timers that are due *)

(* Neither order asks for more than the times and places of its own timers. *)
LEMMA OrderKept ==
    ASSUME NEW list, NEW time, NEW time2, NEW q, NEW q2,
           \A x : Contains(list, x) => time2[x] = time[x],
           \A x, y : Contains(list, x) /\ Contains(list, y) /\ Before(q, x, y) => Before(q2, x, y)
    PROVE  /\ SlotOrder(list, time, q) => SlotOrder(list, time2, q2)
           /\ DueOrder(list, time, q) => DueOrder(list, time2, q2)
  <1>1. \A j \in 1..Len(list) : Contains(list, list[j])
    BY DEF Contains
  <1>2. SlotOrder(list, time, q) => SlotOrder(list, time2, q2)
    BY <1>1 DEF SlotOrder
  <1>3. DueOrder(list, time, q) => DueOrder(list, time2, q2)
    BY <1>1 DEF DueOrder
  <1> QED
    BY <1>2, <1>3

(* An insertion keeps its slot in order. *)
LEMMA SortedInsert ==
    ASSUME NEW S, NEW list \in Seq(S), NEW q \in Seq(S), NEW time \in [S -> Nat], NEW n \in S,
           SlotOrder(list, time, q), \A x : Contains(list, x) => Contains(q, x)
    PROVE  SlotOrder(AddBefore(list, {p \in S : time[p] >= time[n]}, n), time, Append(q, n))
  <1> DEFINE stop == {p \in S : time[p] >= time[n]}
             r == AddBefore(list, stop, n)
             p == Passed(list, stop)
             s == Append(q, n)
  <1>1. /\ Len(r) = Len(list) + 1 /\ Len(list) \in Nat /\ p \in 0..Len(list)
        /\ \A i \in 1..Len(r) : \/ i \in 1..p /\ r[i] = list[i]
                                \/ i = p + 1 /\ r[i] = n
                                \/ i - 1 \in p + 1..Len(list) /\ r[i] = list[i - 1]
    BY AddBeforePlaces
  <1>2. /\ \A i \in 1..p : list[i] \notin stop
        /\ p < Len(list) => list[p + 1] \in stop
    BY PassedEntries
  <1>3. /\ \A x, y : Before(q, x, y) => Before(s, x, y)
        /\ \A x : Contains(q, x) => Before(s, x, n)
    BY AppendBefore
  <1>4. \A x \in S : (x \in stop <=> time[x] >= time[n]) /\ time[x] \in Nat
    OBVIOUS
  <1>5. /\ \A i \in 1..Len(list) : list[i] \in S /\ Contains(list, list[i])
        /\ time[n] \in Nat
    BY QueuePlaces DEF Contains
  <1> HIDE DEF stop, r, p, s
  <1>6. ASSUME NEW i \in 1..p PROVE i \in 1..Len(list) /\ time[list[i]] < time[n]
    <2>1. i \in 1..Len(list)
      BY <1>1
    <2> QED
      BY <2>1, <1>2, <1>4, <1>5
  <1>7. ASSUME NEW i \in p + 1..Len(list)
        PROVE  /\ i \in 1..Len(list)
               /\ time[n] < time[list[i]] \/ (time[n] = time[list[i]] /\ Before(s, list[i], n))
    <2>1. i \in 1..Len(list) /\ p + 1 \in 1..Len(list) /\ (i = p + 1 \/ p + 1 < i)
      BY <1>1
    <2>2. time[list[p + 1]] >= time[n] /\ time[list[p + 1]] <= time[list[i]]
      <3>1. time[list[p + 1]] >= time[n]
        BY <2>1, <1>1, <1>2, <1>4, <1>5
      <3>2. p + 1 < i => time[list[p + 1]] < time[list[i]] \/ time[list[p + 1]] = time[list[i]]
        BY <2>1 DEF SlotOrder
      <3> QED
        BY <2>1, <3>1, <3>2, <1>5
    <2>3. Before(s, list[i], n)
      BY <2>1, <1>3, <1>5
    <2> QED
      BY <2>1, <2>2, <2>3, <1>4, <1>5
  <1>8. ASSUME NEW j \in 1..Len(list), NEW k \in 1..Len(list), j < k
        PROVE  \/ time[list[j]] < time[list[k]]
               \/ time[list[j]] = time[list[k]] /\ Before(s, list[k], list[j])
    BY <1>3, <1>8 DEF SlotOrder
  <1>9. ASSUME NEW j \in 1..Len(r), NEW k \in 1..Len(r), j < k
        PROVE  \/ time[r[j]] < time[r[k]]
               \/ time[r[j]] = time[r[k]] /\ Before(s, r[k], r[j])
    <2>1. CASE j \in 1..p /\ r[j] = list[j]
      <3>1. CASE k \in 1..p /\ r[k] = list[k]
        BY <2>1, <3>1, <1>6, <1>8, <1>9
      <3>2. CASE k = p + 1 /\ r[k] = n
        BY <2>1, <3>2, <1>6
      <3>3. CASE k - 1 \in p + 1..Len(list) /\ r[k] = list[k - 1]
        <4>1. j < k - 1
          BY <2>1, <3>3, <1>1
        <4>2. j \in 1..Len(list) /\ k - 1 \in 1..Len(list)
          BY <2>1, <3>3, <1>1
        <4> QED
          BY <4>1, <4>2, <2>1, <3>3, <1>8
      <3> QED
        BY <3>1, <3>2, <3>3, <1>1
    <2>2. CASE j = p + 1 /\ r[j] = n
      <3>0. ~(k \in 1..p) /\ k # p + 1
        BY <2>2, <1>1, <1>9
      <3>1. k - 1 \in p + 1..Len(list) /\ r[k] = list[k - 1]
        BY <3>0, <1>1
      <3> QED
        BY <2>2, <3>1, <1>7
    <2>3. CASE j - 1 \in p + 1..Len(list) /\ r[j] = list[j - 1]
      <3>1. k - 1 \in p + 1..Len(list) /\ r[k] = list[k - 1] /\ j - 1 < k - 1
        BY <2>3, <1>1, <1>9
      <3>2. j - 1 \in 1..Len(list) /\ k - 1 \in 1..Len(list)
        BY <2>3, <3>1, <1>1
      <3> QED
        BY ZenonT(60), <2>3, <3>1, <3>2, <1>8
    <2> QED
      BY <2>1, <2>2, <2>3, <1>1
  <1> QED
    BY <1>9 DEF SlotOrder, r, s, stop

(* Taking the first timer off keeps either order; in a slot it came last of *)
(* those with its time.                                                     *)
LEMMA TailOrder ==
    ASSUME NEW S, NEW list \in Seq(S), list # <<>>, NEW time, NEW q
    PROVE  /\ SlotOrder(list, time, q) =>
                 /\ SlotOrder(Tail(list), time, q)
                 /\ \A x : Contains(Tail(list), x) =>
                       time[Head(list)] < time[x] \/ Before(q, x, Head(list))
           /\ DueOrder(list, time, q) => DueOrder(Tail(list), time, q)
  <1> DEFINE r == Tail(list)
  <1>1. /\ Len(list) \in Nat \ {0} /\ Len(r) = Len(list) - 1 /\ Head(list) = list[1]
        /\ \A i \in 1..Len(list) - 1 : r[i] = list[i + 1]
    BY TailPlaces
  <1> HIDE DEF r
  <1>2. /\ 1 \in 1..Len(list)
        /\ \A i \in 1..Len(r) : i + 1 \in 1..Len(list) /\ r[i] = list[i + 1] /\ 1 < i + 1
        /\ \A j, k \in 1..Len(r) : j < k => j + 1 < k + 1
    BY <1>1
  <1>3. SlotOrder(list, time, q) => SlotOrder(r, time, q)
    BY <1>2 DEF SlotOrder
  <1>4. DueOrder(list, time, q) => DueOrder(r, time, q)
    BY <1>2 DEF DueOrder
  <1>5. SlotOrder(list, time, q) =>
            \A x : Contains(r, x) => time[list[1]] < time[x] \/ Before(q, x, list[1])
    BY <1>2 DEF SlotOrder, Contains
  <1> QED
    BY <1>1, <1>3, <1>4, <1>5 DEF r

(* A timer that was inserted before all of its time that are due goes first. *)
LEMMA DueFirst ==
    ASSUME NEW S, NEW list \in Seq(S), NEW n \in S, NEW time, NEW q, DueOrder(list, time, q),
           \A x : Contains(list, x) /\ time[n] = time[x] => Before(q, n, x)
    PROVE  DueOrder(<<n>> \o list, time, q)
  <1> DEFINE r == <<n>> \o list
  <1>1. /\ Len(list) \in Nat /\ Len(r) = Len(list) + 1 /\ r[1] = n
        /\ \A i \in 1..Len(list) : r[i + 1] = list[i]
    BY ConsContains
  <1> HIDE DEF r
  <1>2. /\ \A i \in 1..Len(r) : i = 1 \/ (i - 1 \in 1..Len(list) /\ r[i] = list[i - 1])
        /\ \A j, k \in 1..Len(r) : j < k => k # 1 /\ j - 1 < k - 1
    <2>1. ASSUME NEW i \in 1..Len(r), i # 1 PROVE i - 1 \in 1..Len(list) /\ r[i] = list[i - 1]
      <3>1. i - 1 \in 1..Len(list) /\ (i - 1) + 1 = i
        BY <1>1, <2>1
      <3> QED
        BY <1>1, <3>1
    <2> QED
      BY <1>1, <2>1
  <1>3. \A i \in 1..Len(list) : Contains(list, list[i])
    BY DEF Contains
  <1>4. ASSUME NEW j \in 1..Len(r), NEW k \in 1..Len(r), j < k, time[r[j]] = time[r[k]]
        PROVE  Before(q, r[j], r[k])
    <2>1. k - 1 \in 1..Len(list) /\ r[k] = list[k - 1] /\ Contains(list, r[k])
      BY <1>2, <1>3, <1>4
    <2>2. CASE j = 1
      BY <1>1, <1>4, <2>1, <2>2
    <2>3. CASE j # 1
      <3>1. j - 1 \in 1..Len(list) /\ r[j] = list[j - 1] /\ j - 1 < k - 1
        BY <1>2, <1>4, <2>3
      <3> QED
        BY <1>4, <2>1, <3>1 DEF DueOrder
    <2> QED
      BY <2>2, <2>3
  <1> QED
    BY <1>4 DEF DueOrder, r

-----------------------------------------------------------------------------
(* Each conjunct is kept by each step *)

(* Every step keeps the types. *)
LEMMA TypeStep ==
    ASSUME WheelAssumption, IInv, Next
    PROVE  TypeOK'
  <1> USE DEF IInv, TypeOK, fields, hist, GoOn
  <1>1. ASSUME NEW n \in Node, Add(n) PROVE TypeOK'
    <2>1. \A c \in Cycle : c \in Nat /\ cur_ts + c \in Nat
      BY DEF WheelAssumption
    <2> QED
      BY <1>1, <2>1 DEF Add
  <1>2. ASSUME NEW n \in Node, AddInsert(n) PROVE TypeOK'
    <2>1. PICK i \in Slot : i = tigger_ts[n] % solt_nb
      BY Slots
    <2>2. Insert(n) /\ state[n] \in {"adding", "readding"}
      BY <1>2 DEF AddInsert
    <2>3. /\ solts' \in [Slot -> Seq(Node)] /\ born' \in Seq(Node)
          /\ state' = [state EXCEPT ![n] = "linked"]
      BY <2>1, <2>2, Inserted
    <2>4. latest' \in [Node -> Nat]
      BY <2>2 DEF Insert, ScanOf, WheelAssumption
    <2> QED
      BY <1>2, <2>3, <2>4 DEF AddInsert
  <1>3. ASSUME NEW n \in Node, DelTimer(n) PROVE TypeOK'
    BY <1>3 DEF DelTimer
  <1>4. ASSUME NEW n \in Node, TickDone(n) PROVE TypeOK'
    <2>1. cur_ts + cycle[n] \in Nat
      OBVIOUS
    <2>2. CASE is_repeat[n]
      BY ZenonT(60), <1>4, <2>1, <2>2 DEF TickDone
    <2>3. CASE ~is_repeat[n]
      BY <1>4, <2>3 DEF TickDone
    <2> QED
      BY <2>2, <2>3
  <1>5. ASSUME NEW n \in Node, TickReadd(n) PROVE TypeOK'
    <2>1. PICK i \in Slot : i = tigger_ts[n] % solt_nb
      BY Slots
    <2>2. Insert(n) /\ state[n] \in {"adding", "readding"}
      BY <1>5 DEF TickReadd
    <2>3. /\ solts' \in [Slot -> Seq(Node)] /\ born' \in Seq(Node)
          /\ state' = [state EXCEPT ![n] = "linked"]
      BY <2>1, <2>2, Inserted
    <2>4. latest' \in [Node -> Nat]
      BY <2>2 DEF Insert, ScanOf, WheelAssumption
    <2> QED
      BY <1>5, <2>3, <2>4 DEF TickReadd
  <1>6. ASSUME TickAdvance PROVE TypeOK'
    BY <1>6 DEF TickAdvance
  <1>7. ASSUME TickLock PROVE TypeOK'
    BY <1>7 DEF TickLock
  <1>8. ASSUME TickFree PROVE TypeOK'
    <2>1. /\ solts' \in [Slot -> Seq(Node)]
          /\ Head(Swept) \in Node
      BY <1>8, FirstSwept, Slots DEF TickFree, TakeOff, Swept
    <2>2. born' \in Seq(Node)
      BY <1>8, DelContains DEF TickFree, Placed
    <2> QED
      BY <1>8, <2>1, <2>2 DEF TickFree
  <1>9. ASSUME TickMove PROVE TypeOK'
    <2>1. /\ solts' \in [Slot -> Seq(Node)]
          /\ Head(Swept) \in Node
      BY <1>9, FirstSwept, Slots DEF TickMove, TakeOff, Swept
    <2>2. tigger' \in Seq(Node)
      BY <1>9, <2>1, ConsContains DEF TickMove
    <2> QED
      BY <1>9, <2>1, <2>2 DEF TickMove
  <1>10. ASSUME TickUnlock PROVE TypeOK'
    BY <1>10 DEF TickUnlock
  <1>11. ASSUME TickCall PROVE TypeOK'
    <2>1. Head(tigger) \in Node /\ Tail(tigger) \in Seq(Node)
      BY <1>11, FirstDue DEF TickCall
    <2>2. born' \in Seq(Node)
      BY <1>11, DelContains DEF TickCall, Placed
    <2>3. callsLeft' \in [Node -> Int] /\ state' \in [Node -> {"new", "adding", "linked", "due",
                                                       "calling", "readding", "freed"}]
      BY SMTT(30), <1>11, <2>1 DEF TickCall
    <2> QED
      BY <1>11, <2>1, <2>2, <2>3 DEF TickCall
  <1>12. ASSUME Destroy PROVE TypeOK'
    BY <1>12 DEF Destroy
  <1> QED
    BY <1>1, <1>2, <1>3, <1>4, <1>5, <1>6, <1>7, <1>8,
       <1>9, <1>10, <1>11, <1>12 DEF Next

(* A timer changes its place with its state. *)
LEMMA PlacedStep ==
    ASSUME WheelAssumption, IInv, Next
    PROVE  Placed'
  <1> USE DEF fields, hist, GoOn
  <1>t. TypeOK
    BY DEF IInv
  <1>h. PICK home \in [Node -> Slot] : \A m \in Node : home[m] = tigger_ts[m] % solt_nb
    <2>1. [m \in Node |-> tigger_ts[m] % solt_nb] \in [Node -> Slot]
      BY <1>t, Slots
    <2> QED
      BY <2>1
  <1>p. /\ \A j \in Slot : IsInjective(solts[j]) /\ \A m \in Node :
              Contains(solts[j], m) <=> state[m] = "linked" /\ j = home[m]
        /\ IsInjective(tigger) /\ \A m \in Node : Contains(tigger, m) <=> state[m] = "due"
        /\ IsInjective(born)
        /\ \A m \in Node : Contains(born, m) <=> state[m] \in {"linked", "due"}
        /\ tpc \in {"wait", "scan", "destroyed"} => tigger = <<>>
        /\ tpc = "call" => tigger # <<>>
    BY <1>h DEF IInv, Placed
  <1>1. ASSUME NEW n \in Node, Add(n) PROVE Placed'
    <2>1. /\ state[n] = "new" /\ state' = [state EXCEPT ![n] = "adding"]
          /\ \A m \in Node : m # n => tigger_ts'[m] = tigger_ts[m]
          /\ UNCHANGED <<solts, born, tigger, tpc>>
      BY <1>1, <1>t DEF Add, TypeOK
    <2>2. ASSUME NEW j \in Slot, NEW m \in Node
          PROVE  /\ IsInjective(solts'[j])
                 /\ Contains(solts'[j], m) <=> state'[m] = "linked" /\ j = tigger_ts'[m] % solt_nb
      <3>1. CASE m = n
        BY <3>1, <1>t, <1>p, <2>1 DEF TypeOK
      <3>2. CASE m # n
        <4>1. tigger_ts'[m] % solt_nb = home[m] /\ state'[m] = state[m]
          BY <3>2, <1>t, <1>h, <2>1 DEF TypeOK
        <4> QED
          BY <4>1, <1>p, <2>1
      <3> QED
        BY <3>1, <3>2
    <2>3. ASSUME NEW m \in Node
          PROVE  /\ Contains(tigger', m) <=> state'[m] = "due"
                 /\ Contains(born', m) <=> state'[m] \in {"linked", "due"}
      BY SMTT(30), <1>t, <1>p, <2>1 DEF TypeOK
    <2> QED
      BY <1>p, <2>1, <2>2, <2>3 DEF Placed
  <1>2. ASSUME NEW n \in Node, AddInsert(n) PROVE Placed'
    <2>1. PICK i \in Slot : i = tigger_ts[n] % solt_nb
      BY <1>t, Slots
    <2>2. Insert(n) /\ state[n] \in {"adding", "readding"} /\ UNCHANGED <<tigger_ts, tigger>>
      BY <1>2 DEF AddInsert
    <2>3. /\ \A j \in Slot : j # i => solts'[j] = solts[j]
          /\ \A x : Contains(solts'[i], x) <=> Contains(solts[i], x) \/ x = n
          /\ \A x : Contains(born', x) <=> Contains(born, x) \/ x = n
          /\ IsInjective(solts'[i]) /\ IsInjective(born')
          /\ state' = [state EXCEPT ![n] = "linked"]
      BY ZenonT(60), <2>1, <2>2, Inserted
    <2>4. /\ tpc' \in {"wait", "scan", "destroyed"} => tigger' = <<>>
          /\ tpc' = "call" => tigger' # <<>>
      BY <1>2, <1>p DEF AddInsert
    <2>5. /\ i = home[n] /\ state'[n] = "linked"
          /\ \A m \in Node : m # n => state'[m] = state[m]
      BY <1>t, <1>h, <2>1, <2>3 DEF TypeOK

    <2>8. ASSUME NEW j \in Slot, NEW m \in Node
          PROVE  IsInjective(solts'[j]) /\ (Contains(solts'[j], m) <=> state'[m] = "linked" /\ j = home[m])
      <3>1. CASE j = i
        BY <3>1, <1>p, <2>2, <2>3, <2>4, <2>5
      <3>2. CASE j # i
        BY <3>2, <1>p, <2>2, <2>3, <2>4, <2>5
      <3> QED
        BY <3>1, <3>2
    <2>9. ASSUME NEW m \in Node
          PROVE  /\ home[m] = tigger_ts'[m] % solt_nb /\ (Contains(tigger', m) <=> state'[m] = "due")
                 /\ (Contains(born', m) <=> state'[m] \in {"linked", "due"})
      <3>1. tigger' = tigger /\ tigger_ts' = tigger_ts
        BY <2>2
      <3>2. home[m] = tigger_ts'[m] % solt_nb
        BY <1>h, <3>1
      <3>3. Contains(tigger, m) <=> state[m] = "due"
        BY <1>p
      <3>4. Contains(born', m) <=> state[m] \in {"linked", "due"} \/ m = n
        BY <1>p, <2>3
      <3>5. CASE m = n
        BY <2>2, <2>5, <3>1, <3>2, <3>3, <3>4, <3>5
      <3>6. CASE m # n
        BY <2>5, <3>1, <3>2, <3>3, <3>4, <3>6
      <3> QED
        BY <3>5, <3>6
    <2> QED
      BY <1>p, <2>2, <2>3, <2>4, <2>5, <2>8, <2>9 DEF Placed
  <1>3. ASSUME NEW n \in Node, DelTimer(n) PROVE Placed'
    BY <1>3, <1>h, <1>p DEF DelTimer, Placed
  <1>4. ASSUME NEW n \in Node, TickDone(n) PROVE Placed'
    <2>1. /\ state[n] = "calling" /\ state'[n] \in {"readding", "freed"}
          /\ \A m \in Node : m # n => tigger_ts'[m] = tigger_ts[m] /\ state'[m] = state[m]
          /\ UNCHANGED <<solts, born, tigger>>
          /\ tpc' \in {"wait", "scan", "destroyed"} => tigger' = <<>>
          /\ tpc' = "call" => tigger' # <<>>
      BY <1>4, <1>t DEF TickDone, TypeOK
    <2>2. ASSUME NEW j \in Slot, NEW m \in Node
          PROVE  /\ IsInjective(solts'[j])
                 /\ Contains(solts'[j], m) <=> state'[m] = "linked" /\ j = tigger_ts'[m] % solt_nb
      <3>1. CASE m = n
        BY <3>1, <1>t, <1>p, <2>1 DEF TypeOK
      <3>2. CASE m # n
        <4>1. tigger_ts'[m] % solt_nb = home[m] /\ state'[m] = state[m]
          BY <3>2, <1>t, <1>h, <2>1 DEF TypeOK
        <4> QED
          BY <4>1, <1>p, <2>1
      <3> QED
        BY <3>1, <3>2
    <2>3. ASSUME NEW m \in Node
          PROVE  /\ Contains(tigger', m) <=> state'[m] = "due"
                 /\ Contains(born', m) <=> state'[m] \in {"linked", "due"}
      BY <1>t, <1>p, <2>1 DEF TypeOK
    <2> QED
      BY <1>p, <2>1, <2>2, <2>3 DEF Placed
  <1>5. ASSUME NEW n \in Node, TickReadd(n) PROVE Placed'
    <2>1. PICK i \in Slot : i = tigger_ts[n] % solt_nb
      BY <1>t, Slots
    <2>2. Insert(n) /\ state[n] \in {"adding", "readding"} /\ UNCHANGED <<tigger_ts, tigger>>
      BY <1>5 DEF TickReadd
    <2>3. /\ \A j \in Slot : j # i => solts'[j] = solts[j]
          /\ \A x : Contains(solts'[i], x) <=> Contains(solts[i], x) \/ x = n
          /\ \A x : Contains(born', x) <=> Contains(born, x) \/ x = n
          /\ IsInjective(solts'[i]) /\ IsInjective(born')
          /\ state' = [state EXCEPT ![n] = "linked"]
      BY ZenonT(60), <2>1, <2>2, Inserted
    <2>4. /\ tpc' \in {"wait", "scan", "destroyed"} => tigger' = <<>>
          /\ tpc' = "call" => tigger' # <<>>
      BY <1>5, <1>p DEF TickReadd
    <2>5. /\ i = home[n] /\ state'[n] = "linked"
          /\ \A m \in Node : m # n => state'[m] = state[m]
      BY <1>t, <1>h, <2>1, <2>3 DEF TypeOK

    <2>8. ASSUME NEW j \in Slot, NEW m \in Node
          PROVE  IsInjective(solts'[j]) /\ (Contains(solts'[j], m) <=> state'[m] = "linked" /\ j = home[m])
      <3>1. CASE j = i
        BY <3>1, <1>p, <2>2, <2>3, <2>4, <2>5
      <3>2. CASE j # i
        BY <3>2, <1>p, <2>2, <2>3, <2>4, <2>5
      <3> QED
        BY <3>1, <3>2
    <2>9. ASSUME NEW m \in Node
          PROVE  /\ home[m] = tigger_ts'[m] % solt_nb /\ (Contains(tigger', m) <=> state'[m] = "due")
                 /\ (Contains(born', m) <=> state'[m] \in {"linked", "due"})
      <3>1. tigger' = tigger /\ tigger_ts' = tigger_ts
        BY <2>2
      <3>2. home[m] = tigger_ts'[m] % solt_nb
        BY <1>h, <3>1
      <3>3. Contains(tigger, m) <=> state[m] = "due"
        BY <1>p
      <3>4. Contains(born', m) <=> state[m] \in {"linked", "due"} \/ m = n
        BY <1>p, <2>3
      <3>5. CASE m = n
        BY <2>2, <2>5, <3>1, <3>2, <3>3, <3>4, <3>5
      <3>6. CASE m # n
        BY <2>5, <3>1, <3>2, <3>3, <3>4, <3>6
      <3> QED
        BY <3>5, <3>6
    <2> QED
      BY <1>p, <2>2, <2>3, <2>4, <2>5, <2>8, <2>9 DEF Placed
  <1>6. ASSUME TickAdvance PROVE Placed'
    BY <1>6, <1>h, <1>p DEF TickAdvance, Placed
  <1>7. ASSUME TickLock PROVE Placed'
    BY <1>7, <1>h, <1>p DEF TickLock, Placed
  <1>8. ASSUME TickFree PROVE Placed'
    <2>1. PICK n \in Node : n = Head(Swept) /\ state[n] = "linked"
      BY <1>8, FirstSwept DEF TickFree
    <2>2. PICK i \in Slot : i = cur_ts % solt_nb
      BY <1>t, Slots
    <2>3. /\ \A j \in Slot : j # i => solts'[j] = solts[j]
          /\ solts'[i] = Tail(Swept) /\ Swept = solts[i]
      BY <1>8, <1>t, <2>2 DEF TickFree, TakeOff, TypeOK, Swept
    <2>4. /\ IsInjective(solts'[i]) /\ Contains(solts[i], n)
          /\ \A x : Contains(solts'[i], x) <=> Contains(solts[i], x) /\ x # n
      BY <1>8, <2>1, <2>3, FirstSwept DEF TickFree
    <2>6. /\ IsInjective(born') /\ \A x : Contains(born', x) <=> Contains(born, x) /\ x # n
      BY <1>8, <1>t, <1>p, <2>1, DelContains DEF TickFree, TypeOK
    <2>7. /\ state'[n] = "freed" /\ \A m \in Node : m # n => state'[m] = state[m]
          /\ tpc = "sweep" /\ UNCHANGED <<tigger_ts, tigger, tpc>>
      BY <1>8, <1>t, <2>1 DEF TickFree, TypeOK
    <2>h. i = home[n]
      BY <1>p, <2>1, <2>4
    <2>8. ASSUME NEW j \in Slot, NEW m \in Node
          PROVE  IsInjective(solts'[j]) /\ (Contains(solts'[j], m) <=> state'[m] = "linked" /\ j = home[m])
      <3>1. CASE j = i
        BY SMTT(30), <3>1, <1>p, <2>1, <2>3, <2>4, <2>6, <2>7, <2>h
      <3>2. CASE j # i
        <4>1. solts'[j] = solts[j] /\ IsInjective(solts[j])
          BY <3>2, <1>p, <2>3
        <4>2. Contains(solts[j], m) <=> state[m] = "linked" /\ j = home[m]
          BY <1>p
        <4>3. m = n => j # home[m]
          BY <3>2, <2>h
        <4>4. m # n => state'[m] = state[m]
          BY <2>7
        <4> QED
          BY <4>1, <4>2, <4>3, <4>4
      <3> QED
        BY <3>1, <3>2
    <2>9. ASSUME NEW m \in Node
          PROVE  /\ home[m] = tigger_ts'[m] % solt_nb /\ (Contains(tigger', m) <=> state'[m] = "due")
                 /\ (Contains(born', m) <=> state'[m] \in {"linked", "due"})
      <3>1. /\ home[m] = tigger_ts[m] % solt_nb
            /\ (Contains(tigger, m) <=> state[m] = "due")
            /\ (Contains(born, m) <=> state[m] \in {"linked", "due"})
        BY <1>h, <1>p
      <3>2. CASE m = n
        BY <3>1, <3>2, <2>1, <2>6, <2>7
      <3>3. CASE m # n
        BY <3>1, <3>3, <2>6, <2>7
      <3> QED
        BY <3>2, <3>3
    <2> QED
      BY SMTT(30), <1>p, <2>1, <2>3, <2>4, <2>6, <2>7, <2>h, <2>8, <2>9 DEF Placed
  <1>9. ASSUME TickMove PROVE Placed'
    <2>1. PICK n \in Node : n = Head(Swept) /\ state[n] = "linked"
      BY <1>9, FirstSwept DEF TickMove
    <2>2. PICK i \in Slot : i = cur_ts % solt_nb
      BY <1>t, Slots
    <2>3. /\ \A j \in Slot : j # i => solts'[j] = solts[j]
          /\ solts'[i] = Tail(Swept) /\ Swept = solts[i]
      BY <1>9, <1>t, <2>2 DEF TickMove, TakeOff, TypeOK, Swept
    <2>4. /\ IsInjective(solts'[i]) /\ Contains(solts[i], n)
          /\ \A x : Contains(solts'[i], x) <=> Contains(solts[i], x) /\ x # n
      BY <1>9, <2>1, <2>3, FirstSwept DEF TickMove
    <2>6. /\ IsInjective(tigger') /\ \A x : Contains(tigger', x) <=> Contains(tigger, x) \/ x = n
      BY <1>9, <1>t, <1>p, <2>1, ConsContains DEF TickMove, TypeOK
    <2>7. /\ state'[n] = "due" /\ \A m \in Node : m # n => state'[m] = state[m]
          /\ tpc = "sweep" /\ UNCHANGED <<tigger_ts, born, tpc>>
      BY <1>9, <1>t, <2>1 DEF TickMove, TypeOK
    <2>h. i = home[n]
      BY <1>p, <2>1, <2>4

    <2>8. ASSUME NEW j \in Slot, NEW m \in Node
          PROVE  IsInjective(solts'[j]) /\ (Contains(solts'[j], m) <=> state'[m] = "linked" /\ j = home[m])
      <3>1. CASE j = i
        BY <3>1, <1>p, <2>1, <2>3, <2>4, <2>6, <2>7, <2>h
      <3>2. CASE j # i
        BY <3>2, <1>p, <2>1, <2>3, <2>4, <2>6, <2>7, <2>h
      <3> QED
        BY <3>1, <3>2
    <2>9. ASSUME NEW m \in Node
          PROVE  /\ home[m] = tigger_ts'[m] % solt_nb /\ (Contains(tigger', m) <=> state'[m] = "due")
                 /\ (Contains(born', m) <=> state'[m] \in {"linked", "due"})
      BY SMTT(30), <1>t, <1>h, <1>p, <2>1, <2>3, <2>4, <2>6, <2>7, <2>h DEF TypeOK
    <2> QED
      BY SMTT(30), <1>p, <2>1, <2>3, <2>4, <2>6, <2>7, <2>h, <2>8, <2>9 DEF Placed
  <1>10. ASSUME TickUnlock PROVE Placed'
    BY <1>10, <1>h, <1>p DEF TickUnlock, Placed
  <1>11. ASSUME TickCall PROVE Placed'
    <2>1. PICK n \in Node : n = Head(tigger) /\ state[n] = "due"
      BY <1>11, FirstDue DEF TickCall
    <2>2. /\ IsInjective(tigger') /\ \A x : Contains(tigger', x) <=> Contains(tigger, x) /\ x # n
      BY <1>11, <2>1, FirstDue DEF TickCall
    <2>3. /\ IsInjective(born') /\ \A x : Contains(born', x) <=> Contains(born, x) /\ x # n
      BY <1>11, <1>t, <1>p, <2>1, DelContains DEF TickCall, TypeOK
    <2>4. /\ state'[n] = "calling" /\ \A m \in Node : m # n => state'[m] = state[m]
          /\ tpc' = "done" /\ UNCHANGED <<solts, tigger_ts>>
      BY <1>11, <1>t, <2>1 DEF TickCall, TypeOK
    <2> QED
      BY <1>h, <1>p, <2>1, <2>2, <2>3, <2>4 DEF Placed
  <1>12. ASSUME Destroy PROVE Placed'
    <2>1. IsInjective(<<>>) /\ \A x : ~Contains(<<>>, x)
      BY DEF IsInjective, Contains
    <2>2. tigger = <<>> /\ \A n \in Node : state[n] # "due"
      BY <1>12, <1>p, <2>1 DEF Destroy
    <2>3. \A n \in Node : state'[n] # "linked" /\ state'[n] # "due"
      BY <1>12, <2>2 DEF Destroy
    <2>4. /\ born' = <<>> /\ tigger' = <<>> /\ tpc' = "destroyed" /\ \A i \in Slot : solts'[i] = <<>>
      BY <1>12, <2>2 DEF Destroy
    <2> QED
      BY <2>1, <2>3, <2>4 DEF Placed
  <1> QED
    BY <1>1, <1>2, <1>3, <1>4, <1>5, <1>6, <1>7, <1>8,
       <1>9, <1>10, <1>11, <1>12 DEF Next

(* An insertion sorts, a sweep turns the timers of one time round. *)
LEMMA OrderedStep ==
    ASSUME WheelAssumption, IInv, Next
    PROVE  Ordered'
  <1> USE DEF fields, hist, GoOn
  <1>t. TypeOK
    BY DEF IInv
  <1>p. /\ \A j \in Slot : \A m \in Node :
              Contains(solts[j], m) <=> state[m] = "linked" /\ j = tigger_ts[m] % solt_nb
        /\ \A m \in Node : Contains(tigger, m) <=> state[m] = "due"
        /\ IsInjective(born)
        /\ \A m \in Node : Contains(born, m) <=> state[m] \in {"linked", "due"}
    BY DEF IInv, Placed
  <1>o. /\ \A i \in Slot : SlotOrder(solts[i], tigger_ts, born)
        /\ DueOrder(tigger, tigger_ts, born)
        /\ tpc = "sweep" => \A n, m \in Node :
              Contains(Swept, n) /\ Contains(tigger, m) /\ tigger_ts[n] = tigger_ts[m] =>
                  Before(born, n, m)
    BY DEF IInv, Ordered, EqualTimesInOrder
  <1>1. ASSUME NEW n \in Node, Add(n) PROVE Ordered'
    <2>1. /\ state[n] \in {"new", "calling"} /\ UNCHANGED <<solts, born, tigger, cur_ts>>
          /\ \A m \in Node : m # n => tigger_ts'[m] = tigger_ts[m]
          /\ tpc' = "sweep" => tpc = "sweep"
      BY <1>1, <1>t DEF Add, TypeOK
    <2>2. /\ \A i \in Slot : \A m : Contains(solts[i], m) => tigger_ts'[m] = tigger_ts[m]
          /\ \A m : Contains(tigger, m) => tigger_ts'[m] = tigger_ts[m]
      BY <1>t, <1>p, <2>1, ContainsElement DEF TypeOK
    <2>3. \A i \in Slot : SlotOrder(solts'[i], tigger_ts', born')
      BY <1>o, <2>1, <2>2, OrderKept
    <2>4. DueOrder(tigger', tigger_ts', born')
      BY <1>o, <2>1, <2>2, OrderKept
    <2>5. Swept' = Swept /\ \A m : Contains(Swept, m) => tigger_ts'[m] = tigger_ts[m]
      BY <1>t, <2>1, <2>2, Slots DEF Swept
    <2> QED
      BY <1>o, <2>1, <2>2, <2>3, <2>4, <2>5 DEF Ordered, EqualTimesInOrder
  <1>2. ASSUME NEW n \in Node, AddInsert(n) PROVE Ordered'
    <2>1. PICK i \in Slot : i = tigger_ts[n] % solt_nb
      BY <1>t, Slots
    <2>2. /\ Insert(n) /\ state[n] \in {"adding", "readding"} /\ UNCHANGED <<tigger_ts, tigger, cur_ts>>
          /\ tpc' = "sweep" => i # cur_ts % solt_nb /\ tpc = "sweep"
      BY <1>2, <2>1 DEF AddInsert
    <2>3. /\ solts'[i] = AddBefore(solts[i], {p \in Node : tigger_ts[p] >= tigger_ts[n]}, n)
          /\ \A j \in Slot : j # i => solts'[j] = solts[j]
          /\ born' = Append(born, n)
      BY <1>t, <2>1, <2>2 DEF Insert, TypeOK
    <2>4. \A x, y : Before(born, x, y) => Before(born', x, y)
      BY <1>t, <2>3, AppendBefore DEF TypeOK
    <2>5. SlotOrder(solts'[i], tigger_ts, born')
      <3>1. \A x : Contains(solts[i], x) => Contains(born, x)
        BY <1>t, <1>p, ContainsElement DEF TypeOK
      <3>2. solts[i] \in Seq(Node) /\ born \in Seq(Node) /\ tigger_ts \in [Node -> Nat]
        BY <1>t DEF TypeOK
      <3>3. SlotOrder(solts[i], tigger_ts, born)
        BY <1>o
      <3>4. SlotOrder(AddBefore(solts[i], {p \in Node : tigger_ts[p] >= tigger_ts[n]}, n),
                      tigger_ts, Append(born, n))
        BY <3>1, <3>2, <3>3, SortedInsert, Zenon
      <3> QED
        BY <2>3, <3>4
    <2>6. ASSUME NEW j \in Slot, j # i PROVE SlotOrder(solts'[j], tigger_ts, born')
      BY <1>o, <2>3, <2>4, <2>6, OrderKept
    <2>7. DueOrder(tigger', tigger_ts', born')
      BY <1>o, <2>2, <2>4, OrderKept
    <2>8. tpc' = "sweep" => Swept' = Swept /\ tpc = "sweep"
      BY <1>t, <2>1, <2>2, <2>3, Slots DEF Swept
    <2> QED
      BY <1>o, <2>2, <2>4, <2>5, <2>6, <2>7, <2>8 DEF Ordered, EqualTimesInOrder
  <1>3. ASSUME NEW n \in Node, DelTimer(n) PROVE Ordered'
    <2>1. UNCHANGED <<solts, tigger, tigger_ts, born, cur_ts>> /\ (tpc' = "sweep" => tpc = "sweep")
      BY <1>3 DEF DelTimer
    <2> QED
      BY <2>1, <1>o DEF Swept, Ordered, EqualTimesInOrder
  <1>4. ASSUME NEW n \in Node, TickDone(n) PROVE Ordered'
    <2>1. /\ state[n] \in {"new", "calling"} /\ UNCHANGED <<solts, born, tigger, cur_ts>>
          /\ \A m \in Node : m # n => tigger_ts'[m] = tigger_ts[m]
          /\ tpc' = "sweep" => tpc = "sweep"
      BY <1>4, <1>t DEF TickDone, TypeOK
    <2>2. /\ \A i \in Slot : \A m : Contains(solts[i], m) => tigger_ts'[m] = tigger_ts[m]
          /\ \A m : Contains(tigger, m) => tigger_ts'[m] = tigger_ts[m]
      BY <1>t, <1>p, <2>1, ContainsElement DEF TypeOK
    <2>3. \A i \in Slot : SlotOrder(solts'[i], tigger_ts', born')
      BY <1>o, <2>1, <2>2, OrderKept
    <2>4. DueOrder(tigger', tigger_ts', born')
      BY <1>o, <2>1, <2>2, OrderKept
    <2>5. Swept' = Swept /\ \A m : Contains(Swept, m) => tigger_ts'[m] = tigger_ts[m]
      BY <1>t, <2>1, <2>2, Slots DEF Swept
    <2> QED
      BY <1>o, <2>1, <2>2, <2>3, <2>4, <2>5 DEF Ordered, EqualTimesInOrder
  <1>5. ASSUME NEW n \in Node, TickReadd(n) PROVE Ordered'
    <2>1. PICK i \in Slot : i = tigger_ts[n] % solt_nb
      BY <1>t, Slots
    <2>2. /\ Insert(n) /\ state[n] \in {"adding", "readding"} /\ UNCHANGED <<tigger_ts, tigger, cur_ts>>
          /\ tpc' = "sweep" => i # cur_ts % solt_nb /\ tpc = "sweep"
      BY <1>5, <2>1 DEF TickReadd
    <2>3. /\ solts'[i] = AddBefore(solts[i], {p \in Node : tigger_ts[p] >= tigger_ts[n]}, n)
          /\ \A j \in Slot : j # i => solts'[j] = solts[j]
          /\ born' = Append(born, n)
      BY <1>t, <2>1, <2>2 DEF Insert, TypeOK
    <2>4. \A x, y : Before(born, x, y) => Before(born', x, y)
      BY <1>t, <2>3, AppendBefore DEF TypeOK
    <2>5. SlotOrder(solts'[i], tigger_ts, born')
      <3>1. \A x : Contains(solts[i], x) => Contains(born, x)
        BY <1>t, <1>p, ContainsElement DEF TypeOK
      <3>2. solts[i] \in Seq(Node) /\ born \in Seq(Node) /\ tigger_ts \in [Node -> Nat]
        BY <1>t DEF TypeOK
      <3>3. SlotOrder(solts[i], tigger_ts, born)
        BY <1>o
      <3>4. SlotOrder(AddBefore(solts[i], {p \in Node : tigger_ts[p] >= tigger_ts[n]}, n),
                      tigger_ts, Append(born, n))
        BY <3>1, <3>2, <3>3, SortedInsert, Zenon
      <3> QED
        BY <2>3, <3>4
    <2>6. ASSUME NEW j \in Slot, j # i PROVE SlotOrder(solts'[j], tigger_ts, born')
      BY <1>o, <2>3, <2>4, <2>6, OrderKept
    <2>7. DueOrder(tigger', tigger_ts', born')
      BY <1>o, <2>2, <2>4, OrderKept
    <2>8. tpc' = "sweep" => Swept' = Swept /\ tpc = "sweep"
      BY <1>t, <2>1, <2>2, <2>3, Slots DEF Swept
    <2> QED
      BY <1>o, <2>2, <2>4, <2>5, <2>6, <2>7, <2>8 DEF Ordered, EqualTimesInOrder
  <1>6. ASSUME TickAdvance PROVE Ordered'
    BY <1>6, <1>o DEF TickAdvance, Ordered, EqualTimesInOrder
  <1>7. ASSUME TickLock PROVE Ordered'
    <2>1. UNCHANGED <<solts, tigger, tigger_ts, born, cur_ts>> /\ tigger = <<>>
      BY <1>7 DEF TickLock, IInv, Placed
    <2>2. \A m : ~Contains(tigger, m)
      BY <2>1 DEF Contains
    <2> QED
      BY <1>o, <2>1, <2>2 DEF Ordered, EqualTimesInOrder
  <1>8. ASSUME TickFree PROVE Ordered'
    <2>1. PICK n \in Node : n = Head(Swept) /\ state[n] = "linked"
      BY <1>8, FirstSwept DEF TickFree
    <2>2. PICK i \in Slot : i = cur_ts % solt_nb
      BY <1>t, Slots
    <2>3. /\ \A j \in Slot : j # i => solts'[j] = solts[j]
          /\ solts'[i] = Tail(Swept) /\ Swept = solts[i] /\ Swept' = Tail(Swept)
          /\ Swept \in Seq(Node) /\ Swept # <<>> /\ tpc = "sweep" /\ UNCHANGED <<tigger_ts, cur_ts>>
      BY <1>8, <1>t, <2>2 DEF TickFree, TakeOff, TypeOK, Swept
    <2>4. /\ \A x : Contains(Swept', x) => Contains(Swept, x) /\ x # n
          /\ Contains(Swept, n)
      BY <1>8, <2>1, <2>3, FirstSwept DEF TickFree
    <2>5. \A j \in Slot : \A x : Contains(solts'[j], x) => Contains(solts[j], x) /\ x # n
      BY <1>p, <2>1, <2>3, <2>4
    <2>6. /\ \A j \in Slot : SlotOrder(solts'[j], tigger_ts, born)
          /\ \A x : Contains(Swept', x) => tigger_ts[n] < tigger_ts[x] \/ Before(born, x, n)
      BY <1>o, <2>1, <2>3, TailOrder
    <2>7. \A x, y : Before(born, x, y) /\ x # n /\ y # n => Before(born', x, y)
      <3>1. born' = Del(born, n) /\ born \in Seq(Node) /\ IsInjective(born)
        BY <1>8, <1>t, <1>p, <2>1 DEF TickFree, TypeOK
      <3> QED
        BY <3>1, DelBefore
    <2>8. tigger' = tigger /\ ~Contains(tigger, n)
      BY <1>8, <1>p, <2>1 DEF TickFree
    <2>9. \A j \in Slot : SlotOrder(solts'[j], tigger_ts', born')
      BY <2>3, <2>5, <2>6, <2>7, OrderKept
    <2>10. DueOrder(tigger', tigger_ts', born')
      BY <1>o, <2>3, <2>7, <2>8, OrderKept
    <2> QED
      BY <1>o, <2>3, <2>4, <2>7, <2>8, <2>9, <2>10 DEF Ordered, EqualTimesInOrder
  <1>9. ASSUME TickMove PROVE Ordered'
    <2>1. PICK n \in Node : n = Head(Swept) /\ state[n] = "linked"
      BY <1>9, FirstSwept DEF TickMove
    <2>2. PICK i \in Slot : i = cur_ts % solt_nb
      BY <1>t, Slots
    <2>3. /\ \A j \in Slot : j # i => solts'[j] = solts[j]
          /\ solts'[i] = Tail(Swept) /\ Swept = solts[i] /\ Swept' = Tail(Swept)
          /\ Swept \in Seq(Node) /\ Swept # <<>> /\ tpc = "sweep" /\ UNCHANGED <<tigger_ts, cur_ts>>
      BY <1>9, <1>t, <2>2 DEF TickMove, TakeOff, TypeOK, Swept
    <2>4. /\ \A x : Contains(Swept', x) => Contains(Swept, x) /\ x # n
          /\ Contains(Swept, n)
      BY <1>9, <2>1, <2>3, FirstSwept DEF TickMove
    <2>5. \A j \in Slot : \A x : Contains(solts'[j], x) => Contains(solts[j], x) /\ x # n
      BY <1>p, <2>1, <2>3, <2>4
    <2>6. /\ \A j \in Slot : SlotOrder(solts'[j], tigger_ts, born)
          /\ \A x : Contains(Swept', x) => tigger_ts[n] < tigger_ts[x] \/ Before(born, x, n)
      BY <1>o, <2>1, <2>3, TailOrder
    <2>7. tigger' = <<n>> \o tigger /\ born' = born /\ \A x : Contains(tigger', x) <=> Contains(tigger, x) \/ x = n
      BY <1>9, <1>t, <2>1, ConsContains DEF TickMove, TypeOK
    <2>8. DueOrder(tigger', tigger_ts', born')
      <3>1. \A x : Contains(tigger, x) /\ tigger_ts[n] = tigger_ts[x] => Before(born, n, x)
        BY <1>t, <1>o, <2>3, <2>4, ContainsElement DEF TypeOK
      <3> QED
        BY <1>t, <1>o, <2>3, <2>7, <3>1, DueFirst DEF TypeOK
    <2>9. ASSUME NEW x \in Node, NEW y \in Node, Contains(Swept', x), Contains(tigger', y),
                 tigger_ts[x] = tigger_ts[y]
          PROVE  Before(born, x, y)
      <3>1. CASE y = n
        <4>1. ~(tigger_ts[n] < tigger_ts[x])
          BY <3>1, <2>9, <1>t DEF TypeOK
        <4> QED
          BY <4>1, <3>1, <2>6, <2>9
      <3>2. CASE y # n
        BY <3>2, <1>o, <2>3, <2>4, <2>7, <2>9
      <3> QED
        BY <3>1, <3>2
    <2> QED
      BY <2>3, <2>6, <2>7, <2>8, <2>9 DEF Ordered, EqualTimesInOrder
  <1>10. ASSUME TickUnlock PROVE Ordered'
    <2>1. UNCHANGED <<solts, tigger, tigger_ts, born, cur_ts>> /\ (tpc' = "sweep" => tpc = "sweep")
      BY <1>10 DEF TickUnlock
    <2> QED
      BY <2>1, <1>o DEF Swept, Ordered, EqualTimesInOrder
  <1>11. ASSUME TickCall PROVE Ordered'
    <2>1. PICK n \in Node : n = Head(tigger) /\ state[n] = "due"
      BY <1>11, FirstDue DEF TickCall
    <2>2. /\ born' = Del(born, n) /\ tigger' = Tail(tigger) /\ tpc' = "done"
          /\ UNCHANGED <<solts, tigger_ts>>
      BY <1>11, <2>1 DEF TickCall
    <2>3. \A x, y : Before(born, x, y) /\ x # n /\ y # n => Before(born', x, y)
      BY <1>t, <1>p, <2>2, DelBefore DEF TypeOK
    <2>4. /\ \A j \in Slot : ~Contains(solts[j], n)
          /\ \A x : Contains(tigger', x) => x # n
      BY <1>11, <1>p, <2>1, <2>2, FirstDue DEF TickCall
    <2>5. \A j \in Slot : SlotOrder(solts'[j], tigger_ts', born')
      BY <1>o, <2>2, <2>3, <2>4, OrderKept
    <2>6. DueOrder(tigger', tigger_ts', born')
      <3>1. DueOrder(tigger', tigger_ts, born)
        BY <1>11, <1>t, <1>o, <2>2, FirstDue, TailOrder DEF TickCall, TypeOK
      <3> QED
        BY <3>1, <2>2, <2>3, <2>4, OrderKept
    <2> QED
      BY <2>2, <2>5, <2>6 DEF Ordered, EqualTimesInOrder
  <1>12. ASSUME Destroy PROVE Ordered'
    <2>1. tigger = <<>>
      BY <1>12 DEF Destroy, IInv, Placed
    <2>2. /\ tigger' = <<>> /\ tpc' = "destroyed" /\ \A i \in Slot : solts'[i] = <<>>
      BY <1>12, <2>1 DEF Destroy
    <2>3. \A time, q : SlotOrder(<<>>, time, q) /\ DueOrder(<<>>, time, q)
      BY DEF SlotOrder, DueOrder
    <2> QED
      BY <2>2, <2>3 DEF Ordered, EqualTimesInOrder
  <1> QED
    BY <1>1, <1>2, <1>3, <1>4, <1>5, <1>6, <1>7, <1>8,
       <1>9, <1>10, <1>11, <1>12 DEF Next

(* An insertion finds a scan to come, and the scan whose time has come takes *)
(* every timer of its slot that is due.                                      *)
LEMMA AwaitedStep ==
    ASSUME WheelAssumption, IInv, Next
    PROVE  Awaited'
  <1> USE DEF fields, hist, GoOn
  <1>t. TypeOK
    BY DEF IInv
  <1>a. \A n \in Node : state[n] = "linked" =>
            \E t \in Nat :
                /\ t % solt_nb = tigger_ts[n] % solt_nb
                /\ tigger_ts[n] <= t /\ t <= latest[n]
                /\ cur_ts < t \/ (cur_ts = t /\ tpc \in {"scan", "sweep"})
    BY DEF IInv, Awaited
  <1>1. ASSUME NEW n \in Node, Add(n) PROVE Awaited'
    <2>1. /\ \A m \in Node : state'[m] = "linked" =>
                state[m] = "linked" /\ tigger_ts'[m] = tigger_ts[m] /\ latest'[m] = latest[m]
          /\ cur_ts' = cur_ts /\ (tpc \in {"scan", "sweep"} => tpc' \in {"scan", "sweep"})
      BY <1>1, <1>t DEF Add, TypeOK
    <2> QED
      BY <2>1, <1>a DEF Awaited
  <1>2. ASSUME NEW n \in Node, AddInsert(n) PROVE Awaited'
    <2>1. Insert(n) /\ UNCHANGED <<tigger_ts, cur_ts>> /\ tpc' = tpc
      BY <1>2 DEF AddInsert
    <2>2. /\ \A m \in Node : m # n => state'[m] = state[m] /\ latest'[m] = latest[m]
          /\ latest'[n] = ScanOf(n)
      BY <1>t, <2>1 DEF Insert, TypeOK
    <2>3. cur_ts \in Nat /\ tigger_ts[n] \in Nat /\ solt_nb \in Nat \ {0}
      BY <1>t DEF TypeOK, WheelAssumption
    <2>4. \E t \in Nat : /\ t % solt_nb = tigger_ts[n] % solt_nb
                         /\ tigger_ts[n] <= t /\ t <= ScanOf(n)
                         /\ cur_ts < t \/ (cur_ts = t /\ tpc = "scan")
      <3>1. CASE cur_ts < tigger_ts[n] \/ (cur_ts = tigger_ts[n] /\ tpc = "scan")
        BY <3>1, <2>3 DEF ScanOf
      <3>2. CASE ~(cur_ts < tigger_ts[n] \/ (cur_ts = tigger_ts[n] /\ tpc = "scan"))
        <4>1. PICK t \in Nat : cur_ts < t /\ t <= cur_ts + solt_nb /\ t % solt_nb = tigger_ts[n] % solt_nb
          BY <2>3, Turn
        <4>2. ScanOf(n) = cur_ts + solt_nb /\ tigger_ts[n] <= t
          BY <3>2, <4>1, <2>3 DEF ScanOf
        <4> QED
          BY <4>1, <4>2
      <3> QED
        BY <3>1, <3>2
    <2>5. ASSUME NEW m \in Node, state'[m] = "linked"
          PROVE  \E t \in Nat : /\ t % solt_nb = tigger_ts'[m] % solt_nb
                                /\ tigger_ts'[m] <= t /\ t <= latest'[m]
                                /\ cur_ts' < t \/ (cur_ts' = t /\ tpc' \in {"scan", "sweep"})
      <3>1. CASE m = n
        BY <3>1, <2>1, <2>2, <2>4
      <3>2. CASE m # n
        <4>1. state[m] = "linked" /\ latest'[m] = latest[m] /\ tigger_ts'[m] = tigger_ts[m]
          BY <3>2, <2>1, <2>2, <2>5
        <4> QED
          BY <4>1, <1>a, <2>1
      <3> QED
        BY <3>1, <3>2
    <2> QED
      BY <2>5 DEF Awaited
  <1>3. ASSUME NEW n \in Node, DelTimer(n) PROVE Awaited'
    <2>1. /\ \A m \in Node : state'[m] = "linked" =>
                state[m] = "linked" /\ tigger_ts'[m] = tigger_ts[m] /\ latest'[m] = latest[m]
          /\ cur_ts' = cur_ts /\ (tpc \in {"scan", "sweep"} => tpc' \in {"scan", "sweep"})
      BY <1>3, <1>t DEF DelTimer, TypeOK
    <2> QED
      BY <2>1, <1>a DEF Awaited
  <1>4. ASSUME NEW n \in Node, TickDone(n) PROVE Awaited'
    <2>1. /\ \A m \in Node : state'[m] = "linked" =>
                state[m] = "linked" /\ tigger_ts'[m] = tigger_ts[m] /\ latest'[m] = latest[m]
          /\ cur_ts' = cur_ts /\ (tpc \in {"scan", "sweep"} => tpc' \in {"scan", "sweep"})
      BY <1>4, <1>t DEF TickDone, TypeOK
    <2> QED
      BY <2>1, <1>a DEF Awaited
  <1>5. ASSUME NEW n \in Node, TickReadd(n) PROVE Awaited'
    <2>1. Insert(n) /\ UNCHANGED <<tigger_ts, cur_ts>> /\ tpc \notin {"scan", "sweep"}
      BY <1>5 DEF TickReadd
    <2>2. /\ \A m \in Node : m # n => state'[m] = state[m] /\ latest'[m] = latest[m]
          /\ latest'[n] = ScanOf(n)
      BY <1>t, <2>1 DEF Insert, TypeOK
    <2>3. cur_ts \in Nat /\ tigger_ts[n] \in Nat /\ solt_nb \in Nat \ {0}
      BY <1>t DEF TypeOK, WheelAssumption
    <2>4. \E t \in Nat : /\ t % solt_nb = tigger_ts[n] % solt_nb
                         /\ tigger_ts[n] <= t /\ t <= ScanOf(n)
                         /\ cur_ts < t \/ (cur_ts = t /\ tpc = "scan")
      <3>1. CASE cur_ts < tigger_ts[n] \/ (cur_ts = tigger_ts[n] /\ tpc = "scan")
        BY <3>1, <2>3 DEF ScanOf
      <3>2. CASE ~(cur_ts < tigger_ts[n] \/ (cur_ts = tigger_ts[n] /\ tpc = "scan"))
        <4>1. PICK t \in Nat : cur_ts < t /\ t <= cur_ts + solt_nb /\ t % solt_nb = tigger_ts[n] % solt_nb
          BY <2>3, Turn
        <4>2. ScanOf(n) = cur_ts + solt_nb /\ tigger_ts[n] <= t
          BY <3>2, <4>1, <2>3 DEF ScanOf
        <4> QED
          BY <4>1, <4>2
      <3> QED
        BY <3>1, <3>2
    <2>5. ASSUME NEW m \in Node, state'[m] = "linked"
          PROVE  \E t \in Nat : /\ t % solt_nb = tigger_ts'[m] % solt_nb
                                /\ tigger_ts'[m] <= t /\ t <= latest'[m]
                                /\ cur_ts' < t \/ (cur_ts' = t /\ tpc' \in {"scan", "sweep"})
      <3>1. CASE m = n
        BY <3>1, <2>1, <2>2, <2>4
      <3>2. CASE m # n
        <4>1. state[m] = "linked" /\ latest'[m] = latest[m] /\ tigger_ts'[m] = tigger_ts[m]
          BY <3>2, <2>1, <2>2, <2>5
        <4> QED
          BY <4>1, <1>a, <2>1
      <3> QED
        BY <3>1, <3>2
    <2> QED
      BY <2>5 DEF Awaited
  <1>6. ASSUME TickAdvance PROVE Awaited'
    <2>1. /\ UNCHANGED <<state, tigger_ts, latest>>
          /\ cur_ts' = cur_ts + 1 /\ tpc = "wait" /\ tpc' = "scan" /\ cur_ts \in Nat
      BY <1>6, <1>t DEF TickAdvance, TypeOK
    <2> QED
      BY <2>1, <1>a DEF Awaited
  <1>7. ASSUME TickLock PROVE Awaited'
    <2>1. /\ \A m \in Node : state'[m] = "linked" =>
                state[m] = "linked" /\ tigger_ts'[m] = tigger_ts[m] /\ latest'[m] = latest[m]
          /\ cur_ts' = cur_ts /\ (tpc \in {"scan", "sweep"} => tpc' \in {"scan", "sweep"})
      BY <1>7, <1>t DEF TickLock, TypeOK
    <2> QED
      BY <2>1, <1>a DEF Awaited
  <1>8. ASSUME TickFree PROVE Awaited'
    <2>1. /\ \A m \in Node : state'[m] = "linked" =>
                state[m] = "linked" /\ tigger_ts'[m] = tigger_ts[m] /\ latest'[m] = latest[m]
          /\ cur_ts' = cur_ts /\ (tpc \in {"scan", "sweep"} => tpc' \in {"scan", "sweep"})
      BY <1>8, <1>t, FirstSwept DEF TickFree, TypeOK
    <2> QED
      BY <2>1, <1>a DEF Awaited
  <1>9. ASSUME TickMove PROVE Awaited'
    <2>1. /\ \A m \in Node : state'[m] = "linked" =>
                state[m] = "linked" /\ tigger_ts'[m] = tigger_ts[m] /\ latest'[m] = latest[m]
          /\ cur_ts' = cur_ts /\ (tpc \in {"scan", "sweep"} => tpc' \in {"scan", "sweep"})
      BY <1>9, <1>t, FirstSwept DEF TickMove, TypeOK
    <2> QED
      BY <2>1, <1>a DEF Awaited
  <1>10. ASSUME TickUnlock PROVE Awaited'
    <2>1. /\ UNCHANGED <<state, tigger_ts, latest, cur_ts>>
          /\ Swept # <<>> => tigger_ts[Head(Swept)] > cur_ts
          /\ tpc = "sweep"
      BY <1>10 DEF TickUnlock
    <2>2. ASSUME NEW m \in Node, state[m] = "linked", tigger_ts[m] % solt_nb = cur_ts % solt_nb
          PROVE  cur_ts < tigger_ts[m]
      <3>1. Contains(Swept, m) /\ Swept # <<>>
        <4>1. Contains(Swept, m)
          BY <1>t, <2>2, Slots DEF IInv, Placed, Swept
        <4>2. ~Contains(<<>>, m)
          BY DEF Contains
        <4> QED
          BY <4>1, <4>2
      <3>2. Head(Swept) \in Node /\ Swept \in Seq(Node)
        BY <3>1, FirstSwept
      <3>3. CASE m = Head(Swept)
        BY <3>1, <3>3, <2>1
      <3>4. CASE m # Head(Swept)
        <4>1. SlotOrder(Swept, tigger_ts, born)
          BY <1>t, Slots DEF IInv, Ordered, Swept
        <4>2. tigger_ts[Head(Swept)] <= tigger_ts[m]
          <5>1. PICK k \in 1..Len(Swept) : Swept[k] = m
            BY <3>1 DEF Contains
          <5>2. 1 \in 1..Len(Swept) /\ 1 < k /\ Swept[1] = Head(Swept)
            BY <3>1, <3>2, <3>4, <5>1, TailPlaces
          <5>3. \/ tigger_ts[Swept[1]] < tigger_ts[Swept[k]]
                \/ tigger_ts[Swept[1]] = tigger_ts[Swept[k]]
            BY <4>1, <5>2 DEF SlotOrder
          <5>4. tigger_ts[m] \in Nat /\ tigger_ts[Head(Swept)] \in Nat
            BY <1>t, <3>2 DEF TypeOK
          <5> QED
            BY <5>1, <5>2, <5>3, <5>4
        <4> QED
          BY SMTT(30), <1>t, <2>1, <3>1, <3>2, <4>2 DEF TypeOK
      <3> QED
        BY <3>3, <3>4
    <2>3. ASSUME NEW m \in Node, state[m] = "linked"
          PROVE  \E t \in Nat : /\ t % solt_nb = tigger_ts[m] % solt_nb
                                /\ tigger_ts[m] <= t /\ t <= latest[m] /\ cur_ts < t
      <3>1. PICK t \in Nat : /\ t % solt_nb = tigger_ts[m] % solt_nb
                             /\ tigger_ts[m] <= t /\ t <= latest[m]
                             /\ cur_ts < t \/ cur_ts = t
        BY <1>a, <2>3
      <3>2. cur_ts # t
        BY <1>t, <2>2, <2>3, <3>1 DEF TypeOK
      <3> QED
        BY <3>1, <3>2
    <2> QED
      BY <2>1, <2>3 DEF Awaited
  <1>11. ASSUME TickCall PROVE Awaited'
    <2>1. /\ \A m \in Node : state'[m] = "linked" =>
                state[m] = "linked" /\ tigger_ts'[m] = tigger_ts[m] /\ latest'[m] = latest[m]
          /\ cur_ts' = cur_ts /\ (tpc \in {"scan", "sweep"} => tpc' \in {"scan", "sweep"})
      BY <1>11, <1>t DEF TickCall, TypeOK
    <2> QED
      BY <2>1, <1>a DEF Awaited
  <1>12. ASSUME Destroy PROVE Awaited'
    <2>1. \A m \in Node : state'[m] # "linked"
      BY <1>12 DEF Destroy
    <2> QED
      BY <2>1 DEF Awaited
  <1> QED
    BY <1>1, <1>2, <1>3, <1>4, <1>5, <1>6, <1>7, <1>8,
       <1>9, <1>10, <1>11, <1>12 DEF Next

(* Only a timer that is marked as deleted has a call to come taken off. *)
LEMMA CountedStep ==
    ASSUME WheelAssumption, IInv, Next
    PROVE  Counted'
  <1> USE DEF IInv, TypeOK, Counted, fields, hist, GoOn
  <1>1. ASSUME NEW n \in Node, Add(n) PROVE Counted'
    BY <1>1 DEF Add
  <1>2. ASSUME NEW n \in Node, AddInsert(n) PROVE Counted'
    BY <1>2 DEF AddInsert, Insert
  <1>3. ASSUME NEW n \in Node, DelTimer(n) PROVE Counted'
    BY <1>3 DEF DelTimer
  <1>4. ASSUME NEW n \in Node, TickDone(n) PROVE Counted'
    BY <1>4 DEF TickDone
  <1>5. ASSUME NEW n \in Node, TickReadd(n) PROVE Counted'
    BY <1>5 DEF TickReadd, Insert
  <1>6. ASSUME TickAdvance PROVE Counted'
    BY <1>6 DEF TickAdvance
  <1>7. ASSUME TickLock PROVE Counted'
    BY <1>7 DEF TickLock
  <1>8. ASSUME TickFree PROVE Counted'
    <2>1. PICK n \in Node : n = Head(Swept) /\ state[n] = "linked"
      BY <1>8, FirstSwept DEF TickFree
    <2> QED
      BY <1>8, <2>1 DEF TickFree
  <1>9. ASSUME TickMove PROVE Counted'
    <2>1. PICK n \in Node : n = Head(Swept) /\ state[n] = "linked"
      BY <1>9, FirstSwept DEF TickMove
    <2> QED
      BY <1>9, <2>1 DEF TickMove
  <1>10. ASSUME TickUnlock PROVE Counted'
    BY <1>10 DEF TickUnlock
  <1>11. ASSUME TickCall PROVE Counted'
    <2>1. PICK n \in Node : n = Head(tigger) /\ state[n] = "due"
      BY <1>11, FirstDue DEF TickCall
    <2>2. /\ \A m \in Node : m # n => state'[m] = state[m] /\ callsLeft'[m] = callsLeft[m]
          /\ state'[n] = "calling" /\ is_deleted' = is_deleted
          /\ callsLeft'[n] = IF is_deleted[n] THEN callsLeft[n] - 1 ELSE callsLeft[n]
      BY <1>11, <2>1 DEF TickCall
    <2>3. ASSUME NEW m \in Node
          PROVE  /\ is_deleted'[m] => state'[m] \notin {"new", "adding"}
                 /\ callsLeft'[m] \in IF is_deleted'[m] THEN {0, 1} ELSE {2}
                 /\ callsLeft'[m] = 0 => state'[m] # "due"
      <3>1. CASE m = n
        <4>1. is_deleted[n] => callsLeft[n] = 1
          BY <2>1
        <4> QED
          BY <3>1, <4>1, <2>1, <2>2
      <3>2. CASE m # n
        BY <3>2, <2>2
      <3> QED
        BY <3>1, <3>2
    <2> QED
      BY <2>3
  <1>12. ASSUME Destroy PROVE Counted'
    BY <1>12 DEF Destroy
  <1> QED
    BY <1>1, <1>2, <1>3, <1>4, <1>5, <1>6, <1>7, <1>8,
       <1>9, <1>10, <1>11, <1>12 DEF Next

-----------------------------------------------------------------------------
(* The invariant *)

LEMMA InitIInv ==
    ASSUME WheelAssumption, Init
    PROVE  IInv
  <1>1. TypeOK
    BY DEF Init, TypeOK
  <1>2. /\ IsInjective(<<>>) /\ \A x : ~Contains(<<>>, x)
        /\ \A time, q : SlotOrder(<<>>, time, q) /\ DueOrder(<<>>, time, q)
    BY DEF IsInjective, Contains, SlotOrder, DueOrder
  <1>3. Placed
    BY <1>2 DEF Init, Placed
  <1>4. Ordered
    BY <1>2 DEF Init, Ordered, EqualTimesInOrder
  <1>5. Awaited /\ Counted
    BY DEF Init, Awaited, Counted
  <1> QED
    BY <1>1, <1>3, <1>4, <1>5 DEF IInv

LEMMA IInvStep ==
    ASSUME WheelAssumption, IInv, [Next]_vars
    PROVE  IInv'
  <1>1. CASE Next
    BY <1>1, TypeStep, PlacedStep, OrderedStep, AwaitedStep, CountedStep DEF IInv
  <1>2. CASE UNCHANGED vars
    BY <1>2 DEF vars, fields, hist, IInv, TypeOK, Placed, Ordered, EqualTimesInOrder, Swept,
                Awaited, Counted
  <1> QED
    BY <1>1, <1>2

(* Every timer of the wheel keeps the five parts of IInv: its place follows *)
(* from its state and its time, slots and due timers are in order, a scan   *)
(* that will take it is to come, and its remaining calls are counted.       *)
THEOREM Inductive == WheelAssumption => (Spec => []IInv)
  <1> SUFFICES ASSUME WheelAssumption PROVE Spec => []IInv
    OBVIOUS
  <1>1. Init => IInv
    BY InitIInv
  <1>2. IInv /\ [Next]_vars => IInv'
    BY IInvStep
  <1> QED
    BY <1>1, <1>2, PTL DEF Spec

(* However insertions, deletions and ticks interleave, a linked timer is in *)
(* the slot of its time once and nowhere else, a due one is in tigger_head, *)
(* slots are sorted, and timers of one time are called in the order in      *)
(* which they were put on the wheel.                                        *)
THEOREM InPlace == WheelAssumption => (Spec => []WheelInv)
  <1> SUFFICES ASSUME WheelAssumption PROVE Spec => []WheelInv
    OBVIOUS
  <1>1. IInv => WheelInv
    <2> SUFFICES ASSUME IInv PROVE WheelInv
      OBVIOUS
    <2>1. \A i \in Slot : solts[i] \in Seq(Node) /\ IsInjective(solts[i])
      BY DEF IInv, TypeOK, Placed
    <2>2. ASSUME NEW n \in Node, NEW i \in Slot
          PROVE  Cardinality({k \in 1..Len(solts[i]) : solts[i][k] = n})
                   = IF state[n] = "linked" /\ i = tigger_ts[n] % solt_nb THEN 1 ELSE 0
      <3> DEFINE K == {k \in 1..Len(solts[i]) : solts[i][k] = n}
      <3>1. Contains(solts[i], n) <=> state[n] = "linked" /\ i = tigger_ts[n] % solt_nb
        BY DEF IInv, Placed
      <3>2. CASE Contains(solts[i], n)
        <4>1. PICK k \in 1..Len(solts[i]) : solts[i][k] = n
          BY <3>2 DEF Contains
        <4>2. K = {k}
          BY <2>1, <4>1, LenProperties DEF IsInjective
        <4> QED
          BY <3>1, <3>2, <4>2, FS_Singleton
      <3>3. CASE ~Contains(solts[i], n)
        <4>1. K = {}
          BY <3>3 DEF Contains
        <4> QED
          BY <3>1, <3>3, <4>1, FS_EmptySet
      <3> QED
        BY <3>2, <3>3
    <2>3. ASSUME NEW i \in Slot, NEW j \in 1..Len(solts[i]), NEW k \in 1..Len(solts[i]), j < k
          PROVE  tigger_ts[solts[i][j]] <= tigger_ts[solts[i][k]]
      <3>1. SlotOrder(solts[i], tigger_ts, born)
        BY DEF IInv, Ordered
      <3>2. tigger_ts[solts[i][j]] \in Nat /\ tigger_ts[solts[i][k]] \in Nat
        BY <2>1, QueuePlaces DEF IInv, TypeOK
      <3> QED
        BY <2>3, <3>1, <3>2 DEF SlotOrder
    <2> QED
      BY <2>2, <2>3 DEF IInv, Placed, Ordered, WheelInv
  <1> QED
    BY <1>1, Inductive, PTL

(* timer_wheel_tick never passes over a timer, also not over one whose add  *)
(* read cur_ts before the tick and got the slot's lock after it: the scan   *)
(* that takes it comes at its time or within one turn of the wheel.         *)
THEOREM Missed == WheelAssumption => (Spec => []NeverMissed)
  <1> SUFFICES ASSUME WheelAssumption PROVE Spec => []NeverMissed
    OBVIOUS
  <1>1. IInv => NeverMissed
    BY DEF IInv, TypeOK, Awaited, NeverMissed
  <1> QED
    BY <1>1, Inductive, PTL

(* Whenever timer_wheel_del comes, while the timer waits, is due, is being  *)
(* called or is put back, the timer is called once more at most.            *)
THEOREM Deleted == WheelAssumption => (Spec => []DeletedCalledOnce)
  <1> SUFFICES ASSUME WheelAssumption PROVE Spec => []DeletedCalledOnce
    OBVIOUS
  <1>1. IInv => DeletedCalledOnce
    BY DEF IInv, Counted, DeletedCalledOnce
  <1> QED
    BY <1>1, Inductive, PTL

-----------------------------------------------------------------------------
(* The links of the timer list *)

(* The end of a list is the one place that is no timer. *)
LEMMA AlongPlaces ==
    ASSUME TimerListAssumption, NEW list \in Seq(Timer)
    PROVE  /\ Len(list) \in Nat
           /\ Along(list, 0) = Root /\ Along(list, Len(list) + 1) = NULL
           /\ \A i \in 1..Len(list) : Along(list, i) = list[i] /\ list[i] \in Timer
           /\ \A i \in 0..Len(list) : Along(list, i) \in Timer \cup {Root} /\ Along(list, i) # NULL
           /\ \A i \in 1..Len(list) + 1 : Along(list, i) # Root
           /\ \A i \in 0..Len(list) + 1 : Along(list, i) = NULL <=> i = Len(list) + 1
           /\ \A i \in 1..Len(list) : i \in 0..Len(list)
  <1>1. Len(list) \in Nat /\ \A i \in 1..Len(list) : list[i] \in Timer
    BY QueuePlaces
  <1>2. Along(list, 0) = Root /\ Along(list, Len(list) + 1) = NULL
    BY <1>1 DEF Along
  <1>3. \A i \in 1..Len(list) : Along(list, i) = list[i] /\ list[i] \in Timer
    BY <1>1 DEF Along
  <1>4. \A i \in 0..Len(list) : i = 0 \/ i \in 1..Len(list)
    BY <1>1
  <1>5. Root \notin Timer /\ NULL \notin Timer /\ NULL # Root
    BY DEF TimerListAssumption
  <1>6. \A i \in 0..Len(list) : Along(list, i) \in Timer \cup {Root} /\ Along(list, i) # NULL
    BY <1>2, <1>3, <1>4, <1>5
  <1>7. \A i \in 1..Len(list) + 1 : i = Len(list) + 1 \/ i \in 1..Len(list)
    BY <1>1
  <1>8. \A i \in 1..Len(list) + 1 : Along(list, i) # Root
    BY <1>2, <1>3, <1>5, <1>7
  <1>9. \A i \in 0..Len(list) + 1 : i = Len(list) + 1 \/ i \in 0..Len(list)
    BY <1>1
  <1>10. \A i \in 0..Len(list) : i # Len(list) + 1
    BY <1>1
  <1>11. \A i \in 1..Len(list) : i \in 0..Len(list)
    BY <1>1
  <1> QED
    BY <1>1, <1>2, <1>3, <1>6, <1>8, <1>9, <1>10, <1>11

(* Two lists on the same links that meet go on together to their ends. *)
LEMMA GoTogether ==
    ASSUME TimerListAssumption, NEW f, NEW list \in Seq(Timer), NEW other \in Seq(Timer),
           Leads(f, list), Leads(f, other),
           NEW a \in 0..Len(list), NEW b \in 0..Len(other), Along(list, a) = Along(other, b)
    PROVE  /\ Len(list) - a = Len(other) - b
           /\ \A k \in 0..Len(list) - a : Along(list, a + k) = Along(other, b + k)
  <1> DEFINE Same(k) == b + k <= Len(other) + 1 /\ Along(list, a + k) = Along(other, b + k)
             K == {k \in Nat : a + k <= Len(list) + 1 /\ ~Same(k)}
  <1>1. Len(list) \in Nat /\ Len(other) \in Nat
    BY QueuePlaces
  <1>2. K = {}
    <2> SUFFICES ASSUME K # {} PROVE FALSE
      OBVIOUS
    <2> DEFINE m == Min(K)
    <2>1. K \in SUBSET Nat
      OBVIOUS
    <2>2. m \in K /\ \A k \in K : m <= k
      <3> HIDE DEF K
      <3> QED
        BY <2>1, SmallestIsIn
    <2> HIDE DEF m
    <2>3. m \in Nat /\ a + m <= Len(list) + 1 /\ ~Same(m)
      BY <2>2
    <2>4. Same(0)
      BY <1>1
    <2>5. m # 0
      BY <2>3, <2>4
    <2>6. m - 1 \in Nat /\ m - 1 \notin K
      <3> HIDE DEF K
      <3>1. m - 1 \in Nat /\ ~(m <= m - 1)
        BY <2>3, <2>5
      <3> QED
        BY <2>2, <3>1
    <2>7. a + (m - 1) \in 0..Len(list) /\ Same(m - 1)
      BY <2>3, <2>5, <2>6, <1>1
    <2>8. b + (m - 1) \in 0..Len(other) + 1
      BY <2>6, <2>7, <1>1
    <2>9. Along(list, a + (m - 1)) # NULL
      BY <2>7, AlongPlaces
    <2>10. b + (m - 1) # Len(other) + 1
      BY <2>7, <2>8, <2>9, AlongPlaces
    <2>11. b + (m - 1) \in 0..Len(other)
      BY <2>8, <2>10, <1>1
    <2>12. /\ f[Along(list, a + (m - 1))] = Along(list, a + (m - 1) + 1)
           /\ f[Along(other, b + (m - 1))] = Along(other, b + (m - 1) + 1)
      BY <2>7, <2>11 DEF Leads
    <2>13. a + (m - 1) + 1 = a + m /\ b + (m - 1) + 1 = b + m /\ b + m <= Len(other) + 1
      BY <2>3, <2>11, <1>1
    <2>14. Along(list, a + m) = Along(other, b + m)
      BY <2>7, <2>12, <2>13
    <2> QED
      BY <2>3, <2>13, <2>14
  <1> DEFINE e == Len(list) + 1 - a
  <1>3. e \in Nat /\ a + e = Len(list) + 1
    BY <1>1
  <1>4. Same(e)
    <2>1. e \notin K
      BY <1>2
    <2>2. a + e <= Len(list) + 1
      BY <1>1, <1>3
    <2> QED
      BY <1>3, <2>1, <2>2
  <1>5. b + e \in 0..Len(other) + 1 /\ Along(other, b + e) = NULL
    BY <1>3, <1>4, <1>1, AlongPlaces
  <1>6. b + e = Len(other) + 1
    BY <1>5, AlongPlaces
  <1>7. Len(list) - a = Len(other) - b
    BY <1>1, <1>3, <1>6
  <1>8. ASSUME NEW k \in 0..Len(list) - a PROVE Along(list, a + k) = Along(other, b + k)
    <2>1. k \in Nat /\ a + k <= Len(list) + 1
      BY <1>1
    <2>2. k \notin K
      BY <1>2
    <2> QED
      BY <2>1, <2>2
  <1> QED
    BY <1>7, <1>8

(* Links lead along one list at most, and that comes past no timer twice. *)
LEMMA OneList ==
    ASSUME TimerListAssumption, NEW f, NEW list \in Seq(Timer), NEW other \in Seq(Timer),
           Leads(f, list), Leads(f, other)
    PROVE  list = other /\ IsInjective(list)
  <1>1. Len(list) \in Nat /\ Len(other) \in Nat /\ 0 \in 0..Len(list) /\ 0 \in 0..Len(other)
    BY QueuePlaces
  <1>2. Along(list, 0) = Along(other, 0)
    BY AlongPlaces
  <1>3. /\ Len(list) - 0 = Len(other) - 0
        /\ \A k \in 0..Len(list) - 0 : Along(list, 0 + k) = Along(other, 0 + k)
    BY <1>1, <1>2, GoTogether
  <1>4. Len(list) = Len(other)
    BY <1>1, <1>3
  <1>5. ASSUME NEW k \in 1..Len(list) PROVE list[k] = other[k]
    <2>1. k \in 0..Len(list) - 0 /\ 0 + k = k
      BY <1>1
    <2>2. Along(list, k) = Along(other, k)
      BY <1>3, <2>1
    <2> QED
      BY <1>4, <2>2, AlongPlaces
  <1>6. list = other
    BY <1>4, <1>5, SeqEqual
  <1>7. ASSUME NEW i \in 1..Len(list), NEW j \in 1..Len(list), list[i] = list[j] PROVE i = j
    <2>1. i \in 0..Len(list) /\ j \in 0..Len(list) /\ Along(list, i) = Along(list, j)
      BY <1>7, AlongPlaces
    <2>2. Len(list) - i = Len(list) - j
      BY <2>1, GoTogether
    <2> QED
      BY <1>1, <2>2
  <1>8. DOMAIN list = 1..Len(list)
    BY LenProperties
  <1> QED
    BY <1>6, <1>7, <1>8 DEF IsInjective

(* A list that passes no entry twice is not longer than its set. *)
LEMMA NotLonger ==
    ASSUME NEW S, IsFiniteSet(S), NEW list \in Seq(S), IsInjective(list)
    PROVE  list \in SeqOf(S, Cardinality(S))
  <1>1. Len(list) \in Nat /\ list \in [1..Len(list) -> S]
    BY LenProperties
  <1>2. list \in Injection(1..Len(list), S)
    BY <1>1 DEF Injection
  <1>3. Cardinality(1..Len(list)) <= Cardinality(S)
    BY <1>2, FS_Injection
  <1>4. Cardinality(1..Len(list)) = Len(list)
    BY <1>1, FS_Interval
  <1>5. Cardinality(S) \in Nat
    BY FS_CardinalityType
  <1>6. Len(list) \in 0..Cardinality(S)
    BY <1>1, <1>3, <1>4, <1>5
  <1> QED
    BY <1>1, <1>6 DEF SeqOf

(* The list of these links, over timers that are allocated. *)
LEMMA ChainIs ==
    ASSUME TimerListAssumption, NEW s \in SUBSET Timer, NEW f, NEW list \in Seq(s), Leads(f, list)
    PROVE  /\ Chains(f, s) = {list}
           /\ Chains(f, s) # {} /\ (CHOOSE c \in Chains(f, s) : TRUE) = list
  <1>1. list \in Seq(Timer)
    BY SeqMonotonic, ElementOfSeq, QueuePlaces
  <1>2. IsInjective(list)
    BY <1>1, OneList
  <1>3. IsFiniteSet(s)
    BY FS_Subset DEF TimerListAssumption
  <1>4. list \in Chains(f, s)
    BY <1>2, <1>3, NotLonger DEF Chains
  <1>5. ASSUME NEW c \in Chains(f, s) PROVE c = list
    <2>1. c \in Seq(s) /\ Leads(f, c)
      BY DEF Chains, SeqOf
    <2>2. c \in Seq(Timer)
      BY <2>1, SeqMonotonic, ElementOfSeq
    <2> QED
      BY <1>1, <2>1, <2>2, OneList
  <1>6. Chains(f, s) = {list}
    BY <1>4, <1>5
  <1> QED
    BY <1>6

(* What a list that is there is. *)
LEMMA ChainThere ==
    ASSUME TimerListAssumption, live \subseteq Timer
    PROVE  /\ Chain \in Seq(live) /\ Chain \in Seq(Timer) /\ Len(Chain) \in Nat
           /\ Sound => Leads(next, Chain) /\ IsInjective(Chain)
  <1>1. ASSUME Sound PROVE Chain \in Seq(live) /\ Leads(next, Chain)
    <2>1. Chain \in Chains(next, live)
      BY <1>1 DEF Chain, Sound
    <2> QED
      BY <2>1 DEF Chains, SeqOf
  <1>2. ~Sound => Chain = <<>>
    BY DEF Chain
  <1>3. Chain \in Seq(live)
    BY <1>1, <1>2, EmptySeq
  <1>4. Chain \in Seq(Timer) /\ Len(Chain) \in Nat
    BY <1>3, SeqMonotonic, ElementOfSeq, QueuePlaces
  <1> QED
    BY <1>1, <1>3, <1>4, OneList

(* Links that are not on the list's way do not matter to it. *)
LEMMA LeadsElsewhere ==
    ASSUME NEW f, NEW g, NEW list, Leads(f, list),
           \A i \in 0..Len(list) : g[Along(list, i)] = f[Along(list, i)]
    PROVE  Leads(g, list)
  BY DEF Leads

(* __timer_list_add links an entry in where its walk broke off. *)
LEMMA AddedLeads ==
    ASSUME TimerListAssumption, NEW f \in [Timer \cup {Root} -> Timer \cup {NULL}],
           NEW list \in Seq(Timer), NEW t \in Timer, NEW stop,
           Leads(f, list), ~Contains(list, t)
    PROVE  LET p == Along(list, Passed(list, stop))
           IN  Leads([f EXCEPT ![t] = f[p], ![p] = t], AddBefore(list, stop, t))
  <1> DEFINE n == Passed(list, stop)
             p == Along(list, n)
             r == AddBefore(list, stop, t)
             g == [f EXCEPT ![t] = f[p], ![p] = t]
  <1>1. /\ r \in Seq(Timer) /\ Len(r) = Len(list) + 1
        /\ Len(list) \in Nat /\ n \in 0..Len(list)
        /\ \A i \in 1..n : i \in 1..Len(r) /\ r[i] = list[i]
        /\ n + 1 \in 1..Len(r) /\ r[n + 1] = t
        /\ \A i \in n + 1..Len(list) : i + 1 \in 1..Len(r) /\ r[i + 1] = list[i]
    BY AddBeforePlaces
  <1> HIDE DEF n, r
  <1>2. p \in Timer \cup {Root} /\ p # t
    <2>1. p \in Timer \cup {Root}
      BY <1>1, AlongPlaces
    <2>2. n = 0 \/ n \in 1..Len(list)
      BY <1>1
    <2> QED
      BY <2>1, <2>2, AlongPlaces DEF Contains, TimerListAssumption
  <1>3. f[p] = Along(list, n + 1)
    BY <1>1 DEF Leads
  <1>4. /\ g[t] = f[p] /\ g[p] = t
        /\ \A e \in Timer \cup {Root} : e # t /\ e # p => g[e] = f[e]
    BY <1>2
  <1>5. \A i \in 0..n : Along(r, i) = Along(list, i)
    <2> SUFFICES ASSUME NEW i \in 0..n PROVE Along(r, i) = Along(list, i)
      OBVIOUS
    <2>1. CASE i = 0
      BY <2>1, <1>1, AlongPlaces
    <2>2. CASE i # 0
      <3>1. i \in 1..n /\ i \in 1..Len(list) /\ i \in 1..Len(r)
        BY <2>2, <1>1
      <3> QED
        BY <3>1, <1>1 DEF Along
    <2> QED
      BY <2>1, <2>2
  <1>6. Along(r, n + 1) = t
    BY <1>1, AlongPlaces
  <1>7. \A i \in n + 1..Len(list) + 1 : Along(r, i + 1) = Along(list, i)
    <2> SUFFICES ASSUME NEW i \in n + 1..Len(list) + 1 PROVE Along(r, i + 1) = Along(list, i)
      OBVIOUS
    <2>1. CASE i = Len(list) + 1
      BY <2>1, <1>1, AlongPlaces
    <2>2. CASE i # Len(list) + 1
      <3>1. i \in n + 1..Len(list) /\ i \in 1..Len(list)
        BY <2>2, <1>1
      <3> QED
        BY <3>1, <1>1 DEF Along
    <2> QED
      BY <2>1, <2>2
  <1>8. ASSUME NEW i \in 0..Len(list), i # n
        PROVE  g[Along(list, i)] = Along(list, i + 1)
    <2>1. Along(list, i) # p
      <3>1. n \in 0..Len(list)
        BY <1>1
      <3>2. Along(list, i) = p => Len(list) - i = Len(list) - n
        BY <3>1, GoTogether
      <3> QED
        BY <3>1, <3>2, <1>1, <1>8
    <2>2. Along(list, i) # t
      <3>1. i = 0 \/ i \in 1..Len(list)
        BY <1>1
      <3> QED
        BY <3>1, AlongPlaces DEF Contains, TimerListAssumption
    <2>3. Along(list, i) \in Timer \cup {Root}
      BY AlongPlaces
    <2>4. g[Along(list, i)] = f[Along(list, i)]
      BY <2>1, <2>2, <2>3, <1>4
    <2> QED
      BY <2>4 DEF Leads
  <1> HIDE DEF g, p
  <1>9. ASSUME NEW i \in 0..Len(r) PROVE g[Along(r, i)] = Along(r, i + 1)
    <2>1. CASE i < n
      <3>1. i \in 0..n /\ i + 1 \in 0..n /\ i \in 0..Len(list) /\ i # n
        BY <2>1, <1>1
      <3> QED
        BY <3>1, <1>5, <1>8
    <2>2. CASE i = n
      <3>1. Along(r, i) = p /\ Along(r, i + 1) = t
        BY <2>2, <1>1, <1>5, <1>6 DEF p
      <3> QED
        BY <3>1, <1>4
    <2>3. CASE i = n + 1
      <3>1. Along(r, i) = t /\ Along(r, i + 1) = Along(list, n + 1)
        <4>1. n + 1 \in n + 1..Len(list) + 1
          BY <1>1
        <4> QED
          BY <4>1, <2>3, <1>6, <1>7
      <3> QED
        BY <3>1, <1>3, <1>4
    <2>4. CASE i > n + 1
      <3>1. /\ i - 1 \in n + 1..Len(list) + 1 /\ (i - 1) + 1 = i
            /\ i \in n + 1..Len(list) + 1 /\ i - 1 \in 0..Len(list) /\ i - 1 # n
        BY <2>4, <1>1
      <3>2. Along(r, i) = Along(list, i - 1) /\ Along(r, i + 1) = Along(list, i)
        BY <3>1, <1>7
      <3>3. g[Along(list, i - 1)] = Along(list, i)
        BY <3>1, <1>8
      <3> QED
        BY <3>2, <3>3
    <2>5. i \in Nat /\ n \in Nat
      BY <1>1
    <2> QED
      BY <2>1, <2>2, <2>3, <2>4, <2>5
  <1> QED
    BY <1>9 DEF Leads, g, p, r, n

(* The loop of the tick takes an entry out. *)
LEMMA DeletedLeads ==
    ASSUME TimerListAssumption, NEW f \in [Timer \cup {Root} -> Timer \cup {NULL}],
           NEW list \in Seq(Timer), Leads(f, list), NEW n \in 1..Len(list)
    PROVE  /\ f[Along(list, n - 1)] = list[n]
           /\ Leads([f EXCEPT ![Along(list, n - 1)] = f[list[n]]], RemoveAt(list, n))
  <1> DEFINE p == Along(list, n - 1)
             r == RemoveAt(list, n)
             g == [f EXCEPT ![p] = f[list[n]]]
  <1>1. /\ r \in Seq(Timer) /\ Len(r) = Len(list) - 1 /\ Len(list) \in Nat
        /\ \A i \in 1..n - 1 : i \in 1..Len(r) /\ r[i] = list[i]
        /\ \A i \in n + 1..Len(list) : i - 1 \in 1..Len(r) /\ r[i - 1] = list[i]
    BY RemoveAtPlaces
  <1>2. /\ n - 1 \in 0..Len(list) /\ (n - 1) + 1 = n /\ n \in 0..Len(list)
        /\ p \in Timer \cup {Root} /\ Along(list, n) = list[n]
    BY <1>1, AlongPlaces
  <1>3. f[p] = list[n] /\ f[list[n]] = Along(list, n + 1)
    BY <1>2 DEF Leads
  <1>4. g[p] = Along(list, n + 1) /\ \A e \in Timer \cup {Root} : e # p => g[e] = f[e]
    BY <1>2, <1>3
  <1> HIDE DEF r, g
  <1>5. \A i \in 0..n - 1 : Along(r, i) = Along(list, i)
    <2> SUFFICES ASSUME NEW i \in 0..n - 1 PROVE Along(r, i) = Along(list, i)
      OBVIOUS
    <2>1. CASE i = 0
      BY <2>1, <1>1, AlongPlaces
    <2>2. CASE i # 0
      <3>1. i \in 1..n - 1 /\ i \in 1..Len(list)
        BY <2>2, <1>1
      <3> QED
        BY <3>1, <1>1 DEF Along
    <2> QED
      BY <2>1, <2>2
  <1>6. \A i \in n + 1..Len(list) + 1 : Along(r, i - 1) = Along(list, i)
    <2> SUFFICES ASSUME NEW i \in n + 1..Len(list) + 1 PROVE Along(r, i - 1) = Along(list, i)
      OBVIOUS
    <2>1. CASE i = Len(list) + 1
      <3>1. i - 1 = Len(r) + 1
        BY <2>1, <1>1
      <3> QED
        BY <2>1, <3>1, <1>1, AlongPlaces
    <2>2. CASE i # Len(list) + 1
      <3>1. i \in n + 1..Len(list) /\ i \in 1..Len(list)
        BY <2>2, <1>1
      <3> QED
        BY <3>1, <1>1 DEF Along
    <2> QED
      BY <2>1, <2>2
  <1>7. ASSUME NEW i \in 0..Len(list), i # n - 1
        PROVE  g[Along(list, i)] = Along(list, i + 1)
    <2>1. Along(list, i) # p
      <3>1. Along(list, i) = p => Len(list) - i = Len(list) - (n - 1)
        BY <1>2, GoTogether
      <3> QED
        BY <3>1, <1>1, <1>7
    <2>2. g[Along(list, i)] = f[Along(list, i)]
      BY <2>1, <1>4, AlongPlaces
    <2> QED
      BY <2>2 DEF Leads
  <1>8. ASSUME NEW i \in 0..Len(r) PROVE g[Along(r, i)] = Along(r, i + 1)
    <2>1. CASE i < n - 1
      <3>1. i \in 0..n - 1 /\ i + 1 \in 0..n - 1 /\ i \in 0..Len(list) /\ i # n - 1
        BY <2>1, <1>1
      <3> QED
        BY <3>1, <1>5, <1>7
    <2>2. CASE i = n - 1
      <3>1. i \in 0..n - 1 /\ n + 1 \in n + 1..Len(list) + 1 /\ (n + 1) - 1 = i + 1
        BY <2>2, <1>1
      <3>2. Along(r, i) = p /\ Along(r, i + 1) = Along(list, n + 1)
        BY <2>2, <3>1, <1>5, <1>6
      <3> QED
        BY <3>2, <1>4
    <2>3. CASE i > n - 1
      <3>1. /\ i + 1 \in n + 1..Len(list) + 1 /\ (i + 1) - 1 = i
            /\ i + 2 \in n + 1..Len(list) + 1 /\ (i + 2) - 1 = i + 1
            /\ i + 1 \in 0..Len(list) /\ i + 1 # n - 1 /\ (i + 1) + 1 = i + 2
        BY <2>3, <1>1
      <3>2. Along(r, i) = Along(list, i + 1) /\ Along(r, i + 1) = Along(list, i + 2)
        BY <3>1, <1>6
      <3>3. g[Along(list, i + 1)] = Along(list, i + 2)
        BY <3>1, <1>7
      <3> QED
        BY <3>2, <3>3
    <2> QED
      BY <2>1, <2>2, <2>3
  <1>9. Leads(g, r)
    BY <1>8 DEF Leads
  <1> QED
    BY <1>3, <1>9 DEF g, r

(* The list that a step leaves. *)
LEMMA ChainBecomes ==
    ASSUME TimerListAssumption, live' \in SUBSET Timer, NEW list \in Seq(live'),
           Leads(next', list)
    PROVE  Sound' /\ Chain' = list
  <1>1. /\ Chains(next', live') # {}
        /\ (CHOOSE c \in Chains(next', live') : TRUE) = list
    BY ChainIs
  <1> QED
    BY <1>1 DEF Sound, Chain

LEMMA ChainSame ==
    ASSUME UNCHANGED <<next, live>>
    PROVE  Sound' = Sound /\ Chain' = Chain
  BY DEF Sound, Chain

(* A step that touches no link of the list, and no timer on it, leaves it. *)
LEMMA ChainLeft ==
    ASSUME TimerListAssumption, live \subseteq Timer, live' \subseteq Timer, Sound,
           \A i \in 1..Len(Chain) : Chain[i] \in live',
           \A i \in 0..Len(Chain) : next'[Along(Chain, i)] = next[Along(Chain, i)]
    PROVE  Sound' /\ Chain' = Chain
  <1>1. Chain \in Seq(Timer) /\ Leads(next, Chain)
    BY ChainThere
  <1>2. Chain \in Seq(live')
    BY <1>1, LenProperties, SeqDef
  <1>3. Leads(next', Chain)
    BY <1>1, LeadsElsewhere
  <1> QED
    BY <1>2, <1>3, ChainBecomes

(* The set of a list's entries. *)
LEMMA InSet ==
    ASSUME NEW S, NEW list \in Seq(S)
    PROVE  /\ \A x : x \in ToSet(list) <=> \E i \in 1..Len(list) : list[i] = x
           /\ \A x : x \in ToSet(list) <=> Contains(list, x)
           /\ ToSet(list) \subseteq S
           /\ \A i \in 1..Len(list) : list[i] \in ToSet(list)
  <1>1. DOMAIN list = 1..Len(list)
    BY LenProperties
  <1>2. \A x : x \in ToSet(list) <=> \E i \in 1..Len(list) : list[i] = x
    BY <1>1 DEF ToSet
  <1> QED
    BY <1>2, QueuePlaces DEF Contains

LEMMA AddedSet ==
    ASSUME NEW S, NEW list \in Seq(S), NEW stop, NEW t \in S
    PROVE  /\ AddBefore(list, stop, t) \in Seq(S)
           /\ ToSet(AddBefore(list, stop, t)) = ToSet(list) \cup {t}
           /\ IsInjective(list) /\ t \notin ToSet(list) => IsInjective(AddBefore(list, stop, t))
           /\ Len(AddBefore(list, stop, t)) = Len(list) + 1
  <1>1. /\ AddBefore(list, stop, t) \in Seq(S)
        /\ \A x : Contains(AddBefore(list, stop, t), x) <=> Contains(list, x) \/ x = t
        /\ IsInjective(list) /\ ~Contains(list, t) => IsInjective(AddBefore(list, stop, t))
    BY AddBeforeContains
  <1>2. Len(AddBefore(list, stop, t)) = Len(list) + 1
    BY AddBeforePlaces
  <1>3. \A x : x \in ToSet(list) <=> Contains(list, x)
    BY InSet
  <1>4. \A x : x \in ToSet(AddBefore(list, stop, t)) <=> Contains(AddBefore(list, stop, t), x)
    BY <1>1, InSet
  <1> QED
    BY <1>1, <1>2, <1>3, <1>4

LEMMA RemovedSet ==
    ASSUME NEW S, NEW list \in Seq(S), IsInjective(list), NEW n \in 1..Len(list)
    PROVE  ToSet(RemoveAt(list, n)) = ToSet(list) \ {list[n]}
  <1> DEFINE r == RemoveAt(list, n)
  <1>1. /\ r \in Seq(S) /\ Len(list) \in Nat
        /\ \A i \in 1..n - 1 : i \in 1..Len(r) /\ r[i] = list[i]
        /\ \A i \in n + 1..Len(list) : i - 1 \in 1..Len(r) /\ r[i - 1] = list[i]
        /\ \A i \in 1..Len(r) : \/ i \in 1..n - 1 /\ r[i] = list[i]
                                \/ i + 1 \in n + 1..Len(list) /\ r[i] = list[i + 1]
    BY RemoveAtPlaces
  <1>2. DOMAIN list = 1..Len(list)
    BY LenProperties
  <1>3. /\ \A x : x \in ToSet(r) <=> \E i \in 1..Len(r) : r[i] = x
        /\ \A x : x \in ToSet(list) <=> \E i \in 1..Len(list) : list[i] = x
    BY <1>1, InSet
  <1> HIDE DEF r
  <1>4. ASSUME NEW i \in 1..Len(r) PROVE r[i] \in ToSet(list) \ {list[n]}
    <2>1. CASE i \in 1..n - 1 /\ r[i] = list[i]
      <3>1. i \in 1..Len(list) /\ i # n
        BY <2>1, <1>1
      <3> QED
        BY <2>1, <3>1, <1>2, <1>3 DEF IsInjective
    <2>2. CASE i + 1 \in n + 1..Len(list) /\ r[i] = list[i + 1]
      <3>1. i + 1 \in 1..Len(list) /\ i + 1 # n
        BY <2>2, <1>1
      <3> QED
        BY <2>2, <3>1, <1>2, <1>3 DEF IsInjective
    <2> QED
      BY <2>1, <2>2, <1>1
  <1>5. ASSUME NEW i \in 1..Len(list), i # n PROVE list[i] \in ToSet(r)
    <2>1. i \in 1..n - 1 \/ i \in n + 1..Len(list)
      BY <1>1, <1>5
    <2> QED
      BY <2>1, <1>1, <1>3
  <1>6. ToSet(r) = ToSet(list) \ {list[n]}
    BY <1>3, <1>4, <1>5
  <1> QED
    BY <1>6 DEF r

LEMMA TailSet ==
    ASSUME NEW S, NEW list \in Seq(S), IsInjective(list), list # <<>>
    PROVE  /\ Tail(list) \in Seq(S) /\ IsInjective(Tail(list)) /\ Head(list) \in ToSet(list)
           /\ ToSet(Tail(list)) = ToSet(list) \ {Head(list)}
  <1> DEFINE r == Tail(list)
  <1>1. /\ r \in Seq(S) /\ Len(list) \in Nat \ {0} /\ Len(r) = Len(list) - 1
        /\ \A i \in 1..Len(list) - 1 : r[i] = list[i + 1]
        /\ Head(list) = list[1]
    BY TailPlaces
  <1>2. DOMAIN list = 1..Len(list) /\ DOMAIN r = 1..Len(r)
    BY <1>1, LenProperties
  <1>3. /\ \A x : x \in ToSet(r) <=> \E i \in 1..Len(r) : r[i] = x
        /\ \A x : x \in ToSet(list) <=> \E i \in 1..Len(list) : list[i] = x
    <2> HIDE DEF r
    <2>1. r \in Seq(S)
      BY <1>1
    <2>2. \A x : x \in ToSet(r) <=> \E i \in 1..Len(r) : r[i] = x
      BY <2>1, InSet
    <2>3. \A x : x \in ToSet(list) <=> \E i \in 1..Len(list) : list[i] = x
      BY InSet
    <2> QED
      BY <2>2, <2>3
  <1> HIDE DEF r
  <1>4. ASSUME NEW i \in 1..Len(r) PROVE i + 1 \in 1..Len(list) /\ i + 1 # 1 /\ r[i] = list[i + 1]
    BY <1>1
  <1>5. ASSUME NEW i \in 1..Len(list), i # 1 PROVE i - 1 \in 1..Len(r) /\ r[i - 1] = list[i]
    <2>1. i - 1 \in 1..Len(list) - 1 /\ (i - 1) + 1 = i
      BY <1>1, <1>5
    <2> QED
      BY <2>1, <1>1
  <1>6. 1 \in 1..Len(list)
    BY <1>1
  <1>7. ASSUME NEW i \in 1..Len(r) PROVE r[i] \in ToSet(list) \ {Head(list)}
    BY <1>1, <1>2, <1>3, <1>4, <1>6 DEF IsInjective
  <1>8. ASSUME NEW i \in 1..Len(list), list[i] # Head(list) PROVE list[i] \in ToSet(r)
    BY <1>1, <1>3, <1>5, <1>8
  <1>9. ToSet(r) = ToSet(list) \ {Head(list)}
    BY <1>3, <1>7, <1>8
  <1>10. IsInjective(r)
    <2>1. ASSUME NEW i \in 1..Len(r), NEW j \in 1..Len(r), r[i] = r[j] PROVE i = j
      <3>1. i + 1 = j + 1
        BY <2>1, <1>2, <1>4 DEF IsInjective
      <3> QED
        BY <3>1
    <2> QED
      BY <2>1, <1>2 DEF IsInjective
  <1> QED
    BY <1>1, <1>3, <1>6, <1>9, <1>10 DEF r

-----------------------------------------------------------------------------
(* The order of the timer list *)

LEMMA Products ==
    ASSUME NEW a \in Int, NEW b \in Int, NEW s \in Nat, a <= b
    PROVE  s * a <= s * b
  <1>1. b - a \in Nat /\ s * (b - a) \in Nat
    OBVIOUS
  <1>2. s * (b - a) = s * b - s * a
    OBVIOUS
  <1> QED
    BY <1>1, <1>2

LEMMA Parts ==
    ASSUME NEW s \in Nat \ {0}, NEW x \in Nat
    PROVE  x \div s \in Nat /\ x % s \in 0..s - 1 /\ x = s * (x \div s) + (x % s)
  <1>1. x \div s \in Nat
    OBVIOUS
  <1>2. x % s \in 0..s - 1
    OBVIOUS
  <1>3. x = s * (x \div s) + (x % s)
    OBVIOUS
  <1> QED
    BY <1>1, <1>2, <1>3

LEMMA TimerParts ==
    ASSUME TimerListAssumption, NEW n \in Fields
    PROVE  /\ n.ts \in Nat /\ n.delay \in Nat /\ n.ts <= MaxTime
           /\ Sec(n) \in Nat /\ Frac(n) \in 0..2 * (Second - 1)
           /\ Due(n) = Second * Sec(n) + Frac(n)
  <1>1. n.ts \in 0..MaxTime /\ n.delay \in Delay \cup {0}
    BY DEF Fields
  <1>2. /\ n.ts \in Nat /\ n.delay \in Nat /\ n.ts <= MaxTime
        /\ Second \in Nat /\ Second > 0 /\ Second \in Nat \ {0}
    <2>1. /\ MaxTime \in Nat /\ Delay \subseteq Nat
          /\ Second \in Nat /\ Second > 0 /\ Second \in Nat \ {0}
      BY DEF TimerListAssumption
    <2>2. n.ts \in Nat /\ n.ts <= MaxTime
      BY <1>1, <2>1
    <2>3. n.delay \in Nat
      <3>1. Delay \cup {0} \subseteq Nat
        BY <2>1
      <3> QED
        BY <1>1, <3>1, Zenon
    <2> QED
      BY <2>1, <2>2, <2>3
  <1> DEFINE a == n.ts \div Second
             b == n.delay \div Second
             c == n.ts % Second
             d == n.delay % Second
  <1>3. a \in Nat /\ c \in 0..Second - 1 /\ n.ts = Second * a + c
    BY <1>2, Parts
  <1>4. b \in Nat /\ d \in 0..Second - 1 /\ n.delay = Second * b + d
    BY <1>2, Parts
  <1>5. Sec(n) = a + b /\ Frac(n) = c + d /\ Due(n) = n.ts + n.delay
    BY DEF Sec, Frac, Due
  <1> HIDE DEF a, b, c, d
  <1>6. Second * (a + b) = Second * a + Second * b
    BY <1>2, <1>3, <1>4
  <1> QED
    BY <1>2, <1>3, <1>4, <1>5, <1>6

(* timer_cmp is a total order of times. *)
LEMMA TotalOrder ==
    ASSUME TimerListAssumption, NEW a \in Fields, NEW b \in Fields, NEW c \in Fields
    PROVE  /\ NotAfter(a, b) \/ NotAfter(b, a)
           /\ NotAfter(a, b) /\ NotAfter(b, c) => NotAfter(a, c)
  <1>1. /\ Sec(a) \in Nat /\ Sec(b) \in Nat /\ Sec(c) \in Nat
        /\ Frac(a) \in Nat /\ Frac(b) \in Nat /\ Frac(c) \in Nat
    <2>1. \A n \in Fields : Sec(n) \in Nat /\ Frac(n) \in 0..2 * (Second - 1)
      BY TimerParts
    <2>2. \A i \in 0..2 * (Second - 1) : i \in Nat
      OBVIOUS
    <2> QED
      BY <2>1, <2>2
  <1> QED
    BY <1>1 DEF NotAfter

(* timer_cmp_tv calls a timer early by what it leaves out, and never late. *)
LEMMA ExpiredTimes ==
    ASSUME TimerListAssumption, NEW n \in Fields, NEW val \in Nat, n.ts >= Epoch, val >= Epoch
    PROVE  IF Expired(n, val) THEN Due(n) - val <= 2 * (Second - 1) ELSE Due(n) > val
  <1> DEFINE q == val \div Second
             r == val % Second
  <1>1. q \in Nat /\ r \in 0..Second - 1 /\ val = Second * q + r
    <2>1. Second \in Nat \ {0}
      BY DEF TimerListAssumption
    <2> QED
      BY <2>1, Parts
  <1>2. /\ n.ts \in Nat /\ n.delay \in Nat /\ Second \in Nat /\ Second > 0
        /\ Sec(n) \in Nat /\ Frac(n) \in 0..2 * (Second - 1)
        /\ Due(n) = Second * Sec(n) + Frac(n) /\ Second \in Nat \ {0}
    BY TimerParts DEF TimerListAssumption
  <1>3. Expired(n, val) = IF Sec(n) = r THEN Frac(n) <= r ELSE Sec(n) <= q
    BY DEF Expired
  <1>4. /\ Epoch \in Nat /\ Second * Second \in Nat /\ Epoch >= Second * Second
        /\ Due(n) >= n.ts
    BY <1>2 DEF TimerListAssumption, Due
  <1> HIDE DEF q, r
  <1>5. CASE Sec(n) = r
    <2>1. Sec(n) <= Second - 1
      BY <1>1, <1>5
    <2>2. Second * Sec(n) <= Second * (Second - 1)
      BY <2>1, <1>2, Products
    <2>3. Second * (Second - 1) = Second * Second - Second
      BY <1>2
    <2>4. Second * Sec(n) \in Nat
      BY <1>2
    <2>5. Due(n) <= Second * Second - Second + 2 * (Second - 1)
      BY <2>2, <2>3, <2>4, <1>2, <1>4
    <2>6. Due(n) - val <= 2 * (Second - 1)
      BY <2>4, <2>5, <1>2, <1>4
    <2>7. Sec(n) >= Second
      <3>1. n.ts = Second * (n.ts \div Second) + (n.ts % Second)
            /\ n.ts \div Second \in Nat /\ n.ts % Second \in 0..Second - 1
        BY <1>2, Parts
      <3>2. n.delay \div Second \in Nat
        BY <1>2, Parts
      <3>3. ASSUME n.ts \div Second <= Second - 1 PROVE FALSE
        <4>1. Second * (n.ts \div Second) <= Second * (Second - 1)
          <5>1. n.ts \div Second \in Int /\ Second - 1 \in Int
            BY <3>1, <1>2
          <5> QED
            BY <5>1, <3>3, <1>2, Products
        <4> DEFINE w == Second * (n.ts \div Second)
                   v == Second * Second
        <4>2. w \in Nat /\ v \in Nat /\ w <= v - Second /\ n.ts >= v /\ n.ts = w + (n.ts % Second)
          BY <4>1, <3>1, <1>2, <1>4, <2>3
        <4> HIDE DEF w, v
        <4> QED
          BY SMTT(30), <4>2, <3>1, <1>2
      <3>4. n.ts \div Second >= Second
        BY <3>1, <3>3, <1>2
      <3> QED
        BY <3>2, <3>4, <3>1, <1>2 DEF Sec
    <2> QED
      BY <2>1, <2>7, <1>2
  <1>6. CASE Sec(n) # r
    <2> DEFINE w == Second * Sec(n)
               v == Second * q
    <2>1. w \in Nat /\ v \in Nat
      BY <1>1, <1>2
    <2>2. CASE Sec(n) <= q
      <3>1. w <= v
        BY <2>2, <1>1, <1>2, Products
      <3>2. Due(n) = w + Frac(n) /\ val = v + r
        BY <1>1, <1>2
      <3> HIDE DEF w, v
      <3>3. Due(n) - val <= 2 * (Second - 1)
        BY <3>1, <3>2, <2>1, <1>1, <1>2
      <3> QED
        BY <3>3, <2>2, <1>3, <1>6
    <2>3. CASE ~(Sec(n) <= q)
      <3>1. Second * (q + 1) <= w
        BY <2>3, <1>1, <1>2, Products
      <3>2. Second * (q + 1) = v + Second
        BY <1>1, <1>2
      <3>3. Due(n) = w + Frac(n) /\ val = v + r
        BY <1>1, <1>2
      <3> HIDE DEF w, v
      <3>4. Due(n) > val
        BY <3>1, <3>2, <3>3, <2>1, <1>1, <1>2
      <3> QED
        BY <3>4, <2>3, <1>3, <1>6
    <2> QED
      BY <2>2, <2>3
  <1> QED
    BY <1>5, <1>6

LEMMA PassedIs ==
    ASSUME NEW S, NEW list \in Seq(S), NEW stop, NEW n \in 0..Len(list),
           \A i \in 1..n : list[i] \notin stop,
           n < Len(list) => list[n + 1] \in stop
    PROVE  Passed(list, stop) = n
  <1> DEFINE p == Passed(list, stop)
  <1>1. /\ p \in 0..Len(list) /\ \A i \in 1..p : list[i] \notin stop
        /\ p < Len(list) => list[p + 1] \in stop
    BY PassedEntries
  <1>2. Len(list) \in Nat
    BY QueuePlaces
  <1> HIDE DEF p
  <1>3. ~(p < n)
    <2>1. p < n => p + 1 \in 1..n /\ p < Len(list)
      BY <1>1, <1>2
    <2> QED
      BY <2>1, <1>1
  <1>4. ~(n < p)
    <2>1. n < p => n + 1 \in 1..p /\ n < Len(list)
      BY <1>1, <1>2
    <2> QED
      BY <2>1, <1>1
  <1>5. p = n
    BY <1>1, <1>2, <1>3, <1>4
  <1> QED
    BY <1>5 DEF p

(* The order is kept by __timer_list_add, by taking a timer out, and by what *)
(* changes neither the times of a timer nor its delay.                       *)
LEMMA InOrderAdded ==
    ASSUME TimerListAssumption, NEW n \in [Timer -> Fields], NEW list \in Seq(Timer),
           NEW t \in Timer, InOrder(list, n)
    PROVE  InOrder(AddBefore(list, NoEarlier(t, n), t), n)
  <1> DEFINE stop == NoEarlier(t, n)
             r == AddBefore(list, stop, t)
             p == Passed(list, stop)
  <1>1. /\ Len(r) = Len(list) + 1 /\ Len(list) \in Nat /\ p \in 0..Len(list)
        /\ \A i \in 1..Len(r) : \/ i \in 1..p /\ r[i] = list[i]
                                \/ i = p + 1 /\ r[i] = t
                                \/ i - 1 \in p + 1..Len(list) /\ r[i] = list[i - 1]
    BY AddBeforePlaces
  <1>2. /\ \A i \in 1..p : list[i] \notin stop
        /\ p < Len(list) => list[p + 1] \in stop
    BY PassedEntries
  <1>3. \A i \in 1..Len(list) : list[i] \in Timer /\ n[list[i]] \in Fields
    BY QueuePlaces
  <1>4. n[t] \in Fields
    OBVIOUS
  <1>5. \A e \in Timer : e \in stop <=> NotAfter(n[t], n[e])
    BY DEF NoEarlier
  <1> HIDE DEF stop, r, p
  <1>6. ASSUME NEW i \in 1..p PROVE i \in 1..Len(list) /\ NotAfter(n[list[i]], n[t])
    <2>1. i \in 1..Len(list)
      BY <1>1
    <2>2. ~NotAfter(n[t], n[list[i]])
      BY <2>1, <1>2, <1>3, <1>5
    <2> QED
      BY <2>1, <2>2, <1>3, <1>4, TotalOrder
  <1>7. ASSUME NEW i \in p + 1..Len(list) PROVE i \in 1..Len(list) /\ NotAfter(n[t], n[list[i]])
    <2>1. i \in 1..Len(list) /\ p + 1 \in 1..Len(list) /\ p < Len(list) /\ (i = p + 1 \/ p + 1 < i)
      BY <1>1
    <2>2. NotAfter(n[t], n[list[p + 1]])
      BY <2>1, <1>2, <1>3, <1>5
    <2>3. i = p + 1 \/ NotAfter(n[list[p + 1]], n[list[i]])
      BY <2>1 DEF InOrder
    <2> QED
      BY <2>1, <2>2, <2>3, <1>3, <1>4, TotalOrder
  <1>8. ASSUME NEW j \in 1..Len(r), NEW k \in 1..Len(r), j < k
        PROVE  NotAfter(n[r[j]], n[r[k]])
    <2>1. CASE j \in 1..p /\ r[j] = list[j]
      <3>1. CASE k \in 1..p /\ r[k] = list[k]
        BY <2>1, <3>1, <1>6, <1>8 DEF InOrder
      <3>2. CASE k = p + 1 /\ r[k] = t
        BY <2>1, <3>2, <1>6
      <3>3. CASE k - 1 \in p + 1..Len(list) /\ r[k] = list[k - 1]
        <4>1. j < k - 1 /\ j \in 1..Len(list) /\ k - 1 \in 1..Len(list)
          BY <2>1, <3>3, <1>1
        <4> QED
          BY <2>1, <3>3, <4>1 DEF InOrder
      <3> QED
        BY <3>1, <3>2, <3>3, <1>1
    <2>2. CASE j = p + 1 /\ r[j] = t
      <3>1. k - 1 \in p + 1..Len(list) /\ r[k] = list[k - 1]
        BY <2>2, <1>1, <1>8
      <3> QED
        BY <2>2, <3>1, <1>7
    <2>3. CASE j - 1 \in p + 1..Len(list) /\ r[j] = list[j - 1]
      <3>1. k - 1 \in p + 1..Len(list) /\ r[k] = list[k - 1]
        BY <2>3, <1>1, <1>8
      <3>2. j - 1 < k - 1 /\ j - 1 \in 1..Len(list) /\ k - 1 \in 1..Len(list)
        BY <2>3, <3>1, <1>1, <1>8
      <3> QED
        BY <2>3, <3>1, <3>2 DEF InOrder
    <2> QED
      BY <2>1, <2>2, <2>3, <1>1
  <1>9. InOrder(r, n)
    BY <1>8 DEF InOrder
  <1> QED
    BY <1>9 DEF r, stop

LEMMA InOrderRemoved ==
    ASSUME NEW S, NEW list \in Seq(S), NEW m \in 1..Len(list), NEW n, InOrder(list, n)
    PROVE  InOrder(RemoveAt(list, m), n)
  <1> DEFINE r == RemoveAt(list, m)
  <1>1. /\ Len(r) = Len(list) - 1 /\ Len(list) \in Nat
        /\ \A i \in 1..Len(r) : \/ i \in 1..m - 1 /\ r[i] = list[i]
                                \/ i + 1 \in m + 1..Len(list) /\ r[i] = list[i + 1]
    BY RemoveAtPlaces
  <1> HIDE DEF r
  <1>m. m \in Nat /\ m <= Len(list) /\ 1 <= m /\ \A i \in 1..Len(r) : i \in Nat
    BY <1>1
  <1>2. ASSUME NEW j \in 1..Len(r), NEW k \in 1..Len(r), j < k
        PROVE  NotAfter(n[r[j]], n[r[k]])
    <2> DEFINE a == IF j < m THEN j ELSE j + 1
               b == IF k < m THEN k ELSE k + 1
    <2>1. a \in 1..Len(list) /\ r[j] = list[a]
      <3>1. CASE j \in 1..m - 1 /\ r[j] = list[j]
        BY <3>1, <1>1, <1>m
      <3>2. CASE j + 1 \in m + 1..Len(list) /\ r[j] = list[j + 1]
        BY <3>2, <1>1, <1>m
      <3> QED
        BY <3>1, <3>2, <1>1
    <2>2. b \in 1..Len(list) /\ r[k] = list[b]
      <3>1. CASE k \in 1..m - 1 /\ r[k] = list[k]
        BY <3>1, <1>1, <1>m
      <3>2. CASE k + 1 \in m + 1..Len(list) /\ r[k] = list[k + 1]
        BY <3>2, <1>1, <1>m
      <3> QED
        BY <3>1, <3>2, <1>1
    <2>3. a < b
      BY <1>2, <1>m
    <2> HIDE DEF a, b
    <2> QED
      BY <2>1, <2>2, <2>3 DEF InOrder
  <1>3. InOrder(r, n)
    BY <1>2 DEF InOrder
  <1> QED
    BY <1>3 DEF r

LEMMA InOrderSame ==
    ASSUME NEW list, NEW m, NEW n, InOrder(list, m),
           \A i \in 1..Len(list) : n[list[i]].ts = m[list[i]].ts /\ n[list[i]].delay = m[list[i]].delay
    PROVE  InOrder(list, n)
  <1>1. \A i \in 1..Len(list) : Sec(n[list[i]]) = Sec(m[list[i]]) /\ Frac(n[list[i]]) = Frac(m[list[i]])
    BY DEF Sec, Frac
  <1> QED
    BY <1>1 DEF InOrder, NotAfter

-----------------------------------------------------------------------------
(* Type correctness of the timer list *)

LEMMA FreshFields ==
    ASSUME TimerListAssumption, now \in Epoch..MaxTime, NEW n \in Fresh
    PROVE  /\ n \in Fields /\ n.ts = now /\ n.ts >= Epoch /\ n.cb # NULL /\ ~n.discard
           /\ Blank \in Fields
  <1>1. now \in 0..MaxTime /\ now >= Epoch /\ NULL \notin Target
    BY DEF TimerListAssumption
  <1>2. /\ n.ts = now /\ n.delay \in Delay /\ n.repeat \in BOOLEAN /\ n.cb \in Target
        /\ n.discard = FALSE /\ n.exec_on_discard \in BOOLEAN
        /\ n = [ts |-> n.ts, delay |-> n.delay, repeat |-> n.repeat, cb |-> n.cb,
                discard |-> n.discard, exec_on_discard |-> n.exec_on_discard]
    BY DEF Fresh
  <1>3. n \in Fields
    BY <1>1, <1>2, Zenon DEF Fields
  <1>4. 0 \in 0..MaxTime
    BY DEF TimerListAssumption
  <1>5. Blank \in Fields
    BY <1>4 DEF Blank, Fields
  <1> QED
    BY <1>1, <1>2, <1>3, <1>5

LEMMA SetFields ==
    ASSUME NEW n \in Fields
    PROVE  /\ \A x \in 0..MaxTime : [n EXCEPT !.ts = x] \in Fields
           /\ \A b \in BOOLEAN : /\ [n EXCEPT !.discard = b] \in Fields
                                /\ [n EXCEPT !.exec_on_discard = b] \in Fields
                                /\ [n EXCEPT !.discard = TRUE, !.exec_on_discard = b] \in Fields
  BY DEF Fields

(* What __timer_list_add leaves in the links. *)
LEMMA AddedType ==
    ASSUME TimerListAssumption, ListTypeOK, NEW t \in Timer, NEW n
    PROVE  Added(t, n) \in [Timer \cup {Root} -> Timer \cup {NULL}]
  <1>1. Chain \in Seq(Timer)
    BY ChainThere DEF ListTypeOK
  <1>2. Along(Chain, Passed(Chain, NoEarlier(t, n))) \in Timer \cup {Root}
    BY <1>1, PassedEntries, AlongPlaces
  <1> QED
    BY <1>2 DEF Added, ListTypeOK

LEMMA ListTypeStep ==
    ASSUME TimerListAssumption, ListTypeOK, InHandler, ListNext
    PROVE  ListTypeOK'
  <1> USE DEF main, handler, history, Runs
  <1>t. /\ now \in Epoch..MaxTime /\ cur \in 0..MaxTime
        /\ {started, locker, undefined, intruded, exec} \subseteq BOOLEAN
        /\ next \in [Timer \cup {Root} -> Timer \cup {NULL}]
        /\ node \in [Timer -> Fields]
        /\ live \subseteq Timer
        /\ pc \in Labels /\ hpc \in {"idle", "take", "call", "readd"}
        /\ new \in Timer \cup {NULL} /\ ppos \in Timer \cup {Root, NULL}
        /\ cb \in Target \cup {NULL}
        /\ hpos \in Timer \cup {Root} /\ timeout_list \in Seq(Timer) /\ called_nb \in Nat
        /\ asked \in [Timer -> {"no", "silent", "exec"}]
        /\ calls \in [Timer -> 0..2]
    BY DEF ListTypeOK
  <1>e. NULL \notin Timer /\ Root \notin Timer /\ NULL # Root
    BY DEF TimerListAssumption
  <1>u. ASSUME Undefined PROVE ListTypeOK'
    BY <1>t, <1>u DEF Undefined, ListTypeOK
  <1>1. ASSUME timer_list_start PROVE ListTypeOK'
    BY <1>t, <1>1 DEF timer_list_start, ListTypeOK
  <1>2. ASSUME NEW t \in Timer, Create(t) PROVE ListTypeOK'
    <2>1. node' \in [Timer -> Fields]
      BY <1>t, <1>2, FreshFields DEF Create
    <2> QED
      BY <1>t, <1>2, <2>1 DEF Create, ListTypeOK, Labels
  <1>3. ASSUME AddLock PROVE ListTypeOK'
    BY <1>t, <1>3 DEF AddLock, ListTypeOK, Labels
  <1>4. ASSUME AddWalk PROVE ListTypeOK'
    BY <1>t, <1>u, <1>4 DEF AddWalk, ListTypeOK, Labels
  <1>5. ASSUME AddNext PROVE ListTypeOK'
    <2>1. CASE Undefined
      BY <2>1, <1>u
    <2>2. CASE ppos \in live \cup {Root}
      <3>1. next' \in [Timer \cup {Root} -> Timer \cup {NULL}]
        BY <1>t, <1>5, <2>2 DEF AddNext
      <3> QED
        BY <1>t, <1>5, <2>2, <3>1 DEF AddNext, ListTypeOK, Labels
    <2> QED
      BY <1>5, <2>1, <2>2 DEF AddNext
  <1>6. ASSUME AddLink PROVE ListTypeOK'
    <2>1. CASE Undefined
      BY <2>1, <1>u
    <2>2. CASE ppos \in live \cup {Root}
      <3>1. next' \in [Timer \cup {Root} -> Timer \cup {NULL}]
        BY <1>t, <1>6, <2>2 DEF AddLink
      <3> QED
        BY <1>t, <1>6, <2>2, <3>1 DEF AddLink, ListTypeOK, Labels
    <2> QED
      BY <1>6, <2>1, <2>2 DEF AddLink
  <1>7. ASSUME NEW c \in Target, NEW e \in BOOLEAN, Discard(c, e) PROVE ListTypeOK'
    BY <1>t, <1>7 DEF Discard, ListTypeOK, Labels
  <1>8. ASSUME DiscardLock PROVE ListTypeOK'
    BY <1>t, <1>8 DEF DiscardLock, ListTypeOK, Labels
  <1>9. ASSUME DiscardWalk PROVE ListTypeOK'
    <2>1. node' \in [Timer -> Fields]
      <3>1. CASE node' = [node EXCEPT ![ppos].discard = TRUE] /\ ppos \in live
        <4>1. node[ppos] \in Fields
          BY <1>t, <3>1
        <4>2. [node[ppos] EXCEPT !.discard = TRUE] \in Fields
          BY <4>1, SetFields
        <4> QED
          BY <1>t, <3>1, <4>2
      <3>2. CASE UNCHANGED node
        BY <1>t, <3>2
      <3> QED
        BY <1>9, <3>1, <3>2 DEF DiscardWalk, Undefined
    <2> QED
      BY <1>t, <1>9, <2>1 DEF DiscardWalk, Undefined, ListTypeOK, Labels
  <1>10. ASSUME DiscardExec PROVE ListTypeOK'
    <2>1. CASE Undefined
      BY <2>1, <1>u
    <2>2. CASE ppos \in live
      <3>1. [node[ppos] EXCEPT !.exec_on_discard = exec] \in Fields
        <4>1. node[ppos] \in Fields /\ exec \in BOOLEAN
          BY <1>t, <2>2
        <4> QED
          BY <4>1, SetFields
      <3>2. node' \in [Timer -> Fields]
        BY <1>t, <1>10, <2>2, <3>1 DEF DiscardExec
      <3> QED
        BY <1>t, <1>10, <2>2, <3>2 DEF DiscardExec, ListTypeOK, Labels
    <2> QED
      BY <1>10, <2>1, <2>2 DEF DiscardExec
  <1>11. ASSUME Unlock PROVE ListTypeOK'
    <2>1. asked' \in [Timer -> {"no", "silent", "exec"}] /\ calls' \in [Timer -> 0..2]
      BY <1>t, <1>11 DEF Unlock, Ask, AskedOf
    <2> QED
      BY <1>t, <1>11, <2>1 DEF Unlock, ListTypeOK, Labels
  <1>12. ASSUME Tick PROVE ListTypeOK'
    <2>1. Epoch \in Nat /\ now \in 0..MaxTime
      BY <1>t DEF TimerListAssumption
    <2>2. cur' \in 0..MaxTime
      BY <1>t, <1>12, <2>1 DEF Tick
    <2> QED
      BY <1>t, <1>12, <2>2 DEF Tick, ListTypeOK
  <1>13. ASSUME TickTake PROVE ListTypeOK'
    <2> DEFINE t == next[hpos]
    <2>1. t \in Timer \cup {NULL}
      BY <1>t
    <2>2. CASE t = NULL /\ Taken
      BY <1>t, <1>13, <2>2 DEF TickTake, Taken, ListTypeOK
    <2>3. CASE t # NULL /\ Take(t)
      <3>1. t \in Timer
        BY <2>1, <2>3
      <3>2. timeout_list' \in Seq(Timer)
        BY <1>t, <2>3, <3>1, AddedSet DEF Take
      <3>3. next' \in [Timer \cup {Root} -> Timer \cup {NULL}]
        BY <1>t, <2>3, <3>1 DEF Take
      <3> QED
        BY <1>t, <1>13, <2>3, <3>2, <3>3 DEF TickTake, Take, ListTypeOK
    <2>4. CASE t # NULL /\ hpos' = t /\ UNCHANGED <<next, locker, timeout_list, called_nb, hpc>>
      BY <1>t, <1>13, <2>1, <2>4 DEF TickTake, ListTypeOK
    <2> QED
      BY <1>13, <2>2, <2>3, <2>4 DEF TickTake
  <1>14. ASSUME CallNext PROVE ListTypeOK'
    <2> DEFINE t == timeout_list[called_nb + 1]
    <2>1. t \in Timer
      <3>1. called_nb < Len(timeout_list)
        BY <1>14 DEF CallNext, InHandler
      <3>2. called_nb + 1 \in 1..Len(timeout_list)
        BY <1>t, <3>1, QueuePlaces
      <3> QED
        BY <1>t, <3>2, QueuePlaces
    <2> HIDE DEF t
    <2>2. /\ called_nb' \in Nat /\ hpc' \in {"call", "readd"}
          /\ UNCHANGED <<now, started, locker, main, cur, hpos, timeout_list, undefined, intruded>>
      BY <1>t, <1>14 DEF CallNext
    <2>3. calls' \in [Timer -> 0..2]
      <3>1. CASE UNCHANGED calls
        BY <1>t, <3>1
      <3>2. CASE calls' = [calls EXCEPT ![t] = IF asked[t] = "no" \/ @ = 2 THEN @ ELSE @ + 1]
        BY <1>t, <2>1, <3>2
      <3> QED
        BY <1>14, <3>1, <3>2 DEF CallNext, t
    <2> DEFINE Data == /\ next' \in [Timer \cup {Root} -> Timer \cup {NULL}]
                       /\ node' \in [Timer -> Fields]
                       /\ live' \subseteq Timer
                       /\ asked' \in [Timer -> {"no", "silent", "exec"}]
    <2>4. Data
      <3>1. CASE CallbackNothing
        BY <1>t, <3>1 DEF CallbackNothing
      <3>2. ASSUME NEW u \in Timer, CallbackCreate(u) PROVE Data
        <4>1. node' \in [Timer -> Fields]
          BY <1>t, <3>2, FreshFields DEF CallbackCreate
        <4>2. next' \in [Timer \cup {Root} -> Timer \cup {NULL}]
          BY <3>2, AddedType DEF CallbackCreate
        <4> QED
          BY <1>t, <3>2, <4>1, <4>2 DEF CallbackCreate
      <3>3. ASSUME NEW c \in Target, NEW e \in BOOLEAN, CallbackDiscard(c, e) PROVE Data
        <4>1. \A v \in Timer : [node[v] EXCEPT !.discard = TRUE, !.exec_on_discard = e] \in Fields
          BY <1>t, SetFields
        <4> QED
          BY <1>t, <3>3, <4>1 DEF CallbackDiscard, AskedOf
      <3> QED
        BY <1>14, <3>1, <3>2, <3>3 DEF CallNext
    <2> QED
      BY <1>t, <2>2, <2>3, <2>4 DEF ListTypeOK
  <1>15. ASSUME ReaddNext PROVE ListTypeOK'
    <2> DEFINE t == Head(timeout_list)
    <2>1. t \in Timer /\ timeout_list' \in Seq(Timer)
      <3>1. timeout_list # <<>>
        BY <1>15 DEF ReaddNext, InHandler
      <3> QED
        BY <1>t, <1>15, <3>1, TailPlaces, QueuePlaces DEF ReaddNext
    <2> HIDE DEF t
    <2>2. /\ hpc' \in {"idle", "readd"}
          /\ UNCHANGED <<now, started, locker, main, cur, hpos, called_nb, undefined, intruded>>
      BY <1>15 DEF ReaddNext
    <2>3. CASE Readd(t)
      <3>1. [node[t] EXCEPT !.ts = cur] \in Fields
        BY <1>t, <2>1, SetFields
      <3>2. node' \in [Timer -> Fields]
        BY <1>t, <2>1, <2>3, <3>1 DEF Readd
      <3>3. next' \in [Timer \cup {Root} -> Timer \cup {NULL}]
        BY <2>1, <2>3, AddedType DEF Readd
      <3> QED
        BY <1>t, <2>1, <2>2, <2>3, <3>2, <3>3 DEF Readd, ListTypeOK
    <2>4. CASE Free(t)
      <3>1. Blank \in Fields
        BY <1>15 DEF Blank, Fields, TimerListAssumption
      <3>2. node' \in [Timer -> Fields]
        BY <1>t, <2>1, <2>4, <3>1 DEF Free
      <3>3. /\ next' \in [Timer \cup {Root} -> Timer \cup {NULL}] /\ live' \subseteq Timer
            /\ asked' \in [Timer -> {"no", "silent", "exec"}] /\ calls' \in [Timer -> 0..2]
        BY <1>t, <2>1, <2>4 DEF Free
      <3> QED
        BY <1>t, <2>1, <2>2, <3>2, <3>3 DEF ListTypeOK
    <2> QED
      BY <1>15, <2>3, <2>4 DEF ReaddNext, t
  <1>16. ASSUME Advance PROVE ListTypeOK'
    <2>1. Epoch \in Nat /\ MaxTime \in Nat
      BY DEF TimerListAssumption
    <2>2. now' \in Epoch..MaxTime
      BY <1>t, <1>16, <2>1 DEF Advance
    <2> QED
      BY <1>t, <1>16, <2>2 DEF Advance, ListTypeOK
  <1> QED
    BY <1>1, <1>2, <1>3, <1>4, <1>5, <1>6, <1>7, <1>8, <1>9, <1>10, <1>11, <1>12, <1>13,
       <1>14, <1>15, <1>16 DEF ListNext, Call, MainStep, HandlerStep

-----------------------------------------------------------------------------
(* What the handler relies on *)

(* __timer_list_add, as the handler's functions call it. *)
LEMMA AddedLinks ==
    ASSUME TimerListAssumption, ListTypeOK, Sound, NEW t \in Timer, t \notin ToSet(Chain),
           NEW n, live' \subseteq Timer, live \cup {t} \subseteq live', next' = Added(t, n)
    PROVE  /\ Sound' /\ Chain' = AddBefore(Chain, NoEarlier(t, n), t)
           /\ ToSet(Chain') = ToSet(Chain) \cup {t}
  <1> DEFINE r == AddBefore(Chain, NoEarlier(t, n), t)
  <1>1. /\ Chain \in Seq(live) /\ Chain \in Seq(Timer) /\ Leads(next, Chain)
        /\ next \in [Timer \cup {Root} -> Timer \cup {NULL}]
    BY ChainThere DEF ListTypeOK
  <1>2. ~Contains(Chain, t)
    BY <1>1, InSet
  <1>3. Leads(next', r)
    BY <1>1, <1>2, AddedLeads DEF Added
  <1>4. Chain \in Seq(live') /\ t \in live'
    BY <1>1, SeqMonotonic, ElementOfSeq
  <1>5. r \in Seq(live') /\ ToSet(r) = ToSet(Chain) \cup {t}
    BY <1>4, AddedSet
  <1> HIDE DEF r
  <1>6. Sound' /\ Chain' = r
    BY <1>3, <1>5, ChainBecomes
  <1> QED
    BY <1>5, <1>6 DEF r

(* The loop of the tick takes the entry at *ppos. *)
LEMMA TakenLinks ==
    ASSUME TimerListAssumption, ListTypeOK, Sound, NEW n \in 0..Len(Chain),
           hpos = Along(Chain, n), next[hpos] # NULL, Take(next[hpos]), live' = live
    PROVE  /\ n + 1 \in 1..Len(Chain) /\ next[hpos] = Chain[n + 1] /\ Chain[n + 1] \in live
           /\ Sound' /\ Chain' = RemoveAt(Chain, n + 1)
           /\ ToSet(Chain') = ToSet(Chain) \ {Chain[n + 1]}
  <1>1. /\ Chain \in Seq(live) /\ Chain \in Seq(Timer) /\ Leads(next, Chain)
        /\ IsInjective(Chain) /\ Len(Chain) \in Nat
        /\ next \in [Timer \cup {Root} -> Timer \cup {NULL}] /\ live \subseteq Timer
    BY ChainThere DEF ListTypeOK
  <1>2. next[hpos] = Along(Chain, n + 1)
    BY <1>1 DEF Leads
  <1>3. n + 1 \in 0..Len(Chain) + 1 /\ n + 1 # Len(Chain) + 1
    <2>1. n + 1 \in 0..Len(Chain) + 1
      BY <1>1
    <2> QED
      BY <2>1, <1>1, <1>2, AlongPlaces
  <1>4. n + 1 \in 1..Len(Chain)
    BY <1>1, <1>3
  <1>5. next[hpos] = Chain[n + 1] /\ Chain[n + 1] \in live
    BY <1>1, <1>2, <1>4, AlongPlaces, QueuePlaces
  <1> DEFINE r == RemoveAt(Chain, n + 1)
  <1>6. Leads(next', r)
    <2>1. Leads([next EXCEPT ![Along(Chain, (n + 1) - 1)] = next[Chain[n + 1]]], r)
      BY <1>1, <1>4, DeletedLeads
    <2>2. (n + 1) - 1 = n
      BY <1>1
    <2> QED
      BY <2>1, <2>2, <1>5 DEF Take
  <1>7. r \in Seq(live') /\ ToSet(r) = ToSet(Chain) \ {Chain[n + 1]}
    BY <1>1, <1>4, RemoveAtPlaces, RemovedSet
  <1> HIDE DEF r
  <1>8. Sound' /\ Chain' = r
    BY <1>1, <1>6, <1>7, ChainBecomes
  <1> QED
    BY <1>4, <1>5, <1>7, <1>8 DEF r

(* free(tmp) of a timer that is not on g_head. *)
LEMMA FreedLinks ==
    ASSUME TimerListAssumption, ListTypeOK, Sound, NEW t \in Timer, t \notin ToSet(Chain), Free(t)
    PROVE  Sound' /\ Chain' = Chain
  <1>1. /\ Chain \in Seq(live) /\ Chain \in Seq(Timer) /\ Len(Chain) \in Nat
        /\ next \in [Timer \cup {Root} -> Timer \cup {NULL}] /\ live \subseteq Timer
    BY ChainThere DEF ListTypeOK
  <1>2. \A i \in 1..Len(Chain) : Chain[i] \in live'
    <2> SUFFICES ASSUME NEW i \in 1..Len(Chain) PROVE Chain[i] \in live'
      OBVIOUS
    <2>1. Chain[i] \in live /\ Chain[i] \in ToSet(Chain)
      BY <1>1, InSet, QueuePlaces
    <2> QED
      BY <2>1 DEF Free
  <1>3. \A i \in 0..Len(Chain) : next'[Along(Chain, i)] = next[Along(Chain, i)]
    <2> SUFFICES ASSUME NEW i \in 0..Len(Chain) PROVE next'[Along(Chain, i)] = next[Along(Chain, i)]
      OBVIOUS
    <2>1. Along(Chain, i) # t
      <3>1. CASE i = 0
        BY <3>1, <1>1, AlongPlaces DEF TimerListAssumption
      <3>2. CASE i # 0
        <4>1. i \in 1..Len(Chain)
          BY <3>2, <1>1
        <4> QED
          BY <4>1, <1>1, InSet, AlongPlaces
      <3> QED
        BY <3>1, <3>2
    <2>2. Along(Chain, i) \in Timer \cup {Root}
      BY <1>1, AlongPlaces
    <2> QED
      BY <2>1, <2>2, <1>1 DEF Free
  <1>4. live' \subseteq Timer
    BY <1>1 DEF Free
  <1> QED
    BY <1>1, <1>2, <1>3, <1>4, ChainLeft

(* A timer that a tick takes is not called too early. *)
LEMMA TakenEarly ==
    ASSUME TimerListAssumption, ListTypeOK, NEW t \in Timer, Takes(t), cur \in Epoch..now,
           node[t].ts >= Epoch
    PROVE  Early(t)
  <1>1. cur \in Nat /\ cur >= Epoch /\ node[t] \in Fields
    BY DEF ListTypeOK, TimerListAssumption
  <1>2. Expired(node[t], cur) => Due(node[t]) - cur <= 2 * (Second - 1)
    BY <1>1, ExpiredTimes
  <1> QED
    BY <1>2 DEF Takes, Early

(* A step of the program's thread stays clear of what the handler left. *)
LEMMA ProgramStep ==
    ASSUME TimerListAssumption, ListTypeOK, Call \/ MainStep
    PROVE  /\ hpc = "idle" /\ UNCHANGED <<now, handler, intruded>>
           /\ \A t \in live' : t \in live \/ (node'[t].ts = now /\ node'[t].cb # NULL)
           /\ \A t \in live : /\ t \in live' /\ node'[t].ts = node[t].ts
                              /\ node'[t].delay = node[t].delay /\ node'[t].cb = node[t].cb
  <1> USE DEF handler, Runs
  <1>t. /\ node \in [Timer -> Fields] /\ live \subseteq Timer /\ now \in Epoch..MaxTime
    BY DEF ListTypeOK
  <1> DEFINE Kept == \A t \in live : /\ t \in live' /\ node'[t].ts = node[t].ts
                                     /\ node'[t].delay = node[t].delay /\ node'[t].cb = node[t].cb
             OnlyNow == \A t \in live' : t \in live \/ (node'[t].ts = now /\ node'[t].cb # NULL)
  <1>1. ASSUME UNCHANGED <<node, live>> PROVE Kept /\ OnlyNow
    BY <1>1
  <1>2. ASSUME NEW t \in Timer, Create(t) PROVE Kept /\ OnlyNow
    <2>1. PICK n \in Fresh : node' = [node EXCEPT ![t] = n]
      BY <1>2 DEF Create
    <2>2. n.ts = now /\ n.cb # NULL
      BY <1>t, FreshFields
    <2>3. node'[t].ts = now /\ node'[t].cb # NULL /\ \A u \in Timer : u # t => node'[u] = node[u]
      BY <1>t, <2>1, <2>2
    <2> QED
      BY <1>2, <1>t, <2>3 DEF Create
  <1>3. ASSUME DiscardWalk PROVE Kept /\ OnlyNow
    <2>1. CASE node' = [node EXCEPT ![ppos].discard = TRUE] /\ ppos \in live /\ UNCHANGED live
      BY <1>t, <2>1 DEF Fields
    <2> QED
      BY <1>1, <1>3, <2>1 DEF DiscardWalk, Undefined
  <1>4. ASSUME DiscardExec PROVE Kept /\ OnlyNow
    <2>1. CASE node' = [node EXCEPT ![ppos].exec_on_discard = exec] /\ ppos \in live /\ UNCHANGED live
      BY <1>t, <2>1 DEF Fields
    <2> QED
      BY <1>1, <1>4, <2>1 DEF DiscardExec, Undefined
  <1>5. ASSUME timer_list_start \/ AddLock \/ AddWalk \/ AddNext \/ AddLink \/ DiscardLock \/ Unlock
        PROVE  UNCHANGED <<node, live>>
    BY <1>5 DEF timer_list_start, AddLock, AddWalk, AddNext, AddLink, DiscardLock, Unlock, Undefined
  <1>6. ASSUME NEW c \in Target, NEW e \in BOOLEAN, Discard(c, e) PROVE UNCHANGED <<node, live>>
    BY <1>6 DEF Discard
  <1>7. Kept /\ OnlyNow
    BY <1>1, <1>2, <1>3, <1>4, <1>5, <1>6 DEF Call, MainStep
  <1>8. hpc = "idle" /\ UNCHANGED <<now, handler, intruded>>
    BY DEF Call, MainStep, timer_list_start, Create, AddLock, AddWalk, AddNext, AddLink, Discard,
           DiscardLock, DiscardWalk, DiscardExec, Unlock, Undefined
  <1> QED
    BY <1>7, <1>8

LEMMA InHandlerStep ==
    ASSUME TimerListAssumption, ListTypeOK, InHandler, ListNext
    PROVE  InHandler'
  <1> USE DEF handler
  <1>t. /\ now \in Epoch..MaxTime /\ cur \in 0..MaxTime
        /\ next \in [Timer \cup {Root} -> Timer \cup {NULL}]
        /\ node \in [Timer -> Fields]
        /\ live \subseteq Timer
        /\ hpc \in {"idle", "take", "call", "readd"}
        /\ hpos \in Timer \cup {Root} /\ timeout_list \in Seq(Timer) /\ called_nb \in Nat
        /\ Epoch \in Nat /\ MaxTime \in Nat
    BY DEF ListTypeOK, TimerListAssumption
  <1>e. NULL \notin Timer /\ Root \notin Timer /\ NULL # Root
    BY DEF TimerListAssumption
  <1>c. /\ Chain \in Seq(live) /\ Chain \in Seq(Timer) /\ Len(Chain) \in Nat
        /\ Sound => Leads(next, Chain) /\ IsInjective(Chain)
    BY <1>t, ChainThere
  <1>w. /\ Waiting \subseteq Timer
        /\ \A x : x \in Waiting <=> \E i \in 1..Len(timeout_list) : timeout_list[i] = x
    BY <1>t, InSet DEF Waiting
  <1>s. \A t \in live : node[t].ts >= Epoch /\ node[t].cb # NULL
    BY DEF InHandler
  <1>1. ASSUME Call \/ MainStep PROVE InHandler'
    <2>1. /\ hpc = "idle" /\ UNCHANGED <<now, handler, intruded>>
          /\ \A t \in live' : t \in live \/ (node'[t].ts = now /\ node'[t].cb # NULL)
          /\ \A t \in live : node'[t].ts = node[t].ts /\ node'[t].cb = node[t].cb
      BY <1>1, ProgramStep
    <2>2. \A t \in live' : node'[t].ts >= Epoch /\ node'[t].cb # NULL
      BY <2>1, <1>s, <1>t
    <2>3. hpc' = "idle" /\ timeout_list' = <<>>
      BY <2>1 DEF InHandler
    <2> QED
      BY <2>2, <2>3 DEF InHandler
  <1>2. ASSUME Tick PROVE InHandler'
    <2>1. UNCHANGED <<next, node, live, now, timeout_list>> /\ hpc = "idle" /\ timeout_list = <<>>
      BY <1>2 DEF Tick, InHandler
    <2>2. CASE ~Sound
      BY <1>2, <1>s, <2>1, <2>2 DEF Tick, InHandler
    <2>3. CASE Sound
      <3>1. hpc' = "take" /\ cur' = now /\ hpos' = Root
        BY <1>2, <2>3 DEF Tick
      <3>2. Sound' /\ Chain' = Chain
        BY <2>1, <2>3, ChainSame
      <3>3. Waiting' = {} /\ IsInjective(timeout_list')
        BY <2>1 DEF Waiting, ToSet, IsInjective
      <3>4. hpos' = Along(Chain', 0) /\ 0 \in 0..Len(Chain')
        BY <1>c, <3>1, <3>2 DEF Along
      <3>5. \A i \in 1..0 : ~Takes(Chain[i])'
        OBVIOUS
      <3> QED
        BY <1>s, <1>t, <2>1, <3>1, <3>2, <3>3, <3>4, <3>5 DEF InHandler
    <2> QED
      BY <2>2, <2>3
  <1>3. ASSUME TickTake PROVE InHandler'
    <2> DEFINE t == next[hpos]
    <2>1. /\ hpc = "take" /\ Sound /\ cur \in Epoch..now
          /\ IsInjective(timeout_list) /\ Waiting \subseteq live \ ToSet(Chain)
          /\ \A u \in Waiting : Early(u)
      BY <1>3 DEF TickTake, InHandler
    <2>2. PICK n \in 0..Len(Chain) : hpos = Along(Chain, n) /\ \A i \in 1..n : ~Takes(Chain[i])
      BY <2>1 DEF InHandler
    <2>3. UNCHANGED <<now, node, live, cur>>
      BY <1>3 DEF TickTake
    <2>4. \A u : (Takes(u)' <=> Takes(u)) /\ (Early(u)' <=> Early(u))
      BY <2>3 DEF Takes, Early
    <2>a. \A i : Takes(Chain[i])' <=> Takes(Chain'[i])
      BY <2>3 DEF Takes
    <2>5. CASE t = NULL /\ Taken
      <3>1. /\ UNCHANGED <<next, timeout_list>> /\ called_nb' = 0
            /\ hpc' = IF timeout_list = <<>> THEN "idle" ELSE "call"
        BY <2>5 DEF Taken
      <3>2. Sound' /\ Chain' = Chain /\ Waiting' = Waiting
        BY <2>1, <2>3, <3>1, ChainSame DEF Waiting
      <3>3. timeout_list # <<>> => 0 < Len(timeout_list)
        BY <1>t, QueuePlaces
      <3> QED
        BY <1>s, <2>1, <2>3, <2>4, <3>1, <3>2, <3>3 DEF InHandler
    <2>6. CASE t # NULL /\ Takes(t) /\ Take(t)
      <3>1. /\ n + 1 \in 1..Len(Chain) /\ t = Chain[n + 1] /\ t \in live
            /\ Sound' /\ Chain' = RemoveAt(Chain, n + 1) /\ ToSet(Chain') = ToSet(Chain) \ {t}
        BY <2>1, <2>2, <2>3, <2>6, TakenLinks
      <3>2. t \in ToSet(Chain)
        BY <1>c, <3>1, InSet
      <3> HIDE DEF t
      <3>3. UNCHANGED hpos /\ hpc' = "take" /\ timeout_list' = AddBefore(timeout_list, NoEarlier(t, node), t)
        BY <2>1, <2>6 DEF Take
      <3>4. IsInjective(timeout_list') /\ Waiting' = Waiting \cup {t}
        BY <1>t, <2>1, <3>1, <3>2, <3>3, AddedSet DEF Waiting
      <3>5. Waiting' \subseteq live' \ ToSet(Chain')
        BY <2>1, <2>3, <3>1, <3>4
      <3>6. \A u \in Waiting' : Early(u)'
        <4>1. Early(t)
          BY <1>s, <1>t, <2>1, <2>6, <3>1, TakenEarly
        <4> QED
          BY <2>1, <2>4, <3>4, <4>1
      <3>7. /\ Len(Chain') = Len(Chain) - 1
            /\ \A i \in 1..n : i \in 1..Len(Chain') /\ Chain'[i] = Chain[i]
        BY SMTT(30), <1>c, <3>1, RemoveAtPlaces
      <3>8. n \in 0..Len(Chain') /\ hpos' = Along(Chain', n)
        <4>1. n \in 0..Len(Chain')
          BY <1>c, <3>1, <3>7
        <4>2. n = 0 \/ n \in 1..n
          BY <1>c
        <4> QED
          BY <1>c, <2>2, <3>3, <3>7, <4>1, <4>2 DEF Along
      <3>9. \A i \in 1..n : ~Takes(Chain[i])'
        BY <2>2, <2>a, <3>7
      <3>10. \E m \in 0..Len(Chain') : hpos' = Along(Chain', m) /\ \A i \in 1..m : ~Takes(Chain[i])'
        BY <3>8, <3>9
      <3> QED
        BY <1>s, <2>1, <2>3, <3>1, <3>3, <3>4, <3>5, <3>6, <3>10 DEF InHandler
    <2>7. CASE t # NULL /\ ~Takes(t) /\ hpos' = t /\ UNCHANGED <<next, locker, timeout_list, called_nb, hpc>>
      <3>1. Sound' /\ Chain' = Chain /\ Waiting' = Waiting
        BY <2>1, <2>3, <2>7, ChainSame DEF Waiting
      <3>2. t = Along(Chain, n + 1)
        BY <1>c, <2>1, <2>2 DEF Leads
      <3>3. n + 1 \in 0..Len(Chain) + 1 /\ n + 1 # Len(Chain) + 1
        <4>1. n + 1 \in 0..Len(Chain) + 1
          BY <1>c
        <4> QED
          BY <4>1, <1>c, <2>7, <3>2, AlongPlaces
      <3>4. n + 1 \in 1..Len(Chain) /\ n + 1 \in 0..Len(Chain) /\ t = Chain[n + 1]
        <4>1. n + 1 \in 1..Len(Chain) /\ n + 1 \in 0..Len(Chain)
          BY <1>c, <3>3
        <4> QED
          BY <4>1, <1>c, <3>2, AlongPlaces
      <3>5. \A i \in 1..n + 1 : i \in 1..n \/ i = n + 1
        BY <1>c
      <3>6. hpos' = Along(Chain', n + 1) /\ \A i \in 1..n + 1 : ~Takes(Chain[i])'
        BY <2>2, <2>a, <2>7, <3>1, <3>2, <3>4, <3>5
      <3>7. \E m \in 0..Len(Chain') : hpos' = Along(Chain', m) /\ \A i \in 1..m : ~Takes(Chain[i])'
        BY <3>1, <3>4, <3>6
      <3>8. \A u \in Waiting' : Early(u)'
        BY <2>1, <2>4, <3>1
      <3> QED
        BY <1>s, <2>1, <2>3, <2>7, <3>1, <3>7, <3>8 DEF InHandler
    <2> QED
      BY <1>3, <2>5, <2>6, <2>7 DEF TickTake
  <1>4. ASSUME CallNext PROVE InHandler'
    <2>1. /\ hpc = "call" /\ Sound /\ cur \in Epoch..now /\ called_nb < Len(timeout_list)
          /\ IsInjective(timeout_list) /\ Waiting \subseteq live \ ToSet(Chain)
          /\ \A u \in Waiting : Early(u)
      BY <1>4 DEF CallNext, InHandler
    <2>2. /\ UNCHANGED <<now, cur, timeout_list>> /\ called_nb' = called_nb + 1
          /\ hpc' = IF called_nb' = Len(timeout_list) THEN "readd" ELSE "call"
          /\ Waiting' = Waiting
      BY <1>4 DEF CallNext, Waiting
    <2>3. /\ hpc' \in {"call", "readd"} /\ (hpc' = "call" => called_nb' < Len(timeout_list'))
          /\ timeout_list' # <<>>
      <3>1. Len(timeout_list) \in Nat /\ (timeout_list = <<>> <=> Len(timeout_list) = 0)
        BY <1>t, QueuePlaces
      <3> QED
        BY <1>t, <2>1, <2>2, <3>1
    <2> DEFINE Data == /\ Sound' /\ Waiting \subseteq live' \ ToSet(Chain')
                       /\ \A u \in live' : node'[u].ts >= Epoch /\ node'[u].cb # NULL
                       /\ \A u \in Waiting : Early(u)'
    <2>4. Data
      <3>1. CASE CallbackNothing
        <4>1. UNCHANGED <<next, node, live>>
          BY <3>1 DEF CallbackNothing
        <4>2. Sound' /\ Chain' = Chain
          BY <2>1, <4>1, ChainSame
        <4>3. \A u : Early(u)' <=> Early(u)
          BY <2>2, <4>1 DEF Early
        <4> QED
          BY <1>s, <2>1, <4>1, <4>2, <4>3
      <3>2. ASSUME NEW u \in Timer, CallbackCreate(u) PROVE Data
        <4>1. PICK m \in Fresh : node' = [node EXCEPT ![u] = m]
          BY <3>2 DEF CallbackCreate
        <4>2. m.ts >= Epoch /\ m.cb # NULL
          BY <1>t, FreshFields
        <4>3. u \notin live /\ live' = live \cup {u} /\ next' = Added(u, node')
          BY <3>2 DEF CallbackCreate
        <4>4. u \notin ToSet(Chain)
          BY <1>c, <4>3, InSet
        <4>5. Sound' /\ ToSet(Chain') = ToSet(Chain) \cup {u}
          BY <1>t, <2>1, <4>3, <4>4, AddedLinks
        <4>6. \A v \in Timer : v # u => node'[v] = node[v] /\ (Early(v)' <=> Early(v))
          BY <1>t, <2>2, <4>1 DEF Early
        <4>7. node'[u].ts >= Epoch /\ node'[u].cb # NULL
          BY <1>t, <4>1, <4>2
        <4> QED
          BY <1>s, <1>t, <1>w, <2>1, <4>3, <4>5, <4>6, <4>7
      <3>3. ASSUME NEW c \in Target, NEW e \in BOOLEAN, CallbackDiscard(c, e) PROVE Data
        <4>1. UNCHANGED <<next, live>>
          BY <3>3 DEF CallbackDiscard
        <4>2. Sound' /\ Chain' = Chain
          BY <2>1, <4>1, ChainSame
        <4>3. \A v \in Timer : /\ node'[v].ts = node[v].ts /\ node'[v].delay = node[v].delay
                               /\ node'[v].cb = node[v].cb
                               /\ node[v].discard => node'[v].discard
          BY <1>t, <3>3 DEF CallbackDiscard, Fields
        <4>4. \A v \in Timer : Early(v) => Early(v)'
          BY <2>2, <4>3 DEF Early, Due
        <4> QED
          BY <1>s, <1>t, <1>w, <2>1, <4>1, <4>2, <4>3, <4>4
      <3> QED
        BY <1>4, <3>1, <3>2, <3>3 DEF CallNext
    <2> QED
      BY <2>1, <2>2, <2>3, <2>4 DEF InHandler
  <1>5. ASSUME ReaddNext PROVE InHandler'
    <2> DEFINE t == Head(timeout_list)
    <2>1. /\ hpc = "readd" /\ Sound /\ cur \in Epoch..now /\ timeout_list # <<>>
          /\ IsInjective(timeout_list) /\ Waiting \subseteq live \ ToSet(Chain)
      BY <1>5 DEF ReaddNext, InHandler
    <2>2. /\ UNCHANGED <<now, cur>> /\ timeout_list' = Tail(timeout_list)
          /\ hpc' = IF timeout_list' = <<>> THEN "idle" ELSE "readd"
          /\ Readd(t) \/ Free(t)
      BY <1>5 DEF ReaddNext
    <2>3. t \in Waiting /\ IsInjective(timeout_list') /\ Waiting' = Waiting \ {t}
      BY <1>t, <2>1, <2>2, TailSet DEF Waiting
    <2>4. t \in Timer /\ t \in live /\ t \notin ToSet(Chain)
      BY <1>w, <2>1, <2>3
    <2> HIDE DEF t
    <2>5. /\ Sound' /\ Waiting' \subseteq live' \ ToSet(Chain')
          /\ \A u \in live' : node'[u].ts >= Epoch /\ node'[u].cb # NULL
      <3>1. CASE Readd(t)
        <4>1. UNCHANGED live /\ next' = Added(t, node')
          BY <3>1 DEF Readd
        <4>2. Sound' /\ ToSet(Chain') = ToSet(Chain) \cup {t}
          BY <1>t, <2>1, <2>4, <4>1, AddedLinks
        <4>3. \A u \in Timer : /\ node'[u].ts = IF u = t THEN cur ELSE node[u].ts
                               /\ node'[u].cb = node[u].cb
          BY <1>t, <2>4, <3>1 DEF Readd, Fields
        <4> QED
          BY <1>s, <1>t, <2>1, <2>3, <4>1, <4>2, <4>3
      <3>2. CASE Free(t)
        <4>1. Sound' /\ Chain' = Chain
          BY <2>1, <2>4, <3>2, FreedLinks
        <4>2. live' = live \ {t} /\ \A u \in Timer : u # t => node'[u] = node[u]
          BY <1>t, <2>4, <3>2 DEF Free
        <4> QED
          BY <1>s, <1>t, <2>1, <2>3, <4>1, <4>2
      <3> QED
        BY <2>2, <3>1, <3>2
    <2> QED
      BY <2>1, <2>2, <2>3, <2>5 DEF InHandler
  <1>6. ASSUME Advance PROVE InHandler'
    <2>1. UNCHANGED <<next, node, live, handler>> /\ now' = now + 1
      BY <1>6 DEF Advance
    <2>2. Sound' = Sound /\ Chain' = Chain /\ Waiting' = Waiting
      BY <2>1, ChainSame DEF Waiting
    <2>3. \A u : (Takes(u)' <=> Takes(u)) /\ (Early(u)' <=> Early(u))
      BY <2>1 DEF Takes, Early
    <2>4. cur \in Epoch..now => cur' \in Epoch..now'
      BY <1>t, <2>1
    <2> QED
      BY <2>1, <2>2, <2>3, <2>4 DEF InHandler
  <1> QED
    BY <1>1, <1>2, <1>3, <1>4, <1>5, <1>6 DEF ListNext, HandlerStep

-----------------------------------------------------------------------------
(* The whole list, as long as no tick intrudes *)

(* What holds of a whole list while the program's thread runs. *)
LEMMA Uninterrupted ==
    ASSUME TimerListAssumption, ListTypeOK, InHandler, Whole, hpc = "idle"
    PROVE  /\ Waiting = {} /\ timeout_list = <<>>
           /\ live = ToSet(Chain) \cup Adding /\ ToSet(Chain) \cap Adding = {}
           /\ \A t \in Timer : calls[t] = 0
           /\ \A t \in Timer : asked[t] # "no" => t \in ToSet(Chain) /\ node[t].discard
           /\ Chain \in Seq(live) /\ Chain \in Seq(Timer) /\ Len(Chain) \in Nat
           /\ Leads(next, Chain) /\ IsInjective(Chain)
           /\ \A x : x \in ToSet(Chain) <=> \E i \in 1..Len(Chain) : Chain[i] = x
           /\ \A i \in 1..Len(Chain) : Chain[i] \in ToSet(Chain) /\ Chain[i] \in live
  <1>1. timeout_list = <<>>
    BY DEF InHandler
  <1>2. Waiting = {}
    BY <1>1 DEF Waiting, ToSet
  <1>3. live = ToSet(Chain) \cup Adding /\ ToSet(Chain) \cap Adding = {}
    BY <1>2 DEF Whole, AllThere
  <1>4. \A t \in Timer : calls[t] = 0
    BY <1>2 DEF Whole, Promised
  <1>5. \A t \in Timer : asked[t] # "no" => t \in ToSet(Chain) /\ node[t].discard
    BY <1>2 DEF Whole, Promised
  <1>6. /\ Chain \in Seq(live) /\ Chain \in Seq(Timer) /\ Len(Chain) \in Nat
        /\ Leads(next, Chain) /\ IsInjective(Chain)
    BY ChainThere DEF Whole, ListTypeOK
  <1>7. /\ \A x : x \in ToSet(Chain) <=> \E i \in 1..Len(Chain) : Chain[i] = x
        /\ \A i \in 1..Len(Chain) : Chain[i] \in ToSet(Chain) /\ Chain[i] \in live
    BY <1>6, InSet, QueuePlaces
  <1> QED
    BY <1>1, <1>2, <1>3, <1>4, <1>5, <1>6, <1>7

(* A place a walk has come to: freed memory is not among them. *)
LEMMA PlaceOn ==
    ASSUME TimerListAssumption, NEW s \in SUBSET Timer, NEW f, NEW list \in Seq(s),
           Leads(f, list), NEW n \in 0..Len(list)
    PROVE  LET p == Along(list, n) IN
           /\ p \in s \cup {Root} /\ f[p] = Along(list, n + 1)
           /\ f[p] \in s \cup {NULL}
           /\ f[p] = NULL <=> n = Len(list)
           /\ f[p] # NULL => /\ n + 1 \in 1..Len(list) /\ n + 1 \in 0..Len(list)
                             /\ f[p] = list[n + 1]
  <1>1. /\ list \in Seq(Timer) /\ Len(list) \in Nat /\ \A i \in 1..Len(list) : list[i] \in s
    BY SeqMonotonic, ElementOfSeq, QueuePlaces
  <1>2. f[Along(list, n)] = Along(list, n + 1)
    BY DEF Leads
  <1>3. n = 0 \/ n \in 1..Len(list)
    BY <1>1
  <1>4. Along(list, n) \in s \cup {Root}
    BY <1>1, <1>3, AlongPlaces
  <1>5. n + 1 = Len(list) + 1 \/ n + 1 \in 1..Len(list)
    BY <1>1
  <1>6. n + 1 \in 0..Len(list) + 1 /\ (n + 1 = Len(list) + 1 <=> n = Len(list))
    BY <1>1
  <1>7. Along(list, n + 1) = NULL <=> n = Len(list)
    BY <1>1, <1>6, AlongPlaces
  <1>8. ASSUME n # Len(list)
        PROVE  n + 1 \in 1..Len(list) /\ n + 1 \in 0..Len(list) /\ Along(list, n + 1) = list[n + 1]
    <2>1. n + 1 \in 1..Len(list) /\ n + 1 \in 0..Len(list)
      BY <1>1, <1>8
    <2> QED
      BY <2>1, <1>1, AlongPlaces
  <1>9. Along(list, n + 1) \in s \cup {NULL}
    BY <1>1, <1>7, <1>8
  <1> QED
    BY <1>2, <1>4, <1>7, <1>8, <1>9

(* Steps that touch nothing the invariant speaks of. *)
LEMMA WholeSame ==
    ASSUME UNCHANGED <<locker, next, node, live, main, handler, undefined, history>>, Whole
    PROVE  Whole'
  <1>1. Sound' = Sound /\ Chain' = Chain
    BY ChainSame
  <1>2. AllThere' /\ Sorted'
    BY <1>1 DEF Whole, AllThere, Sorted, Waiting, Adding, main, handler
  <1>3. AtPlace => AtPlace'
    BY <1>1 DEF AtPlace, main
  <1>4. Marking => Marking'
    BY <1>1 DEF Marking, Marked, main
  <1>5. Sections'
    BY <1>1, <1>3, <1>4 DEF Whole, Sections, InSection, Adding, Marked, main, handler, history
  <1>6. Promised'
    BY <1>1 DEF Whole, Promised, Waiting, InSection, main, handler, history
  <1> QED
    BY <1>1, <1>2, <1>5, <1>6 DEF Whole

(* timer_list_create up to the lock. *)
LEMMA WholeCreate ==
    ASSUME TimerListAssumption, ListTypeOK, InHandler, Whole, NEW t \in Timer, Create(t)
    PROVE  Whole'
  <1> USE DEF main, handler, history, Runs
  <1>t. node \in [Timer -> Fields] /\ live \subseteq Timer /\ now \in Epoch..MaxTime
    BY DEF ListTypeOK
  <1>a. /\ hpc = "idle" /\ pc = "idle" /\ t \notin live /\ live' = live \cup {t} /\ new' = t
        /\ pc' = "add lock"
        /\ UNCHANGED <<locker, next, ppos, cb, exec, hpc, timeout_list, undefined, asked, calls>>
    BY DEF Create
  <1>u. /\ Waiting = {} /\ timeout_list = <<>> /\ live = ToSet(Chain) \cup Adding
        /\ \A s \in Timer : calls[s] = 0
        /\ Chain \in Seq(live) /\ Chain \in Seq(Timer) /\ Leads(next, Chain)
        /\ \A x : x \in ToSet(Chain) <=> \E i \in 1..Len(Chain) : Chain[i] = x
        /\ \A i \in 1..Len(Chain) : Chain[i] \in ToSet(Chain) /\ Chain[i] \in live
        /\ \A s \in Timer : asked[s] # "no" => s \in ToSet(Chain) /\ node[s].discard
    BY <1>a, Uninterrupted
  <1>n. \A s \in Timer : s # t => node'[s] = node[s]
    BY <1>t DEF Create
  <1>1. Sound' /\ Chain' = Chain
    <2>1. Chain \in Seq(live') /\ live' \subseteq Timer
      BY <1>t, <1>a, <1>u, SeqMonotonic, ElementOfSeq
    <2>2. Leads(next', Chain)
      BY <1>a, <1>u
    <2> QED
      BY <2>1, <2>2, ChainBecomes
  <1>2. Adding = {} /\ Adding' = {t} /\ Waiting' = {}
    BY <1>a, <1>u DEF Adding, Waiting
  <1>3. t \notin ToSet(Chain) /\ asked[t] = "no"
    BY <1>a, <1>u
  <1>4. AllThere'
    BY <1>a, <1>u, <1>1, <1>2, <1>3 DEF AllThere
  <1>5. Sorted'
    <2>1. \A i \in 1..Len(Chain) : node'[Chain[i]] = node[Chain[i]]
      BY <1>t, <1>a, <1>n, <1>u
    <2> QED
      BY <2>1, <1>1, InOrderSame DEF Whole, Sorted
  <1>6. Sections'
    <2>1. cb = NULL
      BY <1>a DEF Whole, Sections
    <2> QED
      BY <1>a, <1>2, <1>3, <2>1 DEF Sections, InSection
  <1>7. Promised'
    <2> SUFFICES ASSUME NEW s \in Timer, asked[s] # "no"
                 PROVE  node'[s].exec_on_discard = (asked[s] = "exec")
      BY <1>a, <1>u, <1>n, <1>1, <1>2, <1>3 DEF Promised
    <2>1. s # t /\ node'[s] = node[s]
      BY <1>3, <1>n
    <2>2. ~InSection
      BY <1>a DEF InSection
    <2> QED
      BY <2>1, <2>2 DEF Whole, Promised
  <1> QED
    BY <1>a, <1>1, <1>4, <1>5, <1>6, <1>7 DEF Whole

(* Steps of a walk: no timer changes, and the list is the same. *)
LEMMA WholeWalk ==
    ASSUME Whole, Sound', Chain' = Chain, Adding' = Adding, Sections',
           UNCHANGED <<node, live, hpc, timeout_list, called_nb, undefined, history>>,
           InSection => InSection' /\ cb' = cb
    PROVE  Whole'
  <1>1. Waiting' = Waiting
    BY DEF Waiting
  <1>2. AllThere' /\ Sorted'
    BY <1>1 DEF Whole, AllThere, Sorted
  <1>3. Promised'
    BY <1>1 DEF Whole, Promised, history
  <1> QED
    BY <1>2, <1>3 DEF Whole

LEMMA WholeAddWalk ==
    ASSUME TimerListAssumption, ListTypeOK, InHandler, Whole, AddLock \/ AddWalk
    PROVE  Whole'
  <1> USE DEF main, handler, history, Runs
  <1>a. hpc = "idle" /\ pc \in {"add lock", "add walk"}
    BY DEF AddLock, AddWalk
  <1>u. /\ live = ToSet(Chain) \cup Adding /\ Chain \in Seq(live) /\ Chain \in Seq(Timer)
        /\ Leads(next, Chain) /\ Len(Chain) \in Nat
    BY <1>a, Uninterrupted
  <1>s. new \in Timer /\ asked[new] = "no" /\ cb = NULL
    BY <1>a DEF Whole, Sections, Adding
  <1>1. CASE AddLock
    <2>1. /\ UNCHANGED <<next, node, live, hpc, timeout_list, called_nb, undefined, history, new, cb>>
          /\ pc = "add lock" /\ pc' = "add walk" /\ ppos' = Root /\ locker'
      BY <1>1 DEF AddLock
    <2>2. Sound' /\ Chain' = Chain
      BY <2>1, ChainSame DEF Whole
    <2>3. AtPlace'
      <3>1. 0 \in 0..Len(Chain') /\ ppos' = Along(Chain', 0) /\ pc' = "add walk"
        <4>1. 0 \in 0..Len(Chain) /\ Along(Chain, 0) = Root
          BY <1>u DEF Along
        <4> QED
          BY <4>1, <2>1, <2>2
      <3>2. \A i \in 1..0 : ~NotAfter(node[new], node[Chain[i]])'
        OBVIOUS
      <3> QED
        BY <3>1, <3>2 DEF AtPlace
    <2>4. Sections'
      BY <1>a, <1>s, <2>1, <2>3 DEF Sections, InSection, Adding
    <2>5. Adding' = Adding /\ ~InSection
      BY <2>1 DEF Adding, InSection
    <2> QED
      BY <2>1, <2>2, <2>4, <2>5, WholeWalk
  <1>2. CASE AddWalk
    <2> DEFINE pos == next[ppos]
    <2>1. /\ pc = "add walk" /\ locker /\ AtPlace
      BY <1>2 DEF AddWalk, Whole, Sections, InSection, Labels
    <2>2. PICK n \in 0..Len(Chain) :
              ppos = Along(Chain, n) /\ \A i \in 1..n : ~NotAfter(node[new], node[Chain[i]])
      BY <2>1 DEF AtPlace
    <2>3. /\ ppos \in live \cup {Root} /\ pos \in live \cup {NULL}
          /\ pos = NULL <=> n = Len(Chain)
          /\ pos # NULL => n + 1 \in 1..Len(Chain) /\ n + 1 \in 0..Len(Chain) /\ pos = Chain[n + 1]
          /\ pos = Along(Chain, n + 1)
      BY <1>u, <2>2, PlaceOn DEF ListTypeOK
    <2>4. /\ UNCHANGED <<next, node, live, locker, hpc, timeout_list, called_nb, undefined, history,
                         new, cb>>
          /\ \/ /\ pos = NULL \/ (pos \in live /\ NotAfter(node[new], node[pos]))
                /\ pc' = "add next" /\ ppos' = ppos
             \/ /\ pos \in live /\ ~NotAfter(node[new], node[pos])
                /\ pc' = pc /\ ppos' = pos
      BY <1>2, <2>3 DEF AddWalk
    <2>5. Sound' /\ Chain' = Chain
      BY <2>4, ChainSame DEF Whole
    <2>e. NULL \notin live
      BY DEF ListTypeOK, TimerListAssumption
    <2>6. AtPlace'
      <3>1. CASE pc' = "add next"
        <4>1. n < Len(Chain) => NotAfter(node[new], node[Chain[n + 1]])
          <5>1. pos = NULL \/ NotAfter(node[new], node[pos])
            BY <2>1, <2>4, <3>1
          <5>2. n < Len(Chain) => n # Len(Chain)
            BY <1>u
          <5> HIDE DEF pos
          <5> QED
            BY <2>3, <5>1, <5>2
        <4> QED
          BY <2>2, <2>4, <2>5, <3>1, <2>1, <4>1 DEF AtPlace
      <3>2. CASE pc' = "add walk"
        <4>1. pos \in live /\ ~NotAfter(node[new], node[pos]) /\ ppos' = pos
          BY <2>1, <2>4, <3>2
        <4>2. \A i \in 1..n + 1 : i \in 1..n \/ i = n + 1
          BY <1>u
        <4>3. n + 1 \in 0..Len(Chain) /\ \A i \in 1..n + 1 : ~NotAfter(node[new], node[Chain[i]])
          BY <2>2, <2>3, <2>e, <4>1, <4>2
        <4> QED
          BY <2>3, <2>4, <2>5, <3>2, <4>1, <4>3 DEF AtPlace
      <3> QED
        BY <2>1, <2>4, <3>1, <3>2
    <2>7. pc' \in {"add walk", "add next"}
      BY <2>1, <2>4
    <2>8. Sections'
      BY <1>a, <1>s, <2>1, <2>4, <2>6, <2>7 DEF Sections, InSection, Adding
    <2>9. Adding' = Adding /\ InSection'
      BY <2>1, <2>4, <2>7 DEF Adding, InSection, Labels
    <2> QED
      BY <2>4, <2>5, <2>8, <2>9, WholeWalk
  <1> QED
    BY <1>1, <1>2

LEMMA WholeAddNext ==
    ASSUME TimerListAssumption, ListTypeOK, InHandler, Whole, AddNext
    PROVE  Whole'
  <1> USE DEF main, handler, history, Runs
  <1>a. hpc = "idle" /\ pc = "add next"
    BY DEF AddNext
  <1>t. /\ next \in [Timer \cup {Root} -> Timer \cup {NULL}] /\ live \subseteq Timer
        /\ Root \notin Timer
    BY DEF ListTypeOK, TimerListAssumption
  <1>u. /\ live = ToSet(Chain) \cup Adding /\ ToSet(Chain) \cap Adding = {}
        /\ Chain \in Seq(live) /\ Chain \in Seq(Timer)
        /\ Leads(next, Chain) /\ Len(Chain) \in Nat
        /\ \A i \in 1..Len(Chain) : Chain[i] \in ToSet(Chain) /\ Chain[i] \in live
    BY <1>a, Uninterrupted
  <1>s. new \in Timer /\ asked[new] = "no" /\ cb = NULL /\ locker /\ AtPlace
    BY <1>a DEF Whole, Sections, Adding, InSection, Labels
  <1>1. PICK n \in 0..Len(Chain) :
            /\ ppos = Along(Chain, n) /\ \A i \in 1..n : ~NotAfter(node[new], node[Chain[i]])
            /\ n < Len(Chain) => NotAfter(node[new], node[Chain[n + 1]])
    BY <1>a, <1>s DEF AtPlace
  <1>2. \A i \in 0..Len(Chain) : Along(Chain, i) \in Timer \cup {Root} /\ Along(Chain, i) # new
    <2> SUFFICES ASSUME NEW i \in 0..Len(Chain)
                 PROVE  Along(Chain, i) \in Timer \cup {Root} /\ Along(Chain, i) # new
      OBVIOUS
    <2>1. new \in Adding
      BY <1>a DEF Adding
    <2>2. CASE i = 0
      BY <2>2, <1>s, <1>t, <1>u, AlongPlaces
    <2>3. CASE i # 0
      <3>1. i \in 1..Len(Chain)
        BY <2>3, <1>u
      <3> QED
        BY <3>1, <2>1, <1>u, AlongPlaces
    <2> QED
      BY <2>2, <2>3
  <1>3. ppos \in live \cup {Root} /\ ppos # new
    BY <1>1, <1>2, <1>u, <1>t, PlaceOn
  <1>4. /\ next' = [next EXCEPT ![new] = next[ppos]] /\ pc' = "add link"
        /\ UNCHANGED <<node, live, locker, hpc, timeout_list, called_nb, undefined, history,
                       new, ppos, cb>>
    BY <1>3 DEF AddNext
  <1>5. Sound' /\ Chain' = Chain
    <2>1. \A i \in 0..Len(Chain) : next'[Along(Chain, i)] = next[Along(Chain, i)]
      BY <1>2, <1>4, <1>t
    <2> QED
      BY <2>1, <1>t, <1>u, <1>4, ChainLeft DEF Whole
  <1>6. next'[new] = next'[ppos]
    BY <1>s, <1>t, <1>3, <1>4
  <1>7. AtPlace'
    BY <1>1, <1>4, <1>5, <1>6 DEF AtPlace
  <1>8. Sections'
    BY <1>s, <1>a, <1>4, <1>7 DEF Sections, InSection, Adding
  <1>9. Adding' = Adding /\ InSection'
    BY <1>a, <1>4 DEF Adding, InSection, Labels
  <1> QED
    BY <1>4, <1>5, <1>8, <1>9, WholeWalk

LEMMA WholeAddLink ==
    ASSUME TimerListAssumption, ListTypeOK, InHandler, Whole, AddLink
    PROVE  Whole'
  <1> USE DEF main, handler, history, Runs
  <1>a. hpc = "idle" /\ pc = "add link"
    BY DEF AddLink
  <1>t. /\ next \in [Timer \cup {Root} -> Timer \cup {NULL}] /\ live \subseteq Timer
        /\ Root \notin Timer /\ node \in [Timer -> Fields]
    BY DEF ListTypeOK, TimerListAssumption
  <1>u. /\ live = ToSet(Chain) \cup Adding /\ ToSet(Chain) \cap Adding = {}
        /\ Chain \in Seq(live) /\ Chain \in Seq(Timer) /\ Waiting = {} /\ timeout_list = <<>>
        /\ Leads(next, Chain) /\ Len(Chain) \in Nat
        /\ \A i \in 1..Len(Chain) : Chain[i] \in ToSet(Chain) /\ Chain[i] \in live
        /\ \A t \in Timer : calls[t] = 0
        /\ \A t \in Timer : asked[t] # "no" => t \in ToSet(Chain) /\ node[t].discard
    BY <1>a, Uninterrupted
  <1>s. new \in Timer /\ asked[new] = "no" /\ cb = NULL /\ locker /\ AtPlace
    BY <1>a DEF Whole, Sections, Adding, InSection, Labels
  <1> DEFINE stop == NoEarlier(new, node)
  <1>1. PICK n \in 0..Len(Chain) :
            /\ ppos = Along(Chain, n) /\ \A i \in 1..n : ~NotAfter(node[new], node[Chain[i]])
            /\ n < Len(Chain) => NotAfter(node[new], node[Chain[n + 1]])
    BY <1>a, <1>s DEF AtPlace
  <1>2. next[new] = next[ppos]
    BY <1>a, <1>s DEF AtPlace
  <1>3. ppos \in live \cup {Root}
    BY <1>1, <1>u, <1>t, PlaceOn
  <1>4. /\ next' = [next EXCEPT ![ppos] = new] /\ pc' = "unlock"
        /\ UNCHANGED <<node, live, locker, hpc, timeout_list, called_nb, undefined, asked, calls,
                       new, ppos, cb, exec>>
    BY <1>3 DEF AddLink
  <1>5. Passed(Chain, stop) = n
    <2>1. \A i \in 1..n : i \in 1..Len(Chain)
      BY <1>u
    <2>2. \A i \in 1..n : Chain[i] \notin stop
      BY <2>1, <1>1 DEF NoEarlier
    <2>3. n < Len(Chain) => Chain[n + 1] \in stop
      <3>1. n < Len(Chain) => n + 1 \in 1..Len(Chain)
        BY <1>u
      <3> QED
        BY <3>1, <1>1, <1>t, <1>u DEF NoEarlier
    <2> HIDE DEF stop
    <2> QED
      BY <2>2, <2>3, <1>u, PassedIs
  <1>6. next' = Added(new, node)
    <2>1. Added(new, node) = [next EXCEPT ![new] = next[ppos], ![ppos] = new]
      BY <1>1, <1>5 DEF Added
    <2>2. [next EXCEPT ![ppos] = new] = [next EXCEPT ![new] = next[ppos], ![ppos] = new]
      BY <1>2, <1>t, <1>s, <1>3
    <2> QED
      BY <1>4, <2>1, <2>2
  <1>7. new \notin ToSet(Chain) /\ new \in live
    BY <1>a, <1>u DEF Adding
  <1>8. /\ Sound' /\ Chain' = AddBefore(Chain, stop, new)
        /\ ToSet(Chain') = ToSet(Chain) \cup {new}
    BY ZenonT(60), <1>t, <1>s, <1>4, <1>6, <1>7, AddedLinks DEF Whole
  <1>9. Adding = {new} /\ Adding' = {} /\ Waiting' = {}
    BY <1>a, <1>4, <1>u DEF Adding, Waiting
  <1>10. AllThere'
    BY <1>4, <1>8, <1>9, <1>u DEF AllThere
  <1>11. Sorted'
    <2>1. InOrder(AddBefore(Chain, stop, new), node)
      BY <1>t, <1>s, <1>u, InOrderAdded DEF Whole, Sorted
    <2> QED
      BY <2>1, <1>4, <1>8 DEF Sorted
  <1>12. Sections'
    BY <1>a, <1>s, <1>4, <1>9 DEF Sections, InSection
  <1>13. Promised'
    <2>1. InSection' /\ InSection
      BY <1>a, <1>4 DEF InSection, Labels
    <2>2. \A t \in Timer : asked[t] # "no" =>
                node[t].exec_on_discard = (asked[t] = "exec") \/ cb = node[t].cb
      BY DEF Whole, Promised
    <2> QED
      BY <1>4, <1>8, <1>9, <1>u, <2>1, <2>2 DEF Promised
  <1> QED
    BY <1>4, <1>8, <1>10, <1>11, <1>12, <1>13 DEF Whole

LEMMA WholeDiscard ==
    ASSUME TimerListAssumption, ListTypeOK, InHandler, Whole,
           NEW c \in Target, NEW e \in BOOLEAN, Discard(c, e)
    PROVE  Whole'
  <1> USE DEF main, handler, history, Runs
  <1>1. /\ pc = "idle" /\ pc' = "discard lock" /\ cb' = c /\ c # NULL /\ hpc = "idle"
        /\ UNCHANGED <<next, node, live, hpc, timeout_list, called_nb, undefined, history>>
    BY DEF Discard, TimerListAssumption
  <1>2. Sound' /\ Chain' = Chain
    BY <1>1, ChainSame DEF Whole
  <1>3. Adding = {} /\ Adding' = {} /\ ~InSection /\ ~InSection'
    BY <1>1 DEF Adding, InSection
  <1>4. Sections'
    BY <1>1, <1>3 DEF Sections
  <1> QED
    BY <1>1, <1>2, <1>3, <1>4, WholeWalk

LEMMA WholeDiscardLock ==
    ASSUME TimerListAssumption, ListTypeOK, InHandler, Whole, DiscardLock
    PROVE  Whole'
  <1> USE DEF main, handler, history, Runs
  <1>1. /\ pc = "discard lock" /\ pc' = "discard walk" /\ hpc = "idle" /\ ppos' = next[Root]
        /\ locker' /\ cb # NULL
        /\ UNCHANGED <<next, node, live, hpc, timeout_list, called_nb, undefined, history, cb, exec>>
    BY DEF DiscardLock, Whole, Sections
  <1>u. Chain \in Seq(live) /\ Chain \in Seq(Timer) /\ Leads(next, Chain) /\ Len(Chain) \in Nat
    BY <1>1, Uninterrupted
  <1>2. Sound' /\ Chain' = Chain
    BY <1>1, ChainSame DEF Whole
  <1>3. Adding = {} /\ Adding' = {} /\ ~InSection /\ InSection'
    BY <1>1 DEF Adding, InSection, Labels
  <1>4. Marking'
    <2>1. 1 \in 1..Len(Chain) + 1 /\ 0 \in 0..Len(Chain)
      BY <1>u
    <2>2. next[Along(Chain, 0)] = Along(Chain, 0 + 1) /\ Along(Chain, 0) = Root
      BY <2>1, <1>u, AlongPlaces DEF Leads
    <2>3. ppos' = Along(Chain', 1)
      <3>1. 0 + 1 = 1
        OBVIOUS
      <3>2. next[Root] = Along(Chain, 1)
        BY <2>2, <3>1
      <3> QED
        BY <3>2, <1>1, <1>2
    <2>4. \A i \in 1..1 - 1 : Marked(Chain[i])'
      OBVIOUS
    <2> QED
      BY <1>1, <1>2, <2>1, <2>3, <2>4 DEF Marking
  <1>5. Sections'
    BY <1>1, <1>3, <1>4 DEF Sections
  <1> QED
    BY <1>1, <1>2, <1>3, <1>5, WholeWalk

(* What marks a timer, and what does to the promises made. *)
LEMMA WholeMark ==
    ASSUME TimerListAssumption, ListTypeOK, InHandler, Whole, hpc = "idle", Sections',
           UNCHANGED <<next, live, hpc, timeout_list, called_nb, undefined, history, cb, exec>>,
           Adding = {}, Adding' = {}, InSection, InSection',
           \A t \in Timer : /\ node'[t].ts = node[t].ts /\ node'[t].delay = node[t].delay
                            /\ node'[t].cb = node[t].cb
                            /\ node[t].discard => node'[t].discard
                            /\ \/ node'[t].exec_on_discard = node[t].exec_on_discard
                               \/ node[t].cb = cb
    PROVE  Whole'
  <1>u. /\ Waiting = {} /\ live = ToSet(Chain) \cup Adding
        /\ Chain \in Seq(Timer)
        /\ \A t \in Timer : calls[t] = 0
        /\ \A t \in Timer : asked[t] # "no" => t \in ToSet(Chain) /\ node[t].discard
        /\ \A i \in 1..Len(Chain) : Chain[i] \in ToSet(Chain) /\ Chain[i] \in live
    BY Uninterrupted
  <1>1. Sound' /\ Chain' = Chain /\ Waiting' = {}
    BY <1>u, ChainSame DEF Whole, Waiting
  <1>2. AllThere'
    BY <1>1, <1>u DEF AllThere
  <1>3. Sorted'
    <2>1. \A i \in 1..Len(Chain) : Chain[i] \in Timer
      BY <1>u, QueuePlaces
    <2> QED
      BY <1>1, <2>1, InOrderSame DEF Whole, Sorted
  <1>4. Promised'
    <2>1. \A t \in Timer : asked[t] # "no" =>
                node[t].exec_on_discard = (asked[t] = "exec") \/ cb = node[t].cb
      BY DEF Whole, Promised
    <2> QED
      BY <1>1, <1>u, <2>1 DEF Promised, history
  <1> QED
    BY <1>1, <1>2, <1>3, <1>4 DEF Whole

LEMMA WholeDiscardWalk ==
    ASSUME TimerListAssumption, ListTypeOK, InHandler, Whole, DiscardWalk
    PROVE  Whole'
  <1> USE DEF main, handler, history, Runs
  <1>a. hpc = "idle" /\ pc = "discard walk"
    BY DEF DiscardWalk
  <1>t. /\ next \in [Timer \cup {Root} -> Timer \cup {NULL}] /\ live \subseteq Timer
        /\ NULL \notin Timer /\ node \in [Timer -> Fields]
    BY DEF ListTypeOK, TimerListAssumption
  <1>u. /\ Chain \in Seq(live) /\ Chain \in Seq(Timer) /\ Leads(next, Chain) /\ Len(Chain) \in Nat
        /\ IsInjective(Chain)
        /\ \A i \in 1..Len(Chain) : Chain[i] \in ToSet(Chain) /\ Chain[i] \in live
        /\ \A x : x \in ToSet(Chain) <=> \E i \in 1..Len(Chain) : Chain[i] = x
    BY <1>a, Uninterrupted
  <1>s. cb # NULL /\ locker /\ Marking /\ Adding = {} /\ InSection
    BY <1>a DEF Whole, Sections, Adding, InSection, Labels
  <1>1. PICK n \in 1..Len(Chain) + 1 : ppos = Along(Chain, n) /\ \A i \in 1..n - 1 : Marked(Chain[i])
    BY <1>s DEF Marking
  <1>2. /\ n = Len(Chain) + 1 => ppos = NULL
        /\ n # Len(Chain) + 1 => /\ n \in 1..Len(Chain) /\ n \in 0..Len(Chain)
                                 /\ ppos = Chain[n] /\ ppos \in live /\ ppos # NULL
    <2>1. n # Len(Chain) + 1 => n \in 1..Len(Chain) /\ n \in 0..Len(Chain)
      BY <1>u
    <2> QED
      BY <2>1, <1>1, <1>t, <1>u, AlongPlaces
  <1>3. CASE ppos = NULL
    <2>1. /\ pc' = "unlock"
          /\ UNCHANGED <<next, node, live, locker, hpc, timeout_list, called_nb, undefined, history,
                         ppos, cb, exec>>
      BY <1>3, <1>t DEF DiscardWalk
    <2>2. Sound' /\ Chain' = Chain
      BY <2>1, ChainSame DEF Whole
    <2>3. Adding' = {} /\ InSection'
      BY <2>1 DEF Adding, InSection, Labels
    <2>4. n = Len(Chain) + 1
      BY <1>2, <1>3
    <2>5. \A t \in ToSet(Chain) : Marked(t)
      <3>1. n - 1 = Len(Chain)
        BY <2>4, <1>u
      <3> QED
        BY <3>1, <1>1, <1>u
    <2>6. \A t \in ToSet(Chain') : Marked(t)'
      BY <2>1, <2>2, <2>5 DEF Marked
    <2>7. Sections'
      BY <1>a, <1>s, <2>1, <2>3, <2>6 DEF Sections
    <2> QED
      BY <1>s, <2>1, <2>2, <2>3, <2>7, WholeWalk
  <1>4. CASE ppos # NULL /\ node[ppos].cb = cb
    <2>p. /\ n \in 1..Len(Chain) /\ n \in 0..Len(Chain)
          /\ ppos = Chain[n] /\ ppos \in live /\ ppos # NULL /\ ppos \in Timer
      BY <1>2, <1>4, <1>t
    <2>1. /\ pc' = "discard exec" /\ node' = [node EXCEPT ![ppos].discard = TRUE]
          /\ UNCHANGED <<next, live, locker, hpc, timeout_list, called_nb, undefined, history,
                         ppos, cb, exec>>
      BY <1>4, <2>p DEF DiscardWalk, Undefined
    <2>2. \A t \in Timer : /\ node'[t].ts = node[t].ts /\ node'[t].delay = node[t].delay
                           /\ node'[t].cb = node[t].cb
                           /\ node[t].discard => node'[t].discard
                           /\ node'[t].exec_on_discard = node[t].exec_on_discard
                           /\ t = ppos => node'[t].discard
      BY ZenonT(60), <1>t, <2>p, <2>1 DEF Fields
    <2>3. Sound' /\ Chain' = Chain
      BY <2>1, ChainSame DEF Whole
    <2>4. Adding' = {} /\ InSection'
      BY <2>1 DEF Adding, InSection, Labels
    <2>5. Marking'
      <3>1. \A t \in Timer : Marked(t) => Marked(t)'
        BY <2>1, <2>2 DEF Marked
      <3>2. \A i \in 1..n - 1 : Chain[i] \in Timer
        <4>1. \A i \in 1..n - 1 : i \in 1..Len(Chain)
          BY <2>p, <1>u
        <4> QED
          BY <4>1, <1>u, <1>t
      <3>3. \A i \in 1..n - 1 : Marked(Chain[i])'
        <4>1. \A i \in 1..n - 1 : node'[Chain[i]].cb = cb =>
                  node'[Chain[i]].discard /\ node'[Chain[i]].exec_on_discard = exec
          BY <1>1, <2>2, <3>2 DEF Marked
        <4> QED
          BY <4>1, <2>1, <2>3 DEF Marked
      <3>4. n <= Len(Chain') /\ node'[ppos'].cb = cb' /\ node'[ppos'].discard
        <4>1. n <= Len(Chain')
          BY <1>u, <2>p, <2>3
        <4>2. ppos' = ppos /\ cb' = cb
          BY <2>1
        <4> QED
          BY <4>1, <4>2, <1>4, <2>p, <2>2
      <3>5. n \in 1..Len(Chain') + 1 /\ ppos' = Along(Chain', n)
        BY <1>1, <2>1, <2>3
      <3> QED
        BY <3>3, <3>4, <3>5 DEF Marking
    <2>6. Sections'
      BY <1>a, <1>s, <2>1, <2>4, <2>5 DEF Sections
    <2> QED
      BY <1>a, <1>s, <2>1, <2>2, <2>4, <2>6, WholeMark
  <1>5. CASE ppos # NULL /\ node[ppos].cb # cb
    <2>p. /\ n \in 1..Len(Chain) /\ n \in 0..Len(Chain)
          /\ ppos = Chain[n] /\ ppos \in live /\ ppos # NULL /\ ppos \in Timer
      BY <1>2, <1>5, <1>t
    <2>1. /\ pc' = pc /\ ppos' = next[ppos]
          /\ UNCHANGED <<next, node, live, locker, hpc, timeout_list, called_nb, undefined, history,
                         cb, exec, new>>
      BY <1>5, <2>p DEF DiscardWalk, Undefined
    <2>3. Sound' /\ Chain' = Chain
      BY <2>1, ChainSame DEF Whole
    <2>4. Adding' = {} /\ InSection'
      BY <1>a, <2>1 DEF Adding, InSection, Labels
    <2>5. Marking'
      <3>1. ppos' = Along(Chain', n + 1) /\ n + 1 \in 1..Len(Chain') + 1
        <4>1. next[ppos] = Along(Chain, n + 1)
          BY <1>1, <1>u, <2>p DEF Leads
        <4>2. n + 1 \in 1..Len(Chain) + 1
          BY <1>u, <2>p
        <4> QED
          BY <2>1, <2>3, <4>1, <4>2
      <3>2. \A i \in 1..(n + 1) - 1 : Marked(Chain[i])
        <4>1. \A i \in 1..(n + 1) - 1 : i \in 1..n - 1 \/ i = n
          BY <2>p, <1>u
        <4>2. Marked(Chain[n])
          BY <1>5, <2>p DEF Marked
        <4> QED
          BY <4>1, <4>2, <1>1
      <3>3. \A i \in 1..(n + 1) - 1 : Marked(Chain[i])'
        BY <3>2, <2>1, <2>3 DEF Marked
      <3> QED
        BY <1>a, <2>1, <3>1, <3>3 DEF Marking
    <2>6. Sections'
      BY <1>a, <1>s, <2>1, <2>4, <2>5 DEF Sections
    <2> QED
      BY <1>s, <2>1, <2>3, <2>4, <2>6, WholeWalk
  <1> QED
    BY <1>3, <1>4, <1>5

LEMMA WholeDiscardExec ==
    ASSUME TimerListAssumption, ListTypeOK, InHandler, Whole, DiscardExec
    PROVE  Whole'
  <1> USE DEF main, handler, history, Runs
  <1>a. hpc = "idle" /\ pc = "discard exec"
    BY DEF DiscardExec
  <1>t. /\ next \in [Timer \cup {Root} -> Timer \cup {NULL}] /\ live \subseteq Timer
        /\ NULL \notin Timer /\ node \in [Timer -> Fields]
    BY DEF ListTypeOK, TimerListAssumption
  <1>u. /\ Chain \in Seq(live) /\ Chain \in Seq(Timer) /\ Leads(next, Chain) /\ Len(Chain) \in Nat
        /\ IsInjective(Chain)
        /\ \A i \in 1..Len(Chain) : Chain[i] \in ToSet(Chain) /\ Chain[i] \in live
    BY <1>a, Uninterrupted
  <1>s. cb # NULL /\ locker /\ Marking /\ Adding = {} /\ InSection
    BY <1>a DEF Whole, Sections, Adding, InSection, Labels
  <1>1. PICK n \in 1..Len(Chain) + 1 :
            /\ ppos = Along(Chain, n) /\ \A i \in 1..n - 1 : Marked(Chain[i])
            /\ n <= Len(Chain) /\ node[ppos].cb = cb /\ node[ppos].discard
    BY <1>a, <1>s DEF Marking
  <1>p. /\ n \in 1..Len(Chain) /\ n \in 0..Len(Chain) /\ n + 1 \in 1..Len(Chain) + 1
        /\ ppos = Chain[n] /\ ppos \in live /\ ppos \in Timer
    <2>1. n \in 1..Len(Chain) /\ n \in 0..Len(Chain) /\ n + 1 \in 1..Len(Chain) + 1
      BY <1>1, <1>u
    <2> QED
      BY <2>1, <1>1, <1>t, <1>u, AlongPlaces
  <1>2. /\ pc' = "discard walk" /\ node' = [node EXCEPT ![ppos].exec_on_discard = exec]
        /\ ppos' = next[ppos]
        /\ UNCHANGED <<next, live, locker, hpc, timeout_list, called_nb, undefined, history, cb, exec>>
    BY <1>p DEF DiscardExec
  <1>3. \A t \in Timer : /\ node'[t].ts = node[t].ts /\ node'[t].delay = node[t].delay
                         /\ node'[t].cb = node[t].cb
                         /\ node'[t].discard = node[t].discard
                         /\ t # ppos => node'[t].exec_on_discard = node[t].exec_on_discard
                         /\ t = ppos => node'[t].exec_on_discard = exec
    BY ZenonT(60), <1>t, <1>p, <1>2 DEF Fields
  <1>4. Sound' /\ Chain' = Chain
    BY <1>2, ChainSame DEF Whole
  <1>5. Adding' = {} /\ InSection'
    BY <1>2 DEF Adding, InSection, Labels
  <1>6. Marking'
    <2>1. ppos' = Along(Chain', n + 1) /\ n + 1 \in 1..Len(Chain') + 1
      <3>1. next[ppos] = Along(Chain, n + 1)
        BY <1>1, <1>u, <1>p DEF Leads
      <3> QED
        BY <3>1, <1>2, <1>4, <1>p
    <2>2. ASSUME NEW i \in 1..(n + 1) - 1
          PROVE  node'[Chain[i]].cb = cb =>
                    node'[Chain[i]].discard /\ node'[Chain[i]].exec_on_discard = exec
      <3>1. (i \in 1..n - 1 \/ i = n) /\ i \in 1..Len(Chain)
        BY <1>p, <1>u
      <3>2. Chain[i] \in Timer
        BY <3>1, <1>u, <1>t
      <3> QED
        BY <3>1, <3>2, <1>1, <1>3, <1>p DEF Marked
    <2>3. \A i \in 1..(n + 1) - 1 : Marked(Chain[i])'
      BY <2>2, <1>2, <1>4 DEF Marked
    <2> QED
      BY <1>2, <2>1, <2>3 DEF Marking
  <1>7. Sections'
    BY <1>a, <1>s, <1>2, <1>5, <1>6 DEF Sections
  <1>8. \A t \in Timer : /\ node[t].discard => node'[t].discard
                         /\ \/ node'[t].exec_on_discard = node[t].exec_on_discard
                            \/ node[t].cb = cb
    BY <1>1, <1>3
  <1> QED
    BY <1>a, <1>s, <1>2, <1>3, <1>5, <1>7, <1>8, WholeMark

LEMMA WholeUnlock ==
    ASSUME TimerListAssumption, ListTypeOK, InHandler, Whole, Unlock
    PROVE  Whole'
  <1> USE DEF main, handler, history, Runs
  <1>a. hpc = "idle" /\ pc = "unlock"
    BY DEF Unlock
  <1>t. live \subseteq Timer /\ exec \in BOOLEAN
    BY DEF ListTypeOK
  <1>u. /\ Waiting = {} /\ live = ToSet(Chain) \cup Adding
        /\ \A t \in Timer : calls[t] = 0
        /\ \A t \in Timer : asked[t] # "no" => t \in ToSet(Chain) /\ node[t].discard
    BY <1>a, Uninterrupted
  <1>1. /\ pc' = "idle" /\ cb' = NULL
        /\ UNCHANGED <<next, node, live, hpc, timeout_list, called_nb, undefined>>
        /\ IF cb # NULL THEN Ask(cb, exec) ELSE UNCHANGED <<asked, calls>>
    BY DEF Unlock
  <1>2. Sound' /\ Chain' = Chain /\ Waiting' = {}
    BY <1>1, <1>u, ChainSame DEF Whole, Waiting
  <1>3. Adding = {} /\ Adding' = {} /\ ~InSection'
    BY <1>a, <1>1 DEF Adding, InSection
  <1>4. AllThere' /\ Sorted'
    BY <1>1, <1>2, <1>3, <1>u DEF Whole, AllThere, Sorted
  <1>5. Sections'
    BY <1>1, <1>3 DEF Sections
  <1>6. \A t \in Timer : asked[t] # "no" =>
            node[t].exec_on_discard = (asked[t] = "exec") \/ cb = node[t].cb
    BY DEF Whole, Promised
  <1>7. Promised'
    <2>1. CASE cb = NULL
      <3>1. \A t \in ToSet(Chain) : node[t].cb # NULL
        BY <1>u DEF InHandler
      <3> QED
        BY <1>1, <1>2, <1>u, <1>6, <2>1, <3>1 DEF Promised
    <2>2. CASE cb # NULL
      <3> DEFINE of == {t \in ToSet(Chain) : node[t].cb = cb}
      <3>1. /\ asked' = [t \in Timer |-> IF t \in of THEN AskedOf(exec) ELSE asked[t]]
            /\ calls' = [t \in Timer |-> IF t \in of THEN 0 ELSE calls[t]]
        BY <1>1, <2>2 DEF Ask
      <3>2. \A t \in of : node[t].discard /\ node[t].exec_on_discard = exec /\ t \in ToSet(Chain)
        BY <1>a, <2>2 DEF Whole, Sections, Marked
      <3>3. exec = (AskedOf(exec) = "exec")
        BY <1>t DEF AskedOf
      <3>4. \A t \in Timer : t \in ToSet(Chain) /\ cb = node[t].cb => t \in of
        OBVIOUS
      <3> HIDE DEF of
      <3>5. \A t \in Timer : calls'[t] = 0
        BY <3>1, <1>u
      <3>6. ASSUME NEW t \in Timer, asked'[t] # "no"
            PROVE  /\ t \in ToSet(Chain) /\ node[t].discard
                   /\ node[t].exec_on_discard = (asked'[t] = "exec")
        <4>1. CASE t \in of
          <5>1. asked'[t] = AskedOf(exec)
            BY <3>1, <4>1
          <5> QED
            BY <5>1, <3>2, <3>3, <4>1
        <4>2. CASE t \notin of
          <5>1. asked'[t] = asked[t]
            BY <3>1, <4>2
          <5> QED
            BY <5>1, <3>4, <3>6, <4>2, <1>6, <1>u
        <4> QED
          BY <4>1, <4>2
      <3> QED
        BY <1>1, <1>2, <3>5, <3>6 DEF Promised
    <2> QED
      BY <2>1, <2>2
  <1> QED
    BY <1>1, <1>2, <1>4, <1>5, <1>7 DEF Whole

(* While the handler runs, and when it starts without intruding, the *)
(* interrupted thread is outside the lock.                            *)
LEMMA OutsideLock ==
    ASSUME Whole, ~InSection, UNCHANGED main, Adding # {} => asked'[new] = "no"
    PROVE  Sections' /\ Adding' = Adding /\ ~InSection'
  <1>1. Adding' = Adding /\ ~InSection'
    BY DEF Adding, InSection, main
  <1>2. Sections'
    BY <1>1 DEF Whole, Sections, InSection, Adding, Labels, main
  <1> QED
    BY <1>1, <1>2

LEMMA WholeTick ==
    ASSUME TimerListAssumption, ListTypeOK, InHandler, Whole, Tick, ~intruded'
    PROVE  Whole'
  <1>1. ~InSection
    BY DEF Tick, Whole, Sections
  <1>2. /\ UNCHANGED <<next, node, live, main, timeout_list, history, undefined>>
        /\ hpc = "idle" /\ hpc' = "take"
    BY DEF Tick, Whole
  <1>3. Sound' /\ Chain' = Chain /\ Waiting' = Waiting
    BY <1>2, ChainSame DEF Whole, Waiting
  <1>4. Sections' /\ Adding' = Adding /\ ~InSection'
    BY <1>1, <1>2, OutsideLock DEF Whole, Sections, history
  <1>5. AllThere' /\ Sorted'
    BY <1>2, <1>3, <1>4 DEF Whole, AllThere, Sorted
  <1>6. Promised'
    <2>1. Waiting = {}
      BY <1>2, Uninterrupted
    <2> QED
      BY <1>1, <1>2, <1>3, <1>4, <2>1 DEF Whole, Promised, history
  <1> QED
    BY <1>2, <1>3, <1>4, <1>5, <1>6 DEF Whole

LEMMA WholeTickTake ==
    ASSUME TimerListAssumption, ListTypeOK, InHandler, Whole, TickTake
    PROVE  Whole'
  <1> DEFINE t == next[hpos]
  <1>1. /\ hpc = "take" /\ UNCHANGED <<now, node, live, main, cur, undefined, history>>
    BY DEF TickTake
  <1>2. ~InSection
    BY <1>1 DEF Whole, Sections
  <1>3. Sections' /\ Adding' = Adding /\ ~InSection'
    BY <1>1, <1>2, OutsideLock DEF Whole, Sections, history
  <1>4. /\ \A s \in Timer : calls[s] = 0
        /\ \A s \in Timer : asked[s] # "no" =>
              /\ s \in ToSet(Chain) \cup Waiting
              /\ node[s].discard /\ node[s].exec_on_discard = (asked[s] = "exec")
    BY <1>1, <1>2 DEF Whole, Promised
  <1>5. /\ Sound /\ Waiting \subseteq live \ ToSet(Chain) /\ IsInjective(timeout_list)
        /\ hpos \in Timer \cup {Root}
    BY <1>1 DEF InHandler, ListTypeOK
  <1>6. /\ Chain \in Seq(Timer) /\ IsInjective(Chain) /\ timeout_list \in Seq(Timer)
        /\ \A i \in 1..Len(Chain) : Chain[i] \in ToSet(Chain)
    BY <1>5, ChainThere, InSet DEF ListTypeOK
  <1>7. CASE Take(t) /\ t # NULL
    <2>1. PICK n \in 0..Len(Chain) : hpos = Along(Chain, n)
      BY <1>1 DEF InHandler
    <2>2. /\ n + 1 \in 1..Len(Chain) /\ t = Chain[n + 1] /\ t \in live
          /\ Sound' /\ Chain' = RemoveAt(Chain, n + 1) /\ ToSet(Chain') = ToSet(Chain) \ {t}
      BY <1>1, <1>5, <1>7, <2>1, TakenLinks
    <2>3. t \in ToSet(Chain) /\ t \in Timer
      BY <1>6, <2>2, QueuePlaces
    <2>4. Waiting' = Waiting \cup {t}
      <3> HIDE DEF t
      <3>1. timeout_list' = AddBefore(timeout_list, NoEarlier(t, node), t)
        BY <1>7 DEF Take, t
      <3> QED
        BY <3>1, <1>6, <2>3, AddedSet DEF Waiting
    <2> HIDE DEF t
    <2>5. ToSet(Chain') \cup Waiting' = ToSet(Chain) \cup Waiting
      BY <2>2, <2>3, <2>4
    <2>6. AllThere'
      BY <1>1, <1>3, <1>5, <2>2, <2>3, <2>4, <2>5 DEF Whole, AllThere
    <2>7. Sorted'
      <3>1. InOrder(Chain', node)
        BY <1>6, <2>2, InOrderRemoved DEF Whole, Sorted
      <3> QED
        BY <3>1, <1>1 DEF Sorted
    <2>8. Promised'
      BY <1>1, <1>4, <2>5 DEF Promised, history
    <2> QED
      BY <1>1, <1>3, <2>2, <2>6, <2>7, <2>8 DEF Whole
  <1>8. CASE UNCHANGED <<next, timeout_list>>
    <2>1. Sound' /\ Chain' = Chain /\ Waiting' = Waiting
      BY <1>1, <1>5, <1>8, ChainSame DEF Waiting
    <2>2. AllThere' /\ Sorted'
      BY <1>1, <1>3, <2>1 DEF Whole, AllThere, Sorted
    <2>3. Promised'
      BY <1>1, <1>4, <2>1 DEF Promised, history
    <2> QED
      BY <1>1, <1>3, <2>1, <2>2, <2>3 DEF Whole
  <1> QED
    BY <1>7, <1>8 DEF TickTake, Taken

LEMMA WholeCallNext ==
    ASSUME TimerListAssumption, ListTypeOK, ListTypeOK', InHandler, Whole, CallNext
    PROVE  Whole'
  <1> DEFINE t == timeout_list[called_nb + 1]
  <1>1. /\ hpc = "call" /\ hpc' \in {"call", "readd"} /\ called_nb' = called_nb + 1
        /\ UNCHANGED <<now, main, cur, timeout_list, undefined, intruded>>
    BY DEF CallNext
  <1>2. ~InSection
    BY <1>1 DEF Whole, Sections
  <1>t. /\ live \subseteq Timer /\ node \in [Timer -> Fields] /\ node' \in [Timer -> Fields]
        /\ timeout_list \in Seq(Timer) /\ called_nb \in Nat /\ now \in Epoch..MaxTime
        /\ asked \in [Timer -> {"no", "silent", "exec"}] /\ calls \in [Timer -> 0..2]
    BY DEF ListTypeOK
  <1>i. /\ Sound /\ called_nb < Len(timeout_list)
        /\ IsInjective(timeout_list) /\ Waiting \subseteq live \ ToSet(Chain)
    BY <1>1 DEF InHandler
  <1>c. /\ Chain \in Seq(live) /\ Chain \in Seq(Timer)
        /\ \A i \in 1..Len(Chain) : Chain[i] \in ToSet(Chain) /\ Chain[i] \in live
        /\ ToSet(Chain) \subseteq live
    BY <1>i, <1>t, ChainThere, InSet, QueuePlaces
  <1>a. /\ live = ToSet(Chain) \cup Waiting \cup Adding /\ Waiting' = Waiting
        /\ ToSet(Chain) \cap (Waiting \cup Adding) = {} /\ Waiting \cap Adding = {}
    BY <1>1 DEF Whole, AllThere, Waiting
  <1>p. \A s \in Timer :
            /\ asked[s] # "no" => /\ s \in ToSet(Chain) \cup Waiting
                                  /\ node[s].discard
                                  /\ node[s].exec_on_discard = (asked[s] = "exec")
            /\ calls[s] # 0 => /\ s \in Waiting /\ asked[s] = "exec" /\ calls[s] = 1
                               /\ \E i \in 1..called_nb : timeout_list[i] = s
    BY <1>1, <1>2 DEF Whole, Promised
  <1>w. /\ called_nb + 1 \in 1..Len(timeout_list) /\ Len(timeout_list) \in Nat
        /\ t \in Waiting /\ t \in Timer
        /\ \A i \in 1..called_nb : timeout_list[i] # t
    <2>1. called_nb + 1 \in 1..Len(timeout_list) /\ Len(timeout_list) \in Nat
      BY <1>t, <1>i, QueuePlaces
    <2>2. t \in Waiting /\ t \in Timer
      BY <2>1, <1>t, InSet, QueuePlaces DEF Waiting
    <2>3. DOMAIN timeout_list = 1..Len(timeout_list)
      BY <1>t, LenProperties
    <2>4. \A i \in 1..called_nb : i \in 1..Len(timeout_list) /\ i # called_nb + 1
      BY <2>1, <1>t
    <2> QED
      BY <2>1, <2>2, <2>3, <2>4, <1>i DEF IsInjective
  (* What the timer's function leaves. *)
  <1> DEFINE Left ==
                 /\ Sound' /\ Sorted'
                 /\ live' = ToSet(Chain') \cup Waiting \cup Adding
                 /\ ToSet(Chain') \cap (Waiting \cup Adding) = {}
                 /\ \A s \in Waiting \cup Adding : asked'[s] = asked[s]
                 /\ \A s \in Timer : asked'[s] # "no" =>
                        /\ s \in ToSet(Chain') \cup Waiting
                        /\ node'[s].discard
                        /\ node'[s].exec_on_discard = (asked'[s] = "exec")
  <1>3. Left
    <2>1. CASE CallbackNothing
      <3>1. UNCHANGED <<next, node, live, asked>>
        BY <2>1 DEF CallbackNothing
      <3>2. Sound' /\ Chain' = Chain
        BY <1>i, <3>1, ChainSame
      <3>3. Sorted'
        BY <3>1, <3>2 DEF Whole, Sorted
      <3> QED
        BY <1>a, <1>p, <3>1, <3>2, <3>3
    <2>2. ASSUME NEW u \in Timer, CallbackCreate(u) PROVE Left
      <3>1. PICK m \in Fresh : node' = [node EXCEPT ![u] = m]
        BY <2>2 DEF CallbackCreate
      <3>2. u \notin live /\ live' = live \cup {u} /\ next' = Added(u, node') /\ UNCHANGED asked
        BY <2>2 DEF CallbackCreate
      <3>3. u \notin ToSet(Chain) /\ live' \subseteq Timer
        BY <1>c, <1>t, <3>2
      <3>4. /\ Sound' /\ Chain' = AddBefore(Chain, NoEarlier(u, node'), u)
            /\ ToSet(Chain') = ToSet(Chain) \cup {u}
        BY <1>i, <3>2, <3>3, AddedLinks
      <3>5. \A v \in Timer : v # u => node'[v] = node[v]
        BY <1>t, <3>1
      <3>6. Sorted'
        <4>1. \A i \in 1..Len(Chain) : node'[Chain[i]] = node[Chain[i]]
          BY <1>c, <1>t, <3>2, <3>5
        <4>2. InOrder(Chain, node')
          BY <4>1, InOrderSame DEF Whole, Sorted
        <4>3. InOrder(AddBefore(Chain, NoEarlier(u, node'), u), node')
          BY <4>2, <1>c, <1>t, InOrderAdded
        <4> QED
          BY <4>3, <3>4 DEF Sorted
      <3>7. asked[u] = "no"
        BY <1>a, <1>p, <3>2
      <3>8. live' = ToSet(Chain') \cup Waiting \cup Adding
        BY <1>a, <3>2, <3>4
      <3>9. ToSet(Chain') \cap (Waiting \cup Adding) = {}
        BY <1>a, <3>2, <3>4
      <3>10. \A s \in Timer : asked'[s] # "no" => s # u /\ node'[s] = node[s]
        BY <3>2, <3>5, <3>7
      <3> QED
        BY <1>p, <3>2, <3>4, <3>6, <3>8, <3>9, <3>10
    <2>3. ASSUME NEW c \in Target, NEW e \in BOOLEAN, CallbackDiscard(c, e) PROVE Left
      <3> DEFINE of == {s \in ToSet(Chain) : node[s].cb = c}
      <3>1. /\ node' = [s \in Timer |-> IF s \in of
                                        THEN [node[s] EXCEPT !.discard = TRUE, !.exec_on_discard = e]
                                        ELSE node[s]]
            /\ asked' = [s \in Timer |-> IF s \in of THEN AskedOf(e) ELSE asked[s]]
            /\ UNCHANGED <<next, live>>
        BY <2>3 DEF CallbackDiscard
      <3>2. of \subseteq ToSet(Chain)
        OBVIOUS
      <3> HIDE DEF of
      <3>3. Sound' /\ Chain' = Chain
        BY <1>i, <3>1, ChainSame
      <3>4. \A s \in Timer : /\ node'[s].ts = node[s].ts /\ node'[s].delay = node[s].delay
                             /\ s \in of => /\ node'[s].discard /\ node'[s].exec_on_discard = e
                                            /\ asked'[s] = AskedOf(e)
                             /\ s \notin of => node'[s] = node[s] /\ asked'[s] = asked[s]
        BY <1>t, <3>1 DEF Fields
      <3>5. Sorted'
        <4>1. \A i \in 1..Len(Chain) : Chain[i] \in Timer
          BY <1>c, <1>t
        <4> QED
          BY <4>1, <3>3, <3>4, InOrderSame DEF Whole, Sorted
      <3>6. e = (AskedOf(e) = "exec")
        BY DEF AskedOf
      <3>7. \A s \in Waiting \cup Adding : s \in Timer /\ s \notin of
        BY <1>a, <1>t, <3>2
      <3>8. ASSUME NEW s \in Timer, asked'[s] # "no"
            PROVE  /\ s \in ToSet(Chain') \cup Waiting
                   /\ node'[s].discard
                   /\ node'[s].exec_on_discard = (asked'[s] = "exec")
        <4>1. CASE s \in of
          BY <4>1, <3>2, <3>3, <3>4, <3>6
        <4>2. CASE s \notin of
          BY <4>2, <3>3, <3>4, <3>8, <1>p
        <4> QED
          BY <4>1, <4>2
      <3>9. \A s \in Waiting \cup Adding : asked'[s] = asked[s]
        BY <3>4, <3>7
      <3> QED
        BY <1>a, <3>1, <3>3, <3>5, <3>8, <3>9
    <2> QED
      BY <2>1, <2>2, <2>3 DEF CallNext
  <1>4. ASSUME NEW s \in Timer, calls'[s] # 0
        PROVE  /\ s \in Waiting /\ asked[s] = "exec" /\ calls'[s] = 1
               /\ \E i \in 1..called_nb + 1 : timeout_list[i] = s
    <2>1. \A i \in 1..called_nb : i \in 1..called_nb + 1
      BY <1>t
    <2>2. CASE calls'[s] = calls[s]
      BY <2>1, <2>2, <1>4, <1>p
    <2>3. CASE calls'[s] # calls[s]
      <3>1. /\ Calls(t) /\ s = t /\ asked[t] # "no" /\ calls'[t] = calls[t] + 1
        BY <1>t, <1>w, <2>3 DEF CallNext
      <3>2. asked[t] = "exec"
        BY <3>1, <1>p, <1>w DEF Calls
      <3>3. calls[t] = 0
        BY <1>p, <1>w
      <3>4. called_nb + 1 \in 1..called_nb + 1
        BY <1>t
      <3> QED
        BY <3>1, <3>2, <3>3, <3>4, <1>w
    <2> QED
      BY <2>2, <2>3
  <1> HIDE DEF t
  <1>5. Promised'
    <2>1. \A s \in Timer : calls'[s] # 0 => asked'[s] = "exec"
      BY <1>3, <1>4
    <2> QED
      BY <1>1, <1>3, <1>4, <1>a, <2>1 DEF Promised
  <1>6. Sections' /\ Adding' = Adding
    <2>1. Adding # {} => new \in Adding /\ asked[new] = "no"
      BY DEF Whole, Sections, Adding
    <2> QED
      BY <1>1, <1>2, <1>3, <2>1, OutsideLock
  <1>7. AllThere'
    BY <1>3, <1>6, <1>a DEF AllThere
  <1> QED
    BY <1>1, <1>3, <1>5, <1>6, <1>7 DEF Whole

LEMMA WholeReaddNext ==
    ASSUME TimerListAssumption, ListTypeOK, ListTypeOK', InHandler, Whole, ReaddNext
    PROVE  Whole'
  <1> DEFINE t == Head(timeout_list)
  <1>1. /\ hpc = "readd" /\ hpc' \in {"readd", "idle"} /\ timeout_list' = Tail(timeout_list)
        /\ UNCHANGED <<main, undefined>>
        /\ IF ~node[t].discard /\ node[t].repeat THEN Readd(t) ELSE Free(t)
    BY DEF ReaddNext
  <1>2. ~InSection
    BY <1>1 DEF Whole, Sections
  <1>t. /\ live \subseteq Timer /\ node \in [Timer -> Fields] /\ node' \in [Timer -> Fields]
        /\ timeout_list \in Seq(Timer)
        /\ asked \in [Timer -> {"no", "silent", "exec"}] /\ calls \in [Timer -> 0..2]
    BY DEF ListTypeOK
  <1>i. /\ Sound /\ timeout_list # <<>>
        /\ IsInjective(timeout_list) /\ Waiting \subseteq live \ ToSet(Chain)
    BY <1>1 DEF InHandler
  <1>c. /\ Chain \in Seq(live) /\ Chain \in Seq(Timer)
        /\ \A i \in 1..Len(Chain) : Chain[i] \in ToSet(Chain) /\ Chain[i] \in live
        /\ ToSet(Chain) \subseteq live
    BY <1>i, <1>t, ChainThere, InSet, QueuePlaces
  <1>a. /\ live = ToSet(Chain) \cup Waiting \cup Adding
        /\ ToSet(Chain) \cap (Waiting \cup Adding) = {} /\ Waiting \cap Adding = {}
    BY DEF Whole, AllThere
  <1>p. \A s \in Timer :
            /\ asked[s] # "no" => /\ s \in ToSet(Chain) \cup Waiting
                                  /\ node[s].discard
                                  /\ node[s].exec_on_discard = (asked[s] = "exec")
            /\ calls[s] # 0 => s \in Waiting /\ asked[s] = "exec" /\ calls[s] = 1
    BY <1>1, <1>2 DEF Whole, Promised
  <1>w. t \in Waiting /\ Waiting' = Waiting \ {t} /\ t \in Timer /\ t \in live /\ t \notin ToSet(Chain)
    <2>1. t \in Waiting /\ Waiting' = Waiting \ {t}
      BY <1>1, <1>i, <1>t, TailSet DEF Waiting
    <2> QED
      BY <2>1, <1>i, <1>t
  <1> HIDE DEF t
  <1>3. CASE Readd(t) /\ ~node[t].discard
    <2>1. UNCHANGED <<live, asked, calls>> /\ next' = Added(t, node')
      BY <1>3 DEF Readd, history
    <2>2. /\ Sound' /\ Chain' = AddBefore(Chain, NoEarlier(t, node'), t)
          /\ ToSet(Chain') = ToSet(Chain) \cup {t}
      BY <1>i, <1>t, <1>w, <2>1, AddedLinks
    <2>3. \A s \in Timer : s # t => node'[s] = node[s]
      BY <1>t, <1>3 DEF Readd
    <2>4. Sorted'
      <3>1. \A i \in 1..Len(Chain) : node'[Chain[i]] = node[Chain[i]]
        BY <1>c, <1>t, <1>w, <2>3
      <3>2. InOrder(Chain, node')
        BY <3>1, InOrderSame DEF Whole, Sorted
      <3>3. InOrder(AddBefore(Chain, NoEarlier(t, node'), t), node')
        BY <3>2, <1>c, <1>t, <1>w, InOrderAdded
      <3> QED
        BY <3>3, <2>2 DEF Sorted
    <2>5. asked[t] = "no" /\ calls[t] = 0
      BY <1>3, <1>p, <1>w
    <2>6. Sections' /\ Adding' = Adding /\ ~InSection'
      BY <1>1, <1>2, <2>1, OutsideLock DEF Whole, Sections
    <2>7. AllThere'
      BY <1>a, <1>w, <2>1, <2>2, <2>6 DEF AllThere
    <2>8. Promised'
      <3>1. \A s \in Timer : asked[s] # "no" => /\ s \in ToSet(Chain') \cup Waiting'
                                                /\ node'[s] = node[s]
        BY <1>p, <1>w, <2>2, <2>3, <2>5
      <3>2. \A s \in Timer : calls[s] # 0 => s \in Waiting'
        BY <1>p, <1>w, <2>5
      <3> QED
        BY <1>1, <1>p, <2>1, <3>1, <3>2 DEF Promised
    <2> QED
      BY <1>1, <2>2, <2>4, <2>6, <2>7, <2>8 DEF Whole
  <1>4. CASE Free(t)
    <2>1. Sound' /\ Chain' = Chain
      BY <1>i, <1>w, <1>4, FreedLinks
    <2>2. /\ live' = live \ {t} /\ asked'[t] = "no" /\ calls'[t] = 0
          /\ \A s \in Timer : s # t => /\ node'[s] = node[s] /\ asked'[s] = asked[s]
                                       /\ calls'[s] = calls[s]
      BY <1>t, <1>w, <1>4 DEF Free
    <2>3. Sorted'
      <3>1. \A i \in 1..Len(Chain) : node'[Chain[i]] = node[Chain[i]]
        BY <1>c, <1>t, <1>w, <2>2
      <3> QED
        BY <3>1, <2>1, InOrderSame DEF Whole, Sorted
    <2>4. Adding # {} => asked'[new] = "no"
      <3>1. Adding # {} => new \in Timer /\ asked[new] = "no"
        BY DEF Whole, Sections
      <3> QED
        BY <3>1, <2>2
    <2>5. Sections' /\ Adding' = Adding /\ ~InSection'
      BY <1>1, <1>2, <2>4, OutsideLock
    <2>6. AllThere'
      BY <1>a, <1>w, <2>1, <2>2, <2>5 DEF AllThere
    <2>7. Promised'
      <3>1. \A s \in Timer : asked'[s] # "no" =>
                s # t /\ s \in ToSet(Chain') \cup Waiting' /\ node'[s] = node[s] /\ asked'[s] = asked[s]
        BY <1>p, <1>w, <2>1, <2>2
      <3>2. \A s \in Timer : calls'[s] # 0 =>
                /\ s # t /\ s \in Waiting' /\ calls'[s] = calls[s] /\ asked'[s] = asked[s]
        BY <1>p, <1>w, <2>2
      <3> QED
        BY <1>1, <1>p, <3>1, <3>2 DEF Promised
    <2> QED
      BY <1>1, <2>1, <2>3, <2>5, <2>6, <2>7 DEF Whole
  <1> QED
    BY <1>1, <1>3, <1>4

LEMMA WholeStep ==
    ASSUME TimerListAssumption, ListTypeOK, ListTypeOK', InHandler, Whole, ListNext, ~intruded'
    PROVE  Whole'
  <1>1. CASE timer_list_start \/ Advance
    BY <1>1, WholeSame DEF timer_list_start, Advance
  <1> QED
    BY <1>1, WholeCreate, WholeAddWalk, WholeAddNext, WholeAddLink, WholeDiscard, WholeDiscardLock,
       WholeDiscardWalk, WholeDiscardExec, WholeUnlock, WholeTick, WholeTickTake, WholeCallNext,
       WholeReaddNext DEF ListNext, Call, MainStep, HandlerStep

-----------------------------------------------------------------------------
(* The timer list *)

LEMMA InitListInv ==
    ASSUME TimerListAssumption, ListInit
    PROVE  ListInv
  <1>1. /\ now = Epoch /\ started = FALSE /\ locker = FALSE /\ live = {}
        /\ next = [p \in Timer \cup {Root} |-> NULL] /\ node = [t \in Timer |-> Blank]
        /\ pc = "idle" /\ new = NULL /\ ppos = Root /\ cb = NULL /\ exec = FALSE
        /\ hpc = "idle" /\ cur = 0 /\ hpos = Root /\ timeout_list = <<>> /\ called_nb = 0
        /\ undefined = FALSE /\ intruded = FALSE
        /\ asked = [t \in Timer |-> "no"] /\ calls = [t \in Timer |-> 0]
    BY DEF ListInit
  <1>2. /\ Root \notin Timer /\ Epoch \in Nat /\ MaxTime \in Nat /\ MaxTime >= Epoch
    BY DEF TimerListAssumption
  <1>3. ListTypeOK
    <2>1. Blank \in Fields
      BY <1>2 DEF Blank, Fields
    <2>2. timeout_list \in Seq(Timer) /\ 0 \in 0..MaxTime /\ now \in Epoch..MaxTime
      BY <1>1, <1>2
    <2>3. cur \in 0..MaxTime /\ called_nb \in Nat /\ calls \in [Timer -> 0..2]
      BY <1>1, <1>2
    <2>4. next \in [Timer \cup {Root} -> Timer \cup {NULL}] /\ node \in [Timer -> Fields]
      BY <1>1, <2>1
    <2>5. asked \in [Timer -> {"no", "silent", "exec"}]
      BY <1>1
    <2> QED
      BY <1>1, <2>2, <2>3, <2>4, <2>5 DEF ListTypeOK, Labels
  <1>4. InHandler
    BY <1>1 DEF InHandler
  <1>5. Sound /\ Chain = <<>>
    <2>1. <<>> \in Seq(live) /\ Len(<<>>) = 0
      BY <1>1, EmptySeq
    <2>2. Leads(next, <<>>)
      <3>1. \A i \in 0..0 : Along(<<>>, i) = Root /\ Along(<<>>, i + 1) = NULL
        BY <2>1 DEF Along
      <3> QED
        BY <1>1, <2>1, <3>1 DEF Leads
    <2>3. /\ Chains(next, live) # {}
          /\ (CHOOSE c \in Chains(next, live) : TRUE) = <<>>
      <3>1. live \in SUBSET Timer
        BY <1>1
      <3> QED
        BY <2>1, <2>2, <3>1, ChainIs
    <2> QED
      BY <2>3 DEF Sound, Chain
  <1>6. Adding = {} /\ Waiting = {} /\ ToSet(Chain) = {}
    BY <1>1, <1>5 DEF Adding, Waiting, ToSet
  <1>7. AllThere
    BY <1>1, <1>6 DEF AllThere
  <1>8. Sorted
    BY <1>5 DEF Sorted, InOrder
  <1>9. Sections
    BY <1>1, <1>6 DEF Sections, InSection
  <1>10. Promised
    BY <1>1 DEF Promised
  <1> QED
    BY <1>1, <1>3, <1>4, <1>5, <1>7, <1>8, <1>9, <1>10 DEF ListInv, Whole

(* The invariant of the timer list holds always: the handler finds what it   *)
(* relies on whatever it interrupts, and the list is whole unless a tick has *)
(* run inside a section under the lock.                                      *)
THEOREM ListInductive == TimerListAssumption => (ListSpec => []ListInv)
  <1> SUFFICES ASSUME TimerListAssumption PROVE ListSpec => []ListInv
    OBVIOUS
  <1>1. ListInit => ListInv
    BY InitListInv
  <1>2. ListInv /\ [ListNext]_listVars => ListInv'
    <2> SUFFICES ASSUME ListInv, [ListNext]_listVars PROVE ListInv'
      OBVIOUS
    <2>1. CASE ListNext
      <3>1. ListTypeOK' /\ InHandler'
        BY <2>1, ListTypeStep, InHandlerStep DEF ListInv
      <3>2. ~intruded' => ~intruded
        <4>1. intruded' = intruded \/ intruded' = (intruded \/ locker)
          BY <2>1, ProgramStep DEF ListInv, ListNext, Tick, HandlerStep, TickTake, CallNext,
             ReaddNext, Advance
        <4> QED
          BY <4>1
      <3>3. ~intruded' => Whole'
        BY <2>1, <3>1, <3>2, WholeStep DEF ListInv
      <3> QED
        BY <3>1, <3>3 DEF ListInv
    <2>2. CASE UNCHANGED listVars
      <3> USE <2>2 DEF listVars
      <3>1. ListTypeOK'
        BY DEF ListInv, ListTypeOK, main, handler, history
      <3>2. Sound' = Sound /\ Chain' = Chain
        BY ChainSame
      <3>3. InHandler'
        BY <3>2 DEF ListInv, InHandler, Waiting, Takes, Early, handler
      <3>4. ~intruded' => Whole'
        BY WholeSame DEF ListInv
      <3> QED
        BY <3>1, <3>3, <3>4 DEF ListInv
    <2> QED
      BY <2>1, <2>2
  <1> QED
    BY <1>1, <1>2, PTL DEF ListSpec

(* No timer is lost, doubled or freed too early, and the list stays sorted. *)
THEOREM Intact == TimerListAssumption => (ListSpec => []ListIntact)
  <1>1. ListInv => ListIntact
    BY DEF ListInv, Whole, ListIntact
  <1> QED
    BY <1>1, ListInductive, PTL

(* A timer that a returned discard has met is called no more than was asked. *)
THEOREM Silent == TimerListAssumption => (ListSpec => []DiscardedStaySilent)
  <1>1. ListInv => DiscardedStaySilent
    BY DEF ListInv, Whole, ListTypeOK, Promised, DiscardedStaySilent
  <1> QED
    BY <1>1, ListInductive, PTL

(* A tick leaves nothing behind that is due, and calls nothing too early. *)
THEOREM OnTime == TimerListAssumption => (ListSpec => TicksOnTime)
  <1> SUFFICES ASSUME TimerListAssumption PROVE ListSpec => TicksOnTime
    OBVIOUS
  <1>1. ASSUME ListInv, ListInv', [ListNext]_listVars
        PROVE  TakesAllDue /\ EarlyByTwoFractions
    <2>1. EarlyByTwoFractions
      BY <1>1 DEF ListInv, InHandler, Early, Waiting, EarlyByTwoFractions
    <2>2. ASSUME hpc = "take", hpc' # "take"
          PROVE  \A t \in ToSet(Chain') : ~node'[t].discard /\ Due(node'[t]) > cur'
      <3>1. TickTake
        BY <1>1, <2>2, ProgramStep DEF ListInv, ListNext, Tick, HandlerStep, CallNext, ReaddNext,
           Advance, listVars, handler
      <3>2. next[hpos] = NULL /\ UNCHANGED <<next, node, live, cur>>
        BY <2>2, <3>1 DEF TickTake, Taken, Take
      <3>3. PICK n \in 0..Len(Chain) : hpos = Along(Chain, n) /\ \A i \in 1..n : ~Takes(Chain[i])
        BY <1>1, <2>2 DEF ListInv, InHandler
      <3>4. /\ Sound /\ cur \in Epoch..now /\ \A t \in live : node[t].ts >= Epoch
            /\ live \subseteq Timer /\ node \in [Timer -> Fields]
        BY <1>1, <2>2 DEF ListInv, InHandler, ListTypeOK
      <3>5. /\ Chain \in Seq(live) /\ Chain \in Seq(Timer) /\ Leads(next, Chain)
            /\ Chain' = Chain
        BY <3>2, <3>4, ChainThere, ChainSame
      <3>6. n = Len(Chain)
        BY <3>2, <3>3, <3>4, <3>5, PlaceOn
      <3>7. ASSUME NEW i \in 1..Len(Chain) PROVE ~node[Chain[i]].discard /\ Due(node[Chain[i]]) > cur
        <4>1. ~Takes(Chain[i]) /\ Chain[i] \in live
          BY <3>3, <3>5, <3>6, QueuePlaces
        <4>2. ~node[Chain[i]].discard /\ ~Expired(node[Chain[i]], cur)
          BY <4>1 DEF Takes
        <4>3. /\ node[Chain[i]] \in Fields /\ node[Chain[i]].ts >= Epoch
              /\ cur \in Nat /\ cur >= Epoch
          BY <3>4, <4>1 DEF TimerListAssumption
        <4> QED
          BY <4>2, <4>3, ExpiredTimes
      <3> QED
        BY <3>2, <3>5, <3>7, InSet
    <2> QED
      BY <2>1, <2>2 DEF TakesAllDue
  <1>2. ListInv /\ ListInv' /\ [ListNext]_listVars => [TakesAllDue /\ EarlyByTwoFractions]_listVars
    BY <1>1
  <1> QED
    BY <1>2, ListInductive, PTL DEF ListSpec, TicksOnTime
=============================================================================
