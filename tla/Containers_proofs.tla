--------------------------- MODULE Containers_proofs ---------------------------
(***************************************************************************)
(* Proofs about the containers.  Ring, for every set of elements, every    *)
(* initial capacity and every bound: its walk implements the queue of      *)
(* AbstractQueue.  MPool, for every block size, header, node, limit and    *)
(* alignment a user of it may choose and every set of sizes asked for:     *)
(* allocations do not overlap, and the lists lead to all the pool owns.    *)
(* Table, for any threads, keys and buckets: its calls are atomic, and a   *)
(* copy is complete.  Trie, for any labels and names: what a look-up finds *)
(* and what a removal takes away.                                          *)
(***************************************************************************)
EXTENDS Ring, MPool, Table, Trie, SeqLemmas, FiniteSetTheorems

LEMMA InitIInv == ASSUME RingAssumption, Init PROVE IInv
  BY DEF RingAssumption, Init, IInv, PlaceOf

(* A push with room: the element goes to idx_end, where no other one is. *)
LEMMA PushInRoom ==
    ASSUME IInv, NEW v \in Elt, ring_push(v), nelts # cap
    PROVE  /\ IInv'
           /\ \A k \in 1..nelts + 1 :
                 elts'[PlaceOf(k)'] = IF k = nelts + 1 THEN v ELSE elts[PlaceOf(k)]
  <1>1. /\ cap' = cap /\ idx_begin' = idx_begin /\ nelts' = nelts + 1
        /\ elts' = [elts EXCEPT ![idx_end] = v]
        /\ idx_end' = IF idx_end + 1 >= cap THEN 0 ELSE idx_end + 1
    BY DEF ring_push
  <1>2. /\ nelts \in 0..cap - 1 /\ cap \in Nat \ {0}
        /\ idx_begin \in 0..cap - 1 /\ idx_end \in 0..cap - 1
        /\ elts \in [0..cap - 1 -> Elt \cup {Garbage}]
        /\ idx_end = IF idx_begin + nelts < cap THEN idx_begin + nelts ELSE idx_begin + nelts - cap
    BY DEF IInv
  <1>3. ASSUME NEW k \in 1..nelts + 1
        PROVE  /\ PlaceOf(k)' = PlaceOf(k)
               /\ PlaceOf(k) \in 0..cap - 1
               /\ PlaceOf(k) = idx_end <=> k = nelts + 1
    BY <1>1, <1>2 DEF PlaceOf
  <1>4. ASSUME NEW k \in 1..nelts + 1
        PROVE  elts'[PlaceOf(k)'] = IF k = nelts + 1 THEN v ELSE elts[PlaceOf(k)]
    BY <1>1, <1>2, <1>3
  <1>5. \A k \in 1..nelts' : elts'[PlaceOf(k)'] \in Elt
    BY <1>1, <1>2, <1>4 DEF IInv
  <1>6. /\ cap' \in Nat \ {0} /\ nelts' \in 0..cap'
        /\ idx_begin' \in 0..cap' - 1 /\ idx_end' \in 0..cap' - 1
        /\ idx_end' = IF idx_begin' + nelts' < cap' THEN idx_begin' + nelts'
                      ELSE idx_begin' + nelts' - cap'
    BY <1>1, <1>2
  <1>7. elts' \in [0..cap' - 1 -> Elt \cup {Garbage}]
    BY <1>1, <1>2
  <1> QED
    BY <1>4, <1>5, <1>6, <1>7 DEF IInv

(* A push into a full ring: the elements keep their order in twice the room. *)
LEMMA PushAndGrow ==
    ASSUME IInv, NEW v \in Elt, ring_push(v), nelts = cap
    PROVE  /\ IInv'
           /\ \A k \in 1..nelts + 1 :
                 elts'[PlaceOf(k)'] = IF k = nelts + 1 THEN v ELSE elts[PlaceOf(k)]
  <1> DEFINE moved == [i \in 0..2 * cap - 1 |->
                          IF i \in idx_begin..cap - 1 THEN elts[i]
                          ELSE IF i \in cap..cap + idx_end - 1 THEN elts[i - cap] ELSE Garbage]
  <1>1. /\ cap \in Nat \ {0} /\ nelts = cap
        /\ idx_begin \in 0..cap - 1 /\ idx_end = idx_begin
        /\ elts \in [0..cap - 1 -> Elt \cup {Garbage}]
    BY DEF IInv
  <1>2. Expanded = [cap |-> 2 * cap, end |-> cap + idx_end, elts |-> moved]
    BY <1>1 DEF Expanded
  <1>3. /\ cap' = 2 * cap /\ idx_begin' = idx_begin /\ nelts' = nelts + 1
        /\ elts' = [moved EXCEPT ![cap + idx_end] = v]
        /\ idx_end' = IF cap + idx_end + 1 >= 2 * cap THEN 0 ELSE cap + idx_end + 1
    BY <1>1, <1>2 DEF ring_push
  <1>4. moved \in [0..2 * cap - 1 -> Elt \cup {Garbage}]
    BY <1>1
  <1>5. ASSUME NEW k \in 1..nelts + 1
        PROVE  /\ PlaceOf(k)' = idx_begin + k - 1
               /\ idx_begin + k - 1 \in 0..2 * cap - 1
               /\ k # nelts + 1 => /\ idx_begin + k - 1 # cap + idx_end
                                   /\ moved[idx_begin + k - 1] = elts[PlaceOf(k)]
    BY <1>1, <1>3 DEF PlaceOf
  <1>6. ASSUME NEW k \in 1..nelts + 1
        PROVE  elts'[PlaceOf(k)'] = IF k = nelts + 1 THEN v ELSE elts[PlaceOf(k)]
    <2> HIDE DEF moved
    <2>1. cap + idx_end \in 0..2 * cap - 1
      BY <1>1
    <2>2. CASE k = nelts + 1
      <3>1. idx_begin + k - 1 = cap + idx_end
        BY <1>1, <2>2
      <3> QED
        BY <1>3, <1>4, <1>5, <2>1, <2>2, <3>1
    <2>3. CASE k # nelts + 1
      BY <1>3, <1>4, <1>5, <2>1, <2>3
    <2> QED
      BY <2>2, <2>3
  <1>7. \A k \in 1..nelts' : elts'[PlaceOf(k)'] \in Elt
    BY SMTT(30), <1>1, <1>3, <1>6 DEF IInv
  <1>8. /\ cap' \in Nat \ {0} /\ nelts' \in 0..cap'
        /\ idx_begin' \in 0..cap' - 1 /\ idx_end' \in 0..cap' - 1
        /\ idx_end' = IF idx_begin' + nelts' < cap' THEN idx_begin' + nelts'
                      ELSE idx_begin' + nelts' - cap'
    BY <1>1, <1>3
  <1>9. elts' \in [0..cap' - 1 -> Elt \cup {Garbage}]
    <2> HIDE DEF moved
    <2> QED
      BY <1>1, <1>3, <1>4
  <1> QED
    BY <1>6, <1>7, <1>8, <1>9 DEF IInv

(* ring_tighten leaves the elements behind the first `step` ones. *)
LEMMA TightenDrops ==
    ASSUME RingAssumption, IInv, NEW step \in 0..MaxCap + 1, ring_tighten(step)
    PROVE  /\ IInv'
           /\ nelts' = IF nelts < step THEN 0 ELSE nelts - step
           /\ \A k \in 1..nelts' : elts'[PlaceOf(k)'] = elts[PlaceOf(k + step)]
  <1>1. /\ cap \in Nat \ {0} /\ nelts \in 0..cap /\ step \in Nat
        /\ idx_begin \in 0..cap - 1 /\ idx_end \in 0..cap - 1
        /\ idx_end = IF idx_begin + nelts < cap THEN idx_begin + nelts ELSE idx_begin + nelts - cap
    BY DEF IInv, RingAssumption
  <1>2. /\ cap' = cap /\ idx_end' = idx_end /\ elts' = elts
        /\ nelts' = IF nelts < step THEN 0 ELSE nelts - step
        /\ idx_begin' = IF nelts' = 0 THEN idx_end
                        ELSE IF idx_begin + step > cap - 1 THEN idx_begin + step - cap
                        ELSE idx_begin + step
    BY DEF ring_tighten
  <1>3. ASSUME NEW k \in 1..nelts'
        PROVE  k + step \in 1..nelts /\ PlaceOf(k)' = PlaceOf(k + step)
    BY <1>1, <1>2 DEF PlaceOf
  <1>4. \A k \in 1..nelts' : elts'[PlaceOf(k)'] = elts[PlaceOf(k + step)]
    BY <1>2, <1>3
  <1>5. \A k \in 1..nelts' : elts'[PlaceOf(k)'] \in Elt
    BY <1>3, <1>4 DEF IInv
  <1>6. /\ cap' \in Nat \ {0} /\ nelts' \in 0..cap'
        /\ idx_begin' \in 0..cap' - 1 /\ idx_end' \in 0..cap' - 1
        /\ idx_end' = IF idx_begin' + nelts' < cap' THEN idx_begin' + nelts'
                      ELSE idx_begin' + nelts' - cap'
    BY <1>1, <1>2
  <1>7. elts' \in [0..cap' - 1 -> Elt \cup {Garbage}]
    BY <1>2 DEF IInv
  <1> QED
    BY <1>2, <1>4, <1>5, <1>6, <1>7 DEF IInv

LEMMA IInvStep == ASSUME RingAssumption, IInv, [Next]_vars PROVE IInv'
  <1>1. ASSUME NEW v \in Elt, ring_push(v) PROVE IInv'
    BY <1>1, PushInRoom, PushAndGrow
  <1>2. ASSUME NEW step \in 0..MaxCap + 1, ring_tighten(step) PROVE IInv'
    BY <1>2, TightenDrops
  <1>3. CASE UNCHANGED vars
    BY <1>3 DEF vars, IInv, PlaceOf
  <1> QED
    BY <1>1, <1>2, <1>3 DEF Next

(* The ring's indices and elements are sound in every reachable state. *)
THEOREM Inductive == ASSUME RingAssumption PROVE Spec => []IInv
  <1>1. Init => IInv
    BY InitIInv
  <1>2. IInv /\ [Next]_vars => IInv'
    BY IInvStep
  <1> QED
    BY <1>1, <1>2, PTL DEF Spec

--------------------------------------------------------------------------------
(* The walk is a sequence of elements, before a step and behind it. *)
LEMMA ContentsSeq ==
    ASSUME IInv
    PROVE  /\ nelts \in Nat
           /\ Contents \in Seq(Elt) /\ Len(Contents) = nelts
           /\ \A k \in 1..nelts : Contents[k] = elts[PlaceOf(k)]
  <1>1. nelts \in Nat /\ \A k \in 1..nelts : elts[PlaceOf(k)] \in Elt
    BY DEF IInv
  <1>2. Contents \in [1..nelts -> Elt]
    BY <1>1 DEF Contents
  <1> QED
    BY <1>1, <1>2 DEF Contents

LEMMA ContentsSeqNext ==
    ASSUME IInv'
    PROVE  /\ nelts' \in Nat
           /\ Contents' \in Seq(Elt) /\ Len(Contents') = nelts'
           /\ \A k \in 1..nelts' : Contents'[k] = elts'[PlaceOf(k)']
  <1>1. nelts' \in Nat /\ \A k \in 1..nelts' : elts'[PlaceOf(k)'] \in Elt
    BY DEF IInv
  <1>2. Contents' \in [1..nelts' -> Elt]
    BY <1>1 DEF Contents
  <1> QED
    BY <1>1, <1>2 DEF Contents

(* Each step of the ring is a step of the queue, or leaves it as it is. *)
LEMMA StepRefines ==
    ASSUME RingAssumption, IInv, [Next]_vars PROVE [Queue!Next]_Contents
  <1>1. ASSUME NEW v \in Elt, ring_push(v) PROVE Queue!Push(v)
    <2>1. /\ \A k \in 1..nelts + 1 :
                elts'[PlaceOf(k)'] = IF k = nelts + 1 THEN v ELSE elts[PlaceOf(k)]
          /\ nelts' = nelts + 1 /\ IInv'
      BY <1>1, PushInRoom, PushAndGrow DEF ring_push
    <2>2. /\ Contents' \in Seq(Elt) /\ Len(Contents') = nelts'
          /\ \A k \in 1..nelts' : Contents'[k] = elts'[PlaceOf(k)']
      BY <2>1, ContentsSeqNext
    <2>3. /\ Append(Contents, v) \in Seq(Elt) /\ Len(Append(Contents, v)) = nelts + 1
          /\ \A k \in 1..nelts + 1 :
                Append(Contents, v)[k] = IF k = nelts + 1 THEN v ELSE elts[PlaceOf(k)]
      BY ContentsSeq, AppendProperties
    <2>4. Contents' = Append(Contents, v)
      BY <2>1, <2>2, <2>3, SeqEqual
    <2> QED
      BY <2>4 DEF Queue!Push
  <1>2. ASSUME NEW step \in 0..MaxCap + 1, ring_tighten(step)
        PROVE  \E n \in 0..Len(Contents) : Queue!Drop(n)
    <2> DEFINE n == IF nelts < step THEN nelts ELSE step
    <2>1. /\ \A k \in 1..nelts' : elts'[PlaceOf(k)'] = elts[PlaceOf(k + step)]
          /\ nelts' = IF nelts < step THEN 0 ELSE nelts - step
          /\ IInv'
      BY <1>2, TightenDrops
    <2>2. step \in Nat /\ n \in 0..nelts /\ nelts' = nelts - n
          /\ \A k \in 1..nelts' : k + step = n + k /\ n + k \in 1..nelts
      BY <2>1, ContentsSeq DEF RingAssumption
    <2>3. /\ Contents' \in Seq(Elt) /\ Len(Contents') = nelts'
          /\ \A k \in 1..nelts' : Contents'[k] = elts'[PlaceOf(k)']
      BY <2>1, ContentsSeqNext
    <2> HIDE DEF n
    <2>4. /\ SubSeq(Contents, n + 1, nelts) \in Seq(Elt)
          /\ Len(SubSeq(Contents, n + 1, nelts)) = nelts - n
          /\ \A k \in 1..nelts - n : SubSeq(Contents, n + 1, nelts)[k] = Contents[n + k]
      BY <2>2, ContentsSeq, SubSeqProperties
    <2>5. Contents' = SubSeq(Contents, n + 1, nelts)
      <3> DEFINE rest == SubSeq(Contents, n + 1, nelts)
      <3>1. rest \in Seq(Elt) /\ Len(rest) = Len(Contents')
        BY <2>2, <2>3, <2>4
      <3>2. ASSUME NEW k \in 1..nelts' PROVE Contents'[k] = rest[k]
        <4>1. Contents'[k] = elts[PlaceOf(k + step)]
          BY <2>1, <2>3
        <4>2. k + step = n + k /\ n + k \in 1..nelts
          BY <2>2
        <4>3. Contents[n + k] = elts[PlaceOf(n + k)]
          BY <4>2, ContentsSeq
        <4> QED
          BY <2>2, <2>4, <4>1, <4>2, <4>3
      <3> HIDE DEF rest
      <3>3. Contents' = rest
        BY <2>3, <3>1, <3>2, SeqEqual
      <3> QED
        BY <3>3 DEF rest
    <2> QED
      BY <2>2, <2>5, ContentsSeq DEF Queue!Drop
  <1>3. CASE UNCHANGED vars
    BY <1>3 DEF vars, Contents, PlaceOf
  <1> QED
    BY <1>1, <1>2, <1>3 DEF Next, Queue!Next

(* A walk over the ring of ring.h sees a queue that grows at the end and is  *)
(* cut in front, through every wrap around the storage and every growth.     *)
THEOREM Implements == ASSUME RingAssumption PROVE Spec => ImplementsQueue
  <1>1. Init => Queue!Init
    BY DEF Init, Queue!Init, Contents
  <1>2. IInv /\ [Next]_vars => [Queue!Next]_Contents
    BY StepRefines
  <1> QED
    BY <1>1, <1>2, Inductive, PTL DEF Spec, ImplementsQueue, Queue!Spec

--------------------------------------------------------------------------------
(* Rounding up goes over no multiple of the alignment, such as a block's end. *)
LEMMA Aligned ==
    ASSUME MPoolAssumption, NEW m \in Nat
    PROVE  Up(m) \in Nat /\ m <= Up(m) /\ (m <= psize => Up(m) <= psize)
  <1> DEFINE q == (m + alignment - 1) \div alignment
             k == psize \div alignment
  <1>0. alignment \in Nat \ {0} /\ psize \in Nat /\ psize % alignment = 0
    BY DEF MPoolAssumption
  <1>1. /\ q \in Nat /\ q * alignment \in Nat
        /\ q * alignment <= m + alignment - 1 /\ m + alignment - 1 < q * alignment + alignment
    <2>1. m + alignment - 1 \in Nat
      BY <1>0
    <2> QED
      BY <1>0, <2>1, Quotient
  <1>2. k \in Nat /\ psize = k * alignment
    BY <1>0, Quotient
  <1> HIDE DEF q, k
  <1>3. m <= q * alignment
    BY <1>0, <1>1
  <1>4. ASSUME m <= psize PROVE q * alignment <= psize
    <2>1. q * alignment < (k + 1) * alignment
      <3>1. (k + 1) * alignment = k * alignment + alignment
        BY <1>0, <1>2
      <3> QED
        BY <1>0, <1>1, <1>2, <1>4, <3>1
    <2>2. q <= k
      BY <1>0, <1>1, <1>2, <2>1
    <2>3. q * alignment <= k * alignment
      BY <1>0, <1>1, <1>2, <2>2
    <2> QED
      BY <1>2, <2>3
  <1> QED
    BY <1>1, <1>3, <1>4 DEF Up, q

(* The part of the state alloc_small works on, and what it keeps true of it. *)
PoolRec == [blocks : Seq(Nat), current : Nat, memory : Nat, live : SUBSET Region]

Linked(p) ==
    /\ p \in PoolRec
    /\ p.memory = Len(p.blocks) /\ p.current \in 1..Len(p.blocks)
    /\ \A a \in p.live : a.blk \in 1..Len(p.blocks)
    /\ \A b \in 1..Len(p.blocks) : header <= p.blocks[b]

Tidy(p) ==
    /\ \A b \in 1..Len(p.blocks) : p.blocks[b] <= psize
    /\ \A a \in p.live : header <= a.from /\ a.to <= p.blocks[a.blk]
    /\ \A a, b \in p.live : a # b /\ a.blk = b.blk => a.to <= b.from \/ b.to <= a.from

LEMMA TakeKeeps ==
    ASSUME MPoolAssumption, NEW p, Linked(p), NEW b \in 1..Len(p.blocks),
           NEW m \in Nat, p.blocks[b] <= m, NEW n \in Nat
    PROVE  LET q == Take(p, b, m, n)
               e == Extent(b, m, n)
           IN  /\ Linked(q) /\ e \in Region /\ q.live = p.live \cup {e}
               /\ Tidy(p) /\ m + n <= psize => Tidy(q)
  <1> DEFINE q == Take(p, b, m, n)
             e == Extent(b, m, n)
  <1>0. /\ p \in PoolRec /\ p.blocks \in Seq(Nat) /\ Len(p.blocks) \in Nat /\ b \in Nat
        /\ header \in Nat /\ psize \in Nat
        /\ p.live \in SUBSET Region /\ \A c \in 1..Len(p.blocks) : p.blocks[c] \in Nat
        /\ p.current \in 1..Len(p.blocks) /\ p.memory = Len(p.blocks)
        /\ \A a \in p.live : a.blk \in 1..Len(p.blocks)
        /\ \A c \in 1..Len(p.blocks) : header <= p.blocks[c]
    <2>1. header \in Nat /\ psize \in Nat
      BY DEF MPoolAssumption
    <2>2. p \in PoolRec /\ p.blocks \in Seq(Nat) /\ p.live \in SUBSET Region
      BY DEF Linked, PoolRec
    <2>3. Len(p.blocks) \in Nat /\ \A c \in 1..Len(p.blocks) : p.blocks[c] \in Nat
      BY <2>2, QueuePlaces
    <2>4. b \in Nat
      BY <2>3
    <2> QED
      BY <2>1, <2>2, <2>3, <2>4, Zenon DEF Linked
  <1>1. e \in Region /\ e.blk = b /\ e.from = m /\ e.to = m + n
    BY <1>0 DEF Extent, Region
  <1>2. /\ q.blocks = [p.blocks EXCEPT ![b] = m + n] /\ q.live = p.live \cup {e}
        /\ q.current = p.current /\ q.memory = p.memory
    BY <1>0 DEF Take, PoolRec
  <1>3. /\ q.blocks \in Seq(Nat) /\ Len(q.blocks) = Len(p.blocks)
        /\ \A c \in 1..Len(p.blocks) : q.blocks[c] = IF c = b THEN m + n ELSE p.blocks[c]
    <2> DEFINE s == p.blocks
               t == [s EXCEPT ![b] = m + n]
    <2>1. m + n \in Nat
      OBVIOUS
    <2>2. t \in Seq(Nat) /\ Len(t) = Len(s) /\ \A c \in 1..Len(s) : t[c] = IF c = b THEN m + n ELSE s[c]
      <3> HIDE DEF s
      <3>1. s \in Seq(Nat) /\ b \in 1..Len(s)
        BY <1>0 DEF s
      <3> QED
        BY <2>1, <3>1
    <2> QED
      BY <1>2, <2>2
  <1>4. q \in PoolRec
    <2>1. m + n \in Nat /\ [p.blocks EXCEPT ![b] = m + n] \in Seq(Nat)
      BY <1>2, <1>3
    <2>2. p.live \cup {e} \in SUBSET Region
      BY <1>0, <1>1
    <2> HIDE DEF e
    <2> QED
      BY <1>0, <2>1, <2>2 DEF PoolRec, Take, e
  <1> HIDE DEF q, e
  <1>5. header <= m + n
    <2>1. header <= p.blocks[b] /\ p.blocks[b] \in Nat
      BY <1>0
    <2> QED
      BY <1>0, <2>1
  <1>6. Linked(q)
    <2>1. \A a \in q.live : a.blk \in 1..Len(q.blocks)
      BY <1>0, <1>1, <1>2, <1>3
    <2>2. \A c \in 1..Len(q.blocks) : header <= q.blocks[c]
      BY <1>0, <1>3, <1>5
    <2> QED
      BY <1>0, <1>2, <1>3, <1>4, <2>1, <2>2 DEF Linked
  <1>7. ASSUME Tidy(p), m + n <= psize PROVE Tidy(q)
    <2>1. ASSUME NEW c \in 1..Len(p.blocks) PROVE q.blocks[c] <= psize /\ p.blocks[c] <= q.blocks[c]
      <3>1. p.blocks[c] <= psize /\ p.blocks[c] \in Nat
        BY <1>0, <1>7 DEF Tidy
      <3>2. CASE c = b
        <4>1. q.blocks[c] = m + n
          BY <1>3, <3>2
        <4> QED
          BY <1>0, <1>7, <3>1, <3>2, <4>1
      <3>3. CASE c # b
        <4>1. q.blocks[c] = p.blocks[c]
          BY <1>3, <3>3
        <4> QED
          BY <3>1, <4>1
      <3> QED
        BY <3>2, <3>3
    <2>2. ASSUME NEW a \in p.live
          PROVE  /\ header <= a.from /\ a.to <= q.blocks[a.blk] /\ (a.blk = b => a.to <= m)
                 /\ a.from \in Nat /\ a.to \in Nat
      <3>1. /\ a.blk \in 1..Len(p.blocks) /\ a.from \in Nat /\ a.to \in Nat
            /\ header <= a.from /\ a.to <= p.blocks[a.blk]
        BY <1>0, <1>7 DEF Tidy, Region
      <3>2. /\ p.blocks[a.blk] <= q.blocks[a.blk]
            /\ p.blocks[a.blk] \in Nat /\ q.blocks[a.blk] \in Nat
        <4>1. q.blocks[a.blk] \in Nat
          BY <1>3, <3>1, QueuePlaces
        <4> QED
          BY <1>0, <2>1, <3>1, <4>1
      <3>3. a.blk = b => a.to <= m
        <4>1. p.blocks[b] \in Nat
          BY <1>0
        <4> QED
          BY <3>1, <4>1
      <3> QED
        BY <3>1, <3>2, <3>3
    <2>3. header <= e.from /\ e.to <= q.blocks[e.blk]
      <3>1. q.blocks[e.blk] = m + n
        BY <1>1, <1>3
      <3>2. header <= p.blocks[b] /\ p.blocks[b] \in Nat /\ header \in Nat
        BY <1>0
      <3>3. header <= m
        BY <3>2
      <3> QED
        BY <1>1, <3>1, <3>3
    <2>4. ASSUME NEW a \in q.live, NEW c \in q.live, a # c, a.blk = c.blk
          PROVE  a.to <= c.from \/ c.to <= a.from
      <3>0. (a \in p.live \/ a = e) /\ (c \in p.live \/ c = e)
        BY <1>2
      <3>1. CASE a \in p.live /\ c \in p.live
        BY <1>7, <2>4, <3>1 DEF Tidy
      <3>2. CASE a = e /\ c \in p.live
        <4>1. c.blk = b /\ c.to <= m
          BY <1>1, <2>2, <2>4, <3>2
        <4> QED
          BY <1>1, <3>2, <4>1
      <3>3. CASE c = e /\ a \in p.live
        <4>1. a.blk = b /\ a.to <= m
          BY <1>1, <2>2, <2>4, <3>3
        <4> QED
          BY <1>1, <3>3, <4>1
      <3> QED
        BY <2>4, <3>0, <3>1, <3>2, <3>3
    <2>5. \A c \in 1..Len(q.blocks) : q.blocks[c] <= psize
      BY <1>3, <2>1
    <2>6. \A a \in q.live : header <= a.from /\ a.to <= q.blocks[a.blk]
      BY <1>2, <2>2, <2>3
    <2> QED
      BY <2>4, <2>5, <2>6 DEF Tidy
  <1> QED
    BY <1>1, <1>2, <1>6, <1>7 DEF q, e

LEMMA BlockKeeps ==
    ASSUME MPoolAssumption, NEW p, Linked(p)
    PROVE  LET b == Len(p.blocks) + 1
               q == [p EXCEPT !.blocks = Append(@, header), !.current = b, !.memory = @ + 1]
           IN  /\ Linked(q) /\ q.live = p.live /\ b \in 1..Len(q.blocks)
               /\ q.blocks[b] = header
               /\ Tidy(p) => Tidy(q)
  <1> DEFINE b == Len(p.blocks) + 1
             q == [p EXCEPT !.blocks = Append(@, header), !.current = b, !.memory = @ + 1]
  <1>0. /\ p \in PoolRec /\ p.blocks \in Seq(Nat) /\ Len(p.blocks) \in Nat
        /\ header \in Nat /\ psize \in Nat /\ header <= psize
        /\ p.live \in SUBSET Region /\ p.memory = Len(p.blocks)
        /\ \A a \in p.live : a.blk \in 1..Len(p.blocks)
        /\ \A c \in 1..Len(p.blocks) : header <= p.blocks[c]
    <2>1. Up(header) \in Nat /\ header <= Up(header) /\ max \in Nat /\ Up(header) + max <= psize
          /\ header \in Nat /\ psize \in Nat
      BY Aligned DEF MPoolAssumption
    <2> QED
      BY <2>1 DEF Linked, PoolRec
  <1>2. /\ q.blocks = Append(p.blocks, header) /\ q.live = p.live
        /\ q.current = b /\ q.memory = p.memory + 1
    BY <1>0 DEF PoolRec
  <1>3. /\ q.blocks \in Seq(Nat) /\ Len(q.blocks) = b /\ b \in 1..b /\ b \in Nat
        /\ q.blocks[b] = header
        /\ \A c \in 1..Len(p.blocks) : q.blocks[c] = p.blocks[c]
    BY <1>0, <1>2, AppendPlaces
  <1>4. \A c \in 1..b : c \in 1..Len(p.blocks) \/ c = b
    BY <1>0
  <1>5. \A c \in 1..Len(p.blocks) : c \in 1..b
    BY <1>0
  <1>6. q \in PoolRec
    <2>1. Append(p.blocks, header) \in Seq(Nat) /\ b \in Nat /\ p.memory + 1 \in Nat
      BY <1>0, <1>2, <1>3
    <2> QED
      BY <1>0, <2>1 DEF PoolRec
  <1> HIDE DEF q, b
  <1>7. Linked(q)
    <2>1. ASSUME NEW c \in 1..b PROVE header <= q.blocks[c]
      <3>1. CASE c = b
        BY <1>0, <1>3, <3>1
      <3>2. CASE c \in 1..Len(p.blocks)
        BY <1>0, <1>3, <3>2
      <3> QED
        BY <1>4, <3>1, <3>2
    <2>2. q.memory = Len(q.blocks)
      BY <1>0, <1>2, <1>3 DEF b
    <2> QED
      BY <1>0, <1>2, <1>3, <1>5, <1>6, <2>1, <2>2 DEF Linked
  <1>8. ASSUME Tidy(p) PROVE Tidy(q)
    <2>1. \A c \in 1..b : q.blocks[c] <= psize
      BY <1>0, <1>3, <1>4, <1>8 DEF Tidy
    <2>2. ASSUME NEW a \in q.live PROVE header <= a.from /\ a.to <= q.blocks[a.blk]
      <3>1. q.blocks[a.blk] = p.blocks[a.blk]
        BY <1>0, <1>2, <1>3
      <3> QED
        BY <1>2, <1>8, <3>1 DEF Tidy
    <2> QED
      BY <1>2, <1>3, <1>8, <2>1, <2>2 DEF Tidy
  <1> QED
    BY <1>2, <1>3, <1>7, <1>8 DEF q, b

(* What alloc_small returns: nothing, and nothing has changed; or room that nobody *)
(* else has, in a block it fits, if it does not ask for more than `max`.           *)
Keeps(p, n, r) ==
    /\ Linked(r.pool)
    /\ \/ r.at = Nil /\ r.pool = p
       \/ r.at # Nil /\ r.at \in Region /\ r.pool.live = p.live \cup {r.at}
    /\ Tidy(p) /\ n <= max => r.at = Nil \/ r.at.to <= psize
    /\ Tidy(p) /\ (r.at = Nil \/ r.at.to <= psize) => Tidy(r.pool)

LEMMA SmallKeeps ==
    ASSUME MPoolAssumption, NEW p, Linked(p), NEW n \in Nat, NEW align \in BOOLEAN,
           NEW ok \in BOOLEAN
    PROVE  Keeps(p, n, alloc_small(p, n, align, ok))
  <1> DEFINE fitting == {b \in p.current..Len(p.blocks) : Fits(Start(p.blocks[b], align), n)}
             b == CHOOSE i \in fitting : \A j \in fitting : i <= j
             m == Start(p.blocks[b], align)
             r == alloc_small(p, n, align, ok)
  <1>0. /\ p \in PoolRec /\ p.blocks \in Seq(Nat) /\ Len(p.blocks) \in Nat
        /\ p.current \in 1..Len(p.blocks) /\ psize \in Nat /\ max \in Nat
        /\ Up(header) + max <= psize /\ header \in Nat /\ Nil \notin Region
    BY DEF Linked, PoolRec, MPoolAssumption, Region
  <1>s. \A k \in Nat : Start(k, align) \in Nat /\ k <= Start(k, align)
                       /\ (k <= psize => Start(k, align) <= psize)
    BY Aligned DEF Start
  <1>1. CASE fitting # {}
    <2>1. b \in fitting
      <3>1. fitting \in SUBSET Nat
        BY <1>0
      <3>2. Min(fitting) \in fitting /\ \A j \in fitting : Min(fitting) <= j
        BY <1>1, <3>1, SmallestIsIn
      <3> QED
        BY <3>2
    <2>2. r = [pool |-> Take(p, b, m, n), at |-> Extent(b, m, n)]
      BY <1>1 DEF alloc_small
    <2>3. b \in 1..Len(p.blocks) /\ Fits(m, n)
      BY <1>0, <2>1
    <2> HIDE DEF b, fitting, r
    <2>4. p.blocks[b] \in Nat
      BY <1>0, <2>3, QueuePlaces
    <2>5. m \in Nat /\ p.blocks[b] <= m /\ (p.blocks[b] <= psize => m <= psize)
      BY <1>s, <2>4
    <2> HIDE DEF m
    <2>6. /\ Linked(r.pool) /\ r.at \in Region /\ r.pool.live = p.live \cup {r.at}
          /\ r.at.to = m + n /\ (Tidy(p) /\ m + n <= psize => Tidy(r.pool))
      <3>1. r.pool = Take(p, b, m, n) /\ r.at = Extent(b, m, n) /\ r.at.to = m + n
        BY <2>2 DEF Extent
      <3> QED
        BY <2>3, <2>5, <3>1, TakeKeeps
    <2>7. Tidy(p) => m + n <= psize
      <3>1. Tidy(p) => p.blocks[b] <= psize
        BY <2>3 DEF Tidy
      <3> QED
        BY <1>0, <2>3, <2>5, <3>1 DEF Fits
    <2> QED
      BY <1>0, <2>6, <2>7 DEF r, Keeps
  <1>2. CASE fitting = {} /\ ok
    <2> DEFINE c == Len(p.blocks) + 1
               q == [p EXCEPT !.blocks = Append(@, header), !.current = c, !.memory = @ + 1]
               k == Start(header, align)
    <2>1. r = [pool |-> Take(q, c, k, n), at |-> Extent(c, k, n)]
      BY <1>2 DEF alloc_small, alloc_block
    <2>2. /\ Linked(q) /\ q.live = p.live /\ c \in 1..Len(q.blocks)
          /\ q.blocks[c] = header /\ (Tidy(p) => Tidy(q))
      BY BlockKeeps
    <2>3. k \in Nat /\ header <= k /\ k + max <= psize
      <3>1. k = header \/ k = Up(header)
        BY DEF Start
      <3>2. Up(header) \in Nat /\ header <= Up(header)
        BY <1>0, Aligned
      <3> QED
        BY <1>0, <3>1, <3>2
    <2> HIDE DEF c, q, k, r
    <2>4. /\ Linked(r.pool) /\ r.at \in Region /\ r.pool.live = p.live \cup {r.at}
          /\ r.at.to = k + n /\ (Tidy(p) /\ k + n <= psize => Tidy(r.pool))
      <3>1. r.pool = Take(q, c, k, n) /\ r.at = Extent(c, k, n) /\ r.at.to = k + n
        BY <2>1 DEF Extent
      <3> QED
        BY <2>2, <2>3, <3>1, TakeKeeps
    <2>5. n <= max => k + n <= psize
      BY <1>0, <2>3
    <2> QED
      BY <1>0, <2>4, <2>5 DEF r, Keeps
  <1>3. CASE fitting = {} /\ ~ok
    <2>1. r = [pool |-> p, at |-> Nil]
      BY <1>3 DEF alloc_small
    <2> QED
      BY <2>1 DEF r, Keeps
  <1> QED
    BY <1>1, <1>2, <1>3

--------------------------------------------------------------------------------
(* The invariant in two parts: the chain with what lies in its blocks, and the *)
(* lists with what they lead to.                                               *)
Noted == [alloc : Large, at : Region]
Callback == [at : Region, data : Region \cup {Nil}]

ChainOK(p, over) == Linked(p) /\ (~over => Tidy(p))

LargeOK(list, out, lv) ==
    /\ list \in Seq(Noted) /\ out \subseteq Large /\ IsFiniteSet(out)
    /\ \A i \in 1..Len(list) : list[i].at \in lv
    /\ \A i, j \in 1..Len(list) : list[i].alloc = list[j].alloc => i = j
    /\ {list[i].alloc : i \in DOMAIN list} = out
    /\ Len(list) = Cardinality(out)

CallbacksOK(list, lv) ==
    /\ list \in Seq(Callback)
    /\ \A i \in 1..Len(list) : list[i].at \in lv /\ list[i].data \in lv \cup {Nil}

(* The inductive invariant behind PoolSound: what has been allocated stays below *)
(* the `avail` of its block, which a block's header precedes, and a large         *)
(* allocation is noted once.                                                      *)
PoolInv ==
    /\ ChainOK(pool, overrun) /\ overrun \in BOOLEAN
    /\ LargeOK(large, malloced, live) /\ CallbacksOK(free_list, live)

LEMMA InvIsEnough == PoolInv => PoolTypeOK /\ PoolSound
  <1> SUFFICES ASSUME PoolInv PROVE PoolTypeOK /\ PoolSound
    OBVIOUS
  <1>1. /\ pool.blocks = blocks /\ pool.current = current /\ pool.memory = memory
        /\ pool.live = live
    BY DEF pool
  <1> HIDE DEF pool
  <1>2. /\ pool \in PoolRec
        /\ memory = Len(blocks) /\ current \in 1..Len(blocks)
        /\ \A a \in live : a.blk \in 1..Len(blocks)
        /\ \A b \in 1..Len(blocks) : header <= blocks[b]
    BY <1>1 DEF PoolInv, ChainOK, Linked
  <1>3. /\ blocks \in Seq(Nat) /\ current \in Nat /\ memory \in Nat /\ live \subseteq Region
    BY <1>1, <1>2 DEF PoolRec
  <1>4. ~overrun => /\ \A b \in 1..Len(blocks) : blocks[b] <= psize
                    /\ \A a \in live : header <= a.from /\ a.to <= blocks[a.blk]
                    /\ \A a, b \in live : a # b /\ a.blk = b.blk => a.to <= b.from \/ b.to <= a.from
    BY <1>1 DEF PoolInv, ChainOK, Tidy
  <1>5. LargeOK(large, malloced, live) /\ CallbacksOK(free_list, live) /\ overrun \in BOOLEAN
    BY DEF PoolInv
  <1>6. large \in Seq(Noted) /\ free_list \in Seq(Callback)
    BY <1>5 DEF LargeOK, CallbacksOK
  <1>7. DOMAIN large = 1..Len(large) /\ DOMAIN free_list = 1..Len(free_list)
    BY <1>6, LenProperties
  <1>8. PoolTypeOK
    BY <1>3, <1>5, <1>6 DEF PoolTypeOK, LargeOK, Noted, Callback
  <1>9. Disjoint
    BY <1>2, <1>4 DEF Disjoint
  <1>10. ListsLive
    BY <1>2, <1>5, <1>7 DEF ListsLive, LargeOK, CallbacksOK
  <1> QED
    BY <1>8, <1>9, <1>10 DEF PoolSound

(* More allocations leave the lists as they are. *)
LEMMA ListsMore ==
    ASSUME NEW list, NEW out, NEW fl, NEW lv, NEW lv2, lv \subseteq lv2
    PROVE  /\ LargeOK(list, out, lv) => LargeOK(list, out, lv2)
           /\ CallbacksOK(fl, lv) => CallbacksOK(fl, lv2)
  <1>1. LargeOK(list, out, lv) => LargeOK(list, out, lv2)
    BY DEF LargeOK
  <1>2. CallbacksOK(fl, lv) => CallbacksOK(fl, lv2)
    BY DEF CallbacksOK
  <1> QED
    BY <1>1, <1>2

(* A large allocation is noted, and taken off the list. *)
LEMMA LargeNoted ==
    ASSUME NEW list, NEW out, NEW lv, LargeOK(list, out, lv),
           NEW p \in Large \ out, NEW a \in Region, a \in lv
    PROVE  LargeOK(<<[alloc |-> p, at |-> a]>> \o list, out \cup {p}, lv)
  <1> DEFINE e == [alloc |-> p, at |-> a]
             r == <<e>> \o list
  <1>1. /\ list \in Seq(Noted) /\ out \subseteq Large /\ IsFiniteSet(out)
        /\ \A i \in 1..Len(list) : list[i].at \in lv
        /\ \A i, j \in 1..Len(list) : list[i].alloc = list[j].alloc => i = j
        /\ {list[i].alloc : i \in DOMAIN list} = out
        /\ Len(list) = Cardinality(out)
    BY DEF LargeOK
  <1>2. e \in Noted /\ e.alloc = p /\ e.at = a
    BY DEF Noted
  <1> HIDE DEF e
  <1>3. /\ r \in Seq(Noted) /\ Len(list) \in Nat /\ Len(r) = Len(list) + 1 /\ r[1] = e
        /\ \A i \in 1..Len(list) : r[i + 1] = list[i]
    BY <1>1, <1>2, ConsContains
  <1>4. DOMAIN r = 1..Len(r) /\ DOMAIN list = 1..Len(list)
    BY <1>1, <1>3, LenProperties
  <1> HIDE DEF r
  <1>5. \A i \in 1..Len(r) : i = 1 \/ (i - 1 \in 1..Len(list) /\ r[i] = list[i - 1])
    <2> SUFFICES ASSUME NEW i \in 1..Len(r), i # 1
                 PROVE  i - 1 \in 1..Len(list) /\ r[i] = list[i - 1]
      OBVIOUS
    <2>1. i - 1 \in 1..Len(list) /\ (i - 1) + 1 = i
      BY <1>3
    <2> QED
      BY <1>3, <2>1
  <1>6. \A i \in 1..Len(list) : i + 1 \in 1..Len(r) /\ list[i].alloc \in out
    BY <1>1, <1>3, <1>4
  <1>7. 1 \in 1..Len(r)
    BY <1>3
  <1>8. \A i \in 1..Len(r) : r[i].at \in lv
    BY <1>1, <1>2, <1>3, <1>5
  <1>9. ASSUME NEW i \in 1..Len(r), NEW j \in 1..Len(r), r[i].alloc = r[j].alloc PROVE i = j
    <2>1. CASE i = 1 /\ j = 1
      BY <2>1
    <2>2. CASE i = 1 /\ j # 1
      <3>1. j - 1 \in 1..Len(list) /\ r[j].alloc \in out
        BY <1>5, <1>6, <2>2
      <3> QED
        BY <1>2, <1>3, <1>9, <2>2, <3>1
    <2>3. CASE j = 1 /\ i # 1
      <3>1. i - 1 \in 1..Len(list) /\ r[i].alloc \in out
        BY <1>5, <1>6, <2>3
      <3> QED
        BY <1>2, <1>3, <1>9, <2>3, <3>1
    <2>4. CASE i # 1 /\ j # 1
      <3>1. i - 1 = j - 1
        BY <1>1, <1>5, <1>9, <2>4
      <3> QED
        BY <1>3, <3>1
    <2> QED
      BY <2>1, <2>2, <2>3, <2>4
  <1>10. {r[i].alloc : i \in DOMAIN r} = out \cup {p}
    <2>1. ASSUME NEW i \in 1..Len(r) PROVE r[i].alloc \in out \cup {p}
      BY <1>2, <1>3, <1>5, <1>6
    <2>2. ASSUME NEW x \in out PROVE \E i \in 1..Len(r) : r[i].alloc = x
      <3>1. PICK i \in 1..Len(list) : list[i].alloc = x
        BY <1>1, <1>4
      <3> QED
        BY <1>3, <1>6, <3>1
    <2>3. r[1].alloc = p
      BY <1>2, <1>3
    <2> QED
      BY <1>4, <1>7, <2>1, <2>2, <2>3
  <1>11. Len(r) = Cardinality(out \cup {p}) /\ IsFiniteSet(out \cup {p})
    BY <1>1, <1>3, FS_AddElement
  <1> QED
    BY <1>1, <1>3, <1>8, <1>9, <1>10, <1>11 DEF LargeOK, r, e

LEMMA LargeTakenOff ==
    ASSUME NEW list, NEW out, NEW lv, LargeOK(list, out, lv),
           NEW n \in 1..Len(list)
    PROVE  LargeOK(RemoveAt(list, n), out \ {list[n].alloc}, lv)
  <1> DEFINE r == RemoveAt(list, n)
             p == list[n].alloc
  <1>1. /\ list \in Seq(Noted) /\ out \subseteq Large /\ IsFiniteSet(out)
        /\ \A i \in 1..Len(list) : list[i].at \in lv
        /\ \A i, j \in 1..Len(list) : list[i].alloc = list[j].alloc => i = j
        /\ {list[i].alloc : i \in DOMAIN list} = out
        /\ Len(list) = Cardinality(out)
    BY DEF LargeOK
  <1>2. /\ r \in Seq(Noted) /\ Len(r) = Len(list) - 1 /\ Len(list) \in Nat
        /\ \A i \in 1..n - 1 : i \in 1..Len(r) /\ r[i] = list[i]
        /\ \A i \in n + 1..Len(list) : i - 1 \in 1..Len(r) /\ r[i - 1] = list[i]
        /\ \A i \in 1..Len(r) : \/ i \in 1..n - 1 /\ r[i] = list[i]
                                \/ i + 1 \in n + 1..Len(list) /\ r[i] = list[i + 1]
    BY <1>1, RemoveAtPlaces
  <1>3. DOMAIN r = 1..Len(r) /\ DOMAIN list = 1..Len(list)
    BY <1>1, <1>2, LenProperties
  <1> HIDE DEF r
  <1>4. /\ \A i \in 1..n - 1 : i \in 1..Len(list) /\ i # n
        /\ \A i \in n + 1..Len(list) : i \in 1..Len(list) /\ i # n
        /\ \A i \in 1..Len(list) : i = n \/ i \in 1..n - 1 \/ i \in n + 1..Len(list)
    BY <1>2
  <1>5. \A i \in 1..Len(r) : \E j \in 1..Len(list) : j # n /\ r[i] = list[j]
    BY <1>2, <1>4
  <1>6. \A j \in 1..Len(list) : j # n => \E i \in 1..Len(r) : r[i] = list[j]
    BY <1>2, <1>4
  <1>7. \A i \in 1..Len(r) : r[i].at \in lv
    BY <1>1, <1>5
  <1>8. ASSUME NEW i \in 1..Len(r), NEW j \in 1..Len(r), r[i].alloc = r[j].alloc PROVE i = j
    <2>1. CASE i \in 1..n - 1 /\ j \in 1..n - 1
      BY <1>1, <1>2, <1>4, <1>8, <2>1
    <2>2. CASE i \in 1..n - 1 /\ j + 1 \in n + 1..Len(list) /\ r[j] = list[j + 1]
      <3>1. i = j + 1
        BY <1>1, <1>2, <1>4, <1>8, <2>2
      <3> QED
        BY <1>2, <2>2, <3>1
    <2>3. CASE j \in 1..n - 1 /\ i + 1 \in n + 1..Len(list) /\ r[i] = list[i + 1]
      <3>1. j = i + 1
        BY <1>1, <1>2, <1>4, <1>8, <2>3
      <3> QED
        BY <1>2, <2>3, <3>1
    <2>4. CASE /\ i + 1 \in n + 1..Len(list) /\ r[i] = list[i + 1]
               /\ j + 1 \in n + 1..Len(list) /\ r[j] = list[j + 1]
      <3>1. i + 1 = j + 1
        BY <1>1, <1>4, <1>8, <2>4
      <3> QED
        BY <1>2, <3>1
    <2> QED
      BY <1>2, <2>1, <2>2, <2>3, <2>4
  <1>9. {r[i].alloc : i \in DOMAIN r} = out \ {p}
    <2>1. ASSUME NEW i \in 1..Len(r) PROVE r[i].alloc \in out \ {p}
      <3>1. PICK j \in 1..Len(list) : j # n /\ r[i] = list[j]
        BY <1>5
      <3> QED
        BY <1>1, <1>3, <3>1
    <2>2. ASSUME NEW x \in out \ {p} PROVE \E i \in 1..Len(r) : r[i].alloc = x
      <3>1. PICK j \in 1..Len(list) : list[j].alloc = x
        BY <1>1, <1>3
      <3> QED
        BY <1>6, <3>1
    <2> HIDE DEF p
    <2> QED
      BY <1>3, <2>1, <2>2
  <1>10. p \in out
    BY <1>1, <1>3
  <1>11. Len(r) = Cardinality(out \ {p}) /\ IsFiniteSet(out \ {p})
    BY <1>1, <1>2, <1>10, FS_RemoveElement
  <1> QED
    BY <1>1, <1>2, <1>7, <1>8, <1>9, <1>11 DEF LargeOK, r

(* A cleanup callback is added in front. *)
LEMMA CallbackAdded ==
    ASSUME NEW list, NEW lv, CallbacksOK(list, lv),
           NEW e \in Callback, e.at \in lv, e.data \in lv \cup {Nil}
    PROVE  CallbacksOK(<<e>> \o list, lv)
  <1> DEFINE r == <<e>> \o list
  <1>1. list \in Seq(Callback)
    BY DEF CallbacksOK
  <1>2. /\ r \in Seq(Callback) /\ Len(list) \in Nat /\ Len(r) = Len(list) + 1 /\ r[1] = e
        /\ \A i \in 1..Len(list) : r[i + 1] = list[i]
    BY <1>1, ConsContains
  <1> HIDE DEF r
  <1>3. ASSUME NEW i \in 1..Len(r) PROVE r[i].at \in lv /\ r[i].data \in lv \cup {Nil}
    <2>1. CASE i = 1
      BY <1>2, <2>1
    <2>2. CASE i # 1
      <3>1. i - 1 \in 1..Len(list) /\ (i - 1) + 1 = i
        BY <1>2, <2>2
      <3>2. r[i] = list[i - 1]
        BY <1>2, <3>1
      <3> QED
        BY <3>1, <3>2 DEF CallbacksOK
    <2> QED
      BY <2>1, <2>2
  <1> QED
    BY <1>2, <1>3 DEF CallbacksOK, r

(* Empty lists, and a chain of blocks with nothing in them. *)
LEMMA NothingNoted ==
    ASSUME NEW lv
    PROVE  LargeOK(<<>>, {}, lv) /\ CallbacksOK(<<>>, lv)
  <1>1. IsFiniteSet({}) /\ Cardinality({}) = 0
    BY FS_EmptySet
  <1> QED
    BY <1>1 DEF LargeOK, CallbacksOK

LEMMA EmptyChain ==
    ASSUME MPoolAssumption, NEW s \in Seq(Nat), Len(s) # 0,
           \A b \in 1..Len(s) : s[b] = Up(header), NEW over \in BOOLEAN
    PROVE  ChainOK([blocks |-> s, current |-> 1, memory |-> Len(s), live |-> {}], over)
  <1> DEFINE p == [blocks |-> s, current |-> 1, memory |-> Len(s), live |-> {}]
  <1>1. p \in PoolRec
    BY DEF PoolRec
  <1>2. p.blocks = s /\ p.current = 1 /\ p.memory = Len(s) /\ p.live = {}
    OBVIOUS
  <1> HIDE DEF p
  <1>3. Up(header) \in Nat /\ header <= Up(header) /\ Up(header) <= psize
    <2>1. header \in Nat /\ max \in Nat /\ psize \in Nat /\ Up(header) + max <= psize
      BY DEF MPoolAssumption
    <2> QED
      BY <2>1, Aligned
  <1>4. Linked(p)
    BY <1>1, <1>2, <1>3 DEF Linked
  <1>5. Tidy(p)
    BY <1>2, <1>3 DEF Tidy
  <1> QED
    BY <1>4, <1>5 DEF ChainOK, p

LEMMA FreshBlock ==
    ASSUME MPoolAssumption, NEW over \in BOOLEAN
    PROVE  ChainOK([blocks |-> <<Up(header)>>, current |-> 1, memory |-> 1, live |-> {}], over)
  <1> DEFINE s == <<Up(header)>>
  <1>1. Up(header) \in Nat
    BY Aligned DEF MPoolAssumption
  <1>2. s \in Seq(Nat) /\ Len(s) = 1 /\ \A b \in 1..1 : s[b] = Up(header)
    BY <1>1
  <1> HIDE DEF s
  <1>3. ChainOK([blocks |-> s, current |-> 1, memory |-> Len(s), live |-> {}], over)
    <2>1. s \in Seq(Nat) /\ Len(s) # 0 /\ \A b \in 1..Len(s) : s[b] = Up(header)
      BY <1>2
    <2> QED
      BY <2>1, EmptyChain
  <1> QED
    BY <1>2, <1>3 DEF s

LEMMA InitPoolInv == ASSUME MPoolAssumption, PoolInit PROVE PoolInv
  <1>1. pool = [blocks |-> <<Up(header)>>, current |-> 1, memory |-> 1, live |-> {}]
    BY DEF PoolInit, pool
  <1>2. ChainOK(pool, overrun) /\ overrun \in BOOLEAN
    BY <1>1, FreshBlock DEF PoolInit
  <1>3. LargeOK(<<>>, {}, {}) /\ CallbacksOK(<<>>, {})
    BY NothingNoted
  <1> QED
    BY <1>2, <1>3 DEF PoolInit, PoolInv

LEMMA BecomesIs ==
    ASSUME NEW p \in PoolRec, Becomes(p)
    PROVE  pool' = p /\ live' = p.live
  <1>1. pool' = [blocks |-> p.blocks, current |-> p.current, memory |-> p.memory, live |-> p.live]
    BY DEF Becomes, pool
  <1> QED
    BY <1>1 DEF Becomes, PoolRec

(* What alloc_small does to the pool, by the steps that call it. *)
LEMMA AllocKeeps ==
    ASSUME MPoolAssumption, NEW p, NEW over \in BOOLEAN, ChainOK(p, over),
           NEW n \in Nat, NEW align \in BOOLEAN, NEW ok \in BOOLEAN
    PROVE  LET r == alloc_small(p, n, align, ok)
           IN  /\ r.pool \in PoolRec /\ p.live \subseteq r.pool.live
               /\ r.at # Nil => r.at \in Region /\ r.at \in r.pool.live
               /\ n <= max => ChainOK(r.pool, over)
               /\ ChainOK(r.pool, over \/ (r.at # Nil /\ r.at.to > psize))
  <1> DEFINE r == alloc_small(p, n, align, ok)
  <1>1. Keeps(p, n, r)
    BY SmallKeeps DEF ChainOK
  <1> HIDE DEF r
  <1>2. ~over => Tidy(p)
    BY DEF ChainOK
  <1>3. r.at = Nil \/ r.at.to \in Nat
    BY <1>1 DEF Keeps, Region
  <1>4. psize \in Nat
    BY DEF MPoolAssumption
  <1>5. n <= max => ChainOK(r.pool, over)
    BY <1>1, <1>2 DEF Keeps, ChainOK
  <1>6. ~(r.at # Nil /\ r.at.to > psize) => r.at = Nil \/ r.at.to <= psize
    BY <1>3, <1>4
  <1>7. ChainOK(r.pool, over \/ (r.at # Nil /\ r.at.to > psize))
    BY <1>1, <1>2, <1>6 DEF Keeps, ChainOK
  <1> QED
    BY <1>1, <1>5, <1>7 DEF Keeps, r, Linked

LEMMA PoolInvStep ==
    ASSUME MPoolAssumption, PoolInv, [PoolNext]_poolVars
    PROVE  PoolInv'
  <1>1. /\ ChainOK(pool, overrun) /\ overrun \in BOOLEAN
        /\ LargeOK(large, malloced, live) /\ CallbacksOK(free_list, live)
        /\ pool.live = live /\ pool.blocks = blocks /\ pool.memory = memory
    BY DEF PoolInv, pool
  <1>2. /\ Size \subseteq Nat /\ max \in Nat /\ node \in Nat /\ node <= max
        /\ Nil \notin Region
    BY DEF MPoolAssumption, Region
  <1>3. SUFFICES /\ ChainOK(pool', overrun') /\ overrun' \in BOOLEAN
                 /\ LargeOK(large', malloced', live') /\ CallbacksOK(free_list', live')
    BY DEF PoolInv
  <1> HIDE DEF pool
  <1>4. ASSUME NEW n \in Size, NEW align \in BOOLEAN, AllocSmall(n, align)
        PROVE  /\ ChainOK(pool', overrun') /\ overrun' \in BOOLEAN
               /\ LargeOK(large', malloced', live') /\ CallbacksOK(free_list', live')
    <2> DEFINE room == IF n = 0 THEN 1 ELSE n
    <2>1. room \in Nat /\ room <= max
      BY <1>2, <1>4 DEF AllocSmall
    <2>2. PICK ok \in BOOLEAN : Becomes(alloc_small(pool, room, align, ok).pool)
      BY <1>4 DEF AllocSmall
    <2>3. UNCHANGED <<large, free_list, malloced, overrun>>
      BY <1>4 DEF AllocSmall
    <2> HIDE DEF room
    <2> DEFINE r == alloc_small(pool, room, align, ok)
    <2>4. r.pool \in PoolRec /\ pool.live \subseteq r.pool.live /\ ChainOK(r.pool, overrun)
      BY <1>1, <2>1, AllocKeeps
    <2>5. pool' = r.pool /\ live' = r.pool.live
      BY <2>2, <2>4, BecomesIs
    <2> HIDE DEF r
    <2> QED
      BY <1>1, <2>3, <2>4, <2>5, ListsMore
  <1>5. ASSUME NEW n \in Size, AllocLarge(n)
        PROVE  /\ ChainOK(pool', overrun') /\ overrun' \in BOOLEAN
               /\ LargeOK(large', malloced', live') /\ CallbacksOK(free_list', live')
    <2>1. PICK p \in Large \ malloced, ok \in BOOLEAN :
             LET lg == alloc_small(pool, node, TRUE, ok) IN
             /\ Becomes(lg.pool)
             /\ IF lg.at = Nil
                THEN UNCHANGED <<large, malloced>>
                ELSE /\ large' = <<[alloc |-> p, at |-> lg.at]>> \o large
                     /\ malloced' = malloced \cup {p}
      BY <1>5 DEF AllocLarge
    <2>2. UNCHANGED <<free_list, overrun>>
      BY <1>5 DEF AllocLarge
    <2> DEFINE r == alloc_small(pool, node, TRUE, ok)
    <2>3. /\ r.pool \in PoolRec /\ pool.live \subseteq r.pool.live /\ ChainOK(r.pool, overrun)
          /\ r.at # Nil => r.at \in Region /\ r.at \in r.pool.live
      BY <1>1, <1>2, AllocKeeps
    <2>4. pool' = r.pool /\ live' = r.pool.live
      BY <2>1, <2>3, BecomesIs
    <2>5. r.at = Nil \/ (large' = <<[alloc |-> p, at |-> r.at]>> \o large /\ malloced' = malloced \cup {p})
      BY <2>1
    <2>6. r.at = Nil => UNCHANGED <<large, malloced>>
      BY <2>1
    <2> HIDE DEF r
    <2>7. LargeOK(large, malloced, live') /\ CallbacksOK(free_list, live')
      BY <1>1, <2>3, <2>4, ListsMore
    <2>8. LargeOK(large', malloced', live')
      <3>1. CASE r.at = Nil
        BY <2>6, <2>7, <3>1
      <3>2. CASE r.at # Nil
        <4>1. r.at \in Region /\ r.at \in live'
          BY <2>3, <2>4, <3>2
        <4>2. LargeOK(<<[alloc |-> p, at |-> r.at]>> \o large, malloced \cup {p}, live')
          BY <2>7, <4>1, LargeNoted
        <4> QED
          BY <2>5, <3>2, <4>2
      <3> QED
        BY <3>1, <3>2
    <2> QED
      BY <1>1, <2>2, <2>3, <2>4, <2>7, <2>8
  <1>6. ASSUME NEW n \in Size, mpool_cleanup_add(n)
        PROVE  /\ ChainOK(pool', overrun') /\ overrun' \in BOOLEAN
               /\ LargeOK(large', malloced', live') /\ CallbacksOK(free_list', live')
    <2>1. PICK ok1 \in BOOLEAN, ok2 \in BOOLEAN :
            LET data == IF n = 0 THEN [pool |-> pool, at |-> Nil]
                        ELSE alloc_small(pool, n, TRUE, ok1)
                c == alloc_small(data.pool, node, TRUE, ok2)
            IN /\ IF n > 0 /\ data.at = Nil
                  THEN UNCHANGED <<blocks, current, memory, live, free_list>>
                  ELSE /\ Becomes(c.pool)
                       /\ free_list' = IF c.at = Nil THEN free_list
                                       ELSE <<[at |-> c.at, data |-> data.at]>> \o free_list
               /\ overrun' = (overrun \/ (data.at # Nil /\ data.at.to > psize))
               /\ UNCHANGED <<large, malloced>>
      BY <1>6 DEF mpool_cleanup_add
    <2> DEFINE data == IF n = 0 THEN [pool |-> pool, at |-> Nil]
                       ELSE alloc_small(pool, n, TRUE, ok1)
               c == alloc_small(data.pool, node, TRUE, ok2)
               over == overrun \/ (data.at # Nil /\ data.at.to > psize)
    <2>2. /\ pool.live \subseteq data.pool.live /\ ChainOK(data.pool, over) /\ over \in BOOLEAN
          /\ data.at # Nil => data.at \in Region /\ data.at \in data.pool.live
      <3>1. CASE n = 0
        BY <1>1, <3>1
      <3>2. CASE n # 0
        BY <1>1, <1>2, <3>2, AllocKeeps
      <3> QED
        BY <3>1, <3>2
    <2>3. overrun' = over /\ UNCHANGED <<large, malloced>>
      BY <2>1
    <2>4. CASE n > 0 /\ data.at = Nil
      <3>1. UNCHANGED <<blocks, current, memory, live, free_list>> /\ over = overrun
        BY <1>1, <2>1, <2>4
      <3> QED
        BY <1>1, <2>3, <3>1 DEF pool
    <2>5. CASE ~(n > 0 /\ data.at = Nil)
      <3>1. /\ Becomes(c.pool)
            /\ free_list' = IF c.at = Nil THEN free_list
                            ELSE <<[at |-> c.at, data |-> data.at]>> \o free_list
        BY <2>1, <2>5
      <3> DEFINE p == data.pool
      <3>2. /\ c.pool \in PoolRec /\ p.live \subseteq c.pool.live /\ ChainOK(c.pool, over)
            /\ c.at # Nil => c.at \in Region /\ c.at \in c.pool.live
        <4> HIDE DEF data, over
        <4> QED
          BY <1>2, <2>2, AllocKeeps
      <3>3. pool' = c.pool /\ live' = c.pool.live
        BY <3>1, <3>2, BecomesIs
      <3> DEFINE d == data.at
                 e == [at |-> c.at, data |-> d]
      <3> HIDE DEF c, over, data
      <3>4. LargeOK(large, malloced, live') /\ CallbacksOK(free_list, live')
        BY <1>1, <2>2, <3>2, <3>3, ListsMore
      <3>5. CASE c.at # Nil
        <4>1. e \in Callback /\ e.at \in live' /\ e.data \in live' \cup {Nil}
          BY <2>2, <3>2, <3>3, <3>5 DEF Callback
        <4>2. free_list' = <<e>> \o free_list
          BY <3>1, <3>5
        <4> HIDE DEF e
        <4>3. CallbacksOK(free_list', live')
          BY <3>4, <4>1, <4>2, CallbackAdded
        <4> QED
          BY <2>2, <2>3, <3>2, <3>3, <3>4, <4>3
      <3>6. CASE c.at = Nil
        BY <2>2, <2>3, <3>1, <3>2, <3>3, <3>4, <3>6
      <3> QED
        BY <3>5, <3>6
    <2> QED
      BY <2>4, <2>5
  <1>7. ASSUME NEW p \in Large, mpool_pfree(p)
        PROVE  /\ ChainOK(pool', overrun') /\ overrun' \in BOOLEAN
               /\ LargeOK(large', malloced', live') /\ CallbacksOK(free_list', live')
    <2> DEFINE I == {i \in 1..Len(large) : large[i].alloc = p}
               k == SelectInSeq(large, LAMBDA lg : lg.alloc = p)
    <2>1. k = IF I # {} THEN Min(I) ELSE 0
      BY DEF SelectInSeq
    <2>2. /\ k # 0 /\ large' = RemoveAt(large, k) /\ malloced' = malloced \ {p}
          /\ UNCHANGED <<blocks, current, free_list, memory, live, overrun>>
      BY <1>7 DEF mpool_pfree
    <2>3. I \in SUBSET Nat
      OBVIOUS
    <2> HIDE DEF k
    <2>4. k \in I
      <3> HIDE DEF I
      <3> QED
        BY <2>1, <2>2, <2>3, SmallestIsIn
    <2>5. LargeOK(large', malloced', live)
      BY <1>1, <2>2, <2>4, LargeTakenOff
    <2>6. pool' = pool
      BY <2>2 DEF pool
    <2> QED
      BY <1>1, <2>2, <2>5, <2>6
  <1>8. CASE mpool_run_cleanup
    <2>1. /\ free_list' = <<>>
          /\ UNCHANGED <<blocks, current, large, memory, malloced, live, overrun>>
      BY <1>8 DEF mpool_run_cleanup, run_cleanup_unlocked
    <2>2. pool' = pool
      BY <2>1 DEF pool
    <2> QED
      BY <1>1, <2>1, <2>2, NothingNoted
  <1>9. malloced \ {large[i].alloc : i \in DOMAIN large} = {}
    BY <1>1 DEF LargeOK
  <1>10. /\ blocks \in Seq(Nat) /\ Len(blocks) \in Nat \ {0} /\ memory = Len(blocks)
         /\ Up(header) \in Nat
    <2>1. Linked(pool)
      BY <1>1 DEF ChainOK
    <2>2. blocks \in Seq(Nat) /\ memory = Len(blocks) /\ 1..Len(blocks) # {}
      BY <1>1, <2>1 DEF Linked, PoolRec
    <2> QED
      BY <2>2, Aligned, LenProperties DEF MPoolAssumption
  <1>11. CASE mpool_reset
    <2>1. /\ free_list' = <<>> /\ large' = <<>> /\ malloced' = {}
          /\ blocks' = [b \in DOMAIN blocks |-> Up(header)] /\ current' = 1 /\ live' = {}
          /\ memory' = memory /\ overrun' = overrun
      BY <1>9, <1>11 DEF mpool_reset, run_cleanup_unlocked
    <2>2. /\ blocks' \in Seq(Nat) /\ Len(blocks') = Len(blocks)
          /\ \A b \in 1..Len(blocks) : blocks'[b] = Up(header)
      <3>1. DOMAIN blocks = 1..Len(blocks)
        BY <1>10, LenProperties
      <3>2. blocks' \in [1..Len(blocks) -> Nat]
        BY <1>10, <2>1, <3>1
      <3> QED
        BY <1>10, <2>1, <3>1, <3>2
    <2>3. pool' = [blocks |-> blocks', current |-> 1, memory |-> Len(blocks'), live |-> {}]
      BY <1>10, <2>1, <2>2 DEF pool
    <2>4. ChainOK(pool', overrun')
      BY <1>1, <1>10, <2>1, <2>2, <2>3, EmptyChain
    <2> QED
      BY <1>1, <2>1, <2>4, NothingNoted
  <1>12. CASE mpool_destroy
    <2>1. /\ free_list' = <<>> /\ large' = <<>> /\ malloced' = {}
          /\ blocks' = <<Up(header)>> /\ current' = 1 /\ live' = {}
          /\ memory' = memory - Len(blocks) + 1 /\ overrun' = overrun
      BY <1>9, <1>12 DEF mpool_destroy, run_cleanup_unlocked
    <2>2. memory' = 1
      BY <1>10, <2>1
    <2>3. pool' = [blocks |-> <<Up(header)>>, current |-> 1, memory |-> 1, live |-> {}]
      BY <2>1, <2>2 DEF pool
    <2>4. ChainOK(pool', overrun')
      BY <1>1, <2>1, <2>3, FreshBlock
    <2> QED
      BY <1>1, <2>1, <2>4, NothingNoted
  <1>13. CASE UNCHANGED poolVars
    BY <1>1, <1>13 DEF poolVars, pool
  <1> QED
    BY <1>4, <1>5, <1>6, <1>7, <1>8, <1>11, <1>12, <1>13 DEF PoolNext

(* The memory pool's invariant holds in every reachable state, whatever the sizes *)
(* callers ask for and whenever posix_memalign or malloc fail (mpool.c).          *)
THEOREM PoolInductive == ASSUME MPoolAssumption PROVE PoolSpec => []PoolInv
  <1>1. PoolInit => PoolInv
    BY InitPoolInv
  <1>2. PoolInv /\ [PoolNext]_poolVars => PoolInv'
    BY PoolInvStep
  <1> QED
    BY <1>1, <1>2, PTL DEF PoolSpec

(* Allocations lie in their blocks and do not overlap, unless a cleanup's data was *)
(* larger than a block; the lists run through memory of the pool that no reset has *)
(* taken back and lead to all it owns (mpool.c).                                   *)
THEOREM PoolIsSound == ASSUME MPoolAssumption PROVE PoolSpec => [](PoolTypeOK /\ PoolSound)
  BY PoolInductive, InvIsEnough, PTL
--------------------------------------------------------------------------------
(* The table's buckets.  First and LookUp are Find and ValueOf of one bucket.  *)
First(s, k) == SelectInSeq(s, LAMBDA e : e.key = k)
LookUp(s, k) == IF First(s, k) = 0 THEN NULL ELSE s[First(s, k)].value
HasKey(s, k) == \E i \in 1..Len(s) : s[i].key = k
Unique(s) == \A i, j \in 1..Len(s) : s[i].key = s[j].key => i = j

(* A caller that stores NULL cannot tell the entry from none. *)
ValuesAssumption == TableAssumption /\ NULL \notin Value

LEMMA LookUpIs ==
    ASSUME ValuesAssumption, NEW s \in Seq(Entry), Unique(s), NEW k
    PROVE  /\ \A i \in 1..Len(s) : s[i].key = k => First(s, k) = i /\ LookUp(s, k) = s[i].value
           /\ ~HasKey(s, k) => First(s, k) = 0 /\ LookUp(s, k) = NULL
           /\ LookUp(s, k) \in Value \cup {NULL}
           /\ LookUp(s, k) = NULL <=> ~HasKey(s, k)
  <1> DEFINE I == {i \in 1..Len(s) : s[i].key = k}
  <1>1. First(s, k) = IF I # {} THEN Min(I) ELSE 0
    BY DEF First, SelectInSeq
  <1>2. Len(s) \in Nat /\ I \in SUBSET Nat /\ I \subseteq 1..Len(s)
    OBVIOUS
  <1>3. \A i \in 1..Len(s) : i \in I <=> s[i].key = k
    OBVIOUS
  <1>4. \A i \in 1..Len(s) : s[i].value \in Value
    <2>1. \A i \in 1..Len(s) : s[i] \in Entry
      BY QueuePlaces
    <2> QED
      BY <2>1 DEF Entry
  <1> HIDE DEF I
  <1>5. ASSUME NEW i \in 1..Len(s), s[i].key = k
        PROVE  First(s, k) = i /\ LookUp(s, k) = s[i].value
    <2>1. I # {} /\ i \in I
      BY <1>3, <1>5
    <2>2. Min(I) \in I
      BY <1>2, <2>1, SmallestIsIn
    <2>3. Min(I) = i
      BY <1>2, <1>3, <1>5, <2>2 DEF Unique
    <2>4. First(s, k) = i /\ i # 0
      BY <1>1, <1>2, <2>1, <2>3
    <2> QED
      BY <2>4 DEF LookUp
  <1>6. ASSUME ~HasKey(s, k) PROVE First(s, k) = 0 /\ LookUp(s, k) = NULL
    <2>1. I = {}
      BY <1>2, <1>3, <1>6 DEF HasKey
    <2> QED
      BY <1>1, <2>1 DEF LookUp
  <1>7. CASE HasKey(s, k)
    <2>1. PICK i \in 1..Len(s) : s[i].key = k
      BY <1>7 DEF HasKey
    <2>2. LookUp(s, k) \in Value
      BY <1>4, <1>5, <2>1
    <2> QED
      BY <1>5, <1>6, <1>7, <2>2 DEF ValuesAssumption
  <1>8. CASE ~HasKey(s, k)
    BY <1>5, <1>6, <1>8 DEF HasKey
  <1> QED
    BY <1>7, <1>8

LEMMA EntryAdded ==
    ASSUME ValuesAssumption, NEW s \in Seq(Entry), Unique(s),
           NEW k \in Key, NEW v \in Value, ~HasKey(s, k)
    PROVE  LET r == <<[key |-> k, value |-> v]>> \o s
           IN  /\ r \in Seq(Entry) /\ Unique(r) /\ Len(r) = Len(s) + 1 /\ Len(s) \in Nat
               /\ \A c : HasKey(r, c) <=> HasKey(s, c) \/ c = k
               /\ LookUp(r, k) = v
               /\ \A c : c # k => LookUp(r, c) = LookUp(s, c)
  <1> DEFINE e == [key |-> k, value |-> v]
             r == <<e>> \o s
  <1>1. e \in Entry /\ e.key = k /\ e.value = v
    BY DEF Entry
  <1> HIDE DEF e
  <1>2. /\ r \in Seq(Entry) /\ Len(s) \in Nat /\ Len(r) = Len(s) + 1 /\ r[1] = e
        /\ \A i \in 1..Len(s) : r[i + 1] = s[i]
    BY <1>1, ConsContains
  <1> HIDE DEF r
  <1>3. \A i \in 1..Len(r) : i = 1 \/ (i - 1 \in 1..Len(s) /\ r[i] = s[i - 1])
    <2> SUFFICES ASSUME NEW i \in 1..Len(r), i # 1 PROVE i - 1 \in 1..Len(s) /\ r[i] = s[i - 1]
      OBVIOUS
    <2>1. i - 1 \in 1..Len(s) /\ (i - 1) + 1 = i
      BY <1>2
    <2> QED
      BY <1>2, <2>1
  <1>4. 1 \in 1..Len(r) /\ \A i \in 1..Len(s) : i + 1 \in 1..Len(r) /\ s[i].key # k
    BY <1>2 DEF HasKey
  <1>5. Unique(r)
    <2> SUFFICES ASSUME NEW i \in 1..Len(r), NEW j \in 1..Len(r), r[i].key = r[j].key PROVE i = j
      BY DEF Unique
    <2>1. CASE i = 1 /\ j = 1
      BY <2>1
    <2>2. CASE i = 1 /\ j # 1
      BY <1>1, <1>2, <1>3, <1>4, <2>2
    <2>3. CASE i # 1 /\ j = 1
      BY <1>1, <1>2, <1>3, <1>4, <2>3
    <2>4. CASE i # 1 /\ j # 1
      <3>1. /\ i - 1 \in 1..Len(s) /\ j - 1 \in 1..Len(s)
            /\ s[i - 1].key = s[j - 1].key
        BY <1>3, <2>4
      <3>2. i - 1 = j - 1
        BY <3>1, Zenon DEF Unique
      <3> QED
        BY <1>2, <3>2
    <2> QED
      BY <2>1, <2>2, <2>3, <2>4
  <1>6. ASSUME NEW c PROVE HasKey(r, c) <=> HasKey(s, c) \/ c = k
    <2>1. ASSUME NEW i \in 1..Len(r), r[i].key = c PROVE HasKey(s, c) \/ c = k
      BY <1>1, <1>2, <1>3, <2>1 DEF HasKey
    <2>2. ASSUME NEW i \in 1..Len(s), s[i].key = c PROVE HasKey(r, c)
      BY <1>2, <1>4, <2>2 DEF HasKey
    <2>3. HasKey(r, k)
      BY <1>1, <1>2, <1>4 DEF HasKey
    <2> QED
      BY <2>1, <2>2, <2>3 DEF HasKey
  <1>7. LookUp(r, k) = v
    BY <1>1, <1>2, <1>4, <1>5, LookUpIs
  <1>8. ASSUME NEW c, c # k PROVE LookUp(r, c) = LookUp(s, c)
    <2>1. CASE HasKey(s, c)
      <3>1. PICK i \in 1..Len(s) : s[i].key = c
        BY <2>1 DEF HasKey
      <3>2. LookUp(s, c) = s[i].value
        BY <3>1, LookUpIs
      <3>3. i + 1 \in 1..Len(r) /\ r[i + 1] = s[i]
        BY <1>2, <1>4
      <3>4. LookUp(r, c) = r[i + 1].value
        BY <1>2, <1>5, <3>1, <3>3, LookUpIs
      <3> QED
        BY <3>2, <3>3, <3>4
    <2>2. CASE ~HasKey(s, c)
      BY <1>2, <1>5, <1>6, <1>8, <2>2, LookUpIs
    <2> QED
      BY <2>1, <2>2
  <1> QED
    BY <1>2, <1>5, <1>6, <1>7, <1>8 DEF r, e

LEMMA EntryUnlinked ==
    ASSUME ValuesAssumption, NEW s \in Seq(Entry), Unique(s), NEW n \in 1..Len(s)
    PROVE  LET r == RemoveAt(s, n)
               k == s[n].key
           IN  /\ r \in Seq(Entry) /\ Unique(r) /\ Len(r) = Len(s) - 1 /\ Len(s) \in Nat
               /\ \A c : HasKey(r, c) <=> HasKey(s, c) /\ c # k
               /\ LookUp(r, k) = NULL
               /\ \A c : c # k => LookUp(r, c) = LookUp(s, c)
  <1> DEFINE r == RemoveAt(s, n)
             k == s[n].key
  <1>1. /\ r \in Seq(Entry) /\ Len(r) = Len(s) - 1 /\ Len(s) \in Nat
        /\ \A i \in 1..n - 1 : i \in 1..Len(r) /\ r[i] = s[i]
        /\ \A i \in n + 1..Len(s) : i - 1 \in 1..Len(r) /\ r[i - 1] = s[i]
        /\ \A i \in 1..Len(r) : \/ i \in 1..n - 1 /\ r[i] = s[i]
                                \/ i + 1 \in n + 1..Len(s) /\ r[i] = s[i + 1]
    BY RemoveAtPlaces
  <1> HIDE DEF r
  <1>2. /\ \A i \in 1..n - 1 : i \in 1..Len(s) /\ i # n
        /\ \A i \in n + 1..Len(s) : i \in 1..Len(s) /\ i # n
        /\ \A i \in 1..Len(s) : i = n \/ i \in 1..n - 1 \/ i \in n + 1..Len(s)
    BY <1>1
  <1>3. \A i \in 1..Len(r) : \E j \in 1..Len(s) : j # n /\ r[i] = s[j]
    BY <1>1, <1>2
  <1>4. \A j \in 1..Len(s) : j # n => \E i \in 1..Len(r) : r[i] = s[j]
    BY <1>1, <1>2
  <1>5. \A i, j \in 1..Len(s) : s[i].key = s[j].key => i = j
    BY DEF Unique
  <1>6. Unique(r)
    <2> SUFFICES ASSUME NEW i \in 1..Len(r), NEW j \in 1..Len(r), r[i].key = r[j].key PROVE i = j
      BY DEF Unique
    <2>1. CASE i \in 1..n - 1 /\ j \in 1..n - 1
      BY <1>1, <1>2, <1>5, <2>1
    <2>2. CASE i \in 1..n - 1 /\ j + 1 \in n + 1..Len(s) /\ r[j] = s[j + 1]
      <3>1. i = j + 1
        BY <1>1, <1>2, <1>5, <2>2
      <3> QED
        BY <1>1, <2>2, <3>1
    <2>3. CASE j \in 1..n - 1 /\ i + 1 \in n + 1..Len(s) /\ r[i] = s[i + 1]
      <3>1. j = i + 1
        BY <1>1, <1>2, <1>5, <2>3
      <3> QED
        BY <1>1, <2>3, <3>1
    <2>4. CASE /\ i + 1 \in n + 1..Len(s) /\ r[i] = s[i + 1]
               /\ j + 1 \in n + 1..Len(s) /\ r[j] = s[j + 1]
      <3>1. i + 1 = j + 1
        BY <1>2, <1>5, <2>4
      <3> QED
        BY <1>1, <3>1
    <2> QED
      BY <1>1, <2>1, <2>2, <2>3, <2>4
  <1>7. ASSUME NEW c PROVE HasKey(r, c) <=> HasKey(s, c) /\ c # k
    <2>1. ASSUME NEW i \in 1..Len(r), r[i].key = c PROVE HasKey(s, c) /\ c # k
      <3>1. PICK j \in 1..Len(s) : j # n /\ r[i] = s[j]
        BY <1>3
      <3> QED
        BY <1>5, <2>1, <3>1 DEF HasKey
    <2>2. ASSUME NEW j \in 1..Len(s), s[j].key = c, c # k PROVE HasKey(r, c)
      <3>1. PICK i \in 1..Len(r) : r[i] = s[j]
        BY <1>4, <2>2
      <3> QED
        BY <2>2, <3>1 DEF HasKey
    <2> QED
      BY <2>1, <2>2 DEF HasKey
  <1>8. LookUp(r, k) = NULL
    BY <1>1, <1>6, <1>7, LookUpIs
  <1>9. ASSUME NEW c, c # k PROVE LookUp(r, c) = LookUp(s, c)
    <2>1. CASE HasKey(s, c)
      <3>1. PICK j \in 1..Len(s) : s[j].key = c
        BY <2>1 DEF HasKey
      <3>2. PICK i \in 1..Len(r) : r[i] = s[j]
        BY <1>4, <1>9, <3>1
      <3>3. LookUp(s, c) = s[j].value
        BY <3>1, LookUpIs
      <3>4. LookUp(r, c) = r[i].value
        BY <1>1, <1>6, <3>1, <3>2, LookUpIs
      <3> QED
        BY <3>2, <3>3, <3>4
    <2>2. CASE ~HasKey(s, c)
      BY <1>1, <1>6, <1>7, <2>2, LookUpIs
    <2> QED
      BY <2>1, <2>2
  <1> QED
    BY <1>1, <1>6, <1>7, <1>8, <1>9 DEF r

LEMMA ValuesReplaced ==
    ASSUME ValuesAssumption, NEW s \in Seq(Entry), Unique(s), NEW new \in [DOMAIN s -> Value]
    PROVE  LET r == [i \in DOMAIN s |-> [s[i] EXCEPT !.value = new[i]]]
           IN  /\ r \in Seq(Entry) /\ Unique(r) /\ DOMAIN r = DOMAIN s
               /\ \A i \in 1..Len(r) : r[i].key = s[i].key
               /\ \A c : HasKey(r, c) <=> HasKey(s, c)
  <1> DEFINE r == [i \in DOMAIN s |-> [s[i] EXCEPT !.value = new[i]]]
  <1>1. DOMAIN s = 1..Len(s) /\ Len(s) \in Nat
    BY LenProperties
  <1>2. ASSUME NEW i \in 1..Len(s) PROVE r[i] \in Entry /\ r[i].key = s[i].key
    <2>1. s[i] \in Entry /\ new[i] \in Value /\ r[i] = [s[i] EXCEPT !.value = new[i]]
      BY <1>1, QueuePlaces
    <2> QED
      BY <2>1 DEF Entry
  <1>3. r \in [1..Len(s) -> Entry]
    BY <1>1, <1>2
  <1> HIDE DEF r
  <1>4. r \in Seq(Entry) /\ Len(r) = Len(s) /\ DOMAIN r = 1..Len(s)
    BY <1>1, <1>3
  <1>5. Unique(r) /\ \A c : HasKey(r, c) <=> HasKey(s, c)
    BY <1>2, <1>4 DEF Unique, HasKey
  <1> QED
    BY <1>1, <1>2, <1>4, <1>5 DEF r
(* Entries in the buckets of their keys, once; and how many there are. *)
WellKept(f) == \A b \in Bucket : Unique(f[b]) /\ \A c : HasKey(f[b], c) => Hash[c] = b
PlacesIn(f) == UNION {{b} \X DOMAIN f[b] : b \in Bucket}

LEMMA KeptIs ==
    ASSUME NEW f
    PROVE  WellKept(f) <=> \A b \in Bucket : \A i, j \in 1..Len(f[b]) :
                               /\ Hash[f[b][i].key] = b
                               /\ f[b][i].key = f[b][j].key => i = j
  BY DEF WellKept, Unique, HasKey

LEMMA OnePlaceMore ==
    ASSUME NEW f \in [Bucket -> Seq(Entry)], NEW g \in [Bucket -> Seq(Entry)],
           NEW b \in Bucket, Len(g[b]) = Len(f[b]) + 1,
           \A c \in Bucket : c # b => g[c] = f[c], IsFiniteSet(PlacesIn(f))
    PROVE  IsFiniteSet(PlacesIn(g)) /\ Cardinality(PlacesIn(g)) = Cardinality(PlacesIn(f)) + 1
  <1> DEFINE e == <<b, Len(f[b]) + 1>>
  <1>1. /\ Len(f[b]) \in Nat
        /\ \A c \in Bucket : DOMAIN f[c] = 1..Len(f[c]) /\ DOMAIN g[c] = 1..Len(g[c])
    BY LenProperties
  <1>2. ASSUME NEW x PROVE x \in PlacesIn(g) <=> x \in PlacesIn(f) \/ x = e
    <2>1. \A y : y \in DOMAIN g[b] <=> y \in DOMAIN f[b] \/ y = Len(f[b]) + 1
      BY <1>1
    <2>2. \A c \in Bucket : c # b => DOMAIN g[c] = DOMAIN f[c]
      OBVIOUS
    <2>3. /\ x \in PlacesIn(g) <=> \E c \in Bucket : \E i \in DOMAIN g[c] : x = <<c, i>>
          /\ x \in PlacesIn(f) <=> \E c \in Bucket : \E i \in DOMAIN f[c] : x = <<c, i>>
      BY DEF PlacesIn
    <2> QED
      BY <2>1, <2>2, <2>3
  <1>3. PlacesIn(g) = PlacesIn(f) \cup {e}
    <2> HIDE DEF e
    <2> QED
      BY <1>2
  <1>4. e \notin PlacesIn(f)
    <2>1. Len(f[b]) + 1 \notin DOMAIN f[b]
      BY <1>1
    <2> QED
      BY <2>1 DEF PlacesIn
  <1> HIDE DEF e
  <1> QED
    BY <1>3, <1>4, FS_AddElement

LEMMA OnePlaceLess ==
    ASSUME NEW f \in [Bucket -> Seq(Entry)], NEW g \in [Bucket -> Seq(Entry)],
           NEW b \in Bucket, Len(f[b]) = Len(g[b]) + 1,
           \A c \in Bucket : c # b => g[c] = f[c], IsFiniteSet(PlacesIn(f))
    PROVE  IsFiniteSet(PlacesIn(g)) /\ Cardinality(PlacesIn(g)) = Cardinality(PlacesIn(f)) - 1
  <1>1. PlacesIn(g) \subseteq PlacesIn(f)
    <2>1. \A c \in Bucket : DOMAIN f[c] = 1..Len(f[c]) /\ DOMAIN g[c] = 1..Len(g[c]) /\ Len(g[c]) \in Nat
      BY LenProperties
    <2>2. ASSUME NEW c \in Bucket PROVE DOMAIN g[c] \subseteq DOMAIN f[c]
      <3>1. CASE c = b
        BY <2>1, <3>1
      <3>2. CASE c # b
        BY <3>2
      <3> QED
        BY <3>1, <3>2
    <2> QED
      BY <2>2 DEF PlacesIn
  <1>2. IsFiniteSet(PlacesIn(g))
    BY <1>1, FS_Subset
  <1>3. \A c \in Bucket : c # b => f[c] = g[c]
    OBVIOUS
  <1>4. Cardinality(PlacesIn(f)) = Cardinality(PlacesIn(g)) + 1
    BY <1>2, <1>3, OnePlaceMore
  <1>5. Cardinality(PlacesIn(g)) \in Nat
    BY <1>2, FS_CardinalityType
  <1> QED
    BY <1>2, <1>4, <1>5

(* What is known of a state, in terms of its buckets. *)
LEMMA BucketsKept ==
    ASSUME ValuesAssumption, TableInv
    PROVE  /\ entrys \in [Bucket -> Seq(Entry)] /\ WellKept(entrys)
           /\ \A k \in Key : /\ Hash[k] \in Bucket /\ ValueOf(k) = LookUp(entrys[Hash[k]], k)
                             /\ Find(k) = First(entrys[Hash[k]], k)
                             /\ ValueOf(k)' = LookUp(entrys'[Hash[k]], k)
  <1>1. entrys \in [Bucket -> Seq(Entry)]
    BY DEF TableInv, TableTypeOK
  <1>2. WellKept(entrys)
    BY KeptIs DEF TableInv, OneEntry
  <1>3. ASSUME NEW k \in Key PROVE /\ Hash[k] \in Bucket /\ ValueOf(k) = LookUp(entrys[Hash[k]], k)
                                   /\ Find(k) = First(entrys[Hash[k]], k)
                                   /\ ValueOf(k)' = LookUp(entrys'[Hash[k]], k)
    <2>1. Hash[k] \in Bucket
      BY DEF ValuesAssumption, TableAssumption, Bucket
    <2>2. Find(k) = First(entrys[Hash[k]], k) /\ Find(k)' = First(entrys'[Hash[k]], k)
      BY DEF Find, First, SelectInSeq
    <2>3. ValueOf(k) = LookUp(entrys[Hash[k]], k) /\ ValueOf(k)' = LookUp(entrys'[Hash[k]], k)
      BY <2>2 DEF ValueOf, LookUp
    <2> QED
      BY <2>1, <2>2, <2>3
  <1> QED
    BY <1>1, <1>2, <1>3
(* What the three calls that change buckets do to them, and to what is found. *)
LEMMA PutChanges ==
    ASSUME ValuesAssumption, TableInv, NEW t \in Thread, NEW k \in Key, NEW v \in Value,
           table_put(t, k, v), ValueOf(k) = NULL
    PROVE  /\ entrys' \in [Bucket -> Seq(Entry)] /\ WellKept(entrys')
           /\ IsFiniteSet(PlacesIn(entrys'))
           /\ Cardinality(PlacesIn(entrys')) = Cardinality(PlacesIn(entrys)) + 1
           /\ \A c \in Key : ValueOf(c)' = IF c = k THEN v ELSE ValueOf(c)
  <1> DEFINE b == Hash[k]
             s == entrys[b]
             r == <<[key |-> k, value |-> v]>> \o s
  <1>1. /\ entrys \in [Bucket -> Seq(Entry)] /\ WellKept(entrys) /\ b \in Bucket
        /\ ValueOf(k) = LookUp(s, k) /\ s \in Seq(Entry) /\ Unique(s)
        /\ \A c : HasKey(s, c) => Hash[c] = b
    BY BucketsKept DEF WellKept
  <1>2. /\ entrys' = [entrys EXCEPT ![b] = r] /\ ~HasKey(s, k)
    BY <1>1, LookUpIs DEF table_put
  <1>3. /\ r \in Seq(Entry) /\ Unique(r) /\ Len(r) = Len(s) + 1
        /\ \A c : HasKey(r, c) <=> HasKey(s, c) \/ c = k
        /\ LookUp(r, k) = v
        /\ \A c : c # k => LookUp(r, c) = LookUp(s, c)
    BY <1>1, <1>2, EntryAdded
  <1> HIDE DEF r, s
  <1>4. entrys' \in [Bucket -> Seq(Entry)] /\ \A c \in Bucket : entrys'[c] = IF c = b THEN r ELSE entrys[c]
    BY <1>1, <1>2, <1>3
  <1>5. WellKept(entrys')
    BY <1>1, <1>3, <1>4 DEF WellKept, b
  <1>6. ASSUME NEW c \in Key PROVE ValueOf(c)' = IF c = k THEN v ELSE ValueOf(c)
    <2>1. /\ Hash[c] \in Bucket /\ ValueOf(c) = LookUp(entrys[Hash[c]], c)
          /\ ValueOf(c)' = LookUp(entrys'[Hash[c]], c)
      BY BucketsKept
    <2>2. CASE Hash[c] = b
      BY <1>3, <1>4, <2>1, <2>2 DEF s
    <2>3. CASE Hash[c] # b
      BY <1>4, <2>1, <2>3 DEF b
    <2> QED
      BY <2>2, <2>3
  <1>7. /\ IsFiniteSet(PlacesIn(entrys'))
        /\ Cardinality(PlacesIn(entrys')) = Cardinality(PlacesIn(entrys)) + 1
    <2>1. IsFiniteSet(PlacesIn(entrys))
      BY DEF TableInv, EntryPlaces, PlacesIn
    <2>2. Len(entrys'[b]) = Len(entrys[b]) + 1 /\ \A c \in Bucket : c # b => entrys'[c] = entrys[c]
      BY <1>1, <1>3, <1>4 DEF s
    <2> HIDE DEF b
    <2> QED
      BY <1>1, <1>4, <2>1, <2>2, OnePlaceMore
  <1> QED
    BY <1>4, <1>5, <1>6, <1>7

LEMMA RemoveChanges ==
    ASSUME ValuesAssumption, TableInv, NEW t \in Thread, NEW k \in Key,
           table_remove(t, k), Find(k) # 0
    PROVE  /\ entrys' \in [Bucket -> Seq(Entry)] /\ WellKept(entrys')
           /\ IsFiniteSet(PlacesIn(entrys'))
           /\ Cardinality(PlacesIn(entrys')) = Cardinality(PlacesIn(entrys)) - 1
           /\ \A c \in Key : ValueOf(c)' = IF c = k THEN NULL ELSE ValueOf(c)
  <1> DEFINE b == Hash[k]
             s == entrys[b]
  <1>1. /\ entrys \in [Bucket -> Seq(Entry)] /\ WellKept(entrys) /\ b \in Bucket
        /\ Find(k) = First(s, k) /\ s \in Seq(Entry) /\ Unique(s)
        /\ \A c : HasKey(s, c) => Hash[c] = b
    BY BucketsKept DEF WellKept
  <1>2. PICK n \in 1..Len(s) : s[n].key = k
    BY <1>1, LookUpIs DEF HasKey
  <1> DEFINE r == RemoveAt(s, n)
  <1>3. entrys' = [entrys EXCEPT ![b] = r]
    <2>1. Find(k) = n
      BY <1>1, <1>2, LookUpIs
    <2> QED
      BY <2>1 DEF table_remove
  <1>4. /\ r \in Seq(Entry) /\ Unique(r) /\ Len(s) = Len(r) + 1
        /\ \A c : HasKey(r, c) <=> HasKey(s, c) /\ c # k
        /\ LookUp(r, k) = NULL
        /\ \A c : c # k => LookUp(r, c) = LookUp(s, c)
    <2>1. /\ r \in Seq(Entry) /\ Unique(r) /\ Len(r) = Len(s) - 1 /\ Len(s) \in Nat
          /\ \A c : HasKey(r, c) <=> HasKey(s, c) /\ c # k
          /\ LookUp(r, k) = NULL
          /\ \A c : c # k => LookUp(r, c) = LookUp(s, c)
      BY <1>1, <1>2, EntryUnlinked
    <2>2. Len(s) = Len(r) + 1
      BY <2>1
    <2> QED
      BY <2>1, <2>2
  <1> HIDE DEF r, s
  <1>5. entrys' \in [Bucket -> Seq(Entry)] /\ \A c \in Bucket : entrys'[c] = IF c = b THEN r ELSE entrys[c]
    BY <1>1, <1>3, <1>4
  <1>6. WellKept(entrys')
    BY <1>1, <1>4, <1>5 DEF WellKept, b
  <1>7. ASSUME NEW c \in Key PROVE ValueOf(c)' = IF c = k THEN NULL ELSE ValueOf(c)
    <2>1. /\ Hash[c] \in Bucket /\ ValueOf(c) = LookUp(entrys[Hash[c]], c)
          /\ ValueOf(c)' = LookUp(entrys'[Hash[c]], c)
      BY BucketsKept
    <2>2. CASE Hash[c] = b
      BY <1>4, <1>5, <2>1, <2>2 DEF s
    <2>3. CASE Hash[c] # b
      BY <1>5, <2>1, <2>3 DEF b
    <2> QED
      BY <2>2, <2>3
  <1>8. /\ IsFiniteSet(PlacesIn(entrys'))
        /\ Cardinality(PlacesIn(entrys')) = Cardinality(PlacesIn(entrys)) - 1
    <2>1. IsFiniteSet(PlacesIn(entrys))
      BY DEF TableInv, EntryPlaces, PlacesIn
    <2>2. Len(entrys[b]) = Len(entrys'[b]) + 1 /\ \A c \in Bucket : c # b => entrys'[c] = entrys[c]
      BY <1>1, <1>4, <1>5 DEF s
    <2> HIDE DEF b
    <2> QED
      BY <1>1, <1>5, <2>1, <2>2, OnePlaceLess
  <1> QED
    BY <1>5, <1>6, <1>7, <1>8

LEMMA MapChanges ==
    ASSUME ValuesAssumption, TableInv, NEW t \in Thread, MapBucket(t)
    PROVE  /\ entrys' \in [Bucket -> Seq(Entry)] /\ WellKept(entrys')
           /\ PlacesIn(entrys') = PlacesIn(entrys)
           /\ \A c \in Key : /\ ValueOf(c)' \in Value \cup {NULL}
                             /\ ValueOf(c)' = NULL <=> ValueOf(c) = NULL
  <1> DEFINE b == idx[t]
             s == entrys[b]
  <1>0. b \in Bucket
    BY DEF TableInv, TableTypeOK
  <1>1. /\ entrys \in [Bucket -> Seq(Entry)] /\ WellKept(entrys)
        /\ s \in Seq(Entry) /\ Unique(s)
    BY <1>0, BucketsKept DEF WellKept
  <1>2. PICK new \in [DOMAIN s -> Value] :
           entrys' = [entrys EXCEPT ![b] = [i \in DOMAIN s |-> [s[i] EXCEPT !.value = new[i]]]]
    BY <1>0, <1>1 DEF MapBucket
  <1> DEFINE r == [i \in DOMAIN s |-> [s[i] EXCEPT !.value = new[i]]]
  <1>3. /\ r \in Seq(Entry) /\ Unique(r) /\ DOMAIN r = DOMAIN s
        /\ \A c : HasKey(r, c) <=> HasKey(s, c)
    BY <1>1, ValuesReplaced
  <1>4. entrys' = [entrys EXCEPT ![b] = r]
    BY <1>2
  <1> HIDE DEF r, s, b
  <1>5. entrys' \in [Bucket -> Seq(Entry)] /\ \A c \in Bucket : entrys'[c] = IF c = b THEN r ELSE entrys[c]
    BY <1>0, <1>1, <1>3, <1>4
  <1>6. s = entrys[b]
    BY DEF s
  <1>7. WellKept(entrys')
    BY <1>1, <1>3, <1>5, <1>6 DEF WellKept
  <1>8. PlacesIn(entrys') = PlacesIn(entrys)
    <2>1. \A c \in Bucket : DOMAIN entrys'[c] = DOMAIN entrys[c]
      BY <1>3, <1>5, <1>6
    <2> QED
      BY <2>1 DEF PlacesIn
  <1>9. ASSUME NEW c \in Key
        PROVE  ValueOf(c)' \in Value \cup {NULL} /\ (ValueOf(c)' = NULL <=> ValueOf(c) = NULL)
    <2>1. /\ Hash[c] \in Bucket /\ ValueOf(c) = LookUp(entrys[Hash[c]], c)
          /\ ValueOf(c)' = LookUp(entrys'[Hash[c]], c)
      BY BucketsKept
    <2>2. HasKey(entrys'[Hash[c]], c) <=> HasKey(entrys[Hash[c]], c)
      BY <1>3, <1>5, <1>6, <2>1
    <2>3. /\ entrys[Hash[c]] \in Seq(Entry) /\ Unique(entrys[Hash[c]])
          /\ entrys'[Hash[c]] \in Seq(Entry) /\ Unique(entrys'[Hash[c]])
      BY <1>1, <1>5, <1>7, <2>1 DEF WellKept
    <2> QED
      BY <2>1, <2>2, <2>3, LookUpIs
  <1> QED
    BY <1>5, <1>7, <1>8, <1>9

(* Each call is one of the map's, at the moment it changes or reads the bucket. *)
LEMMA TableStepRefines ==
    ASSUME ValuesAssumption, TableInv, [TableNext]_tableVars
    PROVE  [Map!Next]_<<[k \in Key |-> ValueOf(k)], ret>>
  <1> DEFINE m == [k \in Key |-> ValueOf(k)]
  <1>1. entrys' = entrys => m' = m
    BY DEF ValueOf, Find, SelectInSeq
  <1>2. ASSUME NEW t \in Thread, NEW k \in Key, table_get(t, k) PROVE Map!Get(t, k)
    <2>1. entrys' = entrys /\ ret' = [ret EXCEPT ![t] = ValueOf(k)]
      BY <1>2 DEF table_get
    <2> QED
      BY <1>1, <2>1 DEF Map!Get
  <1>3. ASSUME NEW t \in Thread, NEW k \in Key, NEW v \in Value, table_put(t, k, v)
        PROVE  Map!Put(t, k, v)
    <2>1. ret' = [ret EXCEPT ![t] = m[k]]
      BY <1>3 DEF table_put
    <2>2. CASE ValueOf(k) = NULL
      <3>1. \A c \in Key : ValueOf(c)' = IF c = k THEN v ELSE ValueOf(c)
        BY <1>3, <2>2, PutChanges
      <3>2. m' = [m EXCEPT ![k] = v]
        BY <3>1
      <3> QED
        BY <2>1, <2>2, <3>2 DEF Map!Put
    <2>3. CASE ValueOf(k) # NULL
      <3>1. m' = m
        BY <1>1, <1>3, <2>3 DEF table_put
      <3> QED
        BY <2>1, <2>3, <3>1 DEF Map!Put
    <2> QED
      BY <2>2, <2>3
  <1>4. ASSUME NEW t \in Thread, NEW k \in Key, table_remove(t, k) PROVE Map!Remove(t, k)
    <2>1. ret' = [ret EXCEPT ![t] = m[k]]
      BY <1>4 DEF table_remove
    <2>2. m' = [m EXCEPT ![k] = NULL]
      <3>1. CASE Find(k) # 0
        <4>1. \A c \in Key : ValueOf(c)' = IF c = k THEN NULL ELSE ValueOf(c)
          BY <1>4, <3>1, RemoveChanges
        <4> QED
          BY <4>1
      <3>2. CASE Find(k) = 0
        <4>1. ValueOf(k) = NULL
          BY <3>2 DEF ValueOf
        <4>2. m' = m
          BY <1>1, <1>4, <3>2 DEF table_remove
        <4> HIDE DEF m
        <4>3. m \in [Key -> {m[c] : c \in Key}] /\ m[k] = NULL
          BY <4>1 DEF m
        <4> QED
          BY <4>2, <4>3
      <3> QED
        BY <3>1, <3>2
    <2> QED
      BY <2>1, <2>2 DEF Map!Remove
  <1>5. ASSUME NEW t \in Thread, MapBucket(t) PROVE Map!Apply
    <2>1. \A c \in Key : ValueOf(c)' \in Value \cup {NULL} /\ (ValueOf(c)' = NULL <=> ValueOf(c) = NULL)
      BY <1>5, MapChanges
    <2>2. ret' = ret
      BY <1>5 DEF MapBucket
    <2>3. m' \in [Key -> Value \cup {NULL}] /\ \A c \in Key : m[c] = NULL <=> m'[c] = NULL
      BY <2>1
    <2> QED
      BY <2>2, <2>3 DEF Map!Apply
  <1>6. ASSUME NEW t \in Thread,
               \/ Count(t) \/ MapBegin(t) \/ ArrayBegin(t) \/ ArrayLock(t) \/ ArrayPush(t)
               \/ ArrayUnlock(t) \/ ArrayDestroy(t)
        PROVE  UNCHANGED <<entrys, ret>>
    BY <1>6 DEF Count, MapBegin, ArrayBegin, ArrayLock, ArrayPush, ArrayUnlock, ArrayDestroy
  <1>7. table_free => UNCHANGED <<entrys, ret>>
    BY DEF table_free
  <1>8. UNCHANGED tableVars => UNCHANGED <<entrys, ret>>
    BY DEF tableVars
  <1>9. UNCHANGED <<entrys, ret>> => UNCHANGED <<m, ret>>
    BY <1>1
  <1> HIDE DEF m
  <1>10. [Map!Next]_<<m, ret>>
    BY <1>2, <1>3, <1>4, <1>5, <1>6, <1>7, <1>8, <1>9 DEF TableNext, Map!Next
  <1> QED
    BY <1>10 DEF m
(* The counter: how many threads are between a change and its count. *)
Stage == {"idle", "counting up", "counting down", "map", "array", "copying", "copied"}
At(l) == {t \in Thread : pc[t] = l}

LEMMA ThreadMoves ==
    ASSUME IsFiniteSet(Thread), TableInv, NEW t \in Thread, NEW q \in Stage,
           pc' = [pc EXCEPT ![t] = q]
    PROVE  /\ pc' \in [Thread -> Stage]
           /\ \A l \in Stage : /\ Cardinality(At(l)) \in Nat /\ Cardinality(At(l)') \in Nat
                               /\ pc[t] = l /\ q # l => Cardinality(At(l)') = Cardinality(At(l)) - 1
                               /\ pc[t] # l /\ q = l => Cardinality(At(l)') = Cardinality(At(l)) + 1
                               /\ (pc[t] = l <=> q = l) => At(l)' = At(l)
  <1>1. pc \in [Thread -> Stage]
    BY DEF TableInv, TableTypeOK, Stage
  <1>2. pc' \in [Thread -> Stage] /\ \A u \in Thread : pc'[u] = IF u = t THEN q ELSE pc[u]
    BY <1>1
  <1>3. ASSUME NEW l \in Stage
        PROVE  /\ Cardinality(At(l)) \in Nat /\ Cardinality(At(l)') \in Nat
               /\ pc[t] = l /\ q # l => Cardinality(At(l)') = Cardinality(At(l)) - 1
               /\ pc[t] # l /\ q = l => Cardinality(At(l)') = Cardinality(At(l)) + 1
               /\ (pc[t] = l <=> q = l) => At(l)' = At(l)
    <2>1. IsFiniteSet(At(l)) /\ IsFiniteSet(At(l)')
      BY FS_Subset DEF At
    <2>2. Cardinality(At(l)) \in Nat /\ Cardinality(At(l)') \in Nat
      BY <2>1, FS_CardinalityType
    <2>3. CASE pc[t] = l /\ q # l
      <3>1. t \in At(l) /\ At(l)' = At(l) \ {t}
        BY <1>2, <2>3 DEF At
      <3> QED
        BY <2>1, <2>2, <2>3, <3>1, FS_RemoveElement
    <2>4. CASE pc[t] # l /\ q = l
      <3>1. t \notin At(l) /\ At(l)' = At(l) \cup {t}
        BY <1>2, <2>4 DEF At
      <3> QED
        BY <2>1, <2>2, <2>4, <3>1, FS_AddElement
    <2>5. CASE pc[t] = l <=> q = l
      <3>1. At(l)' = At(l)
        BY <1>2, <2>5 DEF At
      <3> QED
        BY <2>2, <2>5, <3>1
    <2> QED
      BY <2>3, <2>4, <2>5
  <1> QED
    BY <1>2, <1>3

Exact(n, up, down, there) == n + Cardinality(up) - Cardinality(down) = Cardinality(there)

LEMMA StaysExact ==
    ASSUME NEW n \in Int, NEW u \in Nat, NEW d \in Nat, NEW c \in Nat, n + u - d = c
    PROVE  /\ n + (u + 1) - d = c + 1 /\ n + u - (d + 1) = c - 1
           /\ (n + 1) + (u - 1) - d = c /\ (n - 1) + u - (d - 1) = c
  OBVIOUS

LEMMA TableInvIs ==
    ASSUME tb' \in {"live", "freed", "undefined"}, length' \in Int,
           lock' \in [Bucket -> Thread \cup {NULL}], pc' \in [Thread -> Stage],
           ret' \in [Thread -> Value \cup {NULL}], idx' \in [Thread -> Bucket],
           entrys' \in [Bucket -> Seq(Entry)], WellKept(entrys'), IsFiniteSet(PlacesIn(entrys')),
           Exact(length', At("counting up")', At("counting down")', PlacesIn(entrys'))
    PROVE  TableInv'
  <1>1. TableTypeOK'
    BY DEF TableTypeOK, Stage
  <1>2. OneEntry'
    BY KeptIs DEF OneEntry
  <1>3. LengthExact' /\ IsFiniteSet(EntryPlaces)'
    BY DEF LengthExact, EntryPlaces, PlacesIn, Exact, At
  <1> QED
    BY <1>1, <1>2, <1>3 DEF TableInv

LEMMA InitTableInv == ASSUME ValuesAssumption, TableInit PROVE TableInv
  <1>1. /\ 0 \in Bucket /\ \A b \in Bucket : entrys[b] = <<>>
        /\ entrys \in [Bucket -> Seq(Entry)]
    BY DEF ValuesAssumption, TableAssumption, TableInit, Bucket
  <1>2. TableTypeOK
    BY <1>1 DEF TableInit, TableTypeOK
  <1>3. OneEntry
    BY <1>1 DEF OneEntry
  <1>4. EntryPlaces = {} /\ IsFiniteSet({}) /\ Cardinality({}) = 0
    BY <1>1, FS_EmptySet DEF EntryPlaces
  <1>5. At("counting up") = {} /\ At("counting down") = {} /\ length = 0
    BY DEF TableInit, At
  <1>6. LengthExact
    <2>1. LengthExact <=> Exact(length, At("counting up"), At("counting down"), EntryPlaces)
      BY DEF LengthExact, Exact, At
    <2>2. Exact(0, {}, {}, {})
      BY <1>4 DEF Exact
    <2> QED
      BY <1>4, <1>5, <2>1, <2>2
  <1> QED
    BY <1>2, <1>3, <1>4, <1>6 DEF TableInv

LEMMA TableInvStep ==
    ASSUME ValuesAssumption, IsFiniteSet(Thread), TableInv, [TableNext]_tableVars
    PROVE  TableInv'
  <1>1. /\ tb \in {"live", "freed", "undefined"} /\ length \in Int
        /\ lock \in [Bucket -> Thread \cup {NULL}] /\ pc \in [Thread -> Stage]
        /\ ret \in [Thread -> Value \cup {NULL}] /\ idx \in [Thread -> Bucket]
        /\ IsFiniteSet(PlacesIn(entrys))
        /\ Exact(length, At("counting up"), At("counting down"), PlacesIn(entrys))
    BY DEF TableInv, TableTypeOK, Stage, LengthExact, EntryPlaces, PlacesIn, Exact, At
  <1>2. entrys \in [Bucket -> Seq(Entry)] /\ WellKept(entrys)
    BY BucketsKept
  <1>3. "counting up" \in Stage /\ "counting down" \in Stage /\ "idle" \in Stage
         /\ "map" \in Stage /\ "array" \in Stage /\ "copying" \in Stage /\ "copied" \in Stage
    BY DEF Stage
  <1>4. \A k \in Key : ValueOf(k) \in Value \cup {NULL}
    BY BucketsKept, LookUpIs DEF WellKept
  <1>5. /\ Cardinality(PlacesIn(entrys)) \in Nat
        /\ size \in Nat \ {0} /\ Bucket = 0..size - 1 /\ 0 \in Bucket
        /\ At("counting up") \in SUBSET Thread /\ At("counting down") \in SUBSET Thread
    <2>1. Cardinality(PlacesIn(entrys)) \in Nat
      BY <1>1, FS_CardinalityType
    <2>2. size \in Nat \ {0} /\ Bucket = 0..size - 1
      BY DEF ValuesAssumption, TableAssumption, Bucket
    <2>3. 0 \in 0..size - 1
      BY <2>2
    <2> QED
      BY <2>1, <2>2, <2>3 DEF At
  <1> DEFINE u == Cardinality(At("counting up"))
             d == Cardinality(At("counting down"))
             c == Cardinality(PlacesIn(entrys))
  <1>s. /\ length + (u + 1) - d = c + 1 /\ length + u - (d + 1) = c - 1
        /\ (length + 1) + (u - 1) - d = c /\ (length - 1) + u - (d - 1) = c
    <2>1. u \in Nat /\ d \in Nat
      <3>1. IsFiniteSet(At("counting up")) /\ IsFiniteSet(At("counting down"))
        BY <1>5, FS_Subset
      <3> QED
        BY <3>1, FS_CardinalityType
    <2>2. length + u - d = c /\ length \in Int /\ c \in Nat
      BY <1>1, <1>5 DEF Exact
    <2> HIDE DEF u, d, c
    <2> QED
      BY <2>1, <2>2, StaysExact
  <1>6. ASSUME NEW t \in Thread, NEW k \in Key, table_get(t, k) PROVE TableInv'
    <2>1. ret' \in [Thread -> Value \cup {NULL}] /\ UNCHANGED <<tb, entrys, length, lock, pc, idx>>
      BY <1>1, <1>4, <1>6 DEF table_get, walkVars
    <2>2. At("counting up")' = At("counting up") /\ At("counting down")' = At("counting down")
      BY <2>1 DEF At
    <2> QED
      BY <1>1, <1>2, <2>1, <2>2, TableInvIs
  <1>7. ASSUME NEW t \in Thread, NEW k \in Key, NEW v \in Value, table_put(t, k, v) PROVE TableInv'
    <2>1. ret' \in [Thread -> Value \cup {NULL}] /\ UNCHANGED <<tb, length, idx>> /\ pc[t] = "idle"
      BY <1>1, <1>4, <1>7 DEF table_put, walkVars, Idle
    <2>2. CASE ValueOf(k) = NULL
      <3>1. /\ entrys' \in [Bucket -> Seq(Entry)] /\ WellKept(entrys')
            /\ IsFiniteSet(PlacesIn(entrys'))
            /\ Cardinality(PlacesIn(entrys')) = Cardinality(PlacesIn(entrys)) + 1
        BY <1>7, <2>2, PutChanges
      <3>2. lock' \in [Bucket -> Thread \cup {NULL}] /\ pc' = [pc EXCEPT ![t] = "counting up"]
        BY <1>1, <1>7, <2>2 DEF table_put
      <3>3. /\ pc' \in [Thread -> Stage] /\ At("counting down")' = At("counting down")
            /\ Cardinality(At("counting up")') = Cardinality(At("counting up")) + 1
            /\ Cardinality(At("counting up")) \in Nat /\ Cardinality(At("counting down")) \in Nat
        BY <1>3, <2>1, <3>2, ThreadMoves
      <3>4. Exact(length', At("counting up")', At("counting down")', PlacesIn(entrys'))
        BY <1>s, <2>1, <3>1, <3>3 DEF Exact
      <3> QED
        BY <1>1, <2>1, <3>1, <3>2, <3>3, <3>4, TableInvIs
    <2>3. CASE ValueOf(k) # NULL
      <3>1. UNCHANGED <<entrys, lock, pc>>
        BY <1>7, <2>3 DEF table_put
      <3>2. At("counting up")' = At("counting up") /\ At("counting down")' = At("counting down")
        BY <3>1 DEF At
      <3> QED
        BY <1>1, <1>2, <2>1, <3>1, <3>2, TableInvIs
    <2> QED
      BY <2>2, <2>3
  <1>8. ASSUME NEW t \in Thread, NEW k \in Key, table_remove(t, k) PROVE TableInv'
    <2>1. ret' \in [Thread -> Value \cup {NULL}] /\ UNCHANGED <<tb, length, idx>> /\ pc[t] = "idle"
      BY <1>1, <1>4, <1>8 DEF table_remove, walkVars, Idle
    <2>2. CASE Find(k) # 0
      <3>1. /\ entrys' \in [Bucket -> Seq(Entry)] /\ WellKept(entrys')
            /\ IsFiniteSet(PlacesIn(entrys'))
            /\ Cardinality(PlacesIn(entrys')) = Cardinality(PlacesIn(entrys)) - 1
        BY <1>8, <2>2, RemoveChanges
      <3>2. lock' \in [Bucket -> Thread \cup {NULL}] /\ pc' = [pc EXCEPT ![t] = "counting down"]
        BY <1>1, <1>8, <2>2 DEF table_remove
      <3>3. /\ pc' \in [Thread -> Stage] /\ At("counting up")' = At("counting up")
            /\ Cardinality(At("counting down")') = Cardinality(At("counting down")) + 1
            /\ Cardinality(At("counting up")) \in Nat /\ Cardinality(At("counting down")) \in Nat
        BY <1>3, <2>1, <3>2, ThreadMoves
      <3>4. Exact(length', At("counting up")', At("counting down")', PlacesIn(entrys'))
        BY <1>s, <2>1, <3>1, <3>3 DEF Exact
      <3> QED
        BY <1>1, <2>1, <3>1, <3>2, <3>3, <3>4, TableInvIs
    <2>3. CASE Find(k) = 0
      <3>1. UNCHANGED <<entrys, lock, pc>>
        BY <1>8, <2>3 DEF table_remove
      <3>2. At("counting up")' = At("counting up") /\ At("counting down")' = At("counting down")
        BY <3>1 DEF At
      <3> QED
        BY <1>1, <1>2, <2>1, <3>1, <3>2, TableInvIs
    <2> QED
      BY <2>2, <2>3
  <1>9. ASSUME NEW t \in Thread, Count(t) PROVE TableInv'
    <2>1. /\ pc[t] \in {"counting up", "counting down"}
          /\ length' = IF pc[t] = "counting up" THEN length + 1 ELSE length - 1
          /\ pc' = [pc EXCEPT ![t] = "idle"] /\ UNCHANGED <<tb, entrys, ret, idx>>
          /\ lock' \in [Bucket -> Thread \cup {NULL}] /\ length' \in Int
      <3>1. /\ pc[t] \in {"counting up", "counting down"}
            /\ length' = IF pc[t] = "counting up" THEN length + 1 ELSE length - 1
            /\ lock' = [b \in Bucket |-> IF lock[b] = t THEN NULL ELSE lock[b]]
            /\ pc' = [pc EXCEPT ![t] = "idle"] /\ UNCHANGED <<tb, entrys, ret, idx>>
        BY <1>9 DEF Count, walkVars
      <3>2. lock' \in [Bucket -> Thread \cup {NULL}]
        BY <1>1, <3>1
      <3>3. length' \in Int
        <4>1. length \in Int
          BY <1>1, Zenon
        <4>2. length + 1 \in Int /\ length - 1 \in Int
          BY <4>1
        <4> QED
          BY <3>1, <4>2
      <3> QED
        BY <3>1, <3>2, <3>3
    <2>2. /\ pc' \in [Thread -> Stage]
          /\ \A l \in Stage : /\ Cardinality(At(l)) \in Nat /\ Cardinality(At(l)') \in Nat
                              /\ pc[t] = l /\ "idle" # l => Cardinality(At(l)') = Cardinality(At(l)) - 1
                              /\ (pc[t] = l <=> "idle" = l) => At(l)' = At(l)
      <3>1. pc' = [pc EXCEPT ![t] = "idle"] /\ "idle" \in Stage
        BY <1>3, <2>1
      <3>2. /\ pc' \in [Thread -> Stage]
            /\ \A l \in Stage : /\ Cardinality(At(l)) \in Nat /\ Cardinality(At(l)') \in Nat
                                /\ pc[t] = l /\ "idle" # l => Cardinality(At(l)') = Cardinality(At(l)) - 1
                                /\ pc[t] # l /\ "idle" = l => Cardinality(At(l)') = Cardinality(At(l)) + 1
                                /\ (pc[t] = l <=> "idle" = l) => At(l)' = At(l)
        BY <3>1, ThreadMoves, Zenon
      <3> QED
        BY <3>2, Zenon
    <2>3. Exact(length', At("counting up")', At("counting down")', PlacesIn(entrys'))
      <3>1. CASE pc[t] = "counting up"
        <4>1. /\ length' = length + 1 /\ At("counting down")' = At("counting down")
              /\ Cardinality(At("counting up")') = Cardinality(At("counting up")) - 1
              /\ Cardinality(At("counting up")) \in Nat /\ Cardinality(At("counting down")) \in Nat
          BY <1>3, <2>1, <2>2, <3>1
        <4> QED
          BY <1>s, <2>1, <4>1 DEF Exact
      <3>2. CASE pc[t] = "counting down"
        <4>1. /\ length' = length - 1 /\ At("counting up")' = At("counting up")
              /\ Cardinality(At("counting down")') = Cardinality(At("counting down")) - 1
              /\ Cardinality(At("counting up")) \in Nat /\ Cardinality(At("counting down")) \in Nat
          BY <1>3, <2>1, <2>2, <3>2
        <4> QED
          BY <1>s, <2>1, <4>1 DEF Exact
      <3> QED
        BY <2>1, <3>1, <3>2
    <2> QED
      BY <1>1, <1>2, <2>1, <2>2, <2>3, TableInvIs
  <1>10. ASSUME NEW t \in Thread, NEW q \in Stage, pc' = [pc EXCEPT ![t] = q],
                pc[t] \notin {"counting up", "counting down"}, q \notin {"counting up", "counting down"},
                UNCHANGED <<tb, length, ret>>, idx' \in [Thread -> Bucket],
                lock' \in [Bucket -> Thread \cup {NULL}],
                entrys' \in [Bucket -> Seq(Entry)], WellKept(entrys'),
                PlacesIn(entrys') = PlacesIn(entrys)
         PROVE  TableInv'
    <2>1. /\ pc' \in [Thread -> Stage]
          /\ At("counting up")' = At("counting up") /\ At("counting down")' = At("counting down")
      BY <1>3, <1>10, ThreadMoves
    <2> QED
      BY <1>1, <1>10, <2>1, TableInvIs
  <1>11. ASSUME NEW t \in Thread PROVE (idx[t] + 1) % size \in Bucket
    <2>1. idx[t] \in 0..size - 1
      BY <1>1, <1>5
    <2>2. idx[t] + 1 \in Nat
      BY <2>1
    <2>3. (idx[t] + 1) % size \in 0..size - 1
      BY <1>5, <2>2, Remainder
    <2> QED
      BY <1>5, <2>3
  <1>12. ASSUME NEW t \in Thread, MapBegin(t) \/ ArrayBegin(t) PROVE TableInv'
    <2>1. PICK q \in {"map", "array"} : pc' = [pc EXCEPT ![t] = q]
      BY <1>12 DEF MapBegin, ArrayBegin
    <2>2. /\ pc[t] = "idle" /\ idx' = [idx EXCEPT ![t] = 0]
          /\ UNCHANGED <<tb, entrys, length, lock, ret>>
      BY <1>12 DEF MapBegin, ArrayBegin, Idle
    <2>3. idx' \in [Thread -> Bucket]
      BY <1>1, <1>5, <2>2
    <2> QED
      BY <1>1, <1>2, <1>3, <1>10, <2>1, <2>2, <2>3
  <1>13. ASSUME NEW t \in Thread, MapBucket(t) PROVE TableInv'
    <2>1. /\ entrys' \in [Bucket -> Seq(Entry)] /\ WellKept(entrys')
          /\ PlacesIn(entrys') = PlacesIn(entrys)
      BY <1>13, MapChanges
    <2>2. PICK q \in {"idle", "map"} : pc' = [pc EXCEPT ![t] = q]
      BY <1>13 DEF MapBucket
    <2>3. /\ pc[t] = "map" /\ idx' = [idx EXCEPT ![t] = (idx[t] + 1) % size]
          /\ UNCHANGED <<tb, length, lock, ret>>
      BY <1>13 DEF MapBucket
    <2>4. idx' \in [Thread -> Bucket]
      BY <1>1, <1>11, <2>3
    <2> QED
      BY <1>1, <1>3, <1>10, <2>1, <2>2, <2>3, <2>4
  <1>14. ASSUME NEW t \in Thread, ArrayLock(t) PROVE TableInv'
    <2>1. /\ pc[t] = "array" /\ pc' = [pc EXCEPT ![t] = "copying"]
          /\ lock' = [lock EXCEPT ![idx[t]] = t] /\ UNCHANGED <<tb, entrys, length, ret, idx>>
      BY <1>14 DEF ArrayLock
    <2>2. lock' \in [Bucket -> Thread \cup {NULL}]
      BY <1>1, <2>1
    <2> QED
      BY ZenonT(60), <1>1, <1>2, <1>3, <1>10, <2>1, <2>2
  <1>18. ASSUME NEW t \in Thread, ArrayUnlock(t) PROVE TableInv'
    <2>1. PICK q \in {"copied", "array"} : pc' = [pc EXCEPT ![t] = q]
      BY <1>18 DEF ArrayUnlock
    <2>2. /\ pc[t] = "copying" /\ idx' = [idx EXCEPT ![t] = (idx[t] + 1) % size]
          /\ lock' = [lock EXCEPT ![idx[t]] = NULL] /\ UNCHANGED <<tb, entrys, length, ret>>
      BY <1>18 DEF ArrayUnlock
    <2>3. idx' \in [Thread -> Bucket] /\ lock' \in [Bucket -> Thread \cup {NULL}]
      BY <1>1, <1>11, <2>2
    <2> QED
      BY <1>2, <1>3, <1>10, <2>1, <2>2, <2>3
  <1>15. ASSUME NEW t \in Thread, ArrayDestroy(t) PROVE TableInv'
    <2>1. /\ pc[t] = "copied" /\ pc' = [pc EXCEPT ![t] = "idle"]
          /\ UNCHANGED <<tb, entrys, length, lock, ret, idx>>
      BY <1>15 DEF ArrayDestroy
    <2> QED
      BY <1>1, <1>2, <1>3, <1>10, <2>1
  <1>16. CASE table_free
    <2>1. tb' \in {"live", "freed", "undefined"} /\ UNCHANGED <<entrys, length, lock, pc, ret, idx>>
      BY <1>16 DEF table_free, walkVars
    <2>2. At("counting up")' = At("counting up") /\ At("counting down")' = At("counting down")
      BY <2>1 DEF At
    <2> QED
      BY <1>1, <1>2, <2>1, <2>2, TableInvIs
  <1>17. ASSUME UNCHANGED <<tb, entrys, length, lock, pc, ret, idx>> PROVE TableInv'
    <2>1. At("counting up")' = At("counting up") /\ At("counting down")' = At("counting down")
      BY <1>17 DEF At
    <2> QED
      BY <1>1, <1>2, <1>17, <2>1, TableInvIs
  <1>19. ASSUME NEW t \in Thread, ArrayPush(t) PROVE TableInv'
    BY <1>17, <1>19 DEF ArrayPush
  <1>20. CASE UNCHANGED tableVars
    BY <1>17, <1>20 DEF tableVars
  <1> QED
    BY <1>6, <1>7, <1>8, <1>9, <1>12, <1>13, <1>14, <1>15, <1>16, <1>18, <1>19, <1>20 DEF TableNext

(* An entry is in its bucket, a key has one, and the counter is exact up to the  *)
(* threads between change and count, for any threads, keys, values, number of    *)
(* buckets and hash function (table.c).                                          *)
THEOREM TableInductive ==
    ASSUME ValuesAssumption, IsFiniteSet(Thread) PROVE TableSpec => []TableInv
  <1>1. TableInit => TableInv
    BY InitTableInv
  <1>2. TableInv /\ [TableNext]_tableVars => TableInv'
    BY TableInvStep
  <1> QED
    BY <1>1, <1>2, PTL DEF TableSpec

(* Every call on the table takes effect in one instant, with its result: beside  *)
(* other calls, a map and copies, and whatever keys share a bucket (table.c).    *)
THEOREM TableImplements ==
    ASSUME ValuesAssumption, IsFiniteSet(Thread) PROVE TableSpec => ImplementsMap
  <1>1. TableInit => Map!Init
    <2> SUFFICES ASSUME TableInit PROVE Map!Init
      OBVIOUS
    <2>1. \A k \in Key : ValueOf(k) = NULL
      <3> SUFFICES ASSUME NEW k \in Key PROVE ValueOf(k) = NULL
        OBVIOUS
      <3>1. TableInv
        BY InitTableInv
      <3>2. ValueOf(k) = LookUp(entrys[Hash[k]], k) /\ Hash[k] \in Bucket
        BY <3>1, BucketsKept
      <3>3. entrys[Hash[k]] = <<>>
        BY <3>2 DEF TableInit
      <3>4. ~HasKey(<<>>, k) /\ <<>> \in Seq(Entry) /\ Unique(<<>>)
        BY DEF HasKey, Unique
      <3> QED
        BY <3>2, <3>3, <3>4, LookUpIs
    <2> QED
      BY <2>1 DEF Map!Init, TableInit
  <1>2. TableInv /\ [TableNext]_tableVars => [Map!Next]_<<[k \in Key |-> ValueOf(k)], ret>>
    BY TableStepRefines
  <1> QED
    BY <1>1, <1>2, TableInductive, PTL DEF TableSpec, ImplementsMap, Map!Spec
--------------------------------------------------------------------------------
(* What the invariant of the copies says of one thread.  *)
CopyOf(t) ==
    /\ pc[t] = "copying" => lock[idx[t]] = t /\ at[t] \in 1..Len(entrys[idx[t]]) + 1
    /\ Copying(t) => \A k \in steady[t] : HasKey(entrys[Hash[k]], k)
    /\ pc[t] \in {"array", "copying"} =>
          /\ \A k \in Key : Copied(t, k) =>
                Hash[k] < idx[t] \/ (pc[t] = "copying" /\ k \in FirstEntries(t))
          /\ \A k \in steady[t] : Hash[k] < idx[t] => Copied(t, k)
    /\ pc[t] = "copying" => \A k \in FirstEntries(t) : Copied(t, k)
    /\ pc[t] = "copied" => \A k \in steady[t] : Copied(t, k)
    /\ \A i, j \in 1..Len(arr[t].elts) : arr[t].elts[i] = arr[t].elts[j] => i = j
    /\ arr[t].nalloc > 0 => Len(arr[t].elts) <= arr[t].nalloc

LEMMA CopyInvIs == CopyInv <=> CopyTypeOK /\ \A t \in Thread : CopyOf(t)
  <1>1. CopyInv => CopyTypeOK /\ \A t \in Thread : CopyOf(t)
    BY DEF CopyInv, CopyPlace, SteadyIsThere, CopySoFar, CopyFits, CopyOf, HasKey
  <1>2. ASSUME CopyTypeOK, \A t \in Thread : CopyOf(t) PROVE CopyInv
    <2>1. CopyPlace
      BY <1>2 DEF CopyPlace, CopyOf
    <2>2. SteadyIsThere
      BY <1>2 DEF SteadyIsThere, CopyOf, HasKey
    <2>3. CopySoFar
      BY <1>2 DEF CopySoFar, CopyOf
    <2>4. CopyFits
      BY <1>2 DEF CopyFits, CopyOf
    <2> QED
      BY <1>2, <2>1, <2>2, <2>3, <2>4 DEF CopyInv
  <1> QED
    BY <1>1, <1>2

LEMMA CopyInvNext == (CopyInv <=> CopyTypeOK /\ \A t \in Thread : CopyOf(t))'
  BY CopyInvIs, PTL

(* A thread that does nothing: other threads change its buckets only where it *)
(* holds no lock, and no key it is to find leaves the table.                  *)
LEMMA OtherThread ==
    ASSUME NEW u \in Thread, TableTypeOK, CopyOf(u),
           pc'[u] = pc[u], idx'[u] = idx[u], at'[u] = at[u], arr'[u] = arr[u],
           steady'[u] \subseteq steady[u],
           \A b \in Bucket : lock[b] = u => lock'[b] = u /\ entrys'[b] = entrys[b],
           \A k \in steady'[u] : HasKey(entrys[Hash[k]], k) => HasKey(entrys'[Hash[k]], k)
    PROVE  CopyOf(u)'
  <1>1. idx[u] \in Bucket
    BY DEF TableTypeOK
  <1>2. Copying(u)' = Copying(u) /\ \A k : Copied(u, k)' = Copied(u, k)
    BY DEF Copying, Copied
  <1>3. pc[u] = "copying" =>
           /\ lock[idx[u]] = u /\ lock'[idx'[u]] = u /\ entrys'[idx'[u]] = entrys[idx[u]]
           /\ FirstEntries(u)' = FirstEntries(u)
    BY <1>1 DEF CopyOf, FirstEntries
  <1>4. Copying(u) => \A k \in steady'[u] : HasKey(entrys'[Hash[k]], k)
    BY DEF CopyOf
  <1>5. (pc[u] = "copying" => lock[idx[u]] = u /\ at[u] \in 1..Len(entrys[idx[u]]) + 1)'
    BY <1>3 DEF CopyOf
  <1>6. (Copying(u) => \A k \in steady[u] : HasKey(entrys[Hash[k]], k))'
    BY <1>2, <1>4 DEF HasKey
  <1>7. (pc[u] \in {"array", "copying"} =>
          /\ \A k \in Key : Copied(u, k) =>
                Hash[k] < idx[u] \/ (pc[u] = "copying" /\ k \in FirstEntries(u))
          /\ \A k \in steady[u] : Hash[k] < idx[u] => Copied(u, k))'
    BY <1>2, <1>3 DEF CopyOf
  <1>8. (pc[u] = "copying" => \A k \in FirstEntries(u) : Copied(u, k))'
    BY <1>2, <1>3 DEF CopyOf
  <1>9. (/\ pc[u] = "copied" => \A k \in steady[u] : Copied(u, k)
         /\ \A i, j \in 1..Len(arr[u].elts) : arr[u].elts[i] = arr[u].elts[j] => i = j
         /\ arr[u].nalloc > 0 => Len(arr[u].elts) <= arr[u].nalloc)'
    BY <1>2 DEF CopyOf
  <1> QED
    BY <1>5, <1>6, <1>7, <1>8, <1>9 DEF CopyOf

LEMMA NoCopy ==
    ASSUME NEW u \in Thread, CopyOf(u), arr'[u] = arr[u] \/ arr'[u] = [elts |-> <<>>, nalloc |-> 0],
           pc'[u] \notin {"array", "copying", "copied"}
    PROVE  CopyOf(u)'
  <1>1. /\ \A i, j \in 1..Len(arr'[u].elts) : arr'[u].elts[i] = arr'[u].elts[j] => i = j
        /\ arr'[u].nalloc > 0 => Len(arr'[u].elts) <= arr'[u].nalloc
    <2>1. CASE arr'[u] = arr[u]
      BY <2>1 DEF CopyOf
    <2>2. CASE arr'[u] = [elts |-> <<>>, nalloc |-> 0]
      <3>1. Len(arr'[u].elts) = 0 /\ arr'[u].nalloc = 0
        BY <2>2
      <3> QED
        BY <3>1
    <2> QED
      BY <2>1, <2>2
  <1> QED
    BY <1>1 DEF CopyOf, Copying

LEMMA KeyIsThere ==
    ASSUME ValuesAssumption, TableInv, WellKept(entrys'), entrys' \in [Bucket -> Seq(Entry)], NEW k \in Key
    PROVE  /\ HasKey(entrys[Hash[k]], k) <=> ValueOf(k) # NULL
           /\ HasKey(entrys'[Hash[k]], k) <=> ValueOf(k)' # NULL
  <1>1. /\ entrys \in [Bucket -> Seq(Entry)] /\ WellKept(entrys)
        /\ Hash[k] \in Bucket /\ ValueOf(k) = LookUp(entrys[Hash[k]], k)
        /\ ValueOf(k)' = LookUp(entrys'[Hash[k]], k)
    BY BucketsKept
  <1>2. /\ entrys[Hash[k]] \in Seq(Entry) /\ Unique(entrys[Hash[k]])
        /\ entrys'[Hash[k]] \in Seq(Entry) /\ Unique(entrys'[Hash[k]])
    BY <1>1 DEF WellKept
  <1> QED
    BY <1>1, <1>2, LookUpIs

(* A copy beside calls and a map of other threads. *)
LEMMA CopyBesideCalls ==
    ASSUME ValuesAssumption, TableInv, CopyInv, NEW t \in Thread,
           pc'[t] \notin {"array", "copying", "copied"}, arr' = arr,
           \A u \in Thread : u # t => pc'[u] = pc[u] /\ idx'[u] = idx[u] /\ at'[u] = at[u],
           steady' \in [Thread -> SUBSET Key], at' \in [Thread -> Nat],
           \A u \in Thread : steady'[u] \subseteq steady[u],
           \A b \in Bucket : lock[b] \notin {t, NULL} => lock'[b] = lock[b] /\ entrys'[b] = entrys[b],
           entrys' \in [Bucket -> Seq(Entry)], WellKept(entrys'),
           \A u \in Thread : \A k \in steady'[u] : ValueOf(k) # NULL => ValueOf(k)' # NULL
    PROVE  CopyInv'
  <1>1. CopyTypeOK /\ (\A u \in Thread : CopyOf(u)) /\ TableTypeOK
    BY CopyInvIs DEF TableInv
  <1>2. CopyTypeOK'
    BY <1>1 DEF CopyTypeOK
  <1>3. ASSUME NEW u \in Thread, u # t PROVE CopyOf(u)'
    <2>1. u # NULL
      BY DEF ValuesAssumption, TableAssumption
    <2>2. \A b \in Bucket : lock[b] = u => lock'[b] = u /\ entrys'[b] = entrys[b]
      BY <1>3, <2>1
    <2>3. \A k \in steady'[u] : k \in Key
      OBVIOUS
    <2>4. \A k \in steady'[u] : HasKey(entrys[Hash[k]], k) => HasKey(entrys'[Hash[k]], k)
      BY <2>3, KeyIsThere
    <2> QED
      BY <1>1, <1>3, <2>2, <2>4, OtherThread
  <1>4. CopyOf(t)'
    BY <1>1, NoCopy
  <1> QED
    BY <1>2, <1>3, <1>4, CopyInvNext

LEMMA InitCopyInv == ASSUME TableInit PROVE CopyInv
  <1>1. /\ \A t \in Thread : pc[t] = "idle" /\ at[t] = 0
        /\ \A t \in Thread : arr[t] = [elts |-> <<>>, nalloc |-> 0]
    BY DEF TableInit
  <1>2. <<>> \in Seq(Key) /\ Len(<<>>) = 0
    OBVIOUS
  <1>3. CopyTypeOK
    BY <1>2 DEF CopyTypeOK, TableInit
  <1>4. CopyPlace /\ SteadyIsThere /\ CopySoFar
    BY <1>1 DEF CopyPlace, SteadyIsThere, CopySoFar, Copying
  <1>5. CopyFits
    BY <1>1, <1>2 DEF CopyFits
  <1> QED
    BY <1>3, <1>4, <1>5 DEF CopyInv

LEMMA CopyBegins ==
    ASSUME ValuesAssumption, TableInv, CopyInv, NEW t \in Thread, ArrayBegin(t)
    PROVE  CopyInv'
  <1>1. CopyTypeOK /\ (\A u \in Thread : CopyOf(u)) /\ TableTypeOK
    BY CopyInvIs DEF TableInv
  <1>2. /\ arr' = [arr EXCEPT ![t] = [elts |-> <<>>, nalloc |-> length]]
        /\ steady' = [steady EXCEPT ![t] = AllKeys] /\ idx' = [idx EXCEPT ![t] = 0]
        /\ pc' = [pc EXCEPT ![t] = "array"] /\ UNCHANGED <<entrys, lock, at>>
    BY DEF ArrayBegin
  <1>3. <<>> \in Seq(Key) /\ Len(<<>>) = 0 /\ length \in Int
    <2>1. length \in Int
      BY <1>1, Zenon DEF TableTypeOK
    <2> QED
      BY <2>1
  <1>4. ASSUME NEW k \in AllKeys PROVE k \in Key /\ Hash[k] \in Bucket /\ HasKey(entrys[Hash[k]], k)
    <2>1. PICK b \in Bucket : k \in KeysIn(entrys[b])
      BY DEF AllKeys
    <2>2. entrys[b] \in Seq(Entry) /\ DOMAIN entrys[b] = 1..Len(entrys[b])
      BY <1>1, LenProperties DEF TableTypeOK
    <2>3. PICK i \in 1..Len(entrys[b]) : entrys[b][i].key = k
      BY <2>1, <2>2 DEF KeysIn
    <2>4. entrys[b][i] \in Entry
      BY <2>2, QueuePlaces
    <2>5. HasKey(entrys[b], k) /\ Hash[k] = b
      BY <2>3, BucketsKept DEF HasKey, WellKept
    <2> QED
      BY <2>3, <2>4, <2>5 DEF Entry
  <1>5. CopyTypeOK'
    <2>1. AllKeys \in SUBSET Key
      BY <1>4
    <2> QED
      BY <1>1, <1>2, <1>3, <2>1 DEF CopyTypeOK
  <1>6. ASSUME NEW u \in Thread, u # t PROVE CopyOf(u)'
    <2>1. /\ pc'[u] = pc[u] /\ idx'[u] = idx[u] /\ at'[u] = at[u] /\ arr'[u] = arr[u]
          /\ steady'[u] = steady[u]
      BY <1>1, <1>2, <1>6 DEF TableTypeOK, CopyTypeOK
    <2> QED
      BY <1>1, <1>2, <2>1, OtherThread
  <1>7. CopyOf(t)'
    <2>1. /\ pc'[t] = "array" /\ idx'[t] = 0 /\ steady'[t] = AllKeys
          /\ arr'[t] = [elts |-> <<>>, nalloc |-> length]
      BY <1>1, <1>2 DEF TableTypeOK, CopyTypeOK
    <2>2. \A k \in AllKeys : HasKey(entrys'[Hash[k]], k) /\ ~(Hash[k] < 0)
      <3>1. \A b \in Bucket : ~(b < 0)
        BY DEF Bucket, ValuesAssumption, TableAssumption
      <3> QED
        BY <1>2, <1>4, <3>1
    <2>3. \A k : ~Copied(t, k)'
      BY <1>3, <2>1 DEF Copied
    <2>4. /\ \A i, j \in 1..Len(arr'[t].elts) : arr'[t].elts[i] = arr'[t].elts[j] => i = j
          /\ arr'[t].nalloc > 0 => Len(arr'[t].elts) <= arr'[t].nalloc
      BY <1>3, <2>1
    <2> QED
      BY <2>1, <2>2, <2>3, <2>4 DEF CopyOf, HasKey
  <1> QED
    BY <1>5, <1>6, <1>7, CopyInvNext

LEMMA CopyLocks ==
    ASSUME ValuesAssumption, TableInv, CopyInv, NEW t \in Thread, ArrayLock(t)
    PROVE  CopyInv'
  <1>1. CopyTypeOK /\ (\A u \in Thread : CopyOf(u)) /\ TableTypeOK
    BY CopyInvIs DEF TableInv
  <1>2. /\ pc[t] = "array" /\ lock[idx[t]] = NULL
        /\ lock' = [lock EXCEPT ![idx[t]] = t] /\ at' = [at EXCEPT ![t] = 1]
        /\ pc' = [pc EXCEPT ![t] = "copying"] /\ UNCHANGED <<entrys, idx, arr, steady>>
    BY DEF ArrayLock, Free
  <1>3. CopyTypeOK'
    BY <1>1, <1>2 DEF CopyTypeOK
  <1>4. ASSUME NEW u \in Thread, u # t PROVE CopyOf(u)'
    <2>1. /\ pc'[u] = pc[u] /\ idx'[u] = idx[u] /\ at'[u] = at[u] /\ arr'[u] = arr[u]
          /\ steady'[u] = steady[u]
      BY <1>1, <1>2, <1>4 DEF TableTypeOK, CopyTypeOK
    <2>2. \A b \in Bucket : lock[b] = u => lock'[b] = u
      <3>1. u # NULL
        BY DEF ValuesAssumption, TableAssumption
      <3> QED
        BY <1>1, <1>2, <3>1 DEF TableTypeOK
    <2> QED
      BY <1>1, <1>2, <2>1, <2>2, OtherThread
  <1>5. CopyOf(t)'
    <2>1. /\ pc'[t] = "copying" /\ at'[t] = 1 /\ lock'[idx'[t]] = t /\ idx'[t] = idx[t] /\ steady'[t] = steady[t]
          /\ entrys[idx[t]] \in Seq(Entry)
      BY <1>1, <1>2 DEF TableTypeOK, CopyTypeOK
    <2>2. FirstEntries(t)' = {} /\ \A k : Copied(t, k)' = Copied(t, k)
      BY <1>2, <2>1 DEF FirstEntries, Copied
    <2>3. 1 \in 1..Len(entrys'[idx'[t]]) + 1
      BY <1>2, <2>1
    <2>4. /\ \A k \in steady[t] : HasKey(entrys[Hash[k]], k)
          /\ \A k \in Key : Copied(t, k) => Hash[k] < idx[t]
          /\ \A k \in steady[t] : Hash[k] < idx[t] => Copied(t, k)
          /\ \A i, j \in 1..Len(arr[t].elts) : arr[t].elts[i] = arr[t].elts[j] => i = j
          /\ arr[t].nalloc > 0 => Len(arr[t].elts) <= arr[t].nalloc
      BY <1>1, <1>2 DEF CopyOf, Copying
    <2> QED
      BY <1>2, <2>1, <2>2, <2>3, <2>4 DEF CopyOf, HasKey
  <1> QED
    BY <1>3, <1>4, <1>5, CopyInvNext

LEMMA CopyPushes ==
    ASSUME ValuesAssumption, TableInv, CopyInv, NEW t \in Thread, ArrayPush(t)
    PROVE  CopyInv'
  <1> DEFINE bucket == entrys[idx[t]]
             a == arr[t]
             key == bucket[at[t]].key
             n == IF Len(a.elts) = a.nalloc THEN 2 * a.nalloc ELSE a.nalloc
  <1>1. CopyTypeOK /\ (\A u \in Thread : CopyOf(u)) /\ TableTypeOK
    BY CopyInvIs DEF TableInv
  <1>2. /\ pc[t] = "copying" /\ at[t] <= Len(bucket)
        /\ arr' = [arr EXCEPT ![t] = [elts |-> Append(a.elts, key), nalloc |-> n]]
        /\ at' = [at EXCEPT ![t] = at[t] + 1]
        /\ UNCHANGED <<entrys, lock, pc, idx, steady>>
    BY DEF ArrayPush, arr_push
  <1>3. /\ bucket \in Seq(Entry) /\ Unique(bucket) /\ idx[t] \in Bucket
        /\ \A c : HasKey(bucket, c) => Hash[c] = idx[t]
    BY <1>1, BucketsKept DEF TableTypeOK, WellKept
  <1>4. at[t] \in 1..Len(bucket) /\ lock[idx[t]] = t /\ at[t] \in Nat /\ Len(bucket) \in Nat
    BY <1>1, <1>2, <1>3 DEF CopyOf, CopyTypeOK
  <1>5. key \in Key /\ HasKey(bucket, key) /\ Hash[key] = idx[t]
    <2>1. bucket[at[t]] \in Entry
      BY <1>3, <1>4, QueuePlaces
    <2>2. HasKey(bucket, key)
      BY <1>4 DEF HasKey
    <2> QED
      BY <1>3, <2>1, <2>2 DEF Entry
  <1>6. a.elts \in Seq(Key) /\ a.nalloc \in Int /\ n \in Int
    BY <1>1 DEF CopyTypeOK
  <1>7. /\ Append(a.elts, key) \in Seq(Key) /\ Len(Append(a.elts, key)) = Len(a.elts) + 1
        /\ Len(a.elts) \in Nat
        /\ \A i \in 1..Len(a.elts) : Append(a.elts, key)[i] = a.elts[i]
        /\ Append(a.elts, key)[Len(a.elts) + 1] = key
    BY <1>5, <1>6
  <1> HIDE DEF key, n
  <1>8. CopyTypeOK'
    BY <1>1, <1>2, <1>4, <1>6, <1>7 DEF CopyTypeOK
  <1>9. ASSUME NEW u \in Thread, u # t PROVE CopyOf(u)'
    <2>1. /\ pc'[u] = pc[u] /\ idx'[u] = idx[u] /\ at'[u] = at[u] /\ arr'[u] = arr[u]
          /\ steady'[u] = steady[u]
      BY <1>1, <1>2, <1>9 DEF TableTypeOK, CopyTypeOK
    <2> QED
      BY <1>1, <1>2, <2>1, OtherThread
  <1>10. CopyOf(t)'
    <2>1. /\ pc'[t] = "copying" /\ at'[t] = at[t] + 1 /\ entrys'[idx'[t]] = bucket
          /\ arr'[t].elts = Append(a.elts, key) /\ arr'[t].nalloc = n
      BY <1>1, <1>2 DEF CopyTypeOK
    <2>2. \A k : k \in FirstEntries(t)' <=> k \in FirstEntries(t) \/ k = key
      <3>1. /\ FirstEntries(t) = {bucket[j].key : j \in 1..at[t] - 1}
            /\ FirstEntries(t)' = {bucket[j].key : j \in 1..(at[t] + 1) - 1}
        BY <2>1 DEF FirstEntries
      <3>2. \A j : j \in 1..(at[t] + 1) - 1 <=> j \in 1..at[t] - 1 \/ j = at[t]
        BY <1>4
      <3> QED
        BY <3>1, <3>2 DEF key
    <2>3. \A k : Copied(t, k)' <=> Copied(t, k) \/ k = key
      <3>1. \A i : i \in 1..Len(a.elts) + 1 <=> i \in 1..Len(a.elts) \/ i = Len(a.elts) + 1
        BY <1>7
      <3>2. ASSUME NEW k PROVE Copied(t, k)' <=> \E i \in 1..Len(a.elts) + 1 : Append(a.elts, key)[i] = k
        BY <1>7, <2>1 DEF Copied
      <3> QED
        BY <1>7, <3>1, <3>2 DEF Copied
    <2>4. ~Copied(t, key)
      <3>1. ~(Hash[key] < idx[t])
        BY <1>3, <1>5 DEF Bucket, ValuesAssumption, TableAssumption
      <3>2. ASSUME key \in FirstEntries(t) PROVE FALSE
        <4>1. PICK j \in 1..at[t] - 1 : bucket[j].key = key
          BY <3>2 DEF FirstEntries
        <4>2. j \in 1..Len(bucket) /\ j # at[t]
          BY <1>4
        <4> QED
          BY <1>3, <1>4, <4>1, <4>2 DEF Unique, key
      <3> QED
        BY <1>1, <1>2, <1>5, <3>1, <3>2 DEF CopyOf
    <2>5. /\ \A k \in steady[t] : HasKey(entrys[Hash[k]], k)
          /\ \A k \in Key : Copied(t, k) => Hash[k] < idx[t] \/ k \in FirstEntries(t)
          /\ \A k \in steady[t] : Hash[k] < idx[t] => Copied(t, k)
          /\ \A k \in FirstEntries(t) : Copied(t, k)
          /\ \A i, j \in 1..Len(a.elts) : a.elts[i] = a.elts[j] => i = j
          /\ a.nalloc > 0 => Len(a.elts) <= a.nalloc
      BY <1>1, <1>2 DEF CopyOf, Copying
    <2>6. at[t] + 1 \in 1..Len(bucket) + 1
      BY <1>4
    <2>7. \A i, j \in 1..Len(arr'[t].elts) : arr'[t].elts[i] = arr'[t].elts[j] => i = j
      <3> DEFINE e == a.elts
                 f == Append(a.elts, key)
      <3>1. \A i \in 1..Len(e) : f[i] # f[Len(e) + 1]
        BY <1>7, <2>4 DEF Copied
      <3>2. \A i, j \in 1..Len(e) : f[i] = f[j] => i = j
        BY <1>7, <2>5
      <3>3. \A i \in 1..Len(f) : i \in 1..Len(e) \/ i = Len(e) + 1
        BY <1>7
      <3> HIDE DEF e, f
      <3>4. \A i, j \in 1..Len(f) : f[i] = f[j] => i = j
        BY <3>1, <3>2, <3>3
      <3> QED
        BY <2>1, <3>4 DEF f
    <2>8. arr'[t].nalloc > 0 => Len(arr'[t].elts) <= arr'[t].nalloc
      BY <1>6, <1>7, <2>1, <2>5 DEF n
    <2>9. (/\ pc[t] = "copying" => lock[idx[t]] = t /\ at[t] \in 1..Len(entrys[idx[t]]) + 1
           /\ Copying(t) => \A k \in steady[t] : HasKey(entrys[Hash[k]], k))'
      BY <1>2, <1>4, <2>1, <2>5, <2>6 DEF HasKey
    <2>10. (pc[t] \in {"array", "copying"} =>
              /\ \A k \in Key : Copied(t, k) =>
                    Hash[k] < idx[t] \/ (pc[t] = "copying" /\ k \in FirstEntries(t))
              /\ \A k \in steady[t] : Hash[k] < idx[t] => Copied(t, k))'
      BY <1>2, <2>1, <2>2, <2>3, <2>5
    <2>11. (/\ pc[t] = "copying" => \A k \in FirstEntries(t) : Copied(t, k)
            /\ pc[t] = "copied" => \A k \in steady[t] : Copied(t, k))'
      BY <2>1, <2>2, <2>3, <2>5
    <2> QED
      BY <2>7, <2>8, <2>9, <2>10, <2>11 DEF CopyOf
  <1> QED
    BY <1>8, <1>9, <1>10, CopyInvNext

LEMMA CopyUnlocks ==
    ASSUME ValuesAssumption, TableInv, CopyInv, NEW t \in Thread, ArrayUnlock(t)
    PROVE  CopyInv'
  <1> DEFINE b == idx[t]
             bucket == entrys[b]
  <1>1. CopyTypeOK /\ (\A u \in Thread : CopyOf(u)) /\ TableTypeOK
    BY CopyInvIs DEF TableInv
  <1>2. /\ pc[t] = "copying" /\ at[t] > Len(bucket)
        /\ lock' = [lock EXCEPT ![b] = NULL] /\ at' = [at EXCEPT ![t] = 0]
        /\ idx' = [idx EXCEPT ![t] = (b + 1) % size]
        /\ pc' = [pc EXCEPT ![t] = IF b = size - 1 THEN "copied" ELSE "array"]
        /\ UNCHANGED <<entrys, arr, steady>>
    BY DEF ArrayUnlock
  <1>3. /\ bucket \in Seq(Entry) /\ b \in Bucket /\ b \in 0..size - 1 /\ size \in Nat \ {0}
        /\ \A c : HasKey(bucket, c) => Hash[c] = b
    BY <1>1, BucketsKept DEF TableTypeOK, WellKept, Bucket, ValuesAssumption, TableAssumption
  <1>4. at[t] = Len(bucket) + 1 /\ Len(bucket) \in Nat /\ lock[b] = t
    <2>1. at[t] \in 1..Len(bucket) + 1 /\ lock[b] = t
      BY <1>1, <1>2 DEF CopyOf
    <2>2. Len(bucket) \in Nat
      BY <1>3
    <2> QED
      BY <1>2, <2>1, <2>2
  <1>5. \A k : k \in FirstEntries(t) <=> HasKey(bucket, k)
    BY <1>4 DEF FirstEntries, HasKey
  <1>6. CopyTypeOK'
    BY <1>1, <1>2 DEF CopyTypeOK
  <1>7. ASSUME NEW u \in Thread, u # t PROVE CopyOf(u)'
    <2>1. /\ pc'[u] = pc[u] /\ idx'[u] = idx[u] /\ at'[u] = at[u] /\ arr'[u] = arr[u]
          /\ steady'[u] = steady[u]
      BY <1>1, <1>2, <1>7 DEF TableTypeOK, CopyTypeOK
    <2>2. \A c \in Bucket : lock[c] = u => lock'[c] = u
      BY <1>1, <1>2, <1>4, <1>7 DEF TableTypeOK
    <2> QED
      BY <1>1, <1>2, <2>1, <2>2, OtherThread
  <1>8. CopyOf(t)'
    <2>1. /\ \A k \in steady[t] : HasKey(entrys[Hash[k]], k)
          /\ \A k \in Key : Copied(t, k) => Hash[k] < b \/ HasKey(bucket, k)
          /\ \A k \in steady[t] : Hash[k] < b => Copied(t, k)
          /\ \A k : HasKey(bucket, k) => Copied(t, k)
          /\ \A i, j \in 1..Len(arr[t].elts) : arr[t].elts[i] = arr[t].elts[j] => i = j
          /\ arr[t].nalloc > 0 => Len(arr[t].elts) <= arr[t].nalloc
      BY <1>1, <1>2, <1>5 DEF CopyOf, Copying
    <2>2. \A k : Copied(t, k)' = Copied(t, k)
      BY <1>2 DEF Copied
    <2>3. \A k \in Key : Copied(t, k) => Hash[k] < b \/ Hash[k] = b
      BY <1>3, <2>1
    <2>4. \A k \in steady[t] : Hash[k] < b \/ Hash[k] = b => Copied(t, k)
      BY <2>1
    <2>5. \A k \in steady[t] : k \in Key /\ Hash[k] \in 0..size - 1
      BY <1>1 DEF CopyTypeOK, ValuesAssumption, TableAssumption
    <2>6. steady'[t] = steady[t] /\ arr'[t] = arr[t] /\ \A k \in steady[t] : HasKey(entrys'[Hash[k]], k)
      BY <1>2, <2>1
    <2>7. CASE b = size - 1
      <3>1. pc'[t] = "copied"
        BY <1>1, <1>2, <2>7 DEF TableTypeOK
      <3>2. \A k \in steady[t] : Copied(t, k)
        BY <1>3, <2>4, <2>5, <2>7
      <3> QED
        BY <2>1, <2>2, <2>6, <3>1, <3>2 DEF CopyOf, HasKey
    <2>8. CASE b # size - 1
      <3>1. pc'[t] = "array" /\ idx'[t] = (b + 1) % size
        BY <1>1, <1>2, <2>8 DEF TableTypeOK
      <3>2. (b + 1) % size = b + 1
        BY <1>3, <2>8
      <3>3. \A k \in Key : Hash[k] \in 0..size - 1
        BY DEF ValuesAssumption, TableAssumption
      <3>4. \A k \in Key : Hash[k] < b + 1 <=> Hash[k] < b \/ Hash[k] = b
        BY <1>3, <3>3
      <3>5. /\ \A k \in Key : Copied(t, k) => Hash[k] < b + 1
            /\ \A k \in steady[t] : Hash[k] < b + 1 => Copied(t, k)
        BY <2>3, <2>4, <2>5, <3>4
      <3> HIDE DEF b
      <3> QED
        BY <2>1, <2>2, <2>6, <3>1, <3>2, <3>5 DEF CopyOf, HasKey
    <2> QED
      BY <2>7, <2>8
  <1> QED
    BY <1>6, <1>7, <1>8, CopyInvNext

LEMMA CopyIsDropped ==
    ASSUME ValuesAssumption, TableInv, CopyInv, NEW t \in Thread, ArrayDestroy(t)
    PROVE  CopyInv'
  <1>1. CopyTypeOK /\ (\A u \in Thread : CopyOf(u)) /\ TableTypeOK
    BY CopyInvIs DEF TableInv
  <1>2. /\ arr' = [arr EXCEPT ![t] = [elts |-> <<>>, nalloc |-> 0]]
        /\ steady' = [steady EXCEPT ![t] = {}] /\ pc' = [pc EXCEPT ![t] = "idle"]
        /\ UNCHANGED <<entrys, lock, idx, at>>
    BY DEF ArrayDestroy
  <1>3. CopyTypeOK'
    <2>1. [elts |-> <<>>, nalloc |-> 0] \in [elts : Seq(Key), nalloc : Int]
      OBVIOUS
    <2> QED
      BY <1>1, <1>2, <2>1 DEF CopyTypeOK
  <1>4. ASSUME NEW u \in Thread, u # t PROVE CopyOf(u)'
    <2>1. /\ pc'[u] = pc[u] /\ idx'[u] = idx[u] /\ at'[u] = at[u] /\ arr'[u] = arr[u]
          /\ steady'[u] = steady[u]
      BY <1>1, <1>2, <1>4 DEF TableTypeOK, CopyTypeOK
    <2> QED
      BY <1>1, <1>2, <2>1, OtherThread
  <1>5. CopyOf(t)'
    <2>1. pc'[t] = "idle" /\ arr'[t] = [elts |-> <<>>, nalloc |-> 0]
      BY <1>1, <1>2 DEF TableTypeOK, CopyTypeOK
    <2> QED
      BY <1>1, <2>1, NoCopy
  <1> QED
    BY <1>3, <1>4, <1>5, CopyInvNext

LEMMA CopyInvStep ==
    ASSUME ValuesAssumption, TableInv, CopyInv, [TableNext]_tableVars
    PROVE  CopyInv'
  <1>1. CopyTypeOK /\ TableTypeOK /\ WellKept(entrys) /\ entrys \in [Bucket -> Seq(Entry)]
    BY BucketsKept DEF TableInv, CopyInv
  <1>2. ASSUME UNCHANGED <<entrys, lock, pc, walkVars, steady>> PROVE CopyInv'
    <2>1. CopyTypeOK'
      BY <1>1, <1>2 DEF CopyTypeOK, walkVars
    <2>2. ASSUME NEW u \in Thread PROVE CopyOf(u)'
      BY <1>1, <1>2, CopyInvIs, OtherThread DEF walkVars
    <2> QED
      BY <2>1, <2>2, CopyInvNext
  <1>3. ASSUME NEW t \in Thread, NEW k \in Key, NEW v \in Value, table_put(t, k, v) PROVE CopyInv'
    <2>1. CASE ValueOf(k) = NULL
      <3>1. /\ entrys' \in [Bucket -> Seq(Entry)] /\ WellKept(entrys')
            /\ \A c \in Key : ValueOf(c)' = IF c = k THEN v ELSE ValueOf(c)
        BY <1>3, <2>1, PutChanges
      <3>2. /\ pc' = [pc EXCEPT ![t] = "counting up"] /\ lock[Hash[k]] = NULL
            /\ \A b \in Bucket : b # Hash[k] => entrys'[b] = entrys[b] /\ lock'[b] = lock[b]
            /\ UNCHANGED <<idx, at, arr, steady>>
        BY <1>1, <1>3, <2>1 DEF table_put, Free, walkVars, TableTypeOK
      <3>3. /\ pc'[t] = "counting up" /\ \A u \in Thread : u # t => pc'[u] = pc[u]
        BY <1>1, <3>2 DEF TableTypeOK
      <3>4. \A u \in Thread : \A c \in steady'[u] : ValueOf(c) # NULL => ValueOf(c)' # NULL
        BY <1>1, <3>1, <3>2 DEF CopyTypeOK, ValuesAssumption
      <3>5. \A b \in Bucket : lock[b] \notin {t, NULL} => lock'[b] = lock[b] /\ entrys'[b] = entrys[b]
        BY <3>2
      <3> QED
        BY <1>1, <3>1, <3>2, <3>3, <3>4, <3>5, CopyBesideCalls DEF CopyTypeOK
    <2>2. CASE ValueOf(k) # NULL
      BY <1>2, <1>3, <2>2 DEF table_put
    <2> QED
      BY <2>1, <2>2
  <1>4. ASSUME NEW t \in Thread, NEW k \in Key, table_remove(t, k) PROVE CopyInv'
    <2>1. CASE Find(k) # 0
      <3>1. /\ entrys' \in [Bucket -> Seq(Entry)] /\ WellKept(entrys')
            /\ \A c \in Key : ValueOf(c)' = IF c = k THEN NULL ELSE ValueOf(c)
        BY <1>4, <2>1, RemoveChanges
      <3>2. /\ pc' = [pc EXCEPT ![t] = "counting down"] /\ lock[Hash[k]] = NULL
            /\ \A b \in Bucket : b # Hash[k] => entrys'[b] = entrys[b] /\ lock'[b] = lock[b]
            /\ UNCHANGED <<idx, at, arr>> /\ steady' = [u \in Thread |-> steady[u] \ {k}]
        BY <1>1, <1>4, <2>1 DEF table_remove, Free, walkVars, TableTypeOK
      <3>3. /\ pc'[t] = "counting down" /\ \A u \in Thread : u # t => pc'[u] = pc[u]
        BY <1>1, <3>2 DEF TableTypeOK
      <3>4. \A u \in Thread : \A c \in steady'[u] : c \in Key /\ c # k
        BY <1>1, <3>2 DEF CopyTypeOK
      <3>5. \A u \in Thread : \A c \in steady'[u] : ValueOf(c) # NULL => ValueOf(c)' # NULL
        BY <3>1, <3>4
      <3>6. \A b \in Bucket : lock[b] \notin {t, NULL} => lock'[b] = lock[b] /\ entrys'[b] = entrys[b]
        BY <3>2
      <3>7. steady' \in [Thread -> SUBSET Key] /\ \A u \in Thread : steady'[u] \subseteq steady[u]
        BY <1>1, <3>2 DEF CopyTypeOK
      <3>8. at' \in [Thread -> Nat] /\ \A u \in Thread : u # t => idx'[u] = idx[u] /\ at'[u] = at[u]
        BY <1>1, <3>2 DEF CopyTypeOK
      <3> QED
        BY <3>1, <3>2, <3>3, <3>5, <3>6, <3>7, <3>8, CopyBesideCalls
    <2>2. CASE Find(k) = 0
      BY <1>2, <1>4, <2>2 DEF table_remove
    <2> QED
      BY <2>1, <2>2
  <1>5. ASSUME NEW t \in Thread, Count(t) PROVE CopyInv'
    <2>1. /\ pc' = [pc EXCEPT ![t] = "idle"] /\ UNCHANGED <<entrys, idx, at, arr, steady>>
          /\ lock' = [b \in Bucket |-> IF lock[b] = t THEN NULL ELSE lock[b]]
      BY <1>5 DEF Count, walkVars
    <2>2. pc'[t] = "idle" /\ \A u \in Thread : u # t => pc'[u] = pc[u]
      BY <1>1, <2>1 DEF TableTypeOK
    <2>3. \A b \in Bucket : lock[b] \notin {t, NULL} => lock'[b] = lock[b] /\ entrys'[b] = entrys[b]
      BY <2>1
    <2>4. \A k \in Key : ValueOf(k)' = ValueOf(k)
      BY <2>1, BucketsKept
    <2>5. \A u \in Thread : \A k \in steady'[u] : ValueOf(k) # NULL => ValueOf(k)' # NULL
      BY <1>1, <2>1, <2>4 DEF CopyTypeOK
    <2> QED
      BY <1>1, <2>1, <2>2, <2>3, <2>5, CopyBesideCalls DEF CopyTypeOK
  <1>6. ASSUME NEW t \in Thread, MapBegin(t) PROVE CopyInv'
    <2>1. /\ pc' = [pc EXCEPT ![t] = "map"] /\ UNCHANGED <<entrys, lock, at, arr, steady>>
          /\ idx' = [idx EXCEPT ![t] = 0]
      BY <1>6 DEF MapBegin
    <2>2. pc'[t] = "map" /\ \A u \in Thread : u # t => pc'[u] = pc[u] /\ idx'[u] = idx[u]
      BY <1>1, <2>1 DEF TableTypeOK
    <2>3. \A k \in Key : ValueOf(k)' = ValueOf(k)
      BY <2>1, BucketsKept
    <2>4. \A u \in Thread : \A k \in steady'[u] : ValueOf(k) # NULL => ValueOf(k)' # NULL
      BY <1>1, <2>1, <2>3 DEF CopyTypeOK
    <2> QED
      BY <1>1, <2>1, <2>2, <2>4, CopyBesideCalls DEF CopyTypeOK
  <1>7. ASSUME NEW t \in Thread, MapBucket(t) PROVE CopyInv'
    <2>1. /\ entrys' \in [Bucket -> Seq(Entry)] /\ WellKept(entrys')
          /\ \A c \in Key : ValueOf(c)' = NULL <=> ValueOf(c) = NULL
      BY <1>7, MapChanges
    <2>2. PICK q \in {"idle", "map"} : pc' = [pc EXCEPT ![t] = q]
      BY <1>7 DEF MapBucket
    <2>3. /\ idx' = [idx EXCEPT ![t] = (idx[t] + 1) % size] /\ lock[idx[t]] = NULL
          /\ UNCHANGED <<lock, at, arr, steady>>
          /\ \A b \in Bucket : b # idx[t] => entrys'[b] = entrys[b]
      <3>1. PICK new \in [DOMAIN entrys[idx[t]] -> Value] :
               entrys' = [entrys EXCEPT ![idx[t]] = [i \in DOMAIN @ |-> [@[i] EXCEPT !.value = new[i]]]]
        BY <1>7 DEF MapBucket
      <3>2. \A b \in Bucket : b # idx[t] => entrys'[b] = entrys[b]
        BY <1>1, <3>1
      <3> QED
        BY <1>7, <3>2 DEF MapBucket, Free
    <2>4. /\ pc'[t] \notin {"array", "copying", "copied"}
          /\ \A u \in Thread : u # t => pc'[u] = pc[u] /\ idx'[u] = idx[u]
      BY <1>1, <2>2, <2>3 DEF TableTypeOK
    <2>5. \A u \in Thread : \A k \in steady'[u] : ValueOf(k) # NULL => ValueOf(k)' # NULL
      BY <1>1, <2>1, <2>3 DEF CopyTypeOK
    <2>6. \A b \in Bucket : lock[b] \notin {t, NULL} => lock'[b] = lock[b] /\ entrys'[b] = entrys[b]
      BY <2>3
    <2> QED
      BY <1>1, <2>1, <2>3, <2>4, <2>5, <2>6, CopyBesideCalls DEF CopyTypeOK
  <1>8. ASSUME NEW t \in Thread, NEW k \in Key, table_get(t, k) PROVE CopyInv'
    BY <1>2, <1>8 DEF table_get
  <1>9. CASE table_free
    BY <1>2, <1>9 DEF table_free
  <1>10. CASE UNCHANGED tableVars
    BY <1>2, <1>10 DEF tableVars, walkVars
  <1> QED
    BY <1>3, <1>4, <1>5, <1>6, <1>7, <1>8, <1>9, <1>10,
       CopyBegins, CopyLocks, CopyPushes, CopyUnlocks, CopyIsDropped DEF TableNext

(* A copy holds the keys of the buckets behind it and the first ones of the bucket *)
(* it has locked, whatever other threads do meanwhile (table_to_array).            *)
THEOREM CopyInductive ==
    ASSUME ValuesAssumption, IsFiniteSet(Thread) PROVE TableSpec => []CopyInv
  <1>1. TableInit => CopyInv
    BY InitCopyInv
  <1>2. TableInv /\ CopyInv /\ [TableNext]_tableVars => CopyInv'
    BY CopyInvStep
  <1> QED
    BY <1>1, <1>2, TableInductive, PTL DEF TableSpec

(* The counter is exact, and a copy beside other calls holds every key that was  *)
(* there all the time, none twice, within its memory (table.c, arr.c).           *)
THEOREM CopyComplete ==
    ASSUME ValuesAssumption, IsFiniteSet(Thread) PROVE TableSpec => []ArrayComplete
  <1>1. TableInv /\ CopyInv => ArrayComplete
    <2> SUFFICES ASSUME TableInv, CopyInv PROVE ArrayComplete
      OBVIOUS
    <2>1. LengthExact
      BY DEF TableInv
    <2>2. ASSUME NEW t \in Thread
          PROVE  /\ pc[t] = "copied" => steady[t] \subseteq ToSet(arr[t].elts)
                 /\ IsInjective(arr[t].elts)
                 /\ arr[t].nalloc > 0 => Len(arr[t].elts) <= arr[t].nalloc
      <3>1. arr[t].elts \in Seq(Key)
        BY DEF CopyInv, CopyTypeOK
      <3>2. DOMAIN arr[t].elts = 1..Len(arr[t].elts)
        BY <3>1, LenProperties
      <3>3. pc[t] = "copied" => steady[t] \subseteq ToSet(arr[t].elts)
        BY <3>2 DEF CopyInv, CopySoFar, Copied, ToSet
      <3>4. IsInjective(arr[t].elts)
        BY <3>2 DEF CopyInv, CopyFits, IsInjective
      <3> QED
        BY <3>3, <3>4 DEF CopyInv, CopyFits
    <2> QED
      BY <2>1, <2>2 DEF ArrayComplete
  <1> QED
    BY <1>1, TableInductive, CopyInductive, PTL

-----------------------------------------------------------------------------
(* Trie *)


(* The prefixes of a sequence of labels. *)
LEMMA PrefixIs ==
    ASSUME NEW q \in Seq(Label), NEW i \in 0..Len(q)
    PROVE  /\ Prefix(q, i) \in Seq(Label) /\ Len(Prefix(q, i)) = i /\ Len(q) \in Nat
           /\ \A j \in 1..i : Prefix(q, i)[j] = q[j]
  BY FrontPlaces DEF Prefix

(* Sequences of labels with the same places are equal. *)
LEMMA SameLabels ==
    ASSUME NEW a \in Seq(Label), NEW b \in Seq(Label), Len(a) = Len(b),
           \A j \in 1..Len(a) : a[j] = b[j]
    PROVE  a = b
  BY SeqEqual

(* Prefixes of prefixes. *)
LEMMA PrefixPrefix ==
    ASSUME NEW q \in Seq(Label), NEW i \in 0..Len(q), NEW k \in 0..i
    PROVE  Prefix(Prefix(q, i), k) = Prefix(q, k) /\ k \in 0..Len(q) /\ k \in 0..Len(Prefix(q, i))
  <1> DEFINE r == Prefix(q, i)
  <1>1. r \in Seq(Label) /\ Len(r) = i /\ Len(q) \in Nat /\ \A j \in 1..i : r[j] = q[j]
    BY PrefixIs
  <1>2. k \in 0..Len(q) /\ k \in 0..Len(r)
    BY <1>1
  <1> HIDE DEF r
  <1>3. /\ Prefix(r, k) \in Seq(Label) /\ Len(Prefix(r, k)) = k /\ \A j \in 1..k : Prefix(r, k)[j] = r[j]
        /\ Prefix(q, k) \in Seq(Label) /\ Len(Prefix(q, k)) = k /\ \A j \in 1..k : Prefix(q, k)[j] = q[j]
    BY <1>1, <1>2, PrefixIs
  <1>4. \A j \in 1..k : Prefix(r, k)[j] = Prefix(q, k)[j]
    BY <1>1, <1>3
  <1>5. Prefix(r, k) = Prefix(q, k)
    BY <1>3, <1>4, SameLabels
  <1> QED
    BY <1>2, <1>5 DEF r

(* The shortest prefix and the longest one. *)
LEMMA PrefixEnds ==
    ASSUME NEW q \in Seq(Label)
    PROVE  Prefix(q, 0) = Root /\ Prefix(q, Len(q)) = q /\ 0 \in 0..Len(q) /\ Len(q) \in 0..Len(q)
  <1>1. Len(q) \in Nat /\ 0 \in 0..Len(q) /\ Len(q) \in 0..Len(q)
    BY QueuePlaces
  <1>2. Prefix(q, 0) \in Seq(Label) /\ Len(Prefix(q, 0)) = 0
    BY <1>1, PrefixIs
  <1>3. Prefix(q, Len(q)) \in Seq(Label) /\ Len(Prefix(q, Len(q))) = Len(q)
        /\ \A j \in 1..Len(q) : Prefix(q, Len(q))[j] = q[j]
    BY <1>1, PrefixIs
  <1>4. Prefix(q, 0) = Root
    BY <1>2, EmptySeq DEF Root
  <1>5. Prefix(q, Len(q)) = q
    BY <1>3, SameLabels
  <1> QED
    BY <1>1, <1>4, <1>5

(* A path with a label behind it. *)
LEMMA Longer ==
    ASSUME NEW p \in Seq(Label), NEW l \in Label
    PROVE  /\ Append(p, l) \in Seq(Label) /\ Len(p) \in Nat /\ Len(Append(p, l)) = Len(p) + 1
           /\ Append(p, l)[Len(p) + 1] = l
           /\ Prefix(Append(p, l), Len(p)) = p /\ Len(p) \in 0..Len(Append(p, l))
           /\ \A i \in 0..Len(p) : i \in 0..Len(Append(p, l)) /\ Prefix(Append(p, l), i) = Prefix(p, i)
  <1> DEFINE r == Append(p, l)
  <1>1. /\ r \in Seq(Label) /\ Len(p) \in Nat /\ Len(r) = Len(p) + 1 /\ r[Len(p) + 1] = l
        /\ \A j \in 1..Len(p) : r[j] = p[j]
    BY AppendPlaces, QueuePlaces
  <1> HIDE DEF r
  <1>2. Len(p) \in 0..Len(r)
    BY <1>1
  <1>3. /\ Prefix(r, Len(p)) \in Seq(Label) /\ Len(Prefix(r, Len(p))) = Len(p)
        /\ \A j \in 1..Len(p) : Prefix(r, Len(p))[j] = r[j]
    BY <1>1, <1>2, PrefixIs
  <1>4. Prefix(r, Len(p)) = p
    <2>1. \A j \in 1..Len(p) : Prefix(r, Len(p))[j] = p[j]
      BY <1>1, <1>3
    <2> QED
      BY <1>3, <2>1, SameLabels
  <1>5. \A i \in 0..Len(p) : i \in 0..Len(r) /\ Prefix(r, i) = Prefix(p, i)
    <2> SUFFICES ASSUME NEW i \in 0..Len(p) PROVE i \in 0..Len(r) /\ Prefix(r, i) = Prefix(p, i)
      OBVIOUS
    <2>1. i \in 0..Len(r)
      BY <1>1
    <2>2. Prefix(Prefix(r, Len(p)), i) = Prefix(r, i)
      BY <1>1, <1>2, PrefixPrefix
    <2> QED
      BY <1>4, <2>1, <2>2
  <1> QED
    BY <1>1, <1>2, <1>4, <1>5 DEF r

(* The next prefix has one label more. *)
LEMMA NextPrefix ==
    ASSUME NEW q \in Seq(Label), NEW i \in 0..Len(q) - 1
    PROVE  /\ Prefix(q, i + 1) = Append(Prefix(q, i), q[i + 1]) /\ q[i + 1] \in Label
           /\ i \in 0..Len(q) /\ i + 1 \in 0..Len(q) /\ i \in Nat /\ Len(q) \in Nat
  <1>1. i \in 0..Len(q) /\ i + 1 \in 0..Len(q) /\ i \in Nat /\ i + 1 \in 1..Len(q) /\ Len(q) \in Nat
    BY QueuePlaces
  <1>2. q[i + 1] \in Label
    BY <1>1, QueuePlaces
  <1> DEFINE a == Prefix(q, i)
             b == Prefix(q, i + 1)
             r == Append(a, q[i + 1])
  <1>3. a \in Seq(Label) /\ Len(a) = i /\ \A j \in 1..i : a[j] = q[j]
    BY <1>1, PrefixIs
  <1>4. b \in Seq(Label) /\ Len(b) = i + 1 /\ \A j \in 1..i + 1 : b[j] = q[j]
    BY <1>1, PrefixIs
  <1>5. r \in Seq(Label) /\ Len(r) = i + 1 /\ r[i + 1] = q[i + 1] /\ \A j \in 1..i : r[j] = a[j]
    BY <1>2, <1>3, AppendPlaces
  <1> HIDE DEF a, b, r
  <1>6. \A j \in 1..i + 1 : b[j] = r[j]
    <2> SUFFICES ASSUME NEW j \in 1..i + 1 PROVE b[j] = r[j]
      OBVIOUS
    <2>1. j = i + 1 \/ j \in 1..i
      BY <1>1
    <2> QED
      BY <1>3, <1>4, <1>5, <2>1
  <1>7. b = r
    BY <1>4, <1>5, <1>6, SameLabels
  <1> QED
    BY <1>1, <1>2, <1>7 DEF a, b, r

(* Every node has its prefixes above it. *)
LEMMA NodesAbove ==
    ASSUME TrieInv, NEW p \in DOMAIN trie
    PROVE  p \in Seq(Label) /\ Len(p) \in Nat /\ \A i \in 0..Len(p) : Prefix(p, i) \in DOMAIN trie
  BY QueuePlaces DEF TrieInv, TrieTypeOK, ChildrenOnce

(* The nodes on the way of a name are the first ones, Depth of them and the root. *)
LEMMA DepthIs ==
    ASSUME TrieInv, NEW q \in Seq(Label)
    PROVE  LET d == Depth(q)
           IN  /\ d \in 0..Len(q) /\ d \in Nat /\ Len(q) \in Nat
               /\ \A i \in 0..Len(q) : Prefix(q, i) \in DOMAIN trie <=> i <= d
  <1> DEFINE D == DOMAIN trie
             IsDepth(i) == Prefix(q, i) \in D /\ (i < Len(q) => Prefix(q, i + 1) \notin D)
             I == {i \in 0..Len(q) : Prefix(q, i) \notin D}
  <1>1. Len(q) \in Nat /\ Prefix(q, 0) \in D
    BY QueuePlaces, PrefixEnds DEF TrieInv
  <1>2. \E i \in 0..Len(q) : IsDepth(i)
    <2>1. CASE I = {}
      <3>1. Len(q) \in 0..Len(q) /\ Len(q) \notin I
        BY <1>1, <2>1
      <3>2. IsDepth(Len(q))
        BY <1>1, <3>1
      <3> QED
        BY <3>1, <3>2
    <2>2. CASE I # {}
      <3> DEFINE k == Min(I)
      <3>1. I \in SUBSET Nat
        OBVIOUS
      <3> HIDE DEF I
      <3>2. k \in I /\ \A y \in I : k <= y
        BY <2>2, <3>1, SmallestIsIn
      <3> HIDE DEF k
      <3>3. k \in 0..Len(q) /\ Prefix(q, k) \notin D
        BY <3>2 DEF I
      <3>4. k # 0
        BY <1>1, <3>3
      <3>5. k - 1 \in 0..Len(q) /\ ~(k <= k - 1) /\ k - 1 + 1 = k
        BY <1>1, <3>3, <3>4
      <3>6. k - 1 \notin I
        BY <3>2, <3>5
      <3>7. Prefix(q, k - 1) \in D
        BY <3>5, <3>6 DEF I
      <3>8. IsDepth(k - 1)
        BY <3>3, <3>5, <3>7
      <3> QED
        BY <3>5, <3>8
    <2> QED
      BY <2>1, <2>2
  <1> DEFINE d == Depth(q)
  <1>3. d = CHOOSE i \in 0..Len(q) : IsDepth(i)
    BY DEF Depth
  <1> HIDE DEF d, IsDepth
  <1>4. d \in 0..Len(q) /\ IsDepth(d)
    BY <1>2, <1>3
  <1>5. d \in Nat
    BY <1>4
  <1>6. \A i \in 0..Len(q) : Prefix(q, i) \in D <=> i <= d
    <2> SUFFICES ASSUME NEW i \in 0..Len(q) PROVE Prefix(q, i) \in D <=> i <= d
      OBVIOUS
    <2>1. ASSUME i <= d PROVE Prefix(q, i) \in D
      <3>1. i \in 0..d
        BY <1>5, <2>1
      <3>2. Prefix(Prefix(q, d), i) = Prefix(q, i) /\ i \in 0..Len(Prefix(q, d))
        BY <1>4, <3>1, PrefixPrefix
      <3>3. Prefix(q, d) \in DOMAIN trie
        BY <1>4 DEF IsDepth
      <3> QED
        BY <3>2, <3>3, NodesAbove
    <2>2. ASSUME i > d PROVE Prefix(q, i) \notin D
      <3>1. d + 1 \in 0..i /\ d < Len(q)
        BY <1>1, <1>5, <2>2
      <3>2. Prefix(Prefix(q, i), d + 1) = Prefix(q, d + 1) /\ d + 1 \in 0..Len(Prefix(q, i))
        BY <3>1, PrefixPrefix
      <3>3. Prefix(q, d + 1) \notin D
        BY <1>4, <3>1 DEF IsDepth
      <3> QED
        BY <3>2, <3>3, NodesAbove
    <2> QED
      BY <1>5, <2>1, <2>2
  <1> QED
    BY <1>1, <1>4, <1>5, <1>6 DEF d

(* What an insertion makes of the nodes. *)
LEMMA InsertIs ==
    ASSUME TrieAssumption, TrieInv, NEW q \in Name, NEW v \in Datum, trie_insert_arr(q, v)
    PROVE  LET d == Depth(q)
               new == {Prefix(q, i) : i \in d + 1..Len(q)}
           IN  /\ DOMAIN trie' = DOMAIN trie \cup new
               /\ \A p \in DOMAIN trie' :
                     /\ p \in Seq(Label)
                     /\ trie'[p] = [value |-> trie'[p].value, child |-> trie'[p].child]
                     /\ trie'[p].value = IF p = q /\ DatumAt(q) = NoDatum THEN v ELSE DatumAt(p)
                     /\ p \in new /\ p # q => trie'[p].child = Append(<<>>, q[Len(p) + 1])
                     /\ p \in new /\ p = q => trie'[p].child = <<>>
                     /\ p \notin new /\ p = Prefix(q, d) /\ p # q
                           => trie'[p].child = Append(trie[p].child, q[Len(p) + 1])
                     /\ p \notin new /\ (p # Prefix(q, d) \/ p = q) => trie'[p].child = trie[p].child
  <1> DEFINE d == Depth(q)
             new == {Prefix(q, i) : i \in d + 1..Len(q)}
             val(p) == IF p = q /\ DatumAt(q) = NoDatum THEN v ELSE DatumAt(p)
             old(p) == IF p \in new THEN <<>> ELSE trie[p].child
             more(p) == IF p \in new \cup {Prefix(q, d)} /\ p # q THEN <<q[Len(p) + 1]>> ELSE <<>>
             D == DOMAIN trie \cup new
  <1>1. trie' = [p \in D |-> [value |-> val(p), child |-> old(p) \o more(p)]]
    BY DEF trie_insert_arr
  <1>2. q \in Seq(Label) /\ Len(q) \in Nat
    BY QueuePlaces DEF TrieAssumption
  <1>3. d \in 0..Len(q) /\ d \in Nat
    BY <1>2, DepthIs
  <1>4. \A p \in new : p \in Seq(Label) /\ Len(p) \in d + 1..Len(q) /\ p = Prefix(q, Len(p))
    <2> SUFFICES ASSUME NEW i \in d + 1..Len(q)
                 PROVE  /\ Prefix(q, i) \in Seq(Label) /\ Len(Prefix(q, i)) \in d + 1..Len(q)
                        /\ Prefix(q, i) = Prefix(q, Len(Prefix(q, i)))
      OBVIOUS
    <2>1. i \in 0..Len(q)
      BY <1>2, <1>3
    <2> HIDE DEF d
    <2> QED
      BY <1>2, <2>1, PrefixIs
  <1>5. \A p \in D : p \in Seq(Label)
    BY <1>4, NodesAbove
  <1>6. DOMAIN trie' = D
    BY <1>1
  <1>7. ASSUME NEW p \in D
        PROVE  /\ trie'[p] = [value |-> trie'[p].value, child |-> trie'[p].child]
               /\ trie'[p].value = val(p)
               /\ p \in new /\ p # q => trie'[p].child = Append(<<>>, q[Len(p) + 1])
               /\ p \in new /\ p = q => trie'[p].child = <<>>
               /\ p \notin new /\ p = Prefix(q, d) /\ p # q
                     => trie'[p].child = Append(trie[p].child, q[Len(p) + 1])
               /\ p \notin new /\ (p # Prefix(q, d) \/ p = q) => trie'[p].child = trie[p].child
    <2>1. trie'[p] = [value |-> val(p), child |-> old(p) \o more(p)]
      BY <1>1
    <2>2. trie'[p].value = val(p) /\ trie'[p].child = old(p) \o more(p)
      <3> HIDE DEF val, old, more, new
      <3> QED
        BY <2>1
    <2>3. p \in new \cup {Prefix(q, d)} /\ p # q => q[Len(p) + 1] \in Label
      <3> SUFFICES ASSUME p \in new \cup {Prefix(q, d)}, p # q PROVE q[Len(p) + 1] \in Label
        OBVIOUS
      <3>1. Len(p) \in d..Len(q) /\ p = Prefix(q, Len(p))
        <4>1. Len(Prefix(q, d)) = d
          BY <1>2, <1>3, PrefixIs
        <4> HIDE DEF d, new
        <4>2. CASE p \in new
          BY <1>3, <1>4, <4>2
        <4>3. CASE p = Prefix(q, d)
          BY <1>3, <4>1, <4>3
        <4> QED
          BY <4>2, <4>3
      <3>2. Len(p) # Len(q)
        BY <1>2, <3>1, PrefixEnds
      <3>3. Len(p) \in 0..Len(q) - 1
        BY <1>2, <1>3, <3>1, <3>2
      <3> QED
        BY <1>2, <3>3, NextPrefix
    <2>4. p \notin new => trie[p].child \in Seq(Label)
      BY DEF TrieInv, TrieTypeOK
    <2> HIDE DEF new, val
    <2>5. p \in new /\ p # q => old(p) \o more(p) = Append(<<>>, q[Len(p) + 1])
      <3> SUFFICES ASSUME p \in new, p # q PROVE <<>> \o <<q[Len(p) + 1]>> = Append(<<>>, q[Len(p) + 1])
        OBVIOUS
      <3>1. q[Len(p) + 1] \in Label /\ <<>> \in Seq(Label)
        BY <2>3
      <3> QED
        BY <3>1, AppendIsConcat
    <2>6. p \in new /\ p = q => old(p) \o more(p) = <<>>
      <3> SUFFICES <<>> \o <<>> = <<>>
        OBVIOUS
      <3> QED
        OBVIOUS
    <2>7. p \notin new /\ p = Prefix(q, d) /\ p # q
            => old(p) \o more(p) = Append(trie[p].child, q[Len(p) + 1])
      <3> SUFFICES ASSUME p \notin new, p = Prefix(q, d), p # q
                   PROVE  trie[p].child \o <<q[Len(p) + 1]>> = Append(trie[p].child, q[Len(p) + 1])
        OBVIOUS
      <3>1. q[Len(p) + 1] \in Label /\ trie[p].child \in Seq(Label)
        BY <2>3, <2>4
      <3> QED
        BY <3>1, AppendIsConcat
    <2>8. p \notin new /\ (p # Prefix(q, d) \/ p = q) => old(p) \o more(p) = trie[p].child
      <3> SUFFICES ASSUME p \notin new, p # Prefix(q, d) \/ p = q
                   PROVE  trie[p].child \o <<>> = trie[p].child
        OBVIOUS
      <3> QED
        BY <2>4, ConcatEmptySeq
    <2> HIDE DEF old, more
    <2> QED
      BY <2>1, <2>2, <2>5, <2>6, <2>7, <2>8
  <1> HIDE DEF new, d, val
  <1> QED
    BY <1>5, <1>6, <1>7 DEF D, new, d, val

(* A path on the way of a name is one label behind another one. *)
LEMMA OnTheWay ==
    ASSUME NEW q \in Seq(Label), NEW p \in Seq(Label), NEW l \in Label, NEW i \in 0..Len(q)
    PROVE  Append(p, l) = Prefix(q, i)
              <=> Len(p) + 1 = i /\ p = Prefix(q, Len(p)) /\ l = q[Len(p) + 1]
  <1> DEFINE k == Len(p)
  <1>1. /\ Len(Append(p, l)) = k + 1 /\ Append(p, l)[k + 1] = l
        /\ Prefix(Append(p, l), k) = p /\ k \in Nat
    BY Longer
  <1>2. /\ Len(Prefix(q, i)) = i /\ Len(q) \in Nat /\ i \in Nat
        /\ \A j \in 1..i : Prefix(q, i)[j] = q[j]
    BY PrefixIs
  <1> HIDE DEF k
  <1>3. ASSUME Append(p, l) = Prefix(q, i)
        PROVE  k + 1 = i /\ p = Prefix(q, k) /\ l = q[k + 1]
    <2>1. k + 1 = i
      BY <1>1, <1>2, <1>3
    <2>2. k \in 0..i /\ k + 1 \in 1..i
      BY <1>1, <2>1
    <2>3. Prefix(Prefix(q, i), k) = Prefix(q, k)
      BY <2>2, PrefixPrefix
    <2>4. l = q[k + 1]
      BY <1>1, <1>2, <1>3, <2>2
    <2> QED
      BY <1>1, <1>3, <2>1, <2>3, <2>4
  <1>4. ASSUME k + 1 = i, p = Prefix(q, k), l = q[k + 1]
        PROVE  Append(p, l) = Prefix(q, i)
    <2>1. k \in 0..Len(q) - 1
      BY <1>1, <1>2, <1>4
    <2> QED
      BY <1>4, <2>1, NextPrefix
  <1> QED
    BY <1>3, <1>4 DEF k

(* An insertion: missing nodes in a row below the last one there is. *)
LEMMA StepInsertName ==
    ASSUME TrieAssumption, TrieInv, NEW q \in Name, NEW v \in Datum, trie_insert_arr(q, v)
    PROVE  TrieInv'
  <1> DEFINE d == Depth(q)
             n == Len(q)
             D == DOMAIN trie
             new == {Prefix(q, i) : i \in d + 1..Len(q)}
  <1>1. q \in Seq(Label) /\ n \in Nat /\ q # <<>>
    BY QueuePlaces DEF TrieAssumption
  <1>2. /\ d \in 0..n /\ d \in Nat
        /\ \A i \in 0..n : Prefix(q, i) \in D <=> i <= d
    BY <1>1, DepthIs
  <1>3. /\ DOMAIN trie' = D \cup new
        /\ \A p \in DOMAIN trie' :
              /\ p \in Seq(Label)
              /\ trie'[p] = [value |-> trie'[p].value, child |-> trie'[p].child]
              /\ trie'[p].value = IF p = q /\ DatumAt(q) = NoDatum THEN v ELSE DatumAt(p)
              /\ p \in new /\ p # q => trie'[p].child = Append(<<>>, q[Len(p) + 1])
              /\ p \in new /\ p = q => trie'[p].child = <<>>
              /\ p \notin new /\ p = Prefix(q, d) /\ p # q
                    => trie'[p].child = Append(trie[p].child, q[Len(p) + 1])
              /\ p \notin new /\ (p # Prefix(q, d) \/ p = q) => trie'[p].child = trie[p].child
    BY InsertIs
  <1>4. ASSUME NEW p \in new
        PROVE  /\ p \in Seq(Label) /\ Len(p) \in d + 1..n /\ Len(p) \in 0..n /\ p = Prefix(q, Len(p))
               /\ p \notin D
               /\ p # q => Len(p) \in 0..n - 1 /\ q[Len(p) + 1] \in Label
    <2>1. PICK i \in d + 1..n : p = Prefix(q, i)
      OBVIOUS
    <2> HIDE DEF new, d, n
    <2>2. i \in 0..n
      BY <1>1, <1>2, <2>1
    <2>3. p \in Seq(Label) /\ Len(p) = i
      BY <1>1, <2>1, <2>2, PrefixIs DEF n
    <2>4. p \notin D
      BY <1>2, <2>1, <2>2
    <2>5. p # q => i # n
      BY <1>1, <2>1, PrefixEnds DEF n
    <2>6. i # n => i \in 0..n - 1
      BY <1>1, <2>2
    <2>7. i # n => q[i + 1] \in Label
      BY <1>1, <2>6, NextPrefix DEF n
    <2> QED
      BY <2>1, <2>2, <2>3, <2>4, <2>5, <2>6, <2>7
  <1>5. ASSUME NEW p \in Seq(Label), NEW l \in Label
        PROVE  Append(p, l) \in new
                  <=> Len(p) \in d..n - 1 /\ p = Prefix(q, Len(p)) /\ l = q[Len(p) + 1]
    <2>1. Len(p) \in Nat
      BY QueuePlaces
    <2>2. \A i \in d + 1..n : Append(p, l) = Prefix(q, i)
              <=> Len(p) + 1 = i /\ p = Prefix(q, Len(p)) /\ l = q[Len(p) + 1]
      <3> SUFFICES ASSUME NEW i \in d + 1..n
                   PROVE  Append(p, l) = Prefix(q, i)
                      <=> Len(p) + 1 = i /\ p = Prefix(q, Len(p)) /\ l = q[Len(p) + 1]
        OBVIOUS
      <3>1. i \in 0..Len(q)
        BY <1>1, <1>2
      <3> QED
        BY <1>1, <3>1, OnTheWay
    <2>3. Len(p) \in d..n - 1 <=> Len(p) + 1 \in d + 1..n
      BY <1>1, <1>2, <2>1
    <2>4. Append(p, l) \in new <=> \E i \in d + 1..n : Append(p, l) = Prefix(q, i)
      OBVIOUS
    <2> HIDE DEF new, d, n
    <2> QED
      BY <2>2, <2>3, <2>4
  <1>6. Prefix(q, d) \in D /\ Prefix(q, d) \notin new /\ Prefix(q, d) \in Seq(Label) /\ Len(Prefix(q, d)) = d
    <2>1. Prefix(q, d) \in D
      BY <1>2
    <2> HIDE DEF new, d
    <2> QED
      BY <1>1, <1>2, <1>4, <2>1, PrefixIs
  <1>7. d # n => Prefix(q, d) # q /\ q[d + 1] \in Label
    <2>1. d # n => d \in 0..n - 1
      BY <1>1, <1>2
    <2>2. d # n => q[d + 1] \in Label
      BY <1>1, <2>1, NextPrefix
    <2> HIDE DEF d
    <2> QED
      BY <1>6, <2>2
  <1>8. Prefix(q, d) # q => d # n
    BY <1>1, PrefixEnds
  <1>9. \A p \in D : /\ p \in Seq(Label) /\ trie[p].child \in Seq(Label)
                     /\ trie[p].value \in Datum \cup {NoDatum} /\ DatumAt(p) = trie[p].value
                     /\ IsInjective(trie[p].child)
                     /\ \A l \in Label : Contains(trie[p].child, l) <=> Append(p, l) \in D
                     /\ \A i \in 0..Len(p) : Prefix(p, i) \in D
                     /\ p # Root => trie[p].child # <<>> \/ trie[p].value # NoDatum
    <2>1. \A p \in D : p \in Seq(Label) /\ trie[p] \in [value : Datum \cup {NoDatum}, child : Seq(Label)]
      BY DEF TrieInv, TrieTypeOK
    <2>2. \A p \in D : DatumAt(p) = trie[p].value
      BY DEF DatumAt
    <2> QED
      BY <2>1, <2>2 DEF TrieInv, ChildrenOnce, NoneUnused
  <1>10. \A p \in new : DatumAt(p) = NoDatum
    BY <1>4 DEF DatumAt
  <1> HIDE DEF new, d, D
  <1>11. ASSUME NEW p \in DOMAIN trie'
         PROVE  /\ trie'[p].value \in Datum \cup {NoDatum}
                /\ trie'[p].child \in Seq(Label)
                /\ IsInjective(trie'[p].child)
                /\ \A l \in Label : Contains(trie'[p].child, l) <=> Append(p, l) \in DOMAIN trie'
                /\ p # Root => trie'[p].child # <<>> \/ trie'[p].value # NoDatum
    <2>1. p \in Seq(Label) /\ (p \in D \/ p \in new)
      BY <1>3
    <2>2. trie'[p].value \in Datum \cup {NoDatum}
      <3>1. DatumAt(p) \in Datum \cup {NoDatum}
        <4>1. p \in D => DatumAt(p) = trie[p].value /\ trie[p].value \in Datum \cup {NoDatum}
          BY <1>9
        <4>2. p \in new => DatumAt(p) = NoDatum
          BY <1>10
        <4> QED
          BY <2>1, <4>1, <4>2
      <3>2. trie'[p].value = IF p = q /\ DatumAt(q) = NoDatum THEN v ELSE DatumAt(p)
        BY <1>3
      <3> QED
        BY <3>1, <3>2
    <2>3. CASE p \in new /\ p # q
      <3> DEFINE e == q[Len(p) + 1]
                 c == Append(<<>>, e)
      <3>1. trie'[p].child = c /\ e \in Label
        BY <1>3, <1>4, <2>3
      <3> HIDE DEF e
      <3>2. <<>> \in Seq(Label) /\ IsInjective(<<>>) /\ \A x : ~Contains(<<>>, x)
        BY DEF IsInjective, Contains
      <3>3. c \in Seq(Label) /\ c # <<>>
        BY <3>1, <3>2, AppendPlaces
      <3>4. IsInjective(c) /\ \A x : Contains(c, x) <=> x = e
        BY <3>1, <3>2, AppendContains
      <3>5. \A l \in Label : Append(p, l) \notin D
        <4> SUFFICES ASSUME NEW l \in Label, Append(p, l) \in D PROVE FALSE
          OBVIOUS
        <4>1. Len(p) \in 0..Len(Append(p, l)) /\ Prefix(Append(p, l), Len(p)) = p
          BY <2>1, Longer
        <4>2. p \in D
          BY <1>9, <4>1
        <4> QED
          BY <1>4, <2>3, <4>2
      <3>6. \A l \in Label : Append(p, l) \in new <=> l = e
        <4>1. Len(p) \in d..n - 1 /\ p = Prefix(q, Len(p))
          BY <1>1, <1>2, <1>4, <2>3
        <4> QED
          BY <1>5, <2>1, <4>1 DEF e
      <3> HIDE DEF c
      <3> QED
        BY <1>3, <2>2, <3>1, <3>3, <3>4, <3>5, <3>6
    <2>4. CASE p \in new /\ p = q
      <3>1. trie'[p].child = <<>> /\ trie'[p].value = v
        BY <1>3, <1>10, <2>4
      <3>2. <<>> \in Seq(Label) /\ IsInjective(<<>>) /\ \A x : ~Contains(<<>>, x)
        BY DEF IsInjective, Contains
      <3>3. \A l \in Label : Append(p, l) \notin D
        <4> SUFFICES ASSUME NEW l \in Label, Append(p, l) \in D PROVE FALSE
          OBVIOUS
        <4>1. Len(p) \in 0..Len(Append(p, l)) /\ Prefix(Append(p, l), Len(p)) = p
          BY <2>1, Longer
        <4>2. p \in D
          BY <1>9, <4>1
        <4> QED
          BY <1>4, <2>4, <4>2
      <3>4. \A l \in Label : Append(p, l) \notin new
        <4>1. Len(p) \notin d..n - 1
          BY <1>1, <2>4
        <4> QED
          BY <1>5, <2>1, <4>1
      <3>5. v # NoDatum
        BY DEF TrieAssumption
      <3> QED
        BY <1>3, <2>2, <3>1, <3>2, <3>3, <3>4, <3>5
    <2>5. CASE p \notin new /\ p = Prefix(q, d) /\ p # q
      <3> DEFINE e == q[Len(p) + 1]
                 c == trie[p].child
                 r == Append(c, e)
      <3>1. Len(p) = d /\ d # n /\ p \in D
        BY <1>6, <1>8, <2>5
      <3>2. trie'[p].child = r /\ e \in Label
        BY <1>3, <1>7, <2>5, <3>1
      <3>3. c \in Seq(Label) /\ IsInjective(c) /\ \A l \in Label : Contains(c, l) <=> Append(p, l) \in D
        BY <1>9, <3>1
      <3>4. \A l \in Label : Append(p, l) \in new <=> l = e
        <4>1. Len(p) \in d..n - 1 /\ p = Prefix(q, Len(p))
          BY <1>1, <1>2, <2>5, <3>1
        <4> QED
          BY <1>5, <2>1, <4>1 DEF e
      <3>5. Append(p, e) \notin D
        BY <1>4, <3>2, <3>4
      <3> HIDE DEF e, c
      <3>6. r \in Seq(Label) /\ r # <<>>
        BY <3>2, <3>3, AppendPlaces
      <3>7. IsInjective(r) /\ \A x : Contains(r, x) <=> Contains(c, x) \/ x = e
        BY <3>2, <3>3, <3>5, AppendContains
      <3> HIDE DEF r
      <3> QED
        BY <1>3, <2>2, <3>2, <3>3, <3>4, <3>6, <3>7
    <2>6. CASE p \notin new /\ (p # Prefix(q, d) \/ p = q)
      <3>1. p \in D /\ trie'[p].child = trie[p].child
        BY <1>3, <2>1, <2>6
      <3>2. \A l \in Label : Append(p, l) \notin new
        <4> SUFFICES ASSUME NEW l \in Label, Append(p, l) \in new PROVE FALSE
          OBVIOUS
        <4>1. Len(p) \in d..n - 1 /\ p = Prefix(q, Len(p))
          BY <1>5, <2>1
        <4>2. Len(p) \in 0..n /\ Len(p) <= d
          BY <1>1, <1>2, <3>1, <4>1
        <4>3. Len(p) = d /\ p # q
          BY <1>1, <1>2, <4>1, <4>2
        <4> QED
          BY <2>6, <4>1, <4>3
      <3>3. p # Root => trie'[p].child # <<>> \/ trie'[p].value # NoDatum
        <4>1. v # NoDatum
          BY DEF TrieAssumption
        <4>2. trie'[p].value = IF p = q /\ DatumAt(q) = NoDatum THEN v ELSE trie[p].value
          BY <1>3, <1>9, <3>1
        <4> QED
          BY <1>9, <3>1, <4>1, <4>2
      <3> QED
        BY <1>3, <1>9, <2>2, <3>1, <3>2, <3>3
    <2> QED
      BY <2>3, <2>4, <2>5, <2>6
  <1>12. ASSUME NEW p \in DOMAIN trie', NEW i \in 0..Len(p)
         PROVE  Prefix(p, i) \in DOMAIN trie'
    <2>1. CASE p \in D
      BY <1>3, <1>9, <2>1
    <2>2. CASE p \in new
      <3>1. Prefix(p, i) = Prefix(q, i) /\ i \in 0..n
        BY <1>1, <1>4, <2>2, PrefixPrefix
      <3>2. i <= d => Prefix(q, i) \in D
        BY <1>2, <3>1
      <3>3. i > d => Prefix(q, i) \in new
        <4>1. i > d => i \in d + 1..n
          BY <1>1, <1>2, <3>1
        <4> QED
          BY <4>1 DEF new
      <3> QED
        BY <1>2, <1>3, <3>1, <3>2, <3>3
    <2> QED
      BY <1>3, <2>1, <2>2
  <1>13. Root \in DOMAIN trie'
    BY <1>3 DEF TrieInv, D
  <1>14. TrieTypeOK'
    <2>1. ASSUME NEW p \in DOMAIN trie'
          PROVE  trie'[p] \in [value : Datum \cup {NoDatum}, child : Seq(Label)]
      <3>1. trie'[p] = [value |-> trie'[p].value, child |-> trie'[p].child]
        BY <1>3
      <3>2. trie'[p].value \in Datum \cup {NoDatum} /\ trie'[p].child \in Seq(Label)
        BY <1>11
      <3> QED
        BY <3>1, <3>2
    <2>2. trie' = [p \in DOMAIN trie' |-> trie'[p]]
      BY DEF trie_insert_arr
    <2>3. DOMAIN trie' \subseteq Seq(Label)
      BY <1>3
    <2> QED
      BY <2>1, <2>2, <2>3 DEF TrieTypeOK
  <1>15. ChildrenOnce'
    BY <1>11, <1>12 DEF ChildrenOnce, Prefix
  <1>16. NoneUnused'
    BY <1>11 DEF NoneUnused, Root
  <1> QED
    BY <1>13, <1>14, <1>15, <1>16 DEF TrieInv, Root

(* What is below a node that a removal takes away goes with it. *)
LEMMA NothingBelow ==
    ASSUME TrieInv, NEW q \in Seq(Label), NEW i \in 1..Depth(q),
           \A m \in i..Depth(q) : IF m = Depth(q) THEN trie[Prefix(q, m)].child = <<>>
                                  ELSE Len(trie[Prefix(q, m)].child) = 1,
           NEW p \in DOMAIN trie, i <= Len(p), Prefix(p, i) = Prefix(q, i)
    PROVE  Len(p) \in i..Depth(q) /\ p = Prefix(q, Len(p))
  <1> DEFINE d == Depth(q)
             D == DOMAIN trie
             Bad == {m \in i..Len(p) : ~(m <= d /\ Prefix(p, m) = Prefix(q, m))}
  <1>1. /\ d \in 0..Len(q) /\ d \in Nat /\ Len(q) \in Nat
        /\ \A m \in 0..Len(q) : Prefix(q, m) \in D <=> m <= d
    BY DepthIs
  <1>2. p \in Seq(Label) /\ Len(p) \in Nat /\ \A m \in 0..Len(p) : Prefix(p, m) \in D
    BY NodesAbove
  <1>3. i \in Nat \ {0} /\ i <= d
    BY <1>1
  <1>4. Bad = {}
    <2> SUFFICES ASSUME Bad # {} PROVE FALSE
      OBVIOUS
    <2> DEFINE k == Min(Bad)
               j == k - 1
    <2>1. Bad \in SUBSET Nat
      BY <1>3
    <2>2. k \in Bad /\ \A y \in Bad : k <= y
      <3> HIDE DEF Bad
      <3> QED
        BY <2>1, SmallestIsIn
    <2> HIDE DEF k
    <2>3. k \in i..Len(p) /\ ~(k <= d /\ Prefix(p, k) = Prefix(q, k))
      BY <2>2
    <2>4. k # i
      BY <1>3, <2>3
    <2>5. j \in i..Len(p) /\ ~(k <= j) /\ j + 1 = k /\ j \in 0..Len(p) - 1 /\ j \in Nat
      BY <1>2, <1>3, <2>3, <2>4
    <2>6. j <= d /\ Prefix(p, j) = Prefix(q, j)
      BY <2>2, <2>5
    <2>7. j \in i..d /\ j \in 0..Len(q) /\ k \in 0..Len(p)
      BY <1>1, <1>2, <1>3, <2>3, <2>5, <2>6
    <2> HIDE DEF j, Bad, d, D
    <2>8. /\ Prefix(p, k) = Append(Prefix(p, j), p[k]) /\ p[k] \in Label
          /\ Prefix(p, k) \in D /\ Prefix(p, j) \in D
      <3>1. Prefix(p, j + 1) = Append(Prefix(p, j), p[j + 1]) /\ p[j + 1] \in Label /\ j \in 0..Len(p)
        BY <1>2, <2>5, NextPrefix
      <3> QED
        BY <1>2, <2>5, <2>7, <3>1
    <2> DEFINE c == trie[Prefix(q, j)].child
    <2>9. /\ c \in Seq(Label)
          /\ \A l \in Label : Contains(c, l) <=> Append(Prefix(q, j), l) \in D
      BY <2>6, <2>8 DEF TrieInv, TrieTypeOK, ChildrenOnce, D
    <2>10. Contains(c, p[k])
      BY <2>6, <2>8, <2>9
    <2>11. CASE j = d
      <3>1. c = <<>>
        BY <2>7, <2>11 DEF d
      <3> HIDE DEF c
      <3> QED
        BY <2>10, <3>1 DEF Contains
    <2>12. CASE j # d
      <3>1. Len(c) = 1
        BY <2>7, <2>12 DEF d
      <3>2. k <= d /\ k \in 0..Len(q) /\ j \in 0..Len(q) - 1
        BY <1>1, <2>5, <2>6, <2>12
      <3>3. Prefix(q, k) \in D
        BY <1>1, <3>2
      <3>4. Prefix(q, k) = Append(Prefix(q, j), q[k]) /\ q[k] \in Label
        <4>1. Prefix(q, j + 1) = Append(Prefix(q, j), q[j + 1]) /\ q[j + 1] \in Label
          BY <3>2, NextPrefix
        <4> QED
          BY <2>5, <4>1
      <3>5. Contains(c, q[k])
        BY <2>9, <3>3, <3>4
      <3> HIDE DEF c
      <3>6. p[k] = c[1] /\ q[k] = c[1]
        BY <2>10, <3>1, <3>5 DEF Contains
      <3>7. Prefix(p, k) = Prefix(q, k)
        BY <2>6, <2>8, <3>4, <3>6
      <3> QED
        BY <2>3, <3>2, <3>7
    <2> QED
      BY <2>11, <2>12
  <1>5. Len(p) \in i..Len(p)
    BY <1>2, <1>3
  <1>6. Len(p) <= d /\ Prefix(p, Len(p)) = Prefix(q, Len(p))
    BY <1>4, <1>5
  <1>7. Prefix(p, Len(p)) = p
    BY <1>2, PrefixEnds
  <1>8. Len(p) \in i..d
    BY <1>1, <1>2, <1>3, <1>6
  <1> QED
    BY <1>6, <1>7, <1>8

(* A removal: unused nodes at the end of a name's way. *)
LEMMA StepRemoveName ==
    ASSUME TrieAssumption, TrieInv, NEW q \in Name, trie_remove(q)
    PROVE  /\ TrieInv'
           /\ \A p \in DOMAIN trie : trie[p].value # NoDatum =>
                 \/ p \in DOMAIN trie' /\ trie'[p].value = trie[p].value
                 \/ IsPrefix(p, q) /\ (p \in DOMAIN trie' => trie'[p].value = NoDatum)
  <1> DEFINE d == Depth(q)
             n == Len(q)
             D == DOMAIN trie
             cleared == IF d >= Len(q) - 1 THEN {Prefix(q, i) : i \in 1..d} ELSE {}
             Left(p) == IF p \in cleared THEN NoDatum ELSE trie[p].value
             Alone(i) == IF i = d THEN trie[Prefix(q, i)].child = <<>>
                         ELSE Len(trie[Prefix(q, i)].child) = 1
             gone == {i \in 1..d : \A m \in i..d : Alone(m) /\ Left(Prefix(q, m)) = NoDatum}
             G == {Prefix(q, i) : i \in gone}
             Parent(p) == \E i \in gone : p = Prefix(q, i - 1)
             child(p) == IF Parent(p) THEN RemoveFirst(trie[p].child, q[Len(p) + 1]) ELSE trie[p].child
  <1>1. trie' = [p \in D \ G |-> [value |-> Left(p), child |-> child(p)]]
    BY DEF trie_remove
  <1>2. q \in Seq(Label) /\ n \in Nat
    BY QueuePlaces DEF TrieAssumption
  <1>3. /\ d \in 0..n /\ d \in Nat
        /\ \A i \in 0..n : Prefix(q, i) \in D <=> i <= d
    BY <1>2, DepthIs
  <1>4. \A p \in D : /\ p \in Seq(Label) /\ Len(p) \in Nat /\ trie[p].child \in Seq(Label)
                     /\ trie[p].value \in Datum \cup {NoDatum}
                     /\ IsInjective(trie[p].child)
                     /\ \A l \in Label : Contains(trie[p].child, l) <=> Append(p, l) \in D
                     /\ \A i \in 0..Len(p) : Prefix(p, i) \in D
                     /\ p # Root => trie[p].child # <<>> \/ trie[p].value # NoDatum
    <2>1. \A p \in D : p \in Seq(Label) /\ trie[p] \in [value : Datum \cup {NoDatum}, child : Seq(Label)]
      BY DEF TrieInv, TrieTypeOK
    <2>2. \A p \in D : Len(p) \in Nat
      BY <2>1, QueuePlaces
    <2> QED
      BY <2>1, <2>2 DEF TrieInv, ChildrenOnce, NoneUnused
  <1>5. gone \subseteq 1..d /\ \A i \in gone : \A m \in i..d : Alone(m) /\ m \in gone
    BY <1>3
  <1>6. ASSUME NEW i \in 1..d, Alone(i), Left(Prefix(q, i)) = NoDatum, i < d => i + 1 \in gone
        PROVE  i \in gone
    <2> SUFFICES ASSUME NEW m \in i..d PROVE Alone(m) /\ Left(Prefix(q, m)) = NoDatum
      OBVIOUS
    <2>1. CASE m = i
      <3> HIDE DEF Alone, Left
      <3> QED
        BY <1>6, <2>1
    <2>2. CASE m # i
      <3>1. i < d /\ m \in i + 1..d
        BY <1>3, <2>2
      <3>2. i + 1 \in gone
        BY <1>6, <3>1
      <3> HIDE DEF Alone, Left, d
      <3> QED
        BY <3>1, <3>2
    <2> QED
      BY <2>1, <2>2
  <1>7. \A i \in 0..n : Prefix(q, i) \in Seq(Label) /\ Len(Prefix(q, i)) = i
    BY <1>2, PrefixIs
  <1>8. ASSUME NEW p \in cleared \cup G PROVE IsPrefix(p, q)
    <2>1. PICK i \in 1..d : p = Prefix(q, i)
      BY <1>5
    <2>2. i \in 0..n /\ i <= n
      BY <1>2, <1>3
    <2>3. Len(p) = i
      BY <1>7, <2>1, <2>2
    <2>4. p \in Seq(Label)
      BY <1>7, <2>1, <2>2
    <2>5. Prefix(p, i) = Prefix(q, i)
      BY <2>1, <2>3, <2>4, PrefixEnds
    <2> QED
      BY <2>2, <2>3, <2>5 DEF IsPrefix, Prefix
  <1>9. DOMAIN trie' = D \ G
    BY <1>1
  <1>10. ASSUME NEW p \in D \ G
         PROVE  /\ trie'[p] = [value |-> trie'[p].value, child |-> trie'[p].child]
                /\ trie'[p].value = Left(p) /\ trie'[p].child = child(p)
    <2> HIDE DEF Left, child, G
    <2> QED
      BY <1>1
  <1>11. ASSUME NEW p \in D, trie[p].value # NoDatum
         PROVE  \/ p \in DOMAIN trie' /\ trie'[p].value = trie[p].value
                \/ IsPrefix(p, q) /\ (p \in DOMAIN trie' => trie'[p].value = NoDatum)
    <2>1. CASE p \in G
      BY <1>8, <1>9, <2>1
    <2>2. CASE p \notin G /\ p \in cleared
      <3>1. Left(p) = NoDatum
        BY <2>2
      <3> HIDE DEF Left, G, cleared
      <3> QED
        BY <1>8, <1>10, <2>2, <3>1
    <2>3. CASE p \notin G /\ p \notin cleared
      <3>1. Left(p) = trie[p].value
        BY <2>3
      <3> HIDE DEF Left, G, cleared
      <3> QED
        BY <1>9, <1>10, <2>3, <3>1
    <2> QED
      BY <2>1, <2>2, <2>3
  <1>12. ASSUME NEW p \in D, NEW i \in gone, i <= Len(p), Prefix(p, i) = Prefix(q, i)
         PROVE  p \in G
    <2>1. i \in 1..Depth(q)
      BY <1>5
    <2>2. \A m \in i..Depth(q) : IF m = Depth(q) THEN trie[Prefix(q, m)].child = <<>>
                                  ELSE Len(trie[Prefix(q, m)].child) = 1
      BY <1>5
    <2>3. Len(p) \in i..Depth(q) /\ p = Prefix(q, Len(p))
      BY <1>2, <1>12, <2>1, <2>2, NothingBelow
    <2>4. Len(p) \in gone
      <3> HIDE DEF gone
      <3> QED
        BY <1>5, <2>3
    <2> HIDE DEF gone
    <2> QED
      BY <2>3, <2>4
  <1>13. ASSUME NEW p \in Seq(Label), NEW l \in Label
         PROVE  Append(p, l) \in G <=> Parent(p) /\ l = q[Len(p) + 1]
    <2> HIDE DEF gone
    <2>1. \A i \in gone : i \in 0..n /\ i - 1 \in 0..n /\ i \in Nat
      BY <1>2, <1>3, <1>5
    <2>2. \A i \in gone : Append(p, l) = Prefix(q, i)
              <=> Len(p) + 1 = i /\ p = Prefix(q, Len(p)) /\ l = q[Len(p) + 1]
      BY SMTT(30), <1>2, <2>1, OnTheWay
    <2>3. Len(p) \in Nat
      BY QueuePlaces
    <2>4. \A i \in gone : p = Prefix(q, i - 1) => Len(p) + 1 = i /\ p = Prefix(q, Len(p))
      <3> SUFFICES ASSUME NEW i \in gone, p = Prefix(q, i - 1)
                   PROVE  Len(p) + 1 = i /\ p = Prefix(q, Len(p))
        OBVIOUS
      <3>1. Len(p) = i - 1
        BY <1>7, <2>1
      <3> QED
        BY <2>1, <3>1
    <2>5. \A i \in gone : Len(p) + 1 = i => i - 1 = Len(p)
      BY <2>3
    <2> QED
      BY <2>2, <2>4, <2>5
  <1>14. Root \notin G
    <2> HIDE DEF gone
    <2> SUFFICES ASSUME NEW i \in gone, Root = Prefix(q, i) PROVE FALSE
      OBVIOUS
    <2>1. i \in 0..n /\ i # 0
      BY <1>2, <1>3, <1>5
    <2>2. Len(Root) = i
      BY <1>7, <2>1
    <2>3. Len(Root) = 0
      BY DEF Root
    <2> QED
      BY <2>1, <2>2, <2>3
  <1>15. Root \in DOMAIN trie'
    BY <1>9, <1>14 DEF TrieInv
  <1>16. ASSUME NEW p \in D \ G, NEW i \in 0..Len(p) PROVE Prefix(p, i) \in D \ G
    <2>1. Prefix(p, i) \in D
      BY <1>4
    <2>2. ASSUME Prefix(p, i) \in G PROVE FALSE
      <3>1. PICK j \in gone : Prefix(p, i) = Prefix(q, j)
        BY <2>2
      <3> HIDE DEF gone
      <3>2. j \in 0..n
        BY <1>2, <1>3, <1>5
      <3>3. Len(Prefix(p, i)) = i /\ Len(Prefix(q, j)) = j
        BY <1>4, <1>7, <3>2, PrefixIs
      <3>4. i = j /\ i <= Len(p)
        BY <1>4, <3>1, <3>3
      <3> HIDE DEF G
      <3> QED
        BY <1>12, <3>1, <3>4
    <2> QED
      BY <2>1, <2>2
  <1>17. ASSUME NEW p \in D \ G
         PROVE  /\ child(p) \in Seq(Label) /\ IsInjective(child(p))
                /\ \A l \in Label : Contains(child(p), l) <=> Append(p, l) \in D \ G
    <2> DEFINE c == trie[p].child
               e == q[Len(p) + 1]
    <2>1. /\ p \in Seq(Label) /\ c \in Seq(Label) /\ IsInjective(c)
          /\ \A l \in Label : Contains(c, l) <=> Append(p, l) \in D
      BY <1>4
    <2>2. /\ RemoveFirst(c, e) \in Seq(Label) /\ IsInjective(RemoveFirst(c, e))
          /\ \A x : Contains(RemoveFirst(c, e), x) <=> Contains(c, x) /\ x # e
      <3> HIDE DEF c, e
      <3>1. Del(c, e) = RemoveFirst(c, e)
        BY DEF Del
      <3>2. /\ Del(c, e) \in Seq(Label) /\ IsInjective(Del(c, e))
            /\ \A x : Contains(Del(c, e), x) <=> Contains(c, x) /\ x # e
        BY <2>1, DelContains
      <3> QED
        BY <3>1, <3>2
    <2>3. \A l \in Label : Append(p, l) \in G <=> Parent(p) /\ l = e
      BY <1>13, <2>1
    <2>4. child(p) = IF Parent(p) THEN RemoveFirst(c, e) ELSE c
      OBVIOUS
    <2> HIDE DEF child, Parent, c, e, G, D
    <2> QED
      BY <2>1, <2>2, <2>3, <2>4
  <1>18. ASSUME NEW p \in D \ G, p # Root, child(p) = <<>>, Left(p) = NoDatum PROVE FALSE
    <2> DEFINE c == trie[p].child
    <2>1. p \in Seq(Label) /\ Len(p) \in Nat /\ c \in Seq(Label) /\ IsInjective(c)
          /\ (c # <<>> \/ trie[p].value # NoDatum)
          /\ \A l \in Label : Contains(c, l) <=> Append(p, l) \in D
      BY <1>4, <1>18
    <2>2. CASE \A k \in 1..d : p # Prefix(q, k)
      <3>1. Left(p) = trie[p].value
        BY <2>2
      <3>2. ~Parent(p)
        <4> SUFFICES ASSUME NEW i \in gone, p = Prefix(q, i - 1) PROVE FALSE
          OBVIOUS
        <4> HIDE DEF gone
        <4>1. i - 1 \in 1..d \/ i - 1 = 0
          BY <1>3, <1>5
        <4>2. Prefix(q, 0) = Root
          BY <1>2, PrefixEnds
        <4> QED
          BY <1>18, <2>2, <4>1, <4>2
      <3>3. child(p) = c
        BY <3>2
      <3> HIDE DEF child, Left
      <3> QED
        BY <1>18, <2>1, <3>1, <3>3
    <2>3. ASSUME NEW k \in 1..d, p = Prefix(q, k) PROVE FALSE
      <3>1. k \in 0..n /\ k <= d /\ k \in Nat
        BY <1>2, <1>3
      <3>2. Len(p) = k /\ k \notin gone
        BY <1>7, <2>3, <3>1
      <3>3. CASE k = d
        <4>1. ~Parent(p)
          <5> SUFFICES ASSUME NEW i \in gone, p = Prefix(q, i - 1) PROVE FALSE
            OBVIOUS
          <5> HIDE DEF gone
          <5>1. i - 1 \in 0..n /\ i - 1 # d
            BY <1>2, <1>3, <1>5
          <5>2. Len(p) = i - 1
            BY <1>7, <5>1
          <5> QED
            BY <3>2, <3>3, <5>1, <5>2
        <4>2. c = <<>>
          BY <1>18, <4>1
        <4>3. Alone(k)
          BY <2>3, <3>3, <4>2
        <4> HIDE DEF Alone, Left, gone
        <4> QED
          BY <1>6, <1>18, <2>3, <3>2, <3>3, <4>3
      <3>4. CASE k # d
        <4>1. k \in 0..n - 1 /\ k + 1 \in 0..n /\ k + 1 <= d /\ k < d
          BY <1>2, <1>3, <3>1, <3>4
        <4> DEFINE e == q[k + 1]
        <4>2. Prefix(q, k + 1) = Append(p, e) /\ e \in Label
          BY <1>2, <2>3, <4>1, NextPrefix
        <4>3. Contains(c, e)
          BY <1>3, <2>1, <4>1, <4>2
        <4>4. Parent(p)
          <5>1. c # <<>>
            <6> HIDE DEF c
            <6> QED
              BY <4>3 DEF Contains
          <5> QED
            BY <1>18, <5>1
        <4>5. k + 1 \in gone
          <5>1. PICK i \in gone : p = Prefix(q, i - 1)
            BY <4>4
          <5> HIDE DEF gone
          <5>2. i - 1 \in 0..n /\ i \in Nat
            BY <1>2, <1>3, <1>5
          <5>3. Len(p) = i - 1
            BY <1>7, <5>1, <5>2
          <5>4. i = k + 1
            BY <3>1, <3>2, <5>2, <5>3
          <5> QED
            BY <5>4
        <4>6. RemoveFirst(c, e) = <<>>
          BY <1>18, <3>2, <4>4
        <4> HIDE DEF e
        <4>7. Len(c) = 1
          <5> HIDE DEF c
          <5>1. PICK j \in 1..Len(c) : c[j] = e
            BY <4>3 DEF Contains
          <5>2. Len(Del(c, c[j])) = Len(c) - 1 /\ Len(c) \in Nat
            BY <2>1, DelPlaces
          <5>3. Del(c, c[j]) = <<>>
            BY <4>6, <5>1 DEF Del
          <5> QED
            BY <5>2, <5>3
        <4>8. Alone(k)
          BY <2>3, <3>4, <4>7
        <4> HIDE DEF Alone, Left, gone
        <4> QED
          BY <1>6, <1>18, <2>3, <3>2, <4>5, <4>8
      <3> QED
        BY <3>3, <3>4
    <2> QED
      BY <2>2, <2>3
  <1>19. ASSUME NEW p \in D \ G PROVE Left(p) \in Datum \cup {NoDatum}
    BY <1>4
  <1> HIDE DEF Left, child, G, D, gone, cleared, Alone, Parent
  <1>20. TrieTypeOK'
    <2>1. ASSUME NEW p \in DOMAIN trie'
          PROVE  trie'[p] \in [value : Datum \cup {NoDatum}, child : Seq(Label)]
      <3>1. trie'[p] = [value |-> trie'[p].value, child |-> trie'[p].child]
        BY <1>9, <1>10
      <3>2. trie'[p].value \in Datum \cup {NoDatum} /\ trie'[p].child \in Seq(Label)
        BY <1>9, <1>10, <1>17, <1>19
      <3> QED
        BY <3>1, <3>2
    <2>2. trie' = [p \in DOMAIN trie' |-> trie'[p]]
      BY <1>1
    <2>3. DOMAIN trie' \subseteq Seq(Label)
      BY <1>4, <1>9
    <2> QED
      BY <2>1, <2>2, <2>3 DEF TrieTypeOK
  <1>21. ChildrenOnce'
    <2>1. \A p \in DOMAIN trie' :
            /\ IsInjective(trie'[p].child)
            /\ \A l \in Label : Contains(trie'[p].child, l) <=> Append(p, l) \in DOMAIN trie'
            /\ \A i \in 0..Len(p) : Prefix(p, i) \in DOMAIN trie'
      BY <1>9, <1>10, <1>16, <1>17
    <2> QED
      BY <2>1 DEF ChildrenOnce, Prefix
  <1>22. NoneUnused'
    BY <1>9, <1>10, <1>18 DEF NoneUnused, Root
  <1>23. TrieInv'
    BY <1>15, <1>20, <1>21, <1>22 DEF TrieInv, Root
  <1> QED
    BY <1>11, <1>23 DEF D

(* The root alone. *)
LEMMA InitTrieInv == ASSUME TrieAssumption, TrieInit PROVE TrieInv
  <1>1. DOMAIN trie = {<<>>} /\ trie[<<>>] = NewNode /\ trie = [p \in {<<>>} |-> NewNode]
    BY DEF TrieInit, Root
  <1>2. <<>> \in Seq(Label) /\ Len(<<>>) = 0 /\ IsInjective(<<>>) /\ \A x : ~Contains(<<>>, x)
    BY DEF IsInjective, Contains
  <1>3. NewNode \in [value : Datum \cup {NoDatum}, child : Seq(Label)] /\ NewNode.child = <<>>
    BY <1>2 DEF NewNode
  <1>4. \A l \in Label : Append(<<>>, l) # <<>>
    BY <1>2, AppendPlaces
  <1>5. Prefix(<<>>, 0) = <<>>
    BY <1>2, PrefixEnds DEF Root
  <1>6. TrieTypeOK
    BY <1>1, <1>2, <1>3 DEF TrieTypeOK
  <1>7. ChildrenOnce
    <2>1. \A i \in 0..Len(<<>>) : Prefix(<<>>, i) = <<>>
      BY <1>2, <1>5
    <2>2. \A l \in Label : Contains(<<>>, l) <=> Append(<<>>, l) \in {<<>>}
      BY <1>2, <1>4
    <2> QED
      BY <1>1, <1>2, <1>3, <2>1, <2>2 DEF ChildrenOnce
  <1> QED
    BY <1>1, <1>6, <1>7 DEF TrieInv, NoneUnused, Root

(* One insertion or removal. *)
LEMMA TrieInvNext == ASSUME TrieAssumption, TrieInv, [TrieNext]_trie PROVE TrieInv'
  <1>1. CASE TrieNext
    <2>1. PICK q \in Name : trie_remove(q) \/ \E v \in Datum : trie_insert_arr(q, v)
      BY <1>1 DEF TrieNext
    <2>2. CASE trie_remove(q)
      BY <2>2, StepRemoveName
    <2>3. CASE \E v \in Datum : trie_insert_arr(q, v)
      BY <2>3, StepInsertName
    <2> QED
      BY <2>1, <2>2, <2>3
  <1>2. CASE UNCHANGED trie
    BY <1>2 DEF TrieInv, TrieTypeOK, ChildrenOnce, NoneUnused
  <1> QED
    BY <1>1, <1>2

(* The invariant of the domain trie: the children of a node are the nodes   *)
(* below it, each once, and no unused node is left behind.                  *)
THEOREM TrieInductive == ASSUME TrieAssumption PROVE TrieSpec => []TrieInv
  <1>1. TrieInit => TrieInv
    BY InitTrieInv
  <1>2. TrieInv /\ [TrieNext]_trie => TrieInv'
    BY TrieInvNext
  <1> QED
    BY <1>1, <1>2, PTL DEF TrieSpec

(* A step takes values only off the path of the name that is removed. *)
LEMMA StepLoses ==
    ASSUME TrieAssumption, TrieInv, TrieNext
    PROVE  \E q \in Name : \A p \in DOMAIN trie :
              trie[p].value # NoDatum =>
                 \/ p \in DOMAIN trie' /\ trie'[p].value = trie[p].value
                 \/ IsPrefix(p, q) /\ (p \in DOMAIN trie' => trie'[p].value = NoDatum)
  <1>1. PICK q \in Name : trie_remove(q) \/ \E v \in Datum : trie_insert_arr(q, v)
    BY DEF TrieNext
  <1>2. CASE trie_remove(q)
    BY <1>2, StepRemoveName
  <1>3. ASSUME NEW v \in Datum, trie_insert_arr(q, v), NEW p \in DOMAIN trie, trie[p].value # NoDatum
        PROVE  p \in DOMAIN trie' /\ trie'[p].value = trie[p].value
    <2>1. /\ DOMAIN trie \subseteq DOMAIN trie'
          /\ \A r \in DOMAIN trie' :
                trie'[r].value = IF r = q /\ DatumAt(q) = NoDatum THEN v ELSE DatumAt(r)
      BY <1>3, InsertIs
    <2>2. p \in DOMAIN trie'
      BY <2>1
    <2>3. trie'[p].value = IF p = q /\ DatumAt(q) = NoDatum THEN v ELSE DatumAt(p)
      BY <2>1, <2>2
    <2>4. DatumAt(p) = trie[p].value
      BY DEF DatumAt
    <2> QED
      BY <1>3, <2>2, <2>3, <2>4
  <1>4. CASE \E v \in Datum : trie_insert_arr(q, v)
    BY <1>3, <1>4
  <1> QED
    BY <1>1, <1>2, <1>4

(* trie_insert_arr replaces no value, and trie_remove takes none off the     *)
(* path of the name it is called with.                                      *)
THEOREM PathLosesValues == ASSUME TrieAssumption PROVE TrieSpec => OnlyPathLosesValues
  <1> DEFINE A == \E q \in Name : \A p \in DOMAIN trie :
                     trie[p].value # NoDatum =>
                        \/ p \in DOMAIN trie' /\ trie'[p].value = trie[p].value
                        \/ IsPrefix(p, q) /\ (p \in DOMAIN trie' => trie'[p].value = NoDatum)
  <1>1. TrieInv /\ [TrieNext]_trie => [A]_trie
    BY StepLoses
  <1> HIDE DEF A
  <1>2. TrieSpec => [][A]_trie
    BY <1>1, TrieInductive, PTL DEF TrieSpec
  <1>3. [][A]_trie => OnlyPathLosesValues
    BY DEF A, OnlyPathLosesValues
  <1> QED
    BY <1>2, <1>3

(* What a level of the look-up returns, with what the level below found. *)
LevelReturns(q, i, found) ==
    LET wildcard == Met(q, i, Entered(q)[i])
    IN IF found # NoDatum THEN found
       ELSE IF wildcard # NoDatum THEN wildcard
       ELSE IF i < LastLevel(q) /\ Place(q, i, Star) > Place(q, i, q[i + 1])
       THEN StarDatum(q, i)
       ELSE NoDatum

(* Going down, wildcard_value is handed from level to level ... *)
LEMMA EnteredIs ==
    ASSUME NEW q, Depth(q) \in Nat
    PROVE  /\ Entered(q)[0] = NoDatum
           /\ \A i \in 1..Depth(q) : Entered(q)[i] = Met(q, i - 1, Entered(q)[i - 1])
  <1> DEFINE d == Depth(q)
             Handed(f, n) == f = [i \in 0..n |-> IF i = 0 THEN NoDatum ELSE Met(q, i - 1, f[i - 1])]
             I == {n \in Nat : ~\E f : Handed(f, n)}
  <1>1. I = {}
    <2> SUFFICES ASSUME I # {} PROVE FALSE
      OBVIOUS
    <2> DEFINE m == Min(I)
    <2>1. I \in SUBSET Nat
      OBVIOUS
    <2>2. m \in I /\ \A y \in I : m <= y
      <3> HIDE DEF I
      <3> QED
        BY <2>1, SmallestIsIn
    <2> HIDE DEF m
    <2>3. m \in Nat /\ ~\E f : Handed(f, m)
      BY <2>2
    <2>4. CASE m = 0
      <3> DEFINE f == [i \in 0..0 |-> NoDatum]
      <3>1. \A i \in 0..0 : i = 0
        OBVIOUS
      <3>2. f = [i \in 0..0 |-> IF i = 0 THEN NoDatum ELSE Met(q, i - 1, f[i - 1])]
        BY <3>1
      <3>3. Handed(f, 0)
        BY <3>2
      <3> HIDE DEF f, Handed
      <3> QED
        BY <2>3, <2>4, <3>3
    <2>5. CASE m # 0
      <3>1. m - 1 \in Nat /\ ~(m <= m - 1)
        BY <2>3, <2>5
      <3>2. m - 1 \notin I
        <4> HIDE DEF I
        <4> QED
          BY <2>2, <3>1
      <3>3. PICK f : Handed(f, m - 1)
        <4> HIDE DEF Handed
        <4> QED
          BY <3>1, <3>2
      <3> DEFINE g == [i \in 0..m |-> IF i = m THEN Met(q, m - 1, f[m - 1]) ELSE f[i]]
      <3>4. \A i \in 0..m - 1 : f[i] = IF i = 0 THEN NoDatum ELSE Met(q, i - 1, f[i - 1])
        BY <3>3
      <3>5. \A i \in 0..m : g[i] = IF i = m THEN Met(q, m - 1, f[m - 1]) ELSE f[i]
        OBVIOUS
      <3> DEFINE h == [i \in 0..m |-> IF i = 0 THEN NoDatum ELSE Met(q, i - 1, g[i - 1])]
      <3>6. ASSUME NEW i \in 0..m PROVE g[i] = IF i = 0 THEN NoDatum ELSE Met(q, i - 1, g[i - 1])
        <4> HIDE DEF g
        <4>1. CASE i = m
          <5>1. m - 1 \in 0..m /\ m - 1 # m /\ i # 0
            BY <2>3, <2>5, <4>1
          <5>2. g[m - 1] = f[m - 1]
            BY <3>5, <5>1
          <5> QED
            BY <3>5, <4>1, <5>1, <5>2
        <4>2. CASE i # m
          <5>1. i \in 0..m - 1
            BY <2>3, <4>2
          <5>2. i # 0 => i - 1 \in 0..m /\ i - 1 # m
            BY <2>3, <4>2
          <5>3. i # 0 => g[i - 1] = f[i - 1]
            BY <3>5, <5>2
          <5> QED
            BY <3>4, <3>5, <4>2, <5>1, <5>3
        <4> QED
          BY <4>1, <4>2
      <3>7. g = h
        BY <3>6
      <3>8. Handed(g, m)
        BY <3>7
      <3> HIDE DEF g, h, Handed
      <3> QED
        BY <2>3, <3>8
    <2> QED
      BY <2>4, <2>5
  <1>2. PICK f : Handed(f, d)
    <2> HIDE DEF Handed, d
    <2> QED
      BY <1>1 DEF d
  <1>3. Entered(q) = CHOOSE w : Handed(w, d)
    BY DEF Entered
  <1> DEFINE e == Entered(q)
  <1>4. Handed(e, d)
    <2> HIDE DEF Handed, d
    <2> QED
      BY <1>2, <1>3
  <1> HIDE DEF e
  <1>5. \A i \in 0..d : e[i] = IF i = 0 THEN NoDatum ELSE Met(q, i - 1, e[i - 1])
    BY <1>4
  <1>6. 0 \in 0..d /\ \A i \in 1..d : i \in 0..d /\ i # 0
    OBVIOUS
  <1> QED
    BY <1>5, <1>6 DEF e

(* ... and back up, each level has what the level below returned. *)
LEMMA ReturnedIs ==
    ASSUME NEW q, LastLevel(q) \in Nat
    PROVE  \A i \in 0..LastLevel(q) :
              Returned(q)[i] =
                 LevelReturns(q, i, IF i = LastLevel(q) THEN DatumAt(q) ELSE Returned(q)[i + 1])
  <1> DEFINE last == LastLevel(q)
             Level(i, below) == LevelReturns(q, i, IF i = last THEN DatumAt(q) ELSE below)
             Handed(f, n) == f = [i \in last - n..last |-> Level(i, f[i + 1])]
             I == {n \in 0..last : ~\E f : Handed(f, n)}
  <1>1. I = {}
    <2> SUFFICES ASSUME I # {} PROVE FALSE
      OBVIOUS
    <2> DEFINE m == Min(I)
    <2>1. I \in SUBSET Nat
      OBVIOUS
    <2>2. m \in I /\ \A y \in I : m <= y
      <3> HIDE DEF I
      <3> QED
        BY <2>1, SmallestIsIn
    <2> HIDE DEF m
    <2>3. m \in 0..last /\ m \in Nat /\ ~\E f : Handed(f, m)
      BY <2>2
    <2>4. CASE m = 0
      <3> DEFINE f == [i \in last - 0..last |-> LevelReturns(q, i, DatumAt(q))]
      <3>1. \A i \in last - 0..last : i = last
        OBVIOUS
      <3>2. f = [i \in last - 0..last |-> Level(i, f[i + 1])]
        BY <3>1
      <3>3. Handed(f, 0)
        BY <3>2
      <3> HIDE DEF f, Handed
      <3> QED
        BY <2>3, <2>4, <3>3
    <2>5. CASE m # 0
      <3>1. m - 1 \in 0..last /\ ~(m <= m - 1)
        BY <2>3, <2>5
      <3>2. m - 1 \notin I
        <4> HIDE DEF I
        <4> QED
          BY <2>2, <3>1
      <3>3. PICK f : Handed(f, m - 1)
        <4> HIDE DEF Handed
        <4> QED
          BY <3>1, <3>2
      <3> HIDE DEF last, Level
      <3> DEFINE b == last - m
                 g == [i \in b..last |-> IF i = b THEN Level(b, f[b + 1]) ELSE f[i]]
                 h == [i \in b..last |-> Level(i, g[i + 1])]
      <3>4. b \in Nat /\ b < last /\ last - (m - 1) = b + 1 /\ last \in Nat
        <4>1. last \in Nat
          BY DEF last
        <4> QED
          BY <2>3, <2>5, <4>1
      <3>5. \A i \in b + 1..last : f[i] = Level(i, f[i + 1])
        BY <3>3, <3>4
      <3> HIDE DEF b
      <3>6. \A i \in b..last : g[i] = IF i = b THEN Level(b, f[b + 1]) ELSE f[i]
        OBVIOUS
      <3>7. ASSUME NEW i \in b..last PROVE g[i] = Level(i, g[i + 1])
        <4> HIDE DEF g
        <4>1. CASE i = b
          <5>1. b + 1 \in b..last /\ b + 1 # b
            BY <3>4
          <5>2. g[b + 1] = f[b + 1]
            BY <3>6, <5>1
          <5> QED
            BY <3>6, <4>1, <5>2
        <4>2. CASE i # b /\ i # last
          <5>1. i \in b + 1..last /\ i + 1 \in b..last /\ i + 1 # b
            BY <3>4, <4>2
          <5>2. g[i + 1] = f[i + 1]
            BY <3>6, <5>1
          <5> QED
            BY <3>5, <3>6, <4>2, <5>1, <5>2
        <4>3. CASE i # b /\ i = last
          <5>1. i \in b + 1..last
            BY <3>4, <4>3
          <5>2. \A x, y : Level(last, x) = Level(last, y)
            BY DEF Level
          <5> QED
            BY <3>5, <3>6, <4>3, <5>1, <5>2
        <4> QED
          BY <4>1, <4>2, <4>3
      <3>8. g = h
        BY <3>7
      <3>9. Handed(g, m)
        BY <3>8 DEF b
      <3> HIDE DEF g, h, Handed
      <3> QED
        BY <2>3, <3>9
    <2> QED
      BY <2>4, <2>5
  <1>2. PICK f : Handed(f, last)
    <2>1. last \in 0..last
      OBVIOUS
    <2> HIDE DEF Handed, last
    <2> QED
      BY <1>1, <2>1
  <1> DEFINE All(r) == r = [i \in 0..last |-> Level(i, r[i + 1])]
  <1>3. last - last = 0
    OBVIOUS
  <1>4. All(f)
    BY <1>2, <1>3
  <1>5. Returned(q) = CHOOSE r : All(r)
    BY DEF Returned, LevelReturns
  <1> DEFINE e == Returned(q)
  <1>6. All(e)
    <2> HIDE DEF All
    <2> QED
      BY <1>4, <1>5
  <1> HIDE DEF e, Level
  <1>7. \A i \in 0..last : e[i] = Level(i, e[i + 1])
    BY <1>6
  <1> QED
    BY <1>7 DEF e, Level

(* The place of a label among children that differ. *)
LEMMA PlaceIs ==
    ASSUME NEW q, NEW i, trie[Prefix(q, i)].child \in Seq(Label), NEW l
    PROVE  LET c == trie[Prefix(q, i)].child
               k == Place(q, i, l)
           IN  /\ Len(c) \in Nat /\ k \in Nat
               /\ Contains(c, l) => k \in 1..Len(c) /\ c[k] = l
               /\ ~Contains(c, l) => k = 0
  <1> DEFINE c == trie[Prefix(q, i)].child
             I == {j \in 1..Len(c) : c[j] = l}
             k == Place(q, i, l)
  <1>1. k = IF I # {} THEN Min(I) ELSE 0
    BY DEF Place, SelectInSeq
  <1>2. Len(c) \in Nat
    BY QueuePlaces
  <1>3. I \in SUBSET Nat
    OBVIOUS
  <1>4. Contains(c, l) <=> I # {}
    BY DEF Contains
  <1> HIDE DEF I, k
  <1>5. I # {} => k \in I
    BY <1>1, <1>3, SmallestIsIn
  <1>6. I = {} => k = 0
    BY <1>1
  <1>7. k \in I => k \in 1..Len(c) /\ c[k] = l /\ k \in Nat
    BY DEF I
  <1> QED
    BY <1>2, <1>4, <1>5, <1>6, <1>7 DEF k

(* The levels of a look-up. *)
LEMMA LevelsAre ==
    ASSUME TrieAssumption, TrieInv, NEW q \in Name
    PROVE  LET last == LastLevel(q)
               d == Depth(q)
           IN  /\ q \in Seq(Label) /\ Len(q) \in Nat \ {0}
               /\ d \in 0..Len(q) /\ last \in 0..d /\ last \in 0..Len(q) - 1
               /\ (q \in DOMAIN trie <=> d = Len(q)) /\ (d # Len(q) => last = d)
               /\ \A i \in 0..last :
                     /\ Prefix(q, i) \in DOMAIN trie
                     /\ trie[Prefix(q, i)].child \in Seq(Label)
                     /\ q[i + 1] \in Label
                     /\ \A l \in Label : Contains(trie[Prefix(q, i)].child, l)
                                            <=> Append(Prefix(q, i), l) \in DOMAIN trie
                     /\ Contains(trie[Prefix(q, i)].child, q[i + 1]) => i + 1 <= d
  <1> DEFINE last == LastLevel(q)
             d == Depth(q)
             n == Len(q)
  <1>1. q \in Seq(Label) /\ n \in Nat \ {0}
    BY QueuePlaces DEF TrieAssumption
  <1>2. d \in 0..n /\ \A i \in 0..n : Prefix(q, i) \in DOMAIN trie <=> i <= d
    BY <1>1, DepthIs
  <1>3. last \in 0..d /\ last \in 0..n - 1 /\ (d # n => last = d)
    BY <1>1, <1>2 DEF LastLevel
  <1>4. q \in DOMAIN trie <=> d = n
    <2>1. Prefix(q, n) = q /\ n \in 0..n
      BY <1>1, PrefixEnds
    <2>2. n <= d <=> d = n
      BY <1>1, <1>2
    <2> HIDE DEF d, n
    <2> QED
      BY <1>2, <2>1, <2>2
  <1>5. ASSUME NEW i \in 0..last
        PROVE  /\ Prefix(q, i) \in DOMAIN trie
               /\ trie[Prefix(q, i)].child \in Seq(Label)
               /\ q[i + 1] \in Label
               /\ \A l \in Label : Contains(trie[Prefix(q, i)].child, l)
                                      <=> Append(Prefix(q, i), l) \in DOMAIN trie
               /\ Contains(trie[Prefix(q, i)].child, q[i + 1]) => i + 1 <= d
    <2>1. i \in 0..n - 1 /\ i <= d /\ i \in 0..n /\ i + 1 \in 0..n
      BY <1>1, <1>2, <1>3
    <2>2. Prefix(q, i + 1) = Append(Prefix(q, i), q[i + 1]) /\ q[i + 1] \in Label
      BY <1>1, <2>1, NextPrefix
    <2>3. Prefix(q, i) \in DOMAIN trie
      BY <1>2, <2>1
    <2>4. /\ trie[Prefix(q, i)].child \in Seq(Label)
          /\ \A l \in Label : Contains(trie[Prefix(q, i)].child, l)
                                 <=> Append(Prefix(q, i), l) \in DOMAIN trie
      BY <2>3 DEF TrieInv, TrieTypeOK, ChildrenOnce
    <2>5. Contains(trie[Prefix(q, i)].child, q[i + 1]) => i + 1 <= d
      BY <1>2, <2>1, <2>2, <2>4
    <2> QED
      BY <2>2, <2>3, <2>4, <2>5
  <1> HIDE DEF last, d, n
  <1> QED
    BY <1>1, <1>2, <1>3, <1>4, <1>5 DEF last, d, n

(* wildcard_value is that of a "*" that covers the name, if it is not handed down. *)
LEMMA MetIs ==
    ASSUME TrieAssumption, TrieInv, NEW q \in Name, NEW i \in 0..LastLevel(q), NEW w
    PROVE  /\ Met(q, i, w) = w \/ (Met(q, i, w) = StarDatum(q, i) /\ q[i + 1] # Star)
           /\ q[i + 1] # Star /\ StarDatum(q, i) # NoDatum
                => \/ Met(q, i, w) = StarDatum(q, i)
                   \/ i < Depth(q) /\ Place(q, i, Star) > Place(q, i, q[i + 1])
           /\ Place(q, i, Star) > Place(q, i, q[i + 1]) => q[i + 1] # Star
  <1> DEFINE c == trie[Prefix(q, i)].child
             e == q[i + 1]
             label == Place(q, i, e)
             star == Place(q, i, Star)
  <1>1. /\ c \in Seq(Label) /\ e \in Label /\ i \in Nat
        /\ \A l \in Label : Contains(c, l) <=> Append(Prefix(q, i), l) \in DOMAIN trie
        /\ Contains(c, e) => i + 1 <= Depth(q)
    BY LevelsAre
  <1>2. /\ Len(c) \in Nat /\ label \in Nat /\ star \in Nat
        /\ (Contains(c, e) => label \in 1..Len(c) /\ c[label] = e)
        /\ (~Contains(c, e) => label = 0)
        /\ (Contains(c, Star) => star \in 1..Len(c) /\ c[star] = Star)
        /\ (~Contains(c, Star) => star = 0)
    BY <1>1, PlaceIs
  <1>3. Met(q, i, w) = IF star \in 1..(IF label = 0 THEN Len(c) ELSE label - 1)
                       THEN StarDatum(q, i) ELSE w
    BY DEF Met
  <1>4. StarDatum(q, i) # NoDatum => Contains(c, Star)
    BY <1>1 DEF StarDatum, DatumAt, TrieAssumption
  <1>5. Depth(q) \in Nat
    BY LevelsAre
  <1>6. e = Star => label = star
    OBVIOUS
  <1> HIDE DEF c, label, star, e
  <1>7. star \in 1..(IF label = 0 THEN Len(c) ELSE label - 1) => e # Star
    BY <1>2, <1>6
  <1>8. star > label => e # Star
    BY <1>2, <1>6
  <1>9. ASSUME e # Star, StarDatum(q, i) # NoDatum,
               ~(star \in 1..(IF label = 0 THEN Len(c) ELSE label - 1))
        PROVE  i < Depth(q) /\ star > label
    <2>1. star \in 1..Len(c) /\ c[star] = Star
      BY <1>2, <1>4, <1>9
    <2>2. label # 0
      BY <1>9, <2>1
    <2>3. Contains(c, e) /\ label \in 1..Len(c) /\ c[label] = e
      BY <1>2, <2>2
    <2>4. star # label
      BY <1>9, <2>1, <2>3
    <2>5. star > label
      BY <1>2, <1>9, <2>1, <2>2, <2>4
    <2>6. i < Depth(q)
      BY <1>1, <1>5, <2>3
    <2> QED
      BY <2>5, <2>6
  <1> QED
    BY <1>3, <1>7, <1>8, <1>9 DEF label, star, e

(* Going down, only wildcards that cover the name are met. *)
LEMMA EnteredCovers ==
    ASSUME TrieAssumption, TrieInv, NEW q \in Name, NEW i \in 0..LastLevel(q)
    PROVE  Entered(q)[i] \in Covering(q) \cup {NoDatum}
  <1> DEFINE C == Covering(q) \cup {NoDatum}
             last == LastLevel(q)
             e == Entered(q)
             I == {k \in 0..last : e[k] \notin C}
  <1>1. last \in 0..Depth(q) /\ last \in 0..Len(q) - 1 /\ Depth(q) \in Nat /\ Len(q) \in Nat
    BY LevelsAre
  <1>2. e[0] = NoDatum /\ \A k \in 1..Depth(q) : e[k] = Met(q, k - 1, e[k - 1])
    BY <1>1, EnteredIs
  <1>3. I = {}
    <2> SUFFICES ASSUME I # {} PROVE FALSE
      OBVIOUS
    <2> DEFINE m == Min(I)
    <2>1. I \in SUBSET Nat
      OBVIOUS
    <2>2. m \in I /\ \A y \in I : m <= y
      <3> HIDE DEF I
      <3> QED
        BY <2>1, SmallestIsIn
    <2> HIDE DEF m, last, e, C
    <2>3. m \in 0..last /\ e[m] \notin C
      BY <2>2
    <2>4. m # 0
      BY <1>2, <2>3 DEF C
    <2>5. m - 1 \in 0..last /\ ~(m <= m - 1) /\ m \in 1..Depth(q)
      BY <1>1, <2>3, <2>4
    <2>6. e[m - 1] \in C
      BY <2>2, <2>5
    <2>7. e[m] = Met(q, m - 1, e[m - 1])
      BY <1>2, <2>5
    <2>8. e[m] = e[m - 1] \/ (e[m] = StarDatum(q, m - 1) /\ q[m - 1 + 1] # Star)
      BY <2>5, <2>7, MetIs DEF last
    <2>9. m - 1 \in 0..Len(q) - 1
      BY <1>1, <2>5
    <2>10. q[m - 1 + 1] # Star => StarDatum(q, m - 1) \in C
      BY <2>9 DEF C, Covering
    <2> QED
      BY <2>3, <2>6, <2>8, <2>10
  <1> QED
    BY <1>3

(* From the last level up to the first one. *)
LEMMA LevelByLevel ==
    ASSUME NEW last \in Nat, NEW T, last \in T, \A i \in 0..last - 1 : i + 1 \in T => i \in T
    PROVE  0..last \subseteq T
  <1> DEFINE Bad == {n \in 0..last : last - n \notin T}
             m == Min(Bad)
  <1>1. Bad = {}
    <2> SUFFICES ASSUME Bad # {} PROVE FALSE
      OBVIOUS
    <2>1. Bad \in SUBSET Nat
      OBVIOUS
    <2>2. m \in Bad /\ \A y \in Bad : m <= y
      <3> HIDE DEF Bad
      <3> QED
        BY <2>1, SmallestIsIn
    <2> HIDE DEF m
    <2>3. m \in 0..last /\ last - m \notin T
      BY <2>2
    <2>4. m # 0
      BY <2>3
    <2>5. m - 1 \in 0..last /\ ~(m <= m - 1) /\ last - m \in 0..last - 1 /\ last - (m - 1) = last - m + 1
      BY <2>3, <2>4
    <2>6. last - (m - 1) \in T
      BY <2>2, <2>5
    <2> QED
      BY <2>3, <2>5, <2>6
  <1>2. ASSUME NEW i \in 0..last PROVE i \in T
    <2>1. last - i \in 0..last /\ last - (last - i) = i
      OBVIOUS
    <2>2. last - i \notin Bad
      BY <1>1
    <2> HIDE DEF Bad
    <2> QED
      BY <2>1, <2>2 DEF Bad
  <1> QED
    BY <1>2

(* A look-up of a name that has a value: every level has it on the way back. *)
LEMMA ValueFound ==
    ASSUME TrieAssumption, TrieInv, NEW q \in Name, DatumAt(q) # NoDatum
    PROVE  trie_get(q) = DatumAt(q)
  <1> DEFINE last == LastLevel(q)
             r == Returned(q)
             T == {i \in 0..last : r[i] = DatumAt(q)}
  <1>1. last \in Nat
    BY LevelsAre
  <1>2. \A i \in 0..last : r[i] = LevelReturns(q, i, IF i = last THEN DatumAt(q) ELSE r[i + 1])
    BY <1>1, ReturnedIs
  <1>3. \A i : LevelReturns(q, i, DatumAt(q)) = DatumAt(q)
    BY DEF LevelReturns
  <1> HIDE DEF r, last
  <1>4. last \in T
    BY <1>1, <1>2, <1>3
  <1>5. \A i \in 0..last - 1 : i + 1 \in T => i \in T
    <2> SUFFICES ASSUME NEW i \in 0..last - 1, i + 1 \in T PROVE i \in T
      OBVIOUS
    <2>1. i \in 0..last /\ i # last
      BY <1>1
    <2>2. r[i + 1] = DatumAt(q)
      OBVIOUS
    <2> QED
      BY <1>2, <1>3, <2>1, <2>2
  <1>6. 0 \in T
    <2> HIDE DEF T
    <2>1. 0..last \subseteq T
      BY <1>1, <1>4, <1>5, LevelByLevel
    <2> QED
      BY <1>1, <2>1
  <1> QED
    BY <1>6 DEF trie_get, r

(* One level without a value below: it returns that of a wildcard, if any. *)
LEMMA LevelWithout ==
    ASSUME TrieAssumption, TrieInv, NEW q \in Name, NEW i \in 0..LastLevel(q), NEW found,
           found \in Covering(q) \cup {NoDatum}
    PROVE  LevelReturns(q, i, found) \in Covering(q) \cup {NoDatum}
  <1> DEFINE w == Met(q, i, Entered(q)[i])
             C == Covering(q) \cup {NoDatum}
  <1>1. i \in 0..Len(q) - 1
    BY LevelsAre
  <1>2. q[i + 1] # Star => StarDatum(q, i) \in C
    BY <1>1 DEF Covering
  <1>3. Entered(q)[i] \in C
    BY EnteredCovers
  <1>4. w = Entered(q)[i] \/ (w = StarDatum(q, i) /\ q[i + 1] # Star)
    BY MetIs
  <1>5. Place(q, i, Star) > Place(q, i, q[i + 1]) => q[i + 1] # Star
    BY MetIs
  <1> HIDE DEF C
  <1>6. w \in C
    BY <1>2, <1>3, <1>4
  <1>7. NoDatum \in C /\ found \in C
    BY DEF C
  <1>8. LevelReturns(q, i, found) =
           IF found # NoDatum THEN found
           ELSE IF w # NoDatum THEN w
           ELSE IF i < LastLevel(q) /\ Place(q, i, Star) > Place(q, i, q[i + 1])
           THEN StarDatum(q, i)
           ELSE NoDatum
    BY DEF LevelReturns
  <1> HIDE DEF w
  <1>9. LevelReturns(q, i, found) \in C
    BY <1>2, <1>5, <1>6, <1>7, <1>8
  <1> QED
    BY <1>9 DEF C

(* A look-up of a name without a value returns that of a wildcard, or none. *)
LEMMA WildcardFound ==
    ASSUME TrieAssumption, TrieInv, NEW q \in Name, DatumAt(q) = NoDatum
    PROVE  trie_get(q) \in Covering(q) \cup {NoDatum}
  <1> DEFINE last == LastLevel(q)
             r == Returned(q)
             C == Covering(q) \cup {NoDatum}
             T == {i \in 0..last : r[i] \in C}
  <1>1. last \in Nat
    BY LevelsAre
  <1>2. \A i \in 0..last : r[i] = LevelReturns(q, i, IF i = last THEN DatumAt(q) ELSE r[i + 1])
    BY <1>1, ReturnedIs
  <1>3. \A i \in 0..last : \A found \in C : LevelReturns(q, i, found) \in C
    BY LevelWithout
  <1>4. DatumAt(q) \in C
    OBVIOUS
  <1> HIDE DEF r, last, C
  <1>5. last \in T
    BY <1>1, <1>2, <1>3, <1>4
  <1>6. \A i \in 0..last - 1 : i + 1 \in T => i \in T
    <2> SUFFICES ASSUME NEW i \in 0..last - 1, i + 1 \in T PROVE i \in T
      OBVIOUS
    <2>1. i \in 0..last /\ i # last
      BY <1>1
    <2> QED
      BY <1>2, <1>3, <2>1
  <1>7. 0 \in T
    <2> HIDE DEF T
    <2>1. 0..last \subseteq T
      BY <1>1, <1>5, <1>6, LevelByLevel
    <2> QED
      BY <1>1, <2>1
  <1> QED
    BY <1>7 DEF trie_get, r, C

(* A name without a node is looked up down to its last node; when nothing is *)
(* returned there was no wildcard on the way.                               *)
LEMMA NoWildcardMissed ==
    ASSUME TrieAssumption, TrieInv, NEW q \in Name, q \notin DOMAIN trie, trie_get(q) = NoDatum
    PROVE  Covering(q) = {}
  <1> DEFINE last == LastLevel(q)
             d == Depth(q)
             n == Len(q)
             r == Returned(q)
             None(j) == q[j + 1] # Star => StarDatum(q, j) = NoDatum
             T == {i \in 0..last : r[i] = NoDatum => \A j \in i..last : None(j)}
  <1>1. q \in Seq(Label) /\ n \in Nat \ {0} /\ d \in 0..n /\ d # n /\ last = d /\ last \in Nat
    BY LevelsAre
  <1>2. \A i \in 0..last : r[i] = LevelReturns(q, i, IF i = last THEN DatumAt(q) ELSE r[i + 1])
    BY <1>1, ReturnedIs
  <1>3. ASSUME NEW i \in 0..last, NEW found, LevelReturns(q, i, found) = NoDatum
        PROVE  found = NoDatum /\ None(i)
    <2> DEFINE w == Met(q, i, Entered(q)[i])
    <2>1. /\ found = NoDatum /\ w = NoDatum
          /\ i < last /\ Place(q, i, Star) > Place(q, i, q[i + 1]) => StarDatum(q, i) = NoDatum
      BY <1>3 DEF LevelReturns
    <2>2. q[i + 1] # Star /\ StarDatum(q, i) # NoDatum
             => w = StarDatum(q, i) \/ (i < d /\ Place(q, i, Star) > Place(q, i, q[i + 1]))
      BY MetIs
    <2> HIDE DEF w, last, d
    <2> QED
      BY <1>1, <2>1, <2>2
  <1> HIDE DEF r, last, d, n, None
  <1>4. last \in T
    <2>1. \A j \in last..last : j = last
      BY <1>1
    <2>2. last \in 0..last
      BY <1>1
    <2> QED
      BY <1>2, <1>3, <2>1, <2>2
  <1>5. \A i \in 0..last - 1 : i + 1 \in T => i \in T
    <2> SUFFICES ASSUME NEW i \in 0..last - 1, i + 1 \in T, r[i] = NoDatum, NEW j \in i..last
                 PROVE  None(j)
      BY <1>1
    <2>1. i \in 0..last /\ i # last /\ (j = i \/ j \in i + 1..last)
      BY <1>1
    <2>2. LevelReturns(q, i, r[i + 1]) = NoDatum
      BY <1>2, <2>1
    <2>3. r[i + 1] = NoDatum /\ None(i)
      BY <1>3, <2>1, <2>2
    <2>4. \A k \in i + 1..last : None(k)
      BY <2>3
    <2> QED
      BY <2>1, <2>3, <2>4
  <1>6. 0 \in T
    <2> HIDE DEF T
    <2>1. 0..last \subseteq T
      BY <1>1, <1>4, <1>5, LevelByLevel
    <2> QED
      BY <1>1, <2>1
  <1>7. \A j \in 0..last : None(j)
    <2>1. r[0] = NoDatum
      BY DEF trie_get, r
    <2> QED
      BY <1>6, <2>1
  <1>8. \A j \in 0..n - 1 : j > d => StarDatum(q, j) = NoDatum
    <2> SUFFICES ASSUME NEW j \in 0..n - 1, j > d PROVE StarDatum(q, j) = NoDatum
      OBVIOUS
    <2>1. j \in 0..n
      BY <1>1
    <2>2. Prefix(q, j) \notin DOMAIN trie /\ Prefix(q, j) \in Seq(Label)
      <3>1. \A i \in 0..n : Prefix(q, i) \in DOMAIN trie <=> i <= d
        BY <1>1, DepthIs DEF n, d
      <3>2. ~(j <= d)
        BY <1>1
      <3> QED
        BY <1>1, <2>1, <3>1, <3>2, PrefixIs DEF n
    <2> DEFINE p == Prefix(q, j)
               a == Append(p, Star)
    <2>3. Star \in Label
      BY DEF TrieAssumption
    <2>4. Prefix(a, Len(p)) = p /\ Len(p) \in 0..Len(a)
      BY <2>2, <2>3, Longer
    <2>5. a \notin DOMAIN trie
      <3> HIDE DEF a, p
      <3> QED
        BY <2>2, <2>4, NodesAbove DEF p
    <2> QED
      BY <2>5 DEF StarDatum, DatumAt
  <1>9. \A j \in {k \in 0..n - 1 : q[k + 1] # Star} : StarDatum(q, j) = NoDatum
    <2>1. \A j \in 0..n - 1 : j > d \/ j \in 0..last
      BY <1>1
    <2> QED
      BY <1>7, <1>8, <2>1 DEF None
  <1> QED
    BY <1>9 DEF Covering, n

(* trie_get prefers the value of the name to a wildcard, and misses neither. *)
THEOREM LookedUp == ASSUME TrieAssumption PROVE TrieSpec => []ExactOrWildcard
  <1>1. TrieInv => ExactOrWildcard
    <2> SUFFICES ASSUME TrieInv, NEW q \in Name
                 PROVE  /\ IF DatumAt(q) # NoDatum THEN trie_get(q) = DatumAt(q)
                           ELSE trie_get(q) \in Covering(q) \cup {NoDatum}
                        /\ q \notin DOMAIN trie /\ Covering(q) # {} => trie_get(q) # NoDatum
      BY DEF ExactOrWildcard
    <2> QED
      BY ValueFound, WildcardFound, NoWildcardMissed
  <1> QED
    BY <1>1, TrieInductive, PTL
=============================================================================
