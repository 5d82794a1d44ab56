------------------------------ MODULE Library_proofs ----------------------------
(***************************************************************************)
(* Proofs about parts of the library that stand alone.  Memchk, for every  *)
(* set of places and every number of buckets: leaks are counted and wild   *)
(* releases noticed.  Logger, for any threads, lengths of lines and bounds *)
(* of the file: what is cut off is whole lines, the oldest ones.  Tlv, for *)
(* any ids, types and values and bytes of three values or more: the two    *)
(* ends stay in step.  AesCbc, for any size of the blocks and messages of  *)
(* any length: what is padded and encrypted is read back.  RsaText, for    *)
(* any keys, pieces and lengths of texts: so is what is encrypted piece by *)
(* piece, when it is decrypted with the key of its pair.  ListSort, for    *)
(* lists of any length and any keys: list_sort sorts them stably and       *)
(* leaves a circle.                                                        *)
(***************************************************************************)
EXTENDS Memchk, Logger, Tlv, AesCbc, RsaText, ListSort, SeqLemmas, FiniteSetTheorems

-----------------------------------------------------------------------------
(* Memchk *)

(* The look-up finds a block's descriptor, and none for other places. *)
LEMMA AtFinds ==
    ASSUME MemchkAssumption, NEW has, NEW b, BooksFit(b, has), NEW u \in Place
    PROVE  /\ hash(u) \in 0..Buckets - 1
           /\ u \notin has => At(b, u) = 0
           /\ u \in has => /\ At(b, u) # 0
                           /\ At(b, u) \in 1..Len(b.htab[hash(u)])
                           /\ b.ptr[b.htab[hash(u)][At(b, u)]] = u
  <1> DEFINE chain == b.htab[hash(u)]
             I == {i \in 1..Len(chain) : b.ptr[chain[i]] = u}
  <1>1. hash(u) \in 0..Buckets - 1
    BY DEF MemchkAssumption, hash
  <1>2. chain \in Seq(Nat) /\ Len(chain) \in Nat
    <2>1. chain \in Seq(Nat)
      BY <1>1 DEF BooksFit, BooksType
    <2> QED
      BY <2>1, QueuePlaces
  <1>3. At(b, u) = IF I # {} THEN Min(I) ELSE 0
    BY DEF At, SelectInSeq
  <1>4. I \subseteq 1..Len(chain) /\ I \in SUBSET Nat
    BY <1>2
  <1>5. I # {} => Min(I) \in I
    <2> HIDE DEF I
    <2> QED
      BY <1>4, SmallestIsIn
  <1>6. u \in has <=> I # {}
    <2>1. I # {} <=> \E i \in 1..Len(chain) : b.ptr[chain[i]] = u
      OBVIOUS
    <2>2. u \in has => \E i \in 1..Len(chain) : b.ptr[chain[i]] = u
      BY DEF BooksFit, Chained
    <2>3. \A i \in 1..Len(chain) : b.ptr[chain[i]] \in has
      BY <1>1 DEF BooksFit, Chained
    <2> QED
      BY <2>1, <2>2, <2>3
  <1>7. \A i \in I : i \in 1..Len(chain) /\ b.ptr[chain[i]] = u /\ i # 0
    BY <1>2
  <1> HIDE DEF I, chain
  <1>8. u \notin has => At(b, u) = 0
    BY <1>3, <1>6
  <1>9. u \in has => At(b, u) # 0 /\ At(b, u) \in 1..Len(chain) /\ b.ptr[chain[At(b, u)]] = u
    BY <1>3, <1>5, <1>6, <1>7
  <1> QED
    BY <1>1, <1>8, <1>9 DEF chain

(* The table when the chain of u has a new first descriptor. *)
NewFirst(b, u, dp) == [b.htab EXCEPT ![hash(u)] = <<dp>> \o @]

(* A descriptor dp of the block at u, new or not in use, goes in front of *)
(* the chain of its place.                                                *)
LEMMA ChainsGrow ==
    ASSUME MemchkAssumption, NEW has \in SUBSET Place, NEW b, BooksType(b), Chained(b, has),
           NEW u \in Place, u \notin has, NEW dp \in Nat,
           NEW r, BooksType(r), dp \in 1..Len(r.ptr), r.ptr[dp] = u,
           \A d \in 1..Len(b.ptr) : d # dp => d \in 1..Len(r.ptr) /\ r.ptr[d] = b.ptr[d],
           \A i \in 0..Buckets - 1 : \A j \in 1..Len(b.htab[i]) : b.htab[i][j] # dp,
           r.htab = NewFirst(b, u, dp)
    PROVE  Chained(r, has \cup {u})
  <1> DEFINE h == hash(u)
             new == r.htab[h]
             old == b.htab[h]
  <1>1. h \in 0..Buckets - 1
    BY DEF MemchkAssumption, hash
  <1>2. /\ old \in Seq(Nat) /\ new = <<dp>> \o old
        /\ \A i \in 0..Buckets - 1 : i # h => r.htab[i] = b.htab[i]
    BY <1>1 DEF BooksType, NewFirst
  <1>3. /\ Len(old) \in Nat /\ Len(new) = Len(old) + 1 /\ new[1] = dp
        /\ \A i \in 1..Len(old) : new[i + 1] = old[i]
    <2> HIDE DEF old, new
    <2> QED
      BY <1>2, ConsContains
  <1>4. \A j \in 1..Len(new) : \/ j = 1 /\ new[j] = dp
                               \/ j - 1 \in 1..Len(old) /\ new[j] = old[j - 1]
    <2> HIDE DEF old, new
    <2> TAKE j \in 1..Len(new)
    <2>1. CASE j = 1
      BY <1>3, <2>1
    <2>2. CASE j # 1
      <3>1. j - 1 \in 1..Len(old) /\ (j - 1) + 1 = j
        BY <1>3, <2>2
      <3> QED
        BY <1>3, <3>1
    <2> QED
      BY <2>1, <2>2
  <1>5. \A i \in 0..Buckets - 1 : \A j \in 1..Len(b.htab[i]) :
            LET d == b.htab[i][j]
            IN  /\ d \in 1..Len(r.ptr) /\ r.ptr[d] = b.ptr[d] /\ r.ptr[d] \in has
                /\ r.ptr[d] # u /\ hash(r.ptr[d]) = i
    <2> TAKE i \in 0..Buckets - 1
    <2> TAKE j \in 1..Len(b.htab[i])
    <2> DEFINE d == b.htab[i][j]
    <2>1. d \in 1..Len(b.ptr) /\ b.ptr[d] \in has /\ hash(b.ptr[d]) = i
      BY DEF Chained
    <2>2. d # dp
      OBVIOUS
    <2> HIDE DEF d
    <2>3. d \in 1..Len(r.ptr) /\ r.ptr[d] = b.ptr[d]
      BY <2>1, <2>2
    <2> QED
      BY <2>1, <2>3 DEF d
  <1> HIDE DEF old, new, h
  <1>6. ASSUME NEW i \in 0..Buckets - 1, NEW j \in 1..Len(r.htab[i])
        PROVE  LET d == r.htab[i][j]
               IN d \in 1..Len(r.ptr) /\ r.ptr[d] \in has \cup {u} /\ hash(r.ptr[d]) = i
    <2>1. CASE i # h
      <3>1. r.htab[i] = b.htab[i]
        BY <1>2, <2>1
      <3> QED
        BY <1>5, <3>1
    <2>2. CASE i = h /\ j = 1
      BY <1>3, <2>2 DEF new, h
    <2>3. CASE i = h /\ j # 1
      <3>1. j - 1 \in 1..Len(b.htab[i]) /\ r.htab[i][j] = b.htab[i][j - 1]
        BY <1>4, <2>3 DEF new, old
      <3>2. LET d == b.htab[i][j - 1]
            IN  d \in 1..Len(r.ptr) /\ r.ptr[d] \in has /\ hash(r.ptr[d]) = i
        BY <1>5, <3>1
      <3> QED
        BY <3>1, <3>2
    <2> QED
      BY <2>1, <2>2, <2>3
  <1>7. ASSUME NEW i \in 0..Buckets - 1, NEW j \in 1..Len(r.htab[i]), NEW k \in 1..Len(r.htab[i]),
               r.ptr[r.htab[i][j]] = r.ptr[r.htab[i][k]]
        PROVE  j = k
    <2>1. \A x, y \in 1..Len(b.htab[i]) :
              r.ptr[b.htab[i][x]] = r.ptr[b.htab[i][y]] => x = y
      <3> TAKE x, y \in 1..Len(b.htab[i])
      <3>1. r.ptr[b.htab[i][x]] = b.ptr[b.htab[i][x]] /\ r.ptr[b.htab[i][y]] = b.ptr[b.htab[i][y]]
        BY <1>5
      <3>2. \A z, w \in 1..Len(b.htab[i]) :
                b.ptr[b.htab[i][z]] = b.ptr[b.htab[i][w]] => z = w
        BY DEF Chained
      <3> QED
        BY <3>1, <3>2
    <2>2. CASE i # h
      BY <1>2, <1>7, <2>1, <2>2
    <2>3. CASE i = h
      <3>1. \A x \in 1..Len(old) : r.ptr[old[x]] # u
        BY <1>1, <1>5 DEF old
      <3>2. \A x \in {j, k} : \/ x = 1 /\ r.ptr[new[x]] = u
                              \/ x - 1 \in 1..Len(old) /\ new[x] = old[x - 1]
        <4>1. j \in 1..Len(new) /\ k \in 1..Len(new)
          BY <2>3 DEF new
        <4> QED
          BY <1>4, <4>1
      <3>3. j \in Nat /\ k \in Nat
        OBVIOUS
      <3>4. r.ptr[new[j]] = r.ptr[new[k]]
        BY <1>7, <2>3 DEF new
      <3>5. CASE j = 1 \/ k = 1
        <4>1. \A x \in {j, k} : x = 1 <=> r.ptr[new[x]] = u
          BY <3>1, <3>2
        <4> QED
          BY <3>4, <3>5, <4>1
      <3>6. CASE j # 1 /\ k # 1
        <4>1. j - 1 = k - 1
          <5>1. /\ j - 1 \in 1..Len(old) /\ new[j] = old[j - 1]
                /\ k - 1 \in 1..Len(old) /\ new[k] = old[k - 1]
            BY <3>2, <3>6
          <5>2. r.ptr[old[j - 1]] = r.ptr[old[k - 1]]
            BY <3>4, <5>1
          <5> QED
            BY <2>1, <2>3, <5>1, <5>2 DEF old
        <4> QED
          BY <3>3, <4>1
      <3> QED
        BY <3>5, <3>6
    <2> QED
      BY <2>2, <2>3
  <1>8. ASSUME NEW v \in has \cup {u}
        PROVE  \E j \in 1..Len(r.htab[hash(v)]) : r.ptr[r.htab[hash(v)][j]] = v
    <2>1. CASE v = u
      BY <1>3, <2>1 DEF new, h
    <2>2. CASE v # u
      <3>1. v \in has /\ hash(v) \in 0..Buckets - 1
        <4>1. v \in has /\ v \in Nat /\ Buckets \in Nat \ {0}
          BY <2>2 DEF MemchkAssumption
        <4> QED
          BY <4>1 DEF hash
      <3>2. PICK j \in 1..Len(b.htab[hash(v)]) : b.ptr[b.htab[hash(v)][j]] = v
        BY <3>1 DEF Chained
      <3>3. r.ptr[b.htab[hash(v)][j]] = v
        BY <1>5, <3>1, <3>2
      <3>4. CASE hash(v) # h
        BY <1>2, <3>1, <3>2, <3>3, <3>4
      <3>5. CASE hash(v) = h
        <4>1. j \in 1..Len(old) /\ j + 1 \in 1..Len(new) /\ new[j + 1] = old[j]
          BY <1>3, <3>2, <3>5 DEF old
        <4> QED
          BY <3>3, <3>5, <4>1 DEF old, new
      <3> QED
        BY <3>4, <3>5
    <2> QED
      BY <2>1, <2>2
  <1> QED
    BY <1>6, <1>7, <1>8 DEF Chained

(* A chain that gets a new first descriptor has it and those it had. *)
LEMMA FirstOfChain ==
    ASSUME MemchkAssumption, NEW b, BooksType(b), NEW a \in Place, NEW dp \in Nat
    PROVE  LET chains == NewFirst(b, a, dp)
           IN
           /\ chains \in [0..Buckets - 1 -> Seq(Nat)]
           /\ \A i \in 0..Buckets - 1 : \A j \in 1..Len(chains[i]) :
                 chains[i][j] = dp \/ \E k \in 1..Len(b.htab[i]) : chains[i][j] = b.htab[i][k]
  <1> DEFINE old == b.htab[hash(a)]
             new == <<dp>> \o old
             chains == NewFirst(b, a, dp)
  <1>1. hash(a) \in 0..Buckets - 1 /\ b.htab \in [0..Buckets - 1 -> Seq(Nat)]
    BY DEF MemchkAssumption, hash, BooksType
  <1>2. old \in Seq(Nat)
    BY <1>1
  <1>3. /\ new \in Seq(Nat) /\ \A x : Contains(new, x) <=> Contains(old, x) \/ x = dp
    <2> HIDE DEF old
    <2> QED
      BY <1>2, ConsContains
  <1>4. /\ chains \in [0..Buckets - 1 -> Seq(Nat)] /\ chains[hash(a)] = new
        /\ \A i \in 0..Buckets - 1 : i # hash(a) => chains[i] = b.htab[i]
    <2>1. chains = [b.htab EXCEPT ![hash(a)] = new]
      BY DEF NewFirst
    <2> HIDE DEF new, chains
    <2> QED
      BY <1>1, <1>3, <2>1
  <1> HIDE DEF new, chains
  <1>5. ASSUME NEW i \in 0..Buckets - 1, NEW j \in 1..Len(chains[i])
        PROVE  chains[i][j] = dp \/ \E k \in 1..Len(b.htab[i]) : chains[i][j] = b.htab[i][k]
    <2>1. CASE i # hash(a)
      BY <1>4, <2>1
    <2>2. CASE i = hash(a)
      <3>1. Contains(new, chains[i][j])
        BY <1>4, <2>2 DEF Contains
      <3>2. CASE Contains(old, chains[i][j])
        BY <1>2, <2>2, <3>2 DEF Contains
      <3> QED
        BY <1>3, <3>1, <3>2
    <2> QED
      BY <2>1, <2>2
  <1> QED
    BY <1>4, <1>5 DEF chains

(* A block more: its descriptor is new, or the first that is not in use. *)
LEMMA AllocatedFits ==
    ASSUME MemchkAssumption, NEW has \in SUBSET Place, IsFiniteSet(has),
           NEW b, BooksFit(b, has), NEW a \in Place, a \notin has
    PROVE  BooksFit(Allocated(b, a), has \cup {a})
  <1> DEFINE r == Allocated(b, a)
             dp == IF b.free_list = <<>> THEN Len(b.ptr) + 1 ELSE Head(b.free_list)
  <1>1. /\ b.free_list \in Seq(Nat) /\ b.ptr \in Seq(Place)
        /\ BooksType(b) /\ Chained(b, has) /\ Spare(b, has)
    BY DEF BooksFit, BooksType
  <1>2. /\ r.htab = NewFirst(b, a, dp)
        /\ r.free_list = IF b.free_list = <<>> THEN <<>> ELSE Tail(b.free_list)
        /\ r.ptr = IF b.free_list = <<>> THEN Append(b.ptr, a) ELSE [b.ptr EXCEPT ![dp] = a]
    BY DEF Allocated, NewFirst
  <1>3. /\ Cardinality(has) \in Nat /\ Cardinality(has \cup {a}) = Cardinality(has) + 1
        /\ Len(b.ptr) \in Nat
    <2>1. Len(b.ptr) \in Nat
      BY <1>1, QueuePlaces
    <2> QED
      BY <2>1, FS_AddElement, FS_CardinalityType
  <1>4. \A i \in 0..Buckets - 1 : \A j \in 1..Len(b.htab[i]) : b.htab[i][j] \in 1..Len(b.ptr)
    BY <1>1 DEF Chained
  <1> HIDE DEF r
  <1>5. /\ dp \in Nat /\ dp \in 1..Len(r.ptr) /\ r.ptr \in Seq(Place) /\ r.ptr[dp] = a
        /\ \A d \in 1..Len(b.ptr) : d # dp => d \in 1..Len(r.ptr) /\ r.ptr[d] = b.ptr[d]
        /\ \A i \in 0..Buckets - 1 : \A j \in 1..Len(b.htab[i]) : b.htab[i][j] # dp
        /\ r.free_list \in Seq(Nat)
        /\ Len(r.ptr) = Cardinality(has \cup {a}) + Len(r.free_list)
        /\ \A k \in 1..Len(r.free_list) :
              /\ r.free_list[k] \in 1..Len(r.ptr) /\ r.free_list[k] # dp
              /\ \E l \in 1..Len(b.free_list) : r.free_list[k] = b.free_list[l]
        /\ \A k, l \in 1..Len(r.free_list) : r.free_list[k] = r.free_list[l] => k = l
    <2>1. CASE b.free_list = <<>>
      <3>1. /\ dp = Len(b.ptr) + 1 /\ r.ptr = Append(b.ptr, a) /\ r.free_list = <<>>
            /\ Len(b.free_list) = 0 /\ Len(r.free_list) = 0
        BY <1>2, <2>1
      <3>2. Len(b.ptr) = Cardinality(has) + Len(b.free_list)
        BY <1>1 DEF Spare
      <3>3. /\ r.ptr \in Seq(Place) /\ Len(r.ptr) = Len(b.ptr) + 1 /\ r.ptr[Len(b.ptr) + 1] = a
            /\ \A d \in 1..Len(b.ptr) : r.ptr[d] = b.ptr[d]
        BY <1>1, <3>1, AppendPlaces
      <3>4. \A d \in 1..Len(b.ptr) : d # Len(b.ptr) + 1 /\ d \in 1..Len(r.ptr)
        BY <1>3, <3>3
      <3> HIDE DEF dp
      <3>5. dp \in Nat /\ dp \in 1..Len(r.ptr) /\ Len(r.ptr) = Cardinality(has \cup {a}) + Len(r.free_list)
        BY <1>3, <3>1, <3>2, <3>3
      <3>6. \A i \in 0..Buckets - 1 : \A j \in 1..Len(b.htab[i]) : b.htab[i][j] # dp
        BY <1>4, <3>1, <3>4
      <3>7. r.free_list \in Seq(Nat) /\ 1..Len(r.free_list) = {}
        BY <3>1
      <3> QED
        BY <3>1, <3>3, <3>4, <3>5, <3>6, <3>7
    <2>2. CASE b.free_list # <<>>
      <3> DEFINE f == b.free_list
      <3>1. dp = Head(f) /\ r.ptr = [b.ptr EXCEPT ![dp] = a] /\ r.free_list = Tail(f)
        BY <1>2, <2>2
      <3>2. /\ Tail(f) \in Seq(Nat) /\ Len(f) \in Nat \ {0} /\ Len(Tail(f)) = Len(f) - 1
            /\ \A i \in 1..Len(f) - 1 : Tail(f)[i] = f[i + 1]
            /\ Head(f) = f[1]
        BY <1>1, <2>2, TailPlaces
      <3>3. /\ \A k \in 1..Len(f) : f[k] \in 1..Len(b.ptr)
            /\ \A k \in 1..Len(f) : \A i \in 0..Buckets - 1 : \A j \in 1..Len(b.htab[i]) :
                  b.htab[i][j] # f[k]
            /\ \A k, l \in 1..Len(f) : f[k] = f[l] => k = l
            /\ Len(b.ptr) = Cardinality(has) + Len(f)
        BY <1>1 DEF Spare
      <3> HIDE DEF dp, f
      <3>4. 1 \in 1..Len(f) /\ dp = f[1]
        BY <3>1, <3>2
      <3>5. dp \in 1..Len(b.ptr) /\ dp \in Nat
        BY <1>3, <3>3, <3>4
      <3>6. /\ r.ptr \in Seq(Place) /\ Len(r.ptr) = Len(b.ptr) /\ r.ptr[dp] = a
            /\ \A d \in 1..Len(b.ptr) : d # dp => r.ptr[d] = b.ptr[d]
        BY <1>1, <3>1, <3>5
      <3>7. \A k \in 1..Len(Tail(f)) : k + 1 \in 1..Len(f) /\ k + 1 # 1 /\ Tail(f)[k] = f[k + 1]
        BY <3>2
      <3>8. \A k \in 1..Len(Tail(f)) :
              /\ Tail(f)[k] \in 1..Len(r.ptr) /\ Tail(f)[k] # dp
              /\ \E l \in 1..Len(f) : Tail(f)[k] = f[l]
        BY <3>3, <3>4, <3>6, <3>7
      <3>9. ASSUME NEW k \in 1..Len(Tail(f)), NEW l \in 1..Len(Tail(f)), Tail(f)[k] = Tail(f)[l]
            PROVE  k = l
        <4>1. k + 1 = l + 1
          BY <3>3, <3>7, <3>9
        <4> QED
          BY <3>2, <4>1
      <3>10. Len(r.ptr) = Cardinality(has \cup {a}) + Len(Tail(f))
        BY <1>3, <3>2, <3>3, <3>6
      <3>11. \A i \in 0..Buckets - 1 : \A j \in 1..Len(b.htab[i]) : b.htab[i][j] # dp
        BY <3>3, <3>4
      <3>12. \A d \in 1..Len(b.ptr) : d # dp => d \in 1..Len(r.ptr) /\ r.ptr[d] = b.ptr[d]
        BY <3>6
      <3>13. r.free_list = Tail(f) /\ dp \in 1..Len(r.ptr)
        BY <3>1, <3>5, <3>6
      <3> QED
        <4>1. \A k \in 1..Len(r.free_list) :
                 /\ r.free_list[k] \in 1..Len(r.ptr) /\ r.free_list[k] # dp
                 /\ \E l \in 1..Len(b.free_list) : r.free_list[k] = b.free_list[l]
          BY <3>8, <3>13 DEF f
        <4>2. \A k, l \in 1..Len(r.free_list) : r.free_list[k] = r.free_list[l] => k = l
          BY <3>9, <3>13
        <4>3. r.free_list \in Seq(Nat) /\ Len(r.ptr) = Cardinality(has \cup {a}) + Len(r.free_list)
          BY <3>2, <3>10, <3>13
        <4> QED
          BY <3>5, <3>6, <3>11, <3>12, <3>13, <4>1, <4>2, <4>3
    <2> QED
      BY <2>1, <2>2
  <1> HIDE DEF dp
  <1>6. /\ r.htab \in [0..Buckets - 1 -> Seq(Nat)]
        /\ \A i \in 0..Buckets - 1 : \A j \in 1..Len(r.htab[i]) :
              r.htab[i][j] = dp \/ \E k \in 1..Len(b.htab[i]) : r.htab[i][j] = b.htab[i][k]
    <2>1. dp \in Nat /\ BooksType(b)
      BY <1>1, <1>5
    <2>2. r.htab = NewFirst(b, a, dp)
      BY <1>2
    <2> QED
      BY <2>1, <2>2, FirstOfChain
  <1>7. BooksType(r)
    BY <1>5, <1>6 DEF BooksType
  <1>8. Chained(r, has \cup {a})
    <2>1. /\ dp \in Nat /\ BooksType(b) /\ Chained(b, has)
          /\ dp \in 1..Len(r.ptr) /\ r.ptr[dp] = a
      BY <1>1, <1>5
    <2>2. r.htab = NewFirst(b, a, dp)
      BY <1>2
    <2>3. /\ \A d \in 1..Len(b.ptr) : d # dp => d \in 1..Len(r.ptr) /\ r.ptr[d] = b.ptr[d]
          /\ \A i \in 0..Buckets - 1 : \A j \in 1..Len(b.htab[i]) : b.htab[i][j] # dp
      BY <1>5
    <2> QED
      BY <1>7, <2>1, <2>2, <2>3, ChainsGrow
  <1>9. ASSUME NEW k \in 1..Len(r.free_list), NEW i \in 0..Buckets - 1, NEW j \in 1..Len(r.htab[i])
        PROVE  r.htab[i][j] # r.free_list[k]
    <2>1. PICK l \in 1..Len(b.free_list) : r.free_list[k] = b.free_list[l]
      BY <1>5
    <2>2. \A x \in 1..Len(b.htab[i]) : b.htab[i][x] # b.free_list[l]
      BY <1>1 DEF Spare
    <2>3. r.htab[i][j] = dp \/ \E x \in 1..Len(b.htab[i]) : r.htab[i][j] = b.htab[i][x]
      BY <1>6
    <2>4. r.free_list[k] # dp
      BY <1>5
    <2> QED
      BY <2>1, <2>2, <2>3, <2>4
  <1> QED
    BY <1>5, <1>7, <1>8, <1>9 DEF BooksFit, Spare, r

(* The table when the chain of a has lost its descriptor at n: those behind *)
(* it move up, the others stay.                                             *)
Without(b, a, n) == [b.htab EXCEPT ![hash(a)] = RemoveAt(@, n)]
Was(a, n, i, j) == IF i = hash(a) /\ j >= n THEN j + 1 ELSE j

LEMMA RestOfChain ==
    ASSUME MemchkAssumption, NEW b, BooksType(b), NEW a \in Place,
           NEW n \in 1..Len(b.htab[hash(a)])
    PROVE  LET chains == Without(b, a, n)
           IN  /\ chains \in [0..Buckets - 1 -> Seq(Nat)]
               /\ \A i \in 0..Buckets - 1 : \A j \in 1..Len(chains[i]) :
                     /\ Was(a, n, i, j) \in 1..Len(b.htab[i])
                     /\ chains[i][j] = b.htab[i][Was(a, n, i, j)]
                     /\ i = hash(a) => Was(a, n, i, j) # n
                     /\ \A k \in 1..Len(chains[i]) : Was(a, n, i, j) = Was(a, n, i, k) => j = k
               /\ \A i \in 0..Buckets - 1 : \A k \in 1..Len(b.htab[i]) :
                     \/ i = hash(a) /\ k = n
                     \/ \E j \in 1..Len(chains[i]) : chains[i][j] = b.htab[i][k]
  <1> DEFINE chains == Without(b, a, n)
             h == hash(a)
             old == b.htab[h]
             new == RemoveAt(old, n)
  <1>1. h \in 0..Buckets - 1 /\ b.htab \in [0..Buckets - 1 -> Seq(Nat)]
    BY DEF MemchkAssumption, hash, BooksType
  <1>2. old \in Seq(Nat) /\ n \in 1..Len(old)
    BY <1>1
  <1>3. /\ new \in Seq(Nat) /\ Len(new) = Len(old) - 1 /\ Len(old) \in Nat
        /\ \A j \in 1..n - 1 : j \in 1..Len(new) /\ new[j] = old[j]
        /\ \A j \in n + 1..Len(old) : j - 1 \in 1..Len(new) /\ new[j - 1] = old[j]
        /\ \A j \in 1..Len(new) : \/ j \in 1..n - 1 /\ new[j] = old[j]
                                  \/ j + 1 \in n + 1..Len(old) /\ new[j] = old[j + 1]
    <2> DEFINE S == Nat
    <2>1. old \in Seq(S) /\ n \in 1..Len(old)
      BY <1>2
    <2> HIDE DEF old, S
    <2>2. /\ new \in Seq(S) /\ Len(new) = Len(old) - 1 /\ Len(old) \in Nat
          /\ \A j \in 1..n - 1 : j \in 1..Len(new) /\ new[j] = old[j]
          /\ \A j \in n + 1..Len(old) : j - 1 \in 1..Len(new) /\ new[j - 1] = old[j]
          /\ \A j \in 1..Len(new) : \/ j \in 1..n - 1 /\ new[j] = old[j]
                                    \/ j + 1 \in n + 1..Len(old) /\ new[j] = old[j + 1]
      BY <2>1, RemoveAtPlaces
    <2> QED
      BY <2>2 DEF S
  <1>4. /\ chains \in [0..Buckets - 1 -> Seq(Nat)] /\ chains[h] = new
        /\ \A i \in 0..Buckets - 1 : i # h => chains[i] = b.htab[i]
    <2>1. chains = [b.htab EXCEPT ![h] = new]
      BY DEF Without
    <2> HIDE DEF new, chains
    <2> QED
      BY <1>1, <1>3, <2>1
  <1> HIDE DEF new, old, chains, h
  <1>5. \A i \in 0..Buckets - 1 : Len(b.htab[i]) \in Nat /\ Len(chains[i]) \in Nat
    BY <1>1, <1>4
  <1>6. ASSUME NEW i \in 0..Buckets - 1, NEW j \in 1..Len(chains[i])
        PROVE  /\ Was(a, n, i, j) \in 1..Len(b.htab[i])
               /\ chains[i][j] = b.htab[i][Was(a, n, i, j)]
               /\ i = hash(a) => Was(a, n, i, j) # n
               /\ \A k \in 1..Len(chains[i]) : Was(a, n, i, j) = Was(a, n, i, k) => j = k
    <2>1. CASE i # h
      <3>1. chains[i] = b.htab[i] /\ \A k \in 1..Len(chains[i]) : Was(a, n, i, k) = k
        BY <1>4, <2>1 DEF Was, h
      <3> QED
        BY <2>1, <3>1 DEF h
    <2>2. CASE i = h
      <3>1. \A k \in 1..Len(chains[i]) : Was(a, n, i, k) = IF k >= n THEN k + 1 ELSE k
        BY <2>2 DEF Was, h
      <3>2. j \in 1..Len(new) /\ n \in Nat /\ j \in Nat /\ Len(old) \in Nat
        BY SMTT(30), <1>2, <1>3, <1>4, <2>2
      <3>3. CASE j >= n
        <4>1. Was(a, n, i, j) = j + 1 /\ ~(j \in 1..n - 1)
          BY <3>1, <3>2, <3>3
        <4>2. j + 1 \in 1..Len(old) /\ new[j] = old[j + 1] /\ j + 1 # n
          BY <1>3, <3>2, <3>3, <4>1
        <4>3. \A k \in 1..Len(chains[i]) : Was(a, n, i, j) = Was(a, n, i, k) => j = k
          BY <3>1, <3>2, <3>3, <4>1
        <4> QED
          BY <1>4, <2>2, <4>1, <4>2, <4>3 DEF old
      <3>4. CASE ~(j >= n)
        <4>1. Was(a, n, i, j) = j /\ j \in 1..n - 1 /\ j # n /\ j \in 1..Len(old)
          BY <1>2, <3>1, <3>2, <3>4
        <4>2. new[j] = old[j]
          BY <1>3, <4>1
        <4>3. \A k \in 1..Len(chains[i]) : Was(a, n, i, j) = Was(a, n, i, k) => j = k
          BY <3>1, <3>2, <3>4, <4>1
        <4> QED
          BY <1>4, <2>2, <4>1, <4>2, <4>3 DEF old
      <3> QED
        BY <3>3, <3>4
    <2> QED
      BY <2>1, <2>2
  <1>7. ASSUME NEW i \in 0..Buckets - 1, NEW k \in 1..Len(b.htab[i])
        PROVE  \/ i = hash(a) /\ k = n
               \/ \E j \in 1..Len(chains[i]) : chains[i][j] = b.htab[i][k]
    <2>1. CASE i # h
      BY <1>4, <2>1
    <2>2. CASE i = h
      <3>1. k \in 1..Len(old) /\ b.htab[i] = old
        BY <2>2 DEF old
      <3>2. k = n \/ k \in 1..n - 1 \/ k \in n + 1..Len(old)
        BY <1>2, <1>3, <3>1
      <3>3. k = n \/ \E j \in 1..Len(new) : new[j] = old[k]
        BY <1>3, <3>2
      <3> QED
        BY <1>4, <2>2, <3>1, <3>3 DEF h
    <2> QED
      BY <2>1, <2>2
  <1> QED
    BY <1>4, <1>6, <1>7 DEF chains

(* A block less: its descriptor is the next to be used again. *)
LEMMA ReleasedFits ==
    ASSUME MemchkAssumption, NEW has \in SUBSET Place, IsFiniteSet(has),
           NEW b, BooksFit(b, has), NEW a \in has
    PROVE  BooksFit(Released(b, a), has \ {a})
  <1> DEFINE r == Released(b, a)
             h == hash(a)
             n == At(b, a)
             dp == b.htab[h][n]
             f == b.free_list
  <1>1. /\ f \in Seq(Nat) /\ b.ptr \in Seq(Place) /\ b.htab \in [0..Buckets - 1 -> Seq(Nat)]
        /\ BooksType(b) /\ Chained(b, has) /\ Spare(b, has) /\ a \in Place
    BY DEF BooksFit, BooksType
  <1>2. /\ h \in 0..Buckets - 1 /\ n \in 1..Len(b.htab[h]) /\ b.ptr[dp] = a
    BY <1>1, AtFinds
  <1>3. r.htab = Without(b, a, n) /\ r.free_list = <<dp>> \o f /\ r.ptr = b.ptr
    BY DEF Released, Without
  <1>4. /\ dp \in Nat /\ dp \in 1..Len(b.ptr)
        /\ \A k \in 1..Len(f) : f[k] # dp
    <2>1. dp \in Nat
      <3>1. b.htab[h] \in Seq(Nat)
        BY <1>1, <1>2
      <3> HIDE DEF h, n
      <3> QED
        BY <1>2, <3>1, QueuePlaces
    <2>2. dp \in 1..Len(b.ptr)
      BY <1>1, <1>2 DEF Chained
    <2>3. \A k \in 1..Len(f) : f[k] # dp
      BY <1>1, <1>2 DEF Spare
    <2> QED
      BY <2>1, <2>2, <2>3
  <1> HIDE DEF r, h, n, dp, f
  <1>5. /\ r.htab \in [0..Buckets - 1 -> Seq(Nat)]
        /\ \A i \in 0..Buckets - 1 : \A j \in 1..Len(r.htab[i]) :
              /\ Was(a, n, i, j) \in 1..Len(b.htab[i])
              /\ r.htab[i][j] = b.htab[i][Was(a, n, i, j)]
              /\ i = h => Was(a, n, i, j) # n
              /\ \A k \in 1..Len(r.htab[i]) : Was(a, n, i, j) = Was(a, n, i, k) => j = k
        /\ \A i \in 0..Buckets - 1 : \A k \in 1..Len(b.htab[i]) :
              \/ i = h /\ k = n
              \/ \E j \in 1..Len(r.htab[i]) : r.htab[i][j] = b.htab[i][k]
    BY <1>1, <1>2, <1>3, RestOfChain DEF h
  <1>6. /\ r.free_list \in Seq(Nat) /\ Len(f) \in Nat /\ Len(r.free_list) = Len(f) + 1
        /\ r.free_list[1] = dp /\ \A k \in 1..Len(f) : r.free_list[k + 1] = f[k]
    BY <1>1, <1>3, <1>4, ConsContains
  <1>7. \A k \in 1..Len(r.free_list) : \/ k = 1 /\ r.free_list[k] = dp
                                       \/ k - 1 \in 1..Len(f) /\ r.free_list[k] = f[k - 1]
    <2> TAKE k \in 1..Len(r.free_list)
    <2>1. CASE k = 1
      BY <1>6, <2>1
    <2>2. CASE k # 1
      <3>1. k - 1 \in 1..Len(f) /\ (k - 1) + 1 = k
        BY <1>6, <2>2
      <3> QED
        BY <1>6, <3>1
    <2> QED
      BY <2>1, <2>2
  <1>8. BooksType(r)
    BY <1>1, <1>3, <1>5, <1>6 DEF BooksType
  <1>9. \A i \in 0..Buckets - 1 : \A j \in 1..Len(b.htab[i]) :
            /\ b.htab[i][j] \in 1..Len(b.ptr)
            /\ b.ptr[b.htab[i][j]] \in has /\ hash(b.ptr[b.htab[i][j]]) = i
            /\ \A k \in 1..Len(b.htab[i]) : b.ptr[b.htab[i][j]] = b.ptr[b.htab[i][k]] => j = k
    BY <1>1 DEF Chained
  <1>10. ASSUME NEW i \in 0..Buckets - 1, NEW j \in 1..Len(r.htab[i])
         PROVE  LET d == r.htab[i][j]
                IN  /\ d \in 1..Len(r.ptr) /\ r.ptr[d] \in has \ {a} /\ hash(r.ptr[d]) = i
                    /\ d # dp
    <2> DEFINE d == r.htab[i][j]
               w == Was(a, n, i, j)
    <2>1. w \in 1..Len(b.htab[i]) /\ d = b.htab[i][w] /\ (i = h => w # n)
      BY <1>5
    <2>2. d \in 1..Len(b.ptr) /\ b.ptr[d] \in has /\ hash(b.ptr[d]) = i
      BY <1>9, <2>1
    <2> HIDE DEF d
    <2>3. b.ptr[d] # a
      <3>1. CASE i = h
        <4>1. b.ptr[b.htab[i][n]] = a /\ n \in 1..Len(b.htab[i]) /\ w # n
          BY <1>2, <2>1, <3>1 DEF dp
        <4> QED
          BY <1>9, <2>1, <4>1
      <3>2. CASE i # h
        BY <2>2, <3>2 DEF h
      <3> QED
        BY <3>1, <3>2
    <2> QED
      BY <1>2, <1>3, <2>2, <2>3 DEF d
  <1>11. ASSUME NEW i \in 0..Buckets - 1, NEW j \in 1..Len(r.htab[i]), NEW k \in 1..Len(r.htab[i]),
                r.ptr[r.htab[i][j]] = r.ptr[r.htab[i][k]]
         PROVE  j = k
    <2>1. /\ Was(a, n, i, j) \in 1..Len(b.htab[i]) /\ r.htab[i][j] = b.htab[i][Was(a, n, i, j)]
          /\ Was(a, n, i, k) \in 1..Len(b.htab[i]) /\ r.htab[i][k] = b.htab[i][Was(a, n, i, k)]
      BY <1>5
    <2>2. \A v, w \in 1..Len(b.htab[i]) :
              b.ptr[b.htab[i][v]] = b.ptr[b.htab[i][w]] => v = w
      BY <1>9
    <2>3. b.ptr[r.htab[i][j]] = b.ptr[r.htab[i][k]]
      BY <1>3, <1>11
    <2>4. Was(a, n, i, j) = Was(a, n, i, k)
      BY <2>1, <2>2, <2>3
    <2> QED
      BY <1>5, <2>4
  <1>12. ASSUME NEW z \in has \ {a}
         PROVE  \E j \in 1..Len(r.htab[hash(z)]) : r.ptr[r.htab[hash(z)][j]] = z
    <2>1. PICK k \in 1..Len(b.htab[hash(z)]) : b.ptr[b.htab[hash(z)][k]] = z
      BY <1>1 DEF Chained
    <2>2. hash(z) \in 0..Buckets - 1
      <3>1. z \in Nat /\ Buckets \in Nat \ {0}
        BY DEF MemchkAssumption
      <3> QED
        BY <3>1 DEF hash
    <2>3. ~(hash(z) = h /\ k = n)
      BY <1>2, <2>1 DEF dp
    <2>4. PICK j \in 1..Len(r.htab[hash(z)]) : r.htab[hash(z)][j] = b.htab[hash(z)][k]
      BY <1>5, <2>1, <2>2, <2>3
    <2> QED
      BY <1>3, <2>1, <2>4
  <1>13. Chained(r, has \ {a})
    BY <1>10, <1>11, <1>12 DEF Chained
  <1>14. /\ \A k \in 1..Len(f) : f[k] \in 1..Len(b.ptr)
         /\ \A k \in 1..Len(f) : \A i \in 0..Buckets - 1 : \A j \in 1..Len(b.htab[i]) :
               b.htab[i][j] # f[k]
         /\ \A k, l \in 1..Len(f) : f[k] = f[l] => k = l
         /\ Len(b.ptr) = Cardinality(has) + Len(f)
    BY <1>1 DEF Spare, f
  <1>15. Spare(r, has \ {a})
    <2>1. ASSUME NEW k \in 1..Len(r.free_list) PROVE r.free_list[k] \in 1..Len(r.ptr)
      BY <1>3, <1>4, <1>7, <1>14
    <2>2. ASSUME NEW k \in 1..Len(r.free_list), NEW i \in 0..Buckets - 1,
                 NEW j \in 1..Len(r.htab[i])
          PROVE  r.htab[i][j] # r.free_list[k]
      <3>1. r.htab[i][j] # dp
        BY <1>10
      <3>2. PICK w \in 1..Len(b.htab[i]) : r.htab[i][j] = b.htab[i][w]
        <4>1. /\ Was(a, n, i, j) \in 1..Len(b.htab[i])
              /\ r.htab[i][j] = b.htab[i][Was(a, n, i, j)]
          BY <1>5
        <4> QED
          BY <4>1
      <3>3. \A l \in 1..Len(f) : r.htab[i][j] # f[l]
        BY <1>14, <3>2
      <3> QED
        BY <1>7, <3>1, <3>3
    <2>3. ASSUME NEW k \in 1..Len(r.free_list), NEW l \in 1..Len(r.free_list),
                 r.free_list[k] = r.free_list[l]
          PROVE  k = l
      <3>1. /\ \/ k = 1 /\ r.free_list[k] = dp
               \/ k - 1 \in 1..Len(f) /\ r.free_list[k] = f[k - 1]
            /\ \/ l = 1 /\ r.free_list[l] = dp
               \/ l - 1 \in 1..Len(f) /\ r.free_list[l] = f[l - 1]
        BY <1>7
      <3>2. CASE k = 1 \/ l = 1
        BY <1>4, <2>3, <3>1, <3>2
      <3>3. CASE k # 1 /\ l # 1
        <4>1. k - 1 = l - 1
          BY <1>14, <2>3, <3>1, <3>3
        <4> QED
          BY <1>6, <4>1
      <3> QED
        BY <3>2, <3>3
    <2>4. Len(r.ptr) = Cardinality(has \ {a}) + Len(r.free_list)
      <3>1. Cardinality(has \ {a}) = Cardinality(has) - 1 /\ Cardinality(has) \in Nat
        BY FS_RemoveElement, FS_CardinalityType
      <3> QED
        BY <1>3, <1>6, <1>14, <3>1
    <2> QED
      BY <2>1, <2>2, <2>3, <2>4 DEF Spare
  <1> QED
    BY <1>8, <1>13, <1>15 DEF BooksFit, r

(* A walk of the table comes to each block of the program once. *)
LEMMA WalkTellsBlocks ==
    ASSUME MemchkAssumption, live \subseteq Place, IsFiniteSet(live), BooksFit(Books, live)
    PROVE  /\ Cardinality(Linked) = Cardinality(live)
           /\ {ptr[htab[l[1]][l[2]]] : l \in Linked} = live
  <1> DEFINE G == [a \in live |-> <<hash(a), At(Books, a)>>]
  <1>1. ASSUME NEW a \in live
        PROVE  /\ hash(a) \in 0..Buckets - 1
               /\ At(Books, a) \in 1..Len(htab[hash(a)])
               /\ ptr[htab[hash(a)][At(Books, a)]] = a
    BY AtFinds DEF Books
  <1>2. /\ htab \in [0..Buckets - 1 -> Seq(Nat)]
        /\ \A i \in 0..Buckets - 1 : \A j \in 1..Len(htab[i]) :
              /\ ptr[htab[i][j]] \in live /\ hash(ptr[htab[i][j]]) = i
              /\ \A k \in 1..Len(htab[i]) : ptr[htab[i][j]] = ptr[htab[i][k]] => j = k
    BY DEF BooksFit, BooksType, Chained, Books
  <1>3. \A l : l \in Linked <=>
                  \E i \in 0..Buckets - 1 : \E j \in 1..Len(htab[i]) : l = <<i, j>>
    <2>1. \A i \in 0..Buckets - 1 : DOMAIN htab[i] = 1..Len(htab[i])
      BY <1>2
    <2> QED
      BY <2>1 DEF Linked
  <1>4. G \in [live -> Linked]
    BY <1>1, <1>3
  <1>5. \A a, z \in live : G[a] = G[z] => a = z
    <2> TAKE a, z \in live
    <2> HAVE G[a] = G[z]
    <2>1. hash(a) = hash(z) /\ At(Books, a) = At(Books, z)
      OBVIOUS
    <2> QED
      BY <1>1, <2>1
  <1>6. ASSUME NEW l \in Linked
        PROVE  /\ ptr[htab[l[1]][l[2]]] \in live
               /\ G[ptr[htab[l[1]][l[2]]]] = l
    <2>1. PICK i \in 0..Buckets - 1 : \E k \in 1..Len(htab[i]) : l = <<i, k>>
      BY <1>3
    <2>0. PICK j \in 1..Len(htab[i]) : l = <<i, j>>
      BY <2>1
    <2> DEFINE a == ptr[htab[i][j]]
    <2>2. a \in live /\ hash(a) = i
      BY <1>2
    <2> HIDE DEF a
    <2>3. At(Books, a) \in 1..Len(htab[i]) /\ ptr[htab[i][At(Books, a)]] = a
      BY <1>1, <2>2
    <2>4. At(Books, a) = j
      BY <1>2, <2>3 DEF a
    <2> QED
      BY <2>0, <2>2, <2>4 DEF a
  <1>7. {ptr[htab[l[1]][l[2]]] : l \in Linked} = live
    <2>1. ASSUME NEW a \in live PROVE a \in {ptr[htab[l[1]][l[2]]] : l \in Linked}
      <3>1. <<hash(a), At(Books, a)>> \in Linked
        BY <1>1, <1>3
      <3> QED
        BY <1>1, <3>1
    <2> QED
      BY <1>6, <2>1
  <1>8. G \in Bijection(live, Linked)
    <2> HIDE DEF G
    <2>1. \A l \in Linked : \E a \in live : G[a] = l
      BY <1>6
    <2>2. DOMAIN G = live
      BY <1>4
    <2>3. IsInjective(G)
      BY <1>5, <2>2 DEF IsInjective
    <2> QED
      BY <1>4, <2>1, <2>3 DEF Bijection, Injection, Surjection
  <1>9. Cardinality(Linked) = Cardinality(live)
    BY <1>8, FS_Bijection DEF ExistsBijection
  <1> QED
    BY <1>7, <1>9

LEMMA InitMemchkInv == ASSUME MemchkAssumption, MemchkInit PROVE MemchkInv
  <1>1. live = {} /\ IsFiniteSet(live) /\ Cardinality(live) = 0
    BY FS_EmptySet DEF MemchkInit
  <1>2. BooksType(Books)
    BY DEF MemchkInit, BooksType, Books
  <1>3. Chained(Books, {})
    BY DEF MemchkInit, Chained, Books
  <1>4. Spare(Books, live)
    BY <1>1 DEF MemchkInit, Spare, Books
  <1> QED
    BY <1>1, <1>2, <1>3, <1>4 DEF MemchkInit, MemchkInv, BooksFit

LEMMA MemchkInvStep ==
    ASSUME MemchkAssumption, MemchkInv, [MemchkNext]_memchkVars
    PROVE  MemchkInv'
  <1>1. live \in SUBSET Place /\ IsFiniteSet(live) /\ BooksFit(Books, live) /\ (exited <=> wild)
    BY DEF MemchkInv
  <1>3. ASSUME NEW b, NEW has, BooksFit(b, has), Becomes(b) PROVE BooksFit(Books, has)'
    <2>1. htab' = b.htab /\ free_list' = b.free_list /\ ptr' = b.ptr
      BY <1>3 DEF Becomes
    <2>2. BooksType(Books)'
      BY <1>3, <2>1 DEF Books, BooksFit, BooksType
    <2>3. Chained(Books, has)'
      BY <1>3, <2>1 DEF Books, BooksFit, Chained
    <2>4. Spare(Books, has)'
      BY <1>3, <2>1 DEF Books, BooksFit, Spare
    <2> QED
      BY <2>2, <2>3, <2>4 DEF BooksFit
  <1>4. ASSUME NEW a \in Place, mem_alloc(a) PROVE MemchkInv'
    <2>1. BooksFit(Allocated(Books, a), live \cup {a})
      BY <1>1, <1>4, AllocatedFits DEF mem_alloc
    <2> QED
      BY <1>1, <1>3, <1>4, <2>1, FS_AddElement DEF mem_alloc, MemchkInv
  <1>5. ASSUME NEW a \in Place, mem_free(a) PROVE MemchkInv'
    <2>1. CASE a \in live
      <3>1. At(Books, a) # 0 /\ BooksFit(Released(Books, a), live \ {a})
        BY <1>1, <2>1, AtFinds, ReleasedFits
      <3> QED
        BY <1>1, <1>3, <1>5, <2>1, <3>1, FS_RemoveElement DEF mem_free, MemchkInv
    <2>2. CASE a \notin live
      <3>1. At(Books, a) = 0 /\ live \ {a} = live
        BY <1>1, <2>2, AtFinds
      <3>2. UNCHANGED <<htab, free_list, ptr, live>> /\ exited' /\ wild' /\ report' = None
        BY <1>5, <2>2, <3>1 DEF mem_free
      <3> QED
        BY <1>1, <3>2 DEF MemchkInv, Books, BooksFit, BooksType, Chained, Spare
    <2> QED
      BY <2>1, <2>2
  <1>6. ASSUME NEW a \in Place, NEW z \in Place, mem_realloc(a, z) PROVE MemchkInv'
    <2>1. CASE a \in live
      <3> DEFINE has == live \ {a}
      <3>1. At(Books, a) # 0 /\ BooksFit(Released(Books, a), has)
        BY <1>1, <2>1, AtFinds, ReleasedFits
      <3>2. has \in SUBSET Place /\ IsFiniteSet(has) /\ z \notin has
        BY <1>1, <1>6, FS_RemoveElement DEF mem_realloc
      <3>3. BooksFit(Allocated(Released(Books, a), z), has \cup {z})
        <4> HIDE DEF has
        <4> QED
          BY <3>1, <3>2, AllocatedFits
      <3>4. has \cup {z} \subseteq Place /\ IsFiniteSet(has \cup {z})
        BY <3>2, FS_AddElement
      <3>5. /\ Becomes(Allocated(Released(Books, a), z)) /\ live' = has \cup {z}
            /\ UNCHANGED exited /\ report' = None /\ wild' = FALSE /\ ~exited
        BY <1>6, <2>1, <3>1 DEF mem_realloc
      <3> QED
        BY <1>3, <3>3, <3>4, <3>5 DEF MemchkInv
    <2>2. CASE a \notin live
      <3>1. At(Books, a) = 0
        BY <1>1, <2>2, AtFinds
      <3>2. UNCHANGED <<htab, free_list, ptr, live>> /\ exited' /\ wild' /\ report' = None
        BY <1>6, <2>2, <3>1 DEF mem_realloc
      <3> QED
        BY <1>1, <3>2 DEF MemchkInv, Books, BooksFit, BooksType, Chained, Spare
    <2> QED
      BY <2>1, <2>2
  <1>7. ASSUME mem_leak PROVE MemchkInv'
    <2>1. /\ Cardinality(Linked) = Cardinality(live)
          /\ {ptr[htab[l[1]][l[2]]] : l \in Linked} = live
      BY <1>1, WalkTellsBlocks
    <2>2. UNCHANGED <<htab, free_list, ptr, guards, exited, live, wild>>
      BY <1>7 DEF mem_leak
    <2>3. report' = [count |-> Cardinality(live), dirty |-> guards \cap GuardsOf(live)]
      BY <1>7, <2>1 DEF mem_leak
    <2> QED
      BY <1>1, <2>2, <2>3 DEF MemchkInv, Books, BooksFit, BooksType, Chained, Spare
  <1>8. ASSUME NEW g, Overrun(g) PROVE MemchkInv'
    <2>1. UNCHANGED <<htab, free_list, ptr, exited, live, wild>> /\ report' = None
      BY <1>8 DEF Overrun
    <2> QED
      BY <1>1, <2>1 DEF MemchkInv, Books, BooksFit, BooksType, Chained, Spare
  <1>9. CASE UNCHANGED memchkVars
    <2>1. UNCHANGED memchkVars
      BY <1>9
    <2>2. /\ UNCHANGED <<htab, free_list, ptr, exited, live, wild>>
          /\ guards' = guards /\ report' = report
      BY <2>1 DEF memchkVars
    <2>3. Books' = Books
      BY <2>2 DEF Books
    <2>4. BooksFit(Books, live)'
      BY <1>1, <2>2, <2>3 DEF MemchkInv, BooksFit, BooksType, Chained, Spare
    <2> QED
      BY <1>1, <2>2, <2>4 DEF MemchkInv
  <1> QED
    BY <1>4, <1>5, <1>6, <1>7, <1>8, <1>9 DEF MemchkNext

(* The chains and the free descriptors fit the blocks of the program, in *)
(* every reachable state.                                                *)
THEOREM MemchkInductive == ASSUME MemchkAssumption PROVE MemchkSpec => []MemchkInv
  <1>1. MemchkInit => MemchkInv
    BY InitMemchkInv
  <1>2. MemchkInv /\ [MemchkNext]_memchkVars => MemchkInv'
    BY MemchkInvStep
  <1> QED
    BY <1>1, <1>2, PTL DEF MemchkSpec

(* memchk.c: however blocks are allocated, moved and released, mem_leak     *)
(* counts the program's blocks and tells of their guards that were written  *)
(* over; the program is ended exactly when it releases what it has not; no  *)
(* descriptor is lost.                                                      *)
THEOREM Told == ASSUME MemchkAssumption PROVE MemchkSpec => []LeaksTold
  <1>1. MemchkInv => LeaksTold
    BY DEF MemchkInv, LeaksTold, BooksFit, Spare, Books
  <1> QED
    BY <1>1, MemchkInductive, PTL

-----------------------------------------------------------------------------
(* Logger *)

(* The places of two texts behind each other, and of a part of one. *)
LEMMA JoinPlaces ==
    ASSUME NEW a \in Seq(Byte), NEW b \in Seq(Byte)
    PROVE  /\ a \o b \in Seq(Byte) /\ Len(a \o b) = Len(a) + Len(b)
           /\ Len(a) \in Nat /\ Len(b) \in Nat
           /\ \A i \in 1..Len(a) : (a \o b)[i] = a[i]
           /\ \A i \in 1..Len(b) : (a \o b)[Len(a) + i] = b[i]
           /\ \A i \in 1..Len(a \o b) : i \in 1..Len(a) \/ i - Len(a) \in 1..Len(b)
  BY ConcatPlaces

LEMMA JoinLengths ==
    ASSUME NEW a \in Seq(Byte), NEW b \in Seq(Byte)
    PROVE  /\ a \o b \in Seq(Byte) /\ Len(a \o b) = Len(a) + Len(b)
           /\ Len(a) \in Nat /\ Len(b) \in Nat
  BY JoinPlaces

LEMMA PartPlaces ==
    ASSUME NEW s \in Seq(Byte), NEW m \in Nat \ {0}, NEW n \in 0..Len(s), m <= n + 1
    PROVE  LET r == SubSeq(s, m, n)
           IN  /\ r \in Seq(Byte) /\ Len(r) = n - m + 1
               /\ \A i \in 1..Len(r) : r[i] = s[m + i - 1] /\ m + i - 1 \in 1..Len(s)
  BY SubSeqPlaces

LEMMA WholeJoin ==
    ASSUME NEW a \in Seq(Byte), NEW b \in Seq(Byte), Whole(a), Whole(b)
    PROVE  Whole(a \o b)
  <1>1. CASE b = <<>>
    <2>1. a \o b = a
      BY <1>1, ConcatEmptySeq
    <2> QED
      BY <2>1
  <1>2. CASE b # <<>>
    <2>1. Len(b) \in 1..Len(b) /\ b[Len(b)][3]
      BY <1>2 DEF Whole
    <2>2. (a \o b)[Len(a \o b)] = b[Len(b)]
      BY <2>1, JoinPlaces
    <2> QED
      BY <2>1, <2>2 DEF Whole
  <1> QED
    BY <1>1, <1>2

(* What is added behind both. *)
LEMMA LatestJoin ==
    ASSUME NEW w \in Seq(Byte), NEW l \in Seq(Byte), NEW x \in Seq(Byte), Latest(w, l)
    PROVE  Latest(w \o x, l \o x)
  <1> DEFINE v == w \o x
             m == l \o x
  <1>1. /\ Len(v) = Len(w) + Len(x) /\ Len(w) \in Nat /\ Len(x) \in Nat
        /\ \A i \in 1..Len(w) : v[i] = w[i]
        /\ \A i \in 1..Len(x) : v[Len(w) + i] = x[i]
        /\ \A i \in 1..Len(v) : i \in 1..Len(w) \/ i - Len(w) \in 1..Len(x)
    BY JoinPlaces
  <1>2. /\ Len(m) = Len(l) + Len(x) /\ Len(l) \in Nat
        /\ \A i \in 1..Len(l) : m[i] = l[i]
        /\ \A i \in 1..Len(x) : m[Len(l) + i] = x[i]
    BY JoinPlaces
  <1> HIDE DEF v, m
  <1>3. Len(w) <= Len(l) /\ Len(m) - Len(v) = Len(l) - Len(w)
    BY <1>1, <1>2 DEF Latest
  <1>4. ASSUME NEW i \in 1..Len(v) PROVE v[i] = m[Len(m) - Len(v) + i]
    <2>1. CASE i \in 1..Len(w)
      <3>1. Len(l) - Len(w) + i \in 1..Len(l)
        BY <1>1, <1>2, <1>3, <2>1
      <3>2. w[i] = l[Len(l) - Len(w) + i]
        BY <2>1 DEF Latest
      <3> QED
        BY <1>1, <1>2, <1>3, <2>1, <3>1, <3>2
    <2>2. CASE i - Len(w) \in 1..Len(x)
      <3>1. /\ Len(w) + (i - Len(w)) = i
            /\ Len(l) + (i - Len(w)) = Len(m) - Len(v) + i
        BY <1>1, <1>2, <1>3
      <3> QED
        BY <1>1, <1>2, <2>2, <3>1
    <2> QED
      BY <1>1, <2>1, <2>2
  <1>5. Len(v) < Len(m) => m[Len(m) - Len(v)][3]
    <2> HAVE Len(v) < Len(m)
    <2>1. Len(w) < Len(l) /\ Len(l) - Len(w) \in 1..Len(l)
      BY <1>1, <1>2, <1>3
    <2>2. l[Len(l) - Len(w)][3]
      BY <2>1 DEF Latest
    <2> QED
      BY <1>2, <1>3, <2>1, <2>2
  <1>6. Len(v) <= Len(m)
    BY <1>1, <1>2, <1>3
  <1> QED
    BY <1>4, <1>5, <1>6 DEF Latest, v, m

(* What is cut off in front, up to the end of a line. *)
LEMMA LatestBehind ==
    ASSUME NEW w \in Seq(Byte), NEW l \in Seq(Byte), Latest(w, l), NEW h \in 1..Len(w), w[h][3],
           NEW r \in Seq(Byte), Len(r) = Len(w) - h, \A i \in 1..Len(r) : r[i] = w[h + i]
    PROVE  Latest(r, l)
  <1>1. /\ Len(w) \in Nat /\ Len(l) \in Nat /\ Len(r) \in Nat /\ Len(w) <= Len(l) /\ h \in Nat
        /\ \A i \in 1..Len(w) : w[i] = l[Len(l) - Len(w) + i]
    BY LenProperties DEF Latest
  <1>2. ASSUME NEW i \in 1..Len(r) PROVE r[i] = l[Len(l) - Len(r) + i]
    <2>1. h + i \in 1..Len(w) /\ Len(l) - Len(w) + (h + i) = Len(l) - Len(r) + i
      BY <1>1
    <2> QED
      BY <1>1, <2>1
  <1>3. l[Len(l) - Len(r)][3]
    <2>1. Len(l) - Len(w) + h = Len(l) - Len(r)
      BY <1>1
    <2> QED
      BY <1>1, <2>1
  <1> QED
    BY <1>1, <1>2, <1>3 DEF Latest

(* What is taken off the end of both. *)
LEMMA LatestFront ==
    ASSUME NEW w \in Seq(Byte), NEW l \in Seq(Byte), NEW x \in Seq(Byte), Latest(w \o x, l)
    PROVE  LET k == SubSeq(l, 1, Len(l) - Len(x)) IN k \in Seq(Byte) /\ Latest(w, k)
  <1> DEFINE k == SubSeq(l, 1, Len(l) - Len(x))
             v == w \o x
  <1>1. /\ Len(v) = Len(w) + Len(x) /\ Len(w) \in Nat /\ Len(x) \in Nat
        /\ \A i \in 1..Len(w) : v[i] = w[i]
    BY JoinPlaces
  <1>2. /\ Len(v) <= Len(l) /\ Len(l) \in Nat
        /\ \A i \in 1..Len(v) : v[i] = l[Len(l) - Len(v) + i]
        /\ Len(v) < Len(l) => l[Len(l) - Len(v)][3]
    BY LenProperties DEF Latest
  <1> HIDE DEF v
  <1>3. Len(l) - Len(x) \in 0..Len(l) /\ 1 <= Len(l) - Len(x) + 1
    BY <1>1, <1>2
  <1>4. k \in Seq(Byte) /\ Len(k) = Len(l) - Len(x) /\ \A i \in 1..Len(k) : k[i] = l[i]
    <2> DEFINE n == Len(l) - Len(x)
    <2>1. n \in 0..Len(l) /\ 1 <= n + 1 /\ 1 \in Nat \ {0}
      BY <1>3
    <2> HIDE DEF n
    <2>2. /\ SubSeq(l, 1, n) \in Seq(Byte) /\ Len(SubSeq(l, 1, n)) = n - 1 + 1
          /\ \A i \in 1..Len(SubSeq(l, 1, n)) : SubSeq(l, 1, n)[i] = l[1 + i - 1]
      BY <2>1, PartPlaces
    <2>3. n - 1 + 1 = n /\ \A i \in Nat : 1 + i - 1 = i
      BY <2>1
    <2>4. \A i \in 1..Len(SubSeq(l, 1, n)) : SubSeq(l, 1, n)[i] = l[i]
      BY <2>1, <2>2, <2>3
    <2> QED
      BY <2>2, <2>3, <2>4 DEF n
  <1> HIDE DEF k
  <1>5. ASSUME NEW i \in 1..Len(w) PROVE w[i] = k[Len(k) - Len(w) + i]
    <2>1. /\ i \in 1..Len(v) /\ Len(l) - Len(v) + i = Len(k) - Len(w) + i
          /\ Len(k) - Len(w) + i \in 1..Len(k)
      BY <1>1, <1>2, <1>4
    <2> QED
      BY <1>1, <1>2, <1>4, <2>1
  <1>6. Len(w) < Len(k) => k[Len(k) - Len(w)][3]
    <2> HAVE Len(w) < Len(k)
    <2>1. Len(v) < Len(l) /\ Len(k) - Len(w) \in 1..Len(k) /\ Len(k) - Len(w) = Len(l) - Len(v)
      BY <1>1, <1>2, <1>4
    <2> QED
      BY <1>2, <1>4, <2>1
  <1>7. Len(w) <= Len(k)
    BY <1>1, <1>2, <1>4
  <1> QED
    BY <1>4, <1>5, <1>6, <1>7 DEF Latest, k

(* ...is a suffix in the sense of the community modules. *)
LEMMA LatestIsSuffix ==
    ASSUME NEW w \in Seq(Byte), NEW l \in Seq(Byte), Latest(w, l)
    PROVE  /\ IsSuffix(w, l)
           /\ LET gone == Len(l) - Len(w) IN gone > 0 => l[gone][3]
  <1> DEFINE a == Reverse(w)
             b == Reverse(l)
  <1>1. /\ Len(w) \in Nat /\ Len(l) \in Nat /\ Len(w) <= Len(l)
        /\ \A i \in 1..Len(w) : w[i] = l[Len(l) - Len(w) + i] /\ w[i] \in Byte
        /\ \A i \in 1..Len(l) : l[i] \in Byte
    BY LenProperties DEF Latest
  <1>2. a \in Seq(Byte) /\ Len(a) = Len(w) /\ \A i \in 1..Len(w) : a[i] = w[(Len(w) - i) + 1]
    <2>1. \A i \in 1..Len(w) : (Len(w) - i) + 1 \in 1..Len(w)
      BY <1>1
    <2> QED
      BY <1>1, <2>1 DEF Reverse
  <1>3. b \in Seq(Byte) /\ Len(b) = Len(l) /\ \A i \in 1..Len(l) : b[i] = l[(Len(l) - i) + 1]
    <2>1. \A i \in 1..Len(l) : (Len(l) - i) + 1 \in 1..Len(l)
      BY <1>1
    <2> QED
      BY <1>1, <2>1 DEF Reverse
  <1> HIDE DEF a, b
  <1>4. \A i \in 1..Len(w) : a[i] = b[i]
    <2> TAKE i \in 1..Len(w)
    <2>1. /\ (Len(w) - i) + 1 \in 1..Len(w) /\ i \in 1..Len(l)
          /\ Len(l) - Len(w) + ((Len(w) - i) + 1) = (Len(l) - i) + 1
      BY <1>1
    <2> QED
      BY <1>1, <1>2, <1>3, <2>1
  <1>5. SubSeq(a, 1, Len(a)) = SubSeq(b, 1, Len(a))
    <2>1. /\ SubSeq(a, 1, Len(a)) \in Seq(Byte) /\ SubSeq(b, 1, Len(a)) \in Seq(Byte)
          /\ Len(SubSeq(a, 1, Len(a))) = Len(a) - 1 + 1 /\ Len(SubSeq(b, 1, Len(a))) = Len(a) - 1 + 1
          /\ \A i \in 1..Len(SubSeq(a, 1, Len(a))) : SubSeq(a, 1, Len(a))[i] = a[1 + i - 1]
          /\ \A i \in 1..Len(SubSeq(b, 1, Len(a))) : SubSeq(b, 1, Len(a))[i] = b[1 + i - 1]
      <3>1. Len(a) \in 0..Len(a) /\ Len(a) \in 0..Len(b) /\ 1 \in Nat \ {0} /\ 1 <= Len(a) + 1
        BY <1>1, <1>2, <1>3
      <3> QED
        BY <1>2, <1>3, <3>1, PartPlaces
    <2>2. Len(a) - 1 + 1 = Len(w) /\ \A i \in 1..Len(w) : 1 + i - 1 = i
      BY <1>1, <1>2
    <2> DEFINE x == SubSeq(a, 1, Len(a))
               y == SubSeq(b, 1, Len(a))
    <2> HIDE DEF x, y
    <2>3. /\ x \in Seq(Byte) /\ y \in Seq(Byte) /\ Len(x) = Len(y)
          /\ \A i \in 1..Len(x) : x[i] = y[i]
      BY <1>4, <2>1, <2>2 DEF x, y
    <2>4. x = y
      BY <2>3, SeqEqual
    <2> QED
      BY <2>4 DEF x, y
  <1>6. IsSuffix(w, l)
    BY <1>1, <1>2, <1>3, <1>5 DEF IsSuffix, IsPrefix, a, b
  <1> QED
    BY <1>1, <1>6 DEF Latest

(* Behind del_cnt bytes of a file of whole lines that is longer there is a   *)
(* line's end, and what is kept begins behind the first one.                 *)
LEMMA HeadAtPlace ==
    ASSUME LoggerAssumption, file \in Seq(Byte), Whole(file), del_cnt < Len(file)
    PROVE  /\ Len(file) \in Nat /\ HeadAt \in 1..Len(file) /\ del_cnt < HeadAt /\ file[HeadAt][3]
  <1> DEFINE r == SubSeq(file, del_cnt + 1, Len(file))
             I == {i \in 1..Len(r) : r[i][3]}
  <1>1. Len(file) \in Nat /\ del_cnt \in Nat /\ del_cnt < Len(file)
    BY LenProperties DEF LoggerAssumption
  <1>2. /\ r \in Seq(Byte) /\ Len(r) = Len(file) - del_cnt
        /\ \A i \in 1..Len(r) : r[i] = file[del_cnt + i]
    <2> DEFINE m == del_cnt + 1
               n == Len(file)
    <2>1. m \in Nat \ {0} /\ n \in 0..Len(file) /\ m <= n + 1
      BY <1>1
    <2> HIDE DEF m, n
    <2>2. /\ SubSeq(file, m, n) \in Seq(Byte) /\ Len(SubSeq(file, m, n)) = n - m + 1
          /\ \A i \in 1..Len(SubSeq(file, m, n)) : SubSeq(file, m, n)[i] = file[m + i - 1]
      BY <2>1, PartPlaces
    <2>3. n - m + 1 = Len(file) - del_cnt /\ \A i \in Nat : m + i - 1 = del_cnt + i
      BY <1>1 DEF m, n
    <2> DEFINE x == SubSeq(file, m, n)
    <2> HIDE DEF x
    <2>4. /\ x \in Seq(Byte) /\ Len(x) = Len(file) - del_cnt
          /\ \A i \in 1..Len(x) : x[i] = file[m + i - 1]
      BY <2>2, <2>3 DEF x
    <2>5. \A i \in 1..Len(x) : x[i] = file[del_cnt + i]
      <3> TAKE i \in 1..Len(x)
      <3>1. i \in Nat
        BY <2>4
      <3> QED
        BY <2>3, <2>4, <3>1
    <2> QED
      BY <2>4, <2>5 DEF m, n, x
  <1>3. HeadAt = del_cnt + (IF I # {} THEN Min(I) ELSE 0)
    BY DEF HeadAt, SelectInSeq
  <1> HIDE DEF r
  <1>4. Len(r) \in I
    <2>1. Len(r) \in 1..Len(r) /\ del_cnt + Len(r) = Len(file) /\ file # <<>>
      BY <1>1, <1>2
    <2> QED
      BY <1>2, <2>1 DEF Whole
  <1>5. Min(I) \in I
    <2>1. I \in SUBSET Nat
      OBVIOUS
    <2> HIDE DEF I
    <2> QED
      BY <1>4, <2>1, SmallestIsIn
  <1>6. Min(I) \in 1..Len(r) /\ r[Min(I)][3] /\ HeadAt = del_cnt + Min(I)
    BY <1>3, <1>5
  <1> HIDE DEF I
  <1>7. HeadAt \in 1..Len(file) /\ del_cnt < HeadAt
    BY <1>1, <1>2, <1>6
  <1> QED
    BY <1>1, <1>2, <1>6, <1>7

(* memmove: the kept lines are in front, and the end is what it was. *)
LEMMA Moved ==
    ASSUME NEW f \in Seq(Byte), Whole(f), NEW h \in 1..Len(f)
    PROVE  LET L == Len(f)
               g == SubSeq(f, h + 1, L) \o SubSeq(f, L - h + 1, L)
           IN  /\ L \in Nat /\ g \in Seq(Byte) /\ Len(g) = L /\ Whole(g)
               /\ SubSeq(f, h + 1, L) \in Seq(Byte) /\ Len(SubSeq(f, h + 1, L)) = L - h
               /\ \A i \in 1..L - h : SubSeq(f, h + 1, L)[i] = f[h + i]
               /\ SubSeq(g, 1, L - h) = SubSeq(f, h + 1, L)
  <1> DEFINE L == Len(f)
             a == SubSeq(f, h + 1, L)
             b == SubSeq(f, L - h + 1, L)
             g == a \o b
             c == SubSeq(g, 1, L - h)
  <1>1. L \in Nat /\ h \in Nat /\ 1 <= h /\ h <= L
    BY LenProperties
  <1>2. a \in Seq(Byte) /\ Len(a) = L - h /\ \A i \in 1..L - h : a[i] = f[h + i]
    <2>1. h + 1 \in Nat \ {0} /\ L \in 0..Len(f) /\ h + 1 <= L + 1
      BY <1>1
    <2>2. /\ a \in Seq(Byte) /\ Len(a) = L - (h + 1) + 1
          /\ \A i \in 1..Len(a) : a[i] = f[(h + 1) + i - 1]
      BY <2>1, PartPlaces
    <2> HIDE DEF a
    <2>3. L - (h + 1) + 1 = L - h /\ \A i \in Nat : (h + 1) + i - 1 = h + i
      BY <1>1
    <2>4. \A i \in 1..Len(a) : a[i] = f[h + i]
      BY <2>2, <2>3
    <2> QED
      BY <2>2, <2>3, <2>4
  <1>3. b \in Seq(Byte) /\ Len(b) = h /\ b[h] = f[L]
    <2>1. L - h + 1 \in Nat \ {0} /\ L \in 0..Len(f) /\ L - h + 1 <= L + 1
      BY <1>1
    <2>2. /\ b \in Seq(Byte) /\ Len(b) = L - (L - h + 1) + 1
          /\ \A i \in 1..Len(b) : b[i] = f[(L - h + 1) + i - 1]
      BY <2>1, PartPlaces
    <2> HIDE DEF b
    <2>3. L - (L - h + 1) + 1 = h /\ (L - h + 1) + h - 1 = L /\ h \in 1..h
      BY <1>1
    <2> QED
      BY <2>2, <2>3
  <1> HIDE DEF a, b
  <1>4. /\ g \in Seq(Byte) /\ Len(g) = L
        /\ \A i \in 1..L - h : g[i] = a[i]
        /\ g[L] = f[L]
    <2>1. /\ g \in Seq(Byte) /\ Len(g) = Len(a) + Len(b)
          /\ \A i \in 1..Len(a) : g[i] = a[i]
          /\ \A i \in 1..Len(b) : g[Len(a) + i] = b[i]
      BY <1>2, <1>3, JoinPlaces
    <2> HIDE DEF g
    <2>2. h \in 1..Len(b) /\ Len(a) + h = L /\ Len(a) + Len(b) = L
      BY <1>1, <1>2, <1>3
    <2>3. g[L] = f[L]
      BY <1>3, <2>1, <2>2
    <2> QED
      BY <1>2, <2>1, <2>2, <2>3
  <1> HIDE DEF g
  <1>5. Whole(g)
    <2>1. f # <<>>
      BY <1>1
    <2> QED
      BY <1>4, <2>1 DEF Whole
  <1>6. c = a
    <2> DEFINE n == L - h
    <2>1. 1 \in Nat \ {0} /\ n \in 0..Len(g) /\ 1 <= n + 1
      BY <1>1, <1>4
    <2> HIDE DEF n
    <2>2. /\ SubSeq(g, 1, n) \in Seq(Byte) /\ Len(SubSeq(g, 1, n)) = n - 1 + 1
          /\ \A i \in 1..Len(SubSeq(g, 1, n)) : SubSeq(g, 1, n)[i] = g[1 + i - 1]
      BY <1>4, <2>1, PartPlaces
    <2>3. n - 1 + 1 = n /\ n \in Nat /\ \A i \in Nat : 1 + i - 1 = i
      BY <2>1
    <2> DEFINE x == SubSeq(g, 1, n)
    <2> HIDE DEF x
    <2>4. x \in Seq(Byte) /\ Len(x) = n /\ \A i \in 1..n : x[i] = g[i]
      BY <2>2, <2>3 DEF x
    <2>5. \A i \in 1..n : g[i] = a[i]
      BY <1>4 DEF n
    <2>6. x = a
      <3>1. Len(a) = n /\ a \in Seq(Byte)
        BY <1>2 DEF n
      <3> QED
        BY <2>4, <2>5, <3>1, SeqEqual
    <2> QED
      BY <2>6 DEF n, x
  <1> QED
    BY <1>1, <1>2, <1>4, <1>5, <1>6 DEF a, b, g

(* Room for a line of n bytes more, for each one that may be written. *)
LEMMA Times ==
    ASSUME NEW n \in Nat, NEW a \in Nat, NEW b \in Nat
    PROVE  /\ n * a \in Nat /\ n * (a + 1) = n * a + n
           /\ n * (a + b) = n * a + n * b /\ (a <= b => n * a <= n * b)
  <1>1. n * a \in Nat /\ n * (a + 1) = n * a + n /\ n * (a + b) = n * a + n * b
    OBVIOUS
  <1>2. ASSUME a <= b PROVE n * a <= n * b
    <2> DEFINE k == b - a
    <2>1. k \in Nat /\ b = a + k
      BY <1>2
    <2> HIDE DEF k
    <2>2. n * b = n * a + n * k /\ n * k \in Nat /\ n * a \in Nat
      BY <2>1
    <2> QED
      BY <2>2
  <1> QED
    BY <1>1, <1>2

LEMMA HeaviestLine ==
    ASSUME LoggerAssumption, NEW n \in Heaviest
    PROVE  /\ n \in Nat /\ Cardinality(Thread) \in Nat /\ del_cnt \in Nat /\ n <= del_cnt + 1
           /\ \A m \in Lens : m \in Nat \ {0} /\ (IF m <= del_cnt THEN m ELSE del_cnt + 1) <= n
  <1>1. /\ n \in LineWeights /\ \A m \in LineWeights : m <= n
        /\ del_cnt \in Nat /\ Lens \subseteq Nat \ {0} /\ Cardinality(Thread) \in Nat
    BY FS_CardinalityType DEF LoggerAssumption, Heaviest
  <1>2. n \in Nat /\ n <= del_cnt + 1
    BY <1>1 DEF LineWeights
  <1>3. \A m \in Lens : m \in Nat \ {0} /\ (IF m <= del_cnt THEN m ELSE del_cnt + 1) \in LineWeights
    BY <1>1 DEF LineWeights
  <1> QED
    BY <1>1, <1>2, <1>3

(* The bytes that count, of which an empty text has none. *)
LEMMA WeightOf ==
    ASSUME LoggerAssumption, NEW s \in Seq(Byte)
    PROVE  Weight(s) \in Nat /\ Weight(s) <= Len(s) /\ Len(s) \in Nat
  <1> DEFINE I == {i \in 1..Len(s) : s[i][2] <= del_cnt + 1}
  <1>1. Len(s) \in Nat
    BY LenProperties
  <1>2. IsFiniteSet(1..Len(s)) /\ Cardinality(1..Len(s)) = Len(s)
    <2> DEFINE n == Len(s)
    <2>1. n \in Nat /\ n - 1 + 1 = n
      BY <1>1
    <2> HIDE DEF n
    <2>2. IsFiniteSet(1..n) /\ Cardinality(1..n) = IF 1 > n THEN 0 ELSE n - 1 + 1
      BY <2>1, FS_Interval
    <2>3. Cardinality(1..n) = n
      BY <2>1, <2>2
    <2> QED
      BY <2>2, <2>3 DEF n
  <1>3. IsFiniteSet(I) /\ Cardinality(I) <= Len(s)
    BY <1>2, FS_Subset
  <1> QED
    BY <1>1, <1>3, FS_CardinalityType DEF Weight

LEMMA WeightNone ==
    Weight(<<>>) = 0
  <1>1. {i \in 1..Len(<<>>) : <<>>[i][2] <= del_cnt + 1} = {}
    OBVIOUS
  <1> QED
    BY <1>1, FS_EmptySet DEF Weight

LEMMA WeightJoin ==
    ASSUME LoggerAssumption, NEW a \in Seq(Byte), NEW b \in Seq(Byte)
    PROVE  Weight(a \o b) = Weight(a) + Weight(b)
  <1> DEFINE c == a \o b
             n == Len(a)
             I == {i \in 1..n : a[i][2] <= del_cnt + 1}
             J == {i \in 1..Len(b) : b[i][2] <= del_cnt + 1}
             K == {i \in 1..Len(c) : c[i][2] <= del_cnt + 1}
             D == {n + i : i \in J}
  <1>1. /\ Len(c) = n + Len(b) /\ n \in Nat /\ Len(b) \in Nat
        /\ \A i \in 1..n : c[i] = a[i]
        /\ \A i \in 1..Len(b) : c[n + i] = b[i]
        /\ \A i \in 1..Len(c) : i \in 1..n \/ i - n \in 1..Len(b)
    BY JoinPlaces
  <1>2. IsFiniteSet(I) /\ IsFiniteSet(J)
    <2>1. IsFiniteSet(1..n) /\ IsFiniteSet(1..Len(b))
      BY <1>1, FS_Interval
    <2> QED
      BY <2>1, FS_Subset
  <1>3. IsFiniteSet(D) /\ Cardinality(D) = Cardinality(J)
    <2> DEFINE f == [i \in J |-> n + i]
    <2>1. J \subseteq Nat
      BY <1>1
    <2>2. f \in Bijection(J, D)
      <3>1. \A i, j \in J : n + i = n + j => i = j
        BY <1>1, <2>1
      <3> HIDE DEF J
      <3>2. f \in [J -> D] /\ \A i \in J : f[i] = n + i
        OBVIOUS
      <3> HIDE DEF f
      <3>3. \A y \in D : \E i \in J : f[i] = y
        BY <3>2
      <3>4. \A i, j \in J : f[i] = f[j] => i = j
        BY <3>1, <3>2
      <3> QED
        BY <3>2, <3>3, <3>4 DEF Bijection, Injection, Surjection, IsInjective
    <2>3. ExistsBijection(J, D)
      BY <2>2 DEF ExistsBijection
    <2> QED
      BY <1>2, <2>3, FS_Bijection
  <1>4. K = I \cup D /\ I \cap D = {}
    <2> HIDE DEF c
    <2>1. \A i \in 1..Len(c) : i - n \in 1..Len(b) => n + (i - n) = i
      BY <1>1
    <2>2. K \subseteq I \cup D
      <3> SUFFICES ASSUME NEW i \in K, i \notin I PROVE i \in D
        OBVIOUS
      <3>1. i \in 1..Len(c) /\ c[i][2] <= del_cnt + 1
        OBVIOUS
      <3>2. i \notin 1..n
        BY <1>1, <3>1
      <3>3. i - n \in 1..Len(b) /\ n + (i - n) = i
        BY <1>1, <2>1, <3>1, <3>2
      <3>4. b[i - n] = c[i]
        BY <1>1, <3>3
      <3>5. i - n \in J
        BY <3>1, <3>3, <3>4
      <3> QED
        BY <3>3, <3>5
    <2>3. I \subseteq K
      BY <1>1
    <2>4. D \subseteq K
      <3> SUFFICES ASSUME NEW i \in J PROVE n + i \in K
        OBVIOUS
      <3>1. i \in 1..Len(b) /\ b[i][2] <= del_cnt + 1 /\ n + i \in 1..Len(c)
        BY <1>1
      <3> QED
        BY <1>1, <3>1
    <2>5. I \cap D = {}
      BY <1>1
    <2> QED
      BY <2>2, <2>3, <2>4, <2>5
  <1>5. Cardinality(I \cup D) = Cardinality(I) + Cardinality(D)
    <2> HIDE DEF I, D
    <2>1. IsFiniteSet(I) /\ IsFiniteSet(D) /\ I \cap D = {}
      BY <1>2, <1>3, <1>4
    <2>2. Cardinality(I \cap D) = 0
      BY <2>1, FS_EmptySet
    <2>3. Cardinality(I \cup D) = Cardinality(I) + Cardinality(D) - Cardinality(I \cap D)
      BY <2>1, FS_Union
    <2>4. Cardinality(I) \in Nat /\ Cardinality(D) \in Nat
      BY <2>1, FS_CardinalityType
    <2> QED
      BY <2>2, <2>3, <2>4
  <1>6. Weight(c) = Cardinality(K) /\ Weight(a) = Cardinality(I) /\ Weight(b) = Cardinality(J)
    BY DEF Weight
  <1> HIDE DEF I, J, K, D, c
  <1>7. Weight(c) = Weight(a) + Weight(b)
    BY <1>3, <1>4, <1>5, <1>6
  <1> QED
    BY <1>7 DEF c

(* In front of a text of lines, more than del_cnt bytes weigh as much as a line. *)
LEMMA WeightFront ==
    ASSUME LoggerAssumption, NEW a \in Seq(Byte), NEW b \in Seq(Byte), Lined(a \o b),
           del_cnt < Len(a)
    PROVE  del_cnt + 1 <= Weight(a)
  <1> DEFINE I == {i \in 1..Len(a) : a[i][2] <= del_cnt + 1}
             c == a \o b
  <1>1. /\ c \in Seq(Byte) /\ Len(c) = Len(a) + Len(b) /\ Len(a) \in Nat /\ Len(b) \in Nat
        /\ \A i \in 1..Len(a) : c[i] = a[i] /\ a[i] \in Byte
        /\ del_cnt \in Nat
    BY JoinPlaces DEF LoggerAssumption
  <1>2. ASSUME NEW i \in 1..del_cnt + 1 PROVE i \in I
    <2>1. i \in 1..Len(a) /\ i \in 1..Len(c) - 0 /\ 0 \in 0..Len(c) /\ 0 + i = i
      BY <1>1
    <2> HIDE DEF c
    <2>2. c[0 + i][2] <= i
      BY <2>1 DEF Lined, c
    <2>3. a[i][2] <= i
      BY <1>1, <2>1, <2>2
    <2>4. a[i][2] \in Nat
      BY <1>1, <2>1 DEF Byte
    <2> QED
      BY <1>1, <2>1, <2>3, <2>4
  <1>3. IsFiniteSet(I)
    <2>1. IsFiniteSet(1..Len(a))
      BY <1>1, FS_Interval
    <2> QED
      BY <2>1, FS_Subset
  <1>4. Cardinality(1..del_cnt + 1) <= Cardinality(I)
    BY <1>2, <1>3, FS_Subset
  <1>5. Cardinality(1..del_cnt + 1) = del_cnt + 1
    <2>1. Cardinality(1..del_cnt + 1) = del_cnt + 1 - 1 + 1
      BY <1>1, FS_Interval
    <2> QED
      BY <1>1, <2>1
  <1> QED
    BY <1>4, <1>5 DEF Weight

(* Texts of lines behind each other, and behind the end of a line. *)
LEMMA LinedJoin ==
    ASSUME NEW a \in Seq(Byte), NEW b \in Seq(Byte), Lined(a), Lined(b)
    PROVE  Lined(a \o b)
  <1> DEFINE c == a \o b
  <1>1. /\ Len(c) = Len(a) + Len(b) /\ Len(a) \in Nat /\ Len(b) \in Nat
        /\ \A i \in 1..Len(a) : c[i] = a[i]
        /\ \A i \in 1..Len(b) : c[Len(a) + i] = b[i] /\ b[i][2] \in Nat
    <2>1. \A i \in 1..Len(b) : b[i] \in Byte
      BY LenProperties
    <2> QED
      BY <2>1, JoinPlaces DEF Byte
  <1> HIDE DEF c
  <1>2. \A j \in 1..Len(b) : b[j][2] <= j
    <2> TAKE j \in 1..Len(b)
    <2>1. 0 \in 0..Len(b) /\ j \in 1..Len(b) - 0 /\ 0 + j = j
      BY <1>1
    <2>2. b[0 + j][2] <= j
      BY <2>1 DEF Lined
    <2> QED
      BY <2>1, <2>2
  <1>3. ASSUME NEW k \in 0..Len(c), k = 0 \/ c[k][3], NEW i \in 1..Len(c) - k
        PROVE  c[k + i][2] <= i
    <2>1. k \in Nat /\ i \in Nat /\ 1 <= i /\ k + i <= Len(a) + Len(b)
      BY <1>1, <1>3
    <2>2. CASE k + i <= Len(a)
      <3>1. k \in 0..Len(a) /\ i \in 1..Len(a) - k /\ k + i \in 1..Len(a)
        BY <1>1, <2>1, <2>2
      <3>2. k = 0 \/ a[k][3]
        BY <1>1, <1>3, <3>1
      <3> QED
        BY <1>1, <3>1, <3>2 DEF Lined
    <2>3. CASE k < Len(a) /\ Len(a) < k + i
      <3> DEFINE j == k + i - Len(a)
      <3>1. j \in 1..Len(b) /\ Len(a) + j = k + i /\ j <= i
        BY <1>1, <2>1, <2>3
      <3> HIDE DEF j
      <3>2. c[k + i] = b[j] /\ b[j][2] <= j /\ b[j][2] \in Nat
        BY <1>1, <1>2, <3>1
      <3> QED
        BY <2>1, <3>1, <3>2
    <2>4. CASE Len(a) <= k
      <3> DEFINE m == k - Len(a)
      <3>1. /\ m \in 0..Len(b) /\ i \in 1..Len(b) - m /\ m + i \in 1..Len(b)
            /\ Len(a) + (m + i) = k + i /\ Len(a) + m = k
        <4>1. Len(a) \in Nat /\ Len(b) \in Nat /\ k - Len(a) \in Nat
          BY <1>1, <2>1, <2>4
        <4>2. m \in Nat /\ Len(a) + m = k /\ m + i <= Len(b)
          BY <2>1, <4>1
        <4> HIDE DEF m
        <4> QED
          BY <2>1, <4>1, <4>2
      <3> HIDE DEF m
      <3>2. m = 0 \/ b[m][3]
        <4>1. CASE m = 0
          BY <4>1
        <4>2. CASE m # 0
          <5>1. m \in 1..Len(b) /\ k # 0
            BY <1>1, <2>1, <3>1, <4>2
          <5> QED
            BY <1>1, <1>3, <3>1, <5>1
        <4> QED
          BY <4>1, <4>2
      <3>3. b[m + i][2] <= i
        BY <3>1, <3>2 DEF Lined
      <3> QED
        BY <1>1, <3>1, <3>3
    <2> QED
      BY <1>1, <2>1, <2>2, <2>3, <2>4
  <1> QED
    BY <1>3 DEF Lined, c

LEMMA LinedNone ==
    Lined(<<>>)
  BY DEF Lined

LEMMA LinedBehind ==
    ASSUME NEW s \in Seq(Byte), Lined(s), NEW h \in 1..Len(s), s[h][3],
           NEW a \in Seq(Byte), Len(a) = Len(s) - h, \A i \in 1..Len(s) - h : a[i] = s[h + i]
    PROVE  Lined(a)
  <1> SUFFICES ASSUME NEW k \in 0..Len(a), k = 0 \/ a[k][3], NEW i \in 1..Len(a) - k
               PROVE  a[k + i][2] <= i
    BY DEF Lined
  <1>1. Len(s) \in Nat /\ h \in Nat
    BY LenProperties
  <1>2. /\ h + k \in 0..Len(s) /\ i \in 1..Len(s) - (h + k) /\ h + k # 0
        /\ k + i \in 1..Len(s) - h /\ h + (k + i) = (h + k) + i
        /\ k = 0 => h + k = h
        /\ k # 0 => k \in 1..Len(s) - h
    BY <1>1
  <1>3. s[h + k][3]
    BY <1>2
  <1>4. s[(h + k) + i][2] <= i
    BY <1>2, <1>3 DEF Lined
  <1> QED
    BY <1>2, <1>4

(* One thread goes on: how many are in some places before it, and after. *)
LEMMA OneGoes ==
    ASSUME LoggerAssumption, NEW t \in Thread, NEW A \in SUBSET Thread, NEW B \in SUBSET Thread,
           \A u \in Thread \ {t} : u \in A <=> u \in B
    PROVE  /\ Cardinality(A) \in Nat /\ Cardinality(B) \in Nat
           /\ (t \in A <=> t \in B) => Cardinality(B) = Cardinality(A)
           /\ t \notin A /\ t \in B => Cardinality(B) = Cardinality(A) + 1
           /\ t \in A /\ t \notin B => Cardinality(A) = Cardinality(B) + 1
  <1>1. IsFiniteSet(A) /\ IsFiniteSet(B)
    BY FS_Subset DEF LoggerAssumption
  <1>2. Cardinality(A) \in Nat /\ Cardinality(B) \in Nat
    BY <1>1, FS_CardinalityType
  <1>3. (t \in A <=> t \in B) => B = A
    OBVIOUS
  <1>4. ASSUME t \notin A, t \in B PROVE Cardinality(B) = Cardinality(A) + 1
    <2>1. B = A \cup {t}
      BY <1>4
    <2> QED
      BY <1>1, <1>4, <2>1, FS_AddElement
  <1>5. ASSUME t \in A, t \notin B PROVE Cardinality(A) = Cardinality(B) + 1
    <2>1. A = B \cup {t}
      BY <1>5
    <2> QED
      BY <1>1, <1>5, <2>1, FS_AddElement
  <1> QED
    BY <1>2, <1>3, <1>4, <1>5

(* Threads in some places and threads in others are different ones. *)
LEMMA DueAndDone ==
    ASSUME LoggerAssumption, NEW A \in SUBSET Thread, NEW B \in SUBSET Thread, A \cap B = {}
    PROVE  Cardinality(A) + Cardinality(B) <= Cardinality(Thread)
  <1>1. IsFiniteSet(Thread)
    BY DEF LoggerAssumption
  <1>2. IsFiniteSet(A) /\ IsFiniteSet(B) /\ A \cup B \subseteq Thread
    BY <1>1, FS_Subset
  <1>3. Cardinality(A \cap B) = 0
    BY FS_EmptySet
  <1>4. Cardinality(A \cup B) = Cardinality(A) + Cardinality(B) - Cardinality(A \cap B)
    BY <1>2, FS_Union
  <1>5. Cardinality(A \cup B) <= Cardinality(Thread)
    BY <1>1, <1>2, FS_Subset
  <1> QED
    BY <1>2, <1>3, <1>4, <1>5, FS_CardinalityType

(* What the stream holds is written behind the file. *)
LEMMA KeptFlushed ==
    ASSUME LoggerAssumption, NEW s \in Seq(Byte), NEW b \in Seq(Byte), NEW l \in Seq(Byte),
           Whole(b), Lined(b), NEW d, NEW most, Kept(s, b, l, d, most)
    PROVE  Kept(s \o b, <<>>, l, d, most)
  <1> DEFINE w == s \o b
  <1>1. w \in Seq(Byte) /\ Weight(w) = Weight(s) + Weight(b)
    BY JoinPlaces, WeightJoin
  <1>2. Whole(w) /\ Latest(w, l) /\ Lined(w)
    BY WholeJoin, LinedJoin DEF Kept
  <1> HIDE DEF w
  <1>3. w \o <<>> = w /\ Weight(<<>>) = 0 /\ Weight(w) \in Nat
    BY <1>1, ConcatEmptySeq, WeightOf, WeightNone
  <1>4. \A n \in Heaviest : Weight(w) + Weight(<<>>) + n * d <= most + n * Cardinality(Thread)
    BY <1>1, <1>3 DEF Kept
  <1> QED
    BY <1>2, <1>3, <1>4 DEF Kept, w

LEMMA LatestWritten ==
    ASSUME NEW s \in Seq(Byte), NEW b \in Seq(Byte), NEW l \in Seq(Byte), NEW x \in Seq(Byte),
           Latest(s \o b, l)
    PROVE  Latest(s \o (b \o x), l \o x)
  <1>1. s \o b \in Seq(Byte)
    BY JoinLengths
  <1>2. (s \o b) \o x = s \o (b \o x)
    <2> DEFINE S == Byte
    <2> HIDE DEF S
    <2>1. s \in Seq(S) /\ b \in Seq(S) /\ x \in Seq(S)
      BY DEF S
    <2> QED
      BY <2>1, ConcatAssociative, SMTT(20)
  <1>3. Latest((s \o b) \o x, l \o x)
    BY <1>1, LatestJoin
  <1> QED
    BY <1>2, <1>3

(* A line is logged, by one of those that there is room for. *)
LEMMA KeptWritten ==
    ASSUME LoggerAssumption, NEW s \in Seq(Byte), NEW b \in Seq(Byte), NEW l \in Seq(Byte),
           NEW d \in Nat, NEW most \in Nat, Kept(s, b, l, d + 1, most),
           NEW x \in Seq(Byte), \A n \in Heaviest : Weight(x) <= n
    PROVE  Kept(s, b \o x, l \o x, d, most)
  <1>1. /\ Weight(b \o x) = Weight(b) + Weight(x)
        /\ Weight(s) \in Nat /\ Weight(b) \in Nat /\ Weight(x) \in Nat
    BY WeightJoin, WeightOf
  <1>3. Latest(s \o (b \o x), l \o x)
    BY LatestWritten DEF Kept
  <1>4. ASSUME NEW n \in Heaviest
        PROVE  Weight(s) + Weight(b \o x) + n * d <= most + n * Cardinality(Thread)
    <2> DEFINE a == n * d
               z == n * (d + 1)
               r == n * Cardinality(Thread)
    <2>1. n \in Nat /\ Cardinality(Thread) \in Nat
      BY HeaviestLine
    <2>2. a \in Nat /\ z = a + n /\ r \in Nat
      BY <2>1, Times
    <2>3. Weight(s) + Weight(b) + z <= most + r /\ Weight(x) <= n
      BY DEF Kept
    <2> HIDE DEF a, z, r
    <2>4. Weight(s) + Weight(b \o x) + a <= most + r
      <3> DEFINE ws == Weight(s)
                 wb == Weight(b)
                 wx == Weight(x)
      <3>1. ws + wb + (a + n) <= most + r /\ wx <= n
        BY <2>2, <2>3
      <3>2. ws \in Nat /\ wb \in Nat /\ wx \in Nat /\ Weight(b \o x) = wb + wx
        BY <1>1
      <3> HIDE DEF ws, wb, wx
      <3>3. ws + (wb + wx) + a <= most + r
        BY <2>1, <2>2, <3>1, <3>2
      <3> QED
        BY <3>2, <3>3 DEF ws
    <2> QED
      BY <2>4 DEF a, r
  <1> QED
    BY <1>3, <1>4 DEF Kept

(* What was cut off in front of a text, and the rest. *)
LEMMA Rejoined ==
    ASSUME NEW s \in Seq(Byte), NEW h \in 1..Len(s),
           NEW a \in Seq(Byte), Len(a) = Len(s) - h, \A i \in 1..Len(s) - h : a[i] = s[h + i]
    PROVE  SubSeq(s, 1, h) \o a = s
  <1> DEFINE f == SubSeq(s, 1, h)
             g == f \o a
  <1>1. h \in 0..Len(s) /\ h \in Nat
    BY LenProperties
  <1>2. f \in Seq(Byte) /\ Len(f) = h /\ Len(s) \in Nat /\ \A i \in 1..h : f[i] = s[i]
    BY <1>1, FrontPlaces
  <1>3. f \in Seq(Byte)
    BY <1>2
  <1> HIDE DEF f
  <1>4. /\ g \in Seq(Byte) /\ Len(g) = Len(f) + Len(a)
        /\ \A i \in 1..Len(f) : g[i] = f[i]
        /\ \A i \in 1..Len(a) : g[Len(f) + i] = a[i]
        /\ \A i \in 1..Len(g) : i \in 1..Len(f) \/ i - Len(f) \in 1..Len(a)
    BY ONLY <1>3, a \in Seq(Byte), JoinPlaces
  <1> HIDE DEF g
  <1>5. Len(g) = Len(s)
    BY <1>2, <1>4
  <1>6. ASSUME NEW i \in 1..Len(g) PROVE g[i] = s[i]
    <2>1. CASE i \in 1..Len(f)
      BY <1>2, <1>4, <2>1
    <2>2. CASE i - Len(f) \in 1..Len(a)
      <3> DEFINE j == i - Len(f)
      <3>1. j \in 1..Len(a) /\ h + j = i
        BY <1>2, <2>2
      <3>2. Len(f) + j = i /\ j \in 1..Len(s) - h
        BY <1>2, <3>1
      <3> HIDE DEF j
      <3>3. g[Len(f) + j] = a[j]
        BY <1>4, <3>1
      <3>4. a[j] = s[h + j]
        BY <3>2
      <3> QED
        BY <3>1, <3>2, <3>3, <3>4
    <2> QED
      BY <1>4, <2>1, <2>2
  <1>7. g = s
    BY <1>4, <1>5, <1>6, SeqEqual
  <1> QED
    BY <1>7 DEF f, g

(* The oldest lines are cut off, more than del_cnt bytes: room for one line more. *)
LEMMA KeptCut ==
    ASSUME LoggerAssumption, NEW s \in Seq(Byte), NEW b \in Seq(Byte), NEW l \in Seq(Byte),
           NEW d \in Nat, NEW most \in Nat, Kept(s, b, l, d, most),
           NEW h \in 1..Len(s), s[h][3], del_cnt < h,
           NEW a \in Seq(Byte), Len(a) = Len(s) - h, \A i \in 1..Len(s) - h : a[i] = s[h + i]
    PROVE  Kept(a, b, l, d + 1, most)
  <1> DEFINE v == s \o b
             w == a \o b
  <1>0. /\ v \in Seq(Byte) /\ Len(v) = Len(s) + Len(b) /\ Len(s) \in Nat /\ Len(b) \in Nat
        /\ w \in Seq(Byte) /\ Len(w) = Len(a) + Len(b) /\ Len(a) \in Nat
    BY JoinLengths
  <1>1. /\ \A i \in 1..Len(s) : v[i] = s[i]
        /\ \A i \in 1..Len(b) : v[Len(s) + i] = b[i]
    BY JoinPlaces
  <1>2. /\ \A i \in 1..Len(a) : w[i] = a[i]
        /\ \A i \in 1..Len(b) : w[Len(a) + i] = b[i]
        /\ \A i \in 1..Len(w) : i \in 1..Len(a) \/ i - Len(a) \in 1..Len(b)
    BY JoinPlaces
  <1>3. Latest(v, l)
    BY DEF Kept
  <1> HIDE DEF v, w
  <1>4. Latest(w, l)
    <2>1. h \in 1..Len(v) /\ v[h][3] /\ Len(w) = Len(v) - h
      <3>1. v[h] = s[h]
        BY <1>1
      <3>2. Len(v) = Len(s) + Len(b) /\ Len(s) \in Nat /\ Len(b) \in Nat /\ Len(w) = Len(a) + Len(b)
        BY <1>0
      <3>3. h \in 1..Len(v) /\ Len(w) = Len(v) - h
        BY <3>2
      <3> QED
        BY <3>1, <3>3
    <2>2. ASSUME NEW i \in 1..Len(w) PROVE w[i] = v[h + i]
      <3>1. CASE i \in 1..Len(a)
        <4>1. i \in 1..Len(s) - h /\ h + i \in 1..Len(s)
          BY <1>0, <3>1
        <4> QED
          BY <1>0, <1>1, <1>2, <3>1, <4>1
      <3>2. CASE i - Len(a) \in 1..Len(b)
        <4> DEFINE j == i - Len(a)
        <4>1. j \in 1..Len(b) /\ Len(a) + j = i /\ Len(s) + j = h + i
          BY <1>0, <1>1, <1>2, <3>2
        <4> HIDE DEF j
        <4>2. w[Len(a) + j] = b[j] /\ v[Len(s) + j] = b[j]
          BY <1>0, <1>1, <1>2, <4>1
        <4> QED
          BY <4>1, <4>2
      <3> QED
        BY <1>0, <1>2, <3>1, <3>2
    <2> QED
      BY <1>0, <1>3, <2>1, <2>2, LatestBehind
  <1>5. Whole(a)
    <2> SUFFICES ASSUME a # <<>> PROVE a[Len(a)][3]
      BY DEF Whole
    <2>1. Len(a) # 0
      BY EmptySeq
    <2>2. Len(a) \in 1..Len(s) - h /\ h + Len(a) = Len(s) /\ Len(s) # 0
      BY <1>0, <1>1, <1>2, <2>1
    <2>3. s # <<>>
      BY <2>2
    <2>4. s[Len(s)][3]
      BY <2>3 DEF Kept, Whole
    <2>5. a[Len(a)] = s[h + Len(a)]
      BY <2>2
    <2> QED
      BY <2>2, <2>4, <2>5
  <1>6. Lined(a) /\ Lined(s)
    BY LinedBehind DEF Kept
  <1>7. Weight(a) + del_cnt + 1 <= Weight(s)
    <2> DEFINE f == SubSeq(s, 1, h)
    <2>1. h \in 0..Len(s)
      BY <1>0
    <2>2. f \in Seq(Byte) /\ Len(f) = h /\ \A i \in 1..h : f[i] = s[i]
      BY <2>1, FrontPlaces
    <2> HIDE DEF f
    <2>3. f \o a = s
      BY Rejoined DEF f
    <2>4. del_cnt + 1 <= Weight(f)
      BY <1>6, <2>2, <2>3, WeightFront
    <2>5. Weight(s) = Weight(f) + Weight(a)
      BY <2>2, <2>3, WeightJoin
    <2>6. Weight(f) \in Nat /\ Weight(a) \in Nat /\ del_cnt \in Nat
      BY <2>2, WeightOf DEF LoggerAssumption
    <2> QED
      BY <2>4, <2>5, <2>6
  <1>8. ASSUME NEW n \in Heaviest
        PROVE  Weight(a) + Weight(b) + n * (d + 1) <= most + n * Cardinality(Thread)
    <2> DEFINE u == n * d
               z == n * (d + 1)
               r == n * Cardinality(Thread)
    <2>1. n \in Nat /\ Cardinality(Thread) \in Nat /\ del_cnt \in Nat /\ n <= del_cnt + 1
      BY HeaviestLine
    <2>2. u \in Nat /\ z = u + n /\ r \in Nat
      BY <2>1, Times
    <2>3. Weight(s) + Weight(b) + u <= most + r
      BY DEF Kept
    <2>4. Weight(a) \in Nat /\ Weight(b) \in Nat /\ Weight(s) \in Nat
      BY WeightOf
    <2> HIDE DEF u, z, r
    <2>5. Weight(a) + Weight(b) + z <= most + r
      <3> DEFINE wa == Weight(a)
                 wb == Weight(b)
                 ws == Weight(s)
      <3>1. /\ wa \in Nat /\ wb \in Nat /\ ws \in Nat
            /\ ws + wb + u <= most + r /\ wa + del_cnt + 1 <= ws
        BY <1>7, <2>3, <2>4
      <3> HIDE DEF wa, wb, ws
      <3>2. wa + wb + (u + n) <= most + r
        BY <2>1, <2>2, <3>1
      <3> QED
        BY <2>2, <3>2 DEF wa, wb
    <2> QED
      BY <2>5 DEF z, r
  <1> QED
    BY <1>4, <1>5, <1>6, <1>8 DEF Kept, w

(* A file that has not grown too long has room for a line of each thread. *)
LEMMA KeptRoom ==
    ASSUME LoggerAssumption, NEW s \in Seq(Byte), NEW b \in Seq(Byte), NEW l,
           Whole(s), Lined(s), Latest(s \o b, l), NEW most \in Nat, Len(s) <= most,
           NEW d \in Nat, NEW e \in Nat, d + e <= Cardinality(Thread),
           \A n \in Heaviest : Weight(b) <= n * e
    PROVE  Kept(s, b, l, d, most)
  <1> SUFFICES ASSUME NEW n \in Heaviest
               PROVE  Weight(s) + Weight(b) + n * d <= most + n * Cardinality(Thread)
    BY DEF Kept
  <1> DEFINE u == n * d
             z == n * e
             r == n * Cardinality(Thread)
             m == n * (d + e)
  <1>1. n \in Nat /\ Cardinality(Thread) \in Nat /\ d + e \in Nat
    BY HeaviestLine
  <1>2. u \in Nat /\ z \in Nat /\ m = u + z /\ r \in Nat
    BY <1>1, Times
  <1>5. m <= r
    BY <1>1, Times
  <1>3. Weight(b) <= z /\ Weight(s) \in Nat /\ Weight(b) \in Nat /\ Weight(s) <= most
    BY WeightOf
  <1> HIDE DEF u, z, r, m
  <1>4. Weight(s) + Weight(b) + u <= most + r
    BY <1>1, <1>2, <1>3, <1>5
  <1> QED
    BY <1>4 DEF u, r

(* A crash: what the stream held is lost, and nobody has a line to write. *)
LEMMA KeptLost ==
    ASSUME LoggerAssumption, NEW s \in Seq(Byte), NEW b \in Seq(Byte), NEW l \in Seq(Byte),
           NEW d \in Nat, NEW most \in Nat, Kept(s, b, l, d, most)
    PROVE  LET k == SubSeq(l, 1, Len(l) - Len(b)) IN k \in Seq(Byte) /\ Kept(s, <<>>, k, 0, most)
  <1> DEFINE k == SubSeq(l, 1, Len(l) - Len(b))
  <1>1. k \in Seq(Byte) /\ Latest(s, k) /\ Whole(s) /\ Lined(s)
    BY LatestFront DEF Kept
  <1> HIDE DEF k
  <1>2. s \o <<>> = s /\ Weight(<<>>) = 0 /\ Weight(s) \in Nat /\ Weight(b) \in Nat
    BY ConcatEmptySeq, WeightOf, WeightNone
  <1>3. ASSUME NEW n \in Heaviest
        PROVE  Weight(s) + Weight(<<>>) + n * 0 <= most + n * Cardinality(Thread)
    <2> DEFINE u == n * d
               r == n * Cardinality(Thread)
    <2>1. n \in Nat /\ Cardinality(Thread) \in Nat
      BY HeaviestLine
    <2>2. u \in Nat /\ r \in Nat /\ n * 0 = 0
      BY <2>1, Times
    <2>3. Weight(s) + Weight(b) + u <= most + r
      BY DEF Kept
    <2> HIDE DEF u, r
    <2>4. Weight(s) + 0 + 0 <= most + r
      BY <1>2, <2>1, <2>2, <2>3
    <2> QED
      BY <1>2, <2>2, <2>4 DEF r
  <1> QED
    BY <1>1, <1>2, <1>3 DEF Kept, k

(* What a thread that goes on changes of the threads' places. *)
LEMMA PlacesOf ==
    ASSUME LoggerAssumption, LoggerTypeOK, NEW t \in Thread,
           NEW x \in {"idle", "stat", "move", "truncate", "seek", "write", "exit"},
           pc' = [pc EXCEPT ![t] = x]
    PROVE  /\ pc' \in [Thread -> {"idle", "stat", "move", "truncate", "seek", "write", "exit"}]
           /\ \A u \in Thread : pc'[u] = IF u = t THEN x ELSE pc[u]
           /\ Cardinality(Due) \in Nat /\ Cardinality(Due)' \in Nat
           /\ Cardinality(Done) \in Nat /\ Cardinality(Done)' \in Nat
           /\ (pc[t] \in {"seek", "write"} <=> x \in {"seek", "write"}) =>
                 Cardinality(Due)' = Cardinality(Due)
           /\ pc[t] \notin {"seek", "write"} /\ x \in {"seek", "write"} =>
                 Cardinality(Due)' = Cardinality(Due) + 1
           /\ pc[t] \in {"seek", "write"} /\ x \notin {"seek", "write"} =>
                 Cardinality(Due) = Cardinality(Due)' + 1
           /\ (pc[t] \in {"idle", "exit"} <=> x \in {"idle", "exit"}) =>
                 Cardinality(Done)' = Cardinality(Done)
           /\ pc[t] \notin {"idle", "exit"} /\ x \in {"idle", "exit"} =>
                 Cardinality(Done)' = Cardinality(Done) + 1
  <1>1. /\ pc' \in [Thread -> {"idle", "stat", "move", "truncate", "seek", "write", "exit"}]
        /\ \A u \in Thread : pc'[u] = IF u = t THEN x ELSE pc[u]
    BY DEF LoggerTypeOK
  <1>2. /\ Due \in SUBSET Thread /\ Due' \in SUBSET Thread
        /\ \A u \in Thread \ {t} : u \in Due <=> u \in Due'
        /\ t \in Due <=> pc[t] \in {"seek", "write"}
        /\ t \in Due' <=> x \in {"seek", "write"}
    BY <1>1 DEF Due
  <1>3. /\ Done \in SUBSET Thread /\ Done' \in SUBSET Thread
        /\ \A u \in Thread \ {t} : u \in Done <=> u \in Done'
        /\ t \in Done <=> pc[t] \in {"idle", "exit"}
        /\ t \in Done' <=> x \in {"idle", "exit"}
    BY <1>1 DEF Done
  <1>4. /\ Cardinality(Due) \in Nat /\ Cardinality(Due') \in Nat
        /\ (t \in Due <=> t \in Due') => Cardinality(Due') = Cardinality(Due)
        /\ t \notin Due /\ t \in Due' => Cardinality(Due') = Cardinality(Due) + 1
        /\ t \in Due /\ t \notin Due' => Cardinality(Due) = Cardinality(Due') + 1
    BY <1>2, OneGoes
  <1>5. /\ Cardinality(Done) \in Nat /\ Cardinality(Done') \in Nat
        /\ (t \in Done <=> t \in Done') => Cardinality(Done') = Cardinality(Done)
        /\ t \notin Done /\ t \in Done' => Cardinality(Done') = Cardinality(Done) + 1
    BY <1>3, OneGoes
  <1>6. Cardinality(Due)' = Cardinality(Due') /\ Cardinality(Done)' = Cardinality(Done')
    OBVIOUS
  <1> QED
    BY <1>1, <1>2, <1>3, <1>4, <1>5, <1>6

(* fflush by a thread: nothing is written while another one is about to cut. *)
LEMMA FlushStep ==
    ASSUME LoggerAssumption, LoggerTypeOK, Intact, NEW t \in Thread,
           NEW from \in {"idle", "seek"}, NEW to, pc[t] = from, pc' = [pc EXCEPT ![t] = to],
           <<from, to>> = <<"idle", "stat">> \/ <<from, to>> = <<"seek", "write">>,
           Flush, Changes(t), UNCHANGED <<size, cnt, logged, max_line, top_line>>
    PROVE  LoggerTypeOK' => (~raced' => Intact')
  <1> SUFFICES ASSUME LoggerTypeOK', ~raced' PROVE Intact'
    OBVIOUS
  <1>1. /\ to \in {"idle", "stat", "move", "truncate", "seek", "write", "exit"}
        /\ from \in {"seek", "write"} <=> to \in {"seek", "write"}
        /\ from \notin {"move", "truncate"} /\ to \notin {"move", "truncate"}
    OBVIOUS
  <1>2. /\ \A u \in Thread : pc'[u] = IF u = t THEN to ELSE pc[u]
        /\ Cardinality(Due)' = Cardinality(Due) /\ Cardinality(Due) \in Nat
        /\ Cardinality(Done)' \in Nat
    BY <1>1, PlacesOf
  <1>3. /\ \A u \in Thread : Cutting(u)' <=> Cutting(u)
        /\ \A u \in Thread : pc'[u] = "truncate" <=> pc[u] = "truncate"
    BY <1>1, <1>2 DEF Cutting
  <1>4. (Trimming' <=> Trimming) /\ \A u \in Thread : Alone(u)' <=> Alone(u)
    BY <1>3 DEF Trimming, Alone
  <1>5. Lined(buf') /\ \A n \in Heaviest : Weight(buf') <= n * Cardinality(Done)'
    <2>1. Lined(<<>>) /\ Weight(<<>>) = 0
      BY WeightNone, LinedNone
    <2> SUFFICES ASSUME NEW n \in Heaviest PROVE Weight(buf') <= n * Cardinality(Done)'
      BY <2>1 DEF Flush
    <2>2. n \in Nat /\ n * Cardinality(Done)' \in Nat
      BY <1>2, HeaviestLine, Times
    <2> QED
      BY <2>1, <2>2 DEF Flush
  <1>6. file \in Seq(Byte) /\ buf \in Seq(Byte) /\ logged \in Seq(Byte)
    BY DEF LoggerTypeOK
  <1>7. CASE \E u \in Thread : Cutting(u)
    <2>1. \E u \in Thread \ {t} : pc[u] \in {"move", "truncate"}
      BY <1>1, <1>7 DEF Cutting
    <2>2. file' = file
      BY <2>1 DEF Changes
    <2>3. Len(file \o buf) = Len(file) + Len(buf) /\ Len(file) \in Nat /\ Len(buf) \in Nat
      BY <1>6, JoinPlaces
    <2>4. Len(buf) = 0
      BY <2>2, <2>3 DEF Flush
    <2>5. buf = <<>> /\ buf' = buf
      BY <1>6, <2>4, EmptySeq DEF Flush
    <2>6. Whole(file') /\ Whole(buf')
      BY <2>2, <2>5 DEF Intact
    <2>7. Measured'
      BY <1>3, <2>2 DEF Intact, Measured
    <2>8. CutToFit'
      <3>1. CutToFit
        BY DEF Intact
      <3> QED
        BY <1>2, <1>3, <1>4, <2>2, <2>5, <3>1 DEF CutToFit
    <2>9. ~Trimming' => Kept(file', buf', logged', Cardinality(Due)', top_line)
      BY <1>2, <1>4, <2>2, <2>5 DEF Intact
    <2> QED
      BY <1>5, <2>6, <2>7, <2>8, <2>9 DEF Intact
  <1>8. CASE ~\E u \in Thread : Cutting(u)
    <2>1. ~Trimming /\ \A u \in Thread : pc[u] # "truncate"
      BY <1>8 DEF Trimming, Cutting
    <2>2. Whole(buf) /\ Lined(buf) /\ Whole(file) /\ Kept(file, buf, logged, Cardinality(Due), top_line)
      BY <2>1 DEF Intact
    <2>3. Kept(file \o buf, <<>>, logged, Cardinality(Due), top_line) /\ Whole(file \o buf)
      BY <1>6, <2>2, KeptFlushed, WholeJoin
    <2>4. Kept(file', buf', logged', Cardinality(Due)', top_line) /\ Whole(file') /\ Whole(buf')
      BY <1>2, <2>3 DEF Flush, Whole
    <2>5. Measured' /\ CutToFit'
      BY <1>3, <1>8, <2>1 DEF Measured, CutToFit
    <2> QED
      BY <1>5, <2>4, <2>5 DEF Intact
  <1> QED
    BY <1>7, <1>8

LEMMA BeginStep ==
    ASSUME LoggerAssumption, LoggerInv, NEW t \in Thread, NEW level, vlog_message(t, level)
    PROVE  LoggerInv'
  <1>1. /\ LoggerTypeOK /\ Going /\ Intact
        /\ pc[t] = "idle" /\ pc' = [pc EXCEPT ![t] = "stat"]
        /\ Flush /\ Changes(t) /\ UNCHANGED <<size, cnt, logged, lines, halved, ruined, max_line, top_line>>
    BY DEF LoggerInv, vlog_message, Go, Going, settings
  <1>2. LoggerTypeOK'
    <2>1. file' \in Seq(Byte) /\ buf' \in Seq(Byte)
      BY <1>1, JoinPlaces DEF LoggerTypeOK, Flush
    <2>2. pc' \in [Thread -> {"idle", "stat", "move", "truncate", "seek", "write", "exit"}]
      BY <1>1, PlacesOf
    <2> QED
      BY <1>1, <2>1, <2>2 DEF LoggerTypeOK
  <1>3. ~raced' => Intact'
    BY <1>1, <1>2, FlushStep
  <1> QED
    BY <1>1, <1>2, <1>3 DEF LoggerInv, Going

LEMMA SeekStep ==
    ASSUME LoggerAssumption, LoggerInv, NEW t \in Thread, Seek(t)
    PROVE  LoggerInv'
  <1>1. /\ LoggerTypeOK /\ Going /\ Intact
        /\ pc[t] = "seek" /\ pc' = [pc EXCEPT ![t] = "write"]
        /\ Flush /\ Changes(t) /\ UNCHANGED <<size, cnt, logged, lines, halved, ruined, max_line, top_line>>
    BY DEF LoggerInv, Seek, Go, Going, settings
  <1>2. LoggerTypeOK'
    <2>1. file' \in Seq(Byte) /\ buf' \in Seq(Byte)
      BY <1>1, JoinPlaces DEF LoggerTypeOK, Flush
    <2>2. pc' \in [Thread -> {"idle", "stat", "move", "truncate", "seek", "write", "exit"}]
      BY <1>1, PlacesOf
    <2> QED
      BY <1>1, <2>1, <2>2 DEF LoggerTypeOK
  <1>3. ~raced' => Intact'
    BY <1>1, <1>2, FlushStep
  <1> QED
    BY <1>1, <1>2, <1>3 DEF LoggerInv, Going

(* fstat: a file that has not grown too long has room for what is due. *)
LEMMA StatStep ==
    ASSUME LoggerAssumption, LoggerInv, NEW t \in Thread, Stat(t)
    PROVE  LoggerInv'
  <1> DEFINE to == IF Len(file) <= max_line THEN "write" ELSE "move"
  <1>1. /\ LoggerTypeOK /\ Going /\ Intact
        /\ pc[t] = "stat" /\ pc' = [pc EXCEPT ![t] = to]
        /\ size' = [size EXCEPT ![t] = Len(file)]
        /\ file' = file /\ buf' = buf /\ cnt' = cnt /\ logged' = logged /\ lines' = lines
        /\ raced' = raced /\ halved' = halved /\ ruined' = ruined
        /\ max_line' = max_line /\ top_line' = top_line
    BY DEF LoggerInv, Stat, Go, Going, settings
  <1>2. /\ file \in Seq(Byte) /\ buf \in Seq(Byte) /\ logged \in Seq(Byte)
        /\ Len(file) \in Nat /\ max_line \in Int /\ top_line \in Nat /\ max_line <= top_line
    BY <1>1, LenProperties DEF LoggerTypeOK
  <1>3. /\ to \in {"idle", "stat", "move", "truncate", "seek", "write", "exit"}
        /\ to = "write" <=> Len(file) <= max_line
        /\ to \in {"write", "move"}
    OBVIOUS
  <1> HIDE DEF to
  <1>4. /\ pc' \in [Thread -> {"idle", "stat", "move", "truncate", "seek", "write", "exit"}]
        /\ \A u \in Thread : pc'[u] = IF u = t THEN to ELSE pc[u]
        /\ Cardinality(Due)' \in Nat /\ Cardinality(Done) \in Nat
        /\ Cardinality(Due) \in Nat
        /\ to = "move" => Cardinality(Due)' = Cardinality(Due)
        /\ to = "write" => Cardinality(Due)' = Cardinality(Due) + 1
        /\ Cardinality(Done)' = Cardinality(Done)
    BY <1>1, <1>3, PlacesOf
  <1>5. LoggerTypeOK'
    BY <1>1, <1>2, <1>4 DEF LoggerTypeOK
  <1>6. \A u \in Thread : size'[u] = IF u = t THEN Len(file) ELSE size[u]
    BY <1>1 DEF LoggerTypeOK
  <1>7. Measured'
    <2> SUFFICES ASSUME NEW u \in Thread, Cutting(u)'
                 PROVE  size'[u] = Len(file) /\ max_line < Len(file)
      BY <1>1 DEF Measured
    <2>1. CASE u = t
      BY <1>2, <1>3, <1>4, <1>6, <2>1 DEF Cutting
    <2>2. CASE u # t
      <3>1. Cutting(u) /\ size'[u] = size[u]
        BY <1>4, <1>6, <2>2 DEF Cutting
      <3> QED
        BY <1>1, <3>1 DEF Intact, Measured
    <2> QED
      BY <2>1, <2>2
  <1>8. CutToFit'
    <2> SUFFICES ASSUME NEW u \in Thread, pc'[u] = "truncate"
                 PROVE  /\ cnt[u] < Len(file)
                        /\ Alone(u)' => Kept(SubSeq(file, 1, cnt[u]), buf, logged, Cardinality(Due)' + 1, top_line)
      BY <1>1 DEF CutToFit
    <2>1. u # t /\ pc[u] = "truncate"
      BY <1>3, <1>4
    <2>2. Cutting(u) /\ max_line < Len(file)
      BY <1>1, <2>1 DEF Cutting, Intact, Measured
    <2>3. to = "move"
      BY <1>2, <1>3, <2>2
    <2>4. ~Alone(u)'
      BY <1>4, <2>1, <2>3 DEF Alone, Cutting
    <2> QED
      BY <1>1, <2>1, <2>4 DEF Intact, CutToFit
  <1>9. ~Trimming' => Kept(file, buf, logged, Cardinality(Due)', top_line)
    <2> HAVE ~Trimming'
    <2>1. ~Trimming
      BY <1>1, <1>4 DEF Trimming
    <2>2. Kept(file, buf, logged, Cardinality(Due), top_line)
      BY <1>1, <2>1 DEF Intact
    <2>3. CASE to = "move"
      BY <1>4, <2>2, <2>3
    <2>4. CASE to = "write"
      <3> DEFINE d == Cardinality(Due)'
                 e == Cardinality(Done)
      <3>1. d \in Nat /\ e \in Nat /\ d + e <= Cardinality(Thread)
        <4>1. Due' \in SUBSET Thread /\ Done' \in SUBSET Thread /\ Due' \cap Done' = {}
          BY DEF Due, Done
        <4>2. Cardinality(Due') + Cardinality(Done') <= Cardinality(Thread)
          BY <4>1, DueAndDone
        <4> QED
          BY <1>4, <4>2
      <3>2. /\ Whole(file) /\ Lined(file) /\ Latest(file \o buf, logged)
            /\ Len(file) <= top_line
        BY <1>2, <1>3, <2>2, <2>4 DEF Kept
      <3>3. \A n \in Heaviest : Weight(buf) <= n * e
        BY <1>1 DEF Intact
      <3> HIDE DEF d, e
      <3>4. Kept(file, buf, logged, d, top_line)
        BY <1>2, <3>1, <3>2, <3>3, KeptRoom
      <3> QED
        BY <3>4 DEF d
    <2> QED
      BY <1>3, <2>3, <2>4
  <1>10. Intact'
    BY <1>1, <1>4, <1>7, <1>8, <1>9 DEF Intact
  <1> QED
    BY <1>1, <1>5, <1>10 DEF LoggerInv, Going

(* memmove: of one thread alone, what it will cut the file to is as it should be. *)
LEMMA MoveStep ==
    ASSUME LoggerAssumption, LoggerInv, NEW t \in Thread, Move(t)
    PROVE  LoggerInv'
  <1> DEFINE L == Len(file)
             h == HeadAt
             a == SubSeq(file, h + 1, L)
  <1>1. /\ LoggerTypeOK /\ Going /\ Intact
        /\ pc[t] = "move" /\ pc' = [pc EXCEPT ![t] = "truncate"]
        /\ size' = size /\ buf' = buf /\ logged' = logged /\ lines' = lines /\ halved' = halved
        /\ ruined' = ruined /\ max_line' = max_line /\ top_line' = top_line /\ del_cnt < size[t]
        /\ Changes(t)
    BY DEF LoggerInv, LoggerAssumption, LoggerTypeOK, Move, Go, Going, settings
  <1>2. /\ file \in Seq(Byte) /\ buf \in Seq(Byte) /\ logged \in Seq(Byte)
        /\ Whole(file) /\ Measured /\ CutToFit
    BY <1>1 DEF LoggerTypeOK, Intact
  <1>3. size[t] = L /\ max_line < L /\ del_cnt < L
    BY <1>1, <1>2 DEF Measured, Cutting
  <1>4. L \in Nat /\ h \in 1..L /\ del_cnt < h /\ file[h][3]
    BY <1>2, <1>3, HeadAtPlace
  <1>5. /\ cnt' = [cnt EXCEPT ![t] = L - h]
        /\ file' = a \o SubSeq(file, L - h + 1, L)
    BY <1>3 DEF Move
  <1>6. /\ file' \in Seq(Byte) /\ Len(file') = L /\ Whole(file')
        /\ a \in Seq(Byte) /\ Len(a) = L - h
        /\ \A i \in 1..L - h : a[i] = file[h + i]
        /\ SubSeq(file', 1, L - h) = a
    <2> HIDE DEF h
    <2> QED
      BY <1>2, <1>4, <1>5, Moved
  <1> HIDE DEF a, h
  <1>7. /\ pc' \in [Thread -> {"idle", "stat", "move", "truncate", "seek", "write", "exit"}]
        /\ \A u \in Thread : pc'[u] = IF u = t THEN "truncate" ELSE pc[u]
        /\ Cardinality(Due)' = Cardinality(Due) /\ Cardinality(Due) \in Nat
        /\ Cardinality(Done)' = Cardinality(Done)
    BY <1>1, PlacesOf
  <1>8. \A u \in Thread : cnt'[u] = IF u = t THEN L - h ELSE cnt[u]
    BY <1>1, <1>5 DEF LoggerTypeOK
  <1>9. LoggerTypeOK'
    <2>1. L - h \in Nat
      BY <1>4
    <2>2. cnt' \in [Thread -> Nat]
      BY <1>1, <1>5, <2>1 DEF LoggerTypeOK
    <2> QED
      BY <1>1, <1>6, <1>7, <2>2 DEF LoggerTypeOK
  <1>10. \A u \in Thread : Cutting(u)' <=> Cutting(u)
    BY <1>1, <1>7 DEF Cutting
  <1>11. Measured'
    BY <1>1, <1>2, <1>6, <1>10 DEF Measured
  <1>12. ASSUME ~raced' PROVE CutToFit'
    <2> SUFFICES ASSUME NEW u \in Thread, pc'[u] = "truncate"
                 PROVE  /\ cnt'[u] < Len(file')
                        /\ Alone(u)' => Kept(SubSeq(file', 1, cnt'[u]), buf', logged',
                                             Cardinality(Due)' + 1, top_line)
      BY <1>1 DEF CutToFit
    <2>1. CASE u # t
      <3>1. pc[u] = "truncate" /\ cnt'[u] = cnt[u] /\ Len(file') = Len(file)
        BY <1>6, <1>7, <1>8, <2>1
      <3>2. cnt[u] < Len(file)
        BY <1>2, <3>1 DEF CutToFit
      <3>3. ~Alone(u)'
        BY <1>7, <2>1 DEF Alone, Cutting
      <3> QED
        BY <3>1, <3>2, <3>3
    <2>2. CASE u = t
      <3>1. cnt'[u] = L - h /\ cnt'[u] < Len(file')
        BY <1>4, <1>6, <1>8, <2>2
      <3>2. ASSUME Alone(u)' PROVE Kept(a, buf, logged, Cardinality(Due) + 1, top_line)
        <4>1. ~Trimming
          BY <1>1, <1>7, <2>2, <3>2 DEF Alone, Cutting, Trimming
        <4>2. Kept(file, buf, logged, Cardinality(Due), top_line)
          BY <1>1, <4>1 DEF Intact
        <4> DEFINE d == Cardinality(Due)
        <4>3. d \in Nat /\ top_line \in Nat /\ Kept(file, buf, logged, d, top_line)
          BY <1>1, <1>7, <4>2 DEF LoggerTypeOK
        <4> HIDE DEF d
        <4>4. /\ h \in 1..Len(file) /\ Len(a) = Len(file) - h
              /\ \A i \in 1..Len(file) - h : a[i] = file[h + i]
              /\ file[h][3] /\ del_cnt < h /\ a \in Seq(Byte)
          BY <1>4, <1>6
        <4> HIDE DEF L
        <4>5. file \in Seq(Byte) /\ buf \in Seq(Byte) /\ logged \in Seq(Byte)
          BY <1>2
        <4>6. Kept(a, buf, logged, d + 1, top_line)
          BY <4>3, <4>4, <4>5, KeptCut
        <4> QED
          BY <4>6 DEF d
      <3>3. SubSeq(file', 1, cnt'[u]) = a
        BY <1>6, <3>1
      <3> QED
        BY <1>1, <1>7, <3>1, <3>2, <3>3
    <2> QED
      BY <2>1, <2>2
  <1>13. Trimming'
    BY <1>7 DEF Trimming
  <1>14. ~raced' => Intact'
    BY <1>1, <1>6, <1>7, <1>11, <1>12, <1>13 DEF Intact
  <1> QED
    BY <1>1, <1>9, <1>14 DEF LoggerInv, Going

(* A file too short to be cut: max_line is smaller than it. *)
LEMMA RuinStep ==
    ASSUME LoggerAssumption, LoggerInv, NEW t \in Thread, Ruin(t)
    PROVE  LoggerInv'
  <1>1. /\ LoggerTypeOK /\ Intact /\ pc[t] = "move" /\ size[t] <= del_cnt /\ ruined'
        /\ UNCHANGED <<file, buf, pc, size, cnt, lines, logged, max_line, top_line>>
    BY DEF LoggerInv, Ruin, settings
  <1>2. size[t] = Len(file) /\ max_line < Len(file)
    BY <1>1 DEF Intact, Measured, Cutting
  <1>3. max_line < del_cnt
    <2>1. Len(file) \in Nat /\ max_line \in Int /\ del_cnt \in Nat
      BY <1>1, LenProperties DEF LoggerTypeOK, LoggerAssumption
    <2> QED
      BY <1>1, <1>2, <2>1
  <1>4. LoggerTypeOK'
    BY <1>1 DEF LoggerTypeOK
  <1> QED
    BY <1>1, <1>3, <1>4 DEF LoggerInv, Going

(* ftruncate *)
LEMMA TruncateStep ==
    ASSUME LoggerAssumption, LoggerInv, NEW t \in Thread, Truncate(t)
    PROVE  LoggerInv'
  <1> DEFINE c == SubSeq(file, 1, cnt[t])
  <1>1. /\ LoggerTypeOK /\ Going /\ Intact
        /\ pc[t] = "truncate" /\ pc' = [pc EXCEPT ![t] = "seek"]
        /\ file' = c /\ Changes(t)
        /\ UNCHANGED <<size, cnt, buf, logged, lines, halved, ruined, max_line, top_line>>
    BY DEF LoggerInv, Truncate, Go, Going, settings
  <1>2. file \in Seq(Byte) /\ Len(file) \in Nat /\ cnt[t] \in Nat /\ cnt[t] < Len(file)
    BY <1>1, LenProperties DEF LoggerTypeOK, Intact, CutToFit
  <1>3. c \in Seq(Byte) /\ Len(c) = cnt[t]
    <2> DEFINE n == cnt[t]
    <2>1. 1 \in Nat \ {0} /\ n \in 0..Len(file) /\ 1 <= n + 1 /\ n - 1 + 1 = n
      BY <1>2
    <2> HIDE DEF n
    <2>2. SubSeq(file, 1, n) \in Seq(Byte) /\ Len(SubSeq(file, 1, n)) = n - 1 + 1
      BY <1>2, <2>1, PartPlaces
    <2> QED
      BY <2>1, <2>2 DEF n
  <1>4. /\ pc' \in [Thread -> {"idle", "stat", "move", "truncate", "seek", "write", "exit"}]
        /\ \A u \in Thread : pc'[u] = IF u = t THEN "seek" ELSE pc[u]
        /\ Cardinality(Due)' = Cardinality(Due) + 1
        /\ Cardinality(Done)' = Cardinality(Done)
    BY <1>1, PlacesOf
  <1>5. LoggerTypeOK'
    BY <1>1, <1>3, <1>4 DEF LoggerTypeOK
  <1>6. ASSUME ~raced' PROVE Intact'
    <2>1. file' # file
      BY <1>1, <1>2, <1>3
    <2>2. Alone(t)
      BY <1>1, <1>6, <2>1 DEF Changes, Alone, Cutting
    <2>3. Kept(c, buf, logged, Cardinality(Due) + 1, top_line)
      BY <1>1, <2>2 DEF Intact, CutToFit
    <2>4. Kept(file', buf', logged', Cardinality(Due)', top_line) /\ Whole(file') /\ Whole(buf')
      BY <1>1, <1>4, <2>3 DEF Kept, Intact
    <2>5. \A u \in Thread : ~Cutting(u)'
      BY <1>4, <2>2 DEF Alone, Cutting
    <2>6. Measured' /\ CutToFit'
      BY <2>5 DEF Measured, CutToFit, Cutting
    <2> QED
      BY <1>1, <1>4, <2>4, <2>6 DEF Intact
  <1> QED
    BY <1>1, <1>5, <1>6 DEF LoggerInv, Going

LEMMA LineIsWhole ==
    ASSUME LoggerAssumption, NEW i \in Nat, NEW n \in Lens
    PROVE  /\ LineOf(i, n) \in Seq(Byte) /\ Len(LineOf(i, n)) = n /\ n \in Nat \ {0}
           /\ Whole(LineOf(i, n)) /\ Lined(LineOf(i, n))
           /\ \A m \in Heaviest : Weight(LineOf(i, n)) <= m
  <1> DEFINE x == LineOf(i, n)
             flag(j) == j = n
             I == {j \in 1..Len(x) : x[j][2] <= del_cnt + 1}
  <1>1. n \in Nat \ {0} /\ del_cnt \in Nat
    BY DEF LoggerAssumption
  <1>2. Len(x) = n /\ \A j \in 1..n : x[j] = <<i, j, flag(j)>>
    BY <1>1 DEF LineOf
  <1>3. x \in Seq(Byte)
    <2>1. \A j \in 1..n : flag(j) \in BOOLEAN
      OBVIOUS
    <2>2. \A j \in 1..n : <<i, j, flag(j)>> \in Byte
      <3> HIDE DEF flag
      <3> QED
        BY <2>1 DEF Byte
    <2> HIDE DEF flag
    <2>3. x = [j \in 1..n |-> <<i, j, flag(j)>>]
      BY DEF LineOf, flag
    <2> QED
      BY <1>1, <2>2, <2>3
  <1>4. /\ \A j \in 1..n : x[j][2] = j
        /\ \A j \in 1..n : x[j][3] => j = n
        /\ x[n][3]
    <2>1. \A j \in 1..n : x[j][2] = j /\ x[j][3] = flag(j)
      <3> HIDE DEF flag, x
      <3> QED
        BY <1>2
    <2> HIDE DEF x
    <2>2. \A j \in 1..n : x[j][3] => j = n
      BY <2>1
    <2>3. n \in 1..n /\ flag(n)
      BY <1>1
    <2>4. x[n][3]
      <3> HIDE DEF flag
      <3> QED
        BY <2>1, <2>3
    <2> QED
      BY <2>1, <2>2, <2>4
  <1> HIDE DEF x
  <1>5. Whole(x)
    BY <1>2, <1>4 DEF Whole
  <1>6. Lined(x)
    <2> SUFFICES ASSUME NEW k \in 0..n, k = 0 \/ x[k][3], NEW j \in 1..n - k
                 PROVE  x[k + j][2] <= j
      BY <1>2 DEF Lined
    <2>1. k = 0
      <3>1. k # n
        BY <1>1
      <3>2. k # 0 => k \in 1..n
        BY <1>1
      <3> QED
        BY <1>4, <3>1, <3>2
    <2>2. k + j = j /\ j \in 1..n
      BY <1>1, <2>1
    <2> QED
      BY <1>4, <2>2
  <1>7. \A m \in Heaviest : Weight(x) <= m
    <2> TAKE m \in Heaviest
    <2>1. m \in Nat /\ (IF n <= del_cnt THEN n ELSE del_cnt + 1) <= m
      BY HeaviestLine
    <2>2. Weight(x) \in Nat /\ Weight(x) <= n
      BY <1>2, <1>3, WeightOf
    <2>3. I \subseteq 1..del_cnt + 1
      BY <1>1, <1>2, <1>4
    <2>4. IsFiniteSet(1..del_cnt + 1) /\ Cardinality(1..del_cnt + 1) = del_cnt + 1
      <3>1. /\ IsFiniteSet(1..del_cnt + 1)
            /\ Cardinality(1..del_cnt + 1) = del_cnt + 1 - 1 + 1
        BY <1>1, FS_Interval
      <3> QED
        BY <1>1, <3>1
    <2>5. Cardinality(I) <= del_cnt + 1
      <3> HIDE DEF I
      <3> QED
        BY <2>3, <2>4, FS_Subset
    <2>6. Weight(x) <= del_cnt + 1
      BY <2>5 DEF Weight
    <2> QED
      BY <1>1, <2>1, <2>2, <2>6
  <1> QED
    BY <1>1, <1>2, <1>3, <1>5, <1>6, <1>7 DEF x

(* fprintf: the line of one that was due. *)
LEMMA WriteStep ==
    ASSUME LoggerAssumption, LoggerInv, NEW t \in Thread, NEW n \in Lens, NEW flushed \in BOOLEAN,
           Write(t, n, flushed)
    PROVE  LoggerInv'
  <1> DEFINE x == LineOf(lines + 1, n)
             to == IF t \in asserted THEN "exit" ELSE "idle"
             d == Cardinality(Due)'
             e == Cardinality(Done)
  <1>1. /\ LoggerTypeOK /\ Going /\ Intact
        /\ pc[t] = "write" /\ pc' = [pc EXCEPT ![t] = to]
        /\ IF flushed THEN file' = file \o buf \o x /\ buf' = <<>> ELSE buf' = buf \o x /\ file' = file
        /\ logged' = logged \o x /\ lines' = lines + 1 /\ halved' = halved
        /\ ruined' = ruined /\ max_line' = max_line /\ top_line' = top_line /\ top_line \in Nat
        /\ size' = [size EXCEPT ![t] = 0] /\ cnt' = [cnt EXCEPT ![t] = 0]
        /\ Changes(t)
    BY DEF LoggerInv, LoggerTypeOK, Write, Go, Going, settings
  <1>2. /\ file \in Seq(Byte) /\ buf \in Seq(Byte) /\ logged \in Seq(Byte)
        /\ Whole(file) /\ Whole(buf) /\ Lined(buf) /\ lines \in Nat
    BY <1>1 DEF LoggerTypeOK, Intact
  <1>3. /\ x \in Seq(Byte) /\ Len(x) = n /\ n \in Nat \ {0} /\ Whole(x) /\ Lined(x)
        /\ \A m \in Heaviest : Weight(x) <= m
    <2>1. lines + 1 \in Nat
      BY <1>2
    <2> QED
      BY <2>1, LineIsWhole
  <1> HIDE DEF x
  <1>4. to \in {"idle", "exit"}
    OBVIOUS
  <1> HIDE DEF to
  <1>5. /\ pc' \in [Thread -> {"idle", "stat", "move", "truncate", "seek", "write", "exit"}]
        /\ \A u \in Thread : pc'[u] = IF u = t THEN to ELSE pc[u]
        /\ Cardinality(Due) = d + 1 /\ d \in Nat
        /\ Cardinality(Done)' = e + 1 /\ e \in Nat
    BY <1>1, <1>4, PlacesOf
  <1>6. /\ buf \o x \in Seq(Byte) /\ Len(buf \o x) = Len(buf) + n
        /\ file \o buf \in Seq(Byte) /\ logged \o x \in Seq(Byte)
        /\ file \o (buf \o x) \in Seq(Byte) /\ (file \o buf) \o x = file \o (buf \o x)
        /\ Whole(buf \o x) /\ Lined(buf \o x) /\ Len(buf) \in Nat
        /\ Weight(buf \o x) = Weight(buf) + Weight(x) /\ Weight(buf) \in Nat /\ Weight(x) \in Nat
    <2>1. /\ buf \o x \in Seq(Byte) /\ Len(buf \o x) = Len(buf) + n
          /\ file \o buf \in Seq(Byte) /\ logged \o x \in Seq(Byte) /\ Len(buf) \in Nat
      BY <1>2, <1>3, JoinPlaces
    <2>2. file \o (buf \o x) \in Seq(Byte)
      BY <1>2, <2>1, JoinPlaces
    <2>3. (file \o buf) \o x = file \o (buf \o x)
      <3> DEFINE S == Byte
      <3> HIDE DEF S
      <3>1. file \in Seq(S) /\ buf \in Seq(S) /\ x \in Seq(S)
        BY <1>2, <1>3 DEF S
      <3> QED
        BY <3>1, ConcatAssociative, SMTT(20)
    <2> QED
      BY <1>2, <1>3, <2>1, <2>2, <2>3, WholeJoin, LinedJoin, WeightJoin, WeightOf
  <1>7. /\ logged' \in Seq(Byte) /\ file' \in Seq(Byte) /\ buf' \in Seq(Byte)
        /\ flushed => file' = file \o (buf \o x) /\ buf' = <<>>
        /\ ~flushed => file' = file /\ buf' = buf \o x
    <2>1. CASE flushed
      <3>1. file' = file \o (buf \o x) /\ buf' = <<>> /\ logged' = logged \o x
        BY <1>1, <1>6, <2>1
      <3>2. <<>> \in Seq(Byte)
        OBVIOUS
      <3> QED
        BY <1>6, <2>1, <3>1, <3>2
    <2>2. CASE ~flushed
      <3>1. file' = file /\ buf' = buf \o x /\ logged' = logged \o x
        BY <1>1, <2>2
      <3> QED
        BY <1>2, <1>6, <2>2, <3>1
    <2> QED
      BY <2>1, <2>2
  <1>8. /\ \A u \in Thread : size'[u] = IF u = t THEN 0 ELSE size[u]
        /\ \A u \in Thread : cnt'[u] = IF u = t THEN 0 ELSE cnt[u]
        /\ size' \in [Thread -> Nat] /\ cnt' \in [Thread -> Nat]
    BY <1>1 DEF LoggerTypeOK
  <1>9. LoggerTypeOK'
    <2>1. lines' \in Nat
      BY <1>1, <1>2
    <2>2. max_line' \in Int /\ top_line' \in Nat /\ max_line' <= top_line' /\ default_line <= top_line'
      BY <1>1 DEF LoggerTypeOK
    <2> QED
      BY <1>5, <1>7, <1>8, <2>1, <2>2 DEF LoggerTypeOK
  <1>10. /\ \A u \in Thread : Cutting(u)' <=> Cutting(u)
         /\ \A u \in Thread : pc'[u] = "truncate" <=> pc[u] = "truncate"
         /\ ~Cutting(t)
    BY <1>1, <1>4, <1>5 DEF Cutting
  <1>11. \A m \in Heaviest : Weight(buf') <= m * Cardinality(Done)'
    <2> SUFFICES ASSUME NEW m \in Heaviest PROVE Weight(buf') <= m * (e + 1)
      BY <1>5
    <2>1. m \in Nat /\ m * (e + 1) = m * e + m /\ m * e \in Nat /\ m * (e + 1) \in Nat
      <3>1. m \in Nat
        BY HeaviestLine
      <3> QED
        BY <1>5, <3>1, Times
    <2>2. Weight(buf) <= m * e
      BY <1>1 DEF Intact
    <2> DEFINE a == m * e
    <2>3. Weight(buf) <= a /\ a \in Nat /\ m * (e + 1) = a + m
      BY <2>1, <2>2
    <2> HIDE DEF a, e
    <2>4. CASE flushed
      <3>1. Weight(buf') = 0
        BY <1>7, <2>4, WeightNone
      <3> QED
        BY <2>1, <3>1
    <2>5. CASE ~flushed
      <3>1. Weight(buf') = Weight(buf) + Weight(x) /\ Weight(x) <= m
        BY <1>3, <1>6, <1>7, <2>5
      <3> QED
        BY <1>6, <2>1, <2>3, <3>1
    <2> QED
      BY <2>4, <2>5
  <1>12. CASE ~flushed
    <2>1. file' = file /\ buf' = buf \o x /\ logged' = logged \o x
      BY <1>1, <1>7, <1>12
    <2>2. Measured'
      <3>1. \A u \in Thread : Cutting(u)' => Cutting(u) /\ size'[u] = size[u]
        BY <1>8, <1>10
      <3> QED
        BY <1>1, <2>1, <3>1 DEF Intact, Measured
    <2>3. CutToFit'
      <3> SUFFICES ASSUME NEW u \in Thread, pc'[u] = "truncate"
                   PROVE  /\ cnt'[u] < Len(file)
                          /\ Alone(u)' => Kept(SubSeq(file, 1, cnt'[u]), buf', logged', d + 1, top_line)
        BY <1>1, <2>1 DEF CutToFit
      <3>1. pc[u] = "truncate" /\ cnt'[u] = cnt[u] /\ (Alone(u)' => Alone(u))
        BY <1>8, <1>10 DEF Alone, Cutting
      <3>2. cnt[u] < Len(file) /\ (Alone(u)' => Kept(SubSeq(file, 1, cnt[u]), buf, logged, (d + 1) + 1, top_line))
        BY <1>1, <1>5, <3>1 DEF Intact, CutToFit
      <3>3. SubSeq(file, 1, cnt[u]) \in Seq(Byte)
        <4> DEFINE k == cnt[u]
        <4>1. k \in 0..Len(file) /\ 1 \in Nat \ {0} /\ 1 <= k + 1
          BY <1>1, <1>2, <3>2, LenProperties DEF LoggerTypeOK
        <4> HIDE DEF k
        <4>2. SubSeq(file, 1, k) \in Seq(Byte)
          BY <1>2, <4>1, PartPlaces
        <4> QED
          BY <4>2 DEF k
      <3>4. d + 1 \in Nat
        BY <1>5
      <3>5. Alone(u)' => Kept(SubSeq(file, 1, cnt[u]), buf \o x, logged \o x, d + 1, top_line)
        <4> DEFINE c == SubSeq(file, 1, cnt[u])
                   f == d + 1
        <4>1. f \in Nat /\ c \in Seq(Byte) /\ (Alone(u)' => Kept(c, buf, logged, f + 1, top_line))
          BY <3>2, <3>3, <3>4
        <4> HIDE DEF c, f
        <4>2. Alone(u)' => Kept(c, buf \o x, logged \o x, f, top_line)
          BY <1>1, <1>2, <1>3, <4>1, KeptWritten
        <4> QED
          BY <4>2 DEF c, f
      <3> QED
        BY <2>1, <3>1, <3>2, <3>5
    <2>4. ~Trimming' => Kept(file', buf', logged', d, top_line)
      <3> HAVE ~Trimming'
      <3>1. ~Trimming
        BY <1>10 DEF Trimming
      <3>2. Kept(file, buf, logged, d + 1, top_line)
        BY <1>1, <1>5, <3>1 DEF Intact
      <3> HIDE DEF d
      <3>3. Kept(file, buf \o x, logged \o x, d, top_line)
        BY <1>1, <1>2, <1>3, <1>5, <3>2, KeptWritten
      <3> QED
        BY <2>1, <3>3
    <2>5. Whole(file') /\ Whole(buf') /\ Lined(buf')
      BY <1>2, <1>6, <2>1
    <2>6. Intact'
      BY <1>1, <1>11, <2>2, <2>3, <2>4, <2>5 DEF Intact
    <2> QED
      BY <1>1, <1>9, <2>6 DEF LoggerInv, Going
  <1>13. CASE flushed
    <2> SUFFICES ASSUME ~raced' PROVE Intact'
      BY <1>1, <1>9 DEF LoggerInv, Going
    <2>1. file' = file \o (buf \o x) /\ buf' = <<>> /\ logged' = logged \o x
      BY <1>1, <1>7, <1>13
    <2>2. file' # file
      <3>1. Len(file') = Len(file) + Len(buf \o x) /\ Len(file) \in Nat
        BY <1>2, <1>6, <2>1, JoinPlaces
      <3>2. Len(file') # Len(file)
        BY <1>2, <1>3, <1>6, <3>1
      <3> QED
        BY <3>2
    <2>3. \A u \in Thread : ~Cutting(u)
      <3>1. ~\E u \in Thread \ {t} : pc[u] \in {"move", "truncate"}
        BY <1>1, <2>2 DEF Changes
      <3> QED
        BY <1>10, <3>1 DEF Cutting
    <2>4. ~Trimming /\ \A u \in Thread : ~Cutting(u)'
      BY <1>10, <2>3 DEF Trimming, Cutting
    <2>5. Kept(file, buf, logged, d + 1, top_line)
      BY <1>1, <1>5, <2>4 DEF Intact
    <2>6. Kept(file', buf', logged', d, top_line) /\ Whole(file')
      <3> HIDE DEF d
      <3>1. Kept(file, buf \o x, logged \o x, d, top_line)
        BY <1>1, <1>2, <1>3, <1>5, <2>5, KeptWritten
      <3>2. Kept(file \o (buf \o x), <<>>, logged \o x, d, top_line)
        BY <1>2, <1>6, <3>1, KeptFlushed
      <3> QED
        BY <2>1, <3>2 DEF Kept
    <2>7. Measured' /\ CutToFit' /\ Whole(buf') /\ Lined(buf')
      BY <2>1, <2>4, LinedNone DEF Measured, CutToFit, Cutting, Whole
    <2> QED
      BY <1>1, <1>11, <2>6, <2>7 DEF Intact
  <1> QED
    BY <1>12, <1>13

(* fclose flushes, while no thread is in vlog_message. *)
LEMMA OpenStep ==
    ASSUME LoggerAssumption, LoggerInv, NEW open, open_log_file(open)
    PROVE  LoggerInv'
  <1>1. /\ LoggerTypeOK /\ Going /\ Intact
        /\ \A t \in Thread : pc[t] = "idle"
        /\ file' = file \o buf /\ buf' = <<>>
        /\ UNCHANGED <<pc, size, cnt, lines, logged, raced, halved, ruined, max_line, top_line>>
    BY DEF LoggerInv, open_log_file, Quiet, Going, Flush, settings
  <1>2. /\ file \in Seq(Byte) /\ buf \in Seq(Byte) /\ logged \in Seq(Byte)
        /\ file \o buf \in Seq(Byte)
        /\ Whole(file) /\ Whole(buf) /\ Lined(buf)
    BY <1>1, JoinPlaces DEF LoggerTypeOK, Intact
  <1>3. LoggerTypeOK'
    BY <1>1, <1>2 DEF LoggerTypeOK
  <1>4. ~Trimming /\ \A t \in Thread : ~Cutting(t)'
    BY <1>1 DEF Trimming, Cutting
  <1>5. Cardinality(Due)' = Cardinality(Due)
    BY <1>1 DEF Due
  <1>6. Kept(file \o buf, <<>>, logged, Cardinality(Due), top_line)
    <2>1. Kept(file, buf, logged, Cardinality(Due), top_line)
      BY <1>1, <1>4 DEF Intact
    <2> QED
      BY <1>2, <2>1, KeptFlushed
  <1>7. Kept(file', buf', logged', Cardinality(Due)', top_line) /\ Whole(file') /\ Whole(buf')
    BY <1>1, <1>2, <1>5, <1>6, WholeJoin DEF Whole
  <1>8. Measured' /\ CutToFit'
    BY <1>4 DEF Measured, CutToFit, Cutting
  <1>9. Lined(buf') /\ \A n \in Heaviest : Weight(buf') <= n * Cardinality(Done)'
    <2>1. Cardinality(Done)' \in Nat
      <3>1. IsFiniteSet(Done')
        BY FS_Subset DEF LoggerAssumption, Done
      <3> QED
        BY <3>1, FS_CardinalityType
    <2>2. Lined(<<>>) /\ Weight(<<>>) = 0
      BY WeightNone, LinedNone
    <2>3. \A n \in Heaviest : n * Cardinality(Done)' \in Nat
      BY <2>1, HeaviestLine, Times
    <2> QED
      BY <1>1, <2>2, <2>3
  <1> QED
    BY <1>1, <1>3, <1>7, <1>8, <1>9 DEF LoggerInv, Going, Intact

(* set_max_log_level and set_max_log_line, while no thread is in vlog_message:  *)
(* the room does not become smaller.                                            *)
LEMMA SetStep ==
    ASSUME LoggerAssumption, LoggerInv, NEW level, NEW line \in Int, Set(level, line)
    PROVE  LoggerInv'
  <1>1. /\ LoggerTypeOK /\ Going /\ Intact
        /\ \A t \in Thread : pc[t] = "idle"
        /\ max_line' = line /\ top_line' = IF line > top_line THEN line ELSE top_line
        /\ UNCHANGED <<file, buf, pc, size, cnt, lines, logged, raced, halved, ruined>>
    BY DEF LoggerInv, Set, Quiet
  <1>2. /\ top_line \in Nat /\ top_line' \in Nat /\ top_line <= top_line' /\ line <= top_line'
        /\ default_line \in Nat /\ default_line <= top_line
    BY <1>1 DEF LoggerTypeOK, LoggerAssumption
  <1>3. LoggerTypeOK'
    <2>1. max_line' \in Int /\ max_line' <= top_line' /\ default_line <= top_line'
      BY <1>1, <1>2
    <2> QED
      BY <1>1, <1>2, <2>1 DEF LoggerTypeOK
  <1>4. ~Trimming /\ \A t \in Thread : ~Cutting(t)'
    BY <1>1 DEF Trimming, Cutting
  <1>5. Cardinality(Due)' = Cardinality(Due) /\ Cardinality(Done)' = Cardinality(Done)
    BY <1>1 DEF Due, Done
  <1>6. Kept(file, buf, logged, Cardinality(Due), top_line')
    <2> DEFINE d == Cardinality(Due)
               more == top_line'
    <2>1. d \in Nat /\ Kept(file, buf, logged, d, top_line)
      <3>1. IsFiniteSet(Due)
        BY FS_Subset DEF LoggerAssumption, Due
      <3> QED
        BY <1>1, <1>4, <3>1, FS_CardinalityType DEF Intact
    <2>2. file \in Seq(Byte) /\ buf \in Seq(Byte)
      BY <1>1 DEF LoggerTypeOK
    <2>3. more \in Nat /\ top_line <= more
      BY <1>2
    <2> HIDE DEF d, more
    <2>4. Kept(file, buf, logged, d, more)
      <3> SUFFICES ASSUME NEW n \in Heaviest
                   PROVE  Weight(file) + Weight(buf) + n * d <= more + n * Cardinality(Thread)
        BY <2>1 DEF Kept
      <3> DEFINE a == n * d
                 r == n * Cardinality(Thread)
      <3>1. n \in Nat /\ Cardinality(Thread) \in Nat
        BY HeaviestLine
      <3>2. a \in Nat /\ r \in Nat /\ Weight(file) \in Nat /\ Weight(buf) \in Nat
        BY <2>1, <2>2, <3>1, Times, WeightOf
      <3>3. Weight(file) + Weight(buf) + a <= top_line + r
        BY <2>1 DEF Kept
      <3> HIDE DEF a, r
      <3>4. Weight(file) + Weight(buf) + a <= more + r
        BY <1>2, <2>3, <3>2, <3>3
      <3> QED
        BY <3>4 DEF a, r
    <2> QED
      BY <2>4 DEF d, more
  <1>7. Measured' /\ CutToFit'
    BY <1>4 DEF Measured, CutToFit, Cutting
  <1>8. Intact'
    BY <1>1, <1>5, <1>6, <1>7 DEF Intact
  <1> QED
    BY <1>1, <1>3, <1>8 DEF LoggerInv, Going

(* The process has ended, and what is left is `s`, with nothing in the stream. *)
LEMMA EndStep ==
    ASSUME LoggerAssumption, LoggerTypeOK, Ends, ~ruined,
           file' \in Seq(Byte), logged' \in Seq(Byte), Kept(file', <<>>, logged', 0, top_line)
    PROVE  LoggerInv'
  <1>1. /\ pc' = [t \in Thread |-> "idle"] /\ buf' = <<>> /\ lines' = lines
        /\ max_line' = default_line /\ top_line' = top_line /\ ~ruined'
        /\ size' = [t \in Thread |-> 0] /\ cnt' = [t \in Thread |-> 0]
    BY DEF Ends
  <1>2. LoggerTypeOK'
    <2>1. default_line \in Int
      BY DEF LoggerAssumption
    <2> QED
      BY <1>1, <2>1 DEF LoggerTypeOK
  <1>3. Cardinality(Due)' = 0
    <2>1. Due' = {}
      BY <1>1 DEF Due
    <2> QED
      BY <2>1, FS_EmptySet
  <1>4. Measured' /\ CutToFit'
    BY <1>1 DEF Measured, CutToFit, Cutting
  <1>5. Kept(file', buf', logged', Cardinality(Due)', top_line) /\ Whole(file') /\ Whole(buf')
    BY <1>1, <1>3 DEF Kept, Whole
  <1>6. Lined(buf') /\ \A n \in Heaviest : Weight(buf') <= n * Cardinality(Done)'
    <2>1. Cardinality(Done)' \in Nat
      <3>1. IsFiniteSet(Done')
        BY FS_Subset DEF LoggerAssumption, Done
      <3> QED
        BY <3>1, FS_CardinalityType
    <2>2. Lined(<<>>) /\ Weight(<<>>) = 0
      BY WeightNone, LinedNone
    <2>3. \A n \in Heaviest : n * Cardinality(Done)' \in Nat
      BY <2>1, HeaviestLine, Times
    <2> QED
      BY <1>1, <2>2, <2>3
  <1> QED
    BY <1>1, <1>2, <1>4, <1>5, <1>6 DEF LoggerInv, Intact

(* A crash between the two steps of a cut is excepted. *)
LEMMA HalvedStep ==
    ASSUME LoggerAssumption, LoggerTypeOK, Ends, ~ruined, halved',
           file' \in Seq(Byte), logged' \in Seq(Byte)
    PROVE  LoggerInv'
  <1>1. LoggerTypeOK'
    <2>1. default_line \in Int
      BY DEF LoggerAssumption
    <2> QED
      BY <2>1 DEF Ends, LoggerTypeOK
  <1> QED
    BY <1>1 DEF LoggerInv, Going, Ends

LEMMA KilledStep ==
    ASSUME LoggerAssumption, LoggerInv, Killed
    PROVE  LoggerInv'
  <1> DEFINE k == SubSeq(logged, 1, Len(logged) - Len(buf))
  <1>1. /\ LoggerTypeOK /\ Going /\ ~ruined /\ Intact /\ Ends
        /\ file' = file /\ logged' = k /\ (halved' <=> Trimming)
    BY DEF LoggerInv, Killed, Going, Ends, Trimming
  <1>2. file \in Seq(Byte) /\ buf \in Seq(Byte) /\ logged \in Seq(Byte)
    BY <1>1 DEF LoggerTypeOK
  <1>3. CASE Trimming
    <2>1. k \in Seq(Byte)
      <3>1. Len(logged) \in Nat /\ Len(buf) \in Nat /\ \A i \in 1..Len(logged) : logged[i] \in Byte
        BY <1>2, LenProperties
      <3>2. Len(logged) - Len(buf) \in Int /\ Len(logged) - Len(buf) <= Len(logged)
        BY <3>1
      <3>3. \A i \in 1..Len(logged) - Len(buf) : logged[i] \in Byte
        BY <3>1, <3>2
      <3> QED
        BY <3>2, <3>3, SubSeqProperties
    <2> QED
      BY <1>1, <1>2, <1>3, <2>1, HalvedStep
  <1>4. CASE ~Trimming
    <2> DEFINE d == Cardinality(Due)
    <2>1. d \in Nat /\ top_line \in Nat /\ top_line' = top_line /\ Kept(file, buf, logged, d, top_line)
      <3>1. IsFiniteSet(Due)
        BY FS_Subset DEF LoggerAssumption, Due
      <3> QED
        BY <1>1, <1>4, <3>1, FS_CardinalityType DEF Intact, LoggerTypeOK, Ends
    <2> HIDE DEF d
    <2>2. k \in Seq(Byte) /\ Kept(file, <<>>, k, 0, top_line)
      BY <1>2, <2>1, KeptLost
    <2> QED
      BY <1>1, <1>2, <2>1, <2>2, EndStep
  <1> QED
    BY <1>3, <1>4

(* exit(1) *)
LEMMA ExitStep ==
    ASSUME LoggerAssumption, LoggerInv, NEW t \in Thread, Exit(t)
    PROVE  LoggerInv'
  <1>1. /\ LoggerTypeOK /\ Going /\ ~ruined /\ Intact /\ Ends
        /\ file' = file \o buf /\ logged' = logged /\ (halved' <=> Trimming)
    BY DEF LoggerInv, Exit, Going, Ends, Trimming
  <1>2. /\ file \in Seq(Byte) /\ buf \in Seq(Byte) /\ logged \in Seq(Byte)
        /\ file \o buf \in Seq(Byte) /\ Whole(buf) /\ Lined(buf)
    BY <1>1, JoinPlaces DEF LoggerTypeOK, Intact
  <1>3. CASE Trimming
    BY <1>1, <1>2, <1>3, HalvedStep
  <1>4. CASE ~Trimming
    <2> DEFINE d == Cardinality(Due)
               w == file \o buf
    <2>1. d \in Nat /\ top_line \in Nat /\ top_line' = top_line /\ Kept(file, buf, logged, d, top_line)
      <3>1. IsFiniteSet(Due)
        BY FS_Subset DEF LoggerAssumption, Due
      <3> QED
        BY <1>1, <1>4, <3>1, FS_CardinalityType DEF Intact, LoggerTypeOK, Ends
    <2> HIDE DEF d
    <2>2. Kept(w, <<>>, logged, d, top_line)
      BY <1>2, <2>1, KeptFlushed
    <2> HIDE DEF w
    <2>3. Kept(w, <<>>, logged, 0, top_line)
      <3>1. ASSUME NEW n \in Heaviest
            PROVE  Weight(w) + Weight(<<>>) + n * 0 <= top_line + n * Cardinality(Thread)
        <4> DEFINE a == n * d
                   r == n * Cardinality(Thread)
        <4>1. n \in Nat /\ Cardinality(Thread) \in Nat /\ w \in Seq(Byte)
          BY <1>2, HeaviestLine DEF w
        <4>2. a \in Nat /\ r \in Nat /\ n * 0 = 0 /\ Weight(w) \in Nat /\ Weight(<<>>) = 0
          BY <2>1, <4>1, Times, WeightOf, WeightNone
        <4>3. Weight(w) + Weight(<<>>) + a <= top_line + r
          BY <2>2 DEF Kept
        <4> HIDE DEF a, r
        <4>4. Weight(w) + Weight(<<>>) + 0 <= top_line + r
          BY <2>1, <4>1, <4>2, <4>3
        <4> QED
          BY <4>2, <4>4 DEF r
      <3> QED
        BY <2>2, <3>1 DEF Kept
    <2> QED
      BY <1>1, <1>2, <2>1, <2>3, EndStep DEF w
  <1> QED
    BY <1>3, <1>4

LEMMA LoggerInvInit ==
    ASSUME LoggerAssumption, LoggerInit
    PROVE  LoggerInv
  <1>1. LoggerTypeOK
    BY DEF LoggerInit, LoggerTypeOK, LoggerAssumption
  <1>2. Measured /\ CutToFit /\ Whole(file) /\ Whole(buf) /\ Lined(file) /\ Lined(buf)
    BY LinedNone DEF LoggerInit, Measured, CutToFit, Cutting, Whole
  <1>3. Cardinality(Due) = 0 /\ Cardinality(Done) \in Nat
    <2>1. Due = {} /\ IsFiniteSet(Done)
      BY FS_Subset DEF LoggerAssumption, LoggerInit, Due, Done
    <2> QED
      BY <2>1, FS_EmptySet, FS_CardinalityType
  <1>4. \A n \in Heaviest : /\ n \in Nat /\ n * 0 = 0 /\ n * Cardinality(Thread) \in Nat
                           /\ n * Cardinality(Done) \in Nat
    BY <1>3, HeaviestLine, Times
  <1>5. Latest(<<>> \o <<>>, <<>>)
    <2>1. <<>> \o <<>> = <<>> /\ Len(<<>>) = 0
      OBVIOUS
    <2> QED
      BY <2>1 DEF Latest
  <1>6. Kept(file, buf, logged, Cardinality(Due), top_line)
    <2>1. top_line \in Nat /\ Weight(<<>>) = 0
      BY <1>1, WeightNone DEF LoggerTypeOK
    <2> QED
      BY <1>2, <1>3, <1>4, <1>5, <2>1 DEF LoggerInit, Kept
  <1>7. \A n \in Heaviest : Weight(buf) <= n * Cardinality(Done)
    BY <1>4, WeightNone DEF LoggerInit
  <1> QED
    BY <1>1, <1>2, <1>6, <1>7 DEF LoggerInit, LoggerInv, Intact

LEMMA LoggerInvStep ==
    ASSUME LoggerAssumption, LoggerInv, [LoggerNext]_loggerVars
    PROVE  LoggerInv'
  <1>1. ASSUME NEW t \in Thread, NEW level \in Level, vlog_message(t, level) PROVE LoggerInv'
    BY <1>1, BeginStep
  <1>2. ASSUME NEW t \in Thread, Stat(t) \/ Move(t) \/ Ruin(t) \/ Truncate(t) \/ Seek(t) \/ Exit(t)
        PROVE  LoggerInv'
    BY <1>2, StatStep, MoveStep, RuinStep, TruncateStep, SeekStep, ExitStep
  <1>3. ASSUME NEW t \in Thread, NEW n \in Lens, NEW flushed \in BOOLEAN, Write(t, n, flushed)
        PROVE  LoggerInv'
    BY <1>3, WriteStep
  <1>4. ASSUME NEW open \in BOOLEAN, open_log_file(open) PROVE LoggerInv'
    BY <1>4, OpenStep
  <1>5. CASE Killed
    BY <1>5, KilledStep
  <1>6. ASSUME NEW level \in Level, set_max_log_level(level) PROVE LoggerInv'
    <2>1. max_line \in Int
      BY DEF LoggerInv, LoggerTypeOK
    <2> QED
      BY <1>6, <2>1, SetStep DEF set_max_log_level
  <1>7. ASSUME NEW line \in Bounds, set_max_log_line(line) PROVE LoggerInv'
    <2>1. line \in Int
      BY DEF LoggerAssumption
    <2> QED
      BY <1>7, <2>1, SetStep DEF set_max_log_line
  <1>8. CASE UNCHANGED loggerVars
    <2>1. UNCHANGED <<file, buf, pc, size, cnt, lines, logged, raced, halved, ruined, max_line, top_line>>
      BY <1>8 DEF loggerVars, settings
    <2> QED
      BY <2>1 DEF LoggerInv, LoggerTypeOK, Going, Intact, Measured, CutToFit, Trimming, Due, Done,
                  Cutting, Alone
  <1> QED
    BY <1>1, <1>2, <1>3, <1>4, <1>5, <1>6, <1>7, <1>8 DEF LoggerNext

(* The inductive invariant of the log, for any number of threads, any lengths  *)
(* of lines, and any bounds that the file is given in turn.                    *)
THEOREM LoggerInductive ==
    ASSUME LoggerAssumption
    PROVE  LoggerSpec => []LoggerInv
  <1>1. LoggerInit => LoggerInv
    BY LoggerInvInit
  <1>2. LoggerInv /\ [LoggerNext]_loggerVars => LoggerInv'
    BY LoggerInvStep
  <1> QED
    BY <1>1, <1>2, PTL DEF LoggerSpec

(* writeback_file cuts off whole lines, the oldest, and enough of them: the   *)
(* file and the stream hold the latest lines, within the largest bound and a  *)
(* line of each thread, what is behind the first del_cnt + 1 bytes of a line  *)
(* not counted; and only a bound below del_cnt makes a count negative.        *)
THEOREM KeptInLog ==
    ASSUME LoggerAssumption
    PROVE  LoggerSpec => []LogKept
  <1>1. LoggerInv => LogKept
    <2> SUFFICES ASSUME LoggerInv, Sound PROVE LatestLines /\ SizeBounded
      BY DEF LogKept, LoggerInv
    <2> DEFINE w == file \o buf
               d == Cardinality(Due)
    <2>1. /\ Kept(file, buf, logged, d, top_line) /\ top_line \in Nat
          /\ file \in Seq(Byte) /\ buf \in Seq(Byte) /\ logged \in Seq(Byte)
      BY DEF Sound, LoggerInv, LoggerTypeOK, Intact
    <2>2. /\ w \in Seq(Byte) /\ Weight(w) = Weight(file) + Weight(buf)
          /\ Weight(file) \in Nat /\ Weight(buf) \in Nat
      BY <2>1, JoinPlaces, WeightJoin, WeightOf
    <2>3. Latest(w, logged)
      BY <2>1 DEF Kept
    <2> HIDE DEF w
    <2>4. /\ IsSuffix(w, logged)
          /\ LET gone == Len(logged) - Len(w) IN gone > 0 => logged[gone][3]
      BY <2>1, <2>2, <2>3, LatestIsSuffix
    <2>5. LatestLines
      BY <2>4 DEF LatestLines, w
    <2>6. ASSUME NEW n \in Heaviest PROVE Weight(w) <= top_line + n * Cardinality(Thread)
      <3> DEFINE a == n * d
                 r == n * Cardinality(Thread)
      <3>1. IsFiniteSet(Due)
        BY FS_Subset DEF LoggerAssumption, Due
      <3>2. d \in Nat
        BY <3>1, FS_CardinalityType
      <3>3. n \in Nat /\ Cardinality(Thread) \in Nat
        BY HeaviestLine
      <3> HIDE DEF d
      <3>4. a \in Nat /\ r \in Nat
        BY <3>2, <3>3, Times
      <3>5. Weight(file) + Weight(buf) + a <= top_line + r
        BY <2>1 DEF Kept
      <3> HIDE DEF a, r
      <3>6. Weight(w) <= top_line + r
        BY <2>1, <2>2, <3>3, <3>4, <3>5
      <3> QED
        BY <3>6 DEF r
    <2> QED
      BY <2>5, <2>6 DEF SizeBounded, w
  <1> QED
    BY <1>1, LoggerInductive, PTL

-----------------------------------------------------------------------------
(* Tlv *)

Digit == 0..Base - 1

LEMMA Bases ==
    ASSUME TlvAssumption
    PROVE  /\ Base \in Nat /\ Base >= 3 /\ Limit \in Nat /\ Limit >= 9 /\ Limit = Base * Base
           /\ Base \in Nat \ {0} /\ Limit \in Nat \ {0}
           /\ 0 \in Digit /\ Id \subseteq 0..Limit - 1
  <1>1. Base \in Nat /\ Base >= 3 /\ Limit = Base * Base /\ Id \subseteq 0..Limit - 1
    BY DEF TlvAssumption, Limit
  <1>2. Limit \in Nat /\ Limit >= 9
    <2>1. Base * Base >= 3 * Base /\ Base * Base \in Nat
      BY <1>1
    <2> QED
      BY <1>1, <2>1
  <1>3. 0 \in Digit
    BY <1>1 DEF Digit
  <1> QED
    BY <1>1, <1>2, <1>3

(* A number of two digits of any size, and back. *)
LEMMA TwoDigits ==
    ASSUME NEW b \in Nat \ {0}, NEW n \in 0..(b * b) - 1
    PROVE  /\ n \div b \in 0..b - 1 /\ n % b \in 0..b - 1
           /\ (n \div b) * b + (n % b) = n
  <1>1. n \in Nat /\ n < b * b /\ b * b \in Nat
    OBVIOUS
  <1>2. n \div b \in Nat /\ (n \div b) * b <= n /\ n % b \in 0..b - 1
    BY <1>1, Quotient, Remainder
  <1>3. (n \div b) * b + (n % b) = n
    BY <1>1
  <1> DEFINE z == n \div b
  <1>4. z < b
    <2> SUFFICES ASSUME z >= b PROVE FALSE
      BY <1>2
    <2>1. PICK e \in Nat : z = b + e
      <3>1. z - b \in Nat /\ z = b + (z - b)
        BY <1>2
      <3> QED
        BY <3>1
    <2>2. z * b = b * b + e * b /\ e * b \in Nat
      <3> HIDE DEF z
      <3> QED
        BY <2>1
    <2> QED
      BY <1>1, <1>2, <2>2
  <1> QED
    BY <1>2, <1>3, <1>4

(* The places of sequences of digits behind each other, and of a part of one. *)
LEMMA DigitsJoin ==
    ASSUME NEW a \in Seq(Digit), NEW b \in Seq(Digit)
    PROVE  /\ a \o b \in Seq(Digit) /\ Len(a \o b) = Len(a) + Len(b)
           /\ Len(a) \in Nat /\ Len(b) \in Nat
           /\ \A i \in 1..Len(a) : (a \o b)[i] = a[i]
           /\ \A i \in 1..Len(b) : (a \o b)[Len(a) + i] = b[i]
           /\ \A i \in 1..Len(a \o b) : i \in 1..Len(a) \/ i - Len(a) \in 1..Len(b)
  BY ConcatPlaces

LEMMA DigitsPart ==
    ASSUME NEW s \in Seq(Digit), NEW m \in Nat \ {0}, NEW n \in 0..Len(s), m <= n + 1
    PROVE  LET r == SubSeq(s, m, n)
           IN  /\ r \in Seq(Digit) /\ Len(r) = n - m + 1
               /\ \A i \in 1..Len(r) : r[i] = s[m + i - 1] /\ m + i - 1 \in 1..Len(s)
  BY SubSeqPlaces

LEMMA WordIs ==
    ASSUME TlvAssumption, NEW n \in 0..Limit - 1
    PROVE  /\ Word(n) \in Seq(Digit) /\ Len(Word(n)) = 2
           /\ \A w : w[1] = Word(n)[1] /\ w[2] = Word(n)[2] => WordAt(w) = n
  <1>1. n \div Base \in Digit /\ n % Base \in Digit /\ (n \div Base) * Base + (n % Base) = n
    <2>1. Base \in Nat \ {0} /\ n \in 0..(Base * Base) - 1
      BY Bases
    <2> QED
      BY <2>1, TwoDigits, Zenon DEF Digit
  <1>2. Word(n)[1] = n \div Base /\ Word(n)[2] = n % Base
    BY DEF Word
  <1>3. \A w : w[1] = Word(n)[1] /\ w[2] = Word(n)[2] => WordAt(w) = n
    BY <1>1, <1>2 DEF WordAt
  <1> QED
    BY <1>1, <1>3 DEF Word

LEMMA DwordIs ==
    ASSUME TlvAssumption, NEW n \in 0..(Limit * Limit) - 1
    PROVE  Dword(n) \in Seq(Digit) /\ Len(Dword(n)) = 4 /\ DwordAt(Dword(n)) = n
  <1> DEFINE h == n \div Limit
             l == n % Limit
             d == Word(h) \o Word(l)
  <1>1. h \in 0..Limit - 1 /\ l \in 0..Limit - 1 /\ h * Limit + l = n
    BY Bases, TwoDigits, Zenon
  <1>2. Dword(n) = d
    BY DEF Dword
  <1> HIDE DEF h, l
  <1>3. /\ Word(h) \in Seq(Digit) /\ Len(Word(h)) = 2
        /\ Word(l) \in Seq(Digit) /\ Len(Word(l)) = 2
    BY <1>1, WordIs
  <1> HIDE DEF d
  <1>4. /\ d \in Seq(Digit) /\ Len(d) = 4
        /\ d[1] = Word(h)[1] /\ d[2] = Word(h)[2] /\ d[3] = Word(l)[1] /\ d[4] = Word(l)[2]
    <2>1. /\ d \in Seq(Digit) /\ Len(d) = Len(Word(h)) + Len(Word(l))
          /\ \A i \in 1..Len(Word(h)) : d[i] = Word(h)[i]
          /\ \A i \in 1..Len(Word(l)) : d[Len(Word(h)) + i] = Word(l)[i]
      BY <1>3, DigitsJoin DEF d
    <2>2. d[2 + 1] = Word(l)[1] /\ d[2 + 2] = Word(l)[2]
      BY <1>3, <2>1
    <2> QED
      BY <1>3, <2>1, <2>2
  <1>5. SubSeq(d, 3, 4)[1] = d[3] /\ SubSeq(d, 3, 4)[2] = d[4]
    BY <1>4
  <1>6. WordAt(d) = h /\ WordAt(SubSeq(d, 3, 4)) = l
    BY <1>1, <1>4, <1>5, WordIs
  <1> QED
    BY <1>1, <1>2, <1>4, <1>6 DEF DwordAt

LEMMA MessageIs ==
    ASSUME NEW m \in Message
    PROVE  m.id \in Id /\ m.type \in Types /\ m.val \in Value[m.type]
  BY DEF Message

(* The payload of a message has as many bytes as are taken, and is read as what was sent. *)
ReadsAs(type, len, pl, val) ==
    /\ len \in 0..Limit - 1 /\ pl \in Seq(Digit) /\ Len(pl) = Taken(type, len)
    /\ ValueAt(type, pl) = val

LEMMA NumbersRead ==
    ASSUME TlvAssumption, NEW type \in {"null", "byte", "word", "dword"}, NEW v \in Value[type]
    PROVE  LET len == InitLen(type, v)
           IN  ReadsAs(type, len, Payload(type, len, v), IF type = "null" THEN <<>> ELSE v)
  <1> DEFINE len == InitLen(type, v)
             pl == Payload(type, len, v)
  <1>1. Limit \in Nat /\ Limit >= 9
    BY Bases
  <1>2. CASE type = "null"
    <2>1. len = 0 /\ pl = <<>> /\ Taken(type, len) = 0 /\ ValueAt(type, pl) = <<>>
      BY <1>2 DEF InitLen, Payload, Taken, ValueAt
    <2> HIDE DEF len, pl
    <2>2. len \in 0..Limit - 1 /\ pl \in Seq(Digit) /\ Len(pl) = 0
      BY <1>1, <2>1
    <2> QED
      BY <1>2, <2>1, <2>2 DEF ReadsAs, len, pl
  <1>3. CASE type = "byte"
    <2>1. v \in Digit
      BY <1>3 DEF TlvAssumption, Digit
    <2>2. len = 1 /\ pl = <<v>> /\ Taken(type, len) = 1 /\ ValueAt(type, pl) = pl[1]
      BY <1>3 DEF InitLen, Payload, Taken, ValueAt
    <2> HIDE DEF len, pl
    <2>3. len \in 0..Limit - 1 /\ pl \in Seq(Digit) /\ Len(pl) = 1 /\ pl[1] = v
      BY <1>1, <2>1, <2>2
    <2> QED
      BY <1>3, <2>2, <2>3 DEF ReadsAs, len, pl
  <1>4. CASE type = "word"
    <2>1. v \in 0..Limit - 1
      BY <1>4 DEF TlvAssumption
    <2>2. len = 2 /\ pl = Word(v) /\ Taken(type, len) = 2 /\ ValueAt(type, pl) = WordAt(pl)
      BY <1>4 DEF InitLen, Payload, Taken, ValueAt
    <2> HIDE DEF len, pl
    <2>3. len \in 0..Limit - 1
      BY <1>1, <2>2
    <2>4. pl \in Seq(Digit) /\ Len(pl) = 2 /\ WordAt(pl) = v
      BY <2>1, <2>2, WordIs
    <2> QED
      BY <1>4, <2>2, <2>3, <2>4 DEF ReadsAs, len, pl
  <1>5. CASE type = "dword"
    <2>1. v \in 0..(Limit * Limit) - 1
      BY <1>5 DEF TlvAssumption
    <2>2. len = 4 /\ pl = Dword(v) /\ Taken(type, len) = 4 /\ ValueAt(type, pl) = DwordAt(pl)
      BY <1>5 DEF InitLen, Payload, Taken, ValueAt
    <2> HIDE DEF len, pl
    <2>3. len \in 0..Limit - 1
      BY <1>1, <2>2
    <2>4. pl \in Seq(Digit) /\ Len(pl) = 4 /\ DwordAt(pl) = v
      BY <2>1, <2>2, DwordIs
    <2> QED
      BY <1>5, <2>2, <2>3, <2>4 DEF ReadsAs, len, pl
  <1> QED
    BY <1>2, <1>3, <1>4, <1>5

LEMMA BytesRead ==
    ASSUME TlvAssumption, NEW type \in {"str", "buf"}, NEW v \in Value[type]
    PROVE  LET len == InitLen(type, v)
           IN  ReadsAs(type, len, Payload(type, len, v), SubSeq(v, 1, Len(v) % Limit))
  <1> DEFINE len == InitLen(type, v)
             pl == Payload(type, len, v)
             r == SubSeq(v, 1, len)
  <1>1. v \in Seq(Digit) /\ Len(v) \in Nat
    <2>1. v \in Seq(Digit)
      BY DEF TlvAssumption, Digit
    <2> QED
      BY <2>1, LenProperties
  <1>2. len = Len(v) % Limit /\ pl = r /\ Taken(type, len) = len
    BY DEF InitLen, Payload, Taken
  <1>3. Limit \in Nat \ {0}
    BY Bases
  <1>4. (Len(v) % Limit) \in 0..Limit - 1
    BY <1>1, <1>3, Remainder, Zenon
  <1>5. Len(v) % Limit <= Len(v)
    BY <1>1, <1>3
  <1> HIDE DEF len, pl, r
  <1>6. len \in 0..Limit - 1 /\ len \in 0..Len(v) /\ 1 <= len + 1
    BY <1>1, <1>2, <1>3, <1>4, <1>5
  <1>7. r \in Seq(Digit) /\ Len(r) = len /\ \A i \in 1..len : r[i] = v[i]
    <2>1. r \in Seq(Digit) /\ Len(r) = len - 1 + 1 /\ \A i \in 1..Len(r) : r[i] = v[1 + i - 1]
      BY <1>1, <1>6, DigitsPart DEF r
    <2> QED
      BY <1>6, <2>1
  <1>8. ValueAt(type, pl) = pl
    <2>1. CASE type = "buf"
      BY <2>1 DEF ValueAt
    <2>2. CASE type = "str"
      <3>1. ValueAt(type, pl) = LET i == SelectInSeq(pl, LAMBDA c : c = 0)
                                IN IF i = 0 THEN pl ELSE SubSeq(pl, 1, i - 1)
        BY <2>2 DEF ValueAt
      <3>2. \A i \in 1..Len(v) : v[i] # 0
        BY <2>2 DEF TlvAssumption, Contains
      <3>3. \A i \in 1..Len(pl) : pl[i] # 0
        BY <1>2, <1>6, <1>7, <3>2
      <3>4. SelectInSeq(pl, LAMBDA c : c = 0) = 0
        <4>1. {i \in 1..Len(pl) : pl[i] = 0} = {}
          BY <3>3
        <4> QED
          BY <4>1 DEF SelectInSeq
      <3> QED
        BY <3>1, <3>4
    <2> QED
      BY <2>1, <2>2
  <1>9. r = SubSeq(v, 1, Len(v) % Limit)
    BY <1>2 DEF r
  <1>10. ReadsAs(type, len, pl, SubSeq(v, 1, Len(v) % Limit))
    BY <1>2, <1>6, <1>7, <1>8, <1>9 DEF ReadsAs
  <1> QED
    BY <1>10 DEF len, pl

LEMMA PayloadIs ==
    ASSUME TlvAssumption, NEW m \in Message
    PROVE  LET len == InitLen(m.type, m.val)
           IN  ReadsAs(m.type, len, Payload(m.type, len, m.val), AsSent(m))
  <1>1. m.type \in Types /\ m.val \in Value[m.type]
    BY MessageIs
  <1>2. CASE m.type \in {"null", "byte", "word", "dword"}
    <2>1. AsSent(m) = IF m.type = "null" THEN <<>> ELSE m.val
      BY <1>2 DEF AsSent
    <2> QED
      BY <1>1, <1>2, <2>1, NumbersRead
  <1>3. CASE m.type \in {"str", "buf"}
    <2>1. AsSent(m) = SubSeq(m.val, 1, Len(m.val) % Limit)
      BY <1>3 DEF AsSent
    <2> QED
      BY <1>1, <1>3, <2>1, BytesRead
  <1> QED
    BY <1>1, <1>2, <1>3 DEF Types

LEMMA CodedIs ==
    ASSUME TlvAssumption, NEW m \in Message
    PROVE  LET len == InitLen(m.type, m.val)
               pl == Payload(m.type, len, m.val)
               c == Coded(m)
           IN  /\ c \in Seq(Digit) /\ Len(c) = 4 + Len(pl) /\ Len(pl) \in Nat
               /\ c[1] = Word(m.id)[1] /\ c[2] = Word(m.id)[2]
               /\ c[3] = Word(len)[1] /\ c[4] = Word(len)[2]
               /\ \A i \in 1..Len(pl) : c[4 + i] = pl[i]
  <1> DEFINE len == InitLen(m.type, m.val)
             pl == Payload(m.type, len, m.val)
             a == Word(m.id)
             b == Word(len)
             h == a \o b
             c == h \o pl
  <1>1. c = Coded(m)
    BY DEF Coded
  <1>2. /\ a \in Seq(Digit) /\ Len(a) = 2 /\ b \in Seq(Digit) /\ Len(b) = 2
        /\ pl \in Seq(Digit) /\ Len(pl) \in Nat
    <2>1. len \in 0..Limit - 1 /\ pl \in Seq(Digit)
      BY PayloadIs DEF ReadsAs
    <2>2. m.id \in 0..Limit - 1
      BY MessageIs, Bases
    <2> HIDE DEF len, pl
    <2> QED
      BY <2>1, <2>2, WordIs, LenProperties
  <1> HIDE DEF a, b, pl, h, c
  <1>3. /\ h \in Seq(Digit) /\ Len(h) = 4
        /\ h[1] = a[1] /\ h[2] = a[2] /\ h[3] = b[1] /\ h[4] = b[2]
    <2>1. /\ h \in Seq(Digit) /\ Len(h) = Len(a) + Len(b)
          /\ \A i \in 1..Len(a) : h[i] = a[i]
          /\ \A i \in 1..Len(b) : h[Len(a) + i] = b[i]
      BY <1>2, DigitsJoin DEF h
    <2>2. h[2 + 1] = b[1] /\ h[2 + 2] = b[2]
      BY <1>2, <2>1
    <2> QED
      BY <1>2, <2>1, <2>2
  <1>4. /\ c \in Seq(Digit) /\ Len(c) = Len(h) + Len(pl)
        /\ \A i \in 1..Len(h) : c[i] = h[i]
        /\ \A i \in 1..Len(pl) : c[Len(h) + i] = pl[i]
    BY <1>2, <1>3, DigitsJoin DEF c
  <1>5. /\ c \in Seq(Digit) /\ Len(c) = 4 + Len(pl) /\ Len(pl) \in Nat
        /\ c[1] = a[1] /\ c[2] = a[2] /\ c[3] = b[1] /\ c[4] = b[2]
        /\ \A i \in 1..Len(pl) : c[4 + i] = pl[i]
    BY <1>2, <1>3, <1>4
  <1> QED
    BY <1>1, <1>5 DEF a, b, pl

LEMMA CodedIsLong ==
    ASSUME TlvAssumption, NEW m \in Message
    PROVE  Len(Coded(m)) \in Nat /\ Len(Coded(m)) >= 4
  BY CodedIs

(* What tlv_pl_get reads of bytes that begin with those of a message. *)
LEMMA FirstMessage ==
    ASSUME TlvAssumption, NEW m \in Message, NEW w \in Seq(Digit), NEW n \in 0..Len(w),
           SubSeq(w, 1, n) = Coded(m)
    PROVE  LET a == SubSeq(w, 5, Len(w))
               t == Taken(m.type, InitLen(m.type, m.val))
           IN  /\ WordAt(w) = m.id /\ WordAt(SubSeq(w, 3, 4)) = InitLen(m.type, m.val)
               /\ Len(a) >= t
               /\ ValueAt(m.type, SubSeq(a, 1, t)) = AsSent(m)
               /\ SubSeq(a, t + 1, Len(a)) = SubSeq(w, n + 1, Len(w))
               /\ n >= 4
  <1> DEFINE len == InitLen(m.type, m.val)
             pl == Payload(m.type, len, m.val)
             t == Taken(m.type, len)
             a == SubSeq(w, 5, Len(w))
             c == Coded(m)
  <1>1. /\ len \in 0..Limit - 1 /\ pl \in Seq(Digit) /\ Len(pl) = t /\ ValueAt(m.type, pl) = AsSent(m)
    BY PayloadIs DEF ReadsAs
  <1>2. /\ c \in Seq(Digit) /\ Len(c) = 4 + t /\ t \in Nat
        /\ c[1] = Word(m.id)[1] /\ c[2] = Word(m.id)[2]
        /\ c[3] = Word(len)[1] /\ c[4] = Word(len)[2]
        /\ \A i \in 1..t : c[4 + i] = pl[i]
    BY <1>1, CodedIs
  <1>3. m.id \in 0..Limit - 1
    BY MessageIs, Bases
  <1> HIDE DEF len, pl, t, c
  <1>4. Len(w) \in Nat /\ n = 4 + t /\ n <= Len(w) /\ \A i \in 1..n : w[i] = c[i]
    <2>1. Len(w) \in Nat
      BY LenProperties
    <2>2. /\ Len(SubSeq(w, 1, n)) = n - 1 + 1
          /\ \A i \in 1..Len(SubSeq(w, 1, n)) : SubSeq(w, 1, n)[i] = w[1 + i - 1]
      BY <2>1, DigitsPart
    <2>3. c = SubSeq(w, 1, n)
      BY DEF c
    <2>4. n = Len(c)
      BY <2>1, <2>2, <2>3
    <2>5. \A i \in 1..n : c[i] = w[1 + i - 1]
      BY <2>2, <2>3, <2>4
    <2>6. n = 4 + t
      BY <1>2, <2>4
    <2>7. ASSUME NEW i \in 1..n PROVE w[i] = c[i]
      <3>1. 1 + i - 1 = i
        OBVIOUS
      <3> QED
        BY <2>5, <3>1
    <2> QED
      BY <2>1, <2>6, <2>7
  <1>5. WordAt(w) = m.id
    BY <1>2, <1>3, <1>4, WordIs
  <1>6. WordAt(SubSeq(w, 3, 4)) = len
    <2>1. SubSeq(w, 3, 4)[1] = w[3] /\ SubSeq(w, 3, 4)[2] = w[4]
      BY <1>2, <1>4
    <2>2. 3 \in 1..n /\ 4 \in 1..n
      BY <1>2, <1>4
    <2>3. SubSeq(w, 3, 4)[1] = Word(len)[1] /\ SubSeq(w, 3, 4)[2] = Word(len)[2]
      BY <1>2, <1>4, <2>1, <2>2
    <2> QED
      BY <1>1, <2>3, WordIs
  <1>7. a \in Seq(Digit) /\ Len(a) = Len(w) - 4 /\ \A i \in 1..Len(a) : a[i] = w[4 + i]
    <2>1. 5 \in Nat \ {0} /\ Len(w) \in 0..Len(w) /\ 5 <= Len(w) + 1
      BY <1>2, <1>4
    <2>2. /\ a \in Seq(Digit) /\ Len(a) = Len(w) - 5 + 1
          /\ \A i \in 1..Len(a) : a[i] = w[5 + i - 1]
      BY <2>1, DigitsPart
    <2> HIDE DEF a
    <2>3. ASSUME NEW i \in 1..Len(a) PROVE a[i] = w[4 + i]
      <3>1. 5 + i - 1 = 4 + i
        OBVIOUS
      <3> QED
        BY <2>2, <3>1
    <2>4. Len(a) = Len(w) - 4
      BY <1>4, <2>2
    <2> QED
      BY <2>2, <2>3, <2>4
  <1> HIDE DEF a
  <1>8. Len(a) >= t /\ Len(a) \in Nat
    BY <1>2, <1>4, <1>7
  <1>9. SubSeq(a, 1, t) = pl
    <2> DEFINE r == SubSeq(a, 1, t)
    <2>1. t \in 0..Len(a) /\ 1 <= t + 1
      BY <1>2, <1>8
    <2>2. r \in Seq(Digit) /\ Len(r) = t - 1 + 1 /\ \A i \in 1..Len(r) : r[i] = a[1 + i - 1]
      BY <1>7, <2>1, DigitsPart
    <2> HIDE DEF r
    <2>3. Len(r) = t
      BY <1>2, <2>2
    <2>4. ASSUME NEW i \in 1..t PROVE r[i] = pl[i]
      <3>1. r[i] = a[i] /\ i \in 1..Len(a)
        BY <1>2, <1>8, <2>2, <2>3
      <3>2. a[i] = w[4 + i] /\ 4 + i \in 1..n
        BY <1>2, <1>4, <1>7, <3>1
      <3> QED
        BY <1>2, <1>4, <3>1, <3>2
    <2>5. r = pl
      BY <1>1, <2>2, <2>3, <2>4, SeqEqual
    <2> QED
      BY <2>5 DEF r
  <1>10. SubSeq(a, t + 1, Len(a)) = SubSeq(w, n + 1, Len(w))
    <2> DEFINE r == SubSeq(a, t + 1, Len(a))
               s == SubSeq(w, n + 1, Len(w))
    <2>1. /\ t + 1 \in Nat \ {0} /\ Len(a) \in 0..Len(a) /\ t + 1 <= Len(a) + 1
          /\ n + 1 \in Nat \ {0} /\ Len(w) \in 0..Len(w) /\ n + 1 <= Len(w) + 1
      BY <1>2, <1>4, <1>8
    <2>2. r \in Seq(Digit) /\ Len(r) = Len(a) - (t + 1) + 1
          /\ \A i \in 1..Len(r) : r[i] = a[(t + 1) + i - 1] /\ (t + 1) + i - 1 \in 1..Len(a)
      BY <1>7, <2>1, DigitsPart
    <2>3. s \in Seq(Digit) /\ Len(s) = Len(w) - (n + 1) + 1
          /\ \A i \in 1..Len(s) : s[i] = w[(n + 1) + i - 1]
      BY <2>1, DigitsPart
    <2> HIDE DEF r, s
    <2>4. Len(r) = Len(s)
      BY <1>2, <1>4, <1>7, <2>2, <2>3
    <2>5. ASSUME NEW i \in 1..Len(r) PROVE r[i] = s[i]
      <3>1. r[i] = a[(t + 1) + i - 1] /\ (t + 1) + i - 1 \in 1..Len(a)
        BY <2>2
      <3>2. r[i] = w[4 + ((t + 1) + i - 1)]
        BY <1>7, <3>1
      <3>3. 4 + ((t + 1) + i - 1) = (n + 1) + i - 1
        BY <1>2, <1>4
      <3> QED
        BY <2>3, <2>4, <3>2, <3>3
    <2>6. r = s
      BY <2>2, <2>3, <2>4, <2>5, SeqEqual
    <2> QED
      BY <2>6 DEF r, s
  <1>11. /\ WordAt(w) = m.id /\ WordAt(SubSeq(w, 3, 4)) = len
         /\ Len(a) >= t /\ ValueAt(m.type, SubSeq(a, 1, t)) = AsSent(m)
         /\ SubSeq(a, t + 1, Len(a)) = SubSeq(w, n + 1, Len(w)) /\ n >= 4
    <2>1. n >= 4
      BY <1>2, <1>4
    <2> QED
      BY <1>1, <1>5, <1>6, <1>8, <1>9, <1>10, <2>1, Zenon
  <1> QED
    BY <1>11 DEF len, t, a

(* Cutting bytes into messages, when one is added behind and when one is taken in front. *)
LEMMA CutBehind ==
    ASSUME TlvAssumption, NEW w \in Seq(Digit), NEW s \in Seq(Message), NEW m \in Message,
           NEW cut \in [0..Len(s) -> 0..Len(w)], CutAt(cut, w, s),
           NEW v, v = w \o Coded(m), NEW z, z = Append(s, m)
    PROVE  v \in Seq(Digit) /\ z \in Seq(Message)
           /\ \E new \in [0..Len(z) -> 0..Len(v)] : CutAt(new, v, z)
  <1> DEFINE c == Coded(m)
             n == Len(s)
             k == Len(w)
             new == [i \in 0..n + 1 |-> IF i = n + 1 THEN k + Len(c) ELSE cut[i]]
  <1>1. c \in Seq(Digit)
    BY CodedIs
  <1> HIDE DEF c
  <1>2. /\ v \in Seq(Digit) /\ Len(v) = k + Len(c) /\ k \in Nat /\ Len(c) \in Nat
        /\ \A i \in 1..k : v[i] = w[i]
        /\ \A i \in 1..Len(c) : v[k + i] = c[i]
    <2>1. v = w \o c
      BY DEF c
    <2> QED
      BY <1>1, <2>1, DigitsJoin
  <1>3. /\ z \in Seq(Message) /\ Len(z) = n + 1 /\ n \in Nat
        /\ \A i \in 1..n : z[i] = s[i]
    BY AppendPlaces, LenProperties
  <1>4. z[n + 1] = m
    BY AppendPlaces
  <1>5. /\ cut[0] = 0 /\ cut[n] = k
        /\ \A i \in 1..n : SubSeq(w, cut[i - 1] + 1, cut[i]) = Coded(s[i])
    BY DEF CutAt
  <1>6. new[n + 1] = k + Len(c) /\ \A i \in 0..n : new[i] = cut[i] /\ cut[i] \in 0..k
    <2>1. new[n + 1] = k + Len(c)
      BY <1>3
    <2>2. ASSUME NEW i \in 0..n PROVE new[i] = cut[i] /\ cut[i] \in 0..k
      <3>1. i \in 0..n + 1 /\ i # n + 1
        BY <1>3
      <3>2. new[i] = cut[i]
        BY <3>1
      <3> QED
        BY <3>2
    <2> QED
      BY <2>1, <2>2
  <1>7. new \in [0..n + 1 -> 0..k + Len(c)]
    BY <1>2, <1>3
  <1> HIDE DEF new
  <1>8. ASSUME NEW i \in 1..n PROVE SubSeq(v, new[i - 1] + 1, new[i]) = Coded(z[i])
    <2>1. i - 1 \in 0..n /\ i \in 0..n
      BY <1>3
    <2>2. PICK a \in 0..k, b \in 0..k : a = cut[i - 1] /\ b = cut[i]
      BY <1>6, <2>1
    <2>3. SubSeq(v, a + 1, b) = SubSeq(w, a + 1, b)
      <3>1. a \in Nat /\ b \in Nat /\ b <= k /\ k \in Nat
        BY <1>2
      <3>2. ASSUME NEW j \in 1..(b + 1) - (a + 1) PROVE v[(a + 1) + j - 1] = w[(a + 1) + j - 1]
        <4>1. j \in Int /\ 1 <= j /\ j <= b - a
          BY <3>1
        <4>2. (a + 1) + j - 1 = a + j /\ a + j \in 1..k
          BY <3>1, <4>1
        <4> QED
          BY <1>2, <4>2
      <3> HIDE DEF k
      <3>3. [j \in 1..(b + 1) - (a + 1) |-> v[(a + 1) + j - 1]]
              = [j \in 1..(b + 1) - (a + 1) |-> w[(a + 1) + j - 1]]
        BY <3>2
      <3> QED
        BY SMTT(30), <1>2, <3>1, <3>3 DEF k
    <2> QED
      BY <1>3, <1>5, <1>6, <2>1, <2>2, <2>3
  <1>9. SubSeq(v, new[(n + 1) - 1] + 1, new[n + 1]) = c
    <2> DEFINE r == SubSeq(v, k + 1, k + Len(c))
    <2>1. new[(n + 1) - 1] = k
      <3>1. (n + 1) - 1 = n /\ n \in 0..n
        BY <1>3
      <3> QED
        BY <1>5, <1>6, <3>1
    <2>2. k + 1 \in Nat \ {0} /\ k + Len(c) \in 0..Len(v) /\ k + 1 <= k + Len(c) + 1
      BY <1>2
    <2>3. /\ r \in Seq(Digit) /\ Len(r) = (k + Len(c)) - (k + 1) + 1
          /\ \A i \in 1..Len(r) : r[i] = v[(k + 1) + i - 1]
      BY SMTT(30), <1>2, <2>2, DigitsPart
    <2> HIDE DEF r
    <2>4. Len(r) = Len(c)
      BY <1>2, <2>3
    <2>5. ASSUME NEW i \in 1..Len(r) PROVE r[i] = c[i]
      <3>1. (k + 1) + i - 1 = k + i
        BY <1>2
      <3> QED
        BY <1>2, <2>3, <2>4, <3>1
    <2>6. r = c
      BY <1>1, <2>3, <2>4, <2>5, SeqEqual
    <2> QED
      BY <1>6, <2>1, <2>6 DEF r
  <1>10. CutAt(new, v, z)
    <2>1. new[0] = 0 /\ new[Len(z)] = Len(v)
      BY <1>2, <1>3, <1>5, <1>6
    <2>2. ASSUME NEW i \in 1..Len(z) PROVE SubSeq(v, new[i - 1] + 1, new[i]) = Coded(z[i])
      <3>1. i \in 1..n \/ i = n + 1
        BY <1>3
      <3> QED
        BY <1>4, <1>8, <1>9, <3>1 DEF c
    <2> QED
      BY <2>1, <2>2 DEF CutAt
  <1> QED
    BY <1>2, <1>3, <1>7, <1>10

LEMMA CutFront ==
    ASSUME TlvAssumption, NEW w \in Seq(Digit), NEW s \in Seq(Message), w # <<>>,
           NEW cut \in [0..Len(s) -> 0..Len(w)], CutAt(cut, w, s)
    PROVE  /\ s # <<>> /\ cut[1] \in 0..Len(w) /\ SubSeq(w, 1, cut[1]) = Coded(Head(s))
           /\ \E new \in [0..Len(Tail(s)) -> 0..Len(SubSeq(w, cut[1] + 1, Len(w)))] :
                 CutAt(new, SubSeq(w, cut[1] + 1, Len(w)), Tail(s))
  <1> DEFINE n == Len(s)
             k == Len(w)
             a == cut[1]
             v == SubSeq(w, a + 1, k)
             z == Tail(s)
             new == [i \in 0..n - 1 |-> cut[i + 1] - a]
  <1>1. /\ cut[0] = 0 /\ cut[n] = k /\ n \in Nat /\ k \in Nat
        /\ \A i \in 1..n : SubSeq(w, cut[i - 1] + 1, cut[i]) = Coded(s[i])
    BY LenProperties DEF CutAt
  <1>2. n >= 1 /\ s # <<>>
    <2>1. k # 0
      BY EmptySeq
    <2>2. n # 0
      BY <1>1, <2>1
    <2> QED
      BY <1>1, <2>2
  <1>3. a \in 0..k /\ SubSeq(w, 1, a) = Coded(Head(s))
    <2>1. SubSeq(w, cut[1 - 1] + 1, a) = Coded(s[1])
      BY <1>1, <1>2
    <2>2. cut[1 - 1] + 1 = 1
      <3>1. 1 - 1 = 0
        OBVIOUS
      <3> QED
        BY <1>1, <3>1
    <2>3. Head(s) = s[1]
      BY <1>2, HeadTailProperties
    <2>4. a \in 0..k
      BY <1>1, <1>2
    <2> HIDE DEF a
    <2> QED
      BY <2>1, <2>2, <2>3, <2>4
  <1>4. /\ z \in Seq(Message) /\ Len(z) = n - 1
        /\ \A i \in 1..n - 1 : z[i] = s[i + 1]
    BY <1>2, HeadTailProperties
  <1>5. \A i \in 0..n : cut[i] \in 0..k
    OBVIOUS
  <1> HIDE DEF a
  (* Every later cut is behind the first: it ends some bytes that come after it. *)
  <1>6. \A i \in 1..n : cut[i] >= a
    <2> DEFINE EndsEarly(i) == i \in 1..n /\ cut[i] < a
    <2> SUFFICES ASSUME NEW j \in 1..n, EndsEarly(j) PROVE FALSE
      BY <1>1, <1>3, <1>5
    <2>1. PICK i \in Nat : EndsEarly(i) /\ \A h \in 0..i - 1 : ~EndsEarly(h)
      <3> DEFINE S == {i \in Nat : EndsEarly(i)}
      <3>1. S \in SUBSET Nat /\ S # {}
        <4>1. j \in Nat /\ j \in S
          BY <1>1
        <4> QED
          BY <4>1
      <3>2. PICK i \in S : \A h \in S : i <= h
        BY <3>1, SmallestIsIn
      <3> QED
        BY <3>2
    <2>2. i \in 2..n
      <3>1. i \in 1..n /\ i # 1
        BY <1>3, <2>1 DEF a
      <3> QED
        BY <1>1, <3>1
    <2>3. i - 1 \in 1..n /\ cut[i - 1] >= a
      <3>1. i - 1 \in 1..n /\ i - 1 \in 0..i - 1 /\ i - 1 \in 0..n
        BY <1>1, <2>2
      <3>2. ~(cut[i - 1] < a)
        BY <2>1, <3>1
      <3>3. cut[i - 1] \in 0..k
        BY <1>5, <3>1
      <3> HIDE DEF k
      <3> QED
        BY <1>1, <1>3, <3>1, <3>2, <3>3
    <2>4. SubSeq(w, cut[i - 1] + 1, cut[i]) = Coded(s[i])
      BY <1>1, <2>2
    <2>5. Len(SubSeq(w, cut[i - 1] + 1, cut[i])) = 0
      <3>1. PICK x \in 0..k, y \in 0..k : x = cut[i - 1] /\ y = cut[i]
        BY <1>5, <2>2, <2>3
      <3>2. y < x
        <4>1. y < a /\ x >= a
          BY <2>1, <2>3, <3>1
        <4> HIDE DEF k
        <4> QED
          BY <1>1, <1>3, <4>1
      <3>3. Len(SubSeq(w, x + 1, y)) = 0
        BY <1>1, <3>2
      <3> QED
        BY <3>1, <3>3
    <2>6. Len(Coded(s[i])) >= 4
      <3>1. s[i] \in Message
        BY <2>2
      <3> QED
        BY <3>1, CodedIsLong
    <2>7. Len(Coded(s[i])) = 0
      BY <2>4, <2>5
    <2> QED
      BY <2>6, <2>7
  <1>7. new \in [0..n - 1 -> 0..k - a] /\ \A i \in 0..n - 1 : new[i] = cut[i + 1] - a
    <2>1. \A i \in 0..n - 1 : cut[i + 1] - a \in 0..k - a
      <3> SUFFICES ASSUME NEW i \in 0..n - 1 PROVE cut[i + 1] - a \in 0..k - a
        OBVIOUS
      <3>1. i + 1 \in 1..n /\ i + 1 \in 0..n
        BY <1>1
      <3>2. cut[i + 1] \in 0..k /\ cut[i + 1] >= a
        BY <1>5, <1>6, <3>1
      <3> HIDE DEF k
      <3> QED
        BY <1>1, <1>3, <3>2
    <2> QED
      BY <2>1
  <1>8. v \in Seq(Digit) /\ Len(v) = k - a /\ \A i \in 1..k - a : v[i] = w[a + i]
    <2>1. a + 1 \in Nat \ {0} /\ k \in 0..k /\ a + 1 <= k + 1
      BY <1>1, <1>3
    <2> HIDE DEF a
    <2>2. /\ v \in Seq(Digit) /\ Len(v) = k - (a + 1) + 1
          /\ \A i \in 1..Len(v) : v[i] = w[(a + 1) + i - 1]
      BY <2>1, DigitsPart
    <2> HIDE DEF v
    <2>3. \A i \in 1..Len(v) : (a + 1) + i - 1 = a + i
      BY <1>3
    <2> QED
      BY <1>1, <1>3, <2>2, <2>3
  <1> HIDE DEF new, v, z
  <1>9. ASSUME NEW i \in 1..n - 1 PROVE SubSeq(v, new[i - 1] + 1, new[i]) = Coded(z[i])
    <2>1. /\ i - 1 \in 0..n - 1 /\ i \in 0..n - 1 /\ i \in 1..n /\ i + 1 \in 1..n /\ (i - 1) + 1 = i
          /\ (i + 1) - 1 = i
      BY <1>1
    <2>2. PICK x \in a..k, y \in a..k : x = cut[i] /\ y = cut[i + 1]
      <3>1. /\ cut[i] \in 0..k /\ cut[i] >= a
            /\ cut[i + 1] \in 0..k /\ cut[i + 1] >= a
        BY <1>5, <1>6, <2>1
      <3> HIDE DEF k
      <3> QED
        BY <1>1, <1>3, <3>1
    <2>3. new[i - 1] = x - a /\ new[i] = y - a
      BY <1>7, <2>1, <2>2
    <2>4. SubSeq(w, x + 1, y) = Coded(z[i])
      BY <1>1, <1>4, <2>1, <2>2
    <2>5. SubSeq(v, (x - a) + 1, y - a) = SubSeq(w, x + 1, y)
      <3> HIDE DEF k, a
      <3>0. a \in Nat /\ k \in Nat
        BY <1>1, <1>3
      <3>1. x \in Nat /\ y \in Nat /\ a \in Nat /\ k \in Nat /\ a <= x /\ a <= y /\ y <= k
        BY <3>0
      <3>2. ASSUME NEW j \in 1..y - x PROVE v[((x - a) + 1) + j - 1] = w[(x + 1) + j - 1]
        <4>1. j \in Int /\ 1 <= j /\ j <= y - x
          BY <3>1
        <4>2. ((x - a) + 1) + j - 1 = (x - a) + j /\ (x - a) + j \in 1..k - a
          BY <3>1, <4>1
        <4>3. a + ((x - a) + j) = (x + 1) + j - 1
          BY <3>1, <4>1
        <4> QED
          BY <1>8, <4>2, <4>3
      <3>3. ((y - a) + 1) - ((x - a) + 1) = y - x /\ (y + 1) - (x + 1) = y - x
        BY <3>1
      <3>4. [j \in 1..y - x |-> v[((x - a) + 1) + j - 1]] = [j \in 1..y - x |-> w[(x + 1) + j - 1]]
        BY <3>2
      <3>5. SubSeq(w, x + 1, y) = [j \in 1..y - x |-> w[(x + 1) + j - 1]]
        BY <1>1, <3>1, <3>3 DEF k
      <3>6. SubSeq(v, (x - a) + 1, y - a) = [j \in 1..y - x |-> v[((x - a) + 1) + j - 1]]
        <4>1. (x - a) + 1 \in Int /\ y - a \in Int
          BY <3>1
        <4> QED
          BY SMTT(30), <1>8, <3>3, <4>1
      <3> QED
        BY <3>4, <3>5, <3>6
    <2> QED
      BY <2>3, <2>4, <2>5
  <1>10. new[0] = 0 /\ new[n - 1] = k - a
    <2>1. 0 \in 0..n - 1 /\ n - 1 \in 0..n - 1 /\ 0 + 1 = 1 /\ (n - 1) + 1 = n
      BY <1>1, <1>2
    <2> QED
      BY <1>1, <1>3, <1>7, <2>1
  <1>11. CutAt(new, v, z)
    BY <1>4, <1>8, <1>9, <1>10 DEF CutAt
  <1>12. \E f \in [0..Len(z) -> 0..Len(v)] : CutAt(f, v, z)
    BY <1>4, <1>7, <1>8, <1>11
  <1> QED
    BY <1>2, <1>3, <1>12 DEF v, z, a

LEMMA InitTlvInv == ASSUME TlvAssumption, TlvInit PROVE TlvInv
  <1>1. TlvTypeOK
    <2>1. arr \in [{"sender", "receiver"} -> [Id -> Types \cup {NoDesc}]]
      BY DEF TlvInit
    <2>2. wire \in Seq(0..Base - 1)
      BY DEF TlvInit
    <2>3. sent \in Seq(Message)
      BY DEF TlvInit
    <2>4. lost \in BOOLEAN
      BY DEF TlvInit
    <2> QED
      BY <2>1, <2>2, <2>3, <2>4 DEF TlvTypeOK
  <1>2. WireIsSent
    <2> DEFINE cut == [i \in 0..0 |-> 0]
    <2>1. sent = <<>> /\ wire = <<>> /\ Len(<<>>) = 0
      BY DEF TlvInit
    <2>2. cut \in [0..Len(sent) -> 0..Len(wire)] /\ cut[0] = 0
      BY <2>1
    <2>3. CutAt(cut, wire, sent)
      BY <2>1, <2>2 DEF CutAt
    <2> QED
      BY <2>2, <2>3 DEF WireIsSent
  <1> QED
    BY <1>1, <1>2 DEF TlvInv

LEMMA StepMap ==
    ASSUME TlvAssumption, TlvInv, NEW side \in {"sender", "receiver"}, NEW id \in Id,
           NEW type \in Offered[id], tlv_type_desc_map(side, id, type)
    PROVE  TlvInv'
  <1>1. arr' = [arr EXCEPT ![side][id] = type] /\ UNCHANGED <<wire, sent, got, lost>>
    BY DEF tlv_type_desc_map
  <1>2. type \in Types
    BY DEF TlvAssumption
  <1>3. TlvTypeOK'
    BY <1>1, <1>2 DEF TlvInv, TlvTypeOK
  <1>4. WireIsSent'
    BY <1>1 DEF TlvInv, WireIsSent
  <1> QED
    BY <1>3, <1>4 DEF TlvInv

LEMMA StepSet ==
    ASSUME TlvAssumption, TlvInv, NEW id \in Id, arr["sender"][id] # NoDesc,
           NEW val \in Value[arr["sender"][id]], tlv_set(id, val)
    PROVE  TlvInv'
  <1> DEFINE m == [id |-> id, type |-> arr["sender"][id], val |-> val]
  <1>1. wire' = wire \o Coded(m) /\ sent' = Append(sent, m) /\ UNCHANGED <<arr, got, lost>>
    BY DEF tlv_set
  <1>2. arr["sender"][id] \in Types
    BY DEF TlvInv, TlvTypeOK
  <1>3. m \in Message
    BY <1>2 DEF Message
  <1>4. wire \in Seq(Digit) /\ sent \in Seq(Message)
    BY DEF TlvInv, TlvTypeOK, Digit
  <1> HIDE DEF m
  <1>5. wire' \in Seq(Digit) /\ sent' \in Seq(Message)
    <2>1. Coded(m) \in Seq(Digit)
      BY <1>3, CodedIs
    <2> QED
      BY <1>1, <1>3, <1>4, <2>1, DigitsJoin, AppendPlaces
  <1>6. TlvTypeOK'
    BY <1>1, <1>5 DEF TlvInv, TlvTypeOK, Digit
  <1>7. ASSUME ~lost PROVE \E cut \in [0..Len(sent') -> 0..Len(wire')] : CutAt(cut, wire', sent')
    <2>1. PICK cut \in [0..Len(sent) -> 0..Len(wire)] : CutAt(cut, wire, sent)
      BY <1>7 DEF TlvInv, WireIsSent
    <2> QED
      BY <1>1, <1>3, <1>4, <2>1, CutBehind
  <1>8. WireIsSent'
    BY <1>1, <1>7 DEF WireIsSent
  <1> QED
    BY <1>6, <1>8 DEF TlvInv

(* A read that does not give up takes off the first message, as it was sent when *)
(* the receiver's table has its type.                                            *)
LEMMA Reads ==
    ASSUME TlvAssumption, TlvInv, tlv_pl_get
    PROVE  /\ arr' = arr /\ TlvInv'
           /\ sent # <<>>
           /\ arr["receiver"][Head(sent).id] = Head(sent).type
                => ~lost' /\ got' = Append(got, [id |-> Head(sent).id, val |-> AsSent(Head(sent))])
  <1> DEFINE m == Head(sent)
             id == WordAt(wire)
             len == WordAt(SubSeq(wire, 3, 4))
             type == IF id \in Id THEN arr["receiver"][id] ELSE NoDesc
             u == SubSeq(wire, 5, Len(wire))
             t == Taken(type, len)
             GiveUp == type = NoDesc \/ Len(u) < t
  <1>1. /\ wire # <<>> /\ ~lost /\ arr' = arr
        /\ GiveUp => lost' = TRUE /\ UNCHANGED <<wire, sent, got>>
        /\ ~GiveUp => /\ got' = Append(got, [id |-> id, val |-> ValueAt(type, SubSeq(u, 1, t))])
                      /\ wire' = SubSeq(u, t + 1, Len(u))
                      /\ sent' = Tail(sent)
                      /\ lost' = (type # m.type)
    BY DEF tlv_pl_get
  <1>2. wire \in Seq(Digit) /\ sent \in Seq(Message)
    BY DEF TlvInv, TlvTypeOK, Digit
  <1>3. PICK cut \in [0..Len(sent) -> 0..Len(wire)] : CutAt(cut, wire, sent)
    BY <1>1 DEF TlvInv, WireIsSent
  <1>4. /\ sent # <<>> /\ cut[1] \in 0..Len(wire) /\ SubSeq(wire, 1, cut[1]) = Coded(m)
        /\ \E new \in [0..Len(Tail(sent)) -> 0..Len(SubSeq(wire, cut[1] + 1, Len(wire)))] :
              CutAt(new, SubSeq(wire, cut[1] + 1, Len(wire)), Tail(sent))
    BY <1>1, <1>2, <1>3, CutFront
  <1>5. m \in Message /\ Tail(sent) \in Seq(Message)
    BY <1>2, <1>4, HeadTailProperties
  <1> DEFINE r == Taken(m.type, InitLen(m.type, m.val))
  <1>6. /\ id = m.id /\ len = InitLen(m.type, m.val)
        /\ Len(u) >= r
        /\ ValueAt(m.type, SubSeq(u, 1, r)) = AsSent(m)
        /\ SubSeq(u, r + 1, Len(u)) = SubSeq(wire, cut[1] + 1, Len(wire))
    BY <1>2, <1>4, <1>5, FirstMessage
  <1>7. m.id \in Id /\ m.type \in Types
    BY <1>5, MessageIs
  <1>8. type = arr["receiver"][m.id]
    BY <1>6, <1>7
  <1>9. u \in Seq(Digit) /\ Len(u) \in Nat
    <2>1. PICK k \in Nat : k = Len(wire)
      BY <1>2, LenProperties
    <2>2. k >= 4
      <3>1. Len(Coded(m)) >= 4
        BY <1>5, CodedIs
      <3>2. PICK a \in 0..k : a = cut[1]
        BY <1>4, <2>1
      <3>3. Len(SubSeq(wire, 1, a)) = a
        BY <1>2, <2>1, <3>2, LenProperties
      <3> QED
        BY <1>4, <3>1, <3>2, <3>3
    <2>3. 5 \in Nat \ {0} /\ k \in 0..Len(wire) /\ 5 <= k + 1
      BY <2>1, <2>2
    <2>4. SubSeq(wire, 5, k) \in Seq(Digit)
      BY <1>2, <2>3, DigitsPart
    <2> QED
      BY <2>1, <2>4, LenProperties
  <1>10. wire' \in Seq(Digit) /\ sent' \in Seq(Message) /\ lost' \in BOOLEAN
    <2>1. CASE GiveUp
      BY <1>1, <1>2, <2>1
    <2>2. CASE ~GiveUp
      <3>1. t \in Nat /\ t <= Len(u)
        <4>1. type \in Types
          <5>1. type \in Types \cup {NoDesc}
            BY <1>7, <1>8 DEF TlvInv, TlvTypeOK
          <5> QED
            BY <2>2, <5>1
        <4>2. InitLen(m.type, m.val) \in Nat
          <5>1. InitLen(m.type, m.val) \in 0..Limit - 1
            BY <1>5, PayloadIs DEF ReadsAs
          <5> QED
            BY <5>1, Bases
        <4> HIDE DEF type, len, u
        <4>3. len \in Nat
          BY <1>6, <4>2
        <4>4. t \in Nat
          BY <4>1, <4>3 DEF Taken, Types
        <4> HIDE DEF t
        <4> QED
          BY <1>9, <2>2, <4>4
      <3> HIDE DEF t, u
      <3>2. SubSeq(u, t + 1, Len(u)) \in Seq(Digit)
        <4>1. t + 1 \in Nat \ {0} /\ Len(u) \in 0..Len(u) /\ t + 1 <= Len(u) + 1
          BY <1>9, <3>1
        <4> QED
          BY <1>9, <4>1, DigitsPart
      <3> QED
        BY <1>1, <1>5, <2>2, <3>2
    <2> QED
      BY <2>1, <2>2
  <1>11. TlvTypeOK'
    BY <1>1, <1>10 DEF TlvInv, TlvTypeOK, Digit
  <1> HIDE DEF u, id, len
  <1>12. ASSUME arr["receiver"][m.id] = m.type
         PROVE  /\ ~lost' /\ got' = Append(got, [id |-> m.id, val |-> AsSent(m)])
                /\ wire' = SubSeq(wire, cut[1] + 1, Len(wire)) /\ sent' = Tail(sent)
    <2>1. type = m.type
      BY <1>8, <1>12
    <2>2. t = r
      BY <1>6, <2>1
    <2>3. type # NoDesc
      BY <1>7, <2>1 DEF TlvAssumption
    <2> HIDE DEF type, t, r
    <2>4. ~(Len(u) < t)
      <3>1. r \in Nat
        <4>1. r = Len(Payload(m.type, InitLen(m.type, m.val), m.val))
          BY <1>5, PayloadIs DEF ReadsAs, r
        <4> QED
          BY <1>5, <4>1, CodedIs
      <3> QED
        BY <1>6, <1>9, <2>2, <3>1
    <2> QED
      BY <1>1, <1>6, <2>1, <2>2, <2>3, <2>4
  <1>13. ASSUME ~lost' PROVE arr["receiver"][m.id] = m.type
    BY <1>1, <1>8, <1>13
  <1>14. WireIsSent'
    <2>1. ASSUME ~lost' PROVE \E new \in [0..Len(sent') -> 0..Len(wire')] : CutAt(new, wire', sent')
      BY <1>4, <1>12, <1>13, <2>1
    <2> QED
      BY <2>1 DEF WireIsSent
  <1> QED
    BY <1>1, <1>4, <1>11, <1>12, <1>14 DEF TlvInv

LEMMA TlvInvNext == ASSUME TlvAssumption, TlvInv, [TlvNext]_tlvVars PROVE TlvInv'
  <1>1. CASE UNCHANGED tlvVars
    BY <1>1 DEF tlvVars, TlvInv, TlvTypeOK, WireIsSent
  <1>2. CASE TlvNext
    <2>1. CASE \E side \in {"sender", "receiver"}, id \in Id : \E type \in Offered[id] :
                  tlv_type_desc_map(side, id, type)
      BY <2>1, StepMap
    <2>2. CASE \E id \in Id : /\ arr["sender"][id] # NoDesc
                              /\ \E val \in Value[arr["sender"][id]] : tlv_set(id, val)
      BY <2>2, StepSet
    <2>3. CASE tlv_pl_get
      BY <2>3, Reads
    <2> QED
      BY <1>2, <2>1, <2>2, <2>3 DEF TlvNext
  <1> QED
    BY <1>1, <1>2

(* The bytes between sender and receiver are those of the messages between them. *)
THEOREM TlvInductive == ASSUME TlvAssumption PROVE TlvSpec => []TlvInv
  <1>1. TlvInit => TlvInv
    BY InitTlvInv
  <1>2. TlvInv /\ [TlvNext]_tlvVars => TlvInv'
    BY TlvInvNext
  <1> QED
    BY <1>1, <1>2, PTL DEF TlvSpec

(* What was read is a sequence. *)
GotIsSeq == \E S : got \in Seq(S)

InStepAction ==
    (sent # <<>> /\ (sent' = Tail(sent) \/ lost' # lost)
        /\ arr["receiver"][Head(sent).id] = Head(sent).type)
    => ~lost' /\ Last(got') = [id |-> Head(sent).id, val |-> AsSent(Head(sent))]

LEMMA EachStepInStep == ASSUME TlvAssumption, TlvInv, GotIsSeq, TlvNext PROVE InStepAction
  <1>1. sent \in Seq(Message)
    BY DEF TlvInv, TlvTypeOK
  <1>2. ASSUME sent # <<>> PROVE Len(Tail(sent)) = Len(sent) - 1 /\ Len(sent) \in Nat
    BY <1>1, <1>2, HeadTailProperties, LenProperties
  <1>3. ASSUME NEW side, NEW id, NEW type, tlv_type_desc_map(side, id, type) PROVE InStepAction
    <2>1. sent' = sent /\ lost' = lost
      BY <1>3 DEF tlv_type_desc_map
    <2>2. sent # <<>> => sent' # Tail(sent)
      BY <1>2, <2>1
    <2> QED
      BY <2>1, <2>2 DEF InStepAction
  <1>4. ASSUME NEW id, NEW val, tlv_set(id, val) PROVE InStepAction
    <2>1. lost' = lost /\ \E m : sent' = Append(sent, m)
      BY <1>4 DEF tlv_set
    <2>2. sent # <<>> => sent' # Tail(sent)
      <3>1. Len(sent') = Len(sent) + 1
        BY <1>1, <2>1
      <3> QED
        BY <1>2, <3>1
    <2> QED
      BY <2>1, <2>2 DEF InStepAction
  <1>5. CASE tlv_pl_get
    <2> SUFFICES ASSUME arr["receiver"][Head(sent).id] = Head(sent).type
                 PROVE  ~lost' /\ Last(got') = [id |-> Head(sent).id, val |-> AsSent(Head(sent))]
      BY DEF InStepAction
    <2> DEFINE g == [id |-> Head(sent).id, val |-> AsSent(Head(sent))]
    <2>1. ~lost' /\ got' = Append(got, g)
      BY <1>5, Reads
    <2> HIDE DEF g
    <2>2. PICK S : got \in Seq(S)
      BY DEF GotIsSeq
    <2>3. got \in Seq(S \cup {g})
      BY <2>2
    <2>4. Len(got') = Len(got) + 1 /\ got'[Len(got) + 1] = g
      BY <2>1, <2>3
    <2>5. Last(got') = g
      BY <2>4 DEF Last
    <2> QED
      BY <2>1, <2>5 DEF g
  <1> QED
    BY <1>3, <1>4, <1>5 DEF TlvNext

LEMMA GotIsSeqNext == ASSUME GotIsSeq, [TlvNext]_tlvVars PROVE GotIsSeq'
  <1>1. PICK S : got \in Seq(S)
    BY DEF GotIsSeq
  <1>2. got' = got \/ \E g : got' = Append(got, g)
    <2>1. CASE tlv_pl_get
      BY <2>1 DEF tlv_pl_get
    <2>2. CASE ~tlv_pl_get
      BY <2>2 DEF TlvNext, tlvVars, tlv_type_desc_map, tlv_set
    <2> QED
      BY <2>1, <2>2
  <1>3. CASE got' = got
    BY <1>3 DEF GotIsSeq
  <1>4. ASSUME NEW g, got' = Append(got, g) PROVE GotIsSeq'
    <2>1. got \in Seq(S \cup {g})
      BY <1>1
    <2>2. got' \in Seq(S \cup {g})
      BY <1>4, <2>1, AppendPlaces
    <2> QED
      BY <2>2 DEF GotIsSeq
  <1> QED
    BY <1>2, <1>3, <1>4

THEOREM InStep == ASSUME TlvAssumption PROVE TlvSpec => StaysInStep
  <1>1. TlvInv /\ GotIsSeq /\ [TlvNext]_tlvVars => [InStepAction]_tlvVars
    BY EachStepInStep
  <1>2. TlvSpec => []TlvInv
    BY TlvInductive
  <1>3. TlvInit => GotIsSeq
    <2>1. ASSUME TlvInit PROVE got \in Seq({})
      BY <2>1 DEF TlvInit
    <2> QED
      BY <2>1 DEF GotIsSeq
  <1>4. GotIsSeq /\ [TlvNext]_tlvVars => GotIsSeq'
    BY GotIsSeqNext
  <1> QED
    BY <1>1, <1>2, <1>3, <1>4, PTL DEF TlvSpec, StaysInStep, InStepAction

-----------------------------------------------------------------------------
(* AesCbc *)

AnyOctet == 0..255

LEMMA Sizes ==
    ASSUME AesAssumption
    PROVE  /\ BlockSize \in Nat \ {0} /\ BlockSize \in Nat /\ BlockSize >= 1 /\ BlockSize <= 255
           /\ Octet \subseteq AnyOctet /\ 0 \in AnyOctet
  BY DEF AesAssumption, AnyOctet

(* How many blocks are enough, and how many zeros fill the last one. *)
LEMMA BlocksEnough ==
    ASSUME AesAssumption, NEW n \in Nat
    PROVE  /\ BlocksIn(n) \in Nat /\ BlocksIn(n) * BlockSize \in Nat
           /\ BlocksIn(n) * BlockSize - n \in 0..BlockSize - 1
           /\ n # 0 => BlocksIn(n) # 0
  <1> DEFINE b == BlocksIn(n)
  <1>1. BlockSize \in Nat /\ BlockSize >= 1
    BY Sizes
  <1>2. n + BlockSize - 1 \in Nat
    BY <1>1
  <1>3. b \in Nat /\ b * BlockSize \in Nat /\ b * BlockSize <= n + BlockSize - 1
        /\ n + BlockSize - 1 < b * BlockSize + BlockSize
    BY <1>2, Sizes, Quotient, Zenon DEF BlocksIn
  <1> HIDE DEF b
  <1> DEFINE t == b * BlockSize
  <1>4. b = 0 => t = 0
    BY <1>1
  <1>5. t \in Nat /\ t <= n + BlockSize - 1 /\ n + BlockSize - 1 < t + BlockSize
    BY <1>3
  <1> HIDE DEF t
  <1>6. t - n \in 0..BlockSize - 1
    BY <1>1, <1>5
  <1>7. n # 0 => t # 0
    BY <1>1, <1>5
  <1> QED
    BY <1>3, <1>4, <1>6, <1>7 DEF b, t

(* A message of whole blocks needs so many; any other one block more than it fills. *)
LEMMA BlocksExact ==
    ASSUME AesAssumption, NEW k \in Nat, NEW r \in 0..BlockSize - 1, NEW n \in Nat,
           n = k * BlockSize + r
    PROVE  /\ n \div BlockSize = k /\ n % BlockSize = r
           /\ (n + BlockSize) \div BlockSize = k + 1
           /\ BlocksIn(n) = IF r = 0 THEN k ELSE k + 1
  <1> DEFINE b == BlockSize
             t == k * b
  <1>1. b \in Nat \ {0}
    BY Sizes
  <1>2. t \in Nat /\ (k + 1) * b = t + b
    BY <1>1
  <1>3. k * b = t /\ n = t + r
    OBVIOUS
  <1> HIDE DEF t, b
  <1>4. n \div b = k /\ n % b = r
    <2>1. k * b <= n /\ n < k * b + b /\ n - k * b = r
      BY <1>1, <1>2, <1>3 DEF b
    <2>2. n \div b = k /\ n % b = n - k * b
      BY <1>1, <2>1, QuotientIs
    <2> QED
      BY <2>1, <2>2
  <1>5. (n + b) \div b = k + 1
    <2>1. /\ (k + 1) * b <= n + b /\ n + b < (k + 1) * b + b
          /\ n + b \in Nat /\ k + 1 \in Nat
      BY <1>1, <1>2, <1>3 DEF b
    <2> QED
      BY <1>1, <2>1, QuotientIs
  <1>6. (n + b - 1) \div b = IF r = 0 THEN k ELSE k + 1
    <2>1. CASE r = 0
      <3>1. k * b <= n + b - 1 /\ n + b - 1 < k * b + b /\ n + b - 1 \in Nat
        BY <1>1, <1>2, <1>3, <2>1
      <3> QED
        BY <1>1, <2>1, <3>1, QuotientIs
    <2>2. CASE r # 0
      <3>1. /\ (k + 1) * b <= n + b - 1 /\ n + b - 1 < (k + 1) * b + b
            /\ n + b - 1 \in Nat /\ k + 1 \in Nat
        BY <1>1, <1>2, <1>3, <2>2 DEF b
      <3> QED
        BY <1>1, <2>2, <3>1, QuotientIs
    <2> QED
      BY <2>1, <2>2
  <1> QED
    BY <1>4, <1>5, <1>6 DEF b, BlocksIn

(* Every number of bytes is of that form. *)
LEMMA BlocksOver ==
    ASSUME AesAssumption, NEW n \in Nat
    PROVE  \E k \in Nat, r \in 0..BlockSize - 1 : n = k * BlockSize + r
  <1>1. BlockSize \in Nat \ {0}
    BY Sizes
  <1>2. n \div BlockSize \in Nat /\ (n \div BlockSize) * BlockSize + (n % BlockSize) = n
    BY <1>1
  <1>3. (n % BlockSize) \in 0..BlockSize - 1
    BY <1>1, Remainder
  <1> DEFINE k == n \div BlockSize
             r == n % BlockSize
  <1>4. k \in Nat /\ r \in 0..BlockSize - 1 /\ n = k * BlockSize + r
    BY <1>2, <1>3
  <1> HIDE DEF k, r
  <1> QED
    BY <1>4

--------------------------------------------------------------------------------
LEMMA OctetsJoin ==
    ASSUME NEW a \in Seq(AnyOctet), NEW b \in Seq(AnyOctet)
    PROVE  /\ a \o b \in Seq(AnyOctet) /\ Len(a \o b) = Len(a) + Len(b)
           /\ Len(a) \in Nat /\ Len(b) \in Nat
           /\ \A i \in 1..Len(a) : (a \o b)[i] = a[i]
           /\ \A i \in 1..Len(b) : (a \o b)[Len(a) + i] = b[i]
           /\ \A i \in 1..Len(a \o b) : i \in 1..Len(a) \/ i - Len(a) \in 1..Len(b)
  BY ConcatPlaces

LEMMA OctetsPart ==
    ASSUME NEW s \in Seq(AnyOctet), NEW m \in Nat \ {0}, NEW n \in 0..Len(s), m <= n + 1
    PROVE  LET r == SubSeq(s, m, n)
           IN  /\ r \in Seq(AnyOctet) /\ Len(r) = n - m + 1
               /\ \A i \in 1..Len(r) : r[i] = s[m + i - 1] /\ m + i - 1 \in 1..Len(s)
  BY SubSeqPlaces

(* The bytes of a message, with the zeros that fill its last block. *)
LEMMA FilledPlaces ==
    ASSUME AesAssumption, NEW data \in Seq(AnyOctet)
    PROVE  LET full == Filled(data)
           IN  /\ full \in Seq(AnyOctet) /\ Len(full) = BlocksIn(Len(data)) * BlockSize
               /\ Len(data) \in Nat /\ Len(data) <= Len(full)
               /\ \A i \in 1..Len(data) : full[i] = data[i]
               /\ \A i \in 1..Len(full) : i > Len(data) => full[i] = 0
  <1> DEFINE n == Len(data)
             z == BlocksIn(n) * BlockSize - n
             full == data \o Zeros(z)
  <1>1. n \in Nat
    BY LenProperties
  <1>2. z \in Nat /\ BlocksIn(n) * BlockSize \in Nat
    <2>1. z \in 0..BlockSize - 1 /\ BlocksIn(n) * BlockSize \in Nat
      BY <1>1, BlocksEnough
    <2> HIDE DEF z
    <2> QED
      BY <2>1, Sizes
  <1>3. n + z = BlocksIn(n) * BlockSize
    BY <1>1, <1>2
  <1> HIDE DEF z
  <1>4. Zeros(z) \in Seq(AnyOctet) /\ Len(Zeros(z)) = z /\ \A i \in 1..z : Zeros(z)[i] = 0
    BY <1>2, Sizes DEF Zeros
  <1>5. /\ full \in Seq(AnyOctet) /\ Len(full) = n + z
        /\ \A i \in 1..n : full[i] = data[i]
        /\ \A i \in 1..z : full[n + i] = 0
    <2>1. /\ full \in Seq(AnyOctet) /\ Len(full) = n + Len(Zeros(z))
          /\ \A i \in 1..n : full[i] = data[i]
          /\ \A i \in 1..Len(Zeros(z)) : full[n + i] = Zeros(z)[i]
      BY <1>4, OctetsJoin
    <2> HIDE DEF full
    <2> QED
      BY <1>4, <2>1
  <1> HIDE DEF full
  <1>6. ASSUME NEW i \in 1..Len(full), i > n PROVE full[i] = 0
    <2>1. i - n \in 1..z /\ n + (i - n) = i
      BY <1>1, <1>2, <1>5, <1>6
    <2> QED
      BY <1>5, <2>1
  <1>7. Filled(data) = full
    BY DEF Filled, full, z
  <1> QED
    BY <1>1, <1>2, <1>3, <1>5, <1>6, <1>7

(* The blocks of a message: where each begins, and where a byte lies. *)
LEMMA BlockBounds ==
    ASSUME AesAssumption, NEW b \in Nat, NEW k \in 1..b
    PROVE  /\ (k - 1) * BlockSize \in Nat /\ k * BlockSize = (k - 1) * BlockSize + BlockSize
           /\ k * BlockSize <= b * BlockSize /\ b * BlockSize \in Nat
  <1>1. BlockSize \in Nat /\ k \in Nat /\ k >= 1
    BY Sizes
  <1>2. PICK e \in Nat : b = k + e
    <2>1. b - k \in Nat /\ b = k + (b - k)
      OBVIOUS
    <2> QED
      BY <2>1
  <1>3. b * BlockSize = k * BlockSize + e * BlockSize /\ e * BlockSize \in Nat
        /\ k * BlockSize \in Nat
    BY <1>1, <1>2
  <1>4. PICK j \in Nat : k = j + 1
    <2>1. k - 1 \in Nat /\ k = (k - 1) + 1
      BY <1>1
    <2> QED
      BY <2>1
  <1>5. k * BlockSize = j * BlockSize + BlockSize /\ j * BlockSize \in Nat /\ k - 1 = j
    BY <1>1, <1>4
  <1> QED
    BY <1>3, <1>5

LEMMA PlaceInBlock ==
    ASSUME AesAssumption, NEW b \in Nat, NEW i \in 1..b * BlockSize
    PROVE  LET k == (i - 1) \div BlockSize + 1
               r == ((i - 1) % BlockSize) + 1
           IN  /\ k \in 1..b /\ r \in 1..BlockSize /\ (k - 1) * BlockSize + r = i
  <1> DEFINE z == (i - 1) \div BlockSize
             s == (i - 1) % BlockSize
  <1>1. BlockSize \in Nat \ {0} /\ b * BlockSize \in Nat
    BY Sizes
  <1>2. i - 1 \in Nat
    BY <1>1
  <1>3. z \in Nat /\ z * BlockSize \in Nat /\ z * BlockSize <= i - 1
    BY <1>1, <1>2, Quotient
  <1>4. s \in 0..BlockSize - 1
    BY <1>1, <1>2, Remainder, Zenon
  <1>5. z * BlockSize + s = i - 1
    BY <1>1, <1>2
  <1> HIDE DEF z, s
  <1>6. z < b
    <2> SUFFICES ASSUME ~(z < b) PROVE FALSE
      OBVIOUS
    <2>1. PICK e \in Nat : z = b + e
      <3>1. z - b \in Nat /\ z = b + (z - b)
        BY <1>3
      <3> QED
        BY <3>1
    <2>2. z * BlockSize = b * BlockSize + e * BlockSize /\ e * BlockSize \in Nat
      BY <1>1, <2>1
    <2> QED
      BY <1>1, <1>2, <1>3, <2>2
  <1>7. z + 1 \in 1..b /\ s + 1 \in 1..BlockSize /\ (z + 1) - 1 = z
    BY <1>1, <1>3, <1>4, <1>6
  <1>8. z * BlockSize + (s + 1) = i
    BY <1>1, <1>2, <1>3, <1>4, <1>5
  <1> QED
    BY <1>7, <1>8 DEF z, s

LEMMA BlockPlaces ==
    ASSUME AesAssumption, NEW full \in Seq(AnyOctet), NEW b \in Nat, Len(full) = b * BlockSize,
           NEW k \in 1..b
    PROVE  LET u == SubSeq(full, (k - 1) * BlockSize + 1, k * BlockSize)
           IN  /\ u \in [1..BlockSize -> AnyOctet]
               /\ \A r \in 1..BlockSize : u[r] = full[(k - 1) * BlockSize + r]
  <1> DEFINE s == (k - 1) * BlockSize
             u == SubSeq(full, s + 1, k * BlockSize)
  <1>1. s \in Nat /\ k * BlockSize = s + BlockSize /\ k * BlockSize <= Len(full)
        /\ Len(full) \in Nat /\ BlockSize \in Nat
    BY BlockBounds, Sizes
  <1> HIDE DEF s
  <1>2. s + 1 \in Nat \ {0} /\ k * BlockSize \in 0..Len(full) /\ s + 1 <= k * BlockSize + 1
    BY <1>1
  <1>3. /\ u \in Seq(AnyOctet) /\ Len(u) = k * BlockSize - (s + 1) + 1
        /\ \A i \in 1..Len(u) : u[i] = full[(s + 1) + i - 1]
    BY <1>2, OctetsPart
  <1> HIDE DEF u
  <1>4. Len(u) = BlockSize
    BY <1>1, <1>3
  <1>5. u \in [1..BlockSize -> AnyOctet]
    BY <1>3, <1>4
  <1>6. ASSUME NEW r \in 1..BlockSize PROVE u[r] = full[s + r]
    <2>1. (s + 1) + r - 1 = s + r
      BY <1>1
    <2> QED
      BY <1>3, <1>4, <2>1
  <1> QED
    BY <1>5, <1>6 DEF u, s

--------------------------------------------------------------------------------
(* What AES_cbc_encrypt makes of a message, and what it makes of blocks. *)
LEMMA EncryptedIs ==
    ASSUME AesAssumption, coded \in Nat, iv_enc \in Int, NEW data \in Seq(AnyOctet)
    PROVE  LET e == Encrypted(data)
           IN  /\ e \in Seq(Block) /\ Len(e) = BlocksIn(Len(data)) /\ Len(e) \in Nat
               /\ \A i \in 1..Len(e) :
                     /\ e[i].plain = SubSeq(Filled(data), (i - 1) * BlockSize + 1, i * BlockSize)
                     /\ e[i].id = coded + i
                     /\ e[i].prev = IF i = 1 THEN iv_enc ELSE coded + i - 1
  <1> DEFINE b == BlocksIn(Len(data))
             part(i) == SubSeq(Filled(data), (i - 1) * BlockSize + 1, i * BlockSize)
             one(i) == [id |-> coded + i, prev |-> IF i = 1 THEN iv_enc ELSE coded + i - 1,
                        plain |-> part(i)]
             e == [i \in 1..b |-> one(i)]
  <1>1. b \in Nat
    BY BlocksEnough, LenProperties
  <1>2. e = Encrypted(data)
    BY DEF Encrypted
  <1>3. ASSUME NEW i \in 1..b PROVE part(i) \in [1..BlockSize -> AnyOctet]
    <2>1. Filled(data) \in Seq(AnyOctet) /\ Len(Filled(data)) = b * BlockSize
      BY FilledPlaces
    <2> QED
      BY <1>1, <2>1, BlockPlaces
  <1> HIDE DEF b, part
  <1>4. ASSUME NEW i \in 1..b PROVE one(i) \in Block
    <2>1. coded + i \in Int /\ coded + i - 1 \in Int
      BY <1>1
    <2> QED
      BY <1>3, <2>1 DEF Block, AnyOctet
  <1>5. e \in Seq(Block) /\ Len(e) = b /\ \A i \in 1..b : e[i] = one(i)
    <2> HIDE DEF one
    <2> QED
      BY <1>1, <1>4
  <1>6. \A i \in 1..b : /\ e[i].plain = part(i) /\ e[i].id = coded + i
                        /\ e[i].prev = IF i = 1 THEN iv_enc ELSE coded + i - 1
    BY <1>5
  <1> HIDE DEF e
  <1> QED
    BY <1>1, <1>2, <1>5, <1>6 DEF b, part

LEMMA DecryptedIs ==
    ASSUME AesAssumption, NEW blocks \in Seq(Block)
    PROVE  LET d == Decrypted(blocks)
           IN  /\ d \in Seq(AnyOctet) /\ Len(d) = Len(blocks) * BlockSize
               /\ Len(blocks) \in Nat /\ Len(blocks) * BlockSize \in Nat
  <1> DEFINE b == Len(blocks)
             n == b * BlockSize
             at(i) == (i - 1) \div BlockSize + 1
             behind(i) == IF at(i) = 1 THEN iv_dec ELSE blocks[at(i) - 1].id
             part(i) == IF blocks[at(i)].prev = behind(i) THEN blocks[at(i)].plain ELSE Junk
             one(i) == part(i)[((i - 1) % BlockSize) + 1]
             d == [i \in 1..n |-> one(i)]
  <1>1. b \in Nat /\ BlockSize \in Nat
    BY LenProperties, Sizes
  <1>2. n \in Nat
    BY <1>1
  <1>3. d = Decrypted(blocks)
    BY DEF Decrypted
  <1>4. ASSUME NEW i \in 1..n PROVE one(i) \in AnyOctet
    <2>1. at(i) \in 1..b /\ ((i - 1) % BlockSize) + 1 \in 1..BlockSize
      BY <1>1, PlaceInBlock
    <2> HIDE DEF at
    <2>2. blocks[at(i)].plain \in [1..BlockSize -> AnyOctet]
      <3>1. blocks[at(i)] \in Block
        BY <2>1
      <3> QED
        BY <3>1 DEF Block, AnyOctet
    <2>3. Junk \in [1..BlockSize -> AnyOctet]
      BY DEF Junk, AnyOctet
    <2>4. part(i) \in [1..BlockSize -> AnyOctet]
      BY <2>2, <2>3
    <2> HIDE DEF part
    <2> QED
      BY <2>1, <2>4
  <1> HIDE DEF one, n
  <1>5. d \in Seq(AnyOctet) /\ Len(d) = n
    BY <1>2, <1>4
  <1> QED
    BY <1>1, <1>2, <1>3, <1>5 DEF n

(* Blocks that are chained to each other and to the vector are read back whole. *)
LEMMA DecryptedWhole ==
    ASSUME AesAssumption, NEW m \in Packet, Padded(m) \in Seq(AnyOctet), CodedWhole(m),
           m.blocks[1].prev = iv_dec
    PROVE  Decrypted(m.blocks) = Filled(Padded(m))
  <1> DEFINE blocks == m.blocks
             b == Len(blocks)
             full == Filled(Padded(m))
             d == Decrypted(blocks)
  <1>1. blocks \in Seq(Block)
    BY DEF Packet
  <1>2. d \in Seq(AnyOctet) /\ Len(d) = b * BlockSize /\ b \in Nat /\ b * BlockSize \in Nat
    BY <1>1, DecryptedIs
  <1>3. /\ b = BlocksIn(Len(Padded(m)))
        /\ \A i \in 1..b :
              /\ blocks[i].plain = SubSeq(full, (i - 1) * BlockSize + 1, i * BlockSize)
              /\ i > 1 => blocks[i].prev = blocks[i - 1].id
    BY DEF CodedWhole
  <1>4. full \in Seq(AnyOctet) /\ Len(full) = b * BlockSize
    BY <1>3, FilledPlaces
  <1> HIDE DEF full, b
  <1>5. ASSUME NEW i \in 1..b * BlockSize PROVE d[i] = full[i]
    <2> DEFINE k == (i - 1) \div BlockSize + 1
               r == ((i - 1) % BlockSize) + 1
               behind == IF k = 1 THEN iv_dec ELSE blocks[k - 1].id
               part == IF blocks[k].prev = behind THEN blocks[k].plain ELSE Junk
    <2>1. d[i] = part[r]
      BY <1>2 DEF Decrypted, b
    <2>2. k \in 1..b /\ r \in 1..BlockSize /\ (k - 1) * BlockSize + r = i
      BY <1>2, PlaceInBlock
    <2> HIDE DEF k, r
    <2>3. blocks[k].prev = behind
      <3>1. CASE k = 1
        BY <3>1
      <3>2. CASE k # 1
        <4>1. k > 1
          BY <1>2, <2>2, <3>2
        <4> QED
          BY <1>3, <2>2, <3>2, <4>1
      <3> QED
        BY <3>1, <3>2
    <2>4. part = SubSeq(full, (k - 1) * BlockSize + 1, k * BlockSize)
      BY <1>3, <2>2, <2>3
    <2>5. part[r] = full[(k - 1) * BlockSize + r]
      <3> DEFINE a == SubSeq(full, (k - 1) * BlockSize + 1, k * BlockSize)
      <3>1. \A j \in 1..BlockSize : a[j] = full[(k - 1) * BlockSize + j]
        BY <1>2, <1>4, <2>2, BlockPlaces
      <3>2. part = a
        BY <2>4
      <3> HIDE DEF a, part
      <3> QED
        BY <2>2, <3>1, <3>2
    <2> QED
      BY <2>1, <2>2, <2>5
  <1> HIDE DEF d
  <1>6. d = full
    BY <1>2, <1>4, <1>5, SeqEqual
  <1> QED
    BY <1>6 DEF d, full

--------------------------------------------------------------------------------
(* PKCS#7: the padded message fills its blocks, and its last byte tells how many *)
(* bytes to drop.                                                                *)
LEMMA PaddingPlaces ==
    ASSUME AesAssumption, NEW data \in Seq(AnyOctet)
    PROVE  LET padded == pkcs7_padding(data)
           IN  /\ padded \in Seq(AnyOctet) /\ Filled(padded) = padded /\ Len(padded) \in Nat \ {0}
               /\ pkcs7_unpadding(padded) = data
               /\ BlocksIn(Len(padded)) # 0
  <1> DEFINE n == Len(data)
             l == BlockSize - (n % BlockSize)
             pad == [i \in 1..l |-> l]
             padded == data \o pad
  <1>1. BlockSize \in Nat /\ BlockSize >= 1 /\ BlockSize <= 255 /\ n \in Nat
    BY LenProperties, Sizes
  <1>2. PICK k \in Nat, r \in 0..BlockSize - 1 : n = k * BlockSize + r
    BY <1>1, BlocksOver
  <1>3. l = BlockSize - r
    <2> HIDE DEF n
    <2>1. n % BlockSize = r
      BY <1>1, <1>2, BlocksExact
    <2> QED
      BY <2>1
  <1>4. l \in 1..255 /\ l \in Nat /\ l \in AnyOctet
    <2> HIDE DEF l
    <2>1. r \in Nat /\ r < BlockSize
      BY <1>1, <1>2
    <2>2. l \in 1..255
      BY <1>1, <1>3, <2>1
    <2> QED
      BY <2>2 DEF AnyOctet
  <1>5. pkcs7_padding(data) = padded
    BY DEF pkcs7_padding
  <1> HIDE DEF l
  <1>6. pad \in Seq(AnyOctet) /\ Len(pad) = l /\ \A i \in 1..l : pad[i] = l
    BY <1>4
  <1> HIDE DEF pad
  <1>7. /\ padded \in Seq(AnyOctet) /\ Len(padded) = n + l
        /\ \A i \in 1..n : padded[i] = data[i]
        /\ padded[n + l] = l
    <2>1. /\ padded \in Seq(AnyOctet) /\ Len(padded) = n + Len(pad)
          /\ \A i \in 1..n : padded[i] = data[i]
          /\ \A i \in 1..Len(pad) : padded[n + i] = pad[i]
      BY <1>6, OctetsJoin
    <2> HIDE DEF padded, n
    <2>2. l \in 1..Len(pad) /\ l \in 1..l
      BY <1>4, <1>6
    <2> QED
      BY <1>6, <2>1, <2>2
  <1> HIDE DEF padded, n
  <1>8. Len(padded) = (k + 1) * BlockSize + 0 /\ Len(padded) \in Nat \ {0}
    <2>1. (k + 1) * BlockSize = k * BlockSize + BlockSize /\ k * BlockSize \in Nat
      BY <1>1
    <2> QED
      BY <1>1, <1>2, <1>3, <1>4, <1>7, <2>1
  <1>9. BlocksIn(Len(padded)) = k + 1
    <2>1. k + 1 \in Nat /\ 0 \in 0..BlockSize - 1
      BY <1>1
    <2> QED
      BY <1>8, <2>1, BlocksExact
  <1>10. Filled(padded) = padded
    <2> DEFINE full == Filled(padded)
    <2>1. /\ full \in Seq(AnyOctet) /\ Len(full) = BlocksIn(Len(padded)) * BlockSize
          /\ \A i \in 1..Len(padded) : full[i] = padded[i]
      BY <1>7, FilledPlaces
    <2> HIDE DEF full
    <2>2. Len(full) = Len(padded)
      BY <1>1, <1>8, <1>9, <2>1
    <2>3. full = padded
      BY <1>7, <2>1, <2>2, SeqEqual
    <2> QED
      BY <2>3 DEF full
  <1>11. SubSeq(padded, 1, Len(padded) - Last(padded)) = data
    <2>1. Len(padded) - Last(padded) = n
      <3>1. Last(padded) = l
        BY <1>7 DEF Last
      <3> QED
        BY <1>1, <1>4, <1>7, <3>1
    <2> DEFINE back == SubSeq(padded, 1, n)
    <2>2. n \in 0..Len(padded) /\ 1 <= n + 1 /\ 1 \in Nat \ {0}
      BY <1>1, <1>4, <1>7
    <2>3. back \in Seq(AnyOctet) /\ Len(back) = n - 1 + 1 /\ \A i \in 1..Len(back) : back[i] = padded[1 + i - 1]
      BY <1>7, <2>2, OctetsPart
    <2> HIDE DEF back
    <2>4. Len(back) = n
      BY <1>1, <2>3
    <2>5. ASSUME NEW i \in 1..Len(back) PROVE back[i] = data[i]
      <3>1. 1 + i - 1 = i
        OBVIOUS
      <3>2. i \in 1..n
        BY <2>4
      <3> QED
        BY <1>7, <2>3, <3>1, <3>2
    <2>6. Len(back) = Len(data)
      BY <2>4 DEF n
    <2>7. back = data
      BY <2>3, <2>5, <2>6, SeqEqual
    <2> QED
      BY <2>1, <2>7 DEF back
  <1>12. pkcs7_unpadding(padded) = data
    BY <1>11 DEF pkcs7_unpadding
  <1>13. BlocksIn(Len(padded)) # 0
    BY <1>9
  <1> QED
    BY <1>5, <1>7, <1>8, <1>10, <1>12, <1>13

(* The last of some places. *)
LEMMA LargestIsIn ==
    ASSUME NEW n \in Nat, NEW I \in SUBSET (1..n), I # {}
    PROVE  Max(I) \in I
  <1> DEFINE J == {n - i : i \in I}
  <1>1. J \in SUBSET Nat /\ J # {}
    <2>1. \A i \in I : n - i \in Nat
      OBVIOUS
    <2>2. J \subseteq Nat
      BY <2>1
    <2>3. \E i \in I : n - i \in J
      OBVIOUS
    <2> QED
      BY <2>2, <2>3
  <1>2. PICK j \in J : \A h \in J : j <= h
    BY <1>1, SmallestIsIn
  <1>3. PICK x \in I : j = n - x
    BY <1>2
  <1>4. ASSUME NEW y \in I PROVE x >= y
    <2>1. n - y \in J
      OBVIOUS
    <2>2. n - x <= n - y
      BY <1>2, <1>3, <2>1
    <2>3. x \in 1..n /\ y \in 1..n
      OBVIOUS
    <2> QED
      BY <2>2, <2>3
  <1>5. \E z \in I : \A y \in I : z >= y
    BY <1>4
  <1> QED
    BY <1>5 DEF Max

LEMMA StripsPlaces ==
    ASSUME NEW data \in Seq(AnyOctet)
    PROVE  LET k == SelectLastInSeq(data, LAMBDA b : b # 0)
           IN  /\ k \in 0..Len(data) /\ StripZeros(data) = SubSeq(data, 1, k)
               /\ StripZeros(data) \in Seq(AnyOctet) /\ Len(StripZeros(data)) = k
               /\ \A i \in 1..k : StripZeros(data)[i] = data[i]
  <1> DEFINE I == {i \in 1..Len(data) : data[i] # 0}
             k == SelectLastInSeq(data, LAMBDA b : b # 0)
             r == SubSeq(data, 1, k)
  <1>1. Len(data) \in Nat
    BY LenProperties
  <1>2. k = IF I # {} THEN Max(I) ELSE 0
    BY DEF SelectLastInSeq
  <1>3. k \in 0..Len(data)
    <2>1. CASE I = {}
      BY <1>1, <1>2, <2>1
    <2>2. CASE I # {}
      <3>1. Max(I) \in I
        BY <1>1, <2>2, LargestIsIn
      <3>2. Max(I) \in 1..Len(data)
        BY <3>1
      <3> HIDE DEF I
      <3> QED
        BY <1>1, <1>2, <2>2, <3>2
    <2> QED
      BY <2>1, <2>2
  <1>4. StripZeros(data) = r
    BY DEF StripZeros
  <1> HIDE DEF k
  <1>5. 1 \in Nat \ {0} /\ 1 <= k + 1
    BY <1>1, <1>3
  <1>6. r \in Seq(AnyOctet) /\ Len(r) = k - 1 + 1 /\ \A i \in 1..Len(r) : r[i] = data[1 + i - 1]
    BY <1>3, <1>5, OctetsPart
  <1> HIDE DEF r
  <1>7. Len(r) = k
    BY <1>1, <1>3, <1>6
  <1>8. ASSUME NEW i \in 1..k PROVE r[i] = data[i]
    <2>1. 1 + i - 1 = i
      BY <1>1, <1>3
    <2> QED
      BY <1>6, <1>7, <2>1
  <1> QED
    BY <1>3, <1>4, <1>6, <1>7, <1>8 DEF k, r

(* The zeros that fill the last block are zeros at the end. *)
LEMMA StripsFilled ==
    ASSUME AesAssumption, NEW data \in Seq(AnyOctet)
    PROVE  StripZeros(Filled(data)) = StripZeros(data)
  <1> DEFINE full == Filled(data)
             n == Len(data)
             I == {i \in 1..n : data[i] # 0}
             F == {i \in 1..Len(full) : full[i] # 0}
             k == SelectLastInSeq(data, LAMBDA b : b # 0)
             f == SelectLastInSeq(full, LAMBDA b : b # 0)
  <1>1. /\ full \in Seq(AnyOctet) /\ Len(full) \in Nat
        /\ n \in Nat /\ n <= Len(full)
        /\ \A i \in 1..n : full[i] = data[i]
        /\ \A i \in 1..Len(full) : i > n => full[i] = 0
    BY FilledPlaces, LenProperties
  <1> HIDE DEF full, n
  <1>2. I = F
    <2>1. ASSUME NEW i \in I PROVE i \in F
      BY <1>1
    <2>2. ASSUME NEW i \in F PROVE i \in I
      BY <1>1
    <2> QED
      BY <2>1, <2>2
  <1>3. f = k
    <2>1. k = IF I # {} THEN Max(I) ELSE 0
      BY DEF SelectLastInSeq, n
    <2>2. f = IF F # {} THEN Max(F) ELSE 0
      BY DEF SelectLastInSeq
    <2> HIDE DEF I, F, k, f
    <2> QED
      BY <1>2, <2>1, <2>2
  <1>4. /\ k \in 0..n /\ StripZeros(data) \in Seq(AnyOctet) /\ Len(StripZeros(data)) = k
        /\ \A i \in 1..k : StripZeros(data)[i] = data[i]
    BY StripsPlaces DEF n
  <1>5. /\ StripZeros(full) \in Seq(AnyOctet) /\ Len(StripZeros(full)) = f
        /\ \A i \in 1..f : StripZeros(full)[i] = full[i]
    BY <1>1, StripsPlaces
  <1> HIDE DEF k, f
  <1>6. ASSUME NEW i \in 1..k PROVE StripZeros(full)[i] = StripZeros(data)[i]
    <2>1. i \in 1..n
      BY <1>1, <1>4
    <2> QED
      BY <1>1, <1>3, <1>4, <1>5, <2>1
  <1>7. StripZeros(full) = StripZeros(data)
    BY <1>3, <1>4, <1>5, <1>6, SeqEqual
  <1> QED
    BY <1>7 DEF full

--------------------------------------------------------------------------------
LEMMA PaddedIs ==
    ASSUME AesAssumption, NEW m, m.mode \in {"pkcs7", "zero"}, m.sent \in Seq(Octet)
    PROVE  m.sent \in Seq(AnyOctet) /\ Padded(m) \in Seq(AnyOctet)
  <1>1. m.sent \in Seq(AnyOctet)
    BY Sizes
  <1>2. pkcs7_padding(m.sent) \in Seq(AnyOctet)
    BY <1>1, PaddingPlaces
  <1> QED
    BY <1>1, <1>2 DEF Padded

LEMMA InitAesInv == ASSUME AesAssumption, AesInit PROVE AesInv
  <1>1. AesTypeOK
    BY DEF AesInit, AesTypeOK
  <1>2. VectorsAgree
    <2>1. Len(packets) = 0 /\ iv_enc = iv_dec
      BY DEF AesInit
    <2> QED
      BY <2>1 DEF VectorsAgree, VectorBehind
  <1>3. ReadsBack
    BY DEF AesInit, ReadsBack
  <1> QED
    BY <1>1, <1>2, <1>3 DEF AesInv

(* A packet that is sent behind the others, coded with the vector of the last one. *)
LEMMA StepSend ==
    ASSUME AesAssumption, AesInv, NEW mode \in {"pkcs7", "zero"}, NEW data \in Seq(Octet),
           NEW blocks \in Seq(Block) \ {<<>>}, NEW n \in Nat, Send(mode, data, blocks, n),
           LET m == [mode |-> mode, sent |-> data, blocks |-> blocks]
           IN  ~FillsBlocks(m) => /\ CodedWhole(m) /\ m.blocks[1].prev = iv_enc
                                  /\ n = Len(m.blocks) /\ m.blocks[n].id = coded + n
    PROVE  AesInv'
  <1> DEFINE m == [mode |-> mode, sent |-> data, blocks |-> blocks]
  <1>1. /\ packets' = Append(packets, m) /\ coded' = coded + n
        /\ iv_enc' = (IF n = 0 THEN iv_enc ELSE coded + n)
        /\ iv_dec' = iv_dec /\ deciphered' = deciphered
    BY DEF Send
  <1>2. m \in Packet
    BY DEF Packet
  <1>3. ~FillsBlocks(m) => /\ CodedWhole(m) /\ m.blocks[1].prev = iv_enc
                           /\ n = Len(m.blocks) /\ m.blocks[n].id = coded + n
    OBVIOUS
  <1> HIDE DEF m
  <1>00. packets \in Seq(Packet)
    BY DEF AesInv, AesTypeOK
  <1>0. PICK l \in Nat : l = Len(packets)
    BY <1>00, LenProperties
  <1>4. packets \in Seq(Packet) /\ l \in Nat
    BY <1>00
  <1>5. /\ packets' \in Seq(Packet) /\ Len(packets') = l + 1
        /\ \A i \in 1..l : packets'[i] = packets[i]
        /\ packets'[l + 1] = m
    BY <1>1, <1>2, <1>4, <1>0, AppendPlaces
  <1>6. AesTypeOK'
    <2>1. iv_enc' \in Int /\ coded' \in Nat /\ iv_dec' \in Int
      BY <1>1 DEF AesInv, AesTypeOK
    <2> QED
      BY <1>1, <1>5, <2>1 DEF AesInv, AesTypeOK
  <1>7. ASSUME NEW i \in 0..l PROVE VectorBehind(i)' = VectorBehind(i)
    <2>1. i = 0 \/ i \in 1..l
      BY <1>4
    <2> QED
      BY <1>1, <1>5, <2>1 DEF VectorBehind
  <1>8. ASSUME NEW i \in 0..l PROVE Clean(i)' <=> Clean(i)
    <2>1. \A j \in 1..i : packets'[j] = packets[j]
      BY <1>4, <1>5
    <2> QED
      BY <1>1, <2>1 DEF Clean, FillsBlocks
  <1>9. Clean(l + 1)' => Clean(l) /\ ~FillsBlocks(m)
    <2>1. ASSUME Clean(l + 1)' PROVE Clean(l)' /\ ~FillsBlocks(m)
      <3>1. l + 1 \in 1..l + 1 /\ 1..l \subseteq 1..l + 1
        BY <1>4
      <3> QED
        BY <1>5, <2>1, <3>1 DEF Clean, FillsBlocks
    <2>2. l \in 0..l
      BY <1>4
    <2> QED
      BY <1>8, <2>1, <2>2
  <1>10. /\ \A i \in 1..l : Clean(i) => CodedWhole(packets[i]) /\ packets[i].blocks[1].prev = VectorBehind(i - 1)
         /\ Clean(l) => iv_enc = VectorBehind(l)
    BY <1>0 DEF AesInv, VectorsAgree
  <1>11. ASSUME NEW i \in 1..l + 1, Clean(i)'
         PROVE  CodedWhole(packets'[i]) /\ packets'[i].blocks[1].prev = VectorBehind(i - 1)'
    <2>1. CASE i \in 1..l
      <3>1. i \in 0..l /\ i - 1 \in 0..l
        BY <1>4, <2>1
      <3>2. Clean(i) /\ VectorBehind(i - 1)' = VectorBehind(i - 1)
        BY <1>7, <1>8, <1>11, <3>1
      <3> QED
        BY <1>5, <1>10, <2>1, <3>2
    <2>2. CASE i = l + 1
      <3>1. Clean(l) /\ ~FillsBlocks(m)
        BY <1>9, <1>11, <2>2
      <3>2. i - 1 = l /\ l \in 0..l
        BY <1>4, <2>2
      <3>3. VectorBehind(i - 1)' = VectorBehind(l)
        BY <1>7, <3>2
      <3> QED
        BY <1>3, <1>5, <1>10, <2>2, <3>1, <3>3
    <2> QED
      BY <1>4, <2>1, <2>2
  <1>12. ASSUME Clean(l + 1)' PROVE iv_enc' = VectorBehind(l + 1)'
    <2>1. Clean(l) /\ ~FillsBlocks(m)
      BY <1>9, <1>12
    <2>2. n = Len(m.blocks) /\ m.blocks[n].id = coded + n /\ n # 0
      BY <1>3, <2>1 DEF CodedWhole
    <2>3. VectorBehind(l + 1)' = packets'[l + 1].blocks[Len(packets'[l + 1].blocks)].id
      BY <1>4 DEF VectorBehind
    <2> QED
      BY <1>1, <1>5, <2>2, <2>3
  <1>13. VectorsAgree'
    <2>1. \A i \in 1..l + 1 : Clean(i)' => (CodedWhole(packets[i]) /\ packets[i].blocks[1].prev = VectorBehind(i - 1))'
      BY <1>11
    <2> QED
      BY <1>5, <1>12, <2>1 DEF VectorsAgree
  <1>14. ReadsBack'
    BY <1>1 DEF AesInv, ReadsBack, FillsBlocks
  <1> QED
    BY <1>6, <1>13, <1>14 DEF AesInv

(* A message that is encrypted whole is cut into blocks that are chained. *)
LEMMA EncryptedWhole ==
    ASSUME AesAssumption, AesInv, NEW m, Padded(m) \in Seq(AnyOctet),
           m.blocks = Encrypted(Padded(m)), BlocksIn(Len(Padded(m))) # 0
    PROVE  /\ m.blocks \in Seq(Block) \ {<<>>} /\ Len(m.blocks) \in Nat
           /\ CodedWhole(m) /\ m.blocks[1].prev = iv_enc
           /\ m.blocks[Len(m.blocks)].id = coded + Len(m.blocks)
  <1> DEFINE e == Encrypted(Padded(m))
             b == Len(e)
             part(i) == SubSeq(Filled(Padded(m)), (i - 1) * BlockSize + 1, i * BlockSize)
  <1>1. coded \in Nat /\ iv_enc \in Int
    BY DEF AesInv, AesTypeOK
  <1>2. /\ e \in Seq(Block) /\ b = BlocksIn(Len(Padded(m))) /\ b \in Nat
        /\ \A i \in 1..b : /\ e[i].plain = part(i) /\ e[i].id = coded + i
                           /\ e[i].prev = IF i = 1 THEN iv_enc ELSE coded + i - 1
    BY <1>1, EncryptedIs
  <1> HIDE DEF e, part
  <1>3. b > 0 /\ 1 \in 1..b /\ b \in 1..b /\ e # <<>>
    BY <1>2
  <1>4. ASSUME NEW i \in 1..b, i > 1 PROVE e[i].prev = e[i - 1].id
    <2>1. e[i].prev = coded + i - 1
      BY <1>2, <1>4
    <2>2. i - 1 \in 1..b
      BY <1>2, <1>4
    <2>3. e[i - 1].id = coded + (i - 1)
      BY <1>2, <2>2
    <2> HIDE DEF b
    <2> QED
      BY <1>1, <1>2, <2>1, <2>3
  <1>5. m.blocks = e
    BY DEF e
  <1>6. CodedWhole(m)
    BY <1>2, <1>3, <1>4, <1>5 DEF CodedWhole, part
  <1> QED
    BY <1>2, <1>3, <1>5, <1>6

LEMMA StepSendPkcs7 ==
    ASSUME AesAssumption, AesInv, NEW data \in Seq(Octet), aes_cbc_pad_pkcs7_en(data)
    PROVE  AesInv'
  <1> DEFINE blocks == Encrypted(pkcs7_padding(data))
             m == [mode |-> "pkcs7", sent |-> data, blocks |-> blocks]
  <1>1. Send("pkcs7", data, blocks, Len(blocks))
    BY DEF aes_cbc_pad_pkcs7_en
  <1>2. Padded(m) = pkcs7_padding(data)
    BY DEF Padded
  <1>3. data \in Seq(AnyOctet)
    BY Sizes
  <1>4. Padded(m) \in Seq(AnyOctet) /\ BlocksIn(Len(Padded(m))) # 0
    BY <1>2, <1>3, PaddingPlaces
  <1>5. m.blocks = Encrypted(Padded(m)) /\ m.blocks = blocks
    BY <1>2
  <1> HIDE DEF m
  <1>6. /\ m.blocks \in Seq(Block) \ {<<>>} /\ Len(m.blocks) \in Nat
        /\ CodedWhole(m) /\ m.blocks[1].prev = iv_enc
        /\ m.blocks[Len(m.blocks)].id = coded + Len(m.blocks)
    BY <1>4, <1>5, EncryptedWhole
  <1> HIDE DEF blocks
  <1>7. /\ blocks \in Seq(Block) \ {<<>>} /\ Len(blocks) \in Nat
        /\ ~FillsBlocks(m) => /\ CodedWhole(m) /\ m.blocks[1].prev = iv_enc
                              /\ Len(blocks) = Len(m.blocks)
                              /\ m.blocks[Len(blocks)].id = coded + Len(blocks)
    BY <1>5, <1>6
  <1> QED
    BY <1>1, <1>7, StepSend DEF m

LEMMA StepSendZero ==
    ASSUME AesAssumption, AesInv, NEW data \in Seq(Octet), aes_cbc_pad_zero_en(data)
    PROVE  AesInv'
  <1> DEFINE e == Encrypted(data)
             len == ((Len(data) + BlockSize) \div BlockSize) * BlockSize
             raw == [i \in 1..(len \div BlockSize) - Len(e) |-> Raw]
             blocks == e \o raw
             m == [mode |-> "zero", sent |-> data, blocks |-> blocks]
  <1>1. Send("zero", data, blocks, Len(e))
    BY DEF aes_cbc_pad_zero_en
  <1>2. Padded(m) = data /\ (FillsBlocks(m) <=> Len(data) % BlockSize = 0)
    BY DEF Padded, FillsBlocks
  <1>3. data \in Seq(AnyOctet) /\ Len(data) \in Nat /\ BlockSize \in Nat \ {0}
    BY Sizes, LenProperties
  <1>4. e \in Seq(Block) /\ Len(e) = BlocksIn(Len(data)) /\ Len(e) \in Nat
    <2>1. coded \in Nat /\ iv_enc \in Int
      BY DEF AesInv, AesTypeOK
    <2> QED
      BY <1>3, <2>1, EncryptedIs
  <1>5. PICK k \in Nat, r \in 0..BlockSize - 1 : Len(data) = k * BlockSize + r
    BY <1>3, BlocksOver
  <1>6. /\ Len(data) % BlockSize = r
        /\ (Len(data) + BlockSize) \div BlockSize = k + 1
        /\ BlocksIn(Len(data)) = IF r = 0 THEN k ELSE k + 1
    BY ZenonT(60), <1>3, <1>5, BlocksExact
  <1>7. len \div BlockSize = k + 1
    <2> DEFINE t == (k + 1) * BlockSize
    <2>1. len = t
      BY <1>6
    <2>2. t \in Nat /\ t = (k + 1) * BlockSize + 0 /\ k + 1 \in Nat /\ 0 \in 0..BlockSize - 1
      BY <1>3
    <2> HIDE DEF t
    <2>3. t \div BlockSize = k + 1
      BY <2>2, BlocksExact
    <2> HIDE DEF len
    <2> QED
      BY <2>1, <2>3
  <1> HIDE DEF e, len
  <1>8. (len \div BlockSize) - Len(e) = IF r = 0 THEN 1 ELSE 0
    BY <1>4, <1>6, <1>7
  <1>9. raw = [i \in 1..(IF r = 0 THEN 1 ELSE 0) |-> Raw]
    BY <1>8
  <1>10. raw \in Seq(Block) /\ Len(raw) = IF r = 0 THEN 1 ELSE 0
    <2>1. Raw \in Block
      BY DEF Raw, Junk, Block
    <2> HIDE DEF raw
    <2> QED
      BY <1>9, <2>1
  <1>11. r # 0 => blocks = e
    <2>1. r # 0 => raw = <<>>
      BY <1>10, EmptySeq
    <2> HIDE DEF raw
    <2> QED
      BY <1>4, <2>1
  <1> HIDE DEF raw
  <1>12. blocks \in Seq(Block) /\ Len(blocks) = Len(e) + Len(raw)
    BY <1>4, <1>10, ConcatPlaces
  <1>13. blocks # <<>>
    <2>1. Len(blocks) # 0
      BY <1>4, <1>6, <1>10, <1>12
    <2> HIDE DEF blocks
    <2> QED
      BY <2>1
  <1>14. ASSUME ~FillsBlocks(m)
         PROVE  /\ CodedWhole(m) /\ m.blocks[1].prev = iv_enc
                /\ Len(e) = Len(m.blocks) /\ m.blocks[Len(e)].id = coded + Len(e)
    <2>1. r # 0
      BY <1>2, <1>6, <1>14
    <2>2. m.blocks = e
      BY <1>11, <2>1
    <2>3. BlocksIn(Len(Padded(m))) # 0
      BY <1>2, <1>6, <2>1
    <2>4. Padded(m) \in Seq(AnyOctet) /\ m.blocks = Encrypted(Padded(m))
      BY <1>2, <1>3, <2>2 DEF e
    <2> HIDE DEF m
    <2>5. /\ CodedWhole(m) /\ m.blocks[1].prev = iv_enc
          /\ m.blocks[Len(m.blocks)].id = coded + Len(m.blocks)
      BY <2>3, <2>4, EncryptedWhole
    <2> QED
      BY <2>2, <2>5
  <1> HIDE DEF blocks
  <1> QED
    BY <1>1, <1>4, <1>12, <1>13, <1>14, StepSend

(* What is read of a message whose packet is chained to the vector of its reader. *)
LEMMA ReadWhole ==
    ASSUME AesAssumption, NEW m \in Packet, CodedWhole(m), m.blocks[1].prev = iv_dec
    PROVE  (IF m.mode = "pkcs7" THEN pkcs7_unpadding(Decrypted(m.blocks))
                                ELSE StripZeros(Decrypted(m.blocks)))
             = IF m.mode = "pkcs7" THEN m.sent ELSE StripZeros(m.sent)
  <1>1. m.mode \in {"pkcs7", "zero"} /\ m.sent \in Seq(Octet)
    BY DEF Packet
  <1>2. m.sent \in Seq(AnyOctet) /\ Padded(m) \in Seq(AnyOctet)
    BY <1>1, PaddedIs
  <1>3. Decrypted(m.blocks) = Filled(Padded(m))
    BY <1>2, DecryptedWhole
  <1>4. CASE m.mode = "pkcs7"
    <2>1. Padded(m) = pkcs7_padding(m.sent)
      BY <1>4 DEF Padded
    <2>2. /\ Filled(pkcs7_padding(m.sent)) = pkcs7_padding(m.sent)
          /\ pkcs7_unpadding(pkcs7_padding(m.sent)) = m.sent
      BY <1>2, PaddingPlaces
    <2> QED
      BY <1>3, <1>4, <2>1, <2>2
  <1>5. CASE m.mode = "zero"
    <2>1. Padded(m) = m.sent
      BY <1>5 DEF Padded
    <2>2. StripZeros(Filled(m.sent)) = StripZeros(m.sent)
      BY <1>2, StripsFilled
    <2> QED
      BY <1>3, <1>5, <2>1, <2>2
  <1> QED
    BY <1>1, <1>4, <1>5

(* Whatever is read of it is a sequence of bytes. *)
LEMMA ReadIs ==
    ASSUME AesAssumption, NEW m \in Packet
    PROVE  /\ pkcs7_unpadding(Decrypted(m.blocks)) \in Seq(AnyOctet)
           /\ StripZeros(Decrypted(m.blocks)) \in Seq(AnyOctet)
  <1> DEFINE d == Decrypted(m.blocks)
  <1>1. m.blocks \in Seq(Block) /\ m.blocks # <<>>
    BY DEF Packet
  <1>2. d \in Seq(AnyOctet) /\ Len(d) = Len(m.blocks) * BlockSize /\ Len(d) \in Nat
    BY <1>1, DecryptedIs
  <1>3. Len(d) # 0
    <2>1. PICK b \in Nat : b = Len(m.blocks)
      BY <1>1, LenProperties
    <2>2. b # 0
      BY <1>1, <2>1, EmptySeq
    <2>3. PICK j \in Nat : b = j + 1
      <3>1. b - 1 \in Nat /\ b = (b - 1) + 1
        BY <2>2
      <3> QED
        BY <3>1
    <2>4. b * BlockSize = j * BlockSize + BlockSize /\ j * BlockSize \in Nat
      BY <2>3, Sizes
    <2> HIDE DEF d
    <2> QED
      BY <1>2, <2>1, <2>4, Sizes
  <1> HIDE DEF d
  <1>4. StripZeros(d) \in Seq(AnyOctet)
    BY <1>2, StripsPlaces
  <1>5. pkcs7_unpadding(d) \in Seq(AnyOctet)
    <2>1. PICK c \in 0..255 : c = Last(d)
      <3>1. Len(d) \in 1..Len(d)
        BY <1>2, <1>3
      <3>2. d[Len(d)] \in AnyOctet
        BY <1>2, <3>1
      <3> QED
        BY <3>2 DEF Last, AnyOctet
    <2>2. pkcs7_unpadding(d) = SubSeq(d, 1, Len(d) - c)
      BY <2>1 DEF pkcs7_unpadding
    <2>3. PICK z \in Int : z = Len(d) - c
      BY <1>2
    <2>4. 1 \in Int /\ \A i \in 1..z : d[i] \in AnyOctet
      BY <1>2, <2>3
    <2>5. SubSeq(d, 1, z) \in Seq(AnyOctet)
      BY <2>4, SubSeqProperties, ZenonT(30)
    <2> QED
      BY <2>2, <2>3, <2>5
  <1> QED
    BY <1>4, <1>5 DEF d

LEMMA StepReceive ==
    ASSUME AesAssumption, AesInv, NEW mode \in {"pkcs7", "zero"}, Receive(mode)
    PROVE  AesInv'
  <1> DEFINE m == packets[1]
             data == Decrypted(m.blocks)
             read == IF mode = "pkcs7" THEN pkcs7_unpadding(data) ELSE StripZeros(data)
             entry == [mode |-> mode, sent |-> m.sent, read |-> read]
  <1>1. packets \in Seq(Packet) /\ packets # <<>>
    BY DEF Receive, AesInv, AesTypeOK
  <1>2. PICK l \in Nat : l + 1 = Len(packets)
    <2>1. Len(packets) \in Nat \ {0}
      BY <1>1, TailPlaces
    <2>2. Len(packets) - 1 \in Nat /\ (Len(packets) - 1) + 1 = Len(packets)
      BY <2>1
    <2> QED
      BY <2>2
  <1>3. /\ packets' \in Seq(Packet) /\ Len(packets') = l
        /\ \A i \in 1..l : packets'[i] = packets[i + 1]
        /\ Head(packets) = m /\ m \in Packet
    <2>1. /\ Tail(packets) \in Seq(Packet) /\ Len(Tail(packets)) = Len(packets) - 1
          /\ \A i \in 1..Len(packets) - 1 : Tail(packets)[i] = packets[i + 1]
          /\ Head(packets) = packets[1]
      BY <1>1, TailPlaces
    <2>2. packets' = Tail(packets)
      BY DEF Receive
    <2>3. Len(packets) - 1 = l /\ 1 \in 1..Len(packets)
      BY <1>2
    <2>4. m \in Packet
      BY <1>1, <2>3
    <2> HIDE DEF m
    <2> QED
      BY <2>1, <2>2, <2>3, <2>4 DEF m
  <1>4. /\ mode = m.mode /\ deciphered' = Append(deciphered, entry)
        /\ iv_dec' = m.blocks[Len(m.blocks)].id /\ iv_enc' = iv_enc /\ coded' = coded
    BY <1>3 DEF Receive, Last
  <1>5. /\ deciphered \in Seq([mode : {"pkcs7", "zero"}, sent : Seq(Octet), read : Seq(AnyOctet)])
        /\ iv_dec \in Int /\ iv_enc \in Int /\ coded \in Nat
    BY DEF AesInv, AesTypeOK, AnyOctet
  <1>6. entry \in [mode : {"pkcs7", "zero"}, sent : Seq(Octet), read : Seq(AnyOctet)]
    <2>1. read \in Seq(AnyOctet)
      BY <1>3, ReadIs
    <2>2. m.sent \in Seq(Octet)
      BY <1>3 DEF Packet
    <2> HIDE DEF read, m
    <2> QED
      BY <2>1, <2>2
  <1>7. entry.mode = m.mode /\ entry.sent = m.sent /\ entry.read = read
    BY <1>4
  <1> HIDE DEF entry
  <1>8. PICK g \in Nat : g = Len(deciphered)
    BY <1>5, LenProperties
  <1>9. /\ deciphered' \in Seq([mode : {"pkcs7", "zero"}, sent : Seq(Octet), read : Seq(AnyOctet)])
        /\ Len(deciphered') = g + 1 /\ deciphered'[g + 1] = entry
        /\ \A j \in 1..g : deciphered'[j] = deciphered[j]
    BY <1>4, <1>5, <1>6, <1>8, AppendPlaces
  <1>10. AesTypeOK'
    <2>1. iv_dec' \in Int
      <3>1. PICK b \in Nat : b = Len(m.blocks)
        BY <1>3, LenProperties DEF Packet
      <3>2. m.blocks \in Seq(Block) /\ b # 0
        BY <1>3, <3>1, EmptySeq DEF Packet
      <3>3. m.blocks[b] \in Block
        BY <3>1, <3>2
      <3> QED
        BY <1>4, <3>1, <3>3 DEF Block
    <2> QED
      BY <1>3, <1>4, <1>5, <1>9, <2>1 DEF AesTypeOK, AnyOctet
  <1>11. FillsBlocks(entry) <=> FillsBlocks(m)
    BY <1>7 DEF FillsBlocks
  <1> HIDE DEF m
  <1>12. ASSUME NEW i \in 0..l, Clean(i)' PROVE Clean(i + 1)
    <2>1. ASSUME NEW j \in 1..g PROVE ~FillsBlocks(deciphered[j])
      <3>1. j \in 1..g + 1 /\ deciphered'[j] = deciphered[j]
        BY <1>9
      <3>2. (\A h \in 1..Len(deciphered) : ~FillsBlocks(deciphered[h]))'
        BY <1>12 DEF Clean
      <3>3. \A h \in 1..g + 1 : ~FillsBlocks(deciphered'[h])
        BY <1>9, <3>2 DEF FillsBlocks
      <3> QED
        BY <3>1, <3>3
    <2>2. ~FillsBlocks(m)
      <3>1. g + 1 \in 1..g + 1
        OBVIOUS
      <3>2. (\A h \in 1..Len(deciphered) : ~FillsBlocks(deciphered[h]))'
        BY <1>12 DEF Clean
      <3>3. \A h \in 1..g + 1 : ~FillsBlocks(deciphered'[h])
        BY <1>9, <3>2 DEF FillsBlocks
      <3> QED
        BY <1>9, <1>11, <3>1, <3>3
    <2>3. ASSUME NEW j \in 1..i + 1 PROVE ~FillsBlocks(packets[j])
      <3>1. CASE j = 1
        BY <2>2, <3>1 DEF m
      <3>2. CASE j # 1
        <4>1. j - 1 \in 1..i /\ j - 1 \in 1..l /\ (j - 1) + 1 = j
          BY <1>2, <3>2
        <4>2. (\A h \in 1..i : ~FillsBlocks(packets[h]))'
          BY <1>12 DEF Clean
        <4>3. ~FillsBlocks(packets'[j - 1])
          BY <4>1, <4>2 DEF FillsBlocks
        <4> QED
          BY <1>3, <4>1, <4>3
      <3> QED
        BY <3>1, <3>2
    <2> QED
      BY <1>8, <2>1, <2>3 DEF Clean
  <1>13. ASSUME NEW i \in 0..l PROVE VectorBehind(i)' = VectorBehind(i + 1)
    <2>1. i + 1 # 0
      BY <1>2
    <2>2. CASE i = 0
      BY <1>4, <2>2 DEF VectorBehind, m
    <2>3. CASE i # 0
      <3>1. i \in 1..l
        BY <2>3
      <3> QED
        BY <1>3, <2>1, <2>3, <3>1 DEF VectorBehind
    <2> QED
      BY <2>2, <2>3
  <1>14. /\ \A i \in 1..l + 1 : Clean(i) => CodedWhole(packets[i]) /\ packets[i].blocks[1].prev = VectorBehind(i - 1)
         /\ Clean(l + 1) => iv_enc = VectorBehind(l + 1)
    BY <1>2 DEF AesInv, VectorsAgree
  <1>15. VectorsAgree'
    <2>1. ASSUME NEW i \in 1..l, Clean(i)'
          PROVE  (CodedWhole(packets[i]) /\ packets[i].blocks[1].prev = VectorBehind(i - 1))'
      <3>1. i \in 0..l /\ i + 1 \in 1..l + 1 /\ i - 1 \in 0..l /\ (i + 1) - 1 = i /\ (i - 1) + 1 = i
        OBVIOUS
      <3>2. CodedWhole(packets[i + 1]) /\ packets[i + 1].blocks[1].prev = VectorBehind(i)
        BY <1>12, <1>14, <2>1, <3>1
      <3>3. VectorBehind(i - 1)' = VectorBehind(i)
        BY <1>13, <3>1
      <3>4. packets'[i] = packets[i + 1]
        BY <1>3
      <3> QED
        BY <3>2, <3>3, <3>4
    <2>2. Clean(l)' => iv_enc' = VectorBehind(l)'
      <3>1. l \in 0..l
        OBVIOUS
      <3> QED
        BY <1>4, <1>12, <1>13, <1>14, <3>1
    <2> QED
      BY <1>3, <2>1, <2>2 DEF VectorsAgree
  <1>16. ASSUME NEW i \in 1..g + 1, \A j \in 1..i : ~FillsBlocks(deciphered'[j])
         PROVE  deciphered'[i].read =
                   IF deciphered'[i].mode = "pkcs7" THEN deciphered'[i].sent
                   ELSE StripZeros(deciphered'[i].sent)
    <2>1. CASE i \in 1..g
      <3>1. \A j \in 1..i : j \in 1..g
        BY <2>1
      <3>2. \A j \in 1..i : ~FillsBlocks(deciphered[j])
        BY <1>9, <1>16, <3>1
      <3>3. i \in DOMAIN deciphered
        BY <1>5, <1>8, <2>1
      <3>4. deciphered[i].read = IF deciphered[i].mode = "pkcs7" THEN deciphered[i].sent
                                 ELSE StripZeros(deciphered[i].sent)
        BY <3>2, <3>3 DEF AesInv, ReadsBack
      <3> QED
        BY <1>9, <2>1, <3>4
    <2>2. CASE i = g + 1
      <3>1. Clean(1)
        <4>1. \A j \in 1..g : ~FillsBlocks(deciphered[j])
          <5>1. \A j \in 1..g : j \in 1..g + 1
            OBVIOUS
          <5> QED
            BY <1>9, <1>16, <2>2, <5>1
        <4>2. ~FillsBlocks(m)
          BY <1>9, <1>11, <1>16, <2>2
        <4> QED
          BY <1>8, <4>1, <4>2 DEF Clean, m
      <3>2. CodedWhole(m) /\ m.blocks[1].prev = iv_dec
        <4>1. 1 \in 1..l + 1 /\ 1 - 1 = 0
          OBVIOUS
        <4>2. CodedWhole(packets[1]) /\ packets[1].blocks[1].prev = VectorBehind(1 - 1)
          BY <1>14, <3>1, <4>1
        <4>3. VectorBehind(1 - 1) = iv_dec
          BY <4>1 DEF VectorBehind
        <4> QED
          BY <4>2, <4>3 DEF m
      <3>3. read = IF m.mode = "pkcs7" THEN m.sent ELSE StripZeros(m.sent)
        <4>1. (IF m.mode = "pkcs7" THEN pkcs7_unpadding(data) ELSE StripZeros(data))
                = IF m.mode = "pkcs7" THEN m.sent ELSE StripZeros(m.sent)
          BY <1>3, <3>2, ReadWhole
        <4> HIDE DEF data
        <4> QED
          BY <1>4, <4>1
      <3> QED
        BY <1>7, <1>9, <2>2, <3>3
    <2> QED
      BY <2>1, <2>2
  <1>17. ReadsBack'
    <2>1. DOMAIN deciphered' = 1..g + 1
      BY <1>9
    <2>2. ASSUME NEW i \in 1..g + 1, (\A j \in 1..i : ~FillsBlocks(deciphered[j]))'
          PROVE  (deciphered[i].read = IF deciphered[i].mode = "pkcs7" THEN deciphered[i].sent
                                       ELSE StripZeros(deciphered[i].sent))'
      <3>1. \A j \in 1..i : ~FillsBlocks(deciphered'[j])
        BY <2>2 DEF FillsBlocks
      <3> QED
        BY <1>16, <3>1
    <2> QED
      BY <2>1, <2>2 DEF ReadsBack
  <1> QED
    BY <1>10, <1>15, <1>17 DEF AesInv

LEMMA AesInvNext == ASSUME AesAssumption, AesInv, [AesNext]_aesVars PROVE AesInv'
  <1>1. CASE UNCHANGED aesVars
    BY <1>1 DEF aesVars, AesInv, AesTypeOK, VectorsAgree, ReadsBack, Clean, VectorBehind,
                CodedWhole, Padded, FillsBlocks
  <1>2. CASE AesNext
    <2>1. ASSUME NEW data \in BoundedSeq(Octet, MaxLen) PROVE data \in Seq(Octet)
      <3>1. MaxLen \in Nat
        BY DEF AesAssumption
      <3>2. PICK k \in 0..MaxLen : data \in [1..k -> Octet]
        BY DEF BoundedSeq, SeqOf
      <3> QED
        BY <3>1, <3>2
    <2>2. CASE \E data \in BoundedSeq(Octet, MaxLen) :
                  aes_cbc_pad_pkcs7_en(data) \/ aes_cbc_pad_zero_en(data)
      BY <2>1, <2>2, StepSendPkcs7, StepSendZero
    <2>3. CASE aes_cbc_pad_pkcs7_de \/ aes_cbc_pad_zero_de
      BY <2>3, StepReceive DEF aes_cbc_pad_pkcs7_de, aes_cbc_pad_zero_de
    <2> QED
      BY <1>2, <2>2, <2>3 DEF AesNext
  <1> QED
    BY <1>1, <1>2

(* The packets between the two ends are chained, and the ends to them. *)
THEOREM AesInductive == ASSUME AesAssumption PROVE AesSpec => []AesInv
  <1>1. AesInit => AesInv
    BY InitAesInv
  <1>2. AesInv /\ [AesNext]_aesVars => AesInv'
    BY AesInvNext
  <1> QED
    BY <1>1, <1>2, PTL DEF AesSpec

(* aes_cbc_pad_pkcs7_de and aes_cbc_pad_zero_de give back what was encrypted. *)
THEOREM Deciphered == ASSUME AesAssumption PROVE AesSpec => []ReadsBack
  <1>1. AesInv => ReadsBack
    BY DEF AesInv
  <1> QED
    BY <1>1, AesInductive, PTL

-----------------------------------------------------------------------------
(* RsaText *)


(* What a piece has of a key's length. *)
LEMMA Rounds ==
    ASSUME RsaAssumption
    PROVE  /\ Round \in Nat \ {0} /\ Round \in Nat /\ Round >= 1 /\ KeyLen \in Nat /\ Overhead \in Nat
           /\ Overhead >= 1 /\ KeyLen = Round + Overhead
  BY DEF RsaAssumption, Round

(* Products grow with their factors. *)
LEMMA ProductGrows ==
    ASSUME NEW a \in Nat, NEW b \in Nat, NEW c \in Nat, a <= b
    PROVE  a * c \in Nat /\ b * c \in Nat /\ a * c <= b * c
  <1>1. PICK e \in Nat : b = a + e
    <2>1. b - a \in Nat /\ b = a + (b - a)
      OBVIOUS
    <2> QED
      BY <2>1
  <1>2. b * c = a * c + e * c /\ e * c \in Nat /\ a * c \in Nat
    BY <1>1
  <1> QED
    BY <1>2

(* How many pieces a text has, and where the last one begins. *)
PiecesIn(n) == (n + Round - 1) \div Round

(* The pieces hold the text, the last one is needed, and their room holds a NUL more. *)
LEMMA PiecesEnough ==
    ASSUME RsaAssumption, NEW n \in Nat \ {0}
    PROVE  /\ PiecesIn(n) \in Nat \ {0} /\ PiecesIn(n) * Round \in Nat /\ n <= PiecesIn(n) * Round
           /\ (PiecesIn(n) - 1) * Round \in Nat /\ (PiecesIn(n) - 1) * Round < n
           /\ n < PiecesIn(n) * KeyLen /\ PiecesIn(n) * KeyLen \in Nat
           /\ PiecesIn(n) * KeyLen <= ((n \div Round) + (n % Round)) * KeyLen
  <1> DEFINE c == PiecesIn(n)
             k == n \div Round
             r == n % Round
  <1>1. Round \in Nat \ {0} /\ Round >= 1 /\ n + Round - 1 \in Nat
    BY Rounds
  <1>2. c \in Nat /\ c * Round \in Nat /\ c * Round <= n + Round - 1 /\ n + Round - 1 < c * Round + Round
    BY <1>1, Quotient, Zenon DEF PiecesIn
  <1>3. k \in Nat /\ k * Round \in Nat /\ k * Round <= n
    BY <1>1, Quotient
  <1>4. r \in 0..Round - 1
    BY <1>1, Remainder
  <1>5. k * Round + r = n
    BY <1>1
  <1> HIDE DEF c, k, r
  <1>6. c # 0
    BY <1>1, <1>2
  <1>7. PICK j \in Nat : c = j + 1
    <2>1. c - 1 \in Nat /\ c = (c - 1) + 1
      BY <1>2, <1>6
    <2> QED
      BY <2>1
  <1>8. c - 1 = j /\ c * Round = j * Round + Round /\ j * Round \in Nat
    BY <1>1, <1>7
  <1>9. n <= c * Round /\ (c - 1) * Round \in Nat /\ (c - 1) * Round < n
    <2> DEFINE t == c * Round
               u == j * Round
    <2>1. t \in Nat /\ t <= n + Round - 1 /\ n + Round - 1 < t + Round /\ t = u + Round /\ u \in Nat
      BY <1>2, <1>8
    <2>2. (c - 1) * Round = u
      BY <1>8
    <2> HIDE DEF t, u
    <2>3. n <= t /\ u < n
      BY <1>1, <2>1
    <2> QED
      BY <2>1, <2>2, <2>3 DEF t
  <1>10. n < c * KeyLen /\ c * KeyLen \in Nat
    <2>1. KeyLen = Round + Overhead /\ Overhead \in Nat /\ Overhead >= 1
      BY Rounds
    <2>2. c * KeyLen = c * Round + c * Overhead
      <3>1. ASSUME NEW x \in Nat, NEW y \in Nat PROVE c * (x + y) = c * x + c * y
        BY <1>2
      <3> QED
        BY <1>1, <2>1, <3>1
    <2>3. 1 * Overhead <= c * Overhead /\ c * Overhead \in Nat
      BY <1>2, <1>6, <2>1, ProductGrows
    <2> DEFINE t == c * Round
               u == c * Overhead
    <2>4. t \in Nat /\ n <= t /\ u \in Nat /\ u >= 1 /\ c * KeyLen = t + u
      BY <1>2, <1>9, <2>1, <2>2, <2>3
    <2> HIDE DEF t, u
    <2> QED
      BY <2>4
  <1>11. c <= k + r
    <2>1. CASE r = 0
      <3>1. k * Round = n
        BY <1>3, <1>5, <2>1
      <3>2. ~(k < c)
        <4> SUFFICES ASSUME k < c PROVE FALSE
          OBVIOUS
        <4>1. k <= j
          BY <1>3, <1>7
        <4>2. k * Round <= j * Round
          BY <1>1, <1>3, <4>1, ProductGrows
        <4> DEFINE t == j * Round
        <4>3. t \in Nat /\ n <= t /\ t < n
          BY <1>8, <1>9, <3>1, <4>2
        <4> QED
          BY <4>3
      <3> QED
        BY <1>2, <1>3, <2>1, <3>2
    <2>2. CASE r # 0
      <3>1. ~(k + 1 < c)
        <4> SUFFICES ASSUME k + 1 < c PROVE FALSE
          OBVIOUS
        <4>1. k + 1 <= j /\ k + 1 \in Nat
          BY <1>3, <1>7
        <4>2. (k + 1) * Round <= j * Round
          BY <1>1, <1>3, <4>1, ProductGrows
        <4>3. (k + 1) * Round = k * Round + Round
          BY <1>1, <1>3
        <4> DEFINE t == j * Round
                   u == k * Round
        <4>4. t \in Nat /\ u \in Nat /\ u + Round <= t /\ t < n /\ u + r = n
          BY <1>3, <1>5, <1>8, <1>9, <4>2, <4>3
        <4> HIDE DEF t, u
        <4> QED
          BY <1>1, <1>4, <4>4
      <3>2. r >= 1 /\ r \in Nat
        BY <1>1, <1>4, <2>2
      <3> QED
        BY <1>2, <1>3, <3>1, <3>2
    <2> QED
      BY <2>1, <2>2
  <1>12. c * KeyLen <= (k + r) * KeyLen
    <2>1. k + r \in Nat /\ KeyLen \in Nat
      BY <1>1, <1>3, <1>4, Rounds
    <2> QED
      BY <1>2, <1>11, <2>1, ProductGrows
  <1> QED
    BY <1>2, <1>6, <1>9, <1>10, <1>12 DEF c, k, r

(* The end of the i-th piece of a text. *)
EndOf(text, i) == IF i * Round < Len(text) THEN i * Round ELSE Len(text)

(* The pieces lie one behind the other in the text. *)
LEMMA PiecesAre ==
    ASSUME RsaAssumption, NEW text \in Seq(Char) \ {<<>>}
    PROVE  LET u == Pieces(text)
               c == Len(u)
           IN  /\ u \in Seq(Seq(Char)) /\ c = PiecesIn(Len(text)) /\ c \in Nat \ {0}
               /\ EndOf(text, 0) = 0 /\ EndOf(text, c) = Len(text)
               /\ \A i \in 1..c :
                     /\ EndOf(text, i - 1) \in Nat /\ EndOf(text, i) \in Nat
                     /\ EndOf(text, i - 1) < EndOf(text, i) /\ EndOf(text, i) <= Len(text)
                     /\ Len(u[i]) = EndOf(text, i) - EndOf(text, i - 1)
                     /\ \A j \in 1..Len(u[i]) : u[i][j] = text[EndOf(text, i - 1) + j]
  <1> DEFINE n == Len(text)
             c == PiecesIn(n)
             at(i) == (i - 1) * Round
             piece(i) == SubSeq(text, at(i) + 1, EndOf(text, i))
             u == [i \in 1..c |-> piece(i)]
  <1>1. n \in Nat \ {0}
    BY EmptySeq, LenProperties
  <1>2. /\ c \in Nat \ {0} /\ c * Round \in Nat /\ n <= c * Round
        /\ (c - 1) * Round \in Nat /\ (c - 1) * Round < n
    BY <1>1, PiecesEnough
  <1>3. Pieces(text) = u
    BY DEF Pieces, PiecesIn, EndOf
  <1>4. Round \in Nat /\ Round >= 1
    BY Rounds
  <1> HIDE DEF c, n
  <1>5. ASSUME NEW i \in 1..c
        PROVE  /\ at(i) \in Nat /\ at(i) < n /\ i * Round = at(i) + Round
               /\ EndOf(text, i - 1) = at(i) /\ EndOf(text, i) \in Nat
               /\ at(i) < EndOf(text, i) /\ EndOf(text, i) <= n
    <2>1. i - 1 \in Nat /\ c - 1 \in Nat /\ i - 1 <= c - 1
      BY <1>2
    <2>2. at(i) \in Nat /\ at(i) <= (c - 1) * Round
      BY <1>4, <2>1, ProductGrows
    <2>3. PICK j \in Nat : j = i - 1
      BY <2>1
    <2>4. i = j + 1
      BY <2>3
    <2>5. i * Round = j * Round + Round /\ j * Round \in Nat
      BY <1>4, <2>3, <2>4
    <2>6. i * Round = at(i) + Round
      BY <2>3, <2>5
    <2>7. at(i) < n
      <3> DEFINE t == (c - 1) * Round
      <3>1. t \in Nat /\ t < n /\ at(i) <= t
        BY <1>2, <2>2
      <3> HIDE DEF t, at
      <3> QED
        BY <1>1, <2>2, <3>1
    <2> HIDE DEF at
    <2>8. EndOf(text, i) = IF at(i) + Round < n THEN at(i) + Round ELSE n
      BY <2>6 DEF EndOf, n
    <2>9. EndOf(text, i - 1) = at(i)
      BY <2>7 DEF EndOf, n, at
    <2> QED
      BY <1>1, <1>4, <2>2, <2>6, <2>7, <2>8, <2>9
  <1>6. ASSUME NEW i \in 1..c
        PROVE  /\ piece(i) \in Seq(Char) /\ Len(piece(i)) = EndOf(text, i) - at(i)
               /\ \A j \in 1..Len(piece(i)) : piece(i)[j] = text[at(i) + j]
    <2> DEFINE a == at(i)
               e == EndOf(text, i)
               s == SubSeq(text, a + 1, e)
    <2>1. a \in Nat /\ e \in Nat /\ a < e /\ e <= n
      BY <1>5
    <2> HIDE DEF a, e
    <2>2. a + 1 \in Nat \ {0} /\ e \in 0..Len(text) /\ a + 1 <= e + 1
      BY <2>1 DEF n
    <2>3. s \in Seq(Char) /\ Len(s) = e - (a + 1) + 1 /\ \A j \in 1..Len(s) : s[j] = text[(a + 1) + j - 1]
      BY <2>2, SubSeqPlaces
    <2> HIDE DEF s
    <2>4. Len(s) = e - a
      BY <2>1, <2>3
    <2>5. ASSUME NEW j \in 1..Len(s) PROVE s[j] = text[a + j]
      <3>1. (a + 1) + j - 1 = a + j
        BY <2>1
      <3> QED
        BY <2>3, <3>1
    <2> QED
      BY <2>3, <2>4, <2>5 DEF a, e, s
  <1>7. EndOf(text, 0) = 0 /\ EndOf(text, c) = n
    <2>1. 0 * Round = 0
      BY <1>4
    <2>2. EndOf(text, 0) = 0
      BY <1>1, <2>1 DEF EndOf, n
    <2>3. ~(c * Round < n)
      <3> DEFINE t == c * Round
      <3>1. t \in Nat /\ n <= t
        BY <1>2
      <3> HIDE DEF t
      <3>2. ~(t < n)
        BY <1>1, <3>1
      <3> QED
        BY <3>2 DEF t
    <2> QED
      BY <2>2, <2>3 DEF EndOf, n
  <1> HIDE DEF piece
  <1>8. u \in Seq(Seq(Char)) /\ Len(u) = c /\ \A i \in 1..c : u[i] = piece(i)
    BY <1>2, <1>6
  <1> HIDE DEF u, at
  <1>9. ASSUME NEW i \in 1..c
        PROVE  /\ Len(u[i]) = EndOf(text, i) - EndOf(text, i - 1)
               /\ \A j \in 1..Len(u[i]) : u[i][j] = text[EndOf(text, i - 1) + j]
    BY <1>5, <1>6, <1>8
  <1>10. \A i \in 1..c : /\ EndOf(text, i - 1) \in Nat /\ EndOf(text, i) \in Nat
                         /\ EndOf(text, i - 1) < EndOf(text, i) /\ EndOf(text, i) <= n
    BY <1>5
  <1>11. c = PiecesIn(Len(text))
    BY DEF c, n
  <1> QED
    BY <1>2, <1>3, <1>7, <1>8, <1>9, <1>10, <1>11 DEF n

--------------------------------------------------------------------------------
(* A buffer whose zeros are those behind the first k bytes. *)
LEMMA AdvancedIs ==
    ASSUME NEW L \in Nat, NEW room, Len(room) = L, NEW k \in 0..L, NEW at \in 0..k,
           \A i \in 1..L : room[i] = 0 <=> i > k
    PROVE  Advanced(room, at) = k
  <1> DEFINE Stop(n) == /\ \A i \in at + 1..n : room[i] # 0
                        /\ n < Len(room) => room[n + 1] = 0
  <1>1. k \in at..L /\ Stop(k)
    <2>1. \A i \in at + 1..k : i \in 1..L /\ ~(i > k)
      OBVIOUS
    <2>2. k < L => k + 1 \in 1..L /\ k + 1 > k
      OBVIOUS
    <2> QED
      BY <2>1, <2>2
  <1>2. ASSUME NEW n \in at..L, Stop(n) PROVE n = k
    <2>1. ~(n < k)
      <3> SUFFICES ASSUME n < k PROVE FALSE
        OBVIOUS
      <3>1. n + 1 \in 1..L /\ ~(n + 1 > k) /\ n < L
        OBVIOUS
      <3> QED
        BY <1>2, <3>1
    <2>2. ~(n > k)
      <3> SUFFICES ASSUME n > k PROVE FALSE
        OBVIOUS
      <3>1. k + 1 \in at + 1..n /\ k + 1 \in 1..L /\ k + 1 > k
        OBVIOUS
      <3> QED
        BY <1>2, <3>1
    <2> QED
      BY <2>1, <2>2
  <1>3. Advanced(room, at) = CHOOSE n \in at..L : Stop(n)
    BY DEF Advanced
  <1> HIDE DEF Stop
  <1> QED
    BY <1>1, <1>2, <1>3

(* In a buffer that is zero behind the first k bytes it stays within these. *)
LEMMA AdvancedWithin ==
    ASSUME NEW L \in Nat, NEW room, Len(room) = L, NEW k \in 0..L, NEW at \in 0..k,
           \A i \in 1..L : i > k => room[i] = 0
    PROVE  /\ Advanced(room, at) \in at..k
           /\ \A i \in at + 1..Advanced(room, at) : room[i] # 0
  <1> DEFINE Fit(n) == /\ \A i \in at + 1..n : room[i] # 0
                       /\ n < Len(room) => room[n + 1] = 0
             I == {n \in at..L : n < L => room[n + 1] = 0}
  <1>1. I \in SUBSET Nat /\ L \in I
    OBVIOUS
  <1>2. PICK n \in I : \A y \in I : n <= y
    <2> HIDE DEF I
    <2> QED
      BY <1>1, SmallestIsIn
  <1>3. n \in at..L /\ Fit(n)
    <2>1. ASSUME NEW i \in at + 1..n, room[i] = 0 PROVE FALSE
      <3>1. i - 1 \in at..L /\ (i - 1) + 1 = i /\ ~(n <= i - 1)
        OBVIOUS
      <3>2. i - 1 \in I
        BY <2>1, <3>1
      <3> QED
        BY <1>2, <3>1, <3>2
    <2> QED
      BY <2>1
  <1>4. Advanced(room, at) = CHOOSE m \in at..L : Fit(m)
    BY DEF Advanced
  <1> HIDE DEF I
  <1>5. Advanced(room, at) \in at..L /\ Fit(Advanced(room, at))
    <2> HIDE DEF Fit
    <2> QED
      BY <1>3, <1>4
  <1> DEFINE m == Advanced(room, at)
  <1> HIDE DEF m
  <1>6. m \in at..L /\ \A i \in at + 1..m : room[i] # 0
    BY <1>5 DEF m
  <1>7. ~(m > k)
    <2> SUFFICES ASSUME m > k PROVE FALSE
      OBVIOUS
    <2>1. k + 1 \in at + 1..m /\ k + 1 \in 1..L /\ k + 1 > k
      BY <1>6
    <2> QED
      BY <1>6, <2>1
  <1> QED
    BY <1>6, <1>7 DEF m

LEMMA InitRsaInv == ASSUME RsaAssumption, RsaInit PROVE RsaInv
  <1>1. RsaTypeOK
    <2>1. <<>> \in Seq(Char \cup {0}) /\ <<>> \in Seq(Char)
      OBVIOUS
    <2>2. de \in [key : 0..made, next : Nat, buf : Seq(Char \cup {0}), out : Nat]
      BY <2>1 DEF RsaInit, Idle
    <2>3. plain \in [ret : {0, -1}, text : Seq(Char), due : BOOLEAN]
      BY <2>1 DEF RsaInit, NoPlain
    <2>4. made \in Nat /\ pub \in 0..made /\ pri \in 0..made
      BY DEF RsaInit
    <2>5. ciper \in [blocks : Seq([key : 1..made, piece : Seq(Char)]), size : Nat, text : Seq(Char)]
      <3>1. <<>> \in Seq(Char) /\ <<>> \in Seq([key : 1..made, piece : Seq(Char)])
        OBVIOUS
      <3> QED
        BY <3>1 DEF RsaInit, NoCiper
    <2> QED
      BY <2>2, <2>3, <2>4, <2>5 DEF RsaTypeOK
  <1>2. CiperWhole /\ HalfRead
    <2>1. ciper.blocks = <<>>
      BY DEF RsaInit, NoCiper
    <2> QED
      BY <2>1 DEF RsaInit, CiperWhole, HalfRead
  <1>3. TextReadsBack
    <2>1. ~plain.due
      BY DEF RsaInit, NoPlain
    <2>2. Len(ciper.blocks) = 0 /\ ciper.size = 0
      BY DEF RsaInit, NoCiper
    <2>3. Len(ciper.blocks) * KeyLen <= ciper.size
      BY <2>2, Rounds
    <2> QED
      BY <2>1, <2>3 DEF RsaInit, TextReadsBack
  <1> QED
    BY <1>1, <1>2, <1>3 DEF RsaInv

(* Sequences over more members. *)
LEMMA MoreSequences == ASSUME NEW S, NEW T, S \subseteq T PROVE Seq(S) \subseteq Seq(T)
  OBVIOUS

(* Making new keys leaves a ciphertext and a reading under way alone. *)
LEMMA StepGenerate ==
    ASSUME RsaAssumption, RsaInv, generate_rsa_key_to_file
    PROVE  RsaInv'
  <1>1. made' = made + 1 /\ ciper' = ciper /\ de' = de /\ plain' = plain
    BY DEF generate_rsa_key_to_file
  <1>2. /\ made \in Nat /\ pub \in 0..made /\ pri \in 0..made
    BY DEF RsaInv, RsaTypeOK
  <1>3. pub' \in 0..made' /\ pri' \in 0..made'
    <2>1. PICK o \in Outcomes(made + 1) : pub' = o.pub /\ pri' = o.pri
      BY DEF generate_rsa_key_to_file
    <2>2. o.pub \in {0, pub, made + 1} /\ o.pri \in {0, pri, made + 1}
      BY DEF Outcomes, Closed
    <2> QED
      BY <1>1, <1>2, <2>1, <2>2
  <1>4. ciper' \in [blocks : Seq([key : 1..made', piece : Seq(Char)]), size : Nat, text : Seq(Char)]
    <2>1. ciper' \in [blocks : Seq([key : 1..made, piece : Seq(Char)]), size : Nat, text : Seq(Char)]
      BY <1>1 DEF RsaInv, RsaTypeOK
    <2>2. [key : 1..made, piece : Seq(Char)] \subseteq [key : 1..made', piece : Seq(Char)]
      BY <1>1, <1>2
    <2>3. Seq([key : 1..made, piece : Seq(Char)]) \subseteq Seq([key : 1..made', piece : Seq(Char)])
      BY <2>2, MoreSequences
    <2> QED
      BY <2>1, <2>3
  <1>5. RsaTypeOK'
    <2>1. de' \in [key : 0..made', next : Nat, buf : Seq(Char \cup {0}), out : Nat]
      BY <1>1, <1>2 DEF RsaInv, RsaTypeOK
    <2>2. plain' \in [ret : {0, -1}, text : Seq(Char), due : BOOLEAN]
      BY <1>1 DEF RsaInv, RsaTypeOK
    <2>3. made' \in Nat
      BY <1>1, <1>2
    <2> QED
      BY <1>3, <1>4, <2>1, <2>2, <2>3 DEF RsaTypeOK
  <1>6. CiperWhole'
    BY <1>1 DEF RsaInv, CiperWhole
  <1>7. HalfRead'
    BY <1>1 DEF RsaInv, HalfRead, Behind, Fits
  <1>8. TextReadsBack'
    BY <1>1 DEF RsaInv, TextReadsBack
  <1> QED
    BY <1>5, <1>6, <1>7, <1>8 DEF RsaInv

(* A new ciphertext: the pieces of its text under the key of the file. *)
LEMMA StepEncrypt ==
    ASSUME RsaAssumption, RsaInv, NEW text \in Seq(Char) \ {<<>>}, rsa_public_en(text)
    PROVE  RsaInv'
  <1> DEFINE a == Pieces(text)
             blocks == [i \in DOMAIN a |-> [key |-> pub, piece |-> a[i]]]
  <1>1. /\ de = Idle /\ pub # 0
        /\ ciper' = [blocks |-> blocks, size |-> Size(text), text |-> text]
        /\ plain' = NoPlain /\ UNCHANGED <<pub, pri, made, de>>
    BY DEF rsa_public_en
  <1>2. /\ a \in Seq(Seq(Char)) /\ Len(a) = PiecesIn(Len(text)) /\ Len(a) \in Nat \ {0}
    BY PiecesAre
  <1>3. /\ made \in Nat /\ pub \in 1..made /\ pri \in 0..made
    BY <1>1 DEF RsaInv, RsaTypeOK
  <1>4. Len(a) * KeyLen <= Size(text) /\ Size(text) \in Nat
    <2>1. PICK n \in Nat \ {0} : n = Len(text)
      BY EmptySeq, LenProperties
    <2>2. PiecesIn(n) * KeyLen <= ((n \div Round) + (n % Round)) * KeyLen
      BY <2>1, PiecesEnough
    <2>3. n \div Round \in Nat /\ (n % Round) \in 0..Round - 1
      BY <2>1, Rounds, Quotient, Remainder
    <2>4. (n \div Round) + (n % Round) \in Nat
      BY <2>3, Rounds
    <2>5. ((n \div Round) + (n % Round)) * KeyLen \in Nat
      BY <2>4, Rounds, ProductGrows
    <2> QED
      BY <1>2, <2>1, <2>2, <2>5 DEF Size
  <1> HIDE DEF a
  <1>5. /\ blocks \in Seq([key : 1..made, piece : Seq(Char)]) /\ blocks # <<>> /\ Len(blocks) = Len(a)
        /\ \A i \in 1..Len(a) : blocks[i].piece = a[i] /\ blocks[i].key = pub
    <2> DEFINE one(i) == [key |-> pub, piece |-> a[i]]
    <2>1. DOMAIN a = 1..Len(a)
      BY <1>2
    <2>3. ASSUME NEW i \in 1..Len(a) PROVE one(i) \in [key : 1..made, piece : Seq(Char)]
      <3>1. a[i] \in Seq(Char)
        BY <1>2
      <3> QED
        BY <1>3, <3>1
    <2>4. blocks = [i \in 1..Len(a) |-> one(i)]
      BY <2>1
    <2>5. \A i \in 1..Len(a) : one(i).piece = a[i] /\ one(i).key = pub
      OBVIOUS
    <2> HIDE DEF one
    <2>6. PICK c \in Nat : c = Len(a)
      BY <1>2
    <2>7. /\ [i \in 1..c |-> one(i)] \in Seq([key : 1..made, piece : Seq(Char)])
          /\ Len([i \in 1..c |-> one(i)]) = c
          /\ \A i \in 1..c : [j \in 1..c |-> one(j)][i] = one(i)
      BY <2>3, <2>6
    <2>2. /\ blocks \in Seq([key : 1..made, piece : Seq(Char)]) /\ Len(blocks) = Len(a)
          /\ \A i \in 1..Len(a) : blocks[i].piece = a[i] /\ blocks[i].key = pub
      BY <2>4, <2>5, <2>6, <2>7
    <2> HIDE DEF blocks
    <2> QED
      BY <1>2, <2>2
  <1> HIDE DEF blocks
  <1>6. /\ ciper'.blocks = blocks /\ ciper'.size = Size(text) /\ ciper'.text = text
    BY <1>1
  <1>7. RsaTypeOK'
    <2>1. ciper' \in [blocks : Seq([key : 1..made', piece : Seq(Char)]), size : Nat, text : Seq(Char)]
      BY <1>1, <1>3, <1>4, <1>5
    <2>2. plain' \in [ret : {0, -1}, text : Seq(Char), due : BOOLEAN]
      <3>1. <<>> \in Seq(Char)
        OBVIOUS
      <3> QED
        BY <1>1, <3>1 DEF NoPlain
    <2> QED
      BY <1>1, <2>1, <2>2 DEF RsaInv, RsaTypeOK
  <1>8. CiperWhole'
    <2>1. 1 \in 1..Len(a)
      BY <1>2
    <2> QED
      BY <1>1, <1>5, <1>6, <2>1 DEF CiperWhole, a
  <1>9. HalfRead'
    BY <1>1 DEF HalfRead
  <1>10. TextReadsBack'
    <2>1. plain'.due = FALSE
      BY <1>1 DEF NoPlain
    <2> QED
      BY <1>1, <1>4, <1>5, <1>6, <2>1 DEF TextReadsBack
  <1> QED
    BY <1>7, <1>8, <1>9, <1>10 DEF RsaInv

(* A call returns: what it tells of is the ciphertext it read. *)
LEMMA Returns ==
    ASSUME RsaAssumption, RsaInv, NEW ret \in {0, -1}, NEW text \in Seq(Char), NEW due \in BOOLEAN,
           Return(ret, text, due), due => ret = 0 /\ text = ciper.text
    PROVE  RsaInv'
  <1>1. /\ de' = Idle /\ plain' = [ret |-> ret, text |-> text, due |-> due]
        /\ UNCHANGED <<pub, pri, made, ciper>>
    BY DEF Return
  <1>2. RsaTypeOK'
    <2>1. de' \in [key : 0..made, next : Nat, buf : Seq(Char \cup {0}), out : Nat]
      <3>1. <<>> \in Seq(Char \cup {0}) /\ 0 \in 0..made
        BY DEF RsaInv, RsaTypeOK
      <3> QED
        BY <1>1, <3>1 DEF Idle
    <2>2. plain' \in [ret : {0, -1}, text : Seq(Char), due : BOOLEAN]
      BY <1>1
    <2> QED
      BY <1>1, <2>1, <2>2 DEF RsaInv, RsaTypeOK
  <1>3. CiperWhole'
    BY <1>1 DEF RsaInv, CiperWhole
  <1>4. HalfRead'
    BY <1>1 DEF HalfRead
  <1>5. TextReadsBack'
    BY <1>1 DEF RsaInv, TextReadsBack
  <1> QED
    BY <1>2, <1>3, <1>4, <1>5 DEF RsaInv

(* The piece k of a text. *)
LEMMA PieceIs ==
    ASSUME RsaAssumption, NEW text \in Seq(Char) \ {<<>>}, NEW k \in 1..Len(Pieces(text))
    PROVE  LET s == EndOf(text, k - 1)
               e == EndOf(text, k)
               piece == Pieces(text)[k]
           IN  /\ s \in Nat /\ e \in Nat /\ s < e /\ e <= Len(text) /\ Len(piece) = e - s
               /\ \A j \in 1..Len(piece) : piece[j] = text[s + j]
  BY PiecesAre

(* What is known of a ciphertext that there is. *)
LEMMA CiperIs ==
    ASSUME RsaAssumption, RsaInv, ciper.blocks # <<>>
    PROVE  LET c == Len(ciper.blocks)
               text == ciper.text
           IN  /\ text \in Seq(Char) \ {<<>>} /\ c = Len(Pieces(text)) /\ c \in Nat \ {0}
               /\ Len(text) \in Nat /\ Len(text) < c * KeyLen /\ c * KeyLen \in Nat
               /\ \A i \in 1..c : ciper.blocks[i].piece = Pieces(text)[i]
               /\ \A i \in 1..c : ciper.blocks[i].key = ciper.blocks[1].key
               /\ ciper.blocks[1].key \in 1..made /\ made \in Nat
  <1> DEFINE c == Len(ciper.blocks)
             text == ciper.text
  <1>1. /\ ciper.blocks \in Seq([key : 1..made, piece : Seq(Char)]) /\ text \in Seq(Char)
        /\ made \in Nat
    BY DEF RsaInv, RsaTypeOK
  <1>2. /\ text # <<>> /\ c = Len(Pieces(text))
        /\ \A i \in 1..c : ciper.blocks[i].piece = Pieces(text)[i]
        /\ \A i \in 1..c : ciper.blocks[i].key = ciper.blocks[1].key
    BY DEF RsaInv, CiperWhole
  <1>3. c = PiecesIn(Len(text)) /\ c \in Nat \ {0}
    BY <1>1, <1>2, PiecesAre
  <1>4. Len(text) \in Nat \ {0}
    BY <1>1, <1>2, EmptySeq, LenProperties
  <1>5. Len(text) < c * KeyLen /\ c * KeyLen \in Nat
    BY <1>3, <1>4, PiecesEnough
  <1>6. ciper.blocks[1].key \in 1..made
    <2>1. 1 \in 1..c
      BY <1>3
    <2> DEFINE blocks == ciper.blocks
               AnyBlock == [key : 1..made, piece : Seq(Char)]
    <2> HIDE DEF AnyBlock, blocks
    <2>2. blocks \in Seq(AnyBlock) /\ 1 \in 1..Len(blocks)
      BY <1>1, <2>1 DEF AnyBlock, blocks
    <2>3. blocks[1] \in AnyBlock
      BY <2>2
    <2>4. ciper.blocks[1] \in [key : 1..made, piece : Seq(Char)]
      BY <2>3 DEF AnyBlock, blocks
    <2> QED
      BY <2>4
  <1> QED
    BY <1>1, <1>2, <1>3, <1>4, <1>5, <1>6

(* The room of the pieces is shorter than that of the blocks. *)
LEMMA RoomOf ==
    ASSUME RsaAssumption, NEW c \in Nat \ {0}, NEW k \in 1..c
    PROVE  /\ (k - 1) * Round \in Nat /\ k * Round \in Nat /\ k * Round = (k - 1) * Round + Round
           /\ c * Round \in Nat /\ c * KeyLen \in Nat
           /\ k * Round <= c * Round /\ c * Round < c * KeyLen
  <1>1. Round \in Nat /\ KeyLen = Round + Overhead /\ Overhead \in Nat /\ Overhead >= 1 /\ KeyLen \in Nat
    BY Rounds
  <1>2. PICK j \in Nat : j = k - 1 /\ k = j + 1
    <2>1. k - 1 \in Nat /\ k = (k - 1) + 1
      OBVIOUS
    <2> QED
      BY <2>1
  <1>3. k * Round = j * Round + Round /\ j * Round \in Nat /\ k * Round \in Nat
    BY <1>1, <1>2
  <1>4. k * Round <= c * Round /\ c * Round \in Nat
    BY <1>1, ProductGrows
  <1>5. c * KeyLen = c * Round + c * Overhead
    <2>1. ASSUME NEW x \in Nat, NEW y \in Nat PROVE c * (x + y) = c * x + c * y
      OBVIOUS
    <2> QED
      BY <1>1, <2>1
  <1>6. 1 * Overhead <= c * Overhead /\ c * Overhead \in Nat
    BY <1>1, ProductGrows
  <1> DEFINE t == c * Round
             u == c * Overhead
  <1>7. t \in Nat /\ u \in Nat /\ u >= 1 /\ c * KeyLen = t + u
    BY <1>1, <1>4, <1>5, <1>6
  <1> HIDE DEF t, u
  <1>8. c * KeyLen \in Nat /\ t < c * KeyLen
    BY <1>7
  <1> QED
    BY <1>2, <1>3, <1>4, <1>8 DEF t

(* A decryption begins, or returns without a key. *)
LEMMA StepBegin ==
    ASSUME RsaAssumption, RsaInv, rsa_private_de
    PROVE  RsaInv'
  <1> DEFINE text == ciper.text
             L == Len(ciper.blocks) * KeyLen
             zeros == [i \in 1..L |-> 0]
  <1>1. ciper.blocks # <<>> /\ de = Idle
    BY DEF rsa_private_de
  <1>2. /\ text \in Seq(Char) \ {<<>>} /\ Len(ciper.blocks) \in Nat \ {0}
        /\ Len(text) \in Nat /\ Len(text) < L /\ L \in Nat
        /\ ciper.blocks[1].key \in 1..made /\ made \in Nat
    BY <1>1, CiperIs
  <1>3. CASE pri = 0
    <2>1. Return(-1, <<>>, FALSE)
      BY <1>3 DEF rsa_private_de
    <2>2. <<>> \in Seq(Char) /\ -1 \in {0, -1}
      OBVIOUS
    <2> QED
      BY <2>1, <2>2, Returns
  <1>4. CASE pri # 0
    <2>1. /\ de' = [key |-> pri, next |-> 1, out |-> 0, buf |-> zeros]
          /\ UNCHANGED <<pub, pri, made, ciper, plain>>
      BY <1>4 DEF rsa_private_de
    <2>2. pri \in 1..made
      BY <1>2, <1>4 DEF RsaInv, RsaTypeOK
    <2> HIDE DEF L
    <2>3. zeros \in Seq(Char \cup {0}) /\ Len(zeros) = L /\ \A i \in 1..L : zeros[i] = 0
      BY <1>2
    <2> HIDE DEF zeros
    <2>4. RsaTypeOK'
      <3>1. de' \in [key : 0..made, next : Nat, buf : Seq(Char \cup {0}), out : Nat]
        BY <1>2, <2>1, <2>2, <2>3
      <3> QED
        BY <2>1, <3>1 DEF RsaInv, RsaTypeOK
    <2>5. CiperWhole'
      BY <2>1 DEF RsaInv, CiperWhole
    <2>6. /\ de'.key = pri /\ de'.next = 1 /\ de'.out = 0 /\ de'.buf = zeros
          /\ ciper' = ciper
      BY <2>1
    <2>7. HalfRead'
      <3>1. (1 - 1) * Round = 0 /\ Behind(1 - 1) = 0
        <4>1. (1 - 1) * Round = 0
          <5>1. 1 - 1 = 0
            OBVIOUS
          <5> QED
            BY <5>1, Rounds
        <4> QED
          BY <1>2, <4>1 DEF Behind
      <3>2. 1 \in 1..Len(ciper.blocks) + 1 /\ 0 <= 0
        BY <1>2
      <3>3. \A i \in 1..L : zeros[i] = IF i <= 0 THEN text[i] ELSE 0
        BY <2>3
      <3> QED
        BY <1>1, <1>4, <2>3, <2>6, <3>1, <3>2, <3>3 DEF HalfRead, Behind, L
    <2>8. TextReadsBack'
      <3>1. 0 < L
        BY <1>2
      <3> QED
        BY <2>1, <2>3, <2>6, <3>1 DEF RsaInv, TextReadsBack
    <2> QED
      BY <2>4, <2>5, <2>7, <2>8 DEF RsaInv
  <1> QED
    BY <1>3, <1>4

(* A decryption under way, as its next step finds it. *)
LEMMA UnderWay ==
    ASSUME RsaAssumption, RsaInv, de # Idle
    PROVE  LET c == Len(ciper.blocks)
               text == ciper.text
           IN  /\ ciper.blocks # <<>>
               /\ de.key \in 1..made /\ de.next \in 1..c + 1 /\ de.out \in Nat
               /\ de.buf \in Seq(Char \cup {0}) /\ Len(de.buf) = c * KeyLen
               /\ de.out <= (de.next - 1) * Round
               /\ \A i \in 1..c * KeyLen : i > (de.next - 1) * Round => de.buf[i] = 0
               /\ Fits => /\ de.out = EndOf(text, de.next - 1)
                          /\ \A i \in 1..c * KeyLen : de.buf[i] = IF i <= de.out THEN text[i] ELSE 0
  <1>1. /\ de.key \in 0..made /\ de.out \in Nat /\ de.buf \in Seq(Char \cup {0})
    BY DEF RsaInv, RsaTypeOK
  <1>2. /\ ciper.blocks # <<>> /\ de.key # 0
        /\ de.next \in 1..Len(ciper.blocks) + 1
        /\ Len(de.buf) = Len(ciper.blocks) * KeyLen
        /\ de.out <= (de.next - 1) * Round
        /\ \A i \in 1..Len(de.buf) : i > (de.next - 1) * Round => de.buf[i] = 0
    BY DEF RsaInv, HalfRead
  <1>3. Fits => /\ de.out = Behind(de.next - 1)
                /\ \A i \in 1..Len(de.buf) : de.buf[i] = IF i <= de.out THEN ciper.text[i] ELSE 0
    BY DEF RsaInv, HalfRead
  <1>4. Behind(de.next - 1) = EndOf(ciper.text, de.next - 1)
    BY DEF Behind, EndOf
  <1>5. de.key \in 1..made
    BY <1>1, <1>2 DEF RsaInv, RsaTypeOK
  <1> QED
    BY <1>1, <1>2, <1>3, <1>4, <1>5, Zenon

(* A buffer has the first n bytes of a text, a piece those behind the first n,   *)
(* and one buffer is another with a piece put at n.                              *)
HasFirst(room, L, text, n) == \A i \in 1..L : room[i] = IF i <= n THEN text[i] ELSE 0
HasNext(piece, text, n) == \A j \in 1..Len(piece) : piece[j] = text[n + j]
PutAt(room, held, L, n, piece) ==
    \A i \in 1..L : room[i] = IF i - 1 \in n..n + Len(piece) - 1 THEN piece[i - n] ELSE held[i]

NextPut(room, held, L, text, n, piece) ==
    HasNext(piece, text, n) /\ HasFirst(held, L, text, n) /\ PutAt(room, held, L, n, piece)

(* The right piece, put where the one before it ends, continues the text. *)
LEMMA RightPiece ==
    ASSUME RsaAssumption, NEW text \in Seq(Char), NEW L \in Nat, Len(text) < L,
           NEW s \in Nat, NEW e \in Nat, s < e, e <= Len(text),
           NEW piece, NEW held, NEW room, Len(piece) = e - s, Len(room) = L,
           NextPut(room, held, L, text, s, piece)
    PROVE  HasFirst(room, L, text, e) /\ Advanced(room, s) = e
  <1>1. Len(text) \in Nat
    BY LenProperties
  <1>2. ASSUME NEW i \in 1..L PROVE room[i] = IF i <= e THEN text[i] ELSE 0
    <2>1. CASE i - 1 \in s..s + Len(piece) - 1
      <3>1. i - s \in 1..Len(piece) /\ s + (i - s) = i /\ i <= e
        BY <2>1
      <3> QED
        BY <2>1, <3>1 DEF NextPut, HasNext, PutAt
    <2>2. CASE ~(i - 1 \in s..s + Len(piece) - 1)
      <3>1. i <= s \/ i > e
        BY <2>2
      <3>2. held[i] = IF i <= s THEN text[i] ELSE 0
        BY DEF NextPut, HasFirst
      <3>3. (i <= s => i <= e) /\ (i > e => ~(i <= s) /\ ~(i <= e))
        OBVIOUS
      <3> QED
        BY <2>2, <3>1, <3>2, <3>3 DEF NextPut, PutAt
    <2> QED
      BY <2>1, <2>2
  <1>3. \A i \in 1..L : room[i] = 0 <=> i > e
    <2> SUFFICES ASSUME NEW i \in 1..L PROVE room[i] = 0 <=> i > e
      OBVIOUS
    <2>1. CASE i <= e
      <3>1. i \in 1..Len(text)
        BY <1>1, <2>1
      <3>2. text[i] \in Char
        BY <3>1
      <3>3. text[i] # 0
        BY <3>2 DEF RsaAssumption
      <3>4. ~(i > e)
        BY <2>1
      <3> QED
        BY <1>2, <2>1, <3>3, <3>4
    <2>2. CASE ~(i <= e)
      <3>1. i > e
        BY <2>2
      <3> QED
        BY <1>2, <2>2, <3>1
    <2> QED
      BY <2>1, <2>2
  <1>4. e \in 0..L /\ s \in 0..e
    BY <1>1
  <1> QED
    BY <1>2, <1>3, <1>4, AdvancedIs DEF HasFirst

(* One piece more, of the right key or any: it goes to where the one before it ends. *)
LEMMA StepPlaced ==
    ASSUME RsaAssumption, RsaInv, de # Idle, de.next <= Len(ciper.blocks),
           NEW piece \in Seq(Char \cup {0}), Len(piece) <= Round, Placed(piece),
           Fits => piece = ciper.blocks[de.next].piece
    PROVE  RsaInv'
  <1> DEFINE c == Len(ciper.blocks)
             text == ciper.text
             L == c * KeyLen
             k == de.next
             s == de.out
             before == (k - 1) * Round
             after == k * Round
             room == Written(de.buf, s, piece)
             e == Advanced(room, s)
  <1>1. /\ ciper.blocks # <<>> /\ de.key \in 1..made /\ k \in 1..c + 1 /\ s \in Nat
        /\ de.buf \in Seq(Char \cup {0}) /\ Len(de.buf) = L
        /\ s <= before /\ \A i \in 1..L : i > before => de.buf[i] = 0
        /\ Fits => /\ s = EndOf(text, k - 1)
                   /\ \A i \in 1..L : de.buf[i] = IF i <= s THEN text[i] ELSE 0
    BY UnderWay
  <1>2. /\ text \in Seq(Char) \ {<<>>} /\ c = Len(Pieces(text)) /\ c \in Nat \ {0}
        /\ Len(text) \in Nat /\ Len(text) < L /\ L \in Nat
        /\ \A i \in 1..c : ciper.blocks[i].piece = Pieces(text)[i]
        /\ made \in Nat
    BY <1>1, CiperIs
  <1>3. k \in 1..c
    BY <1>1, <1>2
  <1>4. /\ before \in Nat /\ after \in Nat /\ after = before + Round /\ Round \in Nat
        /\ after < L
    <2>1. /\ (k - 1) * Round \in Nat /\ k * Round \in Nat /\ k * Round = (k - 1) * Round + Round
          /\ c * Round \in Nat /\ k * Round <= c * Round /\ c * Round < c * KeyLen
      BY <1>2, <1>3, RoomOf
    <2>2. Round \in Nat
      BY Rounds
    <2> HIDE DEF before, after, L, k, c
    <2> QED
      BY <1>2, <2>1, <2>2 DEF before, after, L
  <1>5. /\ de' = [de EXCEPT !.next = @ + 1, !.buf = room, !.out = Advanced(room, de.out)]
        /\ UNCHANGED <<pub, pri, made, ciper, plain>>
    BY DEF Placed
  <1>6. Len(piece) \in Nat /\ \A j \in 1..Len(piece) : piece[j] \in Char \cup {0}
    BY LenProperties
  <1> DEFINE one(i) == IF i - 1 \in s..s + Len(piece) - 1 THEN piece[i - s] ELSE de.buf[i]
  <1>7. /\ room \in Seq(Char \cup {0}) /\ Len(room) = L
        /\ \A i \in 1..L : room[i] = one(i)
    <2>1. DOMAIN de.buf = 1..L
      BY <1>1
    <2>2. room = [i \in 1..L |-> one(i)]
      BY <2>1 DEF Written
    <2> HIDE DEF L, room
    <2>3. ASSUME NEW i \in 1..L PROVE one(i) \in Char \cup {0}
      <3>1. CASE i - 1 \in s..s + Len(piece) - 1
        <4>1. i - s \in 1..Len(piece)
          BY <1>1, <1>6, <3>1
        <4> QED
          BY <1>6, <3>1, <4>1
      <3>2. CASE ~(i - 1 \in s..s + Len(piece) - 1)
        <4>1. de.buf[i] \in Char \cup {0}
          BY <1>1
        <4> QED
          BY <3>2, <4>1
      <3> QED
        BY <3>1, <3>2
    <2> HIDE DEF one
    <2>4. /\ [i \in 1..L |-> one(i)] \in Seq(Char \cup {0}) /\ Len([i \in 1..L |-> one(i)]) = L
          /\ \A i \in 1..L : [j \in 1..L |-> one(j)][i] = one(i)
      BY <1>2, <2>3
    <2> QED
      BY <2>2, <2>4
  <1> HIDE DEF room, L, before, after
  <1>8. \A i \in 1..L : i > after => room[i] = 0
    <2> SUFFICES ASSUME NEW i \in 1..L, i > after PROVE room[i] = 0
      OBVIOUS
    <2>1. ~(i - 1 \in s..s + Len(piece) - 1) /\ i > before
      BY <1>1, <1>2, <1>4, <1>6
    <2> QED
      BY <1>1, <1>7, <2>1
  <1>9. e \in s..after
    <2>1. after \in 0..L /\ s \in 0..after
      BY <1>1, <1>2, <1>4
    <2> HIDE DEF s, e
    <2> QED
      BY <1>2, <1>7, <1>8, <2>1, AdvancedWithin DEF e
  <1>10. e \in Nat /\ e <= after /\ e < L
    BY <1>1, <1>2, <1>4, <1>9
  <1>11. ASSUME Fits
         PROVE  e = EndOf(text, k) /\ \A i \in 1..L : room[i] = IF i <= e THEN text[i] ELSE 0
    <2>1. piece = Pieces(text)[k] /\ k \in 1..Len(Pieces(text))
      BY <1>2, <1>3, <1>11
    <2> DEFINE f == EndOf(text, k)
    <2> HIDE DEF k
    <2>2. /\ EndOf(text, k - 1) \in Nat /\ f \in Nat /\ EndOf(text, k - 1) < f /\ f <= Len(text)
          /\ Len(piece) = f - EndOf(text, k - 1)
          /\ \A j \in 1..Len(piece) : piece[j] = text[EndOf(text, k - 1) + j]
      BY <1>2, <2>1, PieceIs
    <2>3. /\ s = EndOf(text, k - 1) /\ \A i \in 1..L : de.buf[i] = IF i <= s THEN text[i] ELSE 0
      BY <1>1, <1>11
    <2> DEFINE held == de.buf
    <2>4. s \in Nat /\ f \in Nat /\ s < f /\ f <= Len(text) /\ Len(piece) = f - s
      BY <2>2, <2>3
    <2>5. NextPut(room, held, L, text, s, piece)
      BY <1>7, <2>2, <2>3 DEF NextPut, HasNext, HasFirst, PutAt
    <2>6. text \in Seq(Char) /\ Len(text) < L /\ L \in Nat /\ Len(room) = L
      BY <1>2, <1>7
    <2> HIDE DEF held, s, e, text, f
    <2>7. HasFirst(room, L, text, f) /\ Advanced(room, s) = f
      BY <2>4, <2>5, <2>6, RightPiece
    <2> QED
      BY <2>7 DEF e, f, HasFirst
  <1> HIDE DEF e
  <1>12. /\ de'.key = de.key /\ de'.next = k + 1 /\ de'.buf = room /\ de'.out = e
         /\ de' \in [key : 0..made, next : Nat, buf : Seq(Char \cup {0}), out : Nat]
    <2>1. k + 1 \in Nat
      BY <1>2, <1>3
    <2>2. de \in [key : 0..made, next : Nat, buf : Seq(Char \cup {0}), out : Nat]
      BY DEF RsaInv, RsaTypeOK
    <2>3. de' = [de EXCEPT !.next = k + 1, !.buf = room, !.out = e]
      BY <1>5 DEF e
    <2> QED
      BY <1>7, <1>10, <2>1, <2>2, <2>3
  <1>13. RsaTypeOK'
    BY <1>5, <1>12 DEF RsaInv, RsaTypeOK
  <1>14. CiperWhole'
    BY <1>5 DEF RsaInv, CiperWhole
  <1>15. HalfRead'
    <2>1. k + 1 \in 1..c + 1 /\ (k + 1) - 1 = k
      BY <1>2, <1>3
    <2>2. ciper' = ciper /\ (Fits' <=> Fits)
      BY <1>5, <1>12 DEF Fits
    <2>3. Fits => e = Behind((k + 1) - 1)
      BY <1>11, <2>1 DEF Behind, EndOf
    <2>4. e <= ((k + 1) - 1) * Round /\ \A i \in 1..L : i > ((k + 1) - 1) * Round => room[i] = 0
      BY <1>8, <1>10, <2>1 DEF after
    <2>5. de.key # 0
      BY <1>1, <1>2
    <2>6. Len(room) = Len(ciper.blocks) * KeyLen
      BY <1>7 DEF L
    <2>7. Fits => \A i \in 1..Len(room) : room[i] = IF i <= e THEN ciper.text[i] ELSE 0
      BY <1>7, <1>11
    <2>8. \A i \in 1..Len(room) : i > ((k + 1) - 1) * Round => room[i] = 0
      BY <1>7, <2>4
    <2> DEFINE m == (k + 1) - 1
    <2>9. /\ ciper'.blocks # <<>> /\ de'.key # 0 /\ de'.next \in 1..Len(ciper'.blocks) + 1
           /\ Len(de'.buf) = Len(ciper'.blocks) * KeyLen
      BY <1>1, <1>12, <2>1, <2>2, <2>5, <2>6
    <2>10. de'.next - 1 = m /\ de'.buf = room /\ de'.out = e /\ ciper'.text = ciper.text
      BY <1>12, <2>2
    <2>11. Fits' => de'.out = IF (de'.next - 1) * Round < Len(ciper'.text) THEN (de'.next - 1) * Round
                              ELSE Len(ciper'.text)
      BY <2>2, <2>3, <2>10 DEF Behind
    <2> HIDE DEF m, k
    <2>12. /\ de'.out <= (de'.next - 1) * Round
           /\ \A i \in 1..Len(de'.buf) : i > (de'.next - 1) * Round => de'.buf[i] = 0
      BY <2>4, <2>8, <2>10 DEF m
    <2>13. Fits' => \A i \in 1..Len(de'.buf) : de'.buf[i] = IF i <= de'.out THEN ciper'.text[i] ELSE 0
      BY <2>2, <2>7, <2>10
    <2> QED
      BY <2>9, <2>11, <2>12, <2>13, Zenon DEF HalfRead, Behind
  <1>16. TextReadsBack'
    <2>1. e < Len(de'.buf)
      BY <1>7, <1>10, <1>12
    <2> QED
      BY <1>5, <1>12, <2>1 DEF RsaInv, TextReadsBack
  <1> QED
    BY <1>13, <1>14, <1>15, <1>16 DEF RsaInv

LEMMA StepRound ==
    ASSUME RsaAssumption, RsaInv, Round_de
    PROVE  RsaInv'
  <1> DEFINE c == Len(ciper.blocks)
             k == de.next
             b == ciper.blocks[k]
  <1>1. de # Idle /\ k <= c
    BY DEF Round_de
  <1>2. k \in 1..c /\ ciper.blocks # <<>> /\ c \in Nat \ {0}
    <2>1. k \in 1..c + 1 /\ ciper.blocks # <<>>
      BY <1>1, UnderWay
    <2>2. c \in Nat \ {0}
      BY <2>1, CiperIs
    <2> QED
      BY <1>1, <2>1, <2>2
  <1>3. b.key = ciper.blocks[1].key
    BY <1>2, CiperIs
  <1>4. CASE b.key = de.key
    <2>1. Placed(b.piece)
      BY <1>4 DEF Round_de
    <2>2. b.piece \in Seq(Char) /\ Len(b.piece) <= Round
      <3> DEFINE text == ciper.text
      <3>1. /\ text \in Seq(Char) \ {<<>>} /\ k \in 1..Len(Pieces(text)) /\ b.piece = Pieces(text)[k]
        BY <1>2, CiperIs
      <3> HIDE DEF text, k, b
      <3>2. Pieces(text)[k] \in Seq(Char)
        BY <3>1, PiecesAre
      <3>3. /\ EndOf(text, k - 1) \in Nat /\ EndOf(text, k) \in Nat /\ EndOf(text, k - 1) < EndOf(text, k)
            /\ EndOf(text, k) <= Len(text) /\ Len(b.piece) = EndOf(text, k) - EndOf(text, k - 1)
        BY <3>1, PiecesAre
      <3>4. k \in Nat \ {0} /\ k \in 1..k
        BY <1>2, <3>1, PiecesAre
      <3>5. (k - 1) * Round \in Nat /\ k * Round \in Nat /\ k * Round = (k - 1) * Round + Round /\ Round \in Nat
        BY <3>4, RoomOf, Rounds
      <3> DEFINE t == (k - 1) * Round
                 u == k * Round
      <3>6. /\ EndOf(text, k - 1) = IF t < Len(text) THEN t ELSE Len(text)
            /\ EndOf(text, k) = IF u < Len(text) THEN u ELSE Len(text)
            /\ t \in Nat /\ u = t + Round
        BY <3>5 DEF EndOf
      <3>7. Len(text) \in Nat
        BY <3>1, LenProperties
      <3> HIDE DEF t, u
      <3>8. Len(b.piece) <= Round
        BY <3>3, <3>5, <3>6, <3>7
      <3> QED
        BY <3>1, <3>2, <3>8
    <2>3. b.piece \in Seq(Char \cup {0})
      <3>1. Seq(Char) \subseteq Seq(Char \cup {0})
        BY MoreSequences
      <3> QED
        BY <2>2, <3>1
    <2> QED
      BY <1>1, <2>1, <2>2, <2>3, StepPlaced
  <1>5. CASE b.key # de.key
    <2>1. CASE Return(-1, <<>>, FALSE)
      <3>1. <<>> \in Seq(Char) /\ -1 \in {0, -1}
        OBVIOUS
      <3> QED
        BY <2>1, <3>1, Returns
    <2>2. CASE \E junk \in BoundedSeq(Char \cup {0}, Round) : Placed(junk)
      <3>1. PICK junk \in BoundedSeq(Char \cup {0}, Round) : Placed(junk)
        BY <2>2
      <3>2. PICK n \in 0..Round : junk \in [1..n -> Char \cup {0}]
        BY DEF BoundedSeq, SeqOf
      <3>3. Round \in Nat
        BY Rounds
      <3>4. junk \in Seq(Char \cup {0}) /\ Len(junk) <= Round
        BY <3>2, <3>3
      <3>5. ~Fits
        BY <1>3, <1>5 DEF Fits
      <3> QED
        BY <1>1, <3>1, <3>4, <3>5, StepPlaced
    <2> QED
      BY <1>5, <2>1, <2>2 DEF Round_de
  <1> QED
    BY <1>4, <1>5

(* All pieces are there, and a zero behind the last one. *)
LEMMA StepDone ==
    ASSUME RsaAssumption, RsaInv, Done_de
    PROVE  RsaInv'
  <1> DEFINE c == Len(ciper.blocks)
             text == ciper.text
             n == Advanced(de.buf, 0)
             L == c * KeyLen
             r == SubSeq(de.buf, 1, n)
  <1>1. de # Idle /\ de.next > c
    BY DEF Done_de
  <1>2. /\ ciper.blocks # <<>> /\ de.next \in 1..c + 1
        /\ de.buf \in Seq(Char \cup {0}) /\ Len(de.buf) = L
        /\ \A i \in 1..L : i > (de.next - 1) * Round => de.buf[i] = 0
        /\ Fits => /\ de.out = EndOf(text, de.next - 1)
                   /\ \A i \in 1..L : de.buf[i] = IF i <= de.out THEN text[i] ELSE 0
    BY <1>1, UnderWay
  <1>3. /\ text \in Seq(Char) \ {<<>>} /\ c = Len(Pieces(text)) /\ c \in Nat \ {0}
        /\ Len(text) \in Nat /\ Len(text) < L /\ L \in Nat
    BY <1>2, CiperIs
  <1>4. de.next - 1 = c /\ c \in 1..c
    BY <1>1, <1>2, <1>3
  <1>5. c * Round \in Nat /\ c * Round < L
    BY <1>3, <1>4, RoomOf
  <1>6. \A i \in 1..L : i > c * Round => de.buf[i] = 0
    BY <1>2, <1>4
  <1> DEFINE k == c * Round
             held == de.buf
  <1>7. /\ k \in 0..L /\ 0 \in 0..k /\ L \in Nat /\ Len(held) = L
        /\ \A i \in 1..L : i > k => held[i] = 0
    BY <1>2, <1>3, <1>5, <1>6
  <1>8. n \in 0..k /\ \A i \in 0 + 1..n : held[i] # 0
    <2> DEFINE room == de.buf
    <2>1. /\ k \in 0..L /\ 0 \in 0..k /\ L \in Nat /\ Len(room) = L
          /\ \A i \in 1..L : i > k => room[i] = 0
      BY <1>7
    <2>2. n = Advanced(room, 0)
      OBVIOUS
    <2> HIDE DEF k, L, room, n, held
    <2>3. n \in 0..k /\ \A i \in 0 + 1..n : room[i] # 0
      BY <2>1, <2>2, AdvancedWithin
    <2> QED
      BY <2>3 DEF room, held
  <1>9. n \in 0..L
    BY <1>3, <1>5, <1>8
  <1> HIDE DEF n, k, L
  <1>10. r \in Seq(Char) /\ Len(r) = n /\ \A i \in 1..n : r[i] = held[i]
    <2>1. n \in 0..Len(held) /\ 1 \in Nat \ {0} /\ 1 <= n + 1
      BY <1>2, <1>3, <1>9
    <2>2. r \in Seq(Char \cup {0}) /\ Len(r) = n - 1 + 1 /\ \A i \in 1..Len(r) : r[i] = held[1 + i - 1]
      BY <1>2, <2>1, SubSeqPlaces
    <2> HIDE DEF r
    <2>3. Len(r) = n
      BY <1>3, <1>9, <2>2
    <2>4. ASSUME NEW i \in 1..n PROVE r[i] = held[i] /\ r[i] \in Char
      <3>1. 1 + i - 1 = i /\ i \in 0 + 1..n
        BY <1>3, <1>9
      <3>2. r[i] = held[i]
        BY <2>2, <2>3, <3>1
      <3>3. held[i] # 0
        BY <1>8, <3>1
      <3>4. r[i] \in Char \cup {0}
        BY <2>2, <2>3
      <3> QED
        BY <3>2, <3>3, <3>4
    <2>5. r \in Seq(Char)
      <3>1. r = [i \in 1..n |-> r[i]] /\ n \in Nat
        BY <1>3, <1>9, <2>2, <2>3
      <3> QED
        BY <2>4, <3>1
    <2> QED
      BY <2>3, <2>4, <2>5
  <1>11. ASSUME Fits PROVE r = text
    <2>1. de.out = Len(text)
      <3>1. EndOf(text, c) = Len(text)
        BY <1>3, PiecesAre
      <3> QED
        BY <1>2, <1>4, <1>11, <3>1
    <2>2. ASSUME NEW i \in 1..Len(text) PROVE held[i] = text[i] /\ held[i] # 0
      <3>1. i \in 1..L /\ i <= Len(text)
        BY <1>3
      <3>2. text[i] \in Char
        BY <1>3
      <3> QED
        BY <1>2, <1>11, <2>1, <3>1, <3>2 DEF RsaAssumption
    <2>3. ASSUME NEW i \in 1..L, i > Len(text) PROVE held[i] = 0
      BY <1>2, <1>3, <1>11, <2>1, <2>3
    <2>4. n = Len(text)
      <3>1. \A i \in 1..L : held[i] = 0 <=> i > Len(text)
        <4> SUFFICES ASSUME NEW i \in 1..L PROVE held[i] = 0 <=> i > Len(text)
          OBVIOUS
        <4>1. i \in 1..Len(text) \/ i > Len(text)
          BY <1>3
        <4>2. i \in 1..Len(text) => ~(i > Len(text))
          BY <1>3
        <4> QED
          BY <2>2, <2>3, <4>1, <4>2
      <3>2. Len(text) \in 0..L /\ 0 \in 0..Len(text)
        BY <1>3
      <3> DEFINE m == Len(text)
      <3>3. m \in 0..L /\ 0 \in 0..m /\ \A i \in 1..L : held[i] = 0 <=> i > m
        BY <3>1, <3>2
      <3> HIDE DEF m, held
      <3>4. Advanced(held, 0) = m
        BY <1>7, <3>3, AdvancedIs
      <3> QED
        BY <3>4 DEF n, m, held
    <2> HIDE DEF r
    <2>5. \A i \in 1..Len(r) : r[i] = text[i]
      BY <1>10, <2>2, <2>4
    <2> QED
      BY <1>3, <1>10, <2>4, <2>5, SeqEqual
  <1>12. Return(0, r, Fits)
    BY DEF Done_de, n
  <1> HIDE DEF r
  <1>13. 0 \in {0, -1} /\ Fits \in BOOLEAN
    BY DEF Fits
  <1> QED
    BY <1>10, <1>11, <1>12, <1>13, Returns

LEMMA RsaInvNext == ASSUME RsaAssumption, RsaInv, [RsaNext]_rsaVars PROVE RsaInv'
  <1>1. CASE UNCHANGED rsaVars
    BY <1>1 DEF rsaVars, RsaInv, RsaTypeOK, CiperWhole, HalfRead, Fits, Behind, TextReadsBack
  <1>2. CASE RsaNext
    <2>1. ASSUME NEW text \in BoundedSeq(Char, TextLen) \ {<<>>} PROVE text \in Seq(Char) \ {<<>>}
      <3>1. TextLen \in Nat
        BY DEF RsaAssumption
      <3>2. PICK k \in 0..TextLen : text \in [1..k -> Char]
        BY DEF BoundedSeq, SeqOf
      <3> QED
        BY <3>1, <3>2
    <2>2. CASE generate_rsa_key_to_file
      BY <2>2, StepGenerate
    <2>3. CASE \E text \in BoundedSeq(Char, TextLen) \ {<<>>} : rsa_public_en(text)
      BY <2>1, <2>3, StepEncrypt
    <2>4. CASE rsa_private_de
      BY <2>4, StepBegin
    <2>5. CASE Round_de
      BY <2>5, StepRound
    <2>6. CASE Done_de
      BY <2>6, StepDone
    <2> QED
      BY <1>2, <2>2, <2>3, <2>4, <2>5, <2>6 DEF RsaNext
  <1> QED
    BY <1>1, <1>2

(* A ciphertext stands for its text, and a decryption has put together what it read. *)
THEOREM RsaInductive == ASSUME RsaAssumption PROVE RsaSpec => []RsaInv
  <1>1. RsaInit => RsaInv
    BY InitRsaInv
  <1>2. RsaInv /\ [RsaNext]_rsaVars => RsaInv'
    BY RsaInvNext
  <1> QED
    BY <1>1, <1>2, PTL DEF RsaSpec

(* rsa_private_de, with the private key of the pair whose public key            *)
(* rsa_public_en had, gives back its text; with any key it keeps to its memory. *)
THEOREM TextWhole == ASSUME RsaAssumption PROVE RsaSpec => []TextReadsBack
  <1>1. RsaInv => TextReadsBack
    BY DEF RsaInv
  <1> QED
    BY <1>1, RsaInductive, PTL

-----------------------------------------------------------------------------
(* ListSort *)

(* The nodes to sort, and what their keys are. *)
LEMMA NodesAre ==
    ASSUME ListSortAssumption, SortTypeOK
    PROVE  /\ MaxNodes \in Nat /\ NULL \notin Node /\ head \in Node /\ head = 0
           /\ Len(key) \in Nat /\ Len(key) <= MaxNodes /\ (key = <<>> <=> Len(key) = 0)
           /\ Count \in Nat \ {0} /\ Count = (IF Len(key) = 0 THEN 1 ELSE Len(key))
           /\ Sorting = IF Len(key) = 0 THEN {head} ELSE 1..Len(key)
           /\ Sorting \subseteq Node
           /\ \A n \in 1..Len(key) : key[n] \in Key /\ key[n] \in Int
           /\ Count > 1 => \A n \in Sorting : key[n] \in Int
  <1>1. MaxNodes \in Nat /\ NULL \notin Node /\ head \in Node /\ head = 0
    BY DEF ListSortAssumption, Node, head
  <1>2. key \in Seq(Key) /\ Len(key) <= MaxNodes /\ Key \subseteq Int
    BY DEF ListSortAssumption, SortTypeOK
  <1>3. Len(key) \in Nat /\ (key = <<>> <=> Len(key) = 0)
    BY <1>2, QueuePlaces
  <1>4. ASSUME NEW n \in 1..Len(key) PROVE key[n] \in Key /\ key[n] \in Int
    <2>1. key[n] \in Key
      BY <1>2, ElementOfSeq
    <2> QED
      BY <1>2, <2>1
  <1>5. Count \in Nat \ {0} /\ Count = IF Len(key) = 0 THEN 1 ELSE Len(key)
    BY <1>3 DEF Count
  <1>6. Sorting = IF Len(key) = 0 THEN {head} ELSE 1..Len(key)
    BY <1>3 DEF Sorting
  <1>7. Sorting \subseteq Node
    <2>1. CASE Len(key) = 0
      BY <1>1, <1>6, <2>1
    <2>2. CASE Len(key) # 0
      BY <1>1, <1>2, <1>3, <1>6, <2>2 DEF Node
    <2> QED
      BY <2>1, <2>2
  <1> QED
    BY <1>1, <1>2, <1>3, <1>4, <1>5, <1>6, <1>7

(* What a sort that is under way leaves alone. *)
LEMMA SameKeys ==
    ASSUME key' = key, order' = order
    PROVE  /\ Count' = Count /\ Sorting' = Sorting
           /\ \A t : Stable(t)' <=> Stable(t)
           /\ \A t, a, b, m : InRuns(t, a, b, m)' <=> InRuns(t, a, b, m)
           /\ \A n : PlaceOf(n)' = PlaceOf(n)
  <1>1. Count' = Count /\ Sorting' = Sorting
    BY DEF Count, Sorting
  <1>2. ASSUME NEW n PROVE PlaceOf(n)' = PlaceOf(n)
    BY DEF PlaceOf, SelectInSeq
  <1>3. ASSUME NEW t PROVE Stable(t)' <=> Stable(t)
    BY <1>1, <1>2 DEF Stable
  <1>4. ASSUME NEW t, NEW a, NEW b, NEW m PROVE InRuns(t, a, b, m)' <=> InRuns(t, a, b, m)
    BY DEF InRuns
  <1> QED
    BY <1>1, <1>2, <1>3, <1>4

(* Where a walk along f leads that goes by c. *)
Leads(f, c, n) == c[0] = head /\ \A i \in 0..n - 1 : f[c[i]] = c[i + 1]
Steps(c, n) == [i \in 1..n |-> c[i]]
LEMMA WalkIs ==
    ASSUME NEW f, NEW c, NEW n \in Nat, Leads(f, c, n)
    PROVE  Walk(f, n) = Steps(c, n)
  <1>0. c[0] = head /\ \A i \in 0..n - 1 : f[c[i]] = c[i + 1]
    BY DEF Leads
  <1> DEFINE w == CHOOSE w : w = [i \in 0..n |-> IF i = 0 THEN head ELSE f[w[i - 1]]]
             g == [i \in 0..n |-> c[i]]
  <1>1. g = [i \in 0..n |-> IF i = 0 THEN head ELSE f[g[i - 1]]]
    <2>1. ASSUME NEW i \in 0..n PROVE c[i] = IF i = 0 THEN head ELSE f[g[i - 1]]
      <3>1. CASE i # 0
        <4>1. i - 1 \in 0..n - 1 /\ i - 1 \in 0..n /\ (i - 1) + 1 = i
          BY <3>1
        <4> QED
          BY <1>0, <3>1, <4>1
      <3> QED
        BY <1>0, <3>1
    <2> QED
      BY <2>1
  <1>2. w = [i \in 0..n |-> IF i = 0 THEN head ELSE f[w[i - 1]]]
    BY <1>1
  <1>3. Walk(f, n) = [i \in 1..n |-> w[i]]
    BY DEF Walk
  <1> HIDE DEF w, g
  <1>4. ASSUME NEW i \in 0..n PROVE w[i] = c[i]
    <2> DEFINE I == {j \in 0..n : w[j] # c[j]}
               m == Min(I)
    <2>1. I \in SUBSET Nat
      OBVIOUS
    <2>2. CASE I # {}
      <3>1. m \in I /\ \A y \in I : m <= y
        BY <2>1, <2>2, SmallestIsIn
      <3> HIDE DEF m
      <3>2. m \in 0..n /\ w[m] # c[m]
        BY <3>1
      <3>3. m # 0
        BY <1>0, <1>2, <3>2
      <3>4. m - 1 \in 0..n - 1 /\ m - 1 \in 0..n /\ (m - 1) + 1 = m /\ ~(m <= m - 1)
        BY <3>2, <3>3
      <3>5. w[m - 1] = c[m - 1]
        BY <3>1, <3>4
      <3>6. w[m] = f[w[m - 1]]
        BY <1>2, <3>2, <3>3
      <3> QED
        BY <1>0, <3>2, <3>4, <3>5, <3>6
    <2>3. CASE I = {}
      BY <2>3
    <2> QED
      BY <2>2, <2>3
  <1> QED
    BY <1>3, <1>4 DEF Steps

(* The empty list goes round from the head at once. *)
LEMMA InitSortInv == ASSUME ListSortAssumption, SortInit PROVE SortInv
  <1>1. SortTypeOK
    <2>1. MaxNodes \in Nat /\ <<>> \in Seq(Key) /\ Len(<<>>) = 0
      BY DEF ListSortAssumption
    <2> QED
      BY <2>1 DEF SortInit, SortTypeOK, Node
  <1>2. key = <<>> /\ Len(key) = 0 /\ ~sorted /\ next[0] = 0 /\ prev[0] = 0
    BY <1>1, NodesAre DEF SortInit, Node
  <1> DEFINE c == [i \in 0..0 |-> 0]
  <1>3. c \in [0..Len(key) -> 0..Len(key)]
    BY <1>2
  <1>4. IdleAt(c)
    <2>1. c[0] = 0 /\ \A i \in 0..0 : i = 0
      OBVIOUS
    <2>2. Arranged(c, 0..Len(key), 0..Len(key))
      BY <1>2, <2>1 DEF Arranged
    <2> HIDE DEF c
    <2> QED
      BY <1>2, <2>1, <2>2 DEF IdleAt, head
  <1> HIDE DEF c
  <1>5. sort_pc = "idle"
    BY DEF SortInit
  <1> QED
    BY <1>1, <1>3, <1>4, <1>5 DEF SortInv

(* A node comes in behind place k of the circle. *)
LEMMA AddedAt ==
    ASSUME ListSortAssumption, SortTypeOK, NEW c, IdleAt(c), NEW k \in 0..Len(key), NEW x \in Key,
           Add(x, c[k], next[c[k]]), sorted' = FALSE
    PROVE  \E new \in [0..Len(key') -> 0..Len(key')] : IdleAt(new)'
  <1>0. PICK n \in Nat : n = Len(key)
    BY NodesAre
  <1> DEFINE new == [i \in 0..n + 1 |-> IF i <= k THEN c[i] ELSE IF i = k + 1 THEN n + 1 ELSE c[i - 1]]
  <1>1. n <= MaxNodes /\ MaxNodes \in Nat /\ head = 0 /\ k \in 0..n /\ k \in Nat
    BY <1>0, NodesAre
  <1>2. /\ c \in [0..n -> 0..n] /\ c[0] = 0
        /\ \A i, j \in 0..n : c[i] = c[j] => i = j
        /\ \A m \in 0..n : \E i \in 0..n : c[i] = m
        /\ \A i \in 0..n : /\ next[c[i]] = c[IF i = n THEN 0 ELSE i + 1]
                           /\ prev[c[i]] = c[IF i = 0 THEN n ELSE i - 1]
    BY <1>0, <1>1, SMTT(90) DEF IdleAt, Arranged
  <1>3. PICK m \in 0..n : m = IF k = n THEN 0 ELSE k + 1
    BY <1>1
  <1>4. /\ n + 1 <= MaxNodes /\ key' = Append(key, x)
        /\ next' = [next EXCEPT ![n + 1] = c[m], ![c[k]] = n + 1]
        /\ prev' = [prev EXCEPT ![c[m]] = n + 1, ![n + 1] = c[k]]
    BY <1>0, <1>1, <1>2, <1>3 DEF Add
  <1>5. Len(key') = n + 1
    BY <1>0, <1>4 DEF SortTypeOK
  <1>6. next \in [0..MaxNodes -> 0..MaxNodes] /\ prev \in [0..MaxNodes -> 0..MaxNodes \cup {NULL}]
    BY DEF SortTypeOK, Node
  <1>7. /\ \A i \in 0..n : c[i] \in 0..n /\ c[i] \in 0..MaxNodes /\ c[i] # n + 1
        /\ n + 1 \in 0..MaxNodes
    <2>1. n + 1 \in 0..MaxNodes
      BY <1>1, <1>4
    <2>2. ASSUME NEW i \in 0..n PROVE c[i] \in 0..n /\ c[i] \in 0..MaxNodes /\ c[i] # n + 1
      <3>1. c[i] \in 0..n
        BY <1>2
      <3> QED
        BY <1>1, <3>1
    <2> QED
      BY <2>1, <2>2
  <1>8. /\ next'[n + 1] = c[m] /\ prev'[n + 1] = c[k]
        /\ \A i \in 0..n : /\ next'[c[i]] = IF i = k THEN n + 1 ELSE c[IF i = n THEN 0 ELSE i + 1]
                           /\ prev'[c[i]] = IF i = m THEN n + 1 ELSE c[IF i = 0 THEN n ELSE i - 1]
    <2>1. next'[n + 1] = c[m] /\ prev'[n + 1] = c[k]
      BY <1>1, <1>3, <1>4, <1>6, <1>7
    <2>2. ASSUME NEW i \in 0..n
          PROVE  /\ next'[c[i]] = IF i = k THEN n + 1 ELSE next[c[i]]
                 /\ prev'[c[i]] = IF i = m THEN n + 1 ELSE prev[c[i]]
      <3>1. (c[i] = c[k] <=> i = k) /\ (c[i] = c[m] <=> i = m)
        BY <1>1, <1>2, <1>3
      <3> QED
        BY <1>4, <1>6, <1>7, <3>1
    <2> QED
      BY <1>2, <2>1, <2>2
  <1>9. /\ \A i \in 0..k : new[i] = c[i] /\ i \in 0..n
        /\ new[k + 1] = n + 1
        /\ \A i \in k + 2..n + 1 : new[i] = c[i - 1] /\ i - 1 \in 0..n
        /\ \A i \in 0..n + 1 : i \in 0..k \/ i = k + 1 \/ i \in k + 2..n + 1
        /\ new \in [0..n + 1 -> 0..n + 1]
    BY <1>1, <1>7
  <1> HIDE DEF new
  <1>10. Arranged(new, 0..n + 1, 0..n + 1)
    <2>1. ASSUME NEW i \in 0..n + 1, NEW j \in 0..n + 1, new[i] = new[j] PROVE i = j
      <3>1. ASSUME NEW u \in 0..n + 1
            PROVE  \/ u = k + 1 /\ new[u] = n + 1
                   \/ u \in 0..k /\ u \in 0..n /\ new[u] = c[u] /\ new[u] # n + 1
                   \/ u \in k + 2..n + 1 /\ u - 1 \in 0..n /\ new[u] = c[u - 1] /\ new[u] # n + 1
        BY <1>7, <1>9
      <3>2. ASSUME NEW u \in 0..n, NEW v \in 0..n, c[u] = c[v] PROVE u = v
        BY <1>2, <3>2
      <3>3. CASE new[i] = n + 1
        BY <2>1, <3>1, <3>3
      <3>4. CASE new[i] # n + 1
        <4>0. ASSUME NEW u \in 0..n + 1, new[u] # n + 1
              PROVE  \E a \in 0..n : new[u] = c[a] /\ (u <= k => a = u) /\ (u > k => a = u - 1) /\ u # k + 1
          <5>1. CASE u \in 0..k
            <6>1. PICK v \in 0..n : v = u
              BY <1>1, <3>1, <5>1
            <6>2. new[u] = c[v] /\ u <= k /\ u # k + 1
              BY <1>1, <3>1, <5>1, <6>1
            <6> QED
              BY <6>1, <6>2
          <5>2. CASE u \in k + 2..n + 1
            <6>1. PICK v \in 0..n : v = u - 1
              BY <1>1, <3>1, <5>2
            <6>2. new[u] = c[v] /\ u > k + 1 /\ u # k + 1
              BY <1>1, <3>1, <5>2, <6>1
            <6> QED
              BY <6>1, <6>2
          <5> QED
            BY <3>1, <4>0, <5>1, <5>2
        <4>1. PICK a \in 0..n : new[i] = c[a] /\ (i <= k => a = i) /\ (i > k => a = i - 1) /\ i # k + 1
          BY <3>4, <4>0
        <4>2. PICK b \in 0..n : new[j] = c[b] /\ (j <= k => b = j) /\ (j > k => b = j - 1) /\ j # k + 1
          BY <2>1, <3>4, <4>0
        <4>3. a = b
          BY <2>1, <3>2, <4>1, <4>2
        <4> QED
          BY <1>1, <4>1, <4>2, <4>3
      <3> QED
        BY <3>3, <3>4
    <2>2. ASSUME NEW y \in 0..n + 1 PROVE \E i \in 0..n + 1 : new[i] = y
      <3>1. CASE y = n + 1
        BY <1>1, <1>9, <3>1
      <3>2. CASE y # n + 1
        <4>0. y \in 0..n
          BY <3>2
        <4>1. PICK i \in 0..n : c[i] = y
          BY <1>2, <4>0
        <4>2. CASE i <= k
          <5>1. i \in 0..k /\ i \in 0..n + 1
            BY <1>1, <4>2
          <5> QED
            BY <1>9, <4>1, <5>1
        <4>3. CASE i > k
          <5>1. i + 1 \in k + 2..n + 1 /\ (i + 1) - 1 = i /\ i + 1 \in 0..n + 1
            BY <1>1, <4>3
          <5> QED
            BY <1>9, <4>1, <5>1
        <4> QED
          BY <1>1, <4>2, <4>3
      <3> QED
        BY <3>1, <3>2
    <2> QED
      BY <1>9, <2>1, <2>2 DEF Arranged
  <1>11. ASSUME NEW i \in 0..n + 1
         PROVE  /\ next'[new[i]] = new[IF i = n + 1 THEN 0 ELSE i + 1]
                /\ prev'[new[i]] = new[IF i = 0 THEN n + 1 ELSE i - 1]
    <2>0. new[0] = c[0] /\ new[n + 1] = IF k = n THEN n + 1 ELSE c[n]
      <3>1. k # n => n + 1 \in k + 2..n + 1 /\ (n + 1) - 1 = n
        BY <1>1
      <3>2. 0 \in 0..k
        BY <1>1
      <3> QED
        BY <1>9, <3>1, <3>2
    <2>1. CASE i < k
      <3>1. i \in 0..n /\ i \in 0..k /\ i + 1 \in 0..k /\ i # n /\ i # n + 1 /\ i # k
        BY <1>1, <2>1
      <3>2. next'[new[i]] = new[i + 1]
        BY <1>8, <1>9, <3>1
      <3>3. i # 0 => i - 1 \in 0..k /\ i # m
        BY <1>1, <1>3, <2>1, <3>1
      <3>4. i = 0 => (i = m <=> k = n)
        BY <1>1, <1>3
      <3>5. prev'[new[i]] = IF i = m THEN n + 1 ELSE c[IF i = 0 THEN n ELSE i - 1]
        BY <1>8, <1>9, <3>1
      <3> QED
        BY <1>9, <2>0, <3>1, <3>2, <3>3, <3>4, <3>5
    <2>2. CASE i = k
      <3>1. i \in 0..n /\ i \in 0..k /\ i # n + 1 /\ new[i + 1] = n + 1
        BY <1>1, <1>9, <2>2
      <3>2. next'[new[i]] = new[i + 1]
        BY <1>8, <1>9, <2>2, <3>1
      <3>3. i # 0 => i - 1 \in 0..k /\ i # m
        BY <1>1, <1>3, <2>2, <3>1
      <3>4. i = 0 => (i = m <=> k = n)
        BY <1>1, <1>3
      <3>5. prev'[new[i]] = IF i = m THEN n + 1 ELSE c[IF i = 0 THEN n ELSE i - 1]
        BY <1>8, <1>9, <3>1
      <3> QED
        BY <1>9, <2>0, <3>1, <3>2, <3>3, <3>4, <3>5
    <2>3. CASE i = k + 1
      <3>1. new[i] = n + 1 /\ i # 0 /\ i - 1 = k /\ k \in 0..k
        BY <1>1, <1>9, <2>3
      <3>2. c[m] = new[IF i = n + 1 THEN 0 ELSE i + 1]
        <4>1. CASE k = n
          BY <1>3, <2>0, <2>3, <4>1
        <4>2. CASE k # n
          <5>1. k + 2 \in k + 2..n + 1 /\ (k + 2) - 1 = k + 1 /\ i # n + 1 /\ i + 1 = k + 2
            BY <1>1, <2>3, <4>2
          <5> QED
            BY <1>3, <1>9, <4>2, <5>1
        <4> QED
          BY <4>1, <4>2
      <3> QED
        BY <1>8, <1>9, <3>1, <3>2
    <2>4. CASE i > k + 1
      <3>1. /\ i \in k + 2..n + 1 /\ i - 1 \in 0..n /\ i - 1 # k /\ i - 1 # 0 /\ i # 0
            /\ (i - 1) - 1 = i - 2 /\ (i - 1) + 1 = i /\ (i - 1 = n <=> i = n + 1)
        BY <1>1, <2>4
      <3>2. new[i] = c[i - 1]
        BY <1>9, <3>1
      <3>3. next'[new[i]] = c[IF i = n + 1 THEN 0 ELSE i]
        BY <1>8, <3>1, <3>2
      <3>4. new[IF i = n + 1 THEN 0 ELSE i + 1] = c[IF i = n + 1 THEN 0 ELSE i]
        <4>1. i # n + 1 => i + 1 \in k + 2..n + 1 /\ (i + 1) - 1 = i
          BY <3>1
        <4> QED
          BY <1>9, <2>0, <4>1
      <3>5. prev'[new[i]] = IF i = k + 2 THEN n + 1 ELSE c[i - 2]
        <4>1. i - 1 = m <=> i = k + 2
          BY <1>1, <1>3, <3>1, <2>4
        <4> QED
          BY <1>8, <3>1, <3>2, <4>1
      <3>6. new[i - 1] = IF i = k + 2 THEN n + 1 ELSE c[i - 2]
        <4>1. i # k + 2 => i - 1 \in k + 2..n + 1
          BY <2>4, <3>1
        <4>2. i = k + 2 => i - 1 = k + 1
          OBVIOUS
        <4> QED
          BY <1>9, <3>1, <4>1, <4>2
      <3> QED
        BY <3>1, <3>3, <3>4, <3>5, <3>6
    <2> QED
      BY <1>1, <2>1, <2>2, <2>3, <2>4
  <1>12. new[0] = head
    BY <1>1, <1>2, <1>9
  <1>13. IdleAt(new)'
    <2>1. Arranged(new, 0..Len(key'), 0..Len(key'))
      BY <1>5, <1>10
    <2>2. \A i \in 0..Len(key') : /\ next'[new[i]] = new[IF i = Len(key') THEN 0 ELSE i + 1]
                                  /\ prev'[new[i]] = new[IF i = 0 THEN Len(key') ELSE i - 1]
      BY <1>5, <1>11
    <2> QED
      BY <1>12, <2>1, <2>2 DEF IdleAt
  <1> QED
    BY <1>5, <1>9, <1>13

(* Either end: list_head_add, list_add_tail. *)
LEMMA AddStep ==
    ASSUME ListSortAssumption, SortInv, NEW x \in Key, list_head_add(x) \/ list_add_tail(x)
    PROVE  SortInv'
  <1>t. SortTypeOK /\ sort_pc = "idle" /\ sort_pc' = "idle" /\ sorted' = FALSE
    BY DEF SortInv, list_head_add, list_add_tail
  <1>1. PICK c \in [0..Len(key) -> 0..Len(key)] : IdleAt(c)
    BY <1>t DEF SortInv
  <1>2. Len(key) \in Nat /\ head = 0 /\ Len(key) <= MaxNodes /\ MaxNodes \in Nat
    BY <1>t, NodesAre
  <1>3. c[0] = head /\ prev[c[0]] = c[Len(key)] /\ next[c[Len(key)]] = c[0]
    BY <1>1, <1>2 DEF IdleAt
  <1>4. PICK k \in 0..Len(key) : Add(x, c[k], next[c[k]])
    <2>1. CASE list_head_add(x)
      BY <1>2, <1>3, <2>1 DEF list_head_add
    <2>2. CASE list_add_tail(x)
      BY <1>2, <1>3, <2>2 DEF list_add_tail
    <2> QED
      BY <2>1, <2>2
  <1>5. \E new \in [0..Len(key') -> 0..Len(key')] : IdleAt(new)'
    BY <1>t, <1>1, <1>4, AddedAt
  <1>6. SortTypeOK'
    <2>1. /\ Len(key) + 1 <= MaxNodes /\ key' = Append(key, x)
          /\ next' = [next EXCEPT ![Len(key) + 1] = next[c[k]], ![c[k]] = Len(key) + 1]
          /\ prev' = [prev EXCEPT ![next[c[k]]] = Len(key) + 1, ![Len(key) + 1] = c[k]]
      BY <1>4 DEF Add
    <2>2. key' \in Seq(Key) /\ Len(key') = Len(key) + 1
      BY <1>t, <2>1 DEF SortTypeOK
    <2>3. c[k] \in Node /\ Len(key) + 1 \in Node
      BY <1>1, <1>2, <1>4, <2>1 DEF Node
    <2>4. next[c[k]] \in Node
      BY <1>t, <2>3 DEF SortTypeOK
    <2>5. next' \in [Node -> Node] /\ prev' \in [Node -> Node \cup {NULL}]
      BY <1>t, <2>1, <2>3, <2>4 DEF SortTypeOK
    <2>6. UNCHANGED locals
      BY DEF list_head_add, list_add_tail
    <2> QED
      BY <1>t, <1>2, <2>1, <2>2, <2>5, <2>6 DEF SortTypeOK, locals
  <1> QED
    BY <1>t, <1>5, <1>6 DEF SortInv

(* list_sort begins: the circle without the head is what is to be sorted, and   *)
(* its order the one that sorting refers to.                                    *)
LEMMA SortBegins ==
    ASSUME ListSortAssumption, SortInv, list_sort
    PROVE  SortInv'
  <1>t. SortTypeOK /\ sort_pc = "idle" /\ sort_pc' = "pass" /\ key' = key /\ insize' = 1
    BY DEF SortInv, list_sort
  <1>0. PICK n \in Nat : n = Len(key)
    BY <1>t, NodesAre
  <1>1. n <= MaxNodes /\ MaxNodes \in Nat /\ head = 0 /\ NULL \notin Node /\ head \in Node
    BY <1>t, <1>0, NodesAre
  <1>2. PICK c \in [0..n -> 0..n] : IdleAt(c)
    BY <1>t, <1>0 DEF SortInv
  <1>3. /\ c[0] = 0
        /\ \A i, j \in 0..n : c[i] = c[j] => i = j
        /\ \A m \in 0..n : \E i \in 0..n : c[i] = m
        /\ \A i \in 0..n : /\ next[c[i]] = c[IF i = n THEN 0 ELSE i + 1]
                           /\ prev[c[i]] = c[IF i = 0 THEN n ELSE i - 1]
    BY <1>0, <1>1, <1>2 DEF IdleAt, Arranged
  <1>4. next \in [Node -> Node] /\ prev \in [Node -> Node \cup {NULL}] /\ Node = 0..MaxNodes
    BY <1>t DEF SortTypeOK, Node
  <1>5. \A i \in 0..n : c[i] \in Node
    <2>1. ASSUME NEW i \in 0..n PROVE c[i] \in Node
      <3>1. c[i] \in 0..n
        BY <1>2
      <3> QED
        BY <1>1, <1>4, <3>1
    <2> QED
      BY <2>1
  <1>6. PICK a \in 0..n : a = (IF n = 0 THEN 0 ELSE 1) /\ next[head] = c[a] /\ prev[head] = c[n]
    <2>1. 0 \in 0..n /\ n \in 0..n
      OBVIOUS
    <2>2. next[0] = c[IF 0 = n THEN 0 ELSE 0 + 1] /\ prev[0] = c[n]
      BY <1>3, <2>1
    <2>3. PICK a \in 0..n : a = IF n = 0 THEN 0 ELSE 1
      BY <2>1
    <2> QED
      BY <1>1, <2>2, <2>3
  <1>7. /\ list' = c[a] /\ order' = Along(next)
        /\ next' = [next EXCEPT ![c[n]] = c[a], ![head] = head]
        /\ prev' = [prev EXCEPT ![c[a]] = c[n], ![head] = head]
    BY <1>6 DEF list_sort
  <1>8. c[n] \in Node /\ c[a] \in Node
    BY <1>5
  <1>9. SortTypeOK'
    <2>1. next' \in [Node -> Node] /\ prev' \in [Node -> Node \cup {NULL}]
      BY <1>1, <1>4, <1>7, <1>8
    <2>2. /\ UNCHANGED <<p, q, tail, oldhead, nmerges, psize, qsize>>
          /\ sorted' = TRUE
      BY DEF list_sort
    <2> QED
      <3>1. {p, q, list, tail, oldhead}' \subseteq Node \cup {NULL}
        BY <1>t, <1>7, <1>8, <2>2 DEF SortTypeOK
      <3>2. {insize', nmerges', psize', qsize'} \subseteq Nat
        BY <1>t, <2>2 DEF SortTypeOK
      <3> QED
        BY <1>t, <2>1, <2>2, <3>1, <3>2 DEF SortTypeOK
  <1>10. order' = [i \in 1..n |-> c[i]]
    <2>1. ASSUME NEW i \in 0..n - 1 PROVE next[c[i]] = c[i + 1]
      <3>1. i \in 0..n /\ i # n
        OBVIOUS
      <3> QED
        BY <1>3, <3>1
    <2>2. n \in Nat /\ c[0] = head
      BY <1>0, <1>1, <1>3
    <2>3. Walk(next, n) = [i \in 1..n |-> c[i]]
      <3>1. Leads(next, c, n)
        BY <2>1, <2>2 DEF Leads
      <3>2. Walk(next, n) = Steps(c, n)
        BY <3>1, WalkIs
      <3> QED
        BY <3>2 DEF Steps
    <2>4. Along(next) = Walk(next, n)
      BY <1>0 DEF Along
    <2> QED
      BY <1>7, <2>3, <2>4
  <1>11. Count' = Count /\ Sorting' = Sorting /\ Count = (IF n = 0 THEN 1 ELSE n)
         /\ Sorting = IF n = 0 THEN {head} ELSE 1..n
    <2>1. Count' = Count /\ Sorting' = Sorting
      BY <1>t DEF Count, Sorting
    <2> QED
      BY <1>t, <1>0, <2>1, NodesAre
  <1>12. CASE n = 0
    <2> DEFINE t == [i \in 1..1 |-> 0]
    <2>1. t \in [1..1 -> {0}] /\ t[1] = 0 /\ \A i \in 1..1 : i = 1
      OBVIOUS
    <2> HIDE DEF t
    <2>2. list' = 0 /\ next'[0] = 0
      BY <1>1, <1>3, <1>4, <1>6, <1>7, <1>12
    <2>3. PassAt(t)'
      <3>1. Count' = 1 /\ Sorting' = {0}
        BY <1>1, <1>11, <1>12
      <3>2. Arranged(t, 1..1, {0})
        BY <2>1 DEF Arranged
      <3>3. Stable(t)'
        BY <3>1, <2>1 DEF Stable
      <3>4. InRuns(t, 1, 1, 1)'
        BY <2>1 DEF InRuns
      <3> QED
        BY <1>t, <2>1, <2>2, <3>1, <3>2, <3>3, <3>4 DEF PassAt
    <2>4. t \in Orders'
      BY <1>1, <1>11, <1>12, <2>1 DEF Orders
    <2> QED
      BY <1>t, <1>9, <2>3, <2>4 DEF SortInv
  <1>13. CASE n # 0
    <2> DEFINE t == [i \in 1..n |-> c[i]]
    <2>1. \A i \in 1..n : i \in 0..n /\ t[i] = c[i] /\ c[i] # 0 /\ c[i] \in 1..n
      <3>1. ASSUME NEW i \in 1..n PROVE i \in 0..n /\ t[i] = c[i] /\ c[i] # 0 /\ c[i] \in 1..n
        <4>1. i \in 0..n /\ 0 \in 0..n /\ i # 0 /\ t[i] = c[i]
          OBVIOUS
        <4>2. c[i] \in 0..n
          BY <1>2, <4>1
        <4>3. c[i] # 0
          BY <1>3, <4>1
        <4> QED
          BY <4>1, <4>2, <4>3
      <3> QED
        BY <3>1
    <2>2. t \in [1..n -> 1..n]
      BY <2>1
    <2>3. order' = t
      BY <1>10
    <2> HIDE DEF t
    <2>4. Arranged(t, 1..n, 1..n)
      <3>1. ASSUME NEW i \in 1..n, NEW j \in 1..n, t[i] = t[j] PROVE i = j
        BY <1>3, <2>1, <3>1
      <3>2. ASSUME NEW m \in 1..n PROVE \E i \in 1..n : t[i] = m
        <4>1. PICK i \in 0..n : c[i] = m
          BY <1>3
        <4>2. i # 0
          BY <1>3, <4>1
        <4>3. i \in 1..n
          BY <4>2
        <4> QED
          BY <2>1, <4>1, <4>3
      <3> QED
        BY <2>2, <3>1, <3>2 DEF Arranged
    <2>5. Count' = n /\ Sorting' = 1..n
      BY <1>11, <1>13
    <2>6. ASSUME NEW i \in 1..n PROVE PlaceOf(t[i])' = i
      <3> DEFINE I == {j \in 1..Len(order') : order'[j] = t[i]}
      <3>1. PlaceOf(t[i])' = IF I # {} THEN Min(I) ELSE 0
        BY DEF PlaceOf, SelectInSeq
      <3>2. Len(order') = n
        BY <1>10
      <3>3. i \in I
        BY <2>3, <3>2
      <3>4. \A j \in I : j = i
        BY <2>3, <2>4, <3>2 DEF Arranged
      <3>5. I \in SUBSET Nat
        BY <3>2
      <3> HIDE DEF I
      <3>6. Min(I) \in I
        BY <3>3, <3>5, SmallestIsIn
      <3> QED
        BY <3>1, <3>3, <3>4, <3>6
    <2>7. Stable(t)'
      BY <2>5, <2>6 DEF Stable
    <2>8. InRuns(t, 1, n, 1)'
      <3>1. ASSUME NEW i \in 1..n PROVE (i - 1) \div 1 = i - 1
        OBVIOUS
      <3> QED
        BY <3>1 DEF InRuns
    <2>9. ASSUME NEW i \in 1..n PROVE next'[t[i]] = t[IF i = n THEN 1 ELSE i + 1]
      <3>1. i \in 0..n /\ t[i] = c[i] /\ c[i] # 0 /\ c[i] \in Node /\ n \in 0..n
        BY <1>5, <2>1
      <3>2. next'[c[i]] = IF i = n THEN c[a] ELSE next[c[i]]
        <4>1. next'[c[i]] = IF c[i] = c[n] THEN c[a] ELSE next[c[i]]
          BY <1>1, <1>4, <1>7, <3>1
        <4>2. c[i] = c[n] <=> i = n
          BY <1>3, <3>1
        <4> QED
          BY <4>1, <4>2
      <3>3. i # n => i + 1 \in 1..n /\ next[c[i]] = c[i + 1]
        BY <1>3, <3>1
      <3>4. a = 1 /\ 1 \in 1..n
        BY <1>6, <1>13
      <3> QED
        BY <2>1, <3>1, <3>2, <3>3, <3>4
    <2>10. list' = t[1]
      BY <1>6, <1>7, <1>13, <2>1
    <2>11. PassAt(t)'
      <3>1. Arranged(t, 1..Count', Sorting')
        BY <2>4, <2>5
      <3>2. InRuns(t, 1, Count, insize)'
        BY <1>t, <2>5, <2>8
      <3>3. insize' > 0
        BY <1>t
      <3> QED
        BY <2>5, <2>7, <2>9, <2>10, <3>1, <3>2, <3>3 DEF PassAt
    <2>12. t \in Orders'
      BY <2>2, <2>5 DEF Orders
    <2> QED
      BY <1>t, <1>9, <2>11, <2>12 DEF SortInv
  <1> QED
    BY <1>12, <1>13

(* A pass begins with the nodes linked as they are in t. *)
LEMMA PassStep ==
    ASSUME ListSortAssumption, SortInv, Pass
    PROVE  SortInv'
  <1>t. /\ SortTypeOK /\ sort_pc = "pass" /\ sort_pc' = "merge"
        /\ key' = key /\ order' = order /\ next' = next /\ prev' = prev /\ insize' = insize
        /\ p' = list /\ oldhead' = list /\ list' = NULL /\ tail' = NULL /\ nmerges' = 0
    BY DEF SortInv, Pass
  <1>1. PICK t \in Orders : PassAt(t)
    BY <1>t DEF SortInv
  <1>2. /\ Count' = Count /\ Sorting' = Sorting
        /\ Stable(t)' <=> Stable(t)
        /\ \A a, b, m : InRuns(t, a, b, m)' <=> InRuns(t, a, b, m)
    BY <1>t, SameKeys
  <1>3. PICK n \in Nat \ {0} : n = Count
    BY <1>t, NodesAre
  <1>4. /\ Arranged(t, 1..n, Sorting) /\ Stable(t) /\ insize > 0 /\ list = t[1]
        /\ \A i \in 1..n : next[t[i]] = t[IF i = n THEN 1 ELSE i + 1]
        /\ InRuns(t, 1, n, insize)
    BY <1>1, <1>3 DEF PassAt
  <1>5. SortTypeOK'
    <2>1. UNCHANGED <<q, psize, qsize, sorted>>
      BY DEF Pass
    <2> QED
      BY <1>t, <2>1 DEF SortTypeOK
  <1>6. LinkedAt(t, 0, 0)'
    <2>1. \A i \in 1..n - 1 : next'[t[i]] = t[i + 1]
      BY <1>t, <1>4
    <2>2. next'[t[n]] = oldhead'
      BY <1>t, <1>4
    <2>3. \A i \in 2..n : t[i] # oldhead'
      BY <1>t, <1>4 DEF Arranged
    <2>4. Arranged(t, 1..Count', Sorting') /\ Stable(t)' /\ insize' > 0
      BY <1>t, <1>2, <1>3, <1>4
    <2> QED
      BY <1>t, <1>2, <1>3, <2>1, <2>2, <2>3, <2>4 DEF LinkedAt
  <1>7. MergeAt(t, 0)'
    <2>1. p' = t[1] /\ nmerges' * (2 * insize') = 0
      BY <1>t, <1>4 DEF SortTypeOK
    <2>2. InRuns(t, 1, 0, 2 * insize)'
      BY DEF InRuns
    <2>3. InRuns(t, 1, n, insize)'
      <3>1. InRuns(t, 1, n, insize)' <=> InRuns(t, 1, n, insize)
        BY <1>t DEF InRuns
      <3> QED
        BY <1>4, <3>1
    <2> QED
      BY <1>t, <1>2, <1>3, <1>6, <2>1, <2>2, <2>3 DEF MergeAt
  <1>8. t \in Orders' /\ 0 \in (0..Count)'
    BY <1>1, <1>2, <1>3 DEF Orders
  <1> QED
    BY <1>t, <1>5, <1>7, <1>8 DEF SortInv

(* How far the search for the second run gets. *)
LEMMA SearchIs ==
    ASSUME NEW n \in Nat, NEW d \in Nat, d < n, insize \in Nat, NEW t,
           \A i \in d + 1..n : t[i] # NULL /\ next[t[i]] = IF i = n THEN oldhead ELSE t[i + 1],
           \A i \in d + 2..n : t[i] # oldhead,
           p = t[d + 1]
    PROVE  \E m \in Nat : /\ m = (IF insize < n - d THEN insize ELSE n - d)
                          /\ Search = [psize |-> m, q |-> IF d + m < n THEN t[d + m + 1] ELSE NULL]
  <1> DEFINE M(i) == IF i < n - d THEN i ELSE n - d
             R(m) == [psize |-> m, q |-> IF d + m < n THEN t[d + m + 1] ELSE NULL]
             at == CHOOSE at : at = [i \in 0..insize |-> IF i = 0 THEN [psize |-> 0, q |-> p]
                                                                  ELSE Step(at[i - 1])]
             g == [i \in 0..insize |-> R(M(i))]
  <1>1. ASSUME NEW i \in Nat PROVE M(i) \in Nat /\ M(i) <= n - d /\ M(i + 1) = IF M(i) < n - d THEN M(i) + 1 ELSE M(i)
    OBVIOUS
  <1>2. M(0) = 0 /\ R(0) = [psize |-> 0, q |-> p]
    OBVIOUS
  <1>3. ASSUME NEW m \in Nat, m <= n - d PROVE Step(R(m)) = R(IF m < n - d THEN m + 1 ELSE m)
    <2>1. CASE m < n - d
      <3>1. PICK j \in d + 1..n : j = d + m + 1
        BY <1>3, <2>1
      <3>2. R(m).q = t[j] /\ R(m).psize = m /\ t[j] # NULL
        BY <2>1, <3>1
      <3>3. (IF next[t[j]] = oldhead THEN NULL ELSE next[t[j]]) = IF j = n THEN NULL ELSE t[j + 1]
        <4>1. j # n => j + 1 \in d + 2..n
          BY <3>1
        <4> QED
          BY <4>1
      <3>4. R(m + 1) = [psize |-> m + 1, q |-> IF j = n THEN NULL ELSE t[j + 1]]
        BY <1>3, <2>1, <3>1
      <3> HIDE DEF R
      <3>5. Step(R(m)) = [psize |-> m + 1, q |-> IF j = n THEN NULL ELSE t[j + 1]]
        BY <3>2, <3>3 DEF Step
      <3> QED
        BY <2>1, <3>4, <3>5
    <2>2. CASE ~(m < n - d)
      <3>1. R(m).q = NULL
        BY <1>3, <2>2
      <3> HIDE DEF R
      <3> QED
        BY <2>2, <3>1 DEF Step
    <2> QED
      BY <2>1, <2>2
  <1> HIDE DEF M, R
  <1>4. g = [i \in 0..insize |-> IF i = 0 THEN [psize |-> 0, q |-> p] ELSE Step(g[i - 1])]
    <2>1. ASSUME NEW i \in 0..insize PROVE g[i] = IF i = 0 THEN [psize |-> 0, q |-> p] ELSE Step(g[i - 1])
      <3>1. CASE i = 0
        BY <1>2, <3>1
      <3>2. CASE i # 0
        <4>1. PICK j \in Nat : j = i - 1 /\ j \in 0..insize /\ i = j + 1
          BY <3>2
        <4>2. g[j] = R(M(j)) /\ g[i] = R(M(j + 1))
          BY <4>1
        <4>3. Step(R(M(j))) = R(M(j + 1))
          BY <1>1, <1>3
        <4> QED
          BY <3>2, <4>1, <4>2, <4>3
      <3> QED
        BY <3>1, <3>2
    <2> QED
      BY <2>1
  <1>5. at = [i \in 0..insize |-> IF i = 0 THEN [psize |-> 0, q |-> p] ELSE Step(at[i - 1])]
    BY <1>4
  <1>6. Search = at[insize]
    BY DEF Search
  <1> HIDE DEF at, g
  <1>7. ASSUME NEW i \in 0..insize PROVE at[i] = R(M(i))
    <2> DEFINE I == {j \in 0..insize : at[j] # R(M(j))}
               m == Min(I)
    <2>1. I \in SUBSET Nat
      OBVIOUS
    <2>2. CASE I # {}
      <3>1. m \in I /\ \A y \in I : m <= y
        BY <2>1, <2>2, SmallestIsIn
      <3> HIDE DEF m
      <3>2. m \in 0..insize /\ at[m] # R(M(m))
        BY <3>1
      <3>3. m # 0
        BY <1>2, <1>5, <3>2
      <3>4. PICK j \in Nat : j = m - 1 /\ j \in 0..insize /\ m = j + 1 /\ ~(m <= j)
        BY <3>2, <3>3
      <3>5. at[j] = R(M(j))
        BY <3>1, <3>4
      <3>6. at[m] = Step(at[j])
        BY <1>5, <3>2, <3>3, <3>4
      <3>7. Step(R(M(j))) = R(M(j + 1))
        BY <1>1, <1>3
      <3> QED
        BY <3>2, <3>4, <3>5, <3>6, <3>7
    <2>3. CASE I = {}
      BY <2>3
    <2> QED
      BY <2>2, <2>3
  <1>8. Search = R(M(insize)) /\ M(insize) \in Nat
    BY <1>1, <1>6, <1>7
  <1> QED
    BY <1>8 DEF M, R

(* A merge begins with two runs that follow each other. *)
LEMMA MergeStep ==
    ASSUME ListSortAssumption, SortInv, Merge
    PROVE  SortInv'
  <1>t. /\ SortTypeOK /\ sort_pc = "merge" /\ sort_pc' = "take" /\ p # NULL
        /\ key' = key /\ order' = order /\ next' = next /\ prev' = prev
        /\ insize' = insize /\ oldhead' = oldhead /\ p' = p /\ list' = list /\ tail' = tail
        /\ nmerges' = nmerges + 1 /\ q' = Search.q /\ psize' = Search.psize /\ qsize' = insize
    BY DEF SortInv, Merge
  <1>1. PICK t \in Orders, d \in 0..Count : MergeAt(t, d)
    BY <1>t DEF SortInv
  <1>2. /\ Count' = Count /\ Sorting' = Sorting
        /\ Stable(t)' <=> Stable(t)
    BY <1>t, SameKeys
  <1>3. PICK n \in Nat \ {0} : n = Count
    BY <1>t, NodesAre
  <1>4. d \in 0..n /\ d \in Nat /\ insize \in Nat \ {0} /\ nmerges \in Nat
    BY <1>t, <1>1, <1>3 DEF MergeAt, LinkedAt, SortTypeOK
  <1>5. /\ Arranged(t, 1..n, Sorting) /\ Stable(t)
        /\ IF d = 0 THEN list = NULL /\ tail = NULL ELSE list = t[1] /\ tail = t[d]
        /\ \A i \in 1..n - 1 : i # d => next[t[i]] = t[i + 1]
        /\ d < n => next[t[n]] = oldhead
        /\ \A i \in 2..n : i <= d => prev[t[i]] = t[i - 1]
        /\ \A i \in 2..n : i > d => t[i] # oldhead
        /\ InRuns(t, 1, d, 2 * insize) /\ InRuns(t, d + 1, n, insize)
    BY <1>1, <1>3 DEF MergeAt, LinkedAt
  <1>6. d < n /\ p = t[d + 1] /\ d = nmerges * (2 * insize)
    BY <1>t, <1>1, <1>3, <1>4 DEF MergeAt
  <1>7. \A i \in 1..n : t[i] \in Node /\ t[i] # NULL
    <2>1. ASSUME NEW i \in 1..n PROVE t[i] \in Node /\ t[i] # NULL
      <3>1. t[i] \in Sorting
        BY <1>5 DEF Arranged
      <3> QED
        BY <1>t, <3>1, NodesAre
    <2> QED
      BY <2>1
  <1>8. PICK m \in Nat : /\ m = (IF insize < n - d THEN insize ELSE n - d)
                         /\ Search = [psize |-> m, q |-> IF d + m < n THEN t[d + m + 1] ELSE NULL]
    <2>1. ASSUME NEW i \in d + 1..n PROVE t[i] # NULL /\ next[t[i]] = IF i = n THEN oldhead ELSE t[i + 1]
      <3>1. i \in 1..n /\ i # d /\ (i # n => i \in 1..n - 1)
        BY <1>4
      <3> QED
        BY <1>5, <1>6, <1>7, <3>1
    <2>2. ASSUME NEW i \in d + 2..n PROVE t[i] # oldhead
      <3>1. i \in 2..n /\ i > d
        BY <1>4
      <3> QED
        BY <1>5, <3>1
    <2> QED
      BY <1>4, <1>6, <2>1, <2>2, SearchIs
  <1>9. psize' = m /\ q' = IF d + m < n THEN t[d + m + 1] ELSE NULL
    BY <1>t, <1>8
  <1>10. SortTypeOK'
    <2>1. UNCHANGED sorted
      BY DEF Merge
    <2>2. q' \in Node \cup {NULL}
      <3>1. d + m < n => d + m + 1 \in 1..n
        BY <1>4
      <3> QED
        BY <1>7, <1>9, <3>1
    <2> QED
      BY <1>t, <1>4, <1>9, <2>1, <2>2 DEF SortTypeOK
  <1>11. LinkedAt(t, d, d + m)'
    <2>1. Arranged(t, 1..Count', Sorting') /\ Stable(t)' /\ insize' > 0 /\ Count' = n
      BY <1>t, <1>2, <1>3, <1>4, <1>5
    <2>2. d \in 0..n /\ d + m \in d..n
      BY <1>4, <1>6, <1>8
    <2>3. \A i \in 1..n - 1 : i # d /\ i # d + m => next'[t[i]] = t[i + 1]
      BY <1>t, <1>5
    <2>4. d + m < n => next'[t[n]] = oldhead'
      BY <1>t, <1>5, <1>6
    <2>5. \A i \in 2..n : i <= d => prev'[t[i]] = t[i - 1]
      BY <1>t, <1>5
    <2>6. \A i \in 2..n : i > d + m => t[i] # oldhead'
      BY <1>t, <1>4, <1>5
    <2>7. IF d = 0 THEN list' = NULL /\ tail' = NULL ELSE list' = t[1] /\ tail' = t[d]
      BY <1>t, <1>5
    <2> QED
      BY <2>1, <2>2, <2>3, <2>4, <2>5, <2>6, <2>7 DEF LinkedAt
  <1>12. (nmerges' - 1) * (2 * insize') = d
    BY <1>t, <1>4, <1>6
  <1>13. PICK e \in Nat : e = IF d + 2 * insize < n THEN d + 2 * insize ELSE n
    BY <1>4
  <1>14. \A i \in d + 1..d + insize : (i - 1) \div insize = 2 * nmerges
    <2>1. ASSUME NEW i \in d + 1..d + insize PROVE (i - 1) \div insize = 2 * nmerges
      <3>1. PICK x \in Nat : x = i - 1
        BY <1>4
      <3>2. PICK k \in Nat : k = 2 * nmerges
        BY <1>4
      <3>3. k * insize = d
        BY <1>4, <1>6, <3>2
      <3>4. k * insize <= x /\ x < k * insize + insize
        BY <1>4, <3>1, <3>3
      <3>5. x \div insize = k
        BY <1>4, <3>4, QuotientIs
      <3> QED
        BY <3>1, <3>2, <3>5
    <2> QED
      BY <2>1
  <1>15. \A i \in d + insize + 1..d + 2 * insize : (i - 1) \div insize = 2 * nmerges + 1
    <2>1. ASSUME NEW i \in d + insize + 1..d + 2 * insize PROVE (i - 1) \div insize = 2 * nmerges + 1
      <3>1. PICK x \in Nat : x = i - 1
        BY <1>4
      <3>2. PICK k \in Nat : k = 2 * nmerges + 1
        BY <1>4
      <3>3. k * insize = d + insize
        BY <1>4, <1>6, <3>2
      <3>4. k * insize <= x /\ x < k * insize + insize
        BY <1>4, <3>1, <3>3
      <3>5. x \div insize = k
        BY <1>4, <3>4, QuotientIs
      <3> QED
        BY <3>1, <3>2, <3>5
    <2> QED
      BY <2>1
  <1>16. \A i, j \in d + 1..e : i < j /\ (i <= d \/ j <= d + m \/ i > d + m) => key[t[i]] <= key[t[j]]
    <2>0. \A i, j \in d + 1..n : i < j /\ (i - 1) \div insize = (j - 1) \div insize => key[t[i]] <= key[t[j]]
      BY <1>5 DEF InRuns
    <2>1. ASSUME NEW i \in d + 1..e, NEW j \in d + 1..e, i < j, i <= d \/ j <= d + m \/ i > d + m
          PROVE  key[t[i]] <= key[t[j]]
      <3>1. i \in d + 1..n /\ j \in d + 1..n /\ ~(i <= d)
        BY <1>4, <1>13
      <3>2. CASE j <= d + m
        <4>1. i \in d + 1..d + insize /\ j \in d + 1..d + insize
          BY <1>4, <1>8, <2>1, <3>2
        <4>2. (i - 1) \div insize = (j - 1) \div insize
          BY <1>14, <4>1
        <4> QED
          BY <2>0, <2>1, <3>1, <4>2
      <3>3. CASE i > d + m
        <4>1. i \in d + insize + 1..d + 2 * insize /\ j \in d + insize + 1..d + 2 * insize
          BY <1>4, <1>8, <1>13, <2>1, <3>1, <3>3
        <4>2. (i - 1) \div insize = (j - 1) \div insize
          BY <1>15, <4>1
        <4> QED
          BY <2>0, <2>1, <3>1, <4>2
      <3> QED
        BY <2>1, <3>1, <3>2, <3>3
    <2> QED
      BY <2>1
  <1>17. InRuns(t, 1, d, 2 * insize)' /\ InRuns(t, e + 1, n, insize)'
    <2>1. InRuns(t, 1, d, 2 * insize)'
      BY <1>t, <1>5 DEF InRuns
    <2>2. \A i \in e + 1..n : i \in d + 1..n
      BY <1>4, <1>6, <1>13
    <2>3. InRuns(t, e + 1, n, insize)'
      BY <1>t, <1>5, <2>2 DEF InRuns
    <2> QED
      BY <2>1, <2>3
  <1>18. TakeAt(t, d)'
    <2>1. Count' = n /\ e = IF d + 2 * insize' < n THEN d + 2 * insize' ELSE n
      BY <1>t, <1>2, <1>3, <1>13
    <2>2. nmerges' > 0 /\ d < n /\ d <= d /\ d + psize' <= e /\ d + psize' = d + m
      BY <1>t, <1>4, <1>6, <1>8, <1>9, <1>13
    <2>3. psize' > 0 => p' = t[d + 1]
      BY <1>t, <1>6
    <2>4. q' = IF d + psize' < n THEN t[d + psize' + 1] ELSE NULL
      BY <1>9
    <2>5. d + psize' = n \/ (d + psize') + qsize' = d + 2 * insize'
      BY <1>t, <1>4, <1>8, <1>9
    <2>6. InRuns(t, 1, d, 2 * insize)' /\ InRuns(t, e + 1, n, insize)'
      BY <1>17
    <2>7. \A i, j \in d + 1..e : i < j /\ (i <= d \/ j <= d + psize' \/ i > d + psize')
                                   => key'[t[i]] <= key'[t[j]]
      BY <1>t, <1>9, <1>16
    <2>8. LinkedAt(t, d, d + psize)'
      BY <1>9, <1>11
    <2> QED
      BY <1>12, <2>1, <2>2, <2>3, <2>4, <2>5, <2>6, <2>7, <2>8 DEF TakeAt
  <1>19. t \in Orders' /\ d \in (0..Count)'
    BY <1>1, <1>2, <1>3 DEF Orders
  <1> QED
    BY <1>t, <1>10, <1>18, <1>19 DEF SortInv

(* What a merge that is under way knows, with n nodes, the runs that it merges    *)
(* behind place c and up to e, and the first of them up to mid. *)
MergeKnows(t, d, n, c, e, mid) ==
    /\ n = Count /\ c = (nmerges - 1) * (2 * insize) /\ mid = d + psize
    /\ e = (IF c + 2 * insize < n THEN c + 2 * insize ELSE n)
    /\ d \in Nat /\ insize \in Nat \ {0} /\ nmerges \in Nat \ {0}
    /\ psize \in Nat /\ qsize \in Nat
    /\ c <= d /\ d <= mid /\ mid <= e /\ e <= n /\ c < n
    /\ \A i \in 1..n : t[i] \in Node /\ t[i] # NULL /\ t[i] \in Sorting
    /\ n > 1 => \A i \in 1..n : key[t[i]] \in Int
    /\ \A i, j \in 1..n : t[i] = t[j] => i = j
    /\ psize > 0 => p = t[d + 1]
    /\ q = IF mid < n THEN t[mid + 1] ELSE NULL
    /\ mid = n \/ mid + qsize = c + 2 * insize
    /\ InRuns(t, 1, c, 2 * insize) /\ InRuns(t, e + 1, n, insize)
    /\ \A i, j \in c + 1..e :
         i < j /\ (i <= d \/ j <= mid \/ i > mid) => key[t[i]] <= key[t[j]]

LEMMA MergeFacts ==
    ASSUME ListSortAssumption, SortTypeOK, NEW t, NEW d, TakeAt(t, d)
    PROVE  \E n \in Nat \ {0}, c \in Nat, e \in Nat, mid \in Nat : MergeKnows(t, d, n, c, e, mid)
  <1>1. PICK n \in Nat \ {0} : n = Count
    BY NodesAre
  <1>2. insize \in Nat /\ nmerges \in Nat /\ psize \in Nat /\ qsize \in Nat
    BY DEF SortTypeOK
  <1>3. insize > 0 /\ nmerges > 0 /\ d \in 0..n
    BY <1>1 DEF TakeAt, LinkedAt
  <1>4. PICK k \in Nat : k = nmerges - 1
    BY <1>2, <1>3
  <1>5. PICK c \in Nat : c = (nmerges - 1) * (2 * insize)
    BY <1>2, <1>4
  <1>6. PICK mid \in Nat : mid = d + psize
    BY <1>2, <1>3
  <1>7. PICK e \in Nat : e = IF c + 2 * insize < n THEN c + 2 * insize ELSE n
    BY <1>2
  <1>8. c <= d /\ d <= mid /\ mid <= e /\ e <= n /\ c < n
    BY <1>1, <1>2, <1>3, <1>5, <1>6, <1>7 DEF TakeAt
  <1>9. \A i \in 1..n : t[i] \in Node /\ t[i] # NULL /\ t[i] \in Sorting
    <2>1. ASSUME NEW i \in 1..n PROVE t[i] \in Node /\ t[i] # NULL /\ t[i] \in Sorting
      <3>1. t[i] \in Sorting
        BY <1>1 DEF TakeAt, LinkedAt, Arranged
      <3> QED
        BY <3>1, NodesAre
    <2> QED
      BY <2>1
  <1>10. n > 1 => \A i \in 1..n : key[t[i]] \in Int
    BY <1>1, <1>9, NodesAre
  <1>11. \A i, j \in 1..n : t[i] = t[j] => i = j
    BY <1>1 DEF TakeAt, LinkedAt, Arranged
  <1>12. /\ psize > 0 => p = t[d + 1]
         /\ q = IF mid < n THEN t[mid + 1] ELSE NULL
         /\ mid = n \/ mid + qsize = c + 2 * insize
    BY <1>1, <1>5, <1>6 DEF TakeAt
  <1>13. InRuns(t, 1, c, 2 * insize) /\ InRuns(t, e + 1, n, insize)
    BY <1>1, <1>5, <1>7 DEF TakeAt
  <1>14. \A i, j \in c + 1..e :
           i < j /\ (i <= d \/ j <= mid \/ i > mid) => key[t[i]] <= key[t[j]]
    BY <1>1, <1>5, <1>6, <1>7 DEF TakeAt
  <1>15. d \in Nat /\ insize \in Nat \ {0} /\ nmerges \in Nat \ {0}
    BY <1>1, <1>2, <1>3
  <1>16. MergeKnows(t, d, n, c, e, mid)
    BY <1>1, <1>2, <1>5, <1>6, <1>7, <1>8, <1>9, <1>10, <1>11, <1>12, <1>13, <1>14, <1>15 DEF MergeKnows
  <1> QED
    BY <1>16

(* ... and what it takes to know that again. *)
LEMMA MergeGoesOn ==
    ASSUME NEW n, NEW c, NEW e, NEW mid, NEW d, NEW t,
           Count' = n, (nmerges' - 1) * (2 * insize') = c, mid = d + psize',
           e = IF c + 2 * insize' < n THEN c + 2 * insize' ELSE n,
           LinkedAt(t, d, mid)', nmerges' > 0, c < n, c <= d, mid <= e,
           psize' > 0 => p' = t[d + 1],
           q' = IF mid < n THEN t[mid + 1] ELSE NULL,
           mid = n \/ mid + qsize' = c + 2 * insize',
           InRuns(t, 1, c, 2 * insize)', InRuns(t, e + 1, n, insize)',
           \A i, j \in c + 1..e :
               i < j /\ (i <= d \/ j <= mid \/ i > mid) => key'[t[i]] <= key'[t[j]]
    PROVE  TakeAt(t, d)'
  BY DEF TakeAt

(* A node of the first run stays where it is. *)
LEMMA TakeFirst ==
    ASSUME ListSortAssumption, SortInv, Take, ~FromQ
    PROVE  SortInv'
  <1>t. /\ SortTypeOK /\ sort_pc = "take" /\ sort_pc' = "take"
        /\ key' = key /\ order' = order /\ insize' = insize /\ nmerges' = nmerges
        /\ oldhead' = oldhead /\ q' = q /\ qsize' = qsize /\ sorted' = sorted
        /\ p' = next[p] /\ psize' = psize - 1 /\ tail' = p /\ prev' = [prev EXCEPT ![p] = tail]
        /\ IF tail # NULL THEN next' = [next EXCEPT ![tail] = p] /\ list' = list
                          ELSE list' = p /\ next' = next
    BY DEF SortInv, Take
  <1>1. PICK t \in Orders, d \in 0..Count : TakeAt(t, d)
    BY <1>t DEF SortInv
  <1>2. /\ Count' = Count /\ Sorting' = Sorting
        /\ Stable(t)' <=> Stable(t)
    BY <1>t, SameKeys
  <1>u. PICK n \in Nat \ {0}, c \in Nat, e \in Nat, mid \in Nat : MergeKnows(t, d, n, c, e, mid)
    BY <1>t, <1>1, MergeFacts
  <1>3. /\ n = Count /\ c = (nmerges - 1) * (2 * insize) /\ mid = d + psize
        /\ e = (IF c + 2 * insize < n THEN c + 2 * insize ELSE n)
        /\ d \in Nat /\ insize \in Nat \ {0} /\ nmerges \in Nat \ {0}
        /\ psize \in Nat /\ qsize \in Nat
        /\ c <= d /\ d <= mid /\ mid <= e /\ e <= n /\ c < n
        /\ \A i \in 1..n : t[i] \in Node /\ t[i] # NULL /\ t[i] \in Sorting
        /\ n > 1 => \A i \in 1..n : key[t[i]] \in Int
        /\ \A i, j \in 1..n : t[i] = t[j] => i = j
        /\ psize > 0 => p = t[d + 1]
        /\ q = IF mid < n THEN t[mid + 1] ELSE NULL
        /\ mid = n \/ mid + qsize = c + 2 * insize
        /\ InRuns(t, 1, c, 2 * insize) /\ InRuns(t, e + 1, n, insize)
        /\ \A i, j \in c + 1..e :
             i < j /\ (i <= d \/ j <= mid \/ i > mid) => key[t[i]] <= key[t[j]]
    BY <1>u DEF MergeKnows
  <1>4. /\ Arranged(t, 1..n, Sorting) /\ Stable(t)
        /\ IF d = 0 THEN list = NULL /\ tail = NULL ELSE list = t[1] /\ tail = t[d]
        /\ \A i \in 1..n - 1 : i # d /\ i # mid => next[t[i]] = t[i + 1]
        /\ mid < n => next[t[n]] = oldhead
        /\ \A i \in 2..n : i <= d => prev[t[i]] = t[i - 1]
        /\ \A i \in 2..n : i > mid => t[i] # oldhead
    BY <1>1, <1>3 DEF TakeAt, LinkedAt
  <1>5. psize > 0 /\ (qsize = 0 \/ q = NULL \/ NotGreater(p, q))
    BY <1>3 DEF FromQ
  <1>6. p = t[d + 1] /\ d + 1 \in 1..n /\ d + 1 <= mid /\ d < n
    BY <1>3, <1>5
  <1>7. d # 0 => d \in 1..n /\ t[d] \in Node /\ t[d] # NULL
    BY <1>3, <1>6
  <1>8. p \in Node /\ p # NULL
    BY <1>3, <1>6
  <1>9. next \in [Node -> Node] /\ prev \in [Node -> Node \cup {NULL}]
    BY <1>t DEF SortTypeOK
  <1>10. SortTypeOK'
    <2>1. next' \in [Node -> Node] /\ list' \in Node \cup {NULL}
      <3>1. CASE tail # NULL
        <4>1. next' = [next EXCEPT ![tail] = p] /\ list' = list
          BY <1>t, <3>1
        <4> QED
          BY <1>t, <1>8, <1>9, <4>1 DEF SortTypeOK
      <3>2. CASE tail = NULL
        BY <1>t, <1>8, <1>9, <3>2
      <3> QED
        BY <3>1, <3>2
    <2>2. prev' \in [Node -> Node \cup {NULL}]
      BY <1>t, <1>9 DEF SortTypeOK
    <2>3. p' \in Node /\ psize' \in Nat
      BY <1>t, <1>3, <1>5, <1>8, <1>9
    <2> QED
      BY <1>t, <1>8, <2>1, <2>2, <2>3 DEF SortTypeOK
  <1>11. \A i \in 1..n : next'[t[i]] = IF i = d THEN t[d + 1] ELSE next[t[i]]
    <2>1. ASSUME NEW i \in 1..n PROVE next'[t[i]] = IF i = d THEN t[d + 1] ELSE next[t[i]]
      <3>1. CASE d = 0
        <4>1. tail = NULL /\ i # d
          BY <1>4, <3>1
        <4> QED
          BY <1>t, <4>1
      <3>2. CASE d # 0
        <4>1. tail = t[d] /\ tail # NULL /\ d \in 1..n /\ t[d] \in Node
          BY <1>4, <1>7, <3>2
        <4>2. next' = [next EXCEPT ![t[d]] = t[d + 1]]
          BY <1>t, <1>6, <4>1
        <4>3. t[i] \in Node /\ (t[i] = t[d] <=> i = d)
          BY <1>3, <4>1
        <4> QED
          BY <1>9, <4>2, <4>3
      <3> QED
        BY <3>1, <3>2
    <2> QED
      BY <2>1
  <1>12. \A i \in 1..n : prev'[t[i]] = IF i = d + 1 THEN tail ELSE prev[t[i]]
    <2>1. ASSUME NEW i \in 1..n PROVE prev'[t[i]] = IF i = d + 1 THEN tail ELSE prev[t[i]]
      <3>1. t[i] \in Node /\ (t[i] = t[d + 1] <=> i = d + 1)
        BY <1>3, <1>6
      <3> QED
        BY <1>t, <1>6, <1>9, <3>1
    <2> QED
      BY <2>1
  <1>13. LinkedAt(t, d + 1, mid)'
    <2>1. Arranged(t, 1..Count', Sorting') /\ Stable(t)' /\ insize' > 0 /\ Count' = n
      BY <1>t, <1>2, <1>3, <1>4
    <2>2. d + 1 \in 0..n /\ mid \in d + 1..n
      BY <1>3, <1>6
    <2>3. ASSUME NEW i \in 1..n - 1, i # d + 1, i # mid PROVE next'[t[i]] = t[i + 1]
      <3>1. i \in 1..n
        BY <1>3
      <3>2. next'[t[i]] = IF i = d THEN t[d + 1] ELSE next[t[i]]
        BY <1>11, <3>1
      <3>3. i # d => next[t[i]] = t[i + 1]
        BY <1>4, <2>3
      <3> QED
        BY <3>2, <3>3
    <2>4. mid < n => next'[t[n]] = oldhead'
      <3>1. n \in 1..n /\ n # d
        BY <1>3, <1>6
      <3>2. next'[t[n]] = next[t[n]]
        BY <1>11, <3>1
      <3> QED
        BY <1>t, <1>4, <3>2
    <2>5. ASSUME NEW i \in 2..n, i <= d + 1 PROVE prev'[t[i]] = t[i - 1]
      <3>1. CASE i = d + 1
        <4>1. d # 0 /\ i - 1 = d /\ i \in 1..n
          BY <1>3, <3>1
        <4> QED
          BY <1>4, <1>12, <3>1, <4>1
      <3>2. CASE i # d + 1
        <4>1. i <= d /\ i \in 1..n
          BY <1>3, <2>5, <3>2
        <4> QED
          BY <1>4, <1>12, <3>2, <4>1
      <3> QED
        BY <3>1, <3>2
    <2>6. \A i \in 2..n : i > mid => t[i] # oldhead'
      BY <1>t, <1>4
    <2>7. list' = t[1] /\ tail' = t[d + 1] /\ d + 1 # 0
      <3>1. CASE d = 0
        <4>1. tail = NULL
          BY <1>4, <3>1
        <4> QED
          BY <1>t, <1>6, <3>1, <4>1
      <3>2. CASE d # 0
        <4>1. tail # NULL /\ list = t[1]
          BY <1>4, <1>7, <3>2
        <4>2. list' = list
          BY <1>t, <4>1
        <4> QED
          BY <1>t, <1>3, <1>6, <4>1, <4>2
      <3> QED
        BY <3>1, <3>2
    <2> QED
      BY <2>1, <2>2, <2>3, <2>4, <2>5, <2>6, <2>7 DEF LinkedAt
  <1>14. ASSUME NEW i \in c + 1..e, NEW j \in c + 1..e, i < j, i <= d + 1 \/ j <= mid \/ i > mid
         PROVE  key'[t[i]] <= key'[t[j]]
    <2>1. CASE i <= d \/ j <= mid \/ i > mid
      BY <1>t, <1>3, <1>14, <2>1
    <2>2. CASE i = d + 1 /\ j > mid
      <3>1. mid < n /\ q = t[mid + 1] /\ mid + 1 \in 1..n
        BY <1>3, <2>2
      <3>2. q # NULL
        BY <1>3, <3>1
      <3>3. qsize # 0
        BY <1>3, <2>2, <3>1
      <3>4. key[t[d + 1]] <= key[t[mid + 1]]
        BY <1>5, <1>6, <3>1, <3>2, <3>3 DEF NotGreater
      <3>5. key[t[mid + 1]] <= key[t[j]]
        <4>1. CASE j = mid + 1
          <5>1. n > 1
            BY <1>3, <1>6, <3>1
          <5>2. key[t[mid + 1]] \in Int
            BY <1>3, <3>1, <5>1
          <5> QED
            BY <4>1, <5>2
        <4>2. CASE j # mid + 1
          <5>1. mid + 1 \in c + 1..e /\ mid + 1 < j /\ mid + 1 > mid
            BY <1>3, <2>2, <4>2
          <5> QED
            BY <1>3, <5>1
        <4> QED
          BY <4>1, <4>2
      <3>6. n > 1 /\ j \in 1..n
        BY <1>3, <1>6, <3>1
      <3>7. key[t[d + 1]] \in Int /\ key[t[mid + 1]] \in Int /\ key[t[j]] \in Int
        BY <1>3, <1>6, <3>1, <3>6
      <3> QED
        BY <1>t, <2>2, <3>4, <3>5, <3>7
    <2> QED
      BY <1>3, <1>14, <2>1, <2>2
  <1>15. TakeAt(t, d + 1)'
    <2>1. Count' = n /\ (nmerges' - 1) * (2 * insize') = c /\ mid = (d + 1) + psize'
          /\ e = IF c + 2 * insize' < n THEN c + 2 * insize' ELSE n
      BY <1>t, <1>2, <1>3, <1>5
    <2>2. nmerges' > 0 /\ c < n /\ c <= d + 1 /\ mid <= e
      BY <1>t, <1>3
    <2>3. ASSUME psize' > 0 PROVE p' = t[(d + 1) + 1]
      <3>1. d + 1 \in 1..n - 1 /\ d + 1 # d /\ d + 1 # mid
        BY <1>t, <1>3, <2>3
      <3> QED
        BY <1>t, <1>4, <1>6, <3>1
    <2>4. q' = (IF mid < n THEN t[mid + 1] ELSE NULL) /\ (mid = n \/ mid + qsize' = c + 2 * insize')
      BY <1>t, <1>3
    <2>5. InRuns(t, 1, c, 2 * insize)' /\ InRuns(t, e + 1, n, insize)'
      BY <1>t, <1>3 DEF InRuns
    <2>6. \A i, j \in c + 1..e :
               i < j /\ (i <= d + 1 \/ j <= mid \/ i > mid) => key'[t[i]] <= key'[t[j]]
      BY <1>14
    <2> QED
      BY <1>13, <2>1, <2>2, <2>3, <2>4, <2>5, <2>6, MergeGoesOn
  <1>16. t \in Orders' /\ d + 1 \in (0..Count)'
    BY <1>1, <1>2, <1>3, <1>6 DEF Orders
  <1> QED
    BY <1>t, <1>10, <1>15, <1>16 DEF SortInv

(* A node of the second run goes before what is left of the first: only where   *)
(* its key is smaller than all of theirs.                                       *)
LEMMA TakeSecond ==
    ASSUME ListSortAssumption, SortInv, Take, FromQ
    PROVE  SortInv'
  <1>t. /\ SortTypeOK /\ sort_pc = "take" /\ sort_pc' = "take"
        /\ key' = key /\ order' = order /\ insize' = insize /\ nmerges' = nmerges
        /\ oldhead' = oldhead /\ p' = p /\ psize' = psize /\ sorted' = sorted
        /\ q' = (IF next[q] = oldhead THEN NULL ELSE next[q]) /\ qsize' = qsize - 1
        /\ tail' = q /\ prev' = [prev EXCEPT ![q] = tail]
        /\ IF tail # NULL THEN next' = [next EXCEPT ![tail] = q] /\ list' = list
                          ELSE list' = q /\ next' = next
    BY DEF SortInv, Take
  <1>1. PICK t \in Orders, d \in 0..Count : TakeAt(t, d)
    BY <1>t DEF SortInv
  <1>2. /\ Count' = Count /\ Sorting' = Sorting
        /\ \A s : Stable(s)' <=> Stable(s)
    BY <1>t, SameKeys
  <1>u. PICK n \in Nat \ {0}, c \in Nat, e \in Nat, mid \in Nat : MergeKnows(t, d, n, c, e, mid)
    BY <1>t, <1>1, MergeFacts
  <1>3. /\ n = Count /\ c = (nmerges - 1) * (2 * insize) /\ mid = d + psize
        /\ e = (IF c + 2 * insize < n THEN c + 2 * insize ELSE n)
        /\ d \in Nat /\ insize \in Nat \ {0} /\ nmerges \in Nat \ {0}
        /\ psize \in Nat /\ qsize \in Nat
        /\ c <= d /\ d <= mid /\ mid <= e /\ e <= n /\ c < n
        /\ \A i \in 1..n : t[i] \in Node /\ t[i] # NULL /\ t[i] \in Sorting
        /\ n > 1 => \A i \in 1..n : key[t[i]] \in Int
        /\ \A i, j \in 1..n : t[i] = t[j] => i = j
        /\ psize > 0 => p = t[d + 1]
        /\ q = IF mid < n THEN t[mid + 1] ELSE NULL
        /\ mid = n \/ mid + qsize = c + 2 * insize
        /\ InRuns(t, 1, c, 2 * insize) /\ InRuns(t, e + 1, n, insize)
        /\ \A i, j \in c + 1..e :
             i < j /\ (i <= d \/ j <= mid \/ i > mid) => key[t[i]] <= key[t[j]]
    BY <1>u DEF MergeKnows
  <1>4. /\ Arranged(t, 1..n, Sorting) /\ Stable(t)
        /\ IF d = 0 THEN list = NULL /\ tail = NULL ELSE list = t[1] /\ tail = t[d]
        /\ \A i \in 1..n - 1 : i # d /\ i # mid => next[t[i]] = t[i + 1]
        /\ mid < n => next[t[n]] = oldhead
        /\ \A i \in 2..n : i <= d => prev[t[i]] = t[i - 1]
        /\ \A i \in 2..n : i > mid => t[i] # oldhead
    BY <1>1, <1>3 DEF TakeAt, LinkedAt
  <1>5. q # NULL /\ qsize > 0
    BY <1>3 DEF FromQ, Take
  <1>6. PICK b \in 1..n : b = mid + 1 /\ q = t[b] /\ mid < n /\ b <= e /\ d < b
    <2>1. mid < n
      BY <1>3, <1>5
    <2>2. mid + 1 \in 1..n /\ mid + 1 <= e
      BY <1>3, <1>5, <2>1
    <2> QED
      BY <1>3, <2>1, <2>2
  <1>7. d # 0 => d \in 1..n /\ t[d] \in Node /\ t[d] # NULL
    BY <1>3, <1>6
  <1>8. q \in Node
    BY <1>3, <1>6
  <1>9. next \in [Node -> Node] /\ prev \in [Node -> Node \cup {NULL}]
    BY <1>t DEF SortTypeOK
  <1>10. SortTypeOK'
    <2>1. next' \in [Node -> Node] /\ list' \in Node \cup {NULL}
      <3>1. CASE tail # NULL
        <4>1. next' = [next EXCEPT ![tail] = q] /\ list' = list
          BY <1>t, <3>1
        <4> QED
          BY <1>t, <1>8, <1>9, <4>1 DEF SortTypeOK
      <3>2. CASE tail = NULL
        BY <1>t, <1>8, <1>9, <3>2
      <3> QED
        BY <3>1, <3>2
    <2>2. prev' \in [Node -> Node \cup {NULL}]
      BY <1>t, <1>9 DEF SortTypeOK
    <2>3. q' \in Node \cup {NULL} /\ qsize' \in Nat
      BY <1>t, <1>3, <1>5, <1>8, <1>9
    <2> QED
      BY <1>t, <1>8, <2>1, <2>2, <2>3 DEF SortTypeOK
  <1>11. \A i \in 1..n : next'[t[i]] = IF i = d THEN q ELSE next[t[i]]
    <2>1. ASSUME NEW i \in 1..n PROVE next'[t[i]] = IF i = d THEN q ELSE next[t[i]]
      <3>1. CASE d = 0
        <4>1. tail = NULL /\ i # d
          BY <1>4, <3>1
        <4> QED
          BY <1>t, <4>1
      <3>2. CASE d # 0
        <4>1. tail = t[d] /\ tail # NULL /\ d \in 1..n /\ t[d] \in Node
          BY <1>4, <1>7, <3>2
        <4>2. next' = [next EXCEPT ![t[d]] = q]
          BY <1>t, <4>1
        <4>3. t[i] \in Node /\ (t[i] = t[d] <=> i = d)
          BY <1>3, <4>1
        <4> QED
          BY <1>9, <4>2, <4>3
      <3> QED
        BY <3>1, <3>2
    <2> QED
      BY <2>1
  <1>12. \A i \in 1..n : prev'[t[i]] = IF i = b THEN tail ELSE prev[t[i]]
    <2>1. ASSUME NEW i \in 1..n PROVE prev'[t[i]] = IF i = b THEN tail ELSE prev[t[i]]
      <3>1. t[i] \in Node /\ (t[i] = t[b] <=> i = b)
        BY <1>3, <1>6
      <3> QED
        BY <1>t, <1>6, <1>9, <3>1
    <2> QED
      BY <2>1
  <1> DEFINE s == [i \in 1..n |-> t[IF i <= d \/ i > b THEN i ELSE IF i = d + 1 THEN b ELSE i - 1]]
  <1>13. /\ \A i \in 1..n : \E j \in 1..n : /\ s[i] = t[j]
                                           /\ j = IF i <= d \/ i > b THEN i
                                                  ELSE IF i = d + 1 THEN b ELSE i - 1
         /\ DOMAIN s = 1..n
    <2>1. ASSUME NEW i \in 1..n
          PROVE  (IF i <= d \/ i > b THEN i ELSE IF i = d + 1 THEN b ELSE i - 1) \in 1..n
      BY <1>3, <1>6
    <2> QED
      BY <2>1
  <1>14. s \in [1..n -> Sorting]
    <2>1. \A j \in 1..n : t[j] \in Sorting
      BY <1>3
    <2>2. \A i \in 1..n : s[i] \in Sorting
      BY <1>13, <2>1
    <2>3. s = [i \in 1..n |-> s[i]]
      OBVIOUS
    <2> HIDE DEF s
    <2> QED
      BY <2>2, <2>3
  <1>s. /\ \A i \in 1..d : i \in 1..n /\ s[i] = t[i]
        /\ d + 1 \in 1..n /\ s[d + 1] = t[b]
        /\ \A i \in d + 2..b : i \in 1..n /\ i - 1 \in d + 1..mid /\ i - 1 \in 1..n /\ s[i] = t[i - 1]
        /\ \A i \in b + 1..n : i \in 1..n /\ s[i] = t[i]
        /\ \A i \in 1..n : i \in 1..d \/ i = d + 1 \/ i \in d + 2..b \/ i \in b + 1..n
    BY <1>3, <1>6
  <1> HIDE DEF s
  <1>15. Arranged(s, 1..n, Sorting)
    <2>1. ASSUME NEW i \in 1..n, NEW j \in 1..n, s[i] = s[j] PROVE i = j
      <3>1. PICK u \in 1..n : s[i] = t[u] /\ u = IF i <= d \/ i > b THEN i ELSE IF i = d + 1 THEN b ELSE i - 1
        BY <1>13
      <3>2. PICK v \in 1..n : s[j] = t[v] /\ v = IF j <= d \/ j > b THEN j ELSE IF j = d + 1 THEN b ELSE j - 1
        BY <1>13
      <3>3. u = v
        BY <1>3, <2>1, <3>1, <3>2
      <3> QED
        BY <1>3, <1>6, <3>1, <3>2, <3>3
    <2>2. ASSUME NEW m \in Sorting PROVE \E i \in 1..n : s[i] = m
      <3>1. PICK j \in 1..n : t[j] = m
        BY <1>4 DEF Arranged
      <3>2. CASE j <= d \/ j > b
        <4>1. j \in 1..d \/ j \in b + 1..n
          BY <1>3, <3>2
        <4> QED
          BY <1>s, <3>1, <4>1
      <3>3. CASE j = b
        BY <1>s, <3>1, <3>3
      <3>4. CASE d < j /\ j < b
        <4>1. PICK i \in d + 2..b : i = j + 1 /\ i - 1 = j
          BY <1>3, <3>4
        <4> QED
          BY <1>s, <3>1, <4>1
      <3> QED
        BY <1>3, <3>2, <3>3, <3>4
    <2> QED
      BY <1>14, <2>1, <2>2 DEF Arranged
  <1>16. \A j \in d + 1..mid : n > 1 /\ key[t[b]] < key[t[j]]
    <2>1. ASSUME NEW j \in d + 1..mid PROVE n > 1 /\ key[t[b]] < key[t[j]]
      <3>1. psize > 0 /\ n > 1 /\ d + 1 \in 1..n /\ j \in 1..n
        BY <1>3, <1>6
      <3>2. ~(key[t[d + 1]] <= key[t[b]])
        BY <1>3, <1>5, <1>6, <3>1 DEF FromQ, NotGreater
      <3>3. key[t[d + 1]] \in Int /\ key[t[b]] \in Int /\ key[t[j]] \in Int
        BY <1>3, <3>1
      <3>4. key[t[d + 1]] <= key[t[j]]
        <4>1. CASE j = d + 1
          BY <3>3, <4>1
        <4>2. CASE j # d + 1
          <5>1. d + 1 \in c + 1..e /\ j \in c + 1..e /\ d + 1 < j /\ j <= mid
            BY <1>3, <4>2
          <5> QED
            BY <1>3, <5>1
        <4> QED
          BY <4>1, <4>2
      <3> QED
        BY <3>1, <3>2, <3>3, <3>4
    <2> QED
      BY <2>1
  <1>17. ASSUME NEW i \in 1..n, NEW j \in 1..n, i < j
         PROVE  \E u, v \in 1..n : /\ s[i] = t[u] /\ s[j] = t[v]
                                   /\ u < v \/ (u = b /\ v \in d + 1..mid)
    <2>1. PICK u \in 1..n : s[i] = t[u] /\ u = IF i <= d \/ i > b THEN i ELSE IF i = d + 1 THEN b ELSE i - 1
      BY <1>13
    <2>2. PICK v \in 1..n : s[j] = t[v] /\ v = IF j <= d \/ j > b THEN j ELSE IF j = d + 1 THEN b ELSE j - 1
      BY <1>13
    <2>3. u < v \/ (u = b /\ v \in d + 1..mid)
      BY <1>3, <1>6, <1>17, <2>1, <2>2
    <2> QED
      BY <2>1, <2>2, <2>3
  <1>18. Stable(s)
    <2>1. ASSUME NEW i \in 1..n, NEW j \in 1..n, i < j, key[s[i]] = key[s[j]]
          PROVE  PlaceOf(s[i]) < PlaceOf(s[j])
      <3>1. PICK u \in 1..n, v \in 1..n : /\ s[i] = t[u] /\ s[j] = t[v]
                                          /\ u < v \/ (u = b /\ v \in d + 1..mid)
        BY <1>17, <2>1
      <3>2. CASE u < v
        BY <1>3, <1>4, <2>1, <3>1, <3>2 DEF Stable
      <3>3. CASE u = b /\ v \in d + 1..mid
        <4>1. n > 1 /\ key[t[b]] < key[t[v]] /\ key[t[b]] = key[t[v]]
          BY <1>16, <2>1, <3>1, <3>3
        <4>2. key[t[b]] \in Int
          BY <1>3, <1>6, <4>1
        <4> QED
          BY <4>1, <4>2
      <3> QED
        BY <3>1, <3>2, <3>3
    <2> QED
      BY <1>3, <2>1 DEF Stable
  <1>19. LinkedAt(s, d + 1, b)'
    <2>1. Arranged(s, 1..Count', Sorting') /\ Stable(s)' /\ insize' > 0 /\ Count' = n
      BY <1>t, <1>2, <1>3, <1>15, <1>18
    <2>2. d + 1 \in 0..n /\ b \in d + 1..n
      BY <1>3, <1>6
    <2>3. ASSUME NEW i \in 1..n - 1, i # d + 1, i # b PROVE next'[s[i]] = s[i + 1]
      <3>1. CASE i < d
        <4>1. i \in 1..d /\ i + 1 \in 1..d /\ i # mid /\ i # d
          BY <1>3, <3>1
        <4>2. s[i] = t[i] /\ s[i + 1] = t[i + 1] /\ i \in 1..n
          BY <1>s, <4>1
        <4>3. next'[t[i]] = next[t[i]]
          BY <1>11, <4>1, <4>2
        <4>4. next[t[i]] = t[i + 1]
          BY <1>4, <4>1
        <4> QED
          BY <4>2, <4>3, <4>4, Zenon
      <3>2. CASE i = d
        <4>1. i \in 1..d /\ i \in 1..n
          BY <1>3, <3>2
        <4> QED
          BY <1>6, <1>11, <1>s, <3>2, <4>1
      <3>3. CASE i \in d + 2..b
        <4>1. PICK j \in d + 1..mid : j = i - 1 /\ j \in 1..n /\ s[i] = t[j]
          BY <1>s, <3>3
        <4>2. i + 1 \in d + 2..b /\ (i + 1) - 1 = i
          BY <2>3, <3>3
        <4>3. s[i + 1] = t[i]
          BY <1>s, <4>2
        <4>4. j # mid /\ j # d /\ j \in 1..n - 1 /\ j + 1 = i
          BY <1>3, <1>6, <2>3, <3>3, <4>1
        <4>5. next'[t[j]] = next[t[j]]
          BY <1>11, <4>1, <4>4
        <4>6. next[t[j]] = t[j + 1]
          BY <1>4, <4>4
        <4>7. next'[t[j]] = t[i]
          BY <4>4, <4>5, <4>6
        <4> QED
          BY <4>1, <4>3, <4>7, Zenon
      <3>4. CASE i \in b + 1..n
        <4>1. i + 1 \in b + 1..n /\ i \in 1..n /\ i # mid /\ i # d
          BY <1>3, <1>6, <3>4
        <4>2. s[i] = t[i] /\ s[i + 1] = t[i + 1]
          BY <1>s, <3>4, <4>1
        <4>3. next'[t[i]] = next[t[i]]
          BY <1>11, <4>1
        <4>4. next[t[i]] = t[i + 1]
          BY <1>4, <4>1
        <4> QED
          BY <4>2, <4>3, <4>4, Zenon
      <3>5. i < d \/ i = d \/ i \in d + 2..b \/ i \in b + 1..n
        <4>1. d \in Nat /\ n \in Nat /\ b \in Nat
          BY <1>3
        <4>2. i > d => i >= d + 2
          BY <2>3, <4>1
        <4> QED
          BY <4>1, <4>2
      <3> QED
        BY <3>1, <3>2, <3>3, <3>4, <3>5
    <2>4. b < n => next'[s[n]] = oldhead'
      <3>1. b < n => n \in b + 1..n /\ n # d /\ n \in 1..n
        BY <1>3, <1>6
      <3>2. b < n => s[n] = t[n]
        BY <1>s, <3>1
      <3>3. b < n => next'[t[n]] = next[t[n]]
        BY <1>11, <3>1
      <3> QED
        BY <1>t, <1>4, <1>6, <3>2, <3>3
    <2>5. ASSUME NEW i \in 2..n, i <= d + 1 PROVE prev'[s[i]] = s[i - 1]
      <3>1. CASE i = d + 1
        <4>1. d # 0 /\ i - 1 = d /\ d \in 1..d
          BY <1>3, <3>1
        <4>2. s[i] = t[b] /\ s[i - 1] = t[d] /\ tail = t[d]
          BY <1>4, <1>s, <3>1, <4>1
        <4> QED
          BY <1>12, <4>2
      <3>2. CASE i # d + 1
        <4>1. i <= d /\ i \in 1..n /\ i \in 1..d /\ i - 1 \in 1..d /\ i # b
          BY <1>3, <1>6, <2>5, <3>2
        <4>2. s[i] = t[i] /\ s[i - 1] = t[i - 1]
          BY <1>s, <4>1
        <4> QED
          BY <1>4, <1>12, <4>1, <4>2
      <3> QED
        BY <3>1, <3>2
    <2>6. ASSUME NEW i \in 2..n, i > b PROVE s[i] # oldhead'
      <3>1. i \in b + 1..n /\ i > mid
        BY <1>3, <1>6, <2>6
      <3> QED
        BY <1>t, <1>4, <1>s, <3>1
    <2>7. list' = s[1] /\ tail' = s[d + 1] /\ d + 1 # 0
      <3>1. CASE d = 0
        <4>1. tail = NULL
          BY <1>4, <3>1
        <4> QED
          BY <1>t, <1>6, <1>s, <3>1, <4>1
      <3>2. CASE d # 0
        <4>1. list' = list /\ list = t[1] /\ 1 \in 1..d
          BY <1>t, <1>3, <1>4, <1>7, <3>2
        <4> QED
          BY <1>t, <1>3, <1>6, <1>s, <4>1
      <3> QED
        BY <3>1, <3>2
    <2> QED
      BY <2>1, <2>2, <2>3, <2>4, <2>5, <2>6, <2>7 DEF LinkedAt
  <1>20. \A i, j \in c + 1..e : i \in 1..n /\ j \in 1..n /\ c + 1 \in 1..n
    BY <1>3
  <1>21. ASSUME NEW i \in c + 1..e, NEW j \in c + 1..e, i < j, i <= d + 1 \/ j <= b \/ i > b
         PROVE  key[s[i]] <= key[s[j]]
    <2>1. CASE i <= d
      <3>1. i \in 1..d /\ s[i] = t[i]
        BY <1>3, <1>s, <2>1
      <3>2. PICK v \in c + 1..e : s[j] = t[v] /\ i < v
        <4>1. PICK v \in 1..n : s[j] = t[v] /\ v = IF j <= d \/ j > b THEN j ELSE IF j = d + 1 THEN b ELSE j - 1
          BY <1>13, <1>20
        <4>2. v \in c + 1..e /\ i < v
          BY <1>3, <1>6, <1>21, <2>1, <4>1
        <4> QED
          BY <4>1, <4>2
      <3> QED
        BY <1>3, <2>1, <3>1, <3>2
    <2>2. CASE i = d + 1
      <3>1. s[i] = t[b]
        BY <1>s, <2>2
      <3>2. CASE j \in d + 2..b
        <4>1. PICK v \in d + 1..mid : s[j] = t[v] /\ v \in 1..n
          BY <1>s, <3>2
        <4>2. n > 1 /\ key[t[b]] < key[t[v]]
          BY <1>16, <4>1
        <4>3. key[t[b]] \in Int /\ key[t[v]] \in Int
          BY <1>3, <4>1, <4>2
        <4> QED
          BY <3>1, <4>1, <4>2, <4>3
      <3>3. CASE j \in b + 1..n
        <4>1. s[j] = t[j] /\ b \in c + 1..e /\ b < j /\ b > mid
          BY <1>3, <1>6, <1>s, <3>3
        <4> QED
          BY <1>3, <3>1, <4>1
      <3>4. j \in d + 2..b \/ j \in b + 1..n
        BY <1>3, <1>6, <1>21, <2>2
      <3> QED
        BY <3>2, <3>3, <3>4
    <2>3. CASE i > d + 1 /\ j <= b
      <3>1. i \in d + 2..b /\ j \in d + 2..b
        BY <1>3, <1>21, <2>3
      <3>2. PICK u \in d + 1..mid : u = i - 1 /\ s[i] = t[u]
        BY <1>s, <3>1
      <3>3. PICK v \in d + 1..mid : v = j - 1 /\ s[j] = t[v]
        BY <1>s, <3>1
      <3>4. u \in c + 1..e /\ v \in c + 1..e /\ u < v /\ v <= mid
        BY <1>3, <1>21, <3>2, <3>3
      <3> QED
        BY <1>3, <3>2, <3>3, <3>4
    <2>4. CASE i > b
      <3>1. i \in b + 1..n /\ j \in b + 1..n /\ i > mid
        BY <1>3, <1>6, <1>21, <2>4
      <3>2. s[i] = t[i] /\ s[j] = t[j]
        BY <1>s, <3>1
      <3> QED
        BY <1>3, <1>21, <3>1, <3>2
    <2> QED
      BY <1>3, <1>6, <1>21, <2>1, <2>2, <2>3, <2>4
  <1>22. TakeAt(s, d + 1)'
    <2>1. Count' = n /\ (nmerges' - 1) * (2 * insize') = c /\ b = (d + 1) + psize'
          /\ e = IF c + 2 * insize' < n THEN c + 2 * insize' ELSE n
      BY <1>t, <1>2, <1>3, <1>6
    <2>2. nmerges' > 0 /\ c < n /\ c <= d + 1 /\ b <= e
      BY <1>t, <1>3, <1>6
    <2>3. psize' > 0 => p' = s[(d + 1) + 1]
      <3>1. psize > 0 => (d + 1) + 1 \in d + 2..b /\ ((d + 1) + 1) - 1 = d + 1
        BY <1>3, <1>6
      <3> QED
        BY <1>t, <1>3, <1>s, <3>1
    <2>4. q' = IF b < n THEN s[b + 1] ELSE NULL
      <3>1. CASE b < n
        <4>1. b \in 1..n - 1 /\ b # d /\ b # mid /\ b + 1 \in b + 1..n /\ b + 1 \in 2..n /\ b + 1 > mid
          BY <1>3, <1>6, <3>1
        <4>2. next[q] = t[b + 1] /\ t[b + 1] # oldhead /\ s[b + 1] = t[b + 1]
          BY <1>4, <1>6, <1>s, <4>1
        <4> QED
          BY <1>t, <3>1, <4>2
      <3>2. CASE ~(b < n)
        <4>1. b = n
          BY <3>2
        <4> QED
          BY <1>t, <1>4, <1>6, <3>2, <4>1
      <3> QED
        BY <3>1, <3>2
    <2>5. b = n \/ b + qsize' = c + 2 * insize'
      BY <1>t, <1>3, <1>5, <1>6
    <2>6. InRuns(s, 1, c, 2 * insize)'
      <3>1. \A i \in 1..c : s[i] = t[i]
        BY <1>3, <1>s
      <3>2. InRuns(t, 1, c, 2 * insize)
        BY <1>3
      <3> QED
        BY <1>t, <3>1, <3>2 DEF InRuns
    <2>7. InRuns(s, e + 1, n, insize)'
      <3>1. \A i \in e + 1..n : s[i] = t[i]
        BY <1>3, <1>6, <1>s
      <3>2. InRuns(t, e + 1, n, insize)
        BY <1>3
      <3> QED
        BY <1>t, <3>1, <3>2 DEF InRuns
    <2>8. \A i, j \in c + 1..e :
               i < j /\ (i <= d + 1 \/ j <= b \/ i > b) => key'[s[i]] <= key'[s[j]]
      BY <1>t, <1>21
    <2> QED
      BY <1>19, <2>1, <2>2, <2>3, <2>4, <2>5, <2>6, <2>7, <2>8, MergeGoesOn
  <1>23. s \in Orders' /\ d + 1 \in (0..Count)'
    BY <1>2, <1>3, <1>6, <1>14 DEF Orders
  <1> QED
    BY <1>t, <1>10, <1>22, <1>23 DEF SortInv

(* Places on both sides of a multiple of m are not in one run of m. *)
LEMMA RunsApart ==
    ASSUME NEW m \in Nat \ {0}, NEW k \in Nat, NEW x \in Nat, NEW y \in Nat, x < k * m, k * m <= y
    PROVE  x \div m # y \div m
  <1>1. PICK a \in Nat, b \in Nat : a = x \div m /\ b = y \div m
    BY Quotient
  <1>2. a * m <= x /\ y < b * m + m /\ a * m \in Nat /\ b * m \in Nat /\ k * m \in Nat
    BY <1>1, Quotient, ProductGrows
  <1>3. ASSUME a = b PROVE FALSE
    <2>1. CASE a < k
      <3>1. (a + 1) * m <= k * m /\ (a + 1) * m = a * m + m
        BY <1>3, <2>1, ProductGrows
      <3> QED
        BY <1>2, <1>3, <3>1
    <2>2. CASE ~(a < k)
      <3>1. k * m <= a * m
        BY <2>2, ProductGrows
      <3> QED
        BY <1>2, <3>1
    <2> QED
      BY <2>1, <2>2
  <1> QED
    BY <1>1, <1>3

(* When nothing is left of the two runs, they have become one. *)
LEMMA MergedStep ==
    ASSUME ListSortAssumption, SortInv, Merged
    PROVE  SortInv'
  <1>t. /\ SortTypeOK /\ sort_pc = "take" /\ sort_pc' = "merge"
        /\ key' = key /\ order' = order /\ next' = next /\ prev' = prev /\ list' = list /\ tail' = tail
        /\ oldhead' = oldhead /\ insize' = insize /\ nmerges' = nmerges /\ p' = q
    BY DEF SortInv, Merged
  <1>1. PICK t \in Orders, d \in 0..Count : TakeAt(t, d)
    BY <1>t DEF SortInv
  <1>2. /\ Count' = Count /\ Sorting' = Sorting
        /\ Stable(t)' <=> Stable(t)
    BY <1>t, SameKeys
  <1>u. PICK n \in Nat \ {0}, c \in Nat, e \in Nat, mid \in Nat : MergeKnows(t, d, n, c, e, mid)
    BY <1>t, <1>1, MergeFacts
  <1>3. /\ n = Count /\ c = (nmerges - 1) * (2 * insize) /\ mid = d + psize
        /\ e = (IF c + 2 * insize < n THEN c + 2 * insize ELSE n)
        /\ d \in Nat /\ insize \in Nat \ {0} /\ nmerges \in Nat \ {0}
        /\ psize \in Nat /\ qsize \in Nat
        /\ c <= d /\ d <= mid /\ mid <= e /\ e <= n /\ c < n
        /\ \A i \in 1..n : t[i] \in Node /\ t[i] # NULL /\ t[i] \in Sorting
        /\ n > 1 => \A i \in 1..n : key[t[i]] \in Int
        /\ \A i, j \in 1..n : t[i] = t[j] => i = j
        /\ psize > 0 => p = t[d + 1]
        /\ q = IF mid < n THEN t[mid + 1] ELSE NULL
        /\ mid = n \/ mid + qsize = c + 2 * insize
        /\ InRuns(t, 1, c, 2 * insize) /\ InRuns(t, e + 1, n, insize)
        /\ \A i, j \in c + 1..e :
             i < j /\ (i <= d \/ j <= mid \/ i > mid) => key[t[i]] <= key[t[j]]
    BY <1>u DEF MergeKnows
  <1>4. psize = 0 /\ (qsize = 0 \/ q = NULL) /\ mid = d
    BY <1>3 DEF Merged
  <1>5. d = e
    <2>1. CASE mid < n
      <3>1. q # NULL
        BY <1>3, <2>1
      <3> QED
        BY <1>3, <1>4, <2>1, <3>1
    <2>2. CASE ~(mid < n)
      BY <1>3, <1>4, <2>2
    <2> QED
      BY <2>1, <2>2
  <1>6. PICK k \in Nat, m \in Nat \ {0} : /\ k = nmerges - 1 /\ m = 2 * insize /\ c = k * m
                                         /\ nmerges * (2 * insize) = c + m
    <2>1. PICK k \in Nat, m \in Nat \ {0} : k = nmerges - 1 /\ m = 2 * insize
      BY <1>3
    <2>2. nmerges * (2 * insize) = (k + 1) * m /\ (k + 1) * m = k * m + m /\ c = k * m
      BY <1>3, <2>1
    <2> QED
      BY <2>1, <2>2
  <1>7. SortTypeOK'
    <2>1. UNCHANGED <<q, psize, qsize, sorted>>
      BY DEF Merged
    <2> QED
      BY <1>t, <2>1 DEF SortTypeOK
  <1>8. LinkedAt(t, d, d)'
    <2>1. LinkedAt(t, d, d)
      BY <1>1, <1>3, <1>4 DEF TakeAt
    <2> QED
      BY <1>t, <1>2, <2>1 DEF LinkedAt
  <1>9. InRuns(t, 1, d, 2 * insize)'
    <2>1. ASSUME NEW i \in 1..d, NEW j \in 1..d, i < j, (i - 1) \div m = (j - 1) \div m
          PROVE  key[t[i]] <= key[t[j]]
      <3>1. CASE j <= c
        <4>1. i \in 1..c /\ j \in 1..c
          BY <1>3, <2>1, <3>1
        <4> QED
          BY <1>3, <1>6, <2>1, <4>1 DEF InRuns
      <3>2. CASE i > c
        <4>1. i \in c + 1..e /\ j \in c + 1..e /\ i <= d
          BY <1>3, <1>5, <2>1, <3>2
        <4> QED
          BY <1>3, <2>1, <4>1
      <3>3. CASE i <= c /\ j > c
        <4>1. PICK x \in Nat, y \in Nat : x = i - 1 /\ y = j - 1
          OBVIOUS
        <4>2. x < k * m /\ k * m <= y
          BY <1>3, <1>6, <3>3, <4>1
        <4>3. x \div m # y \div m
          BY <4>2, RunsApart
        <4> QED
          BY <2>1, <4>1, <4>3
      <3> QED
        BY <1>3, <3>1, <3>2, <3>3
    <2> QED
      BY <1>t, <1>6, <2>1 DEF InRuns
  <1>10. MergeAt(t, d)'
    <2>1. p' = IF d < n THEN t[d + 1] ELSE NULL
      BY <1>t, <1>3, <1>4
    <2>2. d = IF nmerges' * (2 * insize') < n THEN nmerges' * (2 * insize') ELSE n
      BY <1>t, <1>3, <1>5, <1>6
    <2>3. (nmerges' - 1) * (2 * insize') < n
      BY <1>t, <1>3
    <2>4. InRuns(t, d + 1, n, insize)'
      BY <1>t, <1>3, <1>5 DEF InRuns
    <2>5. Count' = n
      BY <1>2, <1>3
    <2> QED
      BY <1>8, <1>9, <2>1, <2>2, <2>3, <2>4, <2>5 DEF MergeAt
  <1>11. t \in Orders' /\ d \in (0..Count)'
    BY <1>1, <1>2 DEF Orders
  <1> QED
    BY <1>t, <1>7, <1>10, <1>11 DEF SortInv

(* The circle is closed; a pass with one merge has sorted everything. *)
LEMMA PassEndsStep ==
    ASSUME ListSortAssumption, SortInv, PassEnds
    PROVE  SortInv'
  <1>t. /\ SortTypeOK /\ sort_pc = "merge" /\ p = NULL
        /\ key' = key /\ order' = order /\ sorted' = sorted /\ list' = list
    BY DEF SortInv, PassEnds
  <1>1. PICK t \in Orders, d \in 0..Count : MergeAt(t, d)
    BY <1>t DEF SortInv
  <1>2. /\ Count' = Count /\ Sorting' = Sorting
        /\ Stable(t)' <=> Stable(t)
    BY <1>t, SameKeys
  <1>3. PICK n \in Nat \ {0} : n = Count
    BY <1>t, NodesAre
  <1>4. /\ Arranged(t, 1..n, Sorting) /\ Stable(t) /\ d \in 0..n
        /\ IF d = 0 THEN list = NULL /\ tail = NULL ELSE list = t[1] /\ tail = t[d]
        /\ \A i \in 1..n - 1 : i # d => next[t[i]] = t[i + 1]
        /\ \A i \in 2..n : i <= d => prev[t[i]] = t[i - 1]
        /\ p = IF d < n THEN t[d + 1] ELSE NULL
        /\ InRuns(t, 1, d, 2 * insize)
        /\ insize \in Nat \ {0} /\ nmerges \in Nat
    BY <1>t, <1>1, <1>3 DEF MergeAt, LinkedAt, SortTypeOK
  <1>5. \A i \in 1..n : t[i] \in Node /\ t[i] # NULL /\ t[i] \in Sorting
    <2>1. ASSUME NEW i \in 1..n PROVE t[i] \in Node /\ t[i] # NULL /\ t[i] \in Sorting
      <3>1. t[i] \in Sorting
        BY <1>4 DEF Arranged
      <3> QED
        BY <1>t, <3>1, NodesAre
    <2> QED
      BY <2>1
  <1>6. d = n
    <2>1. d < n => d + 1 \in 1..n /\ p = t[d + 1]
      BY <1>4
    <2> QED
      BY <1>t, <1>4, <1>5, <2>1
  <1>7. list = t[1] /\ tail = t[n] /\ t[1] \in Node /\ t[n] \in Node /\ 1 \in 1..n /\ n \in 1..n
    BY <1>4, <1>5, <1>6
  <1>8. next \in [Node -> Node] /\ prev \in [Node -> Node \cup {NULL}]
    BY <1>t DEF SortTypeOK
  <1>9. PICK f \in [Node -> Node] : f = [next EXCEPT ![tail] = list]
    BY <1>7, <1>8
  <1>10. PICK r \in [Node -> Node \cup {NULL}] : r = [prev EXCEPT ![list] = tail]
    BY <1>7, <1>8
  <1>11. \A i \in 1..n : f[t[i]] = t[IF i = n THEN 1 ELSE i + 1]
    <2>1. ASSUME NEW i \in 1..n PROVE f[t[i]] = t[IF i = n THEN 1 ELSE i + 1]
      <3>1. t[i] \in Node /\ (t[i] = t[n] <=> i = n)
        BY <1>4, <1>5, <1>7 DEF Arranged
      <3>2. i # n => next[t[i]] = t[i + 1]
        BY <1>4, <1>6
      <3> QED
        BY <1>7, <1>8, <1>9, <3>1, <3>2
    <2> QED
      BY <2>1
  <1>12. \A i \in 1..n : r[t[i]] = t[IF i = 1 THEN n ELSE i - 1]
    <2>1. ASSUME NEW i \in 1..n PROVE r[t[i]] = t[IF i = 1 THEN n ELSE i - 1]
      <3>1. t[i] \in Node /\ (t[i] = t[1] <=> i = 1)
        BY <1>4, <1>5, <1>7 DEF Arranged
      <3>2. i # 1 => prev[t[i]] = t[i - 1]
        BY <1>4, <1>6
      <3> QED
        BY <1>7, <1>8, <1>10, <3>1, <3>2
    <2> QED
      BY <2>1
  <1>13. CASE nmerges > 1
    <2>1. next' = f /\ prev' = r /\ insize' = insize * 2 /\ sort_pc' = "pass"
      BY <1>4, <1>9, <1>10, <1>13 DEF PassEnds
    <2>2. SortTypeOK'
      <3>1. UNCHANGED <<p, q, list, tail, oldhead, nmerges, psize, qsize>>
        BY DEF PassEnds
      <3> QED
        BY <1>t, <1>4, <2>1, <3>1 DEF SortTypeOK
    <2>3. PassAt(t)'
      <3>1. Arranged(t, 1..Count', Sorting') /\ Stable(t)' /\ Count' = n
        BY <1>2, <1>3, <1>4
      <3>2. list' = t[1] /\ insize' > 0
        BY <1>t, <1>4, <1>7, <2>1
      <3>3. \A i \in 1..n : next'[t[i]] = t[IF i = n THEN 1 ELSE i + 1]
        BY <1>11, <2>1
      <3>4. InRuns(t, 1, n, insize)'
        <4>1. insize' = 2 * insize
          BY <1>4, <2>1
        <4> QED
          BY <1>t, <1>4, <1>6, <4>1 DEF InRuns
      <3> QED
        BY <3>1, <3>2, <3>3, <3>4 DEF PassAt
    <2>4. t \in Orders'
      BY <1>1, <1>2 DEF Orders
    <2> QED
      BY <2>1, <2>2, <2>3, <2>4 DEF SortInv
  <1>14. CASE ~(nmerges > 1)
    <2>0. /\ next' = [f EXCEPT ![head] = list, ![r[list]] = head]
          /\ prev' = [r EXCEPT ![head] = r[list], ![list] = head]
          /\ sort_pc' = "idle" /\ insize' = insize
      BY <1>4, <1>9, <1>10, <1>14 DEF PassEnds
    <2>1. r[list] = t[n]
      BY <1>7, <1>12
    <2>2. PICK k \in Nat : k = Len(key) /\ head = 0 /\ head \in Node
      BY <1>t, NodesAre
    <2>3. n = (IF k = 0 THEN 1 ELSE k) /\ Sorting = IF k = 0 THEN {0} ELSE 1..k
      BY <1>t, <1>3, <2>2, NodesAre
    <2>4. next' \in [Node -> Node] /\ prev' \in [Node -> Node \cup {NULL}]
      BY <1>7, <2>0, <2>1, <2>2
    <2>5. SortTypeOK'
      <3>1. UNCHANGED <<p, q, list, tail, oldhead, nmerges, psize, qsize>>
        BY DEF PassEnds
      <3> QED
        BY <1>t, <1>4, <2>0, <2>4, <3>1 DEF SortTypeOK
    <2> DEFINE c == [i \in 0..k |-> IF i = 0 THEN 0 ELSE t[i]]
    <2>6. c \in [0..k -> 0..k] /\ c[0] = 0 /\ \A i \in 1..k : c[i] = t[i] /\ i \in 1..n /\ t[i] \in 1..k
      <3>1. \A i \in 1..k : i \in 1..n /\ t[i] \in 1..k /\ t[i] \in 0..k
        <4>1. ASSUME NEW i \in 1..k PROVE i \in 1..n /\ t[i] \in 1..k /\ t[i] \in 0..k
          <5>1. i \in 1..n /\ Sorting = 1..k
            BY <2>3
          <5>2. t[i] \in 1..k
            BY <1>5, <5>1
          <5> QED
            BY <5>1, <5>2
        <4> QED
          BY <4>1
      <3> QED
        BY <3>1
    <2> HIDE DEF c
    <2>7. Arranged(c, 0..k, 0..k)
      <3>1. ASSUME NEW i \in 0..k, NEW j \in 0..k, c[i] = c[j] PROVE i = j
        <4>1. CASE i = 0 \/ j = 0
          BY <2>6, <3>1, <4>1
        <4>2. CASE i # 0 /\ j # 0
          <5>1. i \in 1..k /\ j \in 1..k
            BY <4>2
          <5> QED
            BY <1>4, <2>6, <3>1, <5>1 DEF Arranged
        <4> QED
          BY <4>1, <4>2
      <3>2. ASSUME NEW m \in 0..k PROVE \E i \in 0..k : c[i] = m
        <4>1. CASE m = 0
          BY <2>6, <4>1
        <4>2. CASE m # 0
          <5>1. m \in Sorting /\ n = k
            BY <2>3, <4>2
          <5>2. PICK i \in 1..n : t[i] = m
            BY <1>4, <5>1 DEF Arranged
          <5> QED
            BY <2>6, <5>1, <5>2
        <4> QED
          BY <4>1, <4>2
      <3> QED
        BY <2>6, <3>1, <3>2 DEF Arranged
    <2>8. ASSUME NEW i \in 0..k
          PROVE  /\ next'[c[i]] = c[IF i = k THEN 0 ELSE i + 1]
                 /\ prev'[c[i]] = c[IF i = 0 THEN k ELSE i - 1]
      <3>1. CASE k = 0
        <4>1. t[1] = 0 /\ n = 1 /\ i = 0
          BY <1>5, <1>7, <2>3, <3>1
        <4>2. list = 0 /\ r[list] = 0
          BY <1>7, <2>1, <4>1
        <4>3. next'[0] = 0 /\ prev'[0] = 0
          BY <2>0, <2>2, <4>2
        <4> QED
          BY <2>6, <3>1, <4>1, <4>3
      <3>2. CASE k # 0
        <4>0. n = k /\ Sorting = 1..k
          BY <2>3, <3>2
        <4>1. t[1] # 0 /\ t[n] # 0
          BY <1>5, <1>7, <4>0
        <4>2. /\ next' = [f EXCEPT ![0] = t[1], ![t[n]] = 0]
              /\ prev' = [r EXCEPT ![0] = t[n], ![t[1]] = 0]
          BY <1>7, <2>0, <2>1, <2>2
        <4>3. CASE i = 0
          <5>1. next'[0] = t[1] /\ prev'[0] = t[n]
            BY <1>7, <2>2, <4>1, <4>2
          <5>2. c[1] = t[1] /\ c[k] = t[n]
            BY <1>7, <2>6, <4>0
          <5> QED
            BY <2>6, <3>2, <4>3, <5>1, <5>2
        <4>4. CASE i # 0
          <5>1. i \in 1..k /\ i \in 1..n /\ c[i] = t[i] /\ t[i] \in Node /\ t[i] # 0
            BY <1>5, <2>6, <4>4
          <5>2. (t[i] = t[n] <=> i = n) /\ (t[i] = t[1] <=> i = 1)
            BY <1>4, <1>7, <5>1 DEF Arranged
          <5>3. next'[t[i]] = IF i = n THEN 0 ELSE f[t[i]]
            BY <4>2, <5>1, <5>2
          <5>4. prev'[t[i]] = IF i = 1 THEN 0 ELSE r[t[i]]
            BY <4>2, <5>1, <5>2
          <5>5. i # n => f[t[i]] = t[i + 1] /\ i + 1 \in 1..k
            BY <1>11, <4>0, <5>1
          <5>6. i # 1 => r[t[i]] = t[i - 1] /\ i - 1 \in 1..k
            BY <1>12, <4>0, <5>1
          <5>7. i # n => c[i + 1] = t[i + 1]
            BY <2>6, <5>5
          <5>8. i # 1 => c[i - 1] = t[i - 1]
            BY <2>6, <5>6
          <5>9. i = 1 => i - 1 = 0
            OBVIOUS
          <5> QED
            BY <2>6, <4>0, <4>4, <5>1, <5>3, <5>4, <5>5, <5>6, <5>7, <5>8, <5>9
        <4> QED
          BY <4>3, <4>4
      <3> QED
        BY <3>1, <3>2
    <2>9. ASSUME NEW i \in 1..k, NEW j \in 1..k, i < j
          PROVE  /\ key'[c[i]] <= key'[c[j]]
                 /\ key'[c[i]] = key'[c[j]] => PlaceOf(c[i])' < PlaceOf(c[j])'
      <3>1. n = k /\ i \in 1..n /\ j \in 1..n /\ c[i] = t[i] /\ c[j] = t[j]
        BY <2>3, <2>6
      <3>2. n <= 2 * insize
        <4>1. nmerges * (2 * insize) >= n
          BY <1>1, <1>3, <1>4, <1>6 DEF MergeAt
        <4>2. nmerges = 0 \/ nmerges = 1
          BY <1>4, <1>14
        <4> QED
          BY <1>4, <4>1, <4>2
      <3>3. PICK m \in Nat \ {0} : m = 2 * insize
        BY <1>4
      <3>4. (i - 1) \div m = 0
        <4>1. PICK x \in Nat : x = i - 1
          OBVIOUS
        <4>2. 0 * m <= x /\ x < 0 * m + m
          BY <3>1, <3>2, <3>3, <4>1
        <4> QED
          BY <4>1, <4>2, QuotientIs
      <3>5. (j - 1) \div m = 0
        <4>1. PICK x \in Nat : x = j - 1
          OBVIOUS
        <4>2. 0 * m <= x /\ x < 0 * m + m
          BY <3>1, <3>2, <3>3, <4>1
        <4> QED
          BY <4>1, <4>2, QuotientIs
      <3>6. key[t[i]] <= key[t[j]]
        BY <1>4, <1>6, <2>9, <3>1, <3>3, <3>4, <3>5 DEF InRuns
      <3>7. Stable(t)'
        BY <1>2, <1>4
      <3>8. Count' = n
        BY <1>2, <1>3
      <3>9. key'[t[i]] = key'[t[j]] => PlaceOf(t[i])' < PlaceOf(t[j])'
        BY <2>9, <3>1, <3>7, <3>8 DEF Stable
      <3> QED
        BY <1>t, <3>1, <3>6, <3>9
    <2>10. IdleAt(c)'
      <3>1. k = Len(key')
        BY <1>t, <2>2
      <3>2. Rising(c, 1, k)'
        BY <2>9 DEF Rising
      <3> QED
        BY <2>2, <2>6, <2>7, <2>8, <2>9, <3>1, <3>2 DEF IdleAt
    <2>11. c \in [0..Len(key') -> 0..Len(key')]
      BY <1>t, <2>2, <2>6
    <2> QED
      BY <2>0, <2>5, <2>10, <2>11 DEF SortInv
  <1> QED
    BY <1>13, <1>14

(* Every step keeps the invariant. *)
LEMMA SortInvStep == ASSUME ListSortAssumption, SortInv, [SortNext]_sortVars PROVE SortInv'
  <1>1. ASSUME NEW k \in Key, list_head_add(k) \/ list_add_tail(k) PROVE SortInv'
    BY <1>1, AddStep
  <1>2. ASSUME list_sort PROVE SortInv'
    BY <1>2, SortBegins
  <1>3. ASSUME Pass PROVE SortInv'
    BY <1>3, PassStep
  <1>4. ASSUME Merge PROVE SortInv'
    BY <1>4, MergeStep
  <1>5. ASSUME Take PROVE SortInv'
    <2>1. CASE FromQ
      BY <1>5, <2>1, TakeSecond
    <2>2. CASE ~FromQ
      BY <1>5, <2>2, TakeFirst
    <2> QED
      BY <2>1, <2>2
  <1>6. ASSUME Merged PROVE SortInv'
    BY <1>6, MergedStep
  <1>7. ASSUME PassEnds PROVE SortInv'
    BY <1>7, PassEndsStep
  <1>8. ASSUME UNCHANGED sortVars PROVE SortInv'
    <2>1. key' = key /\ order' = order /\ next' = next /\ prev' = prev /\ sort_pc' = sort_pc
          /\ p' = p /\ q' = q /\ list' = list /\ tail' = tail /\ oldhead' = oldhead
          /\ insize' = insize /\ nmerges' = nmerges /\ psize' = psize /\ qsize' = qsize
          /\ sorted' = sorted
      BY <1>8 DEF sortVars, locals
    <2>2. /\ Count' = Count /\ Sorting' = Sorting
          /\ \A t : Stable(t)' <=> Stable(t)
          /\ \A t, a, b, m : InRuns(t, a, b, m)' <=> InRuns(t, a, b, m)
          /\ \A x : PlaceOf(x)' = PlaceOf(x)
      BY <2>1, SameKeys
    <2>3. SortTypeOK'
      BY <2>1 DEF SortInv, SortTypeOK
    <2>4. \A c : IdleAt(c) => IdleAt(c)'
      BY <2>1, <2>2 DEF IdleAt, Rising
    <2>5. \A t : PassAt(t) => PassAt(t)'
      BY <2>1, <2>2 DEF PassAt
    <2>6. \A t, d, m : LinkedAt(t, d, m) => LinkedAt(t, d, m)'
      BY <2>1, <2>2 DEF LinkedAt
    <2>7. \A t, d : MergeAt(t, d) => MergeAt(t, d)'
      BY <2>1, <2>2, <2>6 DEF MergeAt
    <2>8. \A t, d : TakeAt(t, d) => TakeAt(t, d)'
      BY <2>1, <2>2, <2>6 DEF TakeAt
    <2>9. Orders' = Orders /\ (0..Count)' = 0..Count
      BY <2>2 DEF Orders
    <2>10. sort_pc = "idle" => \E c \in [0..Len(key') -> 0..Len(key')] : IdleAt(c)'
      BY <2>1, <2>4 DEF SortInv
    <2>11. sort_pc = "pass" => \E t \in Orders' : PassAt(t)'
      BY <2>5, <2>9 DEF SortInv
    <2>12. sort_pc = "merge" => \E t \in Orders', d \in (0..Count)' : MergeAt(t, d)'
      BY <2>7, <2>9 DEF SortInv
    <2>13. sort_pc = "take" => \E t \in Orders', d \in (0..Count)' : TakeAt(t, d)'
      BY <2>8, <2>9 DEF SortInv
    <2> QED
      BY <2>1, <2>3, <2>10, <2>11, <2>12, <2>13 DEF SortInv
  <1> QED
    BY <1>1, <1>2, <1>3, <1>4, <1>5, <1>6, <1>7, <1>8 DEF SortNext

(* The invariant says what the links lead along and where it comes from: a walk  *)
(* forward is c, a walk back is c from its end.                                  *)
LEMMA InvIsSorted == ASSUME ListSortAssumption, SortInv PROVE SortedStably
  <1> SUFFICES ASSUME sort_pc = "idle" PROVE SortedStably
    BY DEF SortedStably
  <1>t. SortTypeOK
    BY DEF SortInv
  <1>0. PICK n \in Nat : n = Len(key) /\ head = 0 /\ (key = <<>> <=> n = 0)
    BY <1>t, NodesAre
  <1>1. PICK c \in [0..n -> 0..n] : IdleAt(c)
    BY <1>0 DEF SortInv
  <1>2. /\ c[0] = 0
        /\ \A i, j \in 0..n : c[i] = c[j] => i = j
        /\ \A m \in 0..n : \E i \in 0..n : c[i] = m
        /\ \A i \in 0..n : /\ next[c[i]] = c[IF i = n THEN 0 ELSE i + 1]
                           /\ prev[c[i]] = c[IF i = 0 THEN n ELSE i - 1]
        /\ sorted => /\ Rising(c, 1, n)
                     /\ \A i, j \in 1..n : i < j /\ key[c[i]] = key[c[j]] => PlaceOf(c[i]) < PlaceOf(c[j])
    BY <1>0, <1>1 DEF IdleAt, Arranged
  <1>3. \A i \in 1..n : c[i] \in 1..n
    <2>1. ASSUME NEW i \in 1..n PROVE c[i] \in 1..n
      <3>1. i \in 0..n /\ 0 \in 0..n /\ i # 0
        OBVIOUS
      <3>2. c[i] \in 0..n /\ c[i] # 0
        BY <1>1, <1>2, <3>1
      <3> QED
        BY <3>2
    <2> QED
      BY <2>1
  <1>4. PICK w \in Seq(1..n) : w = Steps(c, n) /\ Len(w) = n /\ \A i \in 1..n : w[i] = c[i]
    <2>1. Steps(c, n) \in [1..n -> 1..n]
      BY <1>3 DEF Steps
    <2>2. Steps(c, n) \in Seq(1..n) /\ Len(Steps(c, n)) = n
      BY <2>1
    <2>3. \A i \in 1..n : Steps(c, n)[i] = c[i]
      BY DEF Steps
    <2> QED
      BY <2>2, <2>3
  <1>5. Along(next) = w
    <2>1. ASSUME NEW i \in 0..n - 1 PROVE next[c[i]] = c[i + 1]
      <3>1. i \in 0..n /\ i # n
        OBVIOUS
      <3> QED
        BY <1>2, <3>1
    <2>2. Leads(next, c, n)
      BY <1>0, <1>2, <2>1 DEF Leads
    <2>3. Walk(next, n) = Steps(c, n)
      BY <2>2, WalkIs
    <2> QED
      BY <1>0, <1>4, <2>3 DEF Along
  <1>6. Along(prev) = Reverse(w)
    <2> DEFINE b == [i \in 0..n |-> IF i = 0 THEN 0 ELSE c[n + 1 - i]]
    <2>1. b[0] = 0 /\ \A i \in 1..n : b[i] = c[n + 1 - i]
      OBVIOUS
    <2> HIDE DEF b
    <2>2. ASSUME NEW i \in 0..n - 1 PROVE prev[b[i]] = b[i + 1]
      <3>1. PICK j \in 1..n : j = i + 1 /\ b[j] = c[n - i]
        BY <2>1
      <3>2. CASE i = 0
        <4>1. 0 \in 0..n /\ n - 0 = n
          OBVIOUS
        <4>2. prev[c[0]] = c[n]
          BY <1>2, <4>1
        <4>3. b[i] = c[0] /\ b[i + 1] = c[n]
          BY <1>2, <2>1, <3>1, <3>2, <4>1
        <4> QED
          BY <4>2, <4>3
      <3>3. CASE i # 0
        <4>1. PICK m \in 1..n : m = n + 1 - i /\ m - 1 = n - i /\ b[i] = c[m]
          BY <2>1, <3>3
        <4>2. m \in 0..n /\ m # 0
          OBVIOUS
        <4>3. prev[c[m]] = c[m - 1]
          BY <1>2, <4>2
        <4> QED
          BY <3>1, <4>1, <4>3
      <3> QED
        BY <3>2, <3>3
    <2>3. Leads(prev, b, n)
      BY <1>0, <2>1, <2>2 DEF Leads
    <2>4. Walk(prev, n) = Steps(b, n)
      BY <2>3, WalkIs
    <2>5. Steps(b, n) = Reverse(w)
      <3>1. \A i \in 1..n : b[i] = w[(n - i) + 1]
        <4>1. ASSUME NEW i \in 1..n PROVE b[i] = w[(n - i) + 1]
          <5>1. PICK m \in 1..n : m = (n - i) + 1 /\ m = n + 1 - i
            OBVIOUS
          <5> QED
            BY <1>4, <2>1, <5>1
        <4> QED
          BY <4>1
      <3> QED
        BY <1>4, <3>1 DEF Steps, Reverse
    <2> QED
      BY <1>0, <2>4, <2>5 DEF Along
  <1>7. next[IF key = <<>> THEN head ELSE Last(w)] = head
    <2>1. next[c[n]] = c[0]
      BY <1>2, SMTT(60)
    <2>2. n # 0 => Last(w) = c[n]
      BY <1>4 DEF Last
    <2> QED
      BY <1>0, <1>2, <2>1, <2>2
  <1>8. Circle
    BY <1>5, <1>6, <1>7 DEF Circle
  <1>9. ToSet(w) = 1..n
    <2>1. ToSet(w) = {w[i] : i \in 1..n}
      <3>1. DOMAIN w = 1..n
        BY <1>4
      <3> QED
        BY <3>1 DEF ToSet
    <2>2. ASSUME NEW m \in 1..n PROVE \E i \in 1..n : w[i] = m
      <3>1. PICK i \in 0..n : c[i] = m
        BY <1>2
      <3>2. i # 0
        BY <1>2, <3>1
      <3> QED
        BY <1>4, <3>1, <3>2
    <2>3. \A i \in 1..n : w[i] \in 1..n
      BY <1>3, <1>4
    <2> QED
      BY <2>1, <2>2, <2>3
  <1>10. ASSUME sorted, NEW i \in 1..n, NEW j \in 1..n, i < j
         PROVE  \/ key[w[i]] < key[w[j]]
                \/ key[w[i]] = key[w[j]] /\ PlaceOf(w[i]) < PlaceOf(w[j])
    <2>1. w[i] = c[i] /\ w[j] = c[j] /\ c[i] \in 1..n /\ c[j] \in 1..n
      BY <1>3, <1>4
    <2>2. key[c[i]] <= key[c[j]]
      BY <1>2, <1>10 DEF Rising
    <2>3. key[c[i]] \in Int /\ key[c[j]] \in Int
      BY <1>t, <1>0, <2>1, NodesAre
    <2>4. key[c[i]] = key[c[j]] => PlaceOf(c[i]) < PlaceOf(c[j])
      BY <1>2, <1>10
    <2>5. key[c[i]] < key[c[j]] \/ key[c[i]] = key[c[j]]
      <3>1. PICK x \in Int, y \in Int : x = key[c[i]] /\ y = key[c[j]]
        BY <2>3
      <3>2. x <= y
        BY <2>2, <3>1
      <3>3. x < y \/ x = y
        BY <3>2
      <3> QED
        BY <3>1, <3>3, Zenon
    <2> QED
      BY <2>1, <2>4, <2>5
  <1>11. DOMAIN w = 1..n
    BY <1>4
  <1> QED
    BY <1>0, <1>5, <1>8, <1>9, <1>10, <1>11 DEF SortedStably

(* SortInv holds whatever is added and however often the list is sorted. *)
THEOREM SortInductive == ASSUME ListSortAssumption PROVE SortSpec => []SortInv
  <1>1. SortInit => SortInv
    BY InitSortInv
  <1>2. SortInv /\ [SortNext]_sortVars => SortInv'
    BY SortInvStep
  <1> QED
    BY <1>1, <1>2, PTL DEF SortSpec

(* A list that was sorted is in order, equal keys in the order that they had,    *)
(* and the links go round it both ways: list_sort, for lists of any length.      *)
THEOREM SortsStably == ASSUME ListSortAssumption PROVE SortSpec => []SortedStably
  <1>1. SortInv => SortedStably
    BY InvIsSorted
  <1> QED
    BY <1>1, SortInductive, PTL
=============================================================================
