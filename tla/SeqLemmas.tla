------------------------------ MODULE SeqLemmas ------------------------------
(***************************************************************************)
(* Facts about queues and lists kept in sequences that several proofs      *)
(* cite: where the elements of Append(q, e), Tail(q), a \o b and SubSeq    *)
(* are, and what the operations of LinkedList keep on a list, add to it    *)
(* and take off it; and what a division leaves.                            *)
(***************************************************************************)
EXTENDS LinkedList, SequenceTheorems, WellFoundedInduction, TLAPS

(* A queue is empty exactly when its length is 0, and its places hold elements. *)
LEMMA QueuePlaces ==
    ASSUME NEW S, NEW q \in Seq(S)
    PROVE  /\ Len(q) \in Nat
           /\ q = <<>> <=> Len(q) = 0
           /\ \A i \in 1..Len(q) : q[i] \in S
  BY EmptySeq, ElementOfSeq

(* Append leaves every place alone and fills a new last one. *)
LEMMA AppendPlaces ==
    ASSUME NEW S, NEW q \in Seq(S), NEW e \in S
    PROVE  /\ Append(q, e) \in Seq(S)
           /\ Append(q, e) # <<>>
           /\ Len(Append(q, e)) = Len(q) + 1
           /\ \A i \in 1..Len(q) : Append(q, e)[i] = q[i]
           /\ Append(q, e)[Len(q) + 1] = e
  OBVIOUS

(* Tail drops the first place and moves the others down by one. *)
LEMMA TailPlaces ==
    ASSUME NEW S, NEW q \in Seq(S), q # <<>>
    PROVE  /\ Tail(q) \in Seq(S)
           /\ Len(q) \in Nat \ {0}
           /\ Len(Tail(q)) = Len(q) - 1
           /\ \A i \in 1..Len(q) - 1 : Tail(q)[i] = q[i + 1]
           /\ Tail(q) = <<>> <=> Len(q) = 1
           /\ Head(q) = q[1]
  <1>1. Len(q) \in Nat \ {0}
    BY EmptySeq
  <1>2. /\ Tail(q) \in Seq(S)
        /\ Len(Tail(q)) = Len(q) - 1
        /\ \A i \in 1..Len(q) - 1 : Tail(q)[i] = q[i + 1]
    BY HeadTailProperties
  <1>3. Tail(q) = <<>> <=> Len(q) = 1
    BY <1>1, <1>2, QueuePlaces
  <1>4. Head(q) = q[1]
    OBVIOUS
  <1> QED
    BY <1>1, <1>2, <1>3, <1>4

(* What a queue contains is an element. *)
LEMMA ContainsElement ==
    ASSUME NEW S, NEW q \in Seq(S), NEW x, Contains(q, x)
    PROVE  x \in S
  BY QueuePlaces DEF Contains

(* The places of two sequences behind each other, and of a part of one. *)
LEMMA ConcatPlaces ==
    ASSUME NEW S, NEW a \in Seq(S), NEW b \in Seq(S)
    PROVE  /\ a \o b \in Seq(S) /\ Len(a \o b) = Len(a) + Len(b)
           /\ Len(a) \in Nat /\ Len(b) \in Nat
           /\ \A i \in 1..Len(a) : (a \o b)[i] = a[i]
           /\ \A i \in 1..Len(b) : (a \o b)[Len(a) + i] = b[i]
           /\ \A i \in 1..Len(a \o b) : i \in 1..Len(a) \/ i - Len(a) \in 1..Len(b)
  <1>1. /\ a \o b \in Seq(S) /\ Len(a \o b) = Len(a) + Len(b)
        /\ Len(a) \in Nat /\ Len(b) \in Nat
        /\ \A i \in 1..Len(a) + Len(b) :
              (a \o b)[i] = IF i <= Len(a) THEN a[i] ELSE b[i - Len(a)]
    BY ConcatProperties, LenProperties
  <1>2. \A i \in 1..Len(b) : (a \o b)[Len(a) + i] = b[i]
    <2> TAKE i \in 1..Len(b)
    <2>1. Len(a) + i \in 1..Len(a) + Len(b) /\ ~(Len(a) + i <= Len(a)) /\ (Len(a) + i) - Len(a) = i
      BY <1>1
    <2> QED
      BY <1>1, <2>1
  <1> QED
    BY <1>1, <1>2

LEMMA SubSeqPlaces ==
    ASSUME NEW S, NEW s \in Seq(S), NEW m \in Nat \ {0}, NEW n \in 0..Len(s), m <= n + 1
    PROVE  LET r == SubSeq(s, m, n)
           IN  /\ r \in Seq(S) /\ Len(r) = n - m + 1
               /\ \A i \in 1..Len(r) : r[i] = s[m + i - 1] /\ m + i - 1 \in 1..Len(s)
  <1> DEFINE r == SubSeq(s, m, n)
  <1>1. Len(s) \in Nat /\ \A i \in 1..Len(s) : s[i] \in S
    BY LenProperties
  <1>2. m \in Int /\ n \in Int /\ \A i \in m..n : s[i] \in S
    BY <1>1
  <1>3. /\ r \in Seq(S) /\ Len(r) = IF m <= n THEN n - m + 1 ELSE 0
        /\ \A i \in 1..n - m + 1 : r[i] = s[m + i - 1]
    BY <1>2, SubSeqProperties
  <1> HIDE DEF r
  <1>4. Len(r) = n - m + 1
    BY <1>2, <1>3
  <1>5. \A i \in 1..Len(r) : r[i] = s[m + i - 1] /\ m + i - 1 \in 1..Len(s)
    BY <1>1, <1>2, <1>3, <1>4
  <1> QED
    BY <1>3, <1>4, <1>5 DEF r

(* What a division leaves. *)
LEMMA Quotient ==
    ASSUME NEW a \in Nat \ {0}, NEW m \in Nat
    PROVE  /\ m \div a \in Nat /\ (m \div a) * a \in Nat
           /\ (m \div a) * a <= m /\ m < (m \div a) * a + a
           /\ m % a = 0 => m = (m \div a) * a
  <1>1. m \div a \in Nat
    OBVIOUS
  <1>2. (m \div a) * a <= m
    OBVIOUS
  <1>3. m < (m \div a) * a + a
    OBVIOUS
  <1>4. m % a = 0 => m = (m \div a) * a
    OBVIOUS
  <1>5. \A q \in Nat : q * a \in Nat
    OBVIOUS
  <1> QED
    BY <1>1, <1>2, <1>3, <1>4, <1>5

LEMMA Remainder ==
    ASSUME NEW a \in Nat \ {0}, NEW m \in Nat
    PROVE  m % a \in 0..a - 1
  OBVIOUS

(* The quotient is the only number of times that the divisor fits. *)
LEMMA QuotientIs ==
    ASSUME NEW b \in Nat \ {0}, NEW q \in Nat, NEW m \in Nat, q * b <= m, m < q * b + b
    PROVE  m \div b = q /\ m % b = m - q * b
  <1> DEFINE d == m \div b
  <1>1. d \in Nat /\ d * b <= m /\ m < d * b + b
    BY Quotient
  <1>2. d * b + (m % b) = m
    OBVIOUS
  <1> HIDE DEF d
  <1>3. ASSUME NEW x \in Nat, NEW y \in Nat, x < y PROVE x * b + b <= y * b /\ x * b \in Nat
    <2>1. PICK e \in Nat : y = x + 1 + e
      <3>1. y - x - 1 \in Nat /\ y = x + 1 + (y - x - 1)
        BY <1>3
      <3> QED
        BY <3>1
    <2>2. y * b = x * b + b + e * b /\ e * b \in Nat /\ x * b \in Nat
      BY <2>1
    <2> QED
      BY <2>2
  <1>4. ~(d < q)
    <2> SUFFICES ASSUME d < q PROVE FALSE
      OBVIOUS
    <2>1. d * b + b <= q * b /\ d * b \in Nat
      BY <1>1, <1>3
    <2>2. q * b \in Nat
      OBVIOUS
    <2> QED
      BY <1>1, <2>1, <2>2
  <1>5. ~(q < d)
    <2> SUFFICES ASSUME q < d PROVE FALSE
      OBVIOUS
    <2>1. q * b + b <= d * b /\ q * b \in Nat
      BY <1>1, <1>3
    <2>2. d * b \in Nat
      BY <1>1
    <2> QED
      BY <1>1, <2>1, <2>2
  <1>6. d = q
    BY <1>1, <1>4, <1>5
  <1>7. m % b = m - q * b
    <2>1. q * b \in Nat /\ (m % b) \in 0..b - 1
      BY Remainder
    <2> QED
      BY <1>2, <1>6, <2>1
  <1> QED
    BY <1>6, <1>7 DEF d

(* list_head_add: a new first entry.                                        *)
LEMMA ConsContains ==
    ASSUME NEW S, NEW q \in Seq(S), NEW e \in S
    PROVE  LET r == <<e>> \o q
           IN  /\ r \in Seq(S) /\ r # <<>> /\ Len(q) \in Nat /\ Len(r) = Len(q) + 1 /\ r[1] = e
               /\ \A i \in 1..Len(q) : r[i + 1] = q[i]
               /\ \A x : Contains(r, x) <=> Contains(q, x) \/ x = e
               /\ IsInjective(q) /\ ~Contains(q, e) => IsInjective(r)
  <1> DEFINE r == <<e>> \o q
  <1>1. Len(q) \in Nat
    OBVIOUS
  <1>2. /\ r \in Seq(S) /\ Len(r) = Len(q) + 1 /\ r[1] = e
        /\ \A i \in 1..Len(q) : r[i + 1] = q[i]
    <2>1. <<e>> \in Seq(S) /\ Len(<<e>>) = 1 /\ <<e>>[1] = e
      OBVIOUS
    <2>2. /\ r \in Seq(S) /\ Len(r) = 1 + Len(q)
          /\ \A i \in 1..1 + Len(q) : r[i] = IF i <= 1 THEN <<e>>[i] ELSE q[i - 1]
      BY <2>1, ConcatProperties
    <2> HIDE DEF r
    <2>3. r[1] = e
      BY <1>1, <2>1, <2>2
    <2>4. ASSUME NEW i \in 1..Len(q) PROVE r[i + 1] = q[i]
      <3>1. i + 1 \in 1..1 + Len(q) /\ ~(i + 1 <= 1) /\ (i + 1) - 1 = i
        BY <1>1
      <3> QED
        BY <2>2, <3>1
    <2> QED
      BY <1>1, <2>2, <2>3, <2>4
  <1> HIDE DEF r
  <1>3. /\ 1 \in 1..Len(r) /\ \A i \in 1..Len(q) : i + 1 \in 1..Len(r)
        /\ \A i \in 1..Len(r) : i = 1 \/ (i - 1 \in 1..Len(q) /\ r[i] = q[i - 1])
    <2>1. 1 \in 1..Len(r) /\ \A i \in 1..Len(q) : i + 1 \in 1..Len(r)
      BY <1>1, <1>2
    <2>2. ASSUME NEW i \in 1..Len(r), i # 1 PROVE i - 1 \in 1..Len(q) /\ r[i] = q[i - 1]
      <3>1. i - 1 \in 1..Len(q) /\ (i - 1) + 1 = i
        BY <1>1, <1>2, <2>2
      <3> QED
        BY <1>2, <3>1
    <2> QED
      BY <2>1, <2>2
  <1>4. \A x : Contains(r, x) <=> Contains(q, x) \/ x = e
    BY <1>2, <1>3 DEF Contains
  <1>5. ASSUME IsInjective(q), ~Contains(q, e) PROVE IsInjective(r)
    <2>1. /\ \A i, j \in 1..Len(q) : q[i] = q[j] => i = j
          /\ \A i \in 1..Len(q) : q[i] # e
      BY <1>5, LenProperties DEF IsInjective, Contains
    <2> SUFFICES ASSUME NEW i \in 1..Len(r), NEW j \in 1..Len(r), r[i] = r[j] PROVE i = j
      BY <1>2, LenProperties DEF IsInjective
    <2>2. CASE i = 1 \/ j = 1
      BY <1>2, <1>3, <2>1, <2>2
    <2>3. CASE i # 1 /\ j # 1
      <3>1. i - 1 = j - 1
        BY <1>3, <2>1, <2>3
      <3> QED
        BY <1>2, <3>1
    <2> QED
      BY <2>2, <2>3
  <1>6. r # <<>>
    BY <1>1, <1>2
  <1> QED
    BY <1>1, <1>2, <1>4, <1>5, <1>6 DEF r

(* What Append adds and Tail takes away, of a queue without duplicates.     *)
LEMMA AppendContains ==
    ASSUME NEW S, NEW q \in Seq(S), NEW e \in S
    PROVE  /\ \A x : Contains(Append(q, e), x) <=> Contains(q, x) \/ x = e
           /\ IsInjective(q) /\ ~Contains(q, e) => IsInjective(Append(q, e))
  <1> DEFINE r == Append(q, e)
  <1>1. /\ Len(q) \in Nat /\ Len(r) = Len(q) + 1 /\ r[Len(q) + 1] = e
        /\ \A i \in 1..Len(q) : r[i] = q[i]
        /\ DOMAIN r = 1..Len(r) /\ DOMAIN q = 1..Len(q)
    BY AppendPlaces, LenProperties
  <1> HIDE DEF r
  <1>2. \A i \in 1..Len(r) : (i \in 1..Len(q) /\ r[i] = q[i]) \/ (i = Len(q) + 1 /\ r[i] = e)
    BY <1>1
  <1>3. Len(q) + 1 \in 1..Len(r) /\ 1..Len(q) \subseteq 1..Len(r)
    BY <1>1
  <1>4. \A x : Contains(r, x) <=> Contains(q, x) \/ x = e
    BY <1>1, <1>2, <1>3 DEF Contains
  <1>5. IsInjective(q) /\ ~Contains(q, e) => IsInjective(r)
    BY <1>1, <1>2 DEF Contains, IsInjective
  <1> QED
    BY <1>4, <1>5 DEF r

LEMMA TailContains ==
    ASSUME NEW S, NEW q \in Seq(S), q # <<>>
    PROVE  /\ \A x : Contains(q, x) <=> Contains(Tail(q), x) \/ x = Head(q)
           /\ Contains(q, Head(q))
           /\ IsInjective(q) => IsInjective(Tail(q)) /\ ~Contains(Tail(q), Head(q))
  <1> DEFINE r == Tail(q)
  <1>1. /\ Len(q) \in Nat \ {0} /\ Len(r) = Len(q) - 1 /\ Head(q) = q[1]
        /\ \A i \in 1..Len(q) - 1 : r[i] = q[i + 1]
        /\ DOMAIN r = 1..Len(r) /\ DOMAIN q = 1..Len(q)
    BY TailPlaces, LenProperties
  <1> HIDE DEF r
  <1>2. \A i \in 1..Len(r) : i + 1 \in 1..Len(q) /\ r[i] = q[i + 1]
    BY <1>1
  <1>3. \A i \in 1..Len(q) : i # 1 => i - 1 \in 1..Len(r) /\ r[i - 1] = q[i]
    BY <1>1
  <1>4. \A x : Contains(q, x) <=> Contains(r, x) \/ x = Head(q)
    BY <1>1, <1>2, <1>3 DEF Contains
  <1>5. IsInjective(q) => IsInjective(r) /\ ~Contains(r, Head(q))
    <2> SUFFICES ASSUME IsInjective(q) PROVE  IsInjective(r) /\ ~Contains(r, Head(q))
      OBVIOUS
    <2>1. \A i, j \in 1..Len(q) : q[i] = q[j] => i = j
      BY <1>1 DEF IsInjective
    <2>2. ASSUME NEW i \in 1..Len(r), NEW j \in 1..Len(r), r[i] = r[j] PROVE i = j
      <3>1. i + 1 \in 1..Len(q) /\ j + 1 \in 1..Len(q) /\ q[i + 1] = q[j + 1]
        BY <1>2, <2>2
      <3> QED
        BY <2>1, <3>1
    <2>3. ASSUME NEW i \in 1..Len(r), r[i] = q[1] PROVE FALSE
      <3>1. i + 1 \in 1..Len(q) /\ q[i + 1] = q[1] /\ 1 \in 1..Len(q) /\ i \in Nat \ {0}
        BY <1>1, <1>2, <2>3
      <3>2. i + 1 = 1
        BY <2>1, <3>1
      <3> QED
        BY <3>1, <3>2
    <2> QED
      BY <1>1, <2>2, <2>3 DEF Contains, IsInjective
  <1> QED
    BY <1>4, <1>5 DEF r

-----------------------------------------------------------------------------
(* A set of numbers that is not empty has a smallest one, and Min is it. *)
LEMMA SmallestIsIn ==
    ASSUME NEW I \in SUBSET Nat, I # {}
    PROVE  Min(I) \in I /\ \A y \in I : Min(I) <= y
  <1> DEFINE R == OpToRel(<, Nat)
  <1>1. IsWellFoundedOn(R, Nat)
    BY NatLessThanWellFounded, Zenon
  <1>2. R = {ss \in Nat \X Nat : ss[1] < ss[2]}
    BY DEF OpToRel
  <1> HIDE DEF R
  <1>3. PICK x \in I : \A y \in I : ~(<<y, x>> \in R)
    BY <1>1, WFMin, Zenon
  <1>4. ASSUME NEW y \in I PROVE x <= y
    <2>1. x \in Nat /\ y \in Nat
      OBVIOUS
    <2>2. y < x => <<y, x>> \in R
      BY <1>2, <2>1
    <2> QED
      BY <1>3, <2>1, <2>2
  <1> QED
    BY <1>4 DEF Min

(* What the first entry has, and every entry hands on to the one behind it, *)
(* they all have.                                                           *)
LEMMA WalkReaches ==
    ASSUME NEW S, NEW list \in Seq(S), NEW T,
           list # <<>> => list[1] \in T,
           \A i \in 1..Len(list) - 1 : list[i] \in T => list[i + 1] \in T
    PROVE  \A i \in 1..Len(list) : list[i] \in T
  <1> DEFINE I == {i \in 1..Len(list) : list[i] \notin T}
  <1>1. Len(list) \in Nat /\ (list = <<>> <=> Len(list) = 0)
    OBVIOUS
  <1>2. ASSUME I # {} PROVE FALSE
    <2>1. PICK k \in I : \A y \in I : k <= y
      <3>1. I \in SUBSET Nat
        BY <1>1
      <3> QED
        BY <1>2, <3>1, SmallestIsIn
    <2>2. k \in 1..Len(list) /\ list[k] \notin T
      BY <2>1
    <2>3. CASE k = 1
      BY <1>1, <2>2, <2>3
    <2>4. CASE k # 1
      <3>1. k - 1 \in 1..Len(list) - 1 /\ k - 1 \in 1..Len(list) /\ ~(k <= k - 1) /\ (k - 1) + 1 = k
        BY <1>1, <2>2, <2>4
      <3>2. k - 1 \notin I
        BY <2>1, <3>1
      <3>3. list[k - 1] \in T
        BY <3>1, <3>2
      <3>4. list[(k - 1) + 1] \in T
        BY <3>1, <3>3
      <3> QED
        BY <2>2, <3>1, <3>4
    <2> QED
      BY <2>3, <2>4
  <1> QED
    BY <1>2

(* The first entries of a list are entries of it. *)
LEMMA FrontPlaces ==
    ASSUME NEW S, NEW list \in Seq(S), NEW n \in 0..Len(list)
    PROVE  LET r == SubSeq(list, 1, n)
           IN  /\ r \in Seq(S) /\ Len(r) = n /\ Len(list) \in Nat
               /\ \A i \in 1..n : i \in 1..Len(list) /\ r[i] = list[i]
               /\ \A x : Contains(r, x) => Contains(list, x)
               /\ IsInjective(list) => IsInjective(r)
  <1> DEFINE r == SubSeq(list, 1, n)
  <1>1. Len(list) \in Nat /\ n \in Nat /\ n <= Len(list)
    OBVIOUS
  <1>2. r \in Seq(S) /\ Len(r) = n /\ \A i \in 1..n : i \in 1..Len(list) /\ r[i] = list[i]
    BY <1>1, SubSeqProperties
  <1>3. DOMAIN r = 1..n /\ DOMAIN list = 1..Len(list)
    BY <1>2
  <1> HIDE DEF r
  <1>4. \A x : Contains(r, x) => Contains(list, x)
    BY <1>2, <1>3 DEF Contains
  <1>5. IsInjective(list) => IsInjective(r)
    BY <1>2, <1>3 DEF IsInjective
  <1> QED
    BY <1>1, <1>2, <1>4, <1>5 DEF r

(* A walk passes the entries before the first one in `stop`. *)
LEMMA PassedEntries ==
    ASSUME NEW S, NEW list \in Seq(S), NEW stop
    PROVE  /\ Passed(list, stop) \in 0..Len(list)
           /\ \A i \in 1..Passed(list, stop) : list[i] \notin stop
           /\ Passed(list, stop) < Len(list) => list[Passed(list, stop) + 1] \in stop
  <1> DEFINE I == {i \in 1..Len(list) : list[i] \in stop}
  <1>1. SelectInSeq(list, LAMBDA e : e \in stop) = IF I # {} THEN Min(I) ELSE 0
    BY DEF SelectInSeq
  <1>2. Len(list) \in Nat
    OBVIOUS
  <1>3. I \in SUBSET Nat
    OBVIOUS
  <1>4. \A i \in 1..Len(list) : i \in I <=> list[i] \in stop
    OBVIOUS
  <1>5. I \subseteq 1..Len(list)
    OBVIOUS
  <1> HIDE DEF I
  <1>6. I # {} => Min(I) \in I /\ \A y \in I : Min(I) <= y
    BY <1>3, SmallestIsIn
  <1>7. Passed(list, stop) = IF I # {} THEN Min(I) - 1 ELSE Len(list)
    BY <1>1, <1>5, <1>6 DEF Passed
  <1>8. CASE I # {}
    <2>1. Min(I) \in 1..Len(list) /\ list[Min(I)] \in stop
      BY <1>4, <1>5, <1>6, <1>8
    <2>2. ASSUME NEW i \in 1..Min(I) - 1 PROVE list[i] \notin stop
      <3>1. i \in 1..Len(list) /\ ~(Min(I) <= i)
        BY <1>2, <2>1
      <3> QED
        BY <1>4, <1>6, <1>8, <3>1
    <2> QED
      BY <1>2, <1>7, <1>8, <2>1, <2>2
  <1>9. CASE I = {}
    BY <1>2, <1>4, <1>7, <1>9
  <1> QED
    BY <1>8, <1>9

(* The new entry comes at the place of the first that is in `stop`. *)
LEMMA AddBeforePlaces ==
    ASSUME NEW S, NEW list \in Seq(S), NEW stop, NEW new \in S
    PROVE  LET r == AddBefore(list, stop, new)
               p == Passed(list, stop)
           IN  /\ r \in Seq(S) /\ Len(r) = Len(list) + 1
               /\ Len(list) \in Nat /\ p \in 0..Len(list)
               /\ \A i \in 1..p : i \in 1..Len(r) /\ r[i] = list[i]
               /\ p + 1 \in 1..Len(r) /\ r[p + 1] = new
               /\ \A i \in p + 1..Len(list) : i + 1 \in 1..Len(r) /\ r[i + 1] = list[i]
               /\ \A i \in 1..Len(r) : \/ i \in 1..p /\ r[i] = list[i]
                                       \/ i = p + 1 /\ r[i] = new
                                       \/ i - 1 \in p + 1..Len(list) /\ r[i] = list[i - 1]
  <1> DEFINE r == AddBefore(list, stop, new)
             p == Passed(list, stop)
             a == SubSeq(list, 1, p)
             b == SubSeq(list, p + 1, Len(list))
  <1>1. p \in 0..Len(list) /\ Len(list) \in Nat
    BY PassedEntries
  <1> HIDE DEF p
  <1>2. /\ a \in Seq(S) /\ Len(a) = p /\ \A i \in 1..p : a[i] = list[i]
    BY <1>1, SubSeqProperties
  <1>3. /\ b \in Seq(S) /\ Len(b) = Len(list) - p
        /\ \A i \in 1..Len(list) - p : b[i] = list[p + i]
    BY <1>1, SubSeqProperties
  <1>4. r = (a \o <<new>>) \o b
    <2>1. (p + 1) - 1 = p
      BY <1>1
    <2> QED
      BY <2>1 DEF AddBefore, InsertAt, p
  <1> HIDE DEF a, b, r
  <1>5. <<new>> \in Seq(S) /\ Len(<<new>>) = 1 /\ <<new>>[1] = new
    OBVIOUS
  <1> DEFINE c == a \o <<new>>
  <1>6. /\ c \in Seq(S) /\ Len(c) = p + 1 /\ c[p + 1] = new
        /\ \A i \in 1..p : c[i] = list[i]
    BY <1>1, <1>2, <1>5, ConcatProperties
  <1>7. r = c \o b
    BY <1>4
  <1> HIDE DEF c
  <1>8. /\ r \in Seq(S) /\ Len(r) = Len(list) + 1
        /\ \A i \in 1..Len(list) + 1 : r[i] = IF i <= p + 1 THEN c[i] ELSE b[i - (p + 1)]
    BY <1>1, <1>3, <1>6, <1>7, ConcatProperties
  <1>9. /\ \A i \in 1..p : i \in 1..Len(r) /\ r[i] = list[i]
        /\ p + 1 \in 1..Len(r) /\ r[p + 1] = new
        /\ \A i \in p + 1..Len(list) : i + 1 \in 1..Len(r) /\ r[i + 1] = list[i]
    <2>1. ASSUME NEW i \in p + 1..Len(list) PROVE i + 1 \in 1..Len(r) /\ r[i + 1] = list[i]
      <3>1. /\ i + 1 \in 1..Len(list) + 1 /\ ~(i + 1 <= p + 1)
            /\ (i + 1) - (p + 1) = i - p /\ i - p \in 1..Len(list) - p /\ p + (i - p) = i
        BY <1>1
      <3>2. r[i + 1] = b[i - p] /\ b[i - p] = list[i]
        BY <1>3, <1>8, <3>1
      <3> QED
        BY <1>8, <3>1, <3>2
    <2>2. ASSUME NEW i \in 1..p PROVE i \in 1..Len(r) /\ r[i] = list[i]
      BY <1>1, <1>6, <1>8
    <2>3. p + 1 \in 1..Len(r) /\ r[p + 1] = new
      BY <1>1, <1>6, <1>8
    <2> QED
      BY <2>1, <2>2, <2>3
  <1>10. ASSUME NEW i \in 1..Len(r)
         PROVE  \/ i \in 1..p /\ r[i] = list[i]
                \/ i = p + 1 /\ r[i] = new
                \/ i - 1 \in p + 1..Len(list) /\ r[i] = list[i - 1]
    <2>1. CASE i \in 1..p
      BY <1>9, <2>1
    <2>2. CASE i = p + 1
      BY <1>9, <2>2
    <2>3. CASE i \notin 1..p /\ i # p + 1
      <3>1. i - 1 \in p + 1..Len(list) /\ (i - 1) + 1 = i
        BY <1>1, <1>8, <2>3
      <3> QED
        BY <1>9, <3>1
    <2> QED
      BY <2>1, <2>2, <2>3
  <1> QED
    BY <1>1, <1>8, <1>9, <1>10 DEF r, p

(* The new entry is added and the others stay. *)
LEMMA AddBeforeContains ==
    ASSUME NEW S, NEW list \in Seq(S), NEW stop, NEW new \in S
    PROVE  /\ AddBefore(list, stop, new) \in Seq(S)
           /\ \A x : Contains(AddBefore(list, stop, new), x) <=> Contains(list, x) \/ x = new
           /\ IsInjective(list) /\ ~Contains(list, new) => IsInjective(AddBefore(list, stop, new))
  <1> DEFINE r == AddBefore(list, stop, new)
             p == Passed(list, stop)
  <1>1. /\ r \in Seq(S) /\ Len(r) = Len(list) + 1 /\ Len(list) \in Nat /\ p \in 0..Len(list)
        /\ \A i \in 1..p : i \in 1..Len(r) /\ r[i] = list[i]
        /\ p + 1 \in 1..Len(r) /\ r[p + 1] = new
        /\ \A i \in p + 1..Len(list) : i + 1 \in 1..Len(r) /\ r[i + 1] = list[i]
        /\ \A i \in 1..Len(r) : \/ i \in 1..p /\ r[i] = list[i]
                                \/ i = p + 1 /\ r[i] = new
                                \/ i - 1 \in p + 1..Len(list) /\ r[i] = list[i - 1]
    BY AddBeforePlaces
  <1> HIDE DEF p, r
  <1>2. DOMAIN r = 1..Len(r) /\ DOMAIN list = 1..Len(list)
    BY <1>1, LenProperties
  <1>3. 1..p \subseteq 1..Len(list) /\ p + 1..Len(list) \subseteq 1..Len(list)
         /\ \A i \in 1..Len(list) : i \in 1..p \/ i \in p + 1..Len(list)
    BY <1>1
  <1>4. ASSUME NEW x PROVE Contains(r, x) <=> Contains(list, x) \/ x = new
    <2>1. ASSUME NEW i \in 1..Len(r), r[i] = x PROVE Contains(list, x) \/ x = new
      BY <2>1, <1>1, <1>3 DEF Contains
    <2>2. ASSUME NEW i \in 1..Len(list), list[i] = x PROVE Contains(r, x)
      BY <2>2, <1>1, <1>3 DEF Contains
    <2>3. Contains(r, new)
      BY <1>1 DEF Contains
    <2> QED
      BY <2>1, <2>2, <2>3 DEF Contains
  <1>5. ASSUME IsInjective(list), ~Contains(list, new) PROVE IsInjective(r)
    <2>1. /\ \A i, j \in 1..Len(list) : list[i] = list[j] => i = j
          /\ \A i \in 1..Len(list) : list[i] # new
      BY <1>2, <1>5 DEF IsInjective, Contains
    <2> SUFFICES ASSUME NEW i \in 1..Len(r), NEW j \in 1..Len(r), r[i] = r[j] PROVE i = j
      BY <1>2 DEF IsInjective
    <2>2. CASE i = p + 1 \/ j = p + 1
      <3>1. ASSUME NEW m \in 1..Len(r), m # p + 1 PROVE r[m] # new
        BY ZenonT(60), <2>1, <3>1, <1>1, <1>3, m - 1 \in 1..Len(list) \/ m \in 1..p
      <3> QED
        BY <2>2, <3>1, <1>1
    <2>3. CASE i \in 1..p /\ j \in 1..p
      BY <2>1, <2>3, <1>1, <1>3
    <2>4. CASE i \in 1..p /\ j - 1 \in p + 1..Len(list) /\ r[j] = list[j - 1]
      <3>1. i = j - 1
        BY <2>1, <2>4, <1>1, <1>3
      <3> QED
        BY <3>1, <2>4, <1>1
    <2>5. CASE j \in 1..p /\ i - 1 \in p + 1..Len(list) /\ r[i] = list[i - 1]
      <3>1. j = i - 1
        BY <2>1, <2>5, <1>1, <1>3
      <3> QED
        BY <3>1, <2>5, <1>1
    <2>6. CASE /\ j - 1 \in p + 1..Len(list) /\ r[j] = list[j - 1]
               /\ i - 1 \in p + 1..Len(list) /\ r[i] = list[i - 1]
      <3>1. i - 1 = j - 1
        BY <2>1, <2>6, <1>3
      <3> QED
        BY <3>1, <1>1
    <2> QED
      BY <2>2, <2>3, <2>4, <2>5, <2>6, <1>1
  <1> QED
    BY <1>1, <1>4, <1>5 DEF r

(* The entries before the break and the rest share out the list. *)
LEMMA CutContains ==
    ASSUME NEW S, NEW list \in Seq(S), NEW stop
    PROVE  /\ FirstOnes(list, stop) \in Seq(S) /\ Rest(list, stop) \in Seq(S)
           /\ \A x : Contains(list, x) <=> Contains(FirstOnes(list, stop), x)
                                            \/ Contains(Rest(list, stop), x)
           /\ \A x : x \in ToSet(FirstOnes(list, stop)) <=> Contains(FirstOnes(list, stop), x)
           /\ IsInjective(list) =>
                 /\ IsInjective(FirstOnes(list, stop)) /\ IsInjective(Rest(list, stop))
                 /\ \A x : ~(Contains(FirstOnes(list, stop), x) /\ Contains(Rest(list, stop), x))
  <1> DEFINE p == Passed(list, stop)
             a == FirstOnes(list, stop)
             b == Rest(list, stop)
  <1>1. p \in 0..Len(list) /\ Len(list) \in Nat
    BY PassedEntries
  <1> HIDE DEF p
  <1>2. /\ a \in Seq(S) /\ Len(a) = p /\ \A i \in 1..p : a[i] = list[i]
    BY <1>1, SubSeqProperties DEF FirstOnes, p
  <1>3. /\ b \in Seq(S) /\ Len(b) = Len(list) - p
        /\ \A i \in 1..Len(list) - p : b[i] = list[p + i]
    BY <1>1, SubSeqProperties DEF Rest, p
  <1> HIDE DEF a, b
  <1>4. DOMAIN a = 1..p /\ DOMAIN b = 1..Len(list) - p /\ DOMAIN list = 1..Len(list)
    BY <1>2, <1>3, LenProperties
  <1>5. \A i \in 1..Len(list) : \/ i \in 1..p /\ list[i] = a[i]
                                \/ i - p \in 1..Len(list) - p /\ list[i] = b[i - p]
    BY <1>1, <1>2, <1>3
  <1>6. \A i \in 1..Len(list) - p : p + i \in 1..Len(list)
    BY <1>1
  <1>7. ASSUME NEW x PROVE Contains(list, x) <=> Contains(a, x) \/ Contains(b, x)
    <2>1. ASSUME NEW i \in 1..Len(list), list[i] = x PROVE Contains(a, x) \/ Contains(b, x)
      BY <2>1, <1>2, <1>3, <1>5 DEF Contains
    <2>2. ASSUME NEW i \in 1..p, a[i] = x PROVE Contains(list, x)
      BY <2>2, <1>1, <1>2 DEF Contains
    <2>3. ASSUME NEW i \in 1..Len(list) - p, b[i] = x PROVE Contains(list, x)
      BY <2>3, <1>3, <1>6 DEF Contains
    <2> QED
      BY <2>1, <2>2, <2>3, <1>2, <1>3 DEF Contains
  <1>8. \A x : x \in ToSet(a) <=> Contains(a, x)
    BY <1>2, <1>4 DEF Contains, ToSet
  <1>9. IsInjective(list) =>
            /\ IsInjective(a) /\ IsInjective(b)
            /\ \A x : ~(Contains(a, x) /\ Contains(b, x))
    <2> SUFFICES ASSUME \A i, j \in 1..Len(list) : list[i] = list[j] => i = j
                 PROVE  /\ IsInjective(a) /\ IsInjective(b)
                        /\ \A x : ~(Contains(a, x) /\ Contains(b, x))
      BY <1>4 DEF IsInjective
    <2>1. ASSUME NEW i \in 1..p, NEW j \in 1..p, a[i] = a[j] PROVE i = j
      BY <2>1, <1>1, <1>2
    <2>2. ASSUME NEW i \in 1..Len(list) - p, NEW j \in 1..Len(list) - p, b[i] = b[j] PROVE i = j
      <3>1. p + i = p + j
        BY <2>2, <1>3, <1>6
      <3> QED
        BY <3>1, <1>1
    <2>3. ASSUME NEW i \in 1..p, NEW j \in 1..Len(list) - p, a[i] = b[j] PROVE FALSE
      <3>1. i = p + j
        <4>1. list[i] = a[i] /\ list[p + j] = b[j] /\ p + j \in 1..Len(list)
          BY <1>2, <1>3, <1>6
        <4>2. i \in 1..Len(list)
          BY <1>1
        <4> QED
          BY <2>3, <4>1, <4>2
      <3> QED
        BY <3>1, <1>1
    <2> QED
      BY <2>1, <2>2, <2>3, <1>2, <1>3, <1>4 DEF Contains, IsInjective
  <1> QED
    BY <1>2, <1>3, <1>7, <1>8, <1>9 DEF a, b

(* The entry at place n is taken off, and those behind it move up. *)
LEMMA RemoveAtPlaces ==
    ASSUME NEW S, NEW list \in Seq(S), NEW n \in 1..Len(list)
    PROVE  LET r == RemoveAt(list, n)
           IN  /\ r \in Seq(S) /\ Len(r) = Len(list) - 1 /\ Len(list) \in Nat
               /\ \A i \in 1..n - 1 : i \in 1..Len(r) /\ r[i] = list[i]
               /\ \A i \in n + 1..Len(list) : i - 1 \in 1..Len(r) /\ r[i - 1] = list[i]
               /\ \A i \in 1..Len(r) : \/ i \in 1..n - 1 /\ r[i] = list[i]
                                       \/ i + 1 \in n + 1..Len(list) /\ r[i] = list[i + 1]
  <1> DEFINE r == RemoveAt(list, n)
  <1>1. Len(list) \in Nat /\ n \in Int /\ 1 <= n /\ n <= Len(list)
    BY LenProperties
  <1> DEFINE a == SubSeq(list, 1, n - 1)
             b == SubSeq(list, n + 1, Len(list))
  <1>2. /\ a \in Seq(S) /\ Len(a) = n - 1 /\ \A i \in 1..n - 1 : a[i] = list[i]
    BY <1>1, SubSeqProperties
  <1>3. /\ b \in Seq(S) /\ Len(b) = Len(list) - n
        /\ \A i \in 1..Len(list) - n : b[i] = list[n + i]
    <2>1. \A i \in n + 1..Len(list) : list[i] \in S
      BY <1>1
    <2>2. n + 1 \in Int /\ Len(list) \in Int /\ Len(list) - (n + 1) + 1 = Len(list) - n
      BY <1>1
    <2>3. /\ b \in Seq(S) /\ Len(b) = IF n + 1 <= Len(list) THEN Len(list) - (n + 1) + 1 ELSE 0
          /\ \A i \in 1..Len(list) - (n + 1) + 1 : b[i] = list[n + 1 + i - 1]
      BY <2>1, <2>2, SubSeqProperties
    <2>4. \A i \in 1..Len(list) - n : n + 1 + i - 1 = n + i
      BY <1>1
    <2>5. Len(b) = Len(list) - n
      BY <1>1, <2>3
    <2>6. ASSUME NEW i \in 1..Len(list) - n PROVE b[i] = list[n + i]
      BY <2>2, <2>3, <2>4
    <2> QED
      BY <2>3, <2>5, <2>6
  <1> HIDE DEF a, b, r
  <1>4. /\ r \in Seq(S) /\ Len(r) = Len(list) - 1
        /\ \A i \in 1..Len(list) - 1 : r[i] = IF i <= n - 1 THEN a[i] ELSE b[i - (n - 1)]
    <2>1. r = a \o b
      BY DEF RemoveAt, r, a, b
    <2>2. (n - 1) + (Len(list) - n) = Len(list) - 1
      BY <1>1
    <2>3. /\ r \in Seq(S) /\ Len(r) = Len(a) + Len(b)
          /\ \A i \in 1..Len(a) + Len(b) : r[i] = IF i <= Len(a) THEN a[i] ELSE b[i - Len(a)]
      BY <1>2, <1>3, <2>1, ConcatProperties
    <2>4. Len(a) = n - 1 /\ Len(a) + Len(b) = Len(list) - 1
      BY <1>2, <1>3, <2>2
    <2> QED
      BY <2>3, <2>4
  <1>5. /\ \A i \in 1..n - 1 : i \in 1..Len(r) /\ r[i] = list[i]
        /\ \A i \in n + 1..Len(list) : i - 1 \in 1..Len(r) /\ r[i - 1] = list[i]
    <2>1. ASSUME NEW i \in 1..n - 1 PROVE i \in 1..Len(r) /\ r[i] = list[i]
      BY <1>1, <1>2, <1>4
    <2>2. ASSUME NEW i \in n + 1..Len(list) PROVE i - 1 \in 1..Len(r) /\ r[i - 1] = list[i]
      <3>1. /\ i - 1 \in 1..Len(list) - 1 /\ ~(i - 1 <= n - 1)
            /\ (i - 1) - (n - 1) = i - n /\ i - n \in 1..Len(list) - n /\ n + (i - n) = i
        BY <1>1
      <3>2. r[i - 1] = b[i - n] /\ b[i - n] = list[i]
        BY <1>3, <1>4, <3>1
      <3> QED
        BY <1>4, <3>1, <3>2
    <2> QED
      BY <2>1, <2>2
  <1>6. ASSUME NEW i \in 1..Len(r)
         PROVE  \/ i \in 1..n - 1 /\ r[i] = list[i]
                \/ i + 1 \in n + 1..Len(list) /\ r[i] = list[i + 1]
    <2>1. CASE i \in 1..n - 1
      BY <1>5, <2>1
    <2>2. CASE i \notin 1..n - 1
      <3>1. i + 1 \in n + 1..Len(list) /\ (i + 1) - 1 = i
        BY <1>1, <1>4, <2>2
      <3> QED
        BY <1>5, <3>1
    <2> QED
      BY <2>1, <2>2
  <1> QED
    BY <1>1, <1>4, <1>5, <1>6 DEF r

LEMMA DelPlaces ==
    ASSUME NEW S, NEW list \in Seq(S), IsInjective(list), NEW n \in 1..Len(list)
    PROVE  LET r == Del(list, list[n])
           IN  /\ r \in Seq(S) /\ Len(r) = Len(list) - 1 /\ Len(list) \in Nat
               /\ \A i \in 1..n - 1 : i \in 1..Len(r) /\ r[i] = list[i]
               /\ \A i \in n + 1..Len(list) : i - 1 \in 1..Len(r) /\ r[i - 1] = list[i]
               /\ \A i \in 1..Len(r) : \/ i \in 1..n - 1 /\ r[i] = list[i]
                                       \/ i + 1 \in n + 1..Len(list) /\ r[i] = list[i + 1]
  <1> DEFINE I == {i \in 1..Len(list) : list[i] = list[n]}
  <1>1. SelectInSeq(list, LAMBDA v : v = list[n]) = IF I # {} THEN Min(I) ELSE 0
    BY DEF SelectInSeq
  <1>2. I = {n}
    BY LenProperties DEF IsInjective
  <1>3. Min({n}) = n
    <2>1. {n} \in SUBSET Nat /\ {n} # {}
      BY LenProperties
    <2>2. Min({n}) \in {n}
      BY <2>1, SmallestIsIn
    <2> QED
      BY <2>2
  <1>4. SelectInSeq(list, LAMBDA v : v = list[n]) = n
    BY <1>1, <1>2, <1>3
  <1>5. Del(list, list[n]) = RemoveAt(list, n)
    BY <1>4 DEF Del, RemoveFirst, Contains
  <1> QED
    BY <1>5, RemoveAtPlaces

(* The entry is taken off and the others stay. *)
LEMMA DelContains ==
    ASSUME NEW S, NEW list \in Seq(S), NEW e, IsInjective(list)
    PROVE  /\ Del(list, e) \in Seq(S)
           /\ IsInjective(Del(list, e))
           /\ \A x : Contains(Del(list, e), x) <=> Contains(list, x) /\ x # e
  <1> DEFINE r == Del(list, e)
  <1>1. Len(list) \in Nat /\ DOMAIN list = 1..Len(list)
    BY LenProperties
  <1>2. CASE ~Contains(list, e)
    <2>1. r = list
      BY <1>2 DEF Del, RemoveFirst, Contains
    <2> QED
      BY <1>2, <2>1
  <1>3. CASE Contains(list, e)
    <2>1. PICK n \in 1..Len(list) : list[n] = e
      BY <1>3 DEF Contains
    <2>2. /\ r \in Seq(S) /\ Len(r) = Len(list) - 1
          /\ \A i \in 1..n - 1 : i \in 1..Len(r) /\ r[i] = list[i]
          /\ \A i \in n + 1..Len(list) : i - 1 \in 1..Len(r) /\ r[i - 1] = list[i]
          /\ \A i \in 1..Len(r) : \/ i \in 1..n - 1 /\ r[i] = list[i]
                                  \/ i + 1 \in n + 1..Len(list) /\ r[i] = list[i + 1]
      BY ZenonT(60), <2>1, DelPlaces
    <2> HIDE DEF r
    <2>3. /\ 1..n - 1 \subseteq 1..Len(list) /\ n + 1..Len(list) \subseteq 1..Len(list)
           /\ n \notin 1..n - 1 /\ n \notin n + 1..Len(list)
           /\ \A i \in 1..Len(list) : i = n \/ i \in 1..n - 1 \/ i \in n + 1..Len(list)
      BY <1>1
    <2>4. \A i, j \in 1..Len(list) : list[i] = list[j] => i = j
      BY <1>1 DEF IsInjective
    <2>5. IsInjective(r)
      <3> SUFFICES ASSUME NEW i \in 1..Len(r), NEW j \in 1..Len(r), r[i] = r[j] PROVE i = j
        BY <2>2, LenProperties DEF IsInjective
      <3>1. CASE i \in 1..n - 1 /\ j \in 1..n - 1
        BY <3>1, <2>2, <2>3, <2>4
      <3>2. CASE i \in 1..n - 1 /\ j + 1 \in n + 1..Len(list) /\ r[j] = list[j + 1]
        <4>1. i = j + 1
          BY <3>2, <2>2, <2>3, <2>4
        <4> QED
          BY <4>1, <3>2, <1>1
      <3>3. CASE j \in 1..n - 1 /\ i + 1 \in n + 1..Len(list) /\ r[i] = list[i + 1]
        <4>1. j = i + 1
          BY <3>3, <2>2, <2>3, <2>4
        <4> QED
          BY <4>1, <3>3, <1>1
      <3>4. CASE /\ i + 1 \in n + 1..Len(list) /\ r[i] = list[i + 1]
                 /\ j + 1 \in n + 1..Len(list) /\ r[j] = list[j + 1]
        <4>1. i + 1 = j + 1
          BY <3>4, <2>3, <2>4
        <4> QED
          BY <4>1, <2>2
      <3> QED
        BY <3>1, <3>2, <3>3, <3>4, <2>2
    <2>6. ASSUME NEW x PROVE Contains(r, x) <=> Contains(list, x) /\ x # e
      <3>1. ASSUME NEW i \in 1..Len(r), r[i] = x PROVE Contains(list, x) /\ x # e
        BY <3>1, <2>1, <2>2, <2>3, <2>4 DEF Contains
      <3>2. ASSUME NEW i \in 1..Len(list), list[i] = x, x # e PROVE Contains(r, x)
        BY <3>2, <2>1, <2>2, <2>3 DEF Contains
      <3> QED
        BY <3>1, <3>2 DEF Contains
    <2> QED
      BY <2>2, <2>5, <2>6 DEF r
  <1> QED
    BY <1>2, <1>3

(* Neither an Append nor a Del turns the order of the entries round. *)
LEMMA AppendBefore ==
    ASSUME NEW S, NEW q \in Seq(S), NEW e \in S
    PROVE  /\ \A x, y : Before(q, x, y) => Before(Append(q, e), x, y)
           /\ \A x : Contains(q, x) => Before(Append(q, e), x, e)
  <1> DEFINE r == Append(q, e)
  <1>1. /\ Len(q) \in Nat /\ Len(r) = Len(q) + 1 /\ r[Len(q) + 1] = e
        /\ \A i \in 1..Len(q) : r[i] = q[i]
    BY QueuePlaces, AppendPlaces
  <1> HIDE DEF r
  <1>2. /\ 1..Len(q) \subseteq 1..Len(r) /\ Len(q) + 1 \in 1..Len(r)
        /\ \A i \in 1..Len(q) : i < Len(q) + 1
    BY <1>1
  <1>3. \A x, y : Before(q, x, y) => Before(r, x, y)
    BY <1>1, <1>2 DEF Before
  <1>4. \A x : Contains(q, x) => Before(r, x, e)
    BY <1>1, <1>2 DEF Before, Contains
  <1> QED
    BY <1>3, <1>4 DEF r

LEMMA DelBefore ==
    ASSUME NEW S, NEW list \in Seq(S), NEW e, IsInjective(list),
           NEW x, NEW y, Before(list, x, y), x # e, y # e
    PROVE  Before(Del(list, e), x, y)
  <1> DEFINE r == Del(list, e)
  <1>1. CASE ~Contains(list, e)
    <2>1. r = list
      BY <1>1 DEF Del, RemoveFirst, Contains
    <2> QED
      BY <2>1
  <1>2. CASE Contains(list, e)
    <2>1. PICK n \in 1..Len(list) : list[n] = e
      BY <1>2 DEF Contains
    <2>2. PICK j \in 1..Len(list), k \in 1..Len(list) : j < k /\ list[j] = x /\ list[k] = y
      BY DEF Before
    <2>3. /\ Len(list) \in Nat
          /\ \A i \in 1..n - 1 : i \in 1..Len(r) /\ r[i] = list[i]
          /\ \A i \in n + 1..Len(list) : i - 1 \in 1..Len(r) /\ r[i - 1] = list[i]
      BY <2>1, DelPlaces
    <2> HIDE DEF r
    <2>4. j # n /\ k # n
      BY <2>1, <2>2
    <2>5. CASE k < n
      <3>1. j \in 1..n - 1 /\ k \in 1..n - 1
        BY <2>2, <2>3, <2>5
      <3> QED
        BY <2>2, <2>3, <3>1 DEF Before, r
    <2>6. CASE j < n /\ n < k
      <3>1. j \in 1..n - 1 /\ k \in n + 1..Len(list) /\ j < k - 1
        BY <2>2, <2>3, <2>6
      <3> QED
        BY <2>2, <2>3, <3>1 DEF Before, r
    <2>7. CASE n < j
      <3>1. j \in n + 1..Len(list) /\ k \in n + 1..Len(list) /\ j - 1 < k - 1
        BY <2>2, <2>3, <2>7
      <3> QED
        BY <2>2, <2>3, <3>1 DEF Before, r
    <2> QED
      BY <2>2, <2>4, <2>5, <2>6, <2>7
  <1> QED
    BY <1>1, <1>2
=============================================================================
