--------------------------------- MODULE ListSort -------------------------------
(***************************************************************************)
(* list_sort of src/list_head.c: a merge sort that works on the links of a *)
(* circular list, on lists made with the functions of                      *)
(* include/list_generic.h.  One action per pass, per search for the second *)
(* run of a merge, and per node that is taken from the two runs.           *)
(***************************************************************************)
EXTENDS Integers, Sequences, SequencesExt

CONSTANTS
    Key,        \* what cmp compares
    MaxNodes,   \* bound on the nodes
    NULL

(* What a user of the module owes it. *)
ListSortAssumption == Key \subseteq Int /\ MaxNodes \in Nat /\ NULL \notin 0..MaxNodes

head == 0                   \* nodes are numbers from 1
Node == 0..MaxNodes

VARIABLES
    next, prev, key,        \* links of the head and of the nodes, keys of the nodes
    sort_pc, p, q, list, tail, oldhead, insize, nmerges, psize, qsize,   \* of list_sort
    order,                  \* history: the list as it was before it was last sorted
    sorted                  \* history: nothing was added since

locals == <<p, q, list, tail, oldhead, insize, nmerges, psize, qsize>>
sortVars == <<next, prev, key, sort_pc, locals, order, sorted>>

SortInit ==
    /\ next = [n \in Node |-> n] /\ prev = [n \in Node |-> n]
    /\ key = <<>>
    /\ sort_pc = "idle"
    /\ p = NULL /\ q = NULL /\ list = NULL /\ tail = NULL /\ oldhead = NULL
    /\ insize = 0 /\ nmerges = 0 /\ psize = 0 /\ qsize = 0
    /\ order = <<>> /\ sorted = FALSE

(* The first m nodes along the links f from the head, and all of them. *)
Walk(f, m) ==
    LET n[i \in 0..m] == IF i = 0 THEN head ELSE f[n[i - 1]]
    IN [i \in 1..m |-> n[i]]
Along(f) == Walk(f, Len(key))

(* __list_add of the next node with key k, between a and b. *)
Add(k, a, b) ==
    LET new == Len(key) + 1
    IN /\ new <= MaxNodes
       /\ next' = [next EXCEPT ![new] = b, ![a] = new]
       /\ prev' = [prev EXCEPT ![b] = new, ![new] = a]
       /\ key' = Append(key, k)

list_head_add(k) ==
    /\ sort_pc = "idle" /\ Add(k, head, next[head])
    /\ sorted' = FALSE
    /\ UNCHANGED <<sort_pc, locals, order>>

list_add_tail(k) ==
    /\ sort_pc = "idle" /\ Add(k, prev[head], head)
    /\ sorted' = FALSE
    /\ UNCHANGED <<sort_pc, locals, order>>

--------------------------------------------------------------------------------
(* list_sort begins: list_head_del takes the head out of the circle.            *)
list_sort ==
    /\ sort_pc = "idle"
    /\ list' = next[head]
    /\ next' = [next EXCEPT ![prev[head]] = next[head], ![head] = head]
    /\ prev' = [prev EXCEPT ![next[head]] = prev[head], ![head] = head]
    /\ order' = Along(next) /\ sorted' = TRUE
    /\ insize' = 1
    /\ sort_pc' = "pass"
    /\ UNCHANGED <<key, p, q, tail, oldhead, nmerges, psize, qsize>>

Pass ==
    /\ sort_pc = "pass"
    /\ p' = list /\ oldhead' = list
    /\ list' = NULL /\ tail' = NULL
    /\ nmerges' = 0
    /\ sort_pc' = "merge"
    /\ UNCHANGED <<next, prev, key, order, sorted, q, insize, psize, qsize>>

(* q goes insize nodes on from p, or to the end of the circle. *)
Step(at) ==
    IF at.q = NULL THEN at
    ELSE [psize |-> at.psize + 1,
          q |-> IF next[at.q] = oldhead THEN NULL ELSE next[at.q]]
Search ==
    LET at[i \in 0..insize] == IF i = 0 THEN [psize |-> 0, q |-> p] ELSE Step(at[i - 1])
    IN at[insize]

Merge ==
    /\ sort_pc = "merge" /\ p # NULL
    /\ nmerges' = nmerges + 1
    /\ q' = Search.q /\ psize' = Search.psize
    /\ qsize' = insize
    /\ sort_pc' = "take"
    /\ UNCHANGED <<next, prev, key, order, sorted, p, list, tail, oldhead, insize>>

(* Mutant: equal keys are taken from the second run first. *)
Smaller(a, b) == key[a] < key[b]

(* Whether a node of the first run goes before one of the second: cmp(p, q) <= 0 *)
NotGreater(a, b) == key[a] <= key[b]

FromQ == psize = 0 \/ (qsize # 0 /\ q # NULL /\ ~NotGreater(p, q))

Take ==
    /\ sort_pc = "take" /\ (psize > 0 \/ (qsize > 0 /\ q # NULL))
    /\ LET e == IF FromQ THEN q ELSE p
       IN /\ IF FromQ
             THEN /\ q' = IF next[q] = oldhead THEN NULL ELSE next[q]
                  /\ qsize' = qsize - 1
                  /\ UNCHANGED <<p, psize>>
             ELSE p' = next[p] /\ psize' = psize - 1 /\ UNCHANGED <<q, qsize>>
          /\ IF tail # NULL
             THEN next' = [next EXCEPT ![tail] = e] /\ UNCHANGED list
             ELSE list' = e /\ UNCHANGED next
          /\ prev' = [prev EXCEPT ![e] = tail]
          /\ tail' = e
    /\ UNCHANGED <<key, order, sorted, sort_pc, oldhead, insize, nmerges>>

Merged ==
    /\ sort_pc = "take" /\ ~(psize > 0 \/ (qsize > 0 /\ q # NULL))
    /\ p' = q
    /\ sort_pc' = "merge"
    /\ UNCHANGED <<next, prev, key, order, sorted, q, list, tail, oldhead, insize, nmerges, psize, qsize>>

(* The circle is closed; after a pass with one merge the head comes back.       *)
PassEnds ==
    /\ sort_pc = "merge" /\ p = NULL
    /\ LET n == [next EXCEPT ![tail] = list]
           r == [prev EXCEPT ![list] = tail]
       IN IF nmerges <= 1
          THEN /\ next' = [n EXCEPT ![head] = list, ![r[list]] = head]
               /\ prev' = [r EXCEPT ![head] = r[list], ![list] = head]
               /\ sort_pc' = "idle" /\ UNCHANGED insize
          ELSE next' = n /\ prev' = r /\ insize' = insize * 2 /\ sort_pc' = "pass"
    /\ UNCHANGED <<key, order, sorted, p, q, list, tail, oldhead, nmerges, psize, qsize>>

SortNext ==
    \/ \E k \in Key : list_head_add(k) \/ list_add_tail(k)
    \/ list_sort \/ Pass \/ Merge \/ Take \/ Merged \/ PassEnds

SortSpec == SortInit /\ [][SortNext]_sortVars

--------------------------------------------------------------------------------
(* When no call is in progress, the links lead along the nodes, forward and     *)
(* back; and list_sort has left them sorted and, among equal keys, in the order *)
(* that they had, whatever the length of the list is, the empty one included.   *)
Circle ==
    /\ next[IF key = <<>> THEN head ELSE Last(Along(next))] = head
    /\ Along(prev) = Reverse(Along(next))
PlaceOf(n) == SelectInSeq(order, LAMBDA m : m = n)
SortedStably ==
    sort_pc = "idle" =>
        LET now == Along(next)
        IN /\ Circle /\ ToSet(now) = 1..Len(key)
           /\ sorted => \A i, j \in DOMAIN now :
                            i < j => \/ key[now[i]] < key[now[j]]
                                     \/ key[now[i]] = key[now[j]] /\ PlaceOf(now[i]) < PlaceOf(now[j])

(* What explains it: the nodes in some order, which the links lead along but at  *)
(* the joints; a merge only turns that order where a key is smaller.             *)
Count == IF key = <<>> THEN 1 ELSE Len(key)     \* an empty list leaves the head to sort
Sorting == IF key = <<>> THEN {head} ELSE 1..Len(key)
Arranged(t, places, nodes) ==
    /\ t \in [places -> nodes]
    /\ \A i, j \in places : t[i] = t[j] => i = j
    /\ \A n \in nodes : \E i \in places : t[i] = n

Stable(t) == \A i, j \in 1..Count : i < j /\ key[t[i]] = key[t[j]] => PlaceOf(t[i]) < PlaceOf(t[j])

(* The places from a to b are sorted, those behind a up to b in runs of m. *)
Rising(t, a, b) == \A i, j \in a..b : i < j => key[t[i]] <= key[t[j]]
InRuns(t, a, b, m) ==
    \A i, j \in a..b : i < j /\ (i - 1) \div m = (j - 1) \div m => key[t[i]] <= key[t[j]]

SortTypeOK ==
    /\ key \in Seq(Key) /\ Len(key) <= MaxNodes
    /\ next \in [Node -> Node] /\ prev \in [Node -> Node \cup {NULL}]
    /\ sort_pc \in {"idle", "pass", "merge", "take"}
    /\ {p, q, list, tail, oldhead} \subseteq Node \cup {NULL}
    /\ insize \in Nat /\ nmerges \in Nat /\ psize \in Nat /\ qsize \in Nat
    /\ sorted \in BOOLEAN

(* Between calls: c goes round from the head. *)
IdleAt(c) ==
    LET n == Len(key) IN
    /\ Arranged(c, 0..n, 0..n) /\ c[0] = head
    /\ \A i \in 0..n : /\ next[c[i]] = c[IF i = n THEN 0 ELSE i + 1]
                       /\ prev[c[i]] = c[IF i = 0 THEN n ELSE i - 1]
    /\ sorted => /\ Rising(c, 1, n)
                 /\ \A i, j \in 1..n : i < j /\ key[c[i]] = key[c[j]] => PlaceOf(c[i]) < PlaceOf(c[j])

(* Before a pass: t goes round from list, in runs of insize. *)
PassAt(t) ==
    /\ Arranged(t, 1..Count, Sorting) /\ Stable(t)
    /\ list = t[1] /\ insize > 0
    /\ \A i \in 1..Count : next[t[i]] = t[IF i = Count THEN 1 ELSE i + 1]
    /\ InRuns(t, 1, Count, insize)

(* In a pass: the d nodes that list leads along to tail, then those that are     *)
(* still linked as the pass before left them, the first run up to `mid` and the  *)
(* others behind it.                                                             *)
LinkedAt(t, d, mid) ==
    /\ Arranged(t, 1..Count, Sorting) /\ Stable(t) /\ insize > 0
    /\ d \in 0..Count /\ mid \in d..Count
    /\ IF d = 0 THEN list = NULL /\ tail = NULL ELSE list = t[1] /\ tail = t[d]
    /\ \A i \in 1..Count - 1 : i # d /\ i # mid => next[t[i]] = t[i + 1]
    /\ mid < Count => next[t[Count]] = oldhead
    /\ \A i \in 2..Count : i <= d => prev[t[i]] = t[i - 1]
    /\ \A i \in 2..Count : i > mid => t[i] # oldhead

MergeAt(t, d) ==
    /\ LinkedAt(t, d, d)
    /\ p = IF d < Count THEN t[d + 1] ELSE NULL
    /\ d = IF nmerges * (2 * insize) < Count THEN nmerges * (2 * insize) ELSE Count
    /\ nmerges > 0 => (nmerges - 1) * (2 * insize) < Count
    /\ InRuns(t, 1, d, 2 * insize) /\ InRuns(t, d + 1, Count, insize)

(* A merge of the runs behind place c, which end at e. *)
TakeAt(t, d) ==
    LET c == (nmerges - 1) * (2 * insize)
        mid == d + psize
        e == IF c + 2 * insize < Count THEN c + 2 * insize ELSE Count
    IN /\ LinkedAt(t, d, mid) /\ nmerges > 0 /\ c < Count /\ c <= d /\ mid <= e
       /\ psize > 0 => p = t[d + 1]
       /\ q = IF mid < Count THEN t[mid + 1] ELSE NULL
       /\ mid = Count \/ mid + qsize = c + 2 * insize
       /\ InRuns(t, 1, c, 2 * insize) /\ InRuns(t, e + 1, Count, insize)
       /\ \A i, j \in c + 1..e : i < j /\ (i <= d \/ j <= mid \/ i > mid) => key[t[i]] <= key[t[j]]

Orders == [1..Count -> Sorting]
SortInv ==
    /\ SortTypeOK
    /\ sort_pc = "idle" => \E c \in [0..Len(key) -> 0..Len(key)] : IdleAt(c)
    /\ sort_pc = "pass" => \E t \in Orders : PassAt(t)
    /\ sort_pc = "merge" => \E t \in Orders, d \in 0..Count : MergeAt(t, d)
    /\ sort_pc = "take" => \E t \in Orders, d \in 0..Count : TakeAt(t, d)
================================================================================
