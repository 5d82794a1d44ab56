---------------------------------- MODULE Trie ----------------------------------
(***************************************************************************)
(* The domain trie of src/trie.c: a tree of labels, the top-level label    *)
(* first; the label "*" stands for any rest of a name.  A node is named by *)
(* its path from the root, and keeps its children in the order in which    *)
(* they were created (src/arr.c).                                          *)
(***************************************************************************)
EXTENDS Sequences, SequencesExt, Naturals, Functions

CONSTANTS
    Label,
    Star,       \* the label "*"
    Name,       \* the names inserted, removed and looked up
    Datum,      \* the values stored for them
    NoDatum     \* NULL

(* What a user of the module owes it: a name is split into at least one label. *)
TrieAssumption ==
    /\ Star \in Label
    /\ Name \subseteq Seq(Label) \ {<<>>}
    /\ NoDatum \notin Datum

VARIABLE trie   \* the nodes: path |-> [value, child]

Root == <<>>
NewNode == [value |-> NoDatum, child |-> <<>>]
Prefix(q, i) == SubSeq(q, 1, i)
DatumAt(p) == IF p \in DOMAIN trie THEN trie[p].value ELSE NoDatum

TrieInit == trie = [p \in {Root} |-> NewNode]

-----------------------------------------------------------------------------
(* The length of the longest prefix of q that has a node. *)
Depth(q) == CHOOSE i \in 0..Len(q) :
                /\ Prefix(q, i) \in DOMAIN trie
                /\ i < Len(q) => Prefix(q, i + 1) \notin DOMAIN trie

(* Mutant: a name that has a value gets the new one. *)
trie_insert_overwriting(q, v) ==
    LET d == Depth(q)
        new == {Prefix(q, i) : i \in d + 1..Len(q)}
    IN trie' = [p \in DOMAIN trie \cup new |->
                   [value |-> IF p = q THEN v ELSE DatumAt(p),
                    child |-> (IF p \in new THEN <<>> ELSE trie[p].child)
                              \o (IF p \in new \cup {Prefix(q, d)} /\ p # q
                                  THEN <<q[Len(p) + 1]>> ELSE <<>>)]]

(* trie_insert_arr: the missing nodes are created, each the last child of   *)
(* its parent; a value that is there already stays.                         *)
trie_insert_arr(q, v) ==
    LET d == Depth(q)
        new == {Prefix(q, i) : i \in d + 1..Len(q)}
    IN trie' = [p \in DOMAIN trie \cup new |->
                   [value |-> IF p = q /\ DatumAt(q) = NoDatum THEN v ELSE DatumAt(p),
                    child |-> (IF p \in new THEN <<>> ELSE trie[p].child)
                              \o (IF p \in new \cup {Prefix(q, d)} /\ p # q
                                  THEN <<q[Len(p) + 1]>> ELSE <<>>)]]

(* _trie_remove.  The labels are popped on the way down, and every level    *)
(* asks on the way up whether they are used up: when the whole name, or all *)
(* of it but the last label, has nodes, the values of all of them are       *)
(* cleared.  Then nodes with neither child nor value are removed, upwards,  *)
(* and arr_del takes each off its parent's children.                        *)
trie_remove(q) ==
    LET d == Depth(q)
        cleared == IF d >= Len(q) - 1 THEN {Prefix(q, i) : i \in 1..d} ELSE {}
        Left(p) == IF p \in cleared THEN NoDatum ELSE trie[p].value
        Alone(i) == IF i = d THEN trie[Prefix(q, i)].child = <<>>
                    ELSE Len(trie[Prefix(q, i)].child) = 1
        gone == {i \in 1..d : \A m \in i..d : Alone(m) /\ Left(Prefix(q, m)) = NoDatum}
    IN trie' = [p \in DOMAIN trie \ {Prefix(q, i) : i \in gone} |->
                   [value |-> Left(p),
                    child |-> IF \E i \in gone : p = Prefix(q, i - 1)
                              THEN RemoveFirst(trie[p].child, q[Len(p) + 1])
                              ELSE trie[p].child]]

TrieNext == \E q \in Name : trie_remove(q) \/ \E v \in Datum : trie_insert_arr(q, v)

TrieSpec == TrieInit /\ [][TrieNext]_trie

-----------------------------------------------------------------------------
(* _trie_get calls itself at most once per level, since the labels of       *)
(* children differ.  The level i has the node Prefix(q, i): the place of a  *)
(* label among its children, 0 when it is not there, and the value of "*".  *)
Place(q, i, l) == SelectInSeq(trie[Prefix(q, i)].child, LAMBDA m : m = l)
StarDatum(q, i) == DatumAt(Append(Prefix(q, i), Star))

(* wildcard_value, with which a level is entered, as its loop finds it at   *)
(* the child with the next label of q, or at the end.                       *)
Met(q, i, wildcard) ==
    LET label == Place(q, i, q[i + 1])
    IN IF Place(q, i, Star) \in 1..(IF label = 0 THEN Len(trie[Prefix(q, i)].child) ELSE label - 1)
       THEN StarDatum(q, i) ELSE wildcard

(* ... and as the levels hand it down. *)
Entered(q) ==
    LET w[i \in 0..Depth(q)] == IF i = 0 THEN NoDatum ELSE Met(q, i - 1, w[i - 1]) IN w

(* What the levels return, the last one for a label that is missing or that *)
(* ends the name.  A level for which neither the level below nor a "*" in   *)
(* front of its label has a value goes on behind the label.                 *)
LastLevel(q) == IF Depth(q) = Len(q) THEN Depth(q) - 1 ELSE Depth(q)

(* Mutant: a wildcard met before goes over the name's own value. *)
ReturnedWildcardFirst(q) ==
    LET wildcard(i) == Met(q, i, Entered(q)[i])
        r[i \in 0..LastLevel(q)] ==
            LET found == IF i = LastLevel(q) THEN DatumAt(q) ELSE r[i + 1]
            IN IF wildcard(i) # NoDatum THEN wildcard(i)
               ELSE IF found # NoDatum THEN found
               ELSE IF i < LastLevel(q) /\ Place(q, i, Star) > Place(q, i, q[i + 1])
               THEN StarDatum(q, i)
               ELSE NoDatum
    IN r

Returned(q) ==
    LET wildcard(i) == Met(q, i, Entered(q)[i])
        r[i \in 0..LastLevel(q)] ==
            LET found == IF i = LastLevel(q) THEN DatumAt(q) ELSE r[i + 1]
            IN IF found # NoDatum THEN found
               ELSE IF wildcard(i) # NoDatum THEN wildcard(i)
               ELSE IF i < LastLevel(q) /\ Place(q, i, Star) > Place(q, i, q[i + 1])
               THEN StarDatum(q, i)
               ELSE NoDatum
    IN r

trie_get(q) == Returned(q)[0]

-----------------------------------------------------------------------------
(* The values of the wildcards that cover q; a "*" in q stands for itself. *)
Covering(q) == {StarDatum(q, i) : i \in {j \in 0..Len(q) - 1 : q[j + 1] # Star}} \ {NoDatum}

(* A look-up returns the value of the name, and only when it has none the  *)
(* value of a wildcard that covers it.  A name is not missed when there is *)
(* one, in whatever order names came and went.  (A name that is the end of *)
(* a longer one has a node, and is missed when its "*" sibling came later.)*)
ExactOrWildcard ==
    \A q \in Name :
        /\ IF DatumAt(q) # NoDatum THEN trie_get(q) = DatumAt(q)
           ELSE trie_get(q) \in Covering(q) \cup {NoDatum}
        /\ q \notin DOMAIN trie /\ Covering(q) # {} => trie_get(q) # NoDatum

(* An insertion replaces no value ("the old value is not modified",         *)
(* trie.c:131-134), and a removal takes away no value off its name's path.  *)
OnlyPathLosesValues ==
    [][\E q \in Name : \A p \in DOMAIN trie :
          trie[p].value # NoDatum =>
             \/ p \in DOMAIN trie' /\ trie'[p].value = trie[p].value
             \/ IsPrefix(p, q) /\ (p \in DOMAIN trie' => trie'[p].value = NoDatum)]_trie

(* What explains them: the children of a node are the nodes below it, each   *)
(* once; the prefixes of a path have nodes; and removals leave no node that *)
(* has neither child nor value behind, but the root.                        *)
TrieTypeOK ==
    /\ DOMAIN trie \subseteq Seq(Label)
    /\ trie \in [DOMAIN trie -> [value : Datum \cup {NoDatum}, child : Seq(Label)]]

ChildrenOnce ==
    \A p \in DOMAIN trie :
        /\ IsInjective(trie[p].child)
        /\ \A l \in Label : Contains(trie[p].child, l) <=> Append(p, l) \in DOMAIN trie
        /\ \A i \in 0..Len(p) : Prefix(p, i) \in DOMAIN trie

NoneUnused == \A p \in DOMAIN trie \ {Root} : trie[p].child # <<>> \/ trie[p].value # NoDatum

TrieInv == Root \in DOMAIN trie /\ TrieTypeOK /\ ChildrenOnce /\ NoneUnused
=================================================================================
