------------------------------ MODULE MCContainers -----------------------------
(* The containers, which share nothing: a behaviour uses one of them, the       *)
(* others stay as they were created.                                            *)
EXTENDS Ring, MPool, Trie, Table, TLC

CONSTANTS v1, v2, l1, l2, x, y, t1, t2, k1, k2, k3, w1, w2

VARIABLE which  \* the container in use

(* "com" and names below it: a wildcard, a name and a name below that name, one *)
(* behind the wildcard's label, and one that only a wildcard may cover.         *)
MCName == {<<x>>, <<x, Star>>, <<x, y>>, <<x, y, y>>, <<y, y>>, <<Star>>, <<x, Star, y>>}

(* Full at every offset, and grown once. *)
MCElt == {v1, v2}
MCInitCap == {3}

(* Blocks of 12 with a header of 3: room for two or three allocations; sizes    *)
(* zero, odd, the largest small one, and large.                                 *)
MCSize == {0, 3, 7, 10}
MCLarge == {l1, l2}

MCLabel == {x, y, Star}
MCDatum == {v1, v2}

(* Two threads and three keys, two of which share a bucket: a copy or a map     *)
(* beside any other call, chains of two, and a table that is empty at first.    *)
MCThread == {t1, t2}
MCKey == {k1, k2, k3}
MCValue == {w1, w2}
MCHash == (k1 :> 0) @@ (k2 :> 0) @@ (k3 :> 1)

ASSUME UserAssumption ==
    RingAssumption /\ MPoolAssumption /\ TrieAssumption /\ TableAssumption

MCSymmetry == Permutations({t1, t2}) \cup Permutations({w1, w2}) \cup Permutations({k1, k2})

ContainersInit ==
    /\ Init /\ PoolInit /\ TrieInit /\ TableInit
    /\ which \in {"ring", "mpool", "trie", "table"}

ContainersNext ==
    /\ \/ which = "ring" /\ Next /\ UNCHANGED <<poolVars, trie, tableVars>>
       \/ which = "mpool" /\ PoolNext /\ UNCHANGED <<vars, trie, tableVars>>
       \/ which = "trie" /\ TrieNext /\ UNCHANGED <<vars, poolVars, tableVars>>
       \/ which = "table" /\ TableNext /\ UNCHANGED <<vars, poolVars, trie>>
    /\ UNCHANGED which

ContainersSpec == ContainersInit /\ [][ContainersNext]_<<which, vars, poolVars, trie, tableVars>>
================================================================================
