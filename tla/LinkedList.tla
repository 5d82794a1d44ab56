------------------------------ MODULE LinkedList ------------------------------
(***************************************************************************)
(* The circular lists of include/list_generic.h as sequences, and the two  *)
(* walks the library's timed lists make over them.                         *)
(***************************************************************************)
EXTENDS Sequences, SequencesExt, Naturals

(* How many entries a list_for_each_entry passes before it breaks at the   *)
(* first one that is in `stop`.                                            *)
Passed(list, stop) ==
    LET i == SelectInSeq(list, LAMBDA e : e \in stop) IN IF i = 0 THEN Len(list) ELSE i - 1

(* list_add_tail(new, &pos->list) at the entry where the walk broke off, or *)
(* at the end when it met none.                                             *)
AddBefore(list, stop, new) == InsertAt(list, Passed(list, stop) + 1, new)

(* The entries before the break, and the rest. *)
FirstOnes(list, stop) == SubSeq(list, 1, Passed(list, stop))
Rest(list, stop) == SubSeq(list, Passed(list, stop) + 1, Len(list))

(* list_head_del: an entry that is on no list is left alone. *)
Del(list, e) == RemoveFirst(list, e)

(* For what is said about lists: a has a place in front of one of b. *)
Before(list, a, b) == \E j, k \in 1..Len(list) : j < k /\ list[j] = a /\ list[k] = b
=============================================================================
