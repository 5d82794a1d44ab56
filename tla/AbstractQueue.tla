------------------------------ MODULE AbstractQueue -----------------------------
(* What a ring promises: a queue filled at the end and emptied from the front. *)
EXTENDS Sequences, Naturals

CONSTANT Elt

VARIABLE queue

Init == queue = <<>>

Push(v) == queue' = Append(queue, v)

Drop(n) == queue' = SubSeq(queue, n + 1, Len(queue))

Next == \/ \E v \in Elt : Push(v)
        \/ \E n \in 0..Len(queue) : Drop(n)

Spec == Init /\ [][Next]_queue
=================================================================================
