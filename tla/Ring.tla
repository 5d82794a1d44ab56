---------------------------------- MODULE Ring ----------------------------------
(***************************************************************************)
(* The growing ring of include/ring.h: elements from idx_begin, around the *)
(* end of the storage, to idx_end.  A full ring is copied to twice the     *)
(* room; ring_tighten drops elements from the front.                       *)
(***************************************************************************)
EXTENDS Sequences, Naturals

CONSTANTS
    Elt,        \* the elements pushed
    InitCap,    \* the capacity callers ask ring_new for
    MaxCap,     \* bound on the capacity
    Garbage     \* what storage holds that was never written

(* What a user of the module owes it. *)
RingAssumption ==
    /\ InitCap \subseteq Nat \ {0}
    /\ MaxCap \in Nat
    /\ Garbage \notin Elt

VARIABLES cap, idx_begin, idx_end, nelts, elts

vars == <<cap, idx_begin, idx_end, nelts, elts>>

Init ==
    /\ cap \in InitCap
    /\ idx_begin = 0
    /\ idx_end = 0
    /\ nelts = 0
    /\ elts = [i \in 0..cap - 1 |-> Garbage]

(* Mutant: the wrapped part stays where it is. *)
ExpandInPlace ==
    [cap |-> 2 * cap,
     end |-> cap + idx_end,
     elts |-> [i \in 0..2 * cap - 1 |-> IF i < cap THEN elts[i] ELSE Garbage]]

(* ring_expand, on a full ring: the elements from idx_begin keep their     *)
(* places, the wrapped ones go behind them.                                *)
Expanded ==
    IF idx_begin < idx_end
    THEN [cap |-> 2 * cap,
          end |-> idx_end,
          elts |-> [i \in 0..2 * cap - 1 |->
                       IF i \in idx_begin..idx_end - 1 THEN elts[i] ELSE Garbage]]
    ELSE [cap |-> 2 * cap,
          end |-> cap + idx_end,
          elts |-> [i \in 0..2 * cap - 1 |->
                       IF i \in idx_begin..cap - 1 THEN elts[i]
                       ELSE IF i \in cap..cap + idx_end - 1 THEN elts[i - cap] ELSE Garbage]]

(* ring_push_h; ring_push is the same, with the element written by the caller. *)
ring_push(v) ==
    LET r == IF nelts = cap THEN Expanded
             ELSE [cap |-> cap, end |-> idx_end, elts |-> elts]
    IN /\ r.cap <= MaxCap
       /\ cap' = r.cap
       /\ elts' = [r.elts EXCEPT ![r.end] = v]
       /\ idx_end' = IF r.end + 1 >= r.cap THEN 0 ELSE r.end + 1
       /\ nelts' = nelts + 1
       /\ UNCHANGED idx_begin

ring_tighten(step) ==
    /\ nelts' = IF nelts < step THEN 0 ELSE nelts - step
    /\ idx_begin' = IF nelts' = 0 THEN idx_end
                    ELSE IF idx_begin + step > cap - 1 THEN idx_begin + step - cap
                    ELSE idx_begin + step
    /\ UNCHANGED <<cap, idx_end, elts>>

Next ==
    \/ \E v \in Elt : ring_push(v)
    \/ \E step \in 0..MaxCap + 1 : ring_tighten(step)

Spec == Init /\ [][Next]_vars

-----------------------------------------------------------------------------
(* Where in elts the k-th element of the walk is. *)
PlaceOf(k) == IF idx_begin + k > cap THEN idx_begin + k - 1 - cap ELSE idx_begin + k - 1

(* ring_for_each: nelts elements from idx_begin, around the end. *)
Contents ==
    [k \in 1..nelts |-> elts[PlaceOf(k)]]

(* A walk over the ring sees a queue: pushes at the end, drops in front,   *)
(* and growing changes nothing.                                            *)
Queue == INSTANCE AbstractQueue WITH queue <- Contents

ImplementsQueue == Queue!Spec

(* The inductive invariant behind it: idx_end is nelts places behind        *)
(* idx_begin, around the end of the storage, and what lies between them was *)
(* pushed.                                                                  *)
IInv ==
    /\ cap \in Nat \ {0}
    /\ idx_begin \in 0..cap - 1 /\ idx_end \in 0..cap - 1
    /\ nelts \in 0..cap
    /\ elts \in [0..cap - 1 -> Elt \cup {Garbage}]
    /\ idx_end = IF idx_begin + nelts < cap THEN idx_begin + nelts ELSE idx_begin + nelts - cap
    /\ \A k \in 1..nelts : elts[PlaceOf(k)] \in Elt
=================================================================================
