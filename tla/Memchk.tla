---------------------------------- MODULE Memchk --------------------------------
(***************************************************************************)
(* The memory checker of src/memchk.c: malloc, calloc, realloc and free of *)
(* a program, which it replaces, each block between two guards and with a  *)
(* descriptor in a hash table; and what the program does to its blocks.    *)
(*                                                                         *)
(* A block is the place where it begins.  The chains are those of the      *)
(* kernel's hlist, as sequences: head first.                               *)
(***************************************************************************)
EXTENDS Integers, Sequences, FiniteSets, SequencesExt

CONSTANTS
    Place,      \* where the C library can put a block
    Buckets,    \* length of htab, 2047 in the code
    MaxDesc,    \* bound on the descriptors, that is on the blocks at a time
    None        \* no report yet

(* What a user of the module owes it. *)
MemchkAssumption == Place \subseteq Nat /\ Buckets \in Nat \ {0} /\ MaxDesc \in Nat

VARIABLES
    htab,       \* chains of descriptors in use
    free_list,  \* descriptors that are not
    ptr,        \* the block of each descriptor
    guards,     \* the guards of blocks that were written over
    exited,     \* the program was ended
    report,     \* what mem_leak just told
    live,       \* history: the blocks that the program has
    wild        \* history: the program released what it had not

memchkVars == <<htab, free_list, ptr, guards, exited, report, live, wild>>

hash(p) == p % Buckets

MemchkInit ==
    /\ htab = [i \in 0..Buckets - 1 |-> <<>>]
    /\ free_list = <<>>
    /\ ptr = <<>>
    /\ guards = {}
    /\ exited = FALSE
    /\ report = None
    /\ live = {}
    /\ wild = FALSE

--------------------------------------------------------------------------------
(* The parts of the state that the functions hand on to each other.             *)
Books == [htab |-> htab, free_list |-> free_list, ptr |-> ptr]
Becomes(b) == htab' = b.htab /\ free_list' = b.free_list /\ ptr' = b.ptr

(* mem_alloc: a descriptor from free_list, or a new one, for a block at p.      *)
Allocated(b, p) ==
    LET dp == IF b.free_list = <<>> THEN Len(b.ptr) + 1 ELSE Head(b.free_list)
    IN [htab |-> [b.htab EXCEPT ![hash(p)] = <<dp>> \o @],
        free_list |-> IF b.free_list = <<>> THEN <<>> ELSE Tail(b.free_list),
        ptr |-> IF b.free_list = <<>> THEN Append(b.ptr, p) ELSE [b.ptr EXCEPT ![dp] = p]]

(* _mem_free: where the chain has the first descriptor of p, 0 for none (-1).   *)
At(b, p) == SelectInSeq(b.htab[hash(p)], LAMBDA dp : b.ptr[dp] = p)

(* Mutant: the chain is taken to have one descriptor. *)
ReleasedHead(b, p) ==
    LET dp == Head(b.htab[hash(p)])
    IN [b EXCEPT !.htab[hash(p)] = Tail(@), !.free_list = <<dp>> \o @]

(* The descriptor goes to free_list.                                               *)
Released(b, p) ==
    LET dp == b.htab[hash(p)][At(b, p)]
    IN [b EXCEPT !.htab[hash(p)] = RemoveAt(@, At(b, p)), !.free_list = <<dp>> \o @]

GuardsOf(ps) == ps \X {"start_space", "last_space"}

--------------------------------------------------------------------------------
(* mem_alloc, and mem_calloc, which fills the block with zeros, wherever the C  *)
(* library puts it; the guards are written.                                     *)
mem_alloc(p) ==
    /\ ~exited /\ p \notin live /\ Cardinality(live) < MaxDesc
    /\ Becomes(Allocated(Books, p))
    /\ guards' = guards \ GuardsOf({p})
    /\ report' = None
    /\ live' = live \cup {p}
    /\ UNCHANGED <<exited, wild>>

(* mem_free of any pointer: of a block, of a former one, or of neither. *)
mem_free(p) ==
    /\ ~exited
    /\ IF At(Books, p) = 0
       THEN exited' = TRUE /\ UNCHANGED <<htab, free_list, ptr>>
       ELSE Becomes(Released(Books, p)) /\ UNCHANGED exited
    /\ report' = None
    /\ live' = live \ {p}
    /\ wild' = (p \notin live)
    /\ UNCHANGED guards

(* mem_realloc: the block is released before the new one, q, is allocated, and  *)
(* nothing of it is copied.                                                     *)
mem_realloc(p, q) ==
    /\ ~exited /\ q \notin live \ {p}
    /\ IF At(Books, p) = 0
       THEN exited' = TRUE /\ UNCHANGED <<htab, free_list, ptr, guards, live>>
       ELSE /\ Becomes(Allocated(Released(Books, p), q))
            /\ guards' = guards \ GuardsOf({q})
            /\ live' = (live \ {p}) \cup {q}
            /\ UNCHANGED exited
    /\ report' = None
    /\ wild' = (p \notin live)

(* The places of the table's chains, which hold a descriptor each.              *)
Linked == UNION {{i} \X DOMAIN htab[i] : i \in 0..Buckets - 1}

(* mem_leak walks the table and counts; dp_dirty tells of guards that are not   *)
(* as they were written.                                                        *)
mem_leak ==
    /\ ~exited
    /\ report' = [count |-> Cardinality(Linked),
                  dirty |-> guards \cap GuardsOf({ptr[htab[l[1]][l[2]]] : l \in Linked})]
    /\ UNCHANGED <<htab, free_list, ptr, guards, exited, live, wild>>

(* The program writes past an end of its block. *)
Overrun(g) ==
    /\ ~exited /\ g[1] \in live /\ g \notin guards
    /\ guards' = guards \cup {g}
    /\ report' = None
    /\ UNCHANGED <<htab, free_list, ptr, exited, live, wild>>

MemchkNext ==
    \/ \E p \in Place : \/ mem_alloc(p)
                         \/ mem_free(p)
                         \/ \E q \in Place : mem_realloc(p, q)
    \/ \E g \in GuardsOf(Place) : Overrun(g)
    \/ mem_leak

MemchkSpec == MemchkInit /\ [][MemchkNext]_memchkVars

--------------------------------------------------------------------------------
(* However blocks are allocated, moved and released, and their places used      *)
(* again: the program is ended exactly when it releases what it has not;        *)
(* mem_leak counts the blocks that it has and tells of the guards of these that *)
(* were written over; and no descriptor gets lost or is used twice.             *)
LeaksTold ==
    /\ exited <=> wild
    /\ report # None => /\ report.count = Cardinality(live)
                        /\ report.dirty = guards \cap GuardsOf(live)
    /\ Len(ptr) = Cardinality(live) + Len(free_list)

(* The inductive invariant behind it.  The books b fit the blocks `has`: the    *)
(* chains lead to one descriptor of each block, in the chain of its place; and  *)
(* those on free_list are others, each there once, and all that remain.         *)
BooksType(b) ==
    /\ b.htab \in [0..Buckets - 1 -> Seq(Nat)]
    /\ b.free_list \in Seq(Nat)
    /\ b.ptr \in Seq(Place)

Chained(b, has) ==
    /\ \A i \in 0..Buckets - 1 : \A j \in 1..Len(b.htab[i]) :
          LET dp == b.htab[i][j]
          IN dp \in 1..Len(b.ptr) /\ b.ptr[dp] \in has /\ hash(b.ptr[dp]) = i
    /\ \A i \in 0..Buckets - 1 : \A j, k \in 1..Len(b.htab[i]) :
          b.ptr[b.htab[i][j]] = b.ptr[b.htab[i][k]] => j = k
    /\ \A p \in has : \E j \in 1..Len(b.htab[hash(p)]) : b.ptr[b.htab[hash(p)][j]] = p

Spare(b, has) ==
    /\ \A k \in 1..Len(b.free_list) :
          /\ b.free_list[k] \in 1..Len(b.ptr)
          /\ \A i \in 0..Buckets - 1 : \A j \in 1..Len(b.htab[i]) :
                b.htab[i][j] # b.free_list[k]
    /\ \A k, l \in 1..Len(b.free_list) : b.free_list[k] = b.free_list[l] => k = l
    /\ Len(b.ptr) = Cardinality(has) + Len(b.free_list)

BooksFit(b, has) == BooksType(b) /\ Chained(b, has) /\ Spare(b, has)

MemchkInv ==
    /\ live \subseteq Place /\ IsFiniteSet(live)
    /\ BooksFit(Books, live)
    /\ exited <=> wild
    /\ report # None => /\ report.count = Cardinality(live)
                        /\ report.dirty = guards \cap GuardsOf(live)
================================================================================
