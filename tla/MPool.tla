---------------------------------- MODULE MPool ---------------------------------
(***************************************************************************)
(* The memory pool of src/mpool.c: small allocations are cut from a chain  *)
(* of blocks and never returned one by one; large ones come from malloc    *)
(* and are noted on a list whose nodes are small allocations themselves,   *)
(* as are the nodes of the list of cleanup callbacks.                      *)
(*                                                                         *)
(* An address is a block's number and an offset in it.                     *)
(***************************************************************************)
EXTENDS Sequences, SequencesExt, FiniteSets, Naturals

CONSTANTS
    Size,           \* the sizes callers ask for
    Large,          \* the addresses malloc gives out
    psize,          \* size of a block
    header,         \* sizeof(mpool_block_t)
    node,           \* sizeof of the nodes of both lists
    max,            \* pool->max
    alignment,      \* MM_POOL_ALIGNMENT
    MaxBlocks,      \* blocks after which posix_memalign surely fails
    MaxLive,        \* bound on the allocations at a time
    Nil

Up(m) == ((m + alignment - 1) \div alignment) * alignment

(* What a user of the module owes it. *)
MPoolAssumption ==
    /\ {psize, header, node, max, alignment} \subseteq Nat \ {0}
    /\ Size \subseteq Nat
    /\ psize % alignment = 0
    /\ Up(header) + max <= psize        \* 16 KiB blocks, max 4095
    /\ node <= max
    /\ Nil \notin Large \cup [blk : Nat, from : Nat, to : Nat]

VARIABLES
    blocks,         \* the `avail` of each block, in the order of the chain
    current,        \* the block allocations start from
    large,          \* the list of large allocations
    free_list,      \* the cleanup callbacks: each with its node and its data
    memory,         \* history: blocks got from posix_memalign and not freed
    malloced,       \* history: large allocations not freed
    live,           \* history: small allocations since the last reset
    overrun         \* history: a cleanup's data went over the end of its block

poolVars == <<blocks, current, large, free_list, memory, malloced, live, overrun>>

PoolInit ==
    /\ blocks = <<Up(header)>>
    /\ current = 1
    /\ large = <<>>
    /\ free_list = <<>>
    /\ memory = 1
    /\ malloced = {}
    /\ live = {}
    /\ overrun = FALSE

-----------------------------------------------------------------------------
(* The part of the state alloc_small works on. *)
pool == [blocks |-> blocks, current |-> current, memory |-> memory, live |-> live]

Extent(b, m, bytes) == [blk |-> b, from |-> m, to |-> m + bytes]
Take(p, b, m, bytes) ==
    [p EXCEPT !.blocks[b] = m + bytes, !.live = @ \cup {Extent(b, m, bytes)}]

Start(m, align) == IF align THEN Up(m) ELSE m

(* (size_t)(blk->end - m) >= size: a difference below zero is a huge room. *)
Fits(m, bytes) == m > psize \/ psize - m >= bytes

(* A new block at the end of the chain becomes the current one. *)
alloc_block(p, bytes, align) ==
    LET b == Len(p.blocks) + 1
        q == [p EXCEPT !.blocks = Append(@, header), !.current = b, !.memory = @ + 1]
    IN [pool |-> Take(q, b, Start(header, align), bytes),
        at |-> Extent(b, Start(header, align), bytes)]

(* Mutant: the room is judged before the alignment. *)
alloc_small_unaligned_check(p, bytes, align, ok) ==
    LET fitting == {b \in p.current..Len(p.blocks) : Fits(p.blocks[b], bytes)}
        b == CHOOSE i \in fitting : \A j \in fitting : i <= j
        m == Start(p.blocks[b], align)
    IN IF fitting # {}
       THEN [pool |-> Take(p, b, m, bytes), at |-> Extent(b, m, bytes)]
       ELSE IF ok THEN alloc_block(p, bytes, align)
       ELSE [pool |-> p, at |-> Nil]

(* The first block from `current` on with enough room behind its `avail`;   *)
(* `ok` tells whether posix_memalign would succeed.                         *)
alloc_small(p, bytes, align, ok) ==
    LET fitting == {b \in p.current..Len(p.blocks) :
                       Fits(Start(p.blocks[b], align), bytes)}
        b == CHOOSE i \in fitting : \A j \in fitting : i <= j
        m == Start(p.blocks[b], align)
    IN IF fitting # {}
       THEN [pool |-> Take(p, b, m, bytes), at |-> Extent(b, m, bytes)]
       ELSE IF ok THEN alloc_block(p, bytes, align)
       ELSE [pool |-> p, at |-> Nil]

Becomes(p) ==
    /\ p.memory <= MaxBlocks
    /\ Cardinality(p.live) <= MaxLive
    /\ blocks' = p.blocks
    /\ current' = p.current
    /\ memory' = p.memory
    /\ live' = p.live

(* mpool_alloc and mpool_nalloc of a small size. *)
AllocSmall(n, align) ==
    LET bytes == IF n = 0 THEN 1 ELSE n IN
    /\ bytes <= max
    /\ \E ok \in BOOLEAN : Becomes(alloc_small(pool, bytes, align, ok).pool)
    /\ UNCHANGED <<large, free_list, malloced, overrun>>

(* ...and of a large one: malloc first; its memory is given back when there *)
(* is none for the list's node.                                             *)
AllocLarge(n) ==
    /\ n > max
    /\ \E p \in Large \ malloced, ok \in BOOLEAN :
          LET lg == alloc_small(pool, node, TRUE, ok) IN
          /\ Becomes(lg.pool)
          /\ IF lg.at = Nil
             THEN UNCHANGED <<large, malloced>>
             ELSE /\ large' = <<[alloc |-> p, at |-> lg.at]>> \o large
                  /\ malloced' = malloced \cup {p}
    /\ UNCHANGED <<free_list, overrun>>

mpool_pfree(p) ==
    LET i == SelectInSeq(large, LAMBDA lg : lg.alloc = p) IN
    /\ i # 0
    /\ large' = RemoveAt(large, i)
    /\ malloced' = malloced \ {p}
    /\ UNCHANGED <<blocks, current, free_list, memory, live, overrun>>

(* mpool_cleanup_add: data first, whatever its size, then the node.  Data   *)
(* without a node stays in the pool.                                        *)
mpool_cleanup_add(n) ==
    \E ok1, ok2 \in BOOLEAN :
        LET data == IF n = 0 THEN [pool |-> pool, at |-> Nil]
                    ELSE alloc_small(pool, n, TRUE, ok1)
            c == alloc_small(data.pool, node, TRUE, ok2)
        IN /\ IF n > 0 /\ data.at = Nil
              THEN UNCHANGED <<blocks, current, memory, live, free_list>>
              ELSE /\ Becomes(c.pool)
                   /\ free_list' = IF c.at = Nil THEN free_list
                                   ELSE <<[at |-> c.at, data |-> data.at]>> \o free_list
           /\ overrun' = (overrun \/ (data.at # Nil /\ data.at.to > psize))
           /\ UNCHANGED <<large, malloced>>

run_cleanup_unlocked == free_list' = <<>>

mpool_run_cleanup ==
    /\ run_cleanup_unlocked
    /\ UNCHANGED <<blocks, current, large, memory, malloced, live, overrun>>

(* Callbacks, large allocations, and every block of the chain is empty. *)
mpool_reset ==
    /\ run_cleanup_unlocked
    /\ large' = <<>>
    /\ malloced' = malloced \ {large[i].alloc : i \in DOMAIN large}
    /\ blocks' = [b \in DOMAIN blocks |-> Up(header)]
    /\ current' = 1
    /\ live' = {}
    /\ UNCHANGED <<memory, overrun>>

(* mpool_destroy frees what the lists and the chain lead to; a new pool     *)
(* starts from nothing, so what was leaked stays in the histories.          *)
mpool_destroy ==
    /\ run_cleanup_unlocked
    /\ large' = <<>>
    /\ malloced' = malloced \ {large[i].alloc : i \in DOMAIN large}
    /\ blocks' = <<Up(header)>>
    /\ memory' = memory - Len(blocks) + 1
    /\ current' = 1
    /\ live' = {}
    /\ UNCHANGED overrun

PoolNext ==
    \/ \E n \in Size : \/ \E align \in BOOLEAN : AllocSmall(n, align)
                       \/ AllocLarge(n)
                       \/ mpool_cleanup_add(n)
    \/ \E p \in Large : mpool_pfree(p)
    \/ mpool_run_cleanup \/ mpool_reset \/ mpool_destroy

PoolSpec == PoolInit /\ [][PoolNext]_poolVars

-----------------------------------------------------------------------------
Disjoint ==
    ~overrun =>
        /\ \A a \in live : header <= a.from /\ a.to <= blocks[a.blk] /\ blocks[a.blk] <= psize
        /\ \A a, b \in live : a # b /\ a.blk = b.blk => a.to <= b.from \/ b.to <= a.from

ListsLive ==
    /\ \A i \in DOMAIN large : large[i].at \in live
    /\ \A i \in DOMAIN free_list :
          /\ free_list[i].at \in live
          /\ free_list[i].data \in live \cup {Nil}
    /\ {large[i].alloc : i \in DOMAIN large} = malloced
    /\ Len(large) = Cardinality(malloced)
    /\ memory = Len(blocks) /\ current \in 1..Len(blocks)

(* Every allocation lies in its block, behind the header, and no two       *)
(* overlap.  A cleanup's data larger than a block would break this: its    *)
(* size is never compared with anything.  The nodes of both lists, and the *)
(* data callbacks will be called with, are memory of the pool that no      *)
(* reset has taken back.  The pool can give back all it has: its list      *)
(* leads once to each large allocation that is not freed, and no block is  *)
(* lost from the chain.                                                    *)
PoolSound == Disjoint /\ ListsLive

Region == [blk : Nat, from : Nat, to : Nat]

PoolTypeOK ==
    /\ blocks \in Seq(Nat)
    /\ current \in Nat /\ memory \in Nat
    /\ live \subseteq Region
    /\ large \in Seq([alloc : Large, at : Region])
    /\ free_list \in Seq([at : Region, data : Region \cup {Nil}])
    /\ malloced \subseteq Large
    /\ overrun \in BOOLEAN
=================================================================================
