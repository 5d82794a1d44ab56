--------------------------------- MODULE RCU ---------------------------------
(***************************************************************************)
(* The read-copy-update scheme of include/rcu.h, one action per access to  *)
(* shared memory (sequentially consistent interleaving).                   *)
(*                                                                         *)
(* Every reader owns one list node.  A node is a single word that packs    *)
(* the pointer to the next node with two nesting bits; the reader rewrites *)
(* the whole word with a load and a later store, also while a registering  *)
(* thread appends a link to it.  Updaters publish a new version of the     *)
(* protected object, wait for a grace period and free the old version.     *)
(***************************************************************************)
EXTENDS Naturals, Sequences, SequencesExt

CONSTANTS
    Reader,         \* threads that call rcu_init and read
    Updater,        \* threads that publish and reclaim
    Nil,
    MaxUpdates,     \* bound on the number of publications
    MaxJoins        \* bound on nr_thread (it also counts nodes fallen off the list)

(* What a user of the module owes it. *)
RcuAssumption ==
    /\ MaxUpdates \in Nat /\ MaxJoins \in Nat
    /\ Nil \notin Reader \cup Updater \cup (0..MaxUpdates) /\ Reader \cap Updater = {}

VARIABLES
    head,       \* rcu_data.head
    idx,        \* rcu_data.rcu_nesting_idx
    nrThread,   \* rcu_data.nr_thread
    list_lock,  \* rcu_data.lock: its holder or Nil
    word,       \* __next_rcu_nesting of each reader's node
    rpc,        \* where each thread is
    cursor,     \* the list position of the thread that holds the lock
    reg,        \* the word a reader has loaded and not yet stored
    ridx,       \* the index a reader or updater has loaded
    ptr,        \* the version published through rcu_assign_pointer
    held,       \* the version a reader dereferenced, or Nil
    old,        \* the version an updater has unpublished
    freed,      \* versions reclaimed
    init,       \* readers whose rcu_init succeeded
    stale,      \* history: the reader set the bit of an index no longer current
    lost        \* history: nodes whose link was erased by a store of an old word, or
                \* given up with the old node of a thread that had lost it so

listVars == <<head, nrThread, word, init, lost>>
readVars == <<reg, held, stale>>
objVars == <<ptr, old, freed>>
rcuVars == <<head, idx, nrThread, list_lock, word, rpc, cursor, reg, ridx, ptr, held, old,
          freed, init, stale, lost>>

Caller == Reader \cup Updater
Version == 0..MaxUpdates
ReaderLabel == {"new", "find", "append", "failed", "idle", "load", "store", "deref",
                "reading", "unstore"}
UpdaterLabel == {"assign", "sync", "wait1", "hop1", "wait2", "hop2", "free"}
Word == [next : Reader \cup {Nil}, bits : SUBSET {0, 1}]
EmptyWord == [next |-> Nil, bits |-> {}]

(* The nodes a walk along the links meets, starting at n: they are in every *)
(* set of nodes that holds n and, with a node, the one behind it.           *)
Closed(S) == \A m \in S : word[m].next \in S \cup {Nil}
ReachFrom(n) ==
    {m \in Reader : \A S \in SUBSET Reader : n \in S \cup {Nil} /\ Closed(S) => m \in S}

Linked == ReachFrom(head)

RcuInit ==
    /\ head = Nil /\ idx = 0 /\ nrThread = 0 /\ list_lock = Nil
    /\ word = [r \in Reader |-> EmptyWord]
    /\ rpc = [t \in Caller |-> IF t \in Reader THEN "new" ELSE "assign"]
    /\ cursor = Nil
    /\ reg = [r \in Reader |-> EmptyWord]
    /\ ridx = [t \in Caller |-> 0]
    /\ ptr = 0
    /\ held = [r \in Reader |-> Nil]
    /\ old = [u \in Updater |-> Nil]
    /\ freed = {}
    /\ init = {}
    /\ stale = [r \in Reader |-> FALSE]
    /\ lost = {}

Go(t, from, to) == rpc[t] = from /\ rpc' = [rpc EXCEPT ![t] = to]

-----------------------------------------------------------------------------
(* rcu_init / __rcu_node_add.  A thread may call rcu_init again. *)

AddLock(r) ==
    /\ rpc[r] \in {"new", "idle"}
    /\ nrThread < MaxJoins
    /\ list_lock = Nil
    /\ list_lock' = r
    /\ cursor' = Nil
    /\ rpc' = [rpc EXCEPT ![r] = "find"]
    /\ UNCHANGED <<listVars, readVars, objVars, idx, ridx>>

(* The walk to the end of the list stops at a node of the same thread: the  *)
(* call fails and leaves the thread without a node pointer.  Otherwise the  *)
(* thread has a new node.                                                   *)
AddFind(r) ==
    /\ rpc[r] = "find"
    /\ IF r \in Linked
       THEN /\ list_lock' = Nil
            /\ rpc' = [rpc EXCEPT ![r] = "failed"]
            /\ init' = init \ {r}
            /\ UNCHANGED <<cursor, word, lost>>
       ELSE /\ \/ head = Nil /\ cursor' = Nil
               \/ \E m \in Linked : word[m].next = Nil /\ cursor' = m
            /\ word' = [word EXCEPT ![r] = EmptyWord]
            /\ lost' = lost \cup ({word[r].next} \ {Nil})
            /\ rpc' = [rpc EXCEPT ![r] = "append"]
            /\ UNCHANGED <<list_lock, init>>
    /\ UNCHANGED <<head, nrThread, readVars, objVars, idx, ridx>>

(* atomic_fetch_or_release into the head or into the last node's word. *)
AddAppend(r) ==
    /\ rpc[r] = "append"
    /\ IF cursor = Nil
       THEN head' = r /\ UNCHANGED word
       ELSE word' = [word EXCEPT ![cursor].next = r] /\ UNCHANGED head
    /\ nrThread' = nrThread + 1
    /\ init' = init \cup {r}
    /\ lost' = lost \ {r}
    /\ list_lock' = Nil
    /\ rpc' = [rpc EXCEPT ![r] = "idle"]
    /\ UNCHANGED <<cursor, readVars, objVars, idx, ridx>>

(* rcu_clean, called when no reader is using its node and none is joining; *)
(* a reader must call rcu_init before it reads again.                      *)
Clean(u) ==
    /\ rpc[u] = "assign"
    /\ list_lock = Nil
    /\ \A r \in Reader : rpc[r] \in {"new", "idle", "failed"}
    /\ head # Nil
    /\ head' = Nil
    /\ nrThread' = 0
    /\ init' = {}
    /\ lost' = {}
    /\ word' = [r \in Reader |-> EmptyWord]
    /\ rpc' = [t \in Caller |-> IF t \in Reader THEN "new" ELSE rpc[t]]
    /\ stale' = [r \in Reader |-> FALSE]
    /\ UNCHANGED <<list_lock, cursor, reg, held, objVars, idx, ridx>>

-----------------------------------------------------------------------------
(* rcu_read_lock: load the index, load the node's word, store it back with *)
(* the bit of the index.                                                   *)

ReadLockIndex(r) ==
    /\ Go(r, "idle", "load")
    /\ ridx' = [ridx EXCEPT ![r] = idx]
    /\ UNCHANGED <<listVars, readVars, objVars, idx, list_lock, cursor>>

ReadLockLoad(r) ==
    /\ Go(r, "load", "store")
    /\ reg' = [reg EXCEPT ![r] = word[r]]
    /\ UNCHANGED <<listVars, objVars, held, stale, idx, ridx, list_lock, cursor>>

(* A link appended since the load is overwritten. *)
Erased(r) == IF word[r].next # reg[r].next THEN {word[r].next} ELSE {}

ReadLockStore(r) ==
    /\ Go(r, "store", "deref")
    /\ word' = [word EXCEPT ![r] = [reg[r] EXCEPT !.bits = @ \cup {ridx[r] % 2}]]
    /\ lost' = lost \cup Erased(r)
    /\ stale' = [stale EXCEPT ![r] = ridx[r] # idx]
    /\ UNCHANGED <<head, nrThread, init, objVars, reg, held, idx, ridx, list_lock, cursor>>

(* rcu_dereference *)
ReadDeref(r) ==
    /\ Go(r, "deref", "reading")
    /\ held' = [held EXCEPT ![r] = ptr]
    /\ UNCHANGED <<listVars, objVars, reg, stale, idx, ridx, list_lock, cursor>>

(* rcu_read_unlock: load the word, store it back without the bits. *)
ReadUnlockLoad(r) ==
    /\ Go(r, "reading", "unstore")
    /\ held' = [held EXCEPT ![r] = Nil]
    /\ reg' = [reg EXCEPT ![r] = word[r]]
    /\ UNCHANGED <<listVars, objVars, stale, idx, ridx, list_lock, cursor>>

ReadUnlockStore(r) ==
    /\ Go(r, "unstore", "idle")
    /\ word' = [word EXCEPT ![r] = [reg[r] EXCEPT !.bits = {}]]
    /\ lost' = lost \cup Erased(r)
    /\ stale' = [stale EXCEPT ![r] = FALSE]
    /\ UNCHANGED <<head, nrThread, init, objVars, reg, held, idx, ridx, list_lock, cursor>>

-----------------------------------------------------------------------------
(* An update: rcu_assign_pointer, synchronize_rcu, then free the old version. *)

Assign(u) ==
    /\ ptr < MaxUpdates
    /\ Go(u, "assign", "sync")
    /\ old' = [old EXCEPT ![u] = ptr]
    /\ ptr' = ptr + 1
    /\ UNCHANGED <<listVars, readVars, freed, idx, ridx, list_lock, cursor>>

SyncLock(u) ==
    /\ list_lock = Nil
    /\ Go(u, "sync", "wait1")
    /\ list_lock' = u
    /\ cursor' = head
    /\ UNCHANGED <<listVars, readVars, objVars, idx, ridx>>

(* First loop: a node is passed when the bit of the current index is clear. *)
SyncWait1(u) ==
    /\ cursor # Nil
    /\ idx % 2 \notin word[cursor].bits
    /\ Go(u, "wait1", "hop1")
    /\ UNCHANGED <<listVars, readVars, objVars, idx, ridx, list_lock, cursor>>

SyncHop1(u) ==
    /\ Go(u, "hop1", "wait1")
    /\ cursor' = word[cursor].next
    /\ UNCHANGED <<listVars, readVars, objVars, idx, ridx, list_lock>>

(* Mutant: no second look at the list. *)
SyncFlipOnce(u) ==
    /\ cursor = Nil
    /\ Go(u, "wait1", "wait2")
    /\ ridx' = [ridx EXCEPT ![u] = idx]
    /\ idx' = idx + 1
    /\ cursor' = Nil
    /\ UNCHANGED <<listVars, readVars, objVars, list_lock>>

(* The list is exhausted: atomic_fetch_add on the index, and start again. *)
SyncFlip(u) ==
    /\ cursor = Nil
    /\ Go(u, "wait1", "wait2")
    /\ ridx' = [ridx EXCEPT ![u] = idx]
    /\ idx' = idx + 1
    /\ cursor' = head
    /\ UNCHANGED <<listVars, readVars, objVars, list_lock>>

(* Mutant: the second loop waits on the new index. *)
SyncWait2NewIndex(u) ==
    /\ cursor # Nil
    /\ idx % 2 \notin word[cursor].bits
    /\ Go(u, "wait2", "hop2")
    /\ UNCHANGED <<listVars, readVars, objVars, idx, ridx, list_lock, cursor>>

(* Second loop: the bit of the index before the flip. *)
SyncWait2(u) ==
    /\ cursor # Nil
    /\ ridx[u] % 2 \notin word[cursor].bits
    /\ Go(u, "wait2", "hop2")
    /\ UNCHANGED <<listVars, readVars, objVars, idx, ridx, list_lock, cursor>>

SyncHop2(u) ==
    /\ Go(u, "hop2", "wait2")
    /\ cursor' = word[cursor].next
    /\ UNCHANGED <<listVars, readVars, objVars, idx, ridx, list_lock>>

SyncUnlock(u) ==
    /\ cursor = Nil
    /\ Go(u, "wait2", "free")
    /\ list_lock' = Nil
    /\ UNCHANGED <<listVars, readVars, objVars, idx, ridx, cursor>>

Free(u) ==
    /\ Go(u, "free", "assign")
    /\ freed' = freed \cup {old[u]}
    /\ UNCHANGED <<listVars, readVars, ptr, old, idx, ridx, list_lock, cursor>>

-----------------------------------------------------------------------------
(* Finishing what has been begun; joining and starting to read are optional. *)
ReadStep(r) ==
    \/ AddFind(r) \/ AddAppend(r)
    \/ ReadLockLoad(r) \/ ReadLockStore(r) \/ ReadDeref(r)
    \/ ReadUnlockLoad(r) \/ ReadUnlockStore(r)

SyncStep(u) ==
    \/ SyncLock(u) \/ SyncWait1(u) \/ SyncHop1(u) \/ SyncFlip(u)
    \/ SyncWait2(u) \/ SyncHop2(u) \/ SyncUnlock(u) \/ Free(u)

RcuNext ==
    \/ \E r \in Reader : AddLock(r) \/ ReadLockIndex(r) \/ ReadStep(r)
    \/ \E u \in Updater : Assign(u) \/ Clean(u) \/ SyncStep(u)

RcuSpec == RcuInit /\ [][RcuNext]_rcuVars

(* Threads keep running inside a call and readers leave their critical sections. *)
RcuFairSpec ==
    /\ RcuSpec
    /\ \A r \in Reader : WF_rcuVars(ReadStep(r))
    /\ \A u \in Updater : WF_rcuVars(SyncStep(u))

-----------------------------------------------------------------------------
RcuTypeOK ==
    /\ head \in Reader \cup {Nil}
    /\ idx \in Nat /\ nrThread \in Nat
    /\ list_lock \in Caller \cup {Nil}
    /\ word \in [Reader -> Word] /\ reg \in [Reader -> Word]
    /\ rpc \in [Caller -> ReaderLabel \cup UpdaterLabel]
    /\ \A r \in Reader : rpc[r] \in ReaderLabel
    /\ \A u \in Updater : rpc[u] \in UpdaterLabel
    /\ cursor \in Reader \cup {Nil}
    /\ ridx \in [Caller -> Nat]
    /\ ptr \in Version /\ freed \subseteq Version
    /\ held \in [Reader -> Version \cup {Nil}] /\ old \in [Updater -> Version \cup {Nil}]
    /\ init \subseteq Reader /\ lost \subseteq Reader
    /\ stale \in [Reader -> BOOLEAN]

OnlyRacesLoseLinks ==
    init \subseteq Linked \cup UNION {ReachFrom(r) : r \in lost}

(* What synchronize_rcu guarantees as it is written.  A version is freed    *)
(* under a reader only if the reader had dropped out of the list, or had    *)
(* set the bit of an index that a grace period had already left behind,     *)
(* which takes a second grace period to do harm.  And the list holds every  *)
(* initialised reader except those behind a link that a reader's store of   *)
(* an old word erased.                                                      *)
ReclaimSafe ==
    /\ \A r \in Reader : held[r] \in freed => r \notin Linked \/ (stale[r] /\ idx >= 2)
    /\ OnlyRacesLoseLinks

(* The inductive invariant behind it.  The lock belongs to whoever is between *)
(* taking and releasing it; a reader's word has the bit of its index from     *)
(* store to store, and what it will store back is at most a link short.       *)
LockHeld ==
    /\ \A t \in Caller :
          list_lock = t <=> rpc[t] \in {"find", "append", "wait1", "hop1", "wait2", "hop2"}
    /\ \A u \in Updater : rpc[u] \in {"hop1", "hop2"} => cursor # Nil

WordOK(r) ==
    /\ word[r].bits = IF rpc[r] \in {"deref", "reading", "unstore"} THEN {ridx[r] % 2} ELSE {}
    /\ rpc[r] \in {"store", "unstore"} => reg[r].next \in {Nil, word[r].next}
    /\ rpc[r] = "store" => reg[r].bits = {}
    /\ rpc[r] = "append" => /\ word[r] = EmptyWord /\ cursor # r
                            /\ cursor = Nil => head = Nil
                            /\ cursor # Nil => word[cursor].next = Nil

Words == \A r \in Reader : WordOK(r)

(* Versions are unpublished before they are reclaimed; the index only grows,  *)
(* and has grown twice when a version is reclaimed under a stale reader.      *)
Versions ==
    /\ \A v \in freed : v < ptr
    /\ \A u \in Updater : /\ old[u] # Nil => old[u] < ptr
                          /\ rpc[u] # "assign" => old[u] # Nil
    /\ \A r \in Reader : held[r] # Nil => rpc[r] = "reading"
    /\ \A t \in Caller : ridx[t] <= idx

Past == {"wait2", "hop2", "free"}

TwoFlips ==
    \A r \in Reader : stale[r] =>
        /\ idx >= 1
        /\ held[r] \in freed => idx >= 2
        /\ \A u \in Updater :
              rpc[r] = "reading" /\ held[r] = old[u] /\ rpc[u] \in Past => idx >= 2

(* Before u there is, at or behind its place in the list, the i-th node, with *)
(* the bit u is waiting for.                                                  *)
Ahead(u, i, list) ==
    /\ rpc[u] \in {"wait2", "hop2"}
    /\ ridx[u] = ridx[list[i]] /\ idx = ridx[u] + 1
    /\ \E j \in 1..i : cursor = list[j] /\ (rpc[u] = "hop2" => j < i)

(* The links make up a list.  A reader on it that is not stale has the current *)
(* bit, or an updater has still to pass it; and no updater to free its version *)
(* has passed it.                                                              *)
Chain(list) ==
    /\ IsInjective(list)
    /\ head = IF list = <<>> THEN Nil ELSE list[1]
    /\ \A i \in 1..Len(list) :
          word[list[i]].next = IF i = Len(list) THEN Nil ELSE list[i + 1]
    /\ \A r \in Reader : rpc[r] = "append" => ~Contains(list, r)

Grace(i, list) ==
    rpc[list[i]] \in {"deref", "reading"} /\ ~stale[list[i]] =>
        /\ idx = ridx[list[i]] \/ \E u \in Updater : Ahead(u, i, list)
        /\ held[list[i]] \notin freed
        /\ \A u \in Updater :
              rpc[list[i]] = "reading" /\ held[list[i]] = old[u] /\ rpc[u] \in Past
                  => Ahead(u, i, list)

Listed == \E list \in Seq(Reader) : Chain(list) /\ \A i \in 1..Len(list) : Grace(i, list)

(* What holds the head, the lost nodes and with a node the one behind it holds *)
(* all that are initialised, and the place where a node is to be appended.     *)
Covered ==
    \A S \in SUBSET Reader :
        head \in S \cup {Nil} /\ lost \subseteq S /\ Closed(S) =>
            /\ init \subseteq S
            /\ (\E r \in Reader : rpc[r] = "append") => cursor \in S \cup {Nil}

RcuInv == RcuTypeOK /\ LockHeld /\ Words /\ Versions /\ TwoFlips /\ Listed /\ Covered

(* A grace period that has moved to the new index ends, however often the  *)
(* readers go on entering critical sections: they set the other bit.       *)
GracePeriodEnds == \A u \in Updater : rpc[u] = "wait2" ~> rpc[u] = "free"

(* What the comment on the second loop promises (rcu.h:294-300): checking  *)
(* again after the flip keeps the update side from believing that every    *)
(* reader has left.                                                        *)
NoReadOfFreedVersion == \A r \in Linked : held[r] \notin freed
=============================================================================
