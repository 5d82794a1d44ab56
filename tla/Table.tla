--------------------------------- MODULE Table ---------------------------------
(***************************************************************************)
(* The concurrent hash table of src/table.c.  A bucket is only touched     *)
(* under its spin lock, so what happens to it under the lock is one action *)
(* at the time of the change; `length` is a counter of its own that is     *)
(* updated, under the lock, a step later, and read without any lock.       *)
(*                                                                         *)
(* Threads put, get, remove, map over the table and copy it to an array    *)
(* (src/arr.c); in the end one thread frees it.                            *)
(***************************************************************************)
EXTENDS Sequences, SequencesExt, FiniteSets, FiniteSetsExt, Integers

CONSTANTS
    Thread, Key,
    Value,          \* what callers store; the code lets them store NULL
    NULL,
    size,           \* number of buckets
    Hash            \* the bucket of each key: hash(key) % size

TableAssumption ==
    /\ size \in Nat \ {0}
    /\ Hash \in [Key -> 0..size - 1]
    /\ NULL \notin Thread

VARIABLES
    tb,         \* "live", "freed", or "undefined" after a use of freed memory
    entrys,     \* the entries of each bucket
    length,     \* tb->length
    lock,       \* the holder of each bucket's lock when length is still to be updated,
                \* or while the bucket is copied
    pc,         \* where each thread is
    ret,        \* what its last put, get or remove returned
    idx,        \* the bucket table_map or table_to_array is at
    at,         \* the entry of that bucket which table_to_array is at
    arr,        \* the array of table_to_array: the keys of its elements and nalloc
    steady      \* history: keys in the table since table_to_array began

tableVars == <<tb, entrys, length, lock, pc, ret, idx, at, arr, steady>>
walkVars == <<idx, at, arr>>

Bucket == 0..size - 1
Entry == [key : Key, value : Value]
KeysIn(s) == {s[i].key : i \in DOMAIN s}
AllKeys == UNION {KeysIn(entrys[b]) : b \in Bucket}

TableInit ==
    /\ tb = "live"
    /\ entrys = [b \in Bucket |-> <<>>]
    /\ length = 0
    /\ lock = [b \in Bucket |-> NULL]
    /\ pc = [t \in Thread |-> "idle"]
    /\ ret = [t \in Thread |-> NULL]
    /\ idx = [t \in Thread |-> 0]
    /\ at = [t \in Thread |-> 0]
    /\ arr = [t \in Thread |-> [elts |-> <<>>, nalloc |-> 0]]
    /\ steady = [t \in Thread |-> {}]

(* entry_find: the first entry of the bucket with the key. *)
Find(k) == SelectInSeq(entrys[Hash[k]], LAMBDA e : e.key = k)
ValueOf(k) == IF Find(k) = 0 THEN NULL ELSE entrys[Hash[k]][Find(k)].value

-----------------------------------------------------------------------------
Idle(t) == tb = "live" /\ pc[t] = "idle"
Free(b) == lock[b] = NULL

(* Mutant: the lock is left between the search and the insertion, so that   *)
(* the key may have come in the meantime.                                   *)
table_put_blind(t, k, v) ==
    LET b == Hash[k] IN
    /\ Idle(t) /\ Free(b)
    /\ entrys' = [entrys EXCEPT ![b] = <<[key |-> k, value |-> v]>> \o @]
    /\ lock' = [lock EXCEPT ![b] = t]
    /\ pc' = [pc EXCEPT ![t] = "counting up"]
    /\ ret' = [ret EXCEPT ![t] = NULL]
    /\ UNCHANGED <<tb, length, walkVars, steady>>

(* A new entry goes in front of its bucket, unless a value is found. *)
table_put(t, k, v) ==
    LET b == Hash[k] IN
    /\ Idle(t) /\ Free(b)
    /\ IF ValueOf(k) = NULL
       THEN /\ entrys' = [entrys EXCEPT ![b] = <<[key |-> k, value |-> v]>> \o @]
            /\ lock' = [lock EXCEPT ![b] = t]
            /\ pc' = [pc EXCEPT ![t] = "counting up"]
       ELSE UNCHANGED <<entrys, lock, pc>>
    /\ ret' = [ret EXCEPT ![t] = ValueOf(k)]
    /\ UNCHANGED <<tb, length, walkVars, steady>>

table_get(t, k) ==
    /\ Idle(t) /\ Free(Hash[k])
    /\ ret' = [ret EXCEPT ![t] = ValueOf(k)]
    /\ UNCHANGED <<tb, entrys, length, lock, pc, walkVars, steady>>

(* The first entry with the key is unlinked. *)
table_remove(t, k) ==
    LET b == Hash[k] IN
    /\ Idle(t) /\ Free(b)
    /\ IF Find(k) # 0
       THEN /\ entrys' = [entrys EXCEPT ![b] = RemoveAt(@, Find(k))]
            /\ lock' = [lock EXCEPT ![b] = t]
            /\ pc' = [pc EXCEPT ![t] = "counting down"]
            /\ steady' = [u \in Thread |-> steady[u] \ {k}]
       ELSE UNCHANGED <<entrys, lock, pc, steady>>
    /\ ret' = [ret EXCEPT ![t] = ValueOf(k)]
    /\ UNCHANGED <<tb, length, walkVars>>

(* atomic_fetch_add or atomic_fetch_sub on length, and the unlock. *)
Count(t) ==
    /\ pc[t] \in {"counting up", "counting down"}
    /\ length' = IF pc[t] = "counting up" THEN length + 1 ELSE length - 1
    /\ lock' = [b \in Bucket |-> IF lock[b] = t THEN NULL ELSE lock[b]]
    /\ pc' = [pc EXCEPT ![t] = "idle"]
    /\ UNCHANGED <<tb, entrys, ret, walkVars, steady>>

MapBegin(t) ==
    /\ Idle(t)
    /\ idx' = [idx EXCEPT ![t] = 0]
    /\ pc' = [pc EXCEPT ![t] = "map"]
    /\ UNCHANGED <<tb, entrys, length, lock, ret, at, arr, steady>>

(* table_map hands the address of each value of a bucket to apply. *)
MapBucket(t) ==
    LET b == idx[t] IN
    /\ pc[t] = "map"
    /\ Free(b)
    /\ \E new \in [DOMAIN entrys[b] -> Value] :
          entrys' = [entrys EXCEPT ![b] = [i \in DOMAIN @ |-> [@[i] EXCEPT !.value = new[i]]]]
    /\ idx' = [idx EXCEPT ![t] = (@ + 1) % size]
    /\ pc' = [pc EXCEPT ![t] = IF b = size - 1 THEN "idle" ELSE "map"]
    /\ UNCHANGED <<tb, length, lock, ret, at, arr, steady>>

(* arr_new with the length of this moment. *)
ArrayBegin(t) ==
    /\ Idle(t)
    /\ arr' = [arr EXCEPT ![t] = [elts |-> <<>>, nalloc |-> length]]
    /\ steady' = [steady EXCEPT ![t] = AllKeys]
    /\ idx' = [idx EXCEPT ![t] = 0]
    /\ pc' = [pc EXCEPT ![t] = "array"]
    /\ UNCHANGED <<tb, entrys, length, lock, ret, at>>

(* arr_push: a full array is doubled; one of no elements stays as it is. *)
arr_push(a, k) ==
    [elts |-> Append(a.elts, k),
     nalloc |-> IF Len(a.elts) = a.nalloc THEN 2 * a.nalloc ELSE a.nalloc]

ArrayLock(t) ==
    LET b == idx[t] IN
    /\ pc[t] = "array"
    /\ Free(b)
    /\ lock' = [lock EXCEPT ![b] = t]
    /\ at' = [at EXCEPT ![t] = 1]
    /\ pc' = [pc EXCEPT ![t] = "copying"]
    /\ UNCHANGED <<tb, entrys, length, ret, idx, arr, steady>>

ArrayPush(t) ==
    LET bucket == entrys[idx[t]] IN
    /\ pc[t] = "copying"
    /\ at[t] <= Len(bucket)
    /\ arr' = [arr EXCEPT ![t] = arr_push(@, bucket[at[t]].key)]
    /\ at' = [at EXCEPT ![t] = @ + 1]
    /\ UNCHANGED <<tb, entrys, length, lock, pc, ret, idx, steady>>

(* Mutant: the walk ends a bucket early. *)
ArrayUnlockShort(t) ==
    LET b == idx[t] IN
    /\ pc[t] = "copying"
    /\ at[t] > Len(entrys[b])
    /\ lock' = [lock EXCEPT ![b] = NULL]
    /\ at' = [at EXCEPT ![t] = 0]
    /\ idx' = [idx EXCEPT ![t] = (@ + 1) % size]
    /\ pc' = [pc EXCEPT ![t] = IF b >= size - 2 THEN "copied" ELSE "array"]
    /\ UNCHANGED <<tb, entrys, length, ret, arr, steady>>

(* The end of a bucket: the next one, or the end of the copy. *)
ArrayUnlock(t) ==
    LET b == idx[t] IN
    /\ pc[t] = "copying"
    /\ at[t] > Len(entrys[b])
    /\ lock' = [lock EXCEPT ![b] = NULL]
    /\ at' = [at EXCEPT ![t] = 0]
    /\ idx' = [idx EXCEPT ![t] = (@ + 1) % size]
    /\ pc' = [pc EXCEPT ![t] = IF b = size - 1 THEN "copied" ELSE "array"]
    /\ UNCHANGED <<tb, entrys, length, ret, arr, steady>>

(* The caller is done with the array. *)
ArrayDestroy(t) ==
    /\ pc[t] = "copied"
    /\ arr' = [arr EXCEPT ![t] = [elts |-> <<>>, nalloc |-> 0]]
    /\ steady' = [steady EXCEPT ![t] = {}]
    /\ pc' = [pc EXCEPT ![t] = "idle"]
    /\ UNCHANGED <<tb, entrys, length, lock, ret, idx, at>>

(* When nobody is inside.  The loop frees the next entry instead of the one *)
(* it is at, and then goes on from there: a chain of two is read after its  *)
(* free (table.c:111-114).                                                  *)
table_free ==
    /\ tb = "live"
    /\ \A t \in Thread : pc[t] = "idle"
    /\ tb' = IF \E b \in Bucket : Len(entrys[b]) > 1 THEN "undefined" ELSE "freed"
    /\ UNCHANGED <<entrys, length, lock, pc, ret, walkVars, steady>>

TableNext ==
    \/ \E t \in Thread :
          \/ \E k \in Key :
                table_get(t, k) \/ table_remove(t, k) \/ \E v \in Value : table_put(t, k, v)
          \/ Count(t) \/ MapBegin(t) \/ MapBucket(t)
          \/ ArrayBegin(t) \/ ArrayLock(t) \/ ArrayPush(t) \/ ArrayUnlock(t) \/ ArrayDestroy(t)
    \/ table_free

TableSpec == TableInit /\ [][TableNext]_tableVars

-----------------------------------------------------------------------------
(* Every call takes effect, with its result, at the moment its bucket is    *)
(* changed or read.                                                         *)
Map == INSTANCE AbstractMap WITH map <- [k \in Key |-> ValueOf(k)], result <- ret

ImplementsMap == Map!Spec

EntryPlaces == UNION {{b} \X DOMAIN entrys[b] : b \in Bucket}

LengthExact ==
    LET At(l) == Cardinality({t \in Thread : pc[t] = l})
    IN length + At("counting up") - At("counting down")
         = Cardinality(EntryPlaces)

(* length counts the entries, but for those threads that have linked or    *)
(* unlinked one and not counted it yet; on that count rests the memory of  *)
(* a copy.  One that runs beside changes has every key once that was there *)
(* all the time, and no key twice.  It is written within its memory,       *)
(* although entries are added meanwhile, unless the table was empty when   *)
(* its length was read.                                                    *)
ArrayComplete ==
    /\ LengthExact
    /\ \A t \in Thread :
          LET elts == arr[t].elts IN
          /\ pc[t] = "copied" => steady[t] \subseteq ToSet(elts)
          /\ IsInjective(elts)
          /\ arr[t].nalloc > 0 => Len(elts) <= arr[t].nalloc

(* The inductive invariant behind the two: an entry is in the bucket of its    *)
(* key, and a key has one entry; ...                                           *)
TableTypeOK ==
    /\ tb \in {"live", "freed", "undefined"}
    /\ entrys \in [Bucket -> Seq(Entry)]
    /\ length \in Int
    /\ lock \in [Bucket -> Thread \cup {NULL}]
    /\ pc \in [Thread -> {"idle", "counting up", "counting down", "map", "array", "copying", "copied"}]
    /\ ret \in [Thread -> Value \cup {NULL}]
    /\ idx \in [Thread -> Bucket]

OneEntry ==
    \A b \in Bucket : \A i, j \in 1..Len(entrys[b]) :
        /\ Hash[entrys[b][i].key] = b
        /\ entrys[b][i].key = entrys[b][j].key => i = j

TableInv == TableTypeOK /\ OneEntry /\ LengthExact /\ IsFiniteSet(EntryPlaces)

(* ... and a copy is made of the buckets before the one it is at and, while    *)
(* that one is locked, of its first entries.                                   *)
CopyTypeOK ==
    /\ at \in [Thread -> Nat]
    /\ arr \in [Thread -> [elts : Seq(Key), nalloc : Int]]
    /\ steady \in [Thread -> SUBSET Key]

Copying(t) == pc[t] \in {"array", "copying", "copied"}
Copied(t, k) == \E i \in 1..Len(arr[t].elts) : arr[t].elts[i] = k
FirstEntries(t) == {entrys[idx[t]][j].key : j \in 1..at[t] - 1}

CopyPlace ==
    \A t \in Thread : pc[t] = "copying" =>
        lock[idx[t]] = t /\ at[t] \in 1..Len(entrys[idx[t]]) + 1

SteadyIsThere ==
    \A t \in Thread : Copying(t) =>
        \A k \in steady[t] : \E i \in 1..Len(entrys[Hash[k]]) : entrys[Hash[k]][i].key = k

CopySoFar ==
    \A t \in Thread :
        /\ pc[t] \in {"array", "copying"} =>
              /\ \A k \in Key : Copied(t, k) =>
                    Hash[k] < idx[t] \/ (pc[t] = "copying" /\ k \in FirstEntries(t))
              /\ \A k \in steady[t] : Hash[k] < idx[t] => Copied(t, k)
        /\ pc[t] = "copying" => \A k \in FirstEntries(t) : Copied(t, k)
        /\ pc[t] = "copied" => \A k \in steady[t] : Copied(t, k)

CopyFits ==
    \A t \in Thread :
        /\ \A i, j \in 1..Len(arr[t].elts) : arr[t].elts[i] = arr[t].elts[j] => i = j
        /\ arr[t].nalloc > 0 => Len(arr[t].elts) <= arr[t].nalloc

CopyInv == CopyTypeOK /\ CopyPlace /\ SteadyIsThere /\ CopySoFar /\ CopyFits
===============================================================================
