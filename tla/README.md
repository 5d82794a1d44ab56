# myclib in TLA+

TLA+ modules for the parts of myclib that are hard to test: its locks, its
thread pool and asynchronous works, its timers and messages, its supervisor, the
client and server built on it, its containers, and the codings, the log file
and the tools of the library. Every module is written from the C source. TLC
checks it on small instances; TLAPS proves the central results for instances of
every size.

## 1. The system

myclib is a C library with an application, `app/sercmd`, on top. A typical
process has one event-loop thread (`event.c`), which ticks the timer wheel
(a timerfd), reads message contexts (`com_msg.c`) and assigns asynchronous works
(`async_work.c`), and the worker threads of a pool (`thread_pool.c`), which run
the works and report back through a message context.

| component | state | operations | called by / shared with | what is hard | module |
|---|---|---|---|---|---|
| MCS lock, `mcslock.c` | tail pointer, a node per call | lock, unlock | any threads | the window between exchange and link; reused nodes | `MCSLock`, `FifoLock` |
| RCU, `rcu.h` | list of reader nodes (pointer and two bits in one word), index, lock | init, clean, read lock/unlock, dereference, assign, synchronize | readers, updaters | a flip between load and store; word updates racing with list appends | `RCU` |
| thread pool, `thread_pool.c` | request list, semaphore, spin lock, stop | new, append, delete, the worker | event loop, workers | list and semaphore are two counters; EINTR; deletion under workers | `ThreadPool` |
| async work, `async_work.c` | timeout list, clock, reference count and flags of each work, pending SIGUSR1 | init, assign, timeout check, worker, signal handler | timer wheel calls the check, pool runs the work, hooks send messages | deadline against completion; jump out of a handler; references | `AsyncWork` |
| timer wheel, `timer_wheel.c` | current time, a sorted list per slot | add, del, tick, destroy | event loop ticks, any thread adds | time read before the lock; several turns in a slot; deletion during a tick | `TimerWheel` |
| message contexts, `com_msg.c`, `buf.h`, `event.c` | pipe or socket, receive cache, peer address | send, recv, parse, deal | event loop reads, any thread sends | frames cut by reads, full cache, failing handlers | `ComMsg` |
| hash table, `table.c`, `arr.c` | buckets under locks, a length beside them | put, get, remove, length, map, to_array, free | any threads | the length is updated and read at other moments than the buckets | `Table`, `AbstractMap` |
| ring, `ring.h` | storage, begin, end, count | push, tighten, walk | one owner | empty and full look alike; growth while wrapped | `Ring`, `AbstractQueue` |
| memory pool, `mpool.c` | chain of blocks, list of large allocations, cleanup list | alloc, nalloc, pfree, cleanup, reset, destroy | one owner (the lock is compiled out) | alignment, unsigned room, lists inside the pool | `MPool` |
| domain trie, `trie.c` | tree of labels | insert, remove, get | one owner | wildcards by order of insertion; removal on the way back up | `Trie` |
| lists, `list_generic.h` | circular lists | add, del, walks | wheel, pool, works | - | `LinkedList` |
| timer list, `timer_list.c` | sorted list from `g_head`, a mutex | start, create, discard, tick | one thread and its SIGALRM handler | the handler interrupts sections under the mutex; seconds and microseconds mixed; callbacks that discard | `TimerList` |
| supervisor, `task.c` | `child_pid`, pid file | start, signal handler, exit | parent, child, whoever sends signals | signals between fork, store and wait; reused process numbers; inherited handlers | `Task` |
| AES-CBC, `crypto.c` | the two vectors | encode and decode with PKCS#7 and zero padding | two ends | full last blocks; vectors that drift apart | `AesCbc` |
| RSA, `crypto.c` | two key files | generate, encrypt and decrypt a text | callers | files written one after the other; a text in pieces | `RsaText` |
| TLV, `tlv.h` | a table of types at each end | register, set, get | two ends | 16-bit lengths; types replaced under way | `Tlv` |
| DNS responses, `dns.c` | none | parse, dump | one caller | responses cut off at any byte | `Dns` |
| memory checker, `memchk.c` | table of descriptors, free list, guards | alloc, calloc, realloc, free, leak | one owner | places used again; descriptors that wander | `Memchk` |
| `list_sort`, `list_head.c` | circular list | add, add tail, sort | one owner | runs that are short or missing; stability | `ListSort` |
| log file, `logger.c` | file, stream, level | log, open, set level | any threads; crashes | cutting a file that others write | `Logger` |
| `tools/muniq` | position in a text | one pass over a file | `muniq.sh` | groups of lines; the last line | `Muniq` |
| `app/sercmd` | socket path, request queue, quit pipe | start, serve, quit; connect, ask, leave | servers and clients | quit as a message to itself; a server pushed off its path; reused client addresses | `Sercmd` |

Other parts (text conversion, tracing, wrappers, third-party code) are in
`PROJECT.json` with the reason they are left out.

Message flow: `event_loop` -> `timer_wheel_tick` -> `async_work_timeout_check`
-> SIGUSR1 to a worker and the timeout hook; worker -> success or fail hook ->
`cmsg_send` -> `event_loop` -> `cmsg_recv_and_deal` -> the handler.

`PROJECT.json` lists the components, the hazards with their lines, the runs, the
source lines of every definition, the findings and the theorems.

## 2. Modules and how they correspond to the code

State variables have the names of the C fields where there are such fields;
variables marked *history* in the modules observe and are read by no guard. An
action is a whole handler when nothing can come between its steps (single-owner
containers, sections under a lock), and otherwise one access to shared memory,
with a `pc` for the place in the function. Operators commented `Mutant:` are
plausible bugs used to test the properties and take part in no specification;
each stands before the definition it is a wrong version of.

* **FifoLock** - the promise of a queue lock: arrive, be granted in order, leave.
* **MCSLock** - `mcslock_lock` and `mcslock_unlock`, one action per atomic access,
  nodes with arbitrary contents before the call. `queue` is the order of the
  exchanges. A refinement mapping (`holding` = threads past the last access of
  lock and before the last of unlock) makes it implement `FifoLock`.
* **RCU** - a reader's word is a record (`next`, `bits`), loaded and stored whole
  as `rcu_set_nesting` and `rcu_unset_nesting` do; `synchronize_rcu` is two walks
  with a flip between. `freed` is what updaters reclaim afterwards, `lost` the nodes
  to which no link leads any more through a store of an old word. The walk that a
  joining thread makes to the end of the list is its result, the last node.
* **ThreadPool** - append and worker, with the semaphore, the list and the spin
  lock as separate variables; creation may fail half-way; deletion may free the
  pool under its workers, whose later steps are then undefined.
* **LinkedList** - `list_generic.h` lists as sequences and the walks over them.
* **AsyncWork** - event-loop thread, workers and the SIGUSR1 handler. The pool
  is abstracted to what `ThreadPool` establishes (a FIFO queue with a bound, each entry
  taken once); the tick to `TimeoutMark`. A signal is a pending entry per
  thread; one already pending absorbs the next; a jump leaves the signal blocked.
* **TimerWheel** - add in two steps (load of the time, insertion); a tick takes the
  slot's lock, goes over the slot one entry per action, because
  `timer_wheel_del` marks without the lock, and calls what it took. `latest` is
  the scan that has to take a timer, `born` the order of the insertions.
* **ComMsg** - bytes are pairs (message, place), so that losing, doubling or
  tearing is visible; a pipe is one chunk, a socket a sequence of datagrams which
  a short read truncates. The event loop is the action `event_loop`.
* **AbstractMap**, **Table** - `length` is counted in a step of its own under the
  bucket's lock; `map` goes bucket by bucket, `to_array` locks a bucket and pushes
  its entries one by one. Table implements AbstractMap: calls take effect in the
  action that changes the bucket. `steady` records, for a copy under
  way, the keys that were there when it began and that nobody has removed since.
* **AbstractQueue**, **Ring** - the ring as coded; its walk implements the queue.
* **MPool** - addresses are (block, offset); `live` and `malloced` are the ghosts
  of what callers hold; allocation may fail; `Fits` has the unsigned conversion.
* **Trie** - a map from paths to nodes whose children are in order of creation.
  Removal is written with the paths whose values the recursion clears. A look-up
  calls itself at most once per level, since the labels of children differ: it is
  written as the wildcard values handed down the levels (`Entered`) and the
  results handed back up (`Returned`).
* **TimerList** - the thread's accesses one by one, the handler between any two of
  them: one action per round of its loop under the mutex, per called and per readded
  timer, during which the thread stands still. Links are kept as links,
  because an intruding tick breaks the list; walking into freed memory sets
  `undefined`, where behaviours end. `asked` and `calls` record what discards
  promised.
* **Task** - parent and children with the handlers they have at each moment; a
  process number stands for a child, a zombie or a stranger. A signal hits the
  parent in any state (`do_signal`), a child by `termed` and `ChildTerminated`.
* **Sercmd** - a message is a request or answer as a whole (its bytes are
  `ComMsg`'s subject). A server is its set-up (`try` three times), `epoll_wait`,
  and one action per event; a client the steps of `cmdline` mode.
* **AesCbc** - two ends with a vector each. OpenSSL is modelled by its promise:
  a block of ciphertext remembers its plain block and the block it is chained to,
  and is junk behind any other. Paddings and lengths are computed as coded.
* **RsaText** - a key pair is a number and each of the two files holds one or none;
  generation stops at each point where it can fail, and either `fclose`, which nobody
  looks at, may leave its file without a key (`Closed`). The pieces of a text, the
  room for them and the `strlen` walk that joins them are computed as coded; a
  decryption goes piece by piece, and the files may be replaced meanwhile. With a key
  that is not the ciphertext's, a piece fails or comes out as any bytes that fit one.
* **Tlv** - the bytes between a sender and a receiver, with bytes of a small base,
  so that lengths wrap around within a few bytes. Behind the last byte that was
  sent the receiver reads its caller's memory: from there on nothing is claimed.
* **Dns** - a server's message, and the first bytes of it that were received; names,
  questions, records, `dns_resp_parse` and the dump over these bytes. Pointers in
  names end the name, as in the code, which does not follow them.
* **Memchk** - hash chains, free list and guards; the C library puts a block
  wherever there is room, the program releases and writes over what it likes.
  Chains are sequences, since `hlist` is not part of the repository.
* **ListSort** - the links themselves, with one action per pass, per search for
  the second run and per node taken.
* **Logger** - one action per call of stdio or the system (`fflush`, `fstat`, `memmove`
  and `ftruncate` on the file, `fseek`, `fprintf`), several threads, a stream whose
  buffer a crash loses. `max_line` may be set to anything: a file that is to be cut
  and is too short for it makes the count of `memmove` negative, and the model stops
  there (`ruined`). That a buffer fills in the middle of a line is left out.
* **Muniq** - a text as bytes; a round of the loop of `main` is an action. The
  recursive search for a group is the choice of the largest size that repeats. The
  text is mapped in pages: when its length is a multiple of one, `strchr` and `memcpy`
  read behind the mapping of a last line without newline, and the model stops there
  (`astray`).
* **MC...** - instances for TLC. `MCLocks`, `MCTimers`, `MCContainers`, `MCProcesses`
  and `MCLibrary` hold several components that share nothing: a behaviour picks
  one (`which`), the others stand still. They extend the modules about which
  theorems are proved (`MCLocks` and `MCTimers` two each, `MCProcesses` three,
  `MCContainers` four, `MCLibrary` six), so that runs and theorems speak of the same
  definitions, and instantiate the others.
* **SeqLemmas**, **Locks_proofs** (MCSLock and RCU), **Timers_proofs** (TimerWheel and
  TimerList), **Containers_proofs** (Ring, MPool, Table and Trie), **Processes_proofs**
  (Task, Sercmd and ComMsg), **Library_proofs** (Memchk, Logger, Tlv, AesCbc and
  RsaText), **ThreadPool_proofs** and **AsyncWork_proofs** - lemmas and proofs (section 6).

## 3. Runs, bounds, and why they are enough

| run | instance | what could not happen with less |
|---|---|---|
| `locks`, lock | 3 threads | an owner, a waiter and a newcomer in the exchange-link window, with both kinds of stale node |
| `locks`, RCU | 2 readers, 1 updater, 2 grace periods, 3 registrations | one reader joins while the other rewrites its word; an index goes stale over two flips |
| `thread_pool` | 2 workers, 3 callers, limit 1 | full pool, list longer than the limit, a refusal, two workers past the semaphore |
| `async_work` | 2 works, 2 workers, limit 1, 3 ticks | works expiring queued, running and finished; refusal; a worker interrupted once taking another work |
| `timers`, wheel | 3 timers, 2 slots, periods 0, 1, 3, 3 ticks | two turns in one slot, equal times, insertion after the scan |
| `timers`, list | 2 timers, 1 target, seconds of 2 parts, delays of 1 and 3 parts, 2 units of time | a tick in each step of both sections, callbacks on taken and untaken timers, a delay below and one above a second |
| `containers`, ring | room for 3, growing to 6 | a ring full at every offset |
| `containers`, pool | 3 blocks of 12 bytes, sizes 0, 3, 7 and large | block ends hit by aligned and unaligned sizes, reset over large allocations |
| `containers`, trie | 7 names of up to three labels | wildcards beside and above names, names inside names, and a name that goes on behind a "*" |
| `containers`, table | 2 threads, 3 keys in 2 buckets, 2 values | colliding keys, a copy or map beside a change, an empty table |
| `processes`, task | 2 process numbers, any number of children | a stale `child_pid` free, taken by a stranger or by the next child |
| `processes`, sercmd | 2 servers, 2 client numbers, one used twice, queue of 1 | a server pushed off its path, a request behind a quit, a sender that waits for room, a killed client's number used again |
| `processes`, messages | 4 messages of 0, 1 or 3 bytes, header 2, cache 5, pipe 9, 2 senders | largest frame as large as the cache, cuts in header and payload, a wire longer than the cache |
| `library`, AES | bytes 0 to 2, blocks of 2, messages of up to 3, two of them | messages that fill a block, that do not, that end in zeros; a second one chained to the first |
| `library`, RSA | pieces of 2, texts of up to 4, 2 pairs | a last piece that is full and one that is not; a pair half replaced or left empty before and during a decryption; junk in the first piece, in the second and in both |
| `library`, TLV | bytes of base 3, 2 ids, all six types, 2 messages | a length that wraps around, with a message behind it |
| `library`, DNS | 4 names, 3 records, up to 2 questions and 2 answers, 5 bytes for a name, every cut | names that just fit and do not, records of other sizes before an address, cuts in every field |
| `library`, memory checker | 3 places, 2 chains, 2 blocks at a time | two descriptors in a chain, a place used again |
| `library`, sort | 3 keys, up to 5 nodes | three passes, a last run that is short or missing, equal keys, a second sort of a changed list |
| `library`, muniq | texts of up to 8 bytes over 2 characters, options 0 to 2, pages of 6 | a group of two lines that is there twice, with and without its last newline; a text that fills its page |
| `library`, log | 2 threads, lines of 1 and 5 bytes, cut above 4 or above 2 by 3, 5 lines | two cuts, threads at every point of each other's cut, crashes and restarts in between; lines shorter than a cut and longer, which a cut must not tear; a file too short for its cut |

Rows with a second name are parts of one run: they share nothing, a behaviour
picks one at its start (`which`) and the others stay as they began. `MCLocks` and
`MCProcesses` state each component's fairness for its own behaviours. Symmetric are timers of
the wheel and of the list, and threads, values and colliding keys of the table;
none of these runs uses symmetry with a liveness property. A view leaves out
the fields of unused timers and locals without a meaning.

What the properties say:

* *locks*: `MutualExclusion`, `ImplementsFifoLock` (entry in the order of the
  exchanges), and `NoStarvation`. `ReclaimSafe` characterises when a version may be
  freed under its reader: the reader's node is off the list, or its bit belongs to
  an index left behind by a flip and a second grace period has passed; and it
  ties nodes off the list to a link that was overwritten, or given up with the old
  node of a thread that had lost it so and joins again. `GracePeriodEnds`: the second
  loop ends although readers come and go. Of the first loop nothing is claimed:
  a reader may be inside at each look.
* *thread_pool*: `NoEmptyPop` (the worker's `assert`);
  `QueueBound` (the list may outgrow `max_requests`, by no more than the workers);
  `ExactlyOnce`; `AcceptedRuns`.
* *async_work*: `RefExact` equates the counter with those who will still drop a
  reference, leaks included; `AnsweredOnce`; `JumpsIntoLiveFrame`;
  `EveryWorkAnswered`. The first two except works hit by the race of run
  `async_work_ref`, through the history variable `raced`.
* *timers*, wheel: `WheelInv` (each timer in its place, slots sorted, equal times in
  order: insertion in front and pushing in front cancel), `NeverMissed`,
  `DeletedCalledOnce`. List: `ListIntact` (all timers accounted for, sorted,
  none freed while in use) and `DiscardedStaySilent` (a timer that a returned discard has
  met on the list is called no more, or once when that was asked for), both unless a
  tick intruded; `TicksOnTime` (no due timer is left behind one that is not due in
  the odd order of `timer_cmp_tv`, and how early a call can be).
* *containers*: `ImplementsQueue` of the ring; `PoolSound` (no two allocations
  overlap, the pool's lists are in its own memory, and it can give back all it
  has); `ExactOrWildcard` and `OnlyPathLosesValues` of the trie; of the table
  `ImplementsMap` (atomic calls) and `ArrayComplete` (the counter is exact up to the
  threads between link and count; a copy has every key that stayed, and stays in
  its memory when it started with room).
* *processes*: `SignalsItsChild` (a child is taken along, except between fork and
  store, and where a signal to a foreign process can come from),
  `EveryEndAnswered`; `AnswerForOwnRequest` across reuse of client numbers,
  `NoClientForgotten` (a waiting client is owed exactly one message while its
  server runs), `EveryClientServed`; `DealtAsSent` (the messages dealt with are the
  first ones, whole; behind their last byte every byte follows the one sent before it;
  datagrams are whole frames, and answers go to the one that asked) and
  `EveryMessageDealt`. After a handler fails only the stream half of `DealtAsSent` is
  claimed: `cmsg_recv_and_deal` then returns without `buf_move`.
* *library*: `ReadsBack` (AES: all of a message, or with zero padding all but its
  zeros, up to the first message that fills its last block and is padded with
  zeros); `TextReadsBack` (RSA: a decryption that has read the key of the
  ciphertext succeeds and gives the text encrypted, also when the files are replaced
  meanwhile; with any key, ciphertext and pieces keep to their memory, the NUL behind
  the last one included); `StaysInStep` (TLV:
  a message the two ends agree on is read as it was sent, whatever came before);
  `ParsedAsMeant` (DNS: an answer exactly when all of it came, the dump up to the
  cut); `LeaksTold`; `SortedStably` (links, order and stability); `LogKept` (the file
  and the stream are the latest lines, whole, within the largest bound and a line of each
  thread; not after a race of cutter and writer, nor after a crash inside a cut; a count
  is negative only with a bound below what a cut takes off). A cut is only sure to take
  off `del_cnt` + 1 bytes, so of a longer line the bytes behind these are not counted:
  a file of legal lines of 2000 bytes behind short ones can outgrow its bound by more
  than a line of each thread, and the property says by how much. `DropsRepeats` (for
  texts without empty lines: the output byte for byte, against a definition over lines,
  and the exit status).

Deadlock is checked in `locks`. It is switched off where the
model may stop: a deleted pool, all works answered, the bound on ticks, time or
messages reached, a freed table, undefined behaviour of the timer list, all
servers exited, a text or a response at its end. There the liveness properties do that work.

`PoolSound` excepts a pool in which a cleanup's data went over its block
(`overrun`): `mpool_cleanup_add` compares its size with nothing.

### Where code and comment disagree

Five runs expect a violation, each of one statement quoted from the source:

* `rcu_stale`: rcu.h:294-300 says the second look avoids missing a reader. A
  reader that loaded the index before a flip and stores its bit after it is
  missed by the next grace period, and its version is freed.
* `async_work_ref`: async_work.c:141, 170 and 204 give one reference to the list
  and one to the pool. A tick between the worker's test of `is_timeout` and
  its unlinking makes both sides drop the list's.
* `async_work_interrupt`: async_work.c:154 takes SIGUSR1 to interrupt timed-out
  works. `longjmp` leaves it blocked: the same thread is not interrupted again.
* `timer_list_lock`: timer_list.c:116 says a tick returns when the lock is taken.
  `pthread_mutex_trylock` reports that with a positive number, and line 115
  tests for a negative one.

* `logger_trace`: logger.c:157 asserts a level up to `DEBUG_LOG`, but `TRACE_LOG` is
  above it, can be set and is logged at: the first such message ends the process.

Met while modelling and not given a run: timer_list.c:98 compares seconds with
`tv_usec`, so parts of a second do not count and a timer of half a second is
called at the next tick (`EarlyByTwoFractions` says by how much); table.c:163
takes a NULL value for an absent key (the table is checked for callers that
store none); table.c:112 frees the entry after the one it is at and reads it
next (`tb = "undefined"`); cmdline.c:69 answers a restart with ok and does nothing;
crypto.c:678 sends an unencrypted block of zeros behind data that fills its last
block; memchk.c:166 does not look at the guards of what it frees, and
memchk.c copies nothing in `mem_realloc`; the mutex of logger.c is commented out, and
`set_max_log_line` takes bounds below the 1024 bytes that a cut takes off, with which
line 121 can compute a negative count; crypto.c:80-83 promises that the pair is
generated and saved to the files, and `generate_rsa_key_to_file` returns 0 with an
empty file when `fclose` (105, 114) cannot write; muniq.c copies a NUL for a last line
without a newline, and reads behind its mapping (137, 144, 170) when the text fills its
last page; the example at muniq.c:13-24 leaves out a last line `3333` that repeats
nothing, while the code keeps it, as `DropsRepeats` says.

What the code does wrong, in the models, and what no property claims to catch
(the hazards without properties): a removal from the trie clears the values on its
path, which `OnlyPathLosesValues` permits (trie.c:117); a discard by a callback does not
meet the timers that the running tick has taken (timer_list.c:196); a child of a task
that gets SIGTERM before its own set-up ends with 0 and so ends the supervisor, which
counts as an answer (task.c:97); one of the two RSA files may be old or empty
(crypto.c:107); a log file that is written or cut by others during a cut, or left in
the middle of one by a crash, is torn (logger.c:106, 125). Zero padding of data that
fills its blocks (crypto.c:678) is excepted by `ReadsBack`.

## 4. Fairness

* `MCSLock`: weak fairness of every step after the first of a call, and of the owner's: threads run
  and owners unlock. Nobody has to ask for the lock (`LockInitNode` is not fair).
* `RCU`: weak fairness of the steps within a call and of readers leaving their
  sections, the condition RCU puts on its users. Entering is not fair.
* `ThreadPool`: weak fairness of threads; strong fairness for taking the spin
  lock and the semaphore, since a thread that keeps trying gets them in the end
  (neither has an order) and not every wait is interrupted.
* `AsyncWork`: the event loop, the workers, ticks and the delivery of signals are
  weakly fair. A work function need not return, which is what timeouts are for.
* `ComMsg`: the event loop is weakly fair; nobody has to send.
* `Task`: weak fairness of the parent's own steps, of a child's set-up, and of
  the arrival of signals already sent. `func` need not return, nobody has to
  signal, and no other process has to come or go.
* `Sercmd`: weak fairness of servers and of clients once started. Clients have
  no timeout, so one whose server exits waits for ever; the property says so.
* `TimerList` has safety properties only: whether a tick comes is the kernel's matter.
  So have the modules of `library`, whose calls return by themselves.

## 5. Assumptions

Memory is sequentially consistent: each C11 atomic or volatile access is one
step in a global order. For the lock this costs little (acquire and release
on every hand-over). For RCU it leaves out reorderings of a reader's store with
its later loads, for which the code has no barrier. `malloc` returns memory except where a failure
is an action (`MPool`). Users keep the documented contracts: an uninitialised
node per lock call, only repeating timers deleted, `rcu_clean` and `table_free`
when nobody is inside, frames no larger than the cache, names of at least one
label (`...Assumption` in each module), no NULL values in a table, strings without a
NUL inside, RSA keys of one size, one thread in the memory checker, which has no lock.

`TimerList`: the process has one thread (the mutex is the only protection, and
SIGALRM comes to that thread), callbacks neither block nor tick, and the clock
is past the first days of 1970, so that a count of seconds is never a count
of microseconds (`Epoch >= Second * Second`). `Task` starts after `save_pid`; a
signal before that has nothing to clean up. An address that `malloc` returned before and a
process number that was used before may come again.

## 6. What is proved

* `Locks_proofs`, the lock, for any set of threads: `Inductive`, `TypeCorrect`,
  `Exclusive`, `Implements`. Mutual exclusion is not inductive: from it alone
  nothing says that an owner about to hand over has a successor that waits. `IInv` adds the
  shape of the queue (`QueueInv`), what each node's `next` is in terms of its
  successor's place in the code (`LinkInv`), and that every thread but the first is
  held back by its own flag (`TurnInv`). One lemma per action shows that `IInv`
  is preserved; `StepRefines` shows that an exchange is an arrival, a spin's end
  a grant, a successful CAS or the hand-over a departure, everything else a stutter.
* `Locks_proofs`, RCU, for any readers, updaters, updates and joins: `RcuInductive`,
  `GraceProtects`. Neither half of `ReclaimSafe` says where an updater is in its walk.
  `RcuInv` does: the links from the head make up a list without repetition (`Chain`),
  and for a node on it that is in a section and not stale, an updater that has
  flipped the index and unpublished the reader's version is still at or before it
  (`Grace`, `Ahead`); `WordOK` gives the bit that stops the updater there. Stores
  only cut the list, by `StoreChain`. `TwoFlips` counts the flips a stale bit needs
  to do harm. `Covered` says that what is closed under links and holds the head and
  the lost nodes holds every reader whose `rcu_init` succeeded.
* `ThreadPool_proofs`, for any finite set of workers, any requests and any
  limit: `Inductive`, `TypeCorrect`, `AssertNeverFails`, `Bounded`, `HeldOnce`.
  The key is `Accounting`: the length of the list is the semaphore's value plus
  the workers between `sem_wait` and their pop plus one for an append between its two steps;
  `LockInv` says who may be in that position, `AdmissionInv` that a comparison
  with the limit stays valid until the post, `PlacesInv` where a request is.
  The proofs work with the cardinality of `Permitted` under one worker more or
  less, from the facts of `FiniteSetTheorems`.
* `AsyncWork_proofs`, for any works, workers, pool limit and clock: `Inductive`, `Refs`,
  `Answered`, `Jumps`. `RefExact` counts future droppers of a reference, and
  what they will do depends on where everybody is: `OnePlace` says who has a work,
  `OneList` that it stays on the timeout list until it is marked or its worker takes
  it off (this is what the race breaks), `OneSignal` where its SIGUSR1 can be,
  `OneHook` that after a reported result nobody else will report one.
* `Timers_proofs`, wheel, for any timers, periods and number of slots: `Inductive`, `InPlace`,
  `Missed`, `Deleted`. `Placed` makes a timer's place a function of its state and time.
  `Ordered` gives a slot's order (by time, then latest insertion first) and, for a
  sweep under way, that what is left in the slot was inserted before what it
  took of the same time: that is why pushing in front turns equal times round. `Awaited` names a scan
  for each linked timer; `TickUnlock` keeps it because the first timer of the
  swept slot is not due and the slot is sorted, and an insertion finds one by
  lemma `Turn` (any `solt_nb` consecutive ticks visit every slot).
* `Timers_proofs`, timer list, for any finite set of timers, any targets, delays, number of parts of
  a second and bound on the time: `ListInductive`, `Intact`, `Silent`, `OnTime`. `ListIntact` walks
  over the links, and only a list that exists can be walked: `Sound` says that one does,
  `OneList` that the links determine it, so that `Chain` is it (`ChainIs`). `ListInv` is in two
  parts. `InHandler` is what the handler keeps up by itself, whatever it interrupts: it
  finds the lock free or taken and works on what it took; this gives `OnTime` also for a
  tick that intrudes. `Whole` holds until one has: where the thread's walks stand in the
  list (`AtPlace`), what a discard under way has marked (`Marking`), what is still owed to
  it (`Promised`). The order is by seconds and then parts, and the comparison mixes them:
  `ExpiredTimes` bounds how early a call is, and needs `Epoch >= Second * Second`.
* `Containers_proofs`, ring, for any size at the start: `Inductive`, `Implements`. The mapping to the
  queue is what the walk meets; that a push adds to its end and a tighten takes
  from its front through wrap-around and growth needs only that indices, count
  and room fit together (`IInv`).
* `Containers_proofs`, pool, for any sizes, block size, header, node, limit and alignment:
  `PoolInductive`, `PoolIsSound`. `PoolInv` adds to `PoolSound` that every block's
  `avail` is behind its header, not only where something lies, and that a large allocation
  is noted once. `Aligned` says that rounding up goes over no multiple of the alignment:
  this is why a block that is full up to its end stays so, and why the room
  may be compared unsigned. `Keeps` is what one `alloc_small` does, and
  `mpool_cleanup_add` is two of them in a row.
* `Containers_proofs`, table, for any finite set of threads, any keys, values other than NULL,
  number of buckets and hash function: `TableInductive`, `TableImplements`. A call is one
  of the map's because a key has at most one entry, in its own bucket (`OneEntry`):
  then the entry in front of the bucket or the one unlinked is the only one
  that `ValueOf` can mean. `LengthExact`, the counter's part of `ArrayComplete`, is part of
  the invariant. A caller that stores NULL cannot tell its entry from none; for it the
  calls are still sound, but `table_map` may then make a key come or go.
  `CopyInductive`, `CopyComplete`: a copy holds the lock of the bucket it is at, so only
  other buckets change, and a key new in one of those was not copied before. The keys of
  `steady` stay in their buckets; so it has those of the buckets behind it and the
  first ones of its own (`CopySoFar`). Its memory doubles in time (`CopyFits`).
* `Containers_proofs`, trie, for any labels, names of at least one label and values:
  `TrieInductive`, `LookedUp`, `PathLosesValues`. `ChildrenOnce` ties the lists of children
  to the nodes there are; with it a removal, which only looks at the last child of
  each level, takes away no node that is used. The longest prefix with a node is found, and none
  behind it has one (`DepthIs`, `NothingBelow`). What the levels hand down and back
  up are recursive functions: `LevelsAre` shows that there are such functions and `LevelByLevel` what every
  level returns, each from the least level at which it would fail.
* `Processes_proofs`, supervisor, for any process numbers: `TaskInductive`, `Takes`. `OneChild` says what the
  numbers stand for at each place of the loop, `KnowsChild` when `child_pid` is right.
* `Processes_proofs`, sercmd, for any servers, client numbers and length of the queue:
  `SercmdInductive`, `Answers`, `Owes`. A waiting client is followed by exactly one message on its way:
  its request in the server's queue or the answer in its inbox (`OneRequest`,
  `OneAnswer`, `Owed`); `OwnsFile` ties an address to the process that bound it last.
* `Processes_proofs`, messages, for any peers, payloads, header, cache and pipe that frames
  fit in: `ComMsgInductive`, `Whole`. `DealtAsSent` says how bytes follow each other
  from cache to wire, not which ones they are; that a frame at the front of the
  cache is the one sent is `FrameRuns` (from its first byte to the length its header
  gives). A read leaves the stream as it is, a deal cuts a frame off its front, a send adds
  one to its end. With datagrams the cache is empty when a read waits (`ReadsWhole`).
* `Library_proofs`, memory checker, for any places, number of buckets and of descriptors:
  `MemchkInductive`, `Told`. That the number of descriptors in the chains is the number
  of blocks needs more than the counts: `Chained` says that a descriptor in a chain is
  that of a block whose place belongs to the chain, each block has one and none is
  twice there; `Spare` that what is in `free_list` is in no chain. Then the pairs
  (chain, place in it) that `mem_leak` walks over and the blocks are in bijection
  (`WalkTellsBlocks`).
* `Library_proofs`, log file, for any finite set of threads, lines of any lengths, any
  `del_cnt` and any values that `max_line` is set to in turn: `LoggerInductive`,
  `KeptInLog`. `LogKept` is silent while a thread is between `memmove` and `ftruncate`, so
  the invariant says what the file is going to be: `CutToFit`, if that thread is the only
  one about to cut. `Measured` says that the size a thread relies on is still the file's,
  which is what a race takes away. The bound needs an account of who may still write
  without a new look at the size: `Kept` reserves a line for each of them (`Due`), and what
  the stream holds, which `fstat` does not see, is at most a line of each thread that has
  written since the last flush (`Done`); nobody is both. A cut takes off more than `del_cnt`
  bytes (`HeadAtPlace`). These are the first `del_cnt` + 1 places of lines or more, since
  places count from 1 behind each newline (`Lined`): so a cut takes off at least the
  weight of the line behind it, however long that is.
* `Library_proofs`, TLV, for any ids, types, values and number of values of a byte from 3
  on (with fewer the length of a dword does not fit its 16 bits): `TlvInductive`, `InStep`. The
  wire can be cut into the coded messages that were not decoded yet (`WireIsSent`).
  `TwoDigits` is the arithmetic of `htons` and back; `FirstMessage` says that the tables' type
  gives a message's own length and value whatever lies behind it; `CutBehind` and
  `CutFront` move the cuts as messages are added and taken off.
* `Library_proofs`, AES, for any block size and messages of any length: `AesInductive`, `Deciphered`. As long
  as no message filled its blocks and was padded with zeros (`Clean`), the packets are
  chained to each other and to the vectors of the two ends (`VectorsAgree`). Then what is decrypted is what
  was filled up, place by place (`DecryptedWhole`), and the last byte of PKCS#7 or the
  last one that is not zero says how much of it was sent (`StripsFilled`).
* `Library_proofs`, RSA, for any keys, length of a piece and texts: `RsaInductive`, `TextWhole`. `HalfRead`
  says that a decryption with the ciphertext's key has put together the pieces behind it,
  and that with any key nothing lies behind the room of the pieces so far; `PiecesEnough` that a
  ciphertext has as many blocks as the code makes room for, and `PieceIs` that a piece
  with its NUL keeps to the buffer of one.
* `Library_proofs`, list sort, for lists of any length and any keys: `SortInductive`, `SortsStably`.
  While `list_sort` runs, the list is in pieces: `SortInv` says that there is an order of
  the nodes which the links follow but at the joints: behind the nodes already merged and
  behind the first run (`LinkedAt`). It is in runs of the length of the pass in front of the
  merge and in runs of the last one behind it (`MergeAt`), and within a merge all
  places are in order but those of one run against those of the other (`TakeAt`). A
  node taken from the second run moves in front of what is left of the first, all of
  which is greater: so equal keys are never turned (`Stable`).
* `SeqLemmas` has what they share: the places and contents of a list after `Append`,
  `Tail`, a new first entry, a concatenation, a part of a list, a sorted insertion (`AddBefore`), a
  cut at a walk's break and a removal (`Del`); that neither `Append` nor `Del` reorders;
  quotients and remainders; and that a set of numbers has a smallest one (`SmallestIsIn`).
  `AsyncWork_proofs` and `Timers_proofs` rest on these for the lists of `list_generic.h`.
* The assumptions are the `...Assumption` of each module: sentinel values are no
  threads, requests, works or processes; sets of workers, of timers on the timer list
  and of threads of a table are finite; limits, sizes and periods are natural numbers; the
  number of slots, the parts of a second and the header of a message are not 0, and
  frames fit the cache.

Each inductive invariant (`IInv` of the lock, the pool, the works, the wheel, the ring, the
table and sercmd, `TaskInv`, `RcuInv`, `PoolInv` beside its proof, `MemchkInv`, `LoggerInv`,
`ListInv`, `MsgInv`, `CopyInv`, `TrieInv`, `TlvInv`, `AesInv`, `RsaInv`, `SortInv`) was model-checked on the
runs' instances before it was proved and is left to the proofs; `RcuInv` with 3 readers
and with 2 updaters too, where lists were bounded by the number of readers, `SortInv` with
4 nodes, since it looks through all the orders of them.

A list or a look-up of any length is reasoned about by the least place at which a
statement would fail (`SmallestIsIn`), since the induction theorems of the library
cannot be used here. Out of the prover's reach, and only model-checked:

* all liveness (fairness, ENABLED): `NoStarvation`, `GracePeriodEnds`, `AcceptedRuns`,
  `EveryWorkAnswered`, `EveryEndAnswered`, `EveryClientServed`, `EveryMessageDealt`;
* `ParsedAsMeant` and `DropsRepeats`. What `Dns` reads and should have read and what
  `Muniq` drops and should drop are written with folds, `FlattenSeq`, `SelectSeq` and
  recursive definitions, whose results the provers cannot compute for any input.

## 7. Plan, and what is not modelled

The order was: lock and pool (everything else runs on them), then RCU, works,
wheel and messages, then the containers, then timer list, supervisor and
sercmd, then codings, log file and tools. Left, in this order:

1. Proofs: every safety property and refinement that the passing runs check is proved,
   but for `ParsedAsMeant` and `DropsRepeats`.
2. Compositions: `AsyncWork` with `ThreadPool` instead of its abstraction;
   `Sercmd` under `Task`; `ComMsg` through an `AesCbc` channel.

Not modelled, and why:

* text conversion (`fmt.c`, `args.c`, `cmd.c`, `dumphex.c`, `str.h`, and what `br_*`
  does beyond `br_to_lower`): no state outlives a call;
* tracing (`trace.c`, `hook/`): prints call stacks of the running program;
* exceptions (`except.c`): taken over from another library;
* OpenSSL (its functions are modelled by what they promise), `md5_str`, base64 and
  the tests in `crypto.c`: single calls of OpenSSL;
* wrappers of system calls, `wrap_malloc.c` (built only with DEBUG_WRAP_MALLOC),
  `tun.c` and `bitmap.c`, scripts and test drivers;
* set-up of epoll, timerfd and sockets, which happens before the modelled
  behaviour starts; `trie_map`, `mem_log`, the console side of the logger;
* ticks of the wheel inside a SIGALRM handler, as `timer_wheel.c:262-268` advises
  against them;
* the memory that `dns.c` leaks when it rejects a response behind its first
  addresses: no other behaviour depends on it.
