------------------------------- MODULE AsyncWork -------------------------------
(***************************************************************************)
(* Works with a deadline, of src/async_work.c.  The event-loop thread      *)
(* hands works to the thread pool and, on every tick of the timer wheel,   *)
(* takes the expired ones off the timeout list, interrupts them with       *)
(* SIGUSR1 and answers them; a worker runs a work, and answers it unless   *)
(* it has timed out.  References keep the work's memory alive.             *)
(*                                                                         *)
(* The pool is seen from outside, as ThreadPool promises: a bounded FIFO   *)
(* queue whose entries are each taken by one worker.  Sections under       *)
(* g_async_ctx.lock are single actions.                                    *)
(***************************************************************************)
EXTENDS LinkedList, Integers, FiniteSets

CONSTANTS
    Work,           \* the async_work_t objects
    Worker,         \* the threads of the pool
    Delay,          \* the max_ts callers ask for
    MaxTs,          \* bound on g_async_ctx.ts
    max_requests,   \* the limit of the pool
    NULL

ASSUME AsyncAssumption ==
    /\ NULL \notin Work \cup Worker
    /\ Delay \subseteq Nat
    /\ MaxTs \in Nat /\ max_requests \in Nat \ {0}

VARIABLES
    ts,         \* g_async_ctx.ts
    list,       \* g_async_ctx.list: works by deadline
    deadline, isTimeout, isSetJmp, tid, ref,    \* the fields of the works
    assign,     \* "new", then "append" inside async_work_assign, then "assigned" or "rejected"
    queue,      \* the pool's queue
    mpc,        \* where the event loop is: "loop", "assign", "signal", "hook", "put" or "crashed"
    cur,        \* the work being assigned
    expired,    \* timeout_aw_arr: the works async_work_timeout_check still has to deal with
    wpc,        \* where each worker is
    aw,         \* the work a worker runs, or NULL
    pending,    \* the work in the SIGUSR1 pending for a worker, or NULL
    masked,     \* workers in which SIGUSR1 is blocked
    hooks,      \* history: which hooks of a work have run
    freed,      \* history: works whose memory was freed
    raced,      \* history: works marked as timed out while their worker had already found them in time
    lost        \* history: works whose signal reference no handler will drop

loopVars == <<mpc, cur, expired>>
aboutVars == <<deadline, isTimeout, isSetJmp, tid>>
histVars == <<hooks, raced, lost>>
vars == <<ts, list, deadline, isTimeout, isSetJmp, tid, ref, assign, queue, mpc, cur,
          expired, wpc, aw, pending, masked, hooks, freed, raced, lost>>

Init ==
    /\ ts = 0 /\ list = <<>> /\ queue = <<>> /\ expired = <<>>
    /\ mpc = "loop" /\ cur = NULL
    /\ deadline = [w \in Work |-> 0]
    /\ isTimeout = [w \in Work |-> FALSE]
    /\ isSetJmp = [w \in Work |-> FALSE]
    /\ tid = [w \in Work |-> NULL]
    /\ ref = [w \in Work |-> 0]
    /\ assign = [w \in Work |-> "new"]
    /\ wpc = [k \in Worker |-> "idle"]
    /\ aw = [k \in Worker |-> NULL]
    /\ pending = [k \in Worker |-> NULL]
    /\ masked = {}
    /\ hooks = [w \in Work |-> {}]
    /\ freed = {} /\ raced = {} /\ lost = {}

(* async_work_put: the last reference frees the work. *)
Put(w) ==
    /\ ref' = [ref EXCEPT ![w] = @ - 1]
    /\ freed' = IF ref[w] = 1 THEN freed \cup {w} ELSE freed

-----------------------------------------------------------------------------
(* async_work_assign, on the event-loop thread *)

(* async_work_append: a reference for the list, and the place by deadline. *)
AssignAppend(w) ==
    /\ mpc = "loop"
    /\ assign[w] = "new"
    /\ \E d \in Delay :
          /\ ts + d <= MaxTs
          /\ deadline' = [deadline EXCEPT ![w] = ts + d]
          /\ list' = AddBefore(list, {v \in Work : deadline[v] > ts + d}, w)
    /\ ref' = [ref EXCEPT ![w] = 1]
    /\ assign' = [assign EXCEPT ![w] = "append"]
    /\ mpc' = "assign"
    /\ cur' = w
    /\ UNCHANGED <<ts, isTimeout, isSetJmp, tid, queue, expired, wpc, aw, pending, masked,
                   histVars, freed>>

(* Mutant: a refused work is also taken off the timeout list. *)
AssignPoolTakesBack ==
    /\ mpc = "assign"
    /\ ref' = [ref EXCEPT ![cur] = @ + 1]
    /\ IF Len(queue) >= max_requests
       THEN /\ assign' = [assign EXCEPT ![cur] = "rejected"]
            /\ list' = Del(list, cur)
            /\ UNCHANGED queue
       ELSE /\ assign' = [assign EXCEPT ![cur] = "assigned"]
            /\ queue' = Append(queue, cur)
            /\ UNCHANGED list
    /\ mpc' = "loop"
    /\ cur' = NULL
    /\ UNCHANGED <<ts, aboutVars, expired, wpc, aw, pending, masked, histVars, freed>>

(* A reference for the pool; when the pool is full the call fails and takes *)
(* nothing back: the work stays on the timeout list.                        *)
AssignPool ==
    /\ mpc = "assign"
    /\ ref' = [ref EXCEPT ![cur] = @ + 1]
    /\ IF Len(queue) >= max_requests
       THEN assign' = [assign EXCEPT ![cur] = "rejected"] /\ UNCHANGED queue
       ELSE assign' = [assign EXCEPT ![cur] = "assigned"] /\ queue' = Append(queue, cur)
    /\ mpc' = "loop"
    /\ cur' = NULL
    /\ UNCHANGED <<ts, list, aboutVars, expired, wpc, aw, pending, masked, histVars, freed>>

-----------------------------------------------------------------------------
(* async_work_timeout_check *)

(* Under the lock: the list is in the order of deadlines, so the expired   *)
(* works are the ones before the first that is not.                        *)
TimeoutMark ==
    /\ mpc = "loop"
    /\ ts < MaxTs
    /\ ts' = ts + 1
    /\ LET inTime == {w \in Work : ts' < deadline[w]}
           late == FirstOnes(list, inTime)
           gone == ToSet(late)
       IN /\ expired' = late
          /\ list' = Rest(list, inTime)
          /\ isTimeout' = [w \in Work |-> isTimeout[w] \/ w \in gone]
          /\ raced' = raced \cup {w \in gone : \E k \in Worker : aw[k] = w /\ wpc[k] = "unlink"}
          /\ mpc' = IF late = <<>> THEN "loop" ELSE "signal"
    /\ UNCHANGED <<deadline, isSetJmp, tid, ref, assign, queue, cur, wpc, aw, pending,
                   masked, hooks, freed, lost>>

(* A reference for the handler, and the signal.  With one SIGUSR1 already   *)
(* pending for the thread the new one is discarded; a work that no worker   *)
(* has begun has thread id 0, and signalling thread 0 does nothing or ends  *)
(* the process.                                                             *)
TimeoutSignal ==
    LET w == Head(expired) IN
    /\ mpc = "signal"
    /\ ref' = [ref EXCEPT ![w] = @ + 1]
    /\ \/ /\ tid[w] = NULL
          /\ mpc' \in {"hook", "crashed"}
          /\ lost' = lost \cup {w}
          /\ UNCHANGED pending
       \/ /\ tid[w] # NULL
          /\ mpc' = "hook"
          /\ IF pending[tid[w]] = NULL
             THEN pending' = [pending EXCEPT ![tid[w]] = w] /\ UNCHANGED lost
             ELSE lost' = lost \cup {w} /\ UNCHANGED pending
    /\ UNCHANGED <<ts, list, aboutVars, assign, queue, cur, expired, wpc, aw, masked,
                   hooks, raced, freed>>

TimeoutHook ==
    /\ mpc = "hook"
    /\ hooks' = [hooks EXCEPT ![Head(expired)] = @ \cup {"timeout"}]
    /\ mpc' = "put"
    /\ UNCHANGED <<ts, list, aboutVars, ref, assign, queue, cur, expired, wpc, aw, pending,
                   masked, freed, raced, lost>>

(* Mutant: the reference of the list is not dropped. *)
TimeoutPutMissing ==
    /\ mpc = "put"
    /\ UNCHANGED <<ref, freed>>
    /\ expired' = Tail(expired)
    /\ mpc' = IF Len(expired) = 1 THEN "loop" ELSE "signal"
    /\ UNCHANGED <<ts, list, aboutVars, assign, queue, cur, wpc, aw, pending, masked, histVars>>

(* The reference of the list. *)
TimeoutPut ==
    /\ mpc = "put"
    /\ Put(Head(expired))
    /\ expired' = Tail(expired)
    /\ mpc' = IF Len(expired) = 1 THEN "loop" ELSE "signal"
    /\ UNCHANGED <<ts, list, aboutVars, assign, queue, cur, wpc, aw, pending, masked, histVars>>

-----------------------------------------------------------------------------
(* async_work_work, on a worker *)

WGo(k, from, to) ==
    /\ mpc # "crashed"
    /\ wpc[k] = from
    /\ wpc' = [wpc EXCEPT ![k] = to]

WorkTake(k) ==
    /\ queue # <<>>
    /\ WGo(k, "idle", "arm")
    /\ aw' = [aw EXCEPT ![k] = Head(queue)]
    /\ tid' = [tid EXCEPT ![Head(queue)] = k]
    /\ queue' = Tail(queue)
    /\ UNCHANGED <<ts, list, deadline, isTimeout, isSetJmp, ref, assign, loopVars, pending,
                   masked, histVars, freed>>

(* setjmp, then the flag that lets the handler jump. *)
WorkArm(k) ==
    /\ WGo(k, "arm", "work")
    /\ isSetJmp' = [isSetJmp EXCEPT ![aw[k]] = TRUE]
    /\ UNCHANGED <<ts, list, deadline, isTimeout, tid, ref, assign, queue, loopVars, aw,
                   pending, masked, histVars, freed>>

(* The work function returns. *)
WorkReturn(k) ==
    /\ WGo(k, "work", "disarm")
    /\ UNCHANGED <<ts, list, aboutVars, ref, assign, queue, loopVars, aw, pending, masked,
                   histVars, freed>>

(* Mutant: the flag stays up after the work has returned. *)
WorkDisarmMissing(k) ==
    /\ WGo(k, "disarm", "check")
    /\ UNCHANGED <<ts, list, aboutVars, ref, assign, queue, loopVars, aw,
                   pending, masked, histVars, freed>>

WorkDisarm(k) ==
    /\ WGo(k, "disarm", "check")
    /\ isSetJmp' = [isSetJmp EXCEPT ![aw[k]] = FALSE]
    /\ UNCHANGED <<ts, list, deadline, isTimeout, tid, ref, assign, queue, loopVars, aw,
                   pending, masked, histVars, freed>>

(* Back from longjmp: the reference of the handler. *)
WorkJumped(k) ==
    /\ WGo(k, "jumped", "check")
    /\ Put(aw[k])
    /\ UNCHANGED <<ts, list, aboutVars, assign, queue, loopVars, aw, pending, masked, histVars>>

(* Mutant: the result is reported whether the work has timed out or not. *)
WorkCheckMissing(k) ==
    /\ WGo(k, "check", "unlink")
    /\ UNCHANGED <<ts, list, aboutVars, ref, assign, queue, loopVars, aw, pending, masked,
                   histVars, freed>>

WorkCheck(k) ==
    /\ WGo(k, "check", IF isTimeout[aw[k]] THEN "putpool" ELSE "unlink")
    /\ UNCHANGED <<ts, list, aboutVars, ref, assign, queue, loopVars, aw, pending, masked,
                   histVars, freed>>

(* async_work_del_from_timeout_list, under the lock; list_head_del leaves a  *)
(* node that is already off the list alone.                                  *)
WorkUnlink(k) ==
    /\ WGo(k, "unlink", "putlist")
    /\ list' = Del(list, aw[k])
    /\ UNCHANGED <<ts, aboutVars, ref, assign, queue, loopVars, aw, pending, masked, histVars,
                   freed>>

WorkPutList(k) ==
    /\ WGo(k, "putlist", "hook")
    /\ Put(aw[k])
    /\ UNCHANGED <<ts, list, aboutVars, assign, queue, loopVars, aw, pending, masked, histVars>>

WorkHook(k) ==
    /\ WGo(k, "hook", "putpool")
    /\ \E h \in {"success", "fail"} : hooks' = [hooks EXCEPT ![aw[k]] = @ \cup {h}]
    /\ UNCHANGED <<ts, list, aboutVars, ref, assign, queue, loopVars, aw, pending, masked,
                   freed, raced, lost>>

(* The reference of the pool. *)
WorkPutPool(k) ==
    /\ WGo(k, "putpool", "idle")
    /\ Put(aw[k])
    /\ aw' = [aw EXCEPT ![k] = NULL]
    /\ UNCHANGED <<ts, list, aboutVars, assign, queue, loopVars, pending, masked, histVars>>

(* break_timeout_work.  The jump leaves the handler for good, and with it   *)
(* SIGUSR1 blocked in this thread: setjmp does not save the signal mask.    *)
Handle(k) ==
    LET w == pending[k] IN
    /\ mpc # "crashed"
    /\ w # NULL
    /\ k \notin masked
    /\ pending' = [pending EXCEPT ![k] = NULL]
    /\ IF isSetJmp[w]
       THEN /\ wpc' = [wpc EXCEPT ![k] = "jumped"]
            /\ masked' = masked \cup {k}
            /\ UNCHANGED <<ref, freed>>
       ELSE /\ Put(w)
            /\ UNCHANGED <<wpc, masked>>
    /\ UNCHANGED <<ts, list, aboutVars, assign, queue, loopVars, aw, histVars>>

-----------------------------------------------------------------------------
TimeoutStep == TimeoutMark \/ TimeoutSignal \/ TimeoutHook \/ TimeoutPut

WorkStep(k) ==
    \/ WorkTake(k) \/ WorkArm(k) \/ WorkDisarm(k) \/ WorkJumped(k) \/ WorkCheck(k)
    \/ WorkUnlink(k) \/ WorkPutList(k) \/ WorkHook(k) \/ WorkPutPool(k)

(* A process that has crashed takes no step. *)
Next ==
    \/ \E w \in Work : AssignAppend(w)
    \/ AssignPool
    \/ TimeoutStep
    \/ \E k \in Worker : WorkStep(k) \/ WorkReturn(k) \/ Handle(k)

Spec == Init /\ [][Next]_vars

(* The event loop and the workers keep running, the timer ticks and pending *)
(* signals are delivered.  A work function need not return by itself.       *)
FairSpec ==
    /\ Spec
    /\ WF_vars(AssignPool \/ TimeoutStep)
    /\ \A k \in Worker : WF_vars(WorkStep(k)) /\ WF_vars(Handle(k))

-----------------------------------------------------------------------------
One(p) == IF p THEN 1 ELSE 0

InList(w) == \/ Contains(list, w)
             \/ Contains(expired, w)
             \/ \E k \in Worker : aw[k] = w /\ wpc[k] = "putlist"

InPool(w) == \/ assign[w] = "rejected"
             \/ Contains(queue, w)
             \/ \E k \in Worker : aw[k] = w

InSignal(w) == \/ w \in lost
               \/ \E k \in Worker : pending[k] = w \/ (aw[k] = w /\ wpc[k] = "jumped")

(* The counter of a work is the number of those who will drop a reference: *)
(* the timeout list, the pool and the signal.  A pool that refused the work *)
(* and a signal that was lost never will (a leak).  The exception is a work *)
(* marked as timed out between its worker's look at is_timeout and the      *)
(* worker's turn at the lock.                                               *)
RefExact ==
    \A w \in Work :
        assign[w] # "new" /\ w \notin raced =>
            /\ ref[w] = One(InList(w)) + One(InPool(w)) + One(InSignal(w))
            /\ w \in freed <=> ref[w] = 0

(* With the same exception, a work is answered by one hook only. *)
AnsweredOnce == \A w \in Work : w \notin raced => Cardinality(hooks[w]) <= 1

(* When the handler jumps, it jumps into the frame of async_work_work that  *)
(* set the buffer, on the same thread, and not past its return.             *)
JumpsIntoLiveFrame ==
    \A k \in Worker :
        LET w == pending[k] IN
        w # NULL /\ k \notin masked /\ w \notin freed =>
            (isSetJmp[w] => aw[k] = w /\ wpc[k] \in {"work", "disarm"})

(* The inductive invariant behind the three.                                *)
TypeOK ==
    /\ ts \in Nat /\ deadline \in [Work -> Nat]
    /\ list \in Seq(Work) /\ queue \in Seq(Work) /\ expired \in Seq(Work)
    /\ isTimeout \in [Work -> BOOLEAN] /\ isSetJmp \in [Work -> BOOLEAN]
    /\ tid \in [Work -> Worker \cup {NULL}]
    /\ ref \in [Work -> Int]
    /\ assign \in [Work -> {"new", "append", "assigned", "rejected"}]
    /\ mpc \in {"loop", "assign", "signal", "hook", "put", "crashed"}
    /\ cur \in Work \cup {NULL}
    /\ wpc \in [Worker -> {"idle", "arm", "work", "disarm", "jumped", "check", "unlink",
                           "putlist", "hook", "putpool"}]
    /\ aw \in [Worker -> Work \cup {NULL}] /\ pending \in [Worker -> Work \cup {NULL}]
    /\ masked \subseteq Worker
    /\ hooks \in [Work -> SUBSET {"timeout", "success", "fail"}]
    /\ freed \subseteq Work /\ raced \subseteq Work /\ lost \subseteq Work

(* A work is with the caller, in the queue or with one worker, and tid says *)
(* which one has or had it.                                                 *)
OnePlace ==
    /\ IsInjective(queue)
    /\ \A k \in Worker : aw[k] = NULL <=> wpc[k] = "idle"
    /\ \A k \in Worker, w \in Work : aw[k] = w => tid[w] = k
    /\ \A w \in Work :
          /\ Contains(queue, w) => assign[w] = "assigned" /\ tid[w] = NULL
          /\ tid[w] # NULL => assign[w] = "assigned"
          /\ assign[w] = "append" <=> mpc = "assign" /\ cur = w
    /\ mpc = "assign" => cur # NULL

Begun(w) == tid[w] # NULL
Runs(w, where) == Begun(w) /\ aw[tid[w]] = w /\ wpc[tid[w]] \in where
Done(w) == Begun(w) /\ aw[tid[w]] # w

(* A work stays on the timeout list until it is marked or its worker takes  *)
(* it off, and is with the event loop only after it has been marked.        *)
OneList ==
    /\ IsInjective(list) /\ IsInjective(expired)
    /\ expired = <<>> <=> mpc \in {"loop", "assign"}
    /\ \A w \in Work :
          /\ Contains(list, w) =>
                ~isTimeout[w] /\ ~Done(w) /\ ~Runs(w, {"putlist", "hook", "putpool"})
          /\ Contains(expired, w) => isTimeout[w]
          /\ w \notin raced /\ ~isTimeout[w] /\ assign[w] # "new" =>
                Contains(list, w) \/ Done(w) \/ Runs(w, {"putlist", "hook", "putpool"})
          /\ w \notin raced /\ Runs(w, {"unlink", "putlist", "hook"}) => ~isTimeout[w]

(* The signal of a work is on its way to the thread that has or had it, and *)
(* comes from the event loop's turn for this work.                          *)
OneSignal ==
    \A w \in Work :
        /\ \A k \in Worker : pending[k] = w => tid[w] = k /\ ~Runs(w, {"jumped"})
        /\ w \in lost => ~Runs(w, {"jumped"}) /\ \A k \in Worker : pending[k] # w
        /\ InSignal(w) =>
              /\ isTimeout[w]
              /\ Contains(expired, w) => w = Head(expired) /\ mpc # "signal"
        /\ isSetJmp[w] => Begun(w) /\ (tid[w] \in masked \/ Runs(w, {"work", "disarm"}))

(* What a work is not before it has been assigned. *)
Untouched ==
    \A w \in Work :
        /\ assign[w] \in {"new", "append"} => ~isTimeout[w]
        /\ assign[w] = "new" =>
              ~Contains(list, w) /\ hooks[w] = {} /\ w \notin freed \cup raced

(* A work that has reported its result is off the list for good. *)
OneHook ==
    \A w \in Work :
        /\ "timeout" \in hooks[w] => isTimeout[w]
        /\ w \notin raced /\ ~(hooks[w] \subseteq {"timeout"}) =>
              /\ hooks[w] \in {{"success"}, {"fail"}}
              /\ ~isTimeout[w]
              /\ Done(w) \/ Runs(w, {"putpool"})

IInv == TypeOK /\ OnePlace /\ OneList /\ OneSignal /\ Untouched /\ OneHook /\ RefExact

(* Every work that was put on the list is answered, also one the pool has   *)
(* refused and one that never returns.                                      *)
EveryWorkAnswered ==
    \A w \in Work : assign[w] # "new" ~> (hooks[w] # {} \/ mpc = "crashed")

(* "for async_work_ctx_t.list" (async_work.c:141 and :170): the reference of *)
(* the list is dropped once, so the pool's own keeps the work alive while a  *)
(* worker uses it.                                                           *)
PoolReferenceHolds == \A k \in Worker : aw[k] \notin freed

(* "SIGUSR1 is taken, to interrupt works that have timed out"               *)
(* (async_work.c:154): a work that is running when its signal is pending    *)
(* for its thread does not go on for ever.                                  *)
TimedOutWorkInterrupted ==
    \A k \in Worker, w \in Work :
        pending[k] = w /\ aw[k] = w /\ wpc[k] = "work" ~> wpc[k] # "work" \/ mpc = "crashed"
=============================================================================
