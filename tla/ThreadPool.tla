------------------------------ MODULE ThreadPool ------------------------------
(***************************************************************************)
(* The thread pool of src/thread_pool.c: callers append requests to a list *)
(* under a spin lock and post a semaphore; workers wait on the semaphore,  *)
(* take the lock, pop the head and run it.  One action per access to the   *)
(* semaphore, the lock or the list.                                        *)
(*                                                                         *)
(* A request stands for its caller too: once it has run, it may be         *)
(* appended again.                                                         *)
(***************************************************************************)
EXTENDS Sequences, Naturals, FiniteSets

CONSTANTS
    Worker,         \* the threads of the pool
    Request,        \* the (process, arg) pairs callers append
    max_requests,   \* tp->max_requests
    NULL

ASSUME PoolAssumption ==
    /\ IsFiniteSet(Worker)
    /\ Worker # {}                      \* assert(tp_num > 0)
    /\ max_requests \in Nat \ {0}       \* assert(max_requests > 0)
    /\ NULL \notin Worker \cup Request
    /\ Worker \cap Request = {}

VARIABLES
    requests,   \* tp->requests
    sem,        \* the value of tp->requests_sem
    locker,     \* the holder of tp->requests_locker, or NULL
    stop,       \* tp->stop
    pool,       \* "creating", then "ready" (or "failed" when threadpool_new returned NULL), "freed"
    wpc,        \* where each worker is in threadpool_worker
    work,       \* the request a worker has popped, or NULL
    rpc         \* where each request is, from threadpool_append to the end of process()

vars == <<requests, sem, locker, stop, pool, wpc, work, rpc>>

WorkerLabels == {"none", "loop", "semwait", "lock", "pop", "unlock", "run", "exited", "undefined"}
RequestLabels == {"out", "lock", "check", "enqueue", "post", "unlock", "accepted", "reject", "running"}

TypeOK ==
    /\ requests \in Seq(Request)
    /\ sem \in Nat
    /\ locker \in Worker \cup Request \cup {NULL}
    /\ stop \in BOOLEAN
    /\ pool \in {"creating", "ready", "failed", "freed"}
    /\ wpc \in [Worker -> WorkerLabels]
    /\ work \in [Worker -> Request \cup {NULL}]
    /\ rpc \in [Request -> RequestLabels]

Init ==
    /\ requests = <<>>
    /\ sem = 0
    /\ locker = NULL
    /\ stop = FALSE
    /\ pool = "creating"
    /\ wpc = [w \in Worker |-> "none"]
    /\ work = [w \in Worker |-> NULL]
    /\ rpc = [r \in Request |-> "out"]

WGo(w, from, to) == wpc[w] = from /\ wpc' = [wpc EXCEPT ![w] = to]
RGo(r, from, to) == rpc[r] = from /\ rpc' = [rpc EXCEPT ![r] = to]

-----------------------------------------------------------------------------
(* threadpool_new: one pthread_create after the other; workers already      *)
(* created run meanwhile.  A failed creation returns NULL and leaves them.  *)
NewCreate(w) ==
    /\ pool = "creating"
    /\ WGo(w, "none", "loop")
    /\ pool' = IF \A v \in Worker \ {w} : wpc[v] # "none" THEN "ready" ELSE "creating"
    /\ UNCHANGED <<requests, sem, locker, stop, work, rpc>>

NewFail ==
    /\ pool = "creating"
    /\ pool' = "failed"
    /\ UNCHANGED <<requests, sem, locker, stop, wpc, work, rpc>>

(* threadpool_delete, called when no append is under way: tp->stop first,  *)
(* then the semaphore, the lock and the memory are gone, workers or not.   *)
DeleteStop ==
    /\ pool = "ready"
    /\ ~stop
    /\ \A r \in Request : rpc[r] \in {"out", "accepted", "running"}
    /\ stop' = TRUE
    /\ UNCHANGED <<requests, sem, locker, pool, wpc, work, rpc>>

DeleteFree ==
    /\ pool = "ready"
    /\ stop
    /\ pool' = "freed"
    /\ UNCHANGED <<requests, sem, locker, stop, wpc, work, rpc>>

(* A worker that is left and touches the freed pool does anything. *)
UseAfterFree(w) ==
    /\ pool = "freed"
    /\ wpc[w] \in {"loop", "semwait", "lock", "pop", "unlock"}
    /\ wpc' = [wpc EXCEPT ![w] = "undefined"]
    /\ UNCHANGED <<requests, sem, locker, stop, pool, work, rpc>>

-----------------------------------------------------------------------------
(* threadpool_append *)

AppendCall(r) ==
    /\ pool = "ready" /\ ~stop
    /\ RGo(r, "out", "lock")
    /\ UNCHANGED <<requests, sem, locker, stop, pool, wpc, work>>

AppendLock(r) ==
    /\ locker = NULL
    /\ RGo(r, "lock", "check")
    /\ locker' = r
    /\ UNCHANGED <<requests, sem, stop, pool, wpc, work>>

(* Mutant: off by one. *)
AppendCheckOneMore(r) ==
    /\ RGo(r, "check", IF sem > max_requests THEN "reject" ELSE "enqueue")
    /\ UNCHANGED <<requests, sem, locker, stop, pool, wpc, work>>

(* sem_getvalue: the semaphore, not the length of the list, is compared. *)
AppendCheck(r) ==
    /\ RGo(r, "check", IF sem >= max_requests THEN "reject" ELSE "enqueue")
    /\ UNCHANGED <<requests, sem, locker, stop, pool, wpc, work>>

AppendReject(r) ==
    /\ RGo(r, "reject", "out")
    /\ locker' = NULL
    /\ UNCHANGED <<requests, sem, stop, pool, wpc, work>>

(* Mutant: the semaphore is posted before the request is on the list. *)
AppendEnqueueAfterPost(r) ==
    /\ RGo(r, "enqueue", "post")
    /\ sem' = sem + 1
    /\ locker' = NULL
    /\ UNCHANGED <<requests, stop, pool, wpc, work>>

AppendEnqueue(r) ==
    /\ RGo(r, "enqueue", "post")
    /\ requests' = Append(requests, r)
    /\ UNCHANGED <<sem, locker, stop, pool, wpc, work>>

(* Mutant: only the first request of an empty list is announced. *)
AppendPostFirstOnly(r) ==
    /\ RGo(r, "post", "unlock")
    /\ sem' = IF Len(requests) = 1 THEN sem + 1 ELSE sem
    /\ UNCHANGED <<requests, locker, stop, pool, wpc, work>>

AppendPost(r) ==
    /\ RGo(r, "post", "unlock")
    /\ sem' = sem + 1
    /\ UNCHANGED <<requests, locker, stop, pool, wpc, work>>

AppendUnlock(r) ==
    /\ rpc[r] = "unlock"
    /\ rpc' = [rpc EXCEPT ![r] = "accepted"]
    /\ locker' = NULL
    /\ UNCHANGED <<requests, sem, stop, pool, wpc, work>>

-----------------------------------------------------------------------------
(* threadpool_worker *)

WorkerLoop(w) ==
    /\ pool # "freed"
    /\ WGo(w, "loop", IF stop THEN "exited" ELSE "semwait")
    /\ UNCHANGED <<requests, sem, locker, stop, pool, work, rpc>>

WorkerSemWait(w) ==
    /\ pool # "freed"
    /\ sem > 0
    /\ WGo(w, "semwait", "lock")
    /\ sem' = sem - 1
    /\ UNCHANGED <<requests, locker, stop, pool, work, rpc>>

(* EINTR *)
WorkerInterrupted(w) ==
    /\ pool # "freed"
    /\ WGo(w, "semwait", "loop")
    /\ UNCHANGED <<requests, sem, locker, stop, pool, work, rpc>>

WorkerLock(w) ==
    /\ pool # "freed"
    /\ locker = NULL
    /\ WGo(w, "lock", "pop")
    /\ locker' = w
    /\ UNCHANGED <<requests, sem, stop, pool, work, rpc>>

(* Mutant: the head is read and not unlinked. *)
WorkerPeek(w) ==
    /\ pool # "freed"
    /\ requests # <<>>
    /\ WGo(w, "pop", "unlock")
    /\ work' = [work EXCEPT ![w] = Head(requests)]
    /\ UNCHANGED <<requests, sem, locker, stop, pool, rpc>>

(* Under the lock the head is popped; the list cannot be empty (NoEmptyPop). *)
WorkerPop(w) ==
    /\ pool # "freed"
    /\ requests # <<>>
    /\ WGo(w, "pop", "unlock")
    /\ work' = [work EXCEPT ![w] = Head(requests)]
    /\ requests' = Tail(requests)
    /\ UNCHANGED <<sem, locker, stop, pool, rpc>>

WorkerUnlock(w) ==
    /\ pool # "freed"
    /\ WGo(w, "unlock", "run")
    /\ locker' = NULL
    /\ rpc' = [rpc EXCEPT ![work[w]] = "running"]
    /\ UNCHANGED <<requests, sem, stop, pool, work>>

(* process(arg) returns and the queue entry is freed. *)
WorkerFinish(w) ==
    /\ WGo(w, "run", "loop")
    /\ rpc' = [rpc EXCEPT ![work[w]] = "out"]
    /\ work' = [work EXCEPT ![w] = NULL]
    /\ UNCHANGED <<requests, sem, locker, stop, pool>>

-----------------------------------------------------------------------------
AppendStep(r) ==
    \/ AppendLock(r) \/ AppendCheck(r) \/ AppendReject(r)
    \/ AppendEnqueue(r) \/ AppendPost(r) \/ AppendUnlock(r)

WorkerStep(w) ==
    \/ WorkerLoop(w) \/ WorkerSemWait(w) \/ WorkerLock(w)
    \/ WorkerPop(w) \/ WorkerUnlock(w) \/ WorkerFinish(w)

Next ==
    \/ \E w \in Worker :
          NewCreate(w) \/ WorkerInterrupted(w) \/ WorkerStep(w) \/ UseAfterFree(w)
    \/ \E r \in Request : AppendCall(r) \/ AppendStep(r)
    \/ NewFail \/ DeleteStop \/ DeleteFree

Spec == Init /\ [][Next]_vars

(* Threads keep running and process() returns.  Taking the spin lock and   *)
(* the semaphore needs strong fairness: a thread that tries again and again *)
(* gets them in the end, and signals do not interrupt every single wait.   *)
FairSpec ==
    /\ Spec
    /\ \A w \in Worker : /\ WF_vars(WorkerStep(w))
                         /\ SF_vars(WorkerSemWait(w))
                         /\ SF_vars(WorkerLock(w))
    /\ \A r \in Request : WF_vars(AppendStep(r)) /\ SF_vars(AppendLock(r))

-----------------------------------------------------------------------------
(* Workers that have taken a permit of the semaphore and not popped yet. *)
Permitted == {w \in Worker : wpc[w] \in {"lock", "pop"}}

InSection(t) ==
    \/ t \in Worker /\ wpc[t] \in {"pop", "unlock"}
    \/ t \in Request /\ rpc[t] \in {"check", "reject", "enqueue", "post", "unlock"}

(* The lock word tells who is inside, so nobody else is. *)
LockInv == pool # "freed" => \A t \in Worker \cup Request : InSection(t) <=> locker = t

(* Every entry of the list is paid for: by the value of the semaphore, by a *)
(* worker on its way to pop it, or by the append that is about to post.     *)
(* (After the pool is freed its memory means nothing any more.)             *)
Accounting ==
    pool # "freed" =>
    Len(requests) = sem + Cardinality(Permitted)
                        + IF locker \in Request /\ rpc[locker] = "post" THEN 1 ELSE 0

(* The assertion of threadpool_worker (thread_pool.c:97-100): a worker that *)
(* has passed sem_wait and holds the lock finds a request.                  *)
NoEmptyPop == pool # "freed" => \A w \in Worker : wpc[w] = "pop" => requests # <<>>

(* Admission control compares the semaphore, so the list may outgrow        *)
(* max_requests, but only by the workers that are about to pop.             *)
QueueBound ==
    pool # "freed" =>
    /\ sem <= max_requests
    /\ Len(requests) <= max_requests + Cardinality(Worker)

(* The comparison of an append stays valid until its post: only the holder *)
(* of the lock posts, and workers only lower the semaphore.                 *)
AdmissionInv ==
    pool # "freed" =>
    /\ sem <= max_requests
    /\ \A r \in Request : rpc[r] \in {"enqueue", "post"} => sem < max_requests

(* The list has no entry twice, no two workers have the same request, and  *)
(* nothing that was admitted is in neither place.                           *)
PlacesInv ==
    /\ \A i, j \in 1..Len(requests) : requests[i] = requests[j] => i = j
    /\ \A i \in 1..Len(requests) : rpc[requests[i]] \in {"post", "unlock", "accepted"}
    /\ \A w \in Worker :
          /\ wpc[w] \in {"unlock", "run"} => work[w] # NULL
          /\ work[w] # NULL =>
                /\ wpc[w] \in {"unlock", "run", "undefined"}
                /\ rpc[work[w]] = IF wpc[w] = "run" THEN "running" ELSE "accepted"
                /\ \A i \in 1..Len(requests) : requests[i] # work[w]
                /\ \A v \in Worker : work[v] = work[w] => v = w
    /\ \A r \in Request :
          rpc[r] \in {"post", "unlock", "accepted", "running"} =>
             \/ \E i \in 1..Len(requests) : requests[i] = r
             \/ \E w \in Worker : work[w] = r

IInv == TypeOK /\ LockInv /\ Accounting /\ AdmissionInv /\ PlacesInv

(* A request is in one place at a time: on the list once, or in the hands  *)
(* of one worker, from its admission until its process() has returned.     *)
ExactlyOnce ==
    \A r \in Request :
        LET places == Cardinality({i \in 1..Len(requests) : requests[i] = r})
                        + Cardinality({w \in Worker : work[w] = r})
        IN IF rpc[r] \in {"post", "unlock", "accepted", "running"}
           THEN places = 1 ELSE places = 0

(* Once appended, a request is run, unless the pool is deleted first. *)
AcceptedRuns == \A r \in Request : rpc[r] = "accepted" ~> rpc[r] = "running" \/ stop
=============================================================================
