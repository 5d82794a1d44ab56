--------------------------- MODULE ThreadPool_proofs ---------------------------
(***************************************************************************)
(* Proofs about ThreadPool for every finite set of workers, every set of   *)
(* requests and every limit: the assertion of the worker never fails, and  *)
(* the list outgrows max_requests by at most one entry per worker.         *)
(***************************************************************************)
EXTENDS ThreadPool, SeqLemmas, FiniteSetTheorems

(* The term of the accounting for an append between its list_add_tail and its post. *)
Unposted == IF locker \in Request /\ rpc[locker] = "post" THEN 1 ELSE 0

LEMMA PermittedFinite ==
    /\ IsFiniteSet(Permitted)
    /\ Cardinality(Permitted) \in Nat
    /\ Cardinality(Worker) \in Nat
    /\ Cardinality(Permitted) <= Cardinality(Worker)
  <1>1. Permitted \subseteq Worker
    BY DEF Permitted
  <1> QED
    BY <1>1, PoolAssumption, FS_Subset, FS_CardinalityType

(* A worker that has its permit counts for one. *)
LEMMA PermittedNonEmpty ==
    ASSUME NEW w \in Permitted PROVE Cardinality(Permitted) > 0
  <1>1. Permitted # {}
    OBVIOUS
  <1> QED
    BY <1>1, PermittedFinite, FS_EmptySet

LEMMA InitIInv == Init => IInv
  <1> SUFFICES ASSUME Init PROVE IInv
    OBVIOUS
  <1>1. TypeOK
    BY EmptySeq DEF Init, TypeOK, WorkerLabels, RequestLabels
  <1>2. LockInv
    BY PoolAssumption DEF Init, LockInv, InSection
  <1>3. Permitted = {}
    BY DEF Init, Permitted
  <1>4. Accounting
    BY <1>3, EmptySeq, FS_EmptySet, PoolAssumption DEF Init, Accounting
  <1>5. AdmissionInv
    BY PoolAssumption DEF Init, AdmissionInv
  <1>6. PlacesInv
    BY EmptySeq DEF Init, PlacesInv
  <1> QED
    BY <1>1, <1>2, <1>4, <1>5, <1>6 DEF IInv

LEMMA TypeStep ==
    ASSUME IInv, [Next]_vars PROVE TypeOK'
  <1> USE DEF IInv, TypeOK, WorkerLabels, RequestLabels, WGo, RGo
  <1>1. CASE UNCHANGED vars
    BY <1>1 DEF vars
  <1>2. ASSUME NEW w \in Worker,
               NewCreate(w) \/ WorkerInterrupted(w) \/ UseAfterFree(w) \/ WorkerLoop(w)
        PROVE  TypeOK'
    BY <1>2 DEF NewCreate, WorkerInterrupted, UseAfterFree, WorkerLoop
  <1>3. ASSUME NEW w \in Worker, WorkerSemWait(w) \/ WorkerLock(w)
        PROVE  TypeOK'
    BY <1>3 DEF WorkerSemWait, WorkerLock
  <1>4. ASSUME NEW w \in Worker, WorkerPop(w) PROVE TypeOK'
    <2>1. Head(requests) \in Request /\ Tail(requests) \in Seq(Request)
      BY <1>4, HeadTailProperties DEF WorkerPop
    <2> QED
      BY <1>4, <2>1 DEF WorkerPop
  <1>5. ASSUME NEW w \in Worker, WorkerUnlock(w) \/ WorkerFinish(w) PROVE TypeOK'
    BY <1>5 DEF WorkerUnlock, WorkerFinish
  <1>6. ASSUME NEW r \in Request,
               AppendCall(r) \/ AppendLock(r) \/ AppendCheck(r) \/ AppendReject(r)
                 \/ AppendPost(r) \/ AppendUnlock(r)
        PROVE  TypeOK'
    BY <1>6 DEF AppendCall, AppendLock, AppendCheck, AppendReject, AppendPost, AppendUnlock
  <1>7. ASSUME NEW r \in Request, AppendEnqueue(r) PROVE TypeOK'
    BY <1>7, AppendPlaces DEF AppendEnqueue
  <1>8. CASE NewFail \/ DeleteStop \/ DeleteFree
    BY <1>8 DEF NewFail, DeleteStop, DeleteFree
  <1> QED
    BY <1>1, <1>2, <1>3, <1>4, <1>5, <1>6, <1>7, <1>8 DEF Next, WorkerStep, AppendStep

LEMMA LockStep ==
    ASSUME IInv, [Next]_vars PROVE LockInv'
  <1> USE PoolAssumption DEF IInv, TypeOK, LockInv, InSection, WGo, RGo
  <1>1. CASE UNCHANGED vars
    BY <1>1 DEF vars
  <1>2. ASSUME NEW w \in Worker, NewCreate(w) PROVE LockInv'
    BY <1>2 DEF NewCreate
  <1>3. ASSUME NEW w \in Worker, WorkerInterrupted(w) \/ WorkerLoop(w) \/ WorkerSemWait(w)
                                 \/ WorkerPop(w)
        PROVE  LockInv'
    BY <1>3 DEF WorkerInterrupted, WorkerLoop, WorkerSemWait, WorkerPop
  <1>4. ASSUME NEW w \in Worker, WorkerLock(w) PROVE LockInv'
    BY <1>4 DEF WorkerLock
  <1>5. ASSUME NEW w \in Worker, WorkerUnlock(w) PROVE LockInv'
    <2>1. CASE pool = "freed"
      BY <1>5, <2>1 DEF WorkerUnlock
    <2>2. CASE pool # "freed"
      <3>1. locker = w
        BY <1>5, <2>2 DEF WorkerUnlock
      <3>2. \A t \in Worker \cup Request : t # w => ~InSection(t)
        BY <3>1, <2>2
      <3>3. \A r \in Request : rpc'[r] = rpc[r] \/ rpc'[r] = "running"
        BY <1>5 DEF WorkerUnlock
      <3> QED
        BY <1>5, <3>2, <3>3 DEF WorkerUnlock
    <2> QED
      BY <2>1, <2>2
  <1>6. ASSUME NEW w \in Worker, WorkerFinish(w) PROVE LockInv'
    <2>1. work[w] \in Request /\ rpc[work[w]] = "running"
      BY <1>6 DEF WorkerFinish, PlacesInv
    <2> QED
      BY <1>6, <2>1 DEF WorkerFinish
  <1>7. ASSUME NEW w \in Worker, UseAfterFree(w) PROVE LockInv'
    BY <1>7 DEF UseAfterFree
  <1>8. ASSUME NEW r \in Request, AppendLock(r) PROVE LockInv'
    BY <1>8 DEF AppendLock
  <1>9. ASSUME NEW r \in Request, AppendCall(r) \/ AppendCheck(r) \/ AppendEnqueue(r) \/ AppendPost(r)
        PROVE  LockInv'
    BY <1>9 DEF AppendCall, AppendCheck, AppendEnqueue, AppendPost
  <1>10. ASSUME NEW r \in Request, AppendReject(r) \/ AppendUnlock(r) PROVE LockInv'
    BY <1>10 DEF AppendReject, AppendUnlock
  <1>11. CASE NewFail \/ DeleteStop \/ DeleteFree
    BY <1>11 DEF NewFail, DeleteStop, DeleteFree
  <1> QED
    BY <1>1, <1>2, <1>3, <1>4, <1>5, <1>6, <1>7, <1>8, <1>9, <1>10, <1>11
       DEF Next, WorkerStep, AppendStep

LEMMA AdmissionStep ==
    ASSUME IInv, [Next]_vars PROVE AdmissionInv'
  <1> USE PoolAssumption DEF IInv, TypeOK, AdmissionInv, WGo, RGo
  <1>1. CASE UNCHANGED vars
    BY <1>1 DEF vars
  <1>2. ASSUME NEW w \in Worker,
               NewCreate(w) \/ WorkerInterrupted(w) \/ UseAfterFree(w) \/ WorkerLoop(w)
                 \/ WorkerLock(w) \/ WorkerPop(w)
        PROVE  AdmissionInv'
    BY <1>2 DEF NewCreate, WorkerInterrupted, UseAfterFree, WorkerLoop, WorkerLock, WorkerPop
  <1>3. ASSUME NEW w \in Worker, WorkerSemWait(w) PROVE AdmissionInv'
    BY <1>3 DEF WorkerSemWait
  <1>4. ASSUME NEW w \in Worker, WorkerUnlock(w) \/ WorkerFinish(w) PROVE AdmissionInv'
    BY <1>4 DEF WorkerUnlock, WorkerFinish
  <1>5. ASSUME NEW r \in Request,
               AppendCall(r) \/ AppendLock(r) \/ AppendCheck(r) \/ AppendReject(r)
                 \/ AppendEnqueue(r) \/ AppendUnlock(r)
        PROVE  AdmissionInv'
    BY <1>5 DEF AppendCall, AppendLock, AppendCheck, AppendReject, AppendEnqueue, AppendUnlock
  <1>6. ASSUME NEW r \in Request, AppendPost(r) PROVE AdmissionInv'
    <2>1. CASE pool = "freed"
      BY <1>6, <2>1 DEF AppendPost
    <2>2. CASE pool # "freed"
      <3>1. \A q \in Request : q # r => rpc[q] \notin {"enqueue", "post"}
        BY <1>6, <2>2 DEF AppendPost, LockInv, InSection
      <3> QED
        BY <1>6, <2>2, <3>1 DEF AppendPost
    <2> QED
      BY <2>1, <2>2
  <1>7. CASE NewFail \/ DeleteStop \/ DeleteFree
    BY <1>7 DEF NewFail, DeleteStop, DeleteFree
  <1> QED
    BY <1>1, <1>2, <1>3, <1>4, <1>5, <1>6, <1>7 DEF Next, WorkerStep, AppendStep

(* Whoever is inside the section is the only one: what Unposted looks at. *)
LEMMA UnpostedIs ==
    ASSUME IInv, pool # "freed"
    PROVE  /\ (\E r \in Request : rpc[r] = "post") => Unposted = 1
           /\ (\A r \in Request : rpc[r] # "post") => Unposted = 0
  BY PoolAssumption DEF IInv, LockInv, InSection, Unposted

LEMMA AccountingStep ==
    ASSUME IInv, [Next]_vars PROVE Accounting'
  <1> SUFFICES ASSUME pool' # "freed" PROVE Accounting'
    BY DEF Accounting
  <1>a. pool # "freed"
    <2>1. CASE UNCHANGED vars
      BY <2>1 DEF vars
    <2> QED
      BY <2>1 DEF Next, NewCreate, WorkerInterrupted, UseAfterFree, WorkerLoop, WorkerSemWait,
         WorkerLock, WorkerPop, WorkerUnlock, WorkerFinish, AppendCall, AppendLock, AppendCheck,
         AppendReject, AppendEnqueue, AppendPost, AppendUnlock, NewFail, DeleteStop, DeleteFree,
         WorkerStep, AppendStep
  <1>b. /\ Len(requests) = sem + Cardinality(Permitted) + Unposted
        /\ Cardinality(Permitted) \in Nat
        /\ sem \in Nat
        /\ Len(requests) \in Nat
        /\ Unposted \in {0, 1}
    BY <1>a, PermittedFinite, QueuePlaces DEF IInv, TypeOK, Accounting, Unposted
  <1>c. ASSUME Len(requests') = sem' + Cardinality(Permitted') + Unposted' PROVE Accounting'
    BY <1>c DEF Accounting, Unposted
  <1>d. TypeOK' /\ LockInv'
    BY TypeStep, LockStep
  <1>e. ASSUME NEW r \in Request, rpc'[r] = "post" PROVE Unposted' = 1
    BY <1>d, <1>e, PoolAssumption DEF TypeOK, LockInv, InSection, Unposted
  <1>f. ASSUME \A r \in Request : rpc'[r] # "post" PROVE Unposted' = 0
    BY <1>f DEF Unposted
  <1>1. CASE UNCHANGED vars
    BY <1>1, <1>b, <1>c DEF vars, Permitted, Unposted
  <1>2. ASSUME NEW w \in Worker,
               NewCreate(w) \/ WorkerInterrupted(w) \/ WorkerLoop(w)
        PROVE  Accounting'
    <2>1. Permitted' = Permitted
      BY <1>2 DEF IInv, TypeOK, WGo, Permitted, NewCreate, WorkerInterrupted, WorkerLoop
    <2> QED
      BY <1>2, <2>1, <1>b, <1>c DEF Unposted, NewCreate, WorkerInterrupted, WorkerLoop
  <1>3. ASSUME NEW w \in Worker, WorkerSemWait(w) PROVE Accounting'
    <2>1. Permitted' = Permitted \cup {w} /\ w \notin Permitted
      BY <1>3 DEF IInv, TypeOK, WGo, Permitted, WorkerSemWait
    <2>2. Cardinality(Permitted') = Cardinality(Permitted) + 1
      BY <2>1, PermittedFinite, FS_AddElement
    <2> QED
      BY <1>3, <2>2, <1>b, <1>c DEF Unposted, WorkerSemWait
  <1>4. ASSUME NEW w \in Worker, WorkerLock(w) PROVE Accounting'
    <2>1. Permitted' = Permitted
      BY <1>4 DEF IInv, TypeOK, WGo, Permitted, WorkerLock
    <2>2. \A r \in Request : rpc[r] # "post"
      BY <1>4, <1>a, PoolAssumption DEF IInv, LockInv, InSection, WorkerLock
    <2>3. Unposted = 0 /\ Unposted' = 0
      BY <1>4, <1>f, <2>2 DEF Unposted, WorkerLock
    <2> QED
      BY <1>4, <2>1, <2>3, <1>b, <1>c DEF WorkerLock
  <1>5. ASSUME NEW w \in Worker, WorkerPop(w) PROVE Accounting'
    <2>1. Permitted' = Permitted \ {w} /\ w \in Permitted
      BY <1>5 DEF IInv, TypeOK, WGo, Permitted, WorkerPop
    <2>2. Cardinality(Permitted') = Cardinality(Permitted) - 1
      BY <2>1, PermittedFinite, FS_RemoveElement
    <2>3. Len(requests') = Len(requests) - 1
      BY <1>5, TailPlaces DEF IInv, TypeOK, WorkerPop
    <2> QED
      BY <1>5, <2>2, <2>3, <1>b, <1>c DEF Unposted, WorkerPop
  <1>6. ASSUME NEW w \in Worker, WorkerUnlock(w) PROVE Accounting'
    <2>1. Permitted' = Permitted
      BY <1>6 DEF IInv, TypeOK, WGo, Permitted, WorkerUnlock
    <2>2. locker = w
      BY <1>6, <1>a DEF IInv, LockInv, InSection, WGo, WorkerUnlock
    <2>3. Unposted = 0
      BY <2>2, PoolAssumption DEF Unposted
    <2>4. Unposted' = 0
      BY <1>6, PoolAssumption DEF Unposted, WorkerUnlock
    <2> QED
      BY <1>6, <2>1, <2>3, <2>4, <1>b, <1>c DEF WorkerUnlock
  <1>7. ASSUME NEW w \in Worker, WorkerFinish(w) PROVE Accounting'
    <2>1. Permitted' = Permitted
      BY <1>7 DEF IInv, TypeOK, WGo, Permitted, WorkerFinish
    <2>2. work[w] \in Request /\ rpc[work[w]] = "running"
      BY <1>7 DEF IInv, TypeOK, PlacesInv, WGo, WorkerFinish
    <2>3. Unposted' = Unposted
      BY <1>7, <2>2 DEF IInv, TypeOK, Unposted, WorkerFinish
    <2> QED
      BY <1>7, <2>1, <2>3, <1>b, <1>c DEF WorkerFinish
  <1>8. ASSUME NEW r \in Request, AppendCall(r) \/ AppendCheck(r) PROVE Accounting'
    <2>1. Permitted' = Permitted
      BY <1>8 DEF Permitted, AppendCall, AppendCheck
    <2>2. Unposted' = Unposted
      BY <1>8 DEF IInv, TypeOK, RGo, Unposted, AppendCall, AppendCheck
    <2> QED
      BY <1>8, <2>1, <2>2, <1>b, <1>c DEF AppendCall, AppendCheck
  <1>9. ASSUME NEW r \in Request, AppendLock(r) PROVE Accounting'
    <2>1. Permitted' = Permitted
      BY <1>9 DEF Permitted, AppendLock
    <2>2. Unposted = 0 /\ Unposted' = 0
      BY <1>9, PoolAssumption DEF IInv, TypeOK, RGo, Unposted, AppendLock
    <2> QED
      BY <1>9, <2>1, <2>2, <1>b, <1>c DEF AppendLock
  <1>10. ASSUME NEW r \in Request, AppendReject(r) \/ AppendUnlock(r) PROVE Accounting'
    <2>1. Permitted' = Permitted
      BY <1>10 DEF Permitted, AppendReject, AppendUnlock
    <2>2. locker = r
      BY <1>10, <1>a DEF IInv, LockInv, InSection, RGo, AppendReject, AppendUnlock
    <2>3. Unposted = 0 /\ Unposted' = 0
      BY <1>10, <2>2, PoolAssumption DEF RGo, Unposted, AppendReject, AppendUnlock
    <2> QED
      BY <1>10, <2>1, <2>3, <1>b, <1>c DEF AppendReject, AppendUnlock
  <1>11. ASSUME NEW r \in Request, AppendEnqueue(r) PROVE Accounting'
    <2>1. Permitted' = Permitted
      BY <1>11 DEF Permitted, AppendEnqueue
    <2>2. locker = r
      BY <1>11, <1>a DEF IInv, LockInv, InSection, RGo, AppendEnqueue
    <2>3. Unposted = 0 /\ Unposted' = 1
      BY <1>11, <2>2 DEF IInv, TypeOK, RGo, Unposted, AppendEnqueue
    <2>4. Len(requests') = Len(requests) + 1
      BY <1>11, AppendPlaces DEF IInv, TypeOK, AppendEnqueue
    <2> QED
      BY <1>11, <2>1, <2>3, <2>4, <1>b, <1>c DEF AppendEnqueue
  <1>12. ASSUME NEW r \in Request, AppendPost(r) PROVE Accounting'
    <2>1. Permitted' = Permitted
      BY <1>12 DEF Permitted, AppendPost
    <2>2. locker = r
      BY <1>12, <1>a DEF IInv, LockInv, InSection, RGo, AppendPost
    <2>3. Unposted = 1 /\ Unposted' = 0
      BY <1>12, <2>2 DEF IInv, TypeOK, RGo, Unposted, AppendPost
    <2> QED
      BY <1>12, <2>1, <2>3, <1>b, <1>c DEF AppendPost
  <1>13. CASE NewFail \/ DeleteStop \/ DeleteFree
    BY <1>13, <1>b, <1>c DEF Permitted, Unposted, NewFail, DeleteStop, DeleteFree
  <1> QED
    BY <1>a, <1>1, <1>2, <1>3, <1>4, <1>5, <1>6, <1>7, <1>8, <1>9, <1>10, <1>11, <1>12, <1>13
       DEF Next, WorkerStep, AppendStep, UseAfterFree

LEMMA PlacesStep ==
    ASSUME IInv, [Next]_vars PROVE PlacesInv'
  <1> USE PoolAssumption DEF IInv, TypeOK, WGo, RGo
  <1>a. /\ Len(requests) \in Nat
        /\ \A i \in 1..Len(requests) : requests[i] \in Request
    BY QueuePlaces
  <1>1. CASE UNCHANGED vars
    BY <1>1 DEF vars, PlacesInv
  <1>2. ASSUME NEW w \in Worker,
               NewCreate(w) \/ WorkerInterrupted(w) \/ UseAfterFree(w) \/ WorkerLoop(w)
                 \/ WorkerSemWait(w) \/ WorkerLock(w)
        PROVE  PlacesInv'
    BY <1>2 DEF PlacesInv, NewCreate, WorkerInterrupted, UseAfterFree, WorkerLoop,
                WorkerSemWait, WorkerLock
  <1>3. ASSUME NEW w \in Worker, WorkerPop(w) PROVE PlacesInv'
    <2>1. /\ Len(requests) \in Nat \ {0}
          /\ Len(requests') = Len(requests) - 1
          /\ \A i \in 1..Len(requests) - 1 : requests'[i] = requests[i + 1]
          /\ work' = [work EXCEPT ![w] = requests[1]]
      BY <1>3, TailPlaces DEF WorkerPop
    <2>2. work[w] = NULL
      BY <1>3 DEF PlacesInv, WorkerPop
    <2>3. requests[1] \in Request /\ rpc[requests[1]] = "accepted"
      BY <1>3, <1>a, <2>1 DEF PlacesInv, LockInv, InSection, WorkerPop
    <2>4. \A i \in 2..Len(requests) : requests[i] # requests[1]
      BY <2>1 DEF PlacesInv
    <2>5. \A i, j \in 1..Len(requests') : requests'[i] = requests'[j] => i = j
      <3> SUFFICES ASSUME NEW i \in 1..Len(requests'), NEW j \in 1..Len(requests'),
                          requests'[i] = requests'[j]
                   PROVE  i = j
        OBVIOUS
      <3>1. /\ i + 1 \in 1..Len(requests) /\ j + 1 \in 1..Len(requests)
            /\ requests[i + 1] = requests[j + 1]
        BY <2>1
      <3> QED
        BY <3>1 DEF PlacesInv
    <2>6. ASSUME NEW i \in 1..Len(requests')
          PROVE  /\ rpc'[requests'[i]] \in {"post", "unlock", "accepted"}
                 /\ requests'[i] # requests[1]
                 /\ \A v \in Worker : work[v] # NULL => requests'[i] # work[v]
      <3>1. i + 1 \in 2..Len(requests) /\ requests'[i] = requests[i + 1]
        BY <2>1
      <3> QED
        BY <1>3, <2>4, <3>1 DEF PlacesInv, WorkerPop
    <2>7. ASSUME NEW v \in Worker
          PROVE  /\ wpc'[v] \in {"unlock", "run"} => work'[v] # NULL
                 /\ work'[v] # NULL =>
                      /\ wpc'[v] \in {"unlock", "run", "undefined"}
                      /\ rpc'[work'[v]] = IF wpc'[v] = "run" THEN "running" ELSE "accepted"
                      /\ \A i \in 1..Len(requests') : requests'[i] # work'[v]
                      /\ \A u \in Worker : work'[u] = work'[v] => u = v
      <3>1. CASE v = w
        <4>1. work'[v] = requests[1] /\ wpc'[v] = "unlock" /\ rpc' = rpc
          BY <1>3, <2>1, <3>1 DEF WorkerPop
        <4>2. \A u \in Worker : u # w => work'[u] = work[u] /\ work[u] # requests[1]
          BY <2>1 DEF PlacesInv
        <4> QED
          BY <3>1, <4>1, <4>2, <2>3, <2>6
      <3>2. CASE v # w
        <4>1. work'[v] = work[v] /\ wpc'[v] = wpc[v] /\ rpc' = rpc
          BY <1>3, <2>1, <3>2 DEF WorkerPop
        <4>2. work[v] # requests[1]
          BY <2>1, <2>3 DEF PlacesInv
        <4> QED
          BY <3>2, <4>1, <4>2, <2>1, <2>6 DEF PlacesInv
      <3> QED
        BY <3>1, <3>2
    <2>8. ASSUME NEW r \in Request, rpc'[r] \in {"post", "unlock", "accepted", "running"}
          PROVE  \/ \E i \in 1..Len(requests') : requests'[i] = r
                 \/ \E v \in Worker : work'[v] = r
      <3>1. CASE \E i \in 1..Len(requests) : requests[i] = r
        <4>1. PICK i \in 1..Len(requests) : requests[i] = r
          BY <3>1
        <4>2. CASE i = 1
          BY <4>1, <4>2, <2>1
        <4>3. CASE i # 1
          <5>1. i - 1 \in 1..Len(requests') /\ requests'[i - 1] = r
            BY <4>1, <4>3, <2>1
          <5> QED
            BY <5>1
        <4> QED
          BY <4>2, <4>3
      <3>2. CASE \E v \in Worker : work[v] = r
        BY <3>2, <2>1, <2>2
      <3> QED
        BY <1>3, <2>8, <3>1, <3>2 DEF PlacesInv, WorkerPop
    <2> QED
      BY <2>5, <2>6, <2>7, <2>8 DEF PlacesInv
  <1>4. ASSUME NEW w \in Worker, WorkerUnlock(w) PROVE PlacesInv'
    <2>1. work[w] \in Request /\ \A v \in Worker : work[v] = work[w] => v = w
      BY <1>4 DEF PlacesInv, WorkerUnlock
    <2> QED
      BY <1>4, <2>1, <1>a DEF PlacesInv, WorkerUnlock
  <1>5. ASSUME NEW w \in Worker, WorkerFinish(w) PROVE PlacesInv'
    <2>1. /\ work[w] \in Request /\ rpc[work[w]] = "running"
          /\ \A v \in Worker : work[v] = work[w] => v = w
      BY <1>5 DEF PlacesInv, WorkerFinish
    <2> QED
      BY <1>5, <2>1, <1>a DEF PlacesInv, WorkerFinish
  <1>6. ASSUME NEW r \in Request, rpc[r] \notin {"post", "unlock", "accepted", "running"}
        PROVE  /\ \A i \in 1..Len(requests) : requests[i] # r
               /\ \A w \in Worker : work[w] # r
    BY <1>6 DEF PlacesInv
  <1>7. ASSUME NEW r \in Request,
               AppendCall(r) \/ AppendLock(r) \/ AppendCheck(r) \/ AppendReject(r)
        PROVE  PlacesInv'
    <2>1. /\ rpc[r] \notin {"post", "unlock", "accepted", "running"}
          /\ rpc'[r] \notin {"post", "unlock", "accepted", "running"}
          /\ \A q \in Request : q # r => rpc'[q] = rpc[q]
          /\ UNCHANGED <<requests, work, wpc>>
      BY <1>7 DEF AppendCall, AppendLock, AppendCheck, AppendReject
    <2>2. \A i \in 1..Len(requests) : rpc'[requests[i]] = rpc[requests[i]]
      BY <1>6, <1>a, <2>1
    <2>3. \A w \in Worker : work[w] # NULL => rpc'[work[w]] = rpc[work[w]]
      BY <1>6, <2>1
    <2> QED
      BY <2>1, <2>2, <2>3 DEF PlacesInv
  <1>8. ASSUME NEW r \in Request, AppendEnqueue(r) PROVE PlacesInv'
    <2>1. /\ Len(requests') = Len(requests) + 1
          /\ \A i \in 1..Len(requests) : requests'[i] = requests[i]
          /\ requests'[Len(requests) + 1] = r
      BY <1>8, AppendPlaces DEF AppendEnqueue
    <2>2. /\ \A i \in 1..Len(requests) : requests[i] # r
          /\ \A w \in Worker : work[w] # r
      BY <1>6, <1>8 DEF AppendEnqueue
    <2>3. \A i, j \in 1..Len(requests') : requests'[i] = requests'[j] => i = j
      BY <1>a, <2>1, <2>2 DEF PlacesInv
    <2>4. \A i \in 1..Len(requests') : rpc'[requests'[i]] \in {"post", "unlock", "accepted"}
      BY <1>8, <1>a, <2>1, <2>2 DEF PlacesInv, AppendEnqueue
    <2>5. ASSUME NEW w \in Worker
          PROVE  /\ wpc'[w] \in {"unlock", "run"} => work'[w] # NULL
                 /\ work'[w] # NULL =>
                      /\ wpc'[w] \in {"unlock", "run", "undefined"}
                      /\ rpc'[work'[w]] = IF wpc'[w] = "run" THEN "running" ELSE "accepted"
                      /\ \A i \in 1..Len(requests') : requests'[i] # work'[w]
                      /\ \A v \in Worker : work'[v] = work'[w] => v = w
      BY <1>8, <1>a, <2>1, <2>2 DEF PlacesInv, AppendEnqueue
    <2>6. ASSUME NEW q \in Request, rpc'[q] \in {"post", "unlock", "accepted", "running"}
          PROVE  \/ \E i \in 1..Len(requests') : requests'[i] = q
                 \/ \E w \in Worker : work'[w] = q
      <3>1. CASE q = r
        <4>1. Len(requests) + 1 \in 1..Len(requests')
          BY <1>a, <2>1
        <4> QED
          BY <3>1, <4>1, <2>1
      <3>2. CASE q # r
        BY <1>8, <1>a, <2>1, <2>6, <3>2 DEF PlacesInv, AppendEnqueue
      <3> QED
        BY <3>1, <3>2
    <2> QED
      BY <2>3, <2>4, <2>5, <2>6 DEF PlacesInv
  <1>9. ASSUME NEW r \in Request, AppendPost(r) \/ AppendUnlock(r) PROVE PlacesInv'
    BY <1>9, <1>a DEF PlacesInv, AppendPost, AppendUnlock
  <1>10. CASE NewFail \/ DeleteStop \/ DeleteFree
    BY <1>10 DEF PlacesInv, NewFail, DeleteStop, DeleteFree
  <1> QED
    BY <1>1, <1>2, <1>3, <1>4, <1>5, <1>7, <1>8, <1>9, <1>10 DEF Next, WorkerStep, AppendStep

-----------------------------------------------------------------------------
(* The strengthened invariant holds in every reachable state. *)
THEOREM Inductive == Spec => []IInv
  <1>1. IInv /\ [Next]_vars => IInv'
    BY TypeStep, LockStep, AccountingStep, AdmissionStep, PlacesStep DEF IInv
  <1> QED
    BY InitIInv, <1>1, PTL DEF Spec

(* Type correctness of the pool. *)
THEOREM TypeCorrect == Spec => []TypeOK
  BY Inductive, PTL DEF IInv

LEMMA PermitMeansRequest == IInv => NoEmptyPop
  <1> SUFFICES ASSUME IInv, pool # "freed", NEW w \in Worker, wpc[w] = "pop"
               PROVE  requests # <<>>
    BY DEF NoEmptyPop
  <1>1. Cardinality(Permitted) > 0
    BY PermittedNonEmpty DEF Permitted
  <1>2. Len(requests) > 0
    BY <1>1, PermittedFinite DEF IInv, TypeOK, Accounting
  <1> QED
    BY <1>2, EmptySeq

(* assert(0) in threadpool_worker is never reached: whoever holds a permit finds a request. *)
THEOREM AssertNeverFails == Spec => []NoEmptyPop
  BY Inductive, PermitMeansRequest, PTL

LEMMA AccountsBound == IInv => QueueBound
  <1> SUFFICES ASSUME IInv, pool # "freed"
               PROVE  sem <= max_requests /\ Len(requests) <= max_requests + Cardinality(Worker)
    BY DEF QueueBound
  <1>1. sem <= max_requests /\ sem \in Nat /\ max_requests \in Nat
    BY PoolAssumption DEF IInv, TypeOK, AdmissionInv
  <1>2. Cardinality(Permitted) <= Cardinality(Worker)
        /\ Cardinality(Permitted) \in Nat /\ Cardinality(Worker) \in Nat
    BY PermittedFinite
  <1>3. Len(requests) = sem + Cardinality(Permitted) + Unposted
    BY DEF IInv, Accounting, Unposted
  <1>4. CASE Unposted = 0
    BY <1>1, <1>2, <1>3, <1>4
  <1>5. CASE Unposted # 0
    <2>1. Unposted = 1 /\ sem < max_requests
      BY <1>5 DEF IInv, AdmissionInv, Unposted
    <2> QED
      BY <1>1, <1>2, <1>3, <2>1
  <1> QED
    BY <1>4, <1>5

(* The list never outgrows the limit by more than one entry per worker. *)
THEOREM Bounded == Spec => []QueueBound
  BY Inductive, AccountsBound, PTL

LEMMA OnePlace == IInv => ExactlyOnce
  <1> SUFFICES ASSUME IInv, NEW r \in Request
               PROVE  LET listed == {i \in 1..Len(requests) : requests[i] = r}
                          taken == {w \in Worker : work[w] = r}
                      IN  IF rpc[r] \in {"post", "unlock", "accepted", "running"}
                          THEN Cardinality(listed) + Cardinality(taken) = 1
                          ELSE Cardinality(listed) + Cardinality(taken) = 0
    BY DEF ExactlyOnce
  <1> DEFINE listed == {i \in 1..Len(requests) : requests[i] = r}
             taken == {w \in Worker : work[w] = r}
  <1>1. CASE rpc[r] \notin {"post", "unlock", "accepted", "running"}
    <2>1. listed = {} /\ taken = {}
      BY <1>1, PoolAssumption DEF IInv, PlacesInv
    <2>2. Cardinality(listed) = 0 /\ Cardinality(taken) = 0
      BY <2>1, FS_EmptySet
    <2> QED
      BY <1>1, <2>2
  <1>2. CASE \E i \in 1..Len(requests) : requests[i] = r
    <2>1. PICK i \in 1..Len(requests) : requests[i] = r
      BY <1>2
    <2>2. listed = {i} /\ taken = {}
      BY <2>1, PoolAssumption DEF IInv, PlacesInv
    <2>3. rpc[r] \in {"post", "unlock", "accepted"}
      BY <2>1 DEF IInv, PlacesInv
    <2>4. Cardinality(listed) = 1 /\ Cardinality(taken) = 0
      BY <2>2, FS_EmptySet, FS_Singleton
    <2> QED
      BY <2>3, <2>4
  <1>3. CASE \E w \in Worker : work[w] = r
    <2>1. PICK w \in Worker : work[w] = r
      BY <1>3
    <2>2. listed = {} /\ taken = {w}
      BY <2>1, PoolAssumption DEF IInv, PlacesInv
    <2>3. rpc[r] \in {"accepted", "running"}
      BY <2>1, PoolAssumption DEF IInv, PlacesInv
    <2>4. Cardinality(listed) = 0 /\ Cardinality(taken) = 1
      BY <2>2, FS_EmptySet, FS_Singleton
    <2> QED
      BY <2>3, <2>4
  <1> QED
    BY <1>1, <1>2, <1>3 DEF IInv, PlacesInv

(* An admitted request is held in exactly one place until it has run. *)
THEOREM HeldOnce == Spec => []ExactlyOnce
  BY Inductive, OnePlace, PTL
=============================================================================
