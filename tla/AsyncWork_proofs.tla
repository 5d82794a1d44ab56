---------------------------- MODULE AsyncWork_proofs -----------------------------
(***************************************************************************)
(* Proofs about AsyncWork for any number of works and workers, any delays  *)
(* and any size of the pool: the reference counts are exact, a work is     *)
(* answered by one hook, and the handler jumps into a live frame.          *)
(***************************************************************************)
EXTENDS AsyncWork, SeqLemmas, FiniteSetTheorems

-----------------------------------------------------------------------------
(* Whom the steps are about *)

(* The event loop's turn is about a work that has been marked. *)
LEMMA Expired ==
    ASSUME IInv, mpc \in {"signal", "hook", "put"}
    PROVE  /\ expired \in Seq(Work) /\ expired # <<>> /\ Head(expired) \in Work
           /\ Contains(expired, Head(expired)) /\ isTimeout[Head(expired)]
           /\ assign[Head(expired)] # "new" /\ Head(expired) # NULL
  <1>1. expired \in Seq(Work) /\ expired # <<>>
    BY DEF IInv, TypeOK, OneList
  <1>2. Head(expired) \in Work /\ Contains(expired, Head(expired))
    BY <1>1, HeadTailProperties, TailContains
  <1> QED
    BY <1>1, <1>2, AsyncAssumption DEF IInv, OneList, Untouched

(* A worker that is not idle has a work of its own. *)
LEMMA Busy ==
    ASSUME IInv, NEW k \in Worker, wpc[k] # "idle"
    PROVE  /\ aw[k] \in Work /\ aw[k] # NULL /\ tid[aw[k]] = k
           /\ assign[aw[k]] = "assigned" /\ Begun(aw[k])
           /\ \A j \in Worker : aw[j] = aw[k] => j = k
  BY AsyncAssumption DEF IInv, TypeOK, OnePlace, Begun

(* A pending signal is for a work that its thread has begun. *)
LEMMA Pending ==
    ASSUME IInv, NEW k \in Worker, pending[k] # NULL
    PROVE  /\ pending[k] \in Work /\ tid[pending[k]] = k
           /\ assign[pending[k]] = "assigned" /\ Begun(pending[k])
           /\ isTimeout[pending[k]]
           /\ \A j \in Worker : pending[j] = pending[k] => j = k
  BY AsyncAssumption DEF IInv, TypeOK, OnePlace, OneSignal, Begun, InSignal

(* The handler's jump goes into the frame of the work it is for. *)
LEMMA Jump ==
    ASSUME IInv, NEW k \in Worker, pending[k] # NULL, k \notin masked, isSetJmp[pending[k]]
    PROVE  aw[k] = pending[k] /\ wpc[k] \in {"work", "disarm"}
  <1>1. pending[k] \in Work /\ tid[pending[k]] = k
    BY Pending
  <1>2. Runs(pending[k], {"work", "disarm"})
    BY <1>1 DEF IInv, OneSignal
  <1> QED
    BY <1>1, <1>2 DEF Runs

(* async_work_put touches one work. *)
LEMMA PutOne ==
    ASSUME IInv, NEW w \in Work, Put(w)
    PROVE  /\ ref' \in [Work -> Int] /\ freed' \subseteq Work
           /\ ref'[w] = ref[w] - 1 /\ ref[w] \in Int
           /\ w \in freed' <=> w \in freed \/ ref[w] = 1
           /\ \A v \in Work : v # w => ref'[v] = ref[v] /\ (v \in freed' <=> v \in freed)
  BY DEF IInv, TypeOK, Put

-----------------------------------------------------------------------------
(* Each conjunct is kept by each step *)

(* Every step keeps the types. *)
LEMMA TypeStep ==
    ASSUME IInv, Next
    PROVE  TypeOK'
  <1> USE AsyncAssumption DEF IInv, TypeOK, loopVars, aboutVars, histVars
  <1>1. ASSUME NEW w \in Work, AssignAppend(w) PROVE TypeOK'
    BY <1>1, AddBeforeContains DEF AssignAppend
  <1>2. ASSUME AssignPool PROVE TypeOK'
    <2>1. cur \in Work
      BY <1>2 DEF AssignPool, OnePlace
    <2>2. Append(queue, cur) \in Seq(Work)
      BY <2>1
    <2>3. /\ assign' \in [Work -> {"new", "append", "assigned", "rejected"}]
          /\ ref' \in [Work -> Int] /\ queue' \in Seq(Work)
      <3>1. ref' \in [Work -> Int]
        BY <1>2, <2>1 DEF AssignPool
      <3>2. CASE Len(queue) >= max_requests
        BY <1>2, <2>1, <3>1, <3>2 DEF AssignPool
      <3>3. CASE ~(Len(queue) >= max_requests)
        BY <1>2, <2>1, <2>2, <3>1, <3>3 DEF AssignPool
      <3> QED
        BY <3>2, <3>3
    <2> QED
      BY <1>2, <2>3 DEF AssignPool
  <1>3. ASSUME TimeoutMark PROVE TypeOK'
    <2>1. ts' \in Nat
      BY <1>3 DEF TimeoutMark
    <2>2. expired' \in Seq(Work) /\ list' \in Seq(Work)
      BY <1>3, CutContains DEF TimeoutMark
    <2>3. isTimeout' \in [Work -> BOOLEAN]
      BY <1>3 DEF TimeoutMark
    <2>4. raced' \subseteq Work
      <3> DEFINE inTime == {w \in Work : ts' < deadline[w]}
                 gone == ToSet(FirstOnes(list, inTime))
      <3>1. gone \subseteq Work
        BY CutContains, ContainsElement
      <3>2. raced' = raced \cup {w \in gone : \E k \in Worker : aw[k] = w /\ wpc[k] = "unlink"}
        BY <1>3 DEF TimeoutMark
      <3> HIDE DEF gone
      <3> QED
        BY <3>1, <3>2
    <2>5. mpc' \in {"loop", "signal"}
      BY <1>3 DEF TimeoutMark
    <2> QED
      BY <1>3, <2>1, <2>2, <2>3, <2>4, <2>5 DEF TimeoutMark
  <1>4. ASSUME TimeoutSignal PROVE TypeOK'
    <2>1. Head(expired) \in Work
      BY <1>4, Expired DEF TimeoutSignal
    <2>2. pending' \in [Worker -> Work \cup {NULL}] /\ lost' \subseteq Work
      <3>1. CASE UNCHANGED pending
        BY <1>4, <2>1, <3>1 DEF TimeoutSignal
      <3>2. CASE pending' = [pending EXCEPT ![tid[Head(expired)]] = Head(expired)] /\ UNCHANGED lost
        BY <2>1, <3>2
      <3> QED
        BY <1>4, <3>1, <3>2 DEF TimeoutSignal
    <2> QED
      BY SMTT(30), <1>4, <2>1, <2>2 DEF TimeoutSignal
  <1>5. ASSUME TimeoutHook PROVE TypeOK'
    BY <1>5, Expired, TailPlaces DEF TimeoutHook
  <1>6. ASSUME TimeoutPut PROVE TypeOK'
    <2>1. Head(expired) \in Work /\ Put(Head(expired)) /\ Tail(expired) \in Seq(Work)
      BY <1>6, Expired, TailPlaces DEF TimeoutPut
    <2>2. ref' \in [Work -> Int] /\ freed' \subseteq Work
      BY <2>1, PutOne
    <2> QED
      BY <1>6, <2>1, <2>2 DEF TimeoutPut
  <1>7. ASSUME NEW k \in Worker, WorkTake(k) PROVE TypeOK'
    BY <1>7, TailContains, TailPlaces DEF WorkTake, WGo
  <1>8. ASSUME NEW k \in Worker, WorkArm(k) PROVE TypeOK'
    BY <1>8 DEF WorkArm, WGo
  <1>9. ASSUME NEW k \in Worker, WorkReturn(k) PROVE TypeOK'
    BY <1>9 DEF WorkReturn, WGo
  <1>10. ASSUME NEW k \in Worker, WorkDisarm(k) PROVE TypeOK'
    BY <1>10 DEF WorkDisarm, WGo
  <1>11. ASSUME NEW k \in Worker, WorkJumped(k) PROVE TypeOK'
    <2>1. aw[k] \in Work /\ Put(aw[k])
      BY <1>11, Busy DEF WorkJumped, WGo
    <2>2. ref' \in [Work -> Int] /\ freed' \subseteq Work
      BY <2>1, PutOne
    <2> QED
      BY <1>11, <2>2 DEF WorkJumped, WGo
  <1>12. ASSUME NEW k \in Worker, WorkCheck(k) PROVE TypeOK'
    BY <1>12 DEF WorkCheck, WGo
  <1>13. ASSUME NEW k \in Worker, WorkUnlink(k) PROVE TypeOK'
    <2>1. list' \in Seq(Work)
      BY <1>13, DelContains DEF WorkUnlink, OneList
    <2> QED
      BY <1>13, <2>1 DEF WorkUnlink, WGo
  <1>14. ASSUME NEW k \in Worker, WorkPutList(k) PROVE TypeOK'
    <2>1. aw[k] \in Work /\ Put(aw[k])
      BY <1>14, Busy DEF WorkPutList, WGo
    <2>2. ref' \in [Work -> Int] /\ freed' \subseteq Work
      BY <2>1, PutOne
    <2> QED
      BY <1>14, <2>2 DEF WorkPutList, WGo
  <1>15. ASSUME NEW k \in Worker, WorkHook(k) PROVE TypeOK'
    <2>1. hooks' \in [Work -> SUBSET {"timeout", "success", "fail"}]
      <3>1. PICK h \in {"success", "fail"} : hooks' = [hooks EXCEPT ![aw[k]] = @ \cup {h}]
        BY <1>15 DEF WorkHook
      <3> QED
        BY <3>1
    <2> QED
      BY <1>15, <2>1 DEF WorkHook, WGo
  <1>16. ASSUME NEW k \in Worker, WorkPutPool(k) PROVE TypeOK'
    <2>1. aw[k] \in Work /\ Put(aw[k])
      BY <1>16, Busy DEF WorkPutPool, WGo
    <2>2. ref' \in [Work -> Int] /\ freed' \subseteq Work
      BY <2>1, PutOne
    <2> QED
      BY <1>16, <2>2 DEF WorkPutPool, WGo
  <1>17. ASSUME NEW k \in Worker, Handle(k) PROVE TypeOK'
    <2> DEFINE w == pending[k]
    <2>1. w \in Work
      BY <1>17, Pending DEF Handle
    <2>2. CASE isSetJmp[w]
      <3>1. /\ pending' = [pending EXCEPT ![k] = NULL] /\ wpc' = [wpc EXCEPT ![k] = "jumped"]
            /\ masked' = masked \cup {k} /\ UNCHANGED <<ref, freed>>
        BY <1>17, <2>2 DEF Handle
      <3> QED
        BY <1>17, <3>1 DEF Handle
    <2>3. CASE ~isSetJmp[w]
      <3>1. ref' \in [Work -> Int] /\ freed' \subseteq Work
        BY <1>17, <2>1, <2>3, PutOne DEF Handle
      <3> QED
        BY <1>17, <3>1, <2>3 DEF Handle
    <2> QED
      BY <2>2, <2>3
  <1> QED
    BY <1>1, <1>2, <1>3, <1>4, <1>5, <1>6, <1>7, <1>8, <1>9, <1>10, <1>11, <1>12, <1>13,
       <1>14, <1>15, <1>16, <1>17 DEF Next, TimeoutStep, WorkStep

(* A work moves from the caller to the queue and from there to one worker. *)
LEMMA PlaceStep ==
    ASSUME IInv, Next
    PROVE  OnePlace'
  <1> USE AsyncAssumption DEF IInv, TypeOK, OnePlace, Put, loopVars, aboutVars, histVars
  <1>1. ASSUME NEW w \in Work, AssignAppend(w) PROVE OnePlace'
    BY <1>1, AddBeforeContains DEF AssignAppend
  <1>2. ASSUME AssignPool PROVE OnePlace'
    <2>1. /\ cur \in Work /\ assign[cur] = "append" /\ ~Contains(queue, cur) /\ tid[cur] = NULL
          /\ mpc = "assign" /\ mpc' = "loop" /\ UNCHANGED <<tid, wpc, aw>>
      BY <1>2 DEF AssignPool
    <2>2. CASE Len(queue) >= max_requests
      <3>1. assign' = [assign EXCEPT ![cur] = "rejected"] /\ queue' = queue
        BY <1>2, <2>2 DEF AssignPool
      <3> QED
        BY <2>1, <3>1
    <2>3. CASE ~(Len(queue) >= max_requests)
      <3>1. assign' = [assign EXCEPT ![cur] = "assigned"] /\ queue' = Append(queue, cur)
        BY <1>2, <2>3 DEF AssignPool
      <3> QED
        BY <2>1, <3>1, AppendContains
    <2> QED
      BY <2>2, <2>3
  <1>3. ASSUME TimeoutMark PROVE OnePlace'
    BY <1>3, CutContains DEF TimeoutMark
  <1>4. ASSUME TimeoutSignal PROVE OnePlace'
    BY <1>4, TailContains, TailPlaces DEF TimeoutSignal
  <1>5. ASSUME TimeoutHook PROVE OnePlace'
    BY <1>5, TailContains, TailPlaces DEF TimeoutHook
  <1>6. ASSUME TimeoutPut PROVE OnePlace'
    BY <1>6, TailContains, TailPlaces DEF TimeoutPut
  <1>7. ASSUME NEW k \in Worker, WorkTake(k) PROVE OnePlace'
    BY <1>7, TailContains, TailPlaces DEF WorkTake, WGo
  <1>8. ASSUME NEW k \in Worker, WorkArm(k) PROVE OnePlace'
    BY <1>8 DEF WorkArm, WGo
  <1>9. ASSUME NEW k \in Worker, WorkReturn(k) PROVE OnePlace'
    BY <1>9 DEF WorkReturn, WGo
  <1>10. ASSUME NEW k \in Worker, WorkDisarm(k) PROVE OnePlace'
    BY <1>10 DEF WorkDisarm, WGo
  <1>11. ASSUME NEW k \in Worker, WorkJumped(k) PROVE OnePlace'
    BY <1>11 DEF WorkJumped, WGo
  <1>12. ASSUME NEW k \in Worker, WorkCheck(k) PROVE OnePlace'
    BY <1>12 DEF WorkCheck, WGo
  <1>13. ASSUME NEW k \in Worker, WorkUnlink(k) PROVE OnePlace'
    BY <1>13, DelContains DEF WorkUnlink, WGo
  <1>14. ASSUME NEW k \in Worker, WorkPutList(k) PROVE OnePlace'
    BY <1>14 DEF WorkPutList, WGo
  <1>15. ASSUME NEW k \in Worker, WorkHook(k) PROVE OnePlace'
    BY <1>15 DEF WorkHook, WGo
  <1>16. ASSUME NEW k \in Worker, WorkPutPool(k) PROVE OnePlace'
    BY <1>16 DEF WorkPutPool, WGo
  <1>17. ASSUME NEW k \in Worker, Handle(k) PROVE OnePlace'
    <2>1. /\ UNCHANGED <<queue, tid, assign, aw, mpc, cur>>
          /\ pending[k] # NULL /\ k \notin masked
      BY <1>17 DEF Handle
    <2>2. CASE isSetJmp[pending[k]]
      <3>1. aw[k] = pending[k] /\ wpc[k] # "idle"
        BY <2>1, <2>2, Jump
      <3>2. wpc' = [wpc EXCEPT ![k] = "jumped"]
        BY <1>17, <2>2 DEF Handle
      <3> QED
        BY <2>1, <3>1, <3>2
    <2>3. CASE ~isSetJmp[pending[k]]
      <3>1. wpc' = wpc
        BY <1>17, <2>3 DEF Handle
      <3> QED
        BY <2>1, <3>1
    <2> QED
      BY <2>2, <2>3
  <1> QED
    BY <1>1, <1>2, <1>3, <1>4, <1>5, <1>6, <1>7, <1>8, <1>9, <1>10, <1>11, <1>12, <1>13,
       <1>14, <1>15, <1>16, <1>17 DEF Next, TimeoutStep, WorkStep

(* A work leaves the timeout list with its mark or by its worker's hand.   *)
LEMMA ListStep ==
    ASSUME IInv, Next
    PROVE  OneList'
  <1> USE AsyncAssumption
          DEF IInv, TypeOK, OnePlace, OneList, Untouched, Begun, Runs, Done, Put,
              loopVars, aboutVars, histVars
  <1>1. ASSUME NEW w \in Work, AssignAppend(w) PROVE OneList'
    BY <1>1, AddBeforeContains DEF AssignAppend
  <1>2. ASSUME AssignPool PROVE OneList'
    BY <1>2, AppendContains, AppendPlaces DEF AssignPool
  <1>3. ASSUME TimeoutMark PROVE OneList'
    <2> DEFINE inTime == {w \in Work : ts' < deadline[w]}
               late == FirstOnes(list, inTime)
               gone == ToSet(late)
    <2>1. /\ expired' = late /\ list' = Rest(list, inTime)
          /\ isTimeout' = [w \in Work |-> isTimeout[w] \/ w \in gone]
          /\ raced' = raced \cup {w \in gone : \E k \in Worker : aw[k] = w /\ wpc[k] = "unlink"}
          /\ mpc' = IF late = <<>> THEN "loop" ELSE "signal"
          /\ UNCHANGED <<assign, tid, wpc, aw>>
      BY <1>3 DEF TimeoutMark
    <2>2. /\ \A x : Contains(list, x) <=> Contains(late, x) \/ Contains(Rest(list, inTime), x)
          /\ \A x : x \in gone <=> Contains(late, x)
          /\ IsInjective(late) /\ IsInjective(Rest(list, inTime))
          /\ \A x : ~(Contains(late, x) /\ Contains(Rest(list, inTime), x))
      BY CutContains
    <2> HIDE DEF inTime, late, gone
    <2>3. \A w \in Work : isTimeout'[w] <=> isTimeout[w] \/ Contains(late, w)
      BY <2>1, <2>2
    <2>4. \A w \in Work : w \notin raced' =>
             w \notin raced /\ ~(Contains(late, w) /\ Runs(w, {"unlink"}))
      BY <2>1, <2>2
    <2> QED
      BY <2>1, <2>2, <2>3, <2>4
  <1>4. ASSUME TimeoutSignal PROVE OneList'
    BY <1>4, TailContains, TailPlaces DEF TimeoutSignal
  <1>5. ASSUME TimeoutHook PROVE OneList'
    BY <1>5, TailContains, TailPlaces DEF TimeoutHook
  <1>6. ASSUME TimeoutPut PROVE OneList'
    BY ZenonT(60), <1>6, TailContains, TailPlaces DEF TimeoutPut
  <1>7. ASSUME NEW k \in Worker, WorkTake(k) PROVE OneList'
    BY <1>7, TailContains, TailPlaces DEF WorkTake, WGo
  <1>8. ASSUME NEW k \in Worker, WorkArm(k) PROVE OneList'
    BY <1>8 DEF WorkArm, WGo
  <1>9. ASSUME NEW k \in Worker, WorkReturn(k) PROVE OneList'
    BY <1>9 DEF WorkReturn, WGo
  <1>10. ASSUME NEW k \in Worker, WorkDisarm(k) PROVE OneList'
    BY <1>10 DEF WorkDisarm, WGo
  <1>11. ASSUME NEW k \in Worker, WorkJumped(k) PROVE OneList'
    BY <1>11 DEF WorkJumped, WGo
  <1>12. ASSUME NEW k \in Worker, WorkCheck(k) PROVE OneList'
    BY <1>12 DEF WorkCheck, WGo
  <1>13. ASSUME NEW k \in Worker, WorkUnlink(k) PROVE OneList'
    BY <1>13, DelContains DEF WorkUnlink, WGo
  <1>14. ASSUME NEW k \in Worker, WorkPutList(k) PROVE OneList'
    BY <1>14 DEF WorkPutList, WGo
  <1>15. ASSUME NEW k \in Worker, WorkHook(k) PROVE OneList'
    BY <1>15 DEF WorkHook, WGo
  <1>16. ASSUME NEW k \in Worker, WorkPutPool(k) PROVE OneList'
    BY <1>16 DEF WorkPutPool, WGo
  <1>17. ASSUME NEW k \in Worker, Handle(k) PROVE OneList'
    <2>1. /\ UNCHANGED <<list, expired, mpc, isTimeout, raced, assign, tid, aw>>
          /\ pending[k] # NULL /\ k \notin masked
      BY <1>17 DEF Handle
    <2>2. CASE isSetJmp[pending[k]]
      <3>1. aw[k] = pending[k] /\ wpc[k] \in {"work", "disarm"}
        BY <2>1, <2>2, Jump
      <3>2. wpc' = [wpc EXCEPT ![k] = "jumped"]
        BY <1>17, <2>2 DEF Handle
      <3> QED
        BY <2>1, <3>1, <3>2
    <2>3. CASE ~isSetJmp[pending[k]]
      <3>1. wpc' = wpc
        BY <1>17, <2>3 DEF Handle
      <3> QED
        BY <2>1, <3>1
    <2> QED
      BY <2>2, <2>3
  <1> QED
    BY <1>1, <1>2, <1>3, <1>4, <1>5, <1>6, <1>7, <1>8, <1>9, <1>10, <1>11, <1>12, <1>13,
       <1>14, <1>15, <1>16, <1>17 DEF Next, TimeoutStep, WorkStep

(* A signal is sent once, to the thread that has begun the work.           *)
LEMMA SignalStep ==
    ASSUME IInv, Next
    PROVE  OneSignal'
  <1> USE AsyncAssumption
          DEF IInv, TypeOK, OnePlace, OneList, OneSignal, Untouched, Begun, Runs,
              InSignal, Put, loopVars, aboutVars, histVars
  <1>1. ASSUME NEW w \in Work, AssignAppend(w) PROVE OneSignal'
    BY <1>1, AddBeforeContains DEF AssignAppend
  <1>2. ASSUME AssignPool PROVE OneSignal'
    BY SMTT(30), <1>2, AppendContains, AppendPlaces DEF AssignPool
  <1>3. ASSUME TimeoutMark PROVE OneSignal'
    BY <1>3, CutContains DEF TimeoutMark
  <1>4. ASSUME TimeoutSignal PROVE OneSignal'
    BY SMTT(30), <1>4, TailContains, TailPlaces DEF TimeoutSignal
  <1>5. ASSUME TimeoutHook PROVE OneSignal'
    BY <1>5, TailContains, TailPlaces DEF TimeoutHook
  <1>6. ASSUME TimeoutPut PROVE OneSignal'
    <2> DEFINE h == Head(expired)
    <2>1. /\ expired' = Tail(expired) /\ mpc = "put" /\ mpc' \in {"loop", "signal"}
          /\ UNCHANGED <<isTimeout, isSetJmp, tid, wpc, aw, pending, masked, lost>>
      BY <1>6 DEF TimeoutPut
    <2>2. /\ \A x : Contains(expired, x) <=> Contains(Tail(expired), x) \/ x = h
          /\ ~Contains(Tail(expired), h)
      BY <2>1, Expired, TailContains
    <2> HIDE DEF h
    <2>3. \A w \in Work : InSignal(w)' <=> InSignal(w)
      BY <2>1
    <2>4. ASSUME NEW w \in Work, InSignal(w) PROVE ~Contains(Tail(expired), w)
      BY <2>2, <2>4 DEF h
    <2> QED
      BY <2>1, <2>3, <2>4
  <1>7. ASSUME NEW k \in Worker, WorkTake(k) PROVE OneSignal'
    BY <1>7, TailContains, TailPlaces DEF WorkTake, WGo
  <1>8. ASSUME NEW k \in Worker, WorkArm(k) PROVE OneSignal'
    BY <1>8 DEF WorkArm, WGo
  <1>9. ASSUME NEW k \in Worker, WorkReturn(k) PROVE OneSignal'
    BY <1>9 DEF WorkReturn, WGo
  <1>10. ASSUME NEW k \in Worker, WorkDisarm(k) PROVE OneSignal'
    BY <1>10 DEF WorkDisarm, WGo
  <1>11. ASSUME NEW k \in Worker, WorkJumped(k) PROVE OneSignal'
    BY <1>11 DEF WorkJumped, WGo
  <1>12. ASSUME NEW k \in Worker, WorkCheck(k) PROVE OneSignal'
    BY <1>12 DEF WorkCheck, WGo
  <1>13. ASSUME NEW k \in Worker, WorkUnlink(k) PROVE OneSignal'
    BY <1>13, DelContains DEF WorkUnlink, WGo
  <1>14. ASSUME NEW k \in Worker, WorkPutList(k) PROVE OneSignal'
    BY <1>14 DEF WorkPutList, WGo
  <1>15. ASSUME NEW k \in Worker, WorkHook(k) PROVE OneSignal'
    BY <1>15 DEF WorkHook, WGo
  <1>16. ASSUME NEW k \in Worker, WorkPutPool(k) PROVE OneSignal'
    BY <1>16 DEF WorkPutPool, WGo
  <1>17. ASSUME NEW k \in Worker, Handle(k) PROVE OneSignal'
    BY <1>17 DEF Handle
  <1> QED
    BY <1>1, <1>2, <1>3, <1>4, <1>5, <1>6, <1>7, <1>8, <1>9, <1>10, <1>11, <1>12, <1>13,
       <1>14, <1>15, <1>16, <1>17 DEF Next, TimeoutStep, WorkStep

(* Nothing happens to a work before async_work_assign.                     *)
LEMMA UntouchedStep ==
    ASSUME IInv, Next
    PROVE  Untouched'
  <1> USE AsyncAssumption
          DEF IInv, TypeOK, OnePlace, OneList, OneSignal, Untouched, loopVars, aboutVars,
              histVars
  <1>1. ASSUME NEW w \in Work, AssignAppend(w) PROVE Untouched'
    BY <1>1, AddBeforeContains DEF AssignAppend
  <1>2. ASSUME AssignPool PROVE Untouched'
    BY <1>2, AppendContains, AppendPlaces DEF AssignPool
  <1>3. ASSUME TimeoutMark PROVE Untouched'
    BY <1>3, CutContains DEF TimeoutMark
  <1>4. ASSUME TimeoutSignal PROVE Untouched'
    BY <1>4, TailContains, TailPlaces DEF TimeoutSignal
  <1>5. ASSUME TimeoutHook PROVE Untouched'
    BY <1>5, TailContains, TailPlaces DEF TimeoutHook
  <1>6. ASSUME TimeoutPut PROVE Untouched'
    <2>1. /\ Head(expired) \in Work /\ Put(Head(expired)) /\ assign[Head(expired)] # "new"
      BY <1>6, Expired DEF TimeoutPut
    <2>2. \A v \in Work : v # Head(expired) => (v \in freed' <=> v \in freed)
      BY <2>1, PutOne
    <2> QED
      BY <1>6, <2>1, <2>2 DEF TimeoutPut
  <1>7. ASSUME NEW k \in Worker, WorkTake(k) PROVE Untouched'
    BY <1>7, TailContains, TailPlaces DEF WorkTake, WGo
  <1>8. ASSUME NEW k \in Worker, WorkArm(k) PROVE Untouched'
    BY <1>8 DEF WorkArm, WGo
  <1>9. ASSUME NEW k \in Worker, WorkReturn(k) PROVE Untouched'
    BY <1>9 DEF WorkReturn, WGo
  <1>10. ASSUME NEW k \in Worker, WorkDisarm(k) PROVE Untouched'
    BY <1>10 DEF WorkDisarm, WGo
  <1>11. ASSUME NEW k \in Worker, WorkJumped(k) PROVE Untouched'
    <2>1. aw[k] \in Work /\ Put(aw[k]) /\ assign[aw[k]] = "assigned"
      BY <1>11, Busy DEF WorkJumped, WGo
    <2>2. \A v \in Work : v # aw[k] => (v \in freed' <=> v \in freed)
      BY <2>1, PutOne
    <2> QED
      BY <1>11, <2>1, <2>2 DEF WorkJumped
  <1>12. ASSUME NEW k \in Worker, WorkCheck(k) PROVE Untouched'
    BY <1>12 DEF WorkCheck, WGo
  <1>13. ASSUME NEW k \in Worker, WorkUnlink(k) PROVE Untouched'
    BY <1>13, DelContains DEF WorkUnlink, WGo
  <1>14. ASSUME NEW k \in Worker, WorkPutList(k) PROVE Untouched'
    <2>1. aw[k] \in Work /\ Put(aw[k]) /\ assign[aw[k]] = "assigned"
      BY <1>14, Busy DEF WorkPutList, WGo
    <2>2. \A v \in Work : v # aw[k] => (v \in freed' <=> v \in freed)
      BY <2>1, PutOne
    <2> QED
      BY <1>14, <2>1, <2>2 DEF WorkPutList
  <1>15. ASSUME NEW k \in Worker, WorkHook(k) PROVE Untouched'
    <2>1. aw[k] \in Work /\ assign[aw[k]] = "assigned"
      BY <1>15, Busy DEF WorkHook, WGo
    <2>2. \A v \in Work : v # aw[k] => hooks'[v] = hooks[v]
      BY <1>15, <2>1 DEF WorkHook
    <2> QED
      BY <1>15, <2>1, <2>2 DEF WorkHook
  <1>16. ASSUME NEW k \in Worker, WorkPutPool(k) PROVE Untouched'
    <2>1. aw[k] \in Work /\ Put(aw[k]) /\ assign[aw[k]] = "assigned"
      BY <1>16, Busy DEF WorkPutPool, WGo
    <2>2. \A v \in Work : v # aw[k] => (v \in freed' <=> v \in freed)
      BY <2>1, PutOne
    <2> QED
      BY <1>16, <2>1, <2>2 DEF WorkPutPool
  <1>17. ASSUME NEW k \in Worker, Handle(k) PROVE Untouched'
    <2>1. PICK w \in Work : w = pending[k] /\ assign[w] = "assigned"
      BY <1>17, Pending DEF Handle
    <2>2. Put(w) \/ UNCHANGED freed
      BY <1>17, <2>1 DEF Handle
    <2>3. \A v \in Work : v # w => (v \in freed' <=> v \in freed)
      BY SMTT(30), <2>2, PutOne
    <2> QED
      BY <1>17, <2>1, <2>3 DEF Handle
  <1> QED
    BY <1>1, <1>2, <1>3, <1>4, <1>5, <1>6, <1>7, <1>8, <1>9, <1>10, <1>11, <1>12, <1>13,
       <1>14, <1>15, <1>16, <1>17 DEF Next, TimeoutStep, WorkStep

(* Where no hook runs: what a work has reported stays true of it. *)
LEMMA HooksKept ==
    ASSUME IInv, hooks' = hooks, raced \subseteq raced',
           \A w \in Work : isTimeout'[w] => isTimeout[w] \/ Contains(list, w),
           \A w \in Work : isTimeout[w] => isTimeout'[w],
           \A w \in Work : Done(w) \/ Runs(w, {"putpool"}) => Done(w)' \/ Runs(w, {"putpool"})'
    PROVE  OneHook'
  <1> SUFFICES ASSUME NEW w \in Work
               PROVE  /\ "timeout" \in hooks[w] => isTimeout'[w]
                      /\ w \notin raced' /\ ~(hooks[w] \subseteq {"timeout"}) =>
                            /\ hooks[w] \in {{"success"}, {"fail"}}
                            /\ ~isTimeout'[w]
                            /\ Done(w)' \/ Runs(w, {"putpool"})'
    BY DEF OneHook
  <1>1. "timeout" \in hooks[w] => isTimeout'[w]
    BY DEF IInv, OneHook
  <1>2. ASSUME w \notin raced', ~(hooks[w] \subseteq {"timeout"})
        PROVE  /\ hooks[w] \in {{"success"}, {"fail"}}
               /\ ~isTimeout'[w]
               /\ Done(w)' \/ Runs(w, {"putpool"})'
    <2>1. /\ hooks[w] \in {{"success"}, {"fail"}} /\ ~isTimeout[w]
          /\ Done(w) \/ Runs(w, {"putpool"})
      BY <1>2 DEF IInv, OneHook
    <2>2. ~Contains(list, w)
      BY <2>1 DEF IInv, OneList, Runs
    <2> QED
      BY <2>1, <2>2
  <1> QED
    BY <1>1, <1>2

(* A hook runs only where no other has.                                    *)
LEMMA HookStep ==
    ASSUME IInv, Next
    PROVE  OneHook'
  <1> USE AsyncAssumption
          DEF IInv, TypeOK, OnePlace, OneList, OneHook, Begun, Runs, Done, loopVars,
              aboutVars, histVars
  <1>1. ASSUME NEW w \in Work, AssignAppend(w) PROVE OneHook'
    BY <1>1, HooksKept DEF AssignAppend
  <1>2. ASSUME AssignPool PROVE OneHook'
    BY <1>2, HooksKept DEF AssignPool
  <1>3. ASSUME TimeoutMark PROVE OneHook'
    <2> DEFINE inTime == {w \in Work : ts' < deadline[w]}
               late == FirstOnes(list, inTime)
    <2>1. \A w \in Work : isTimeout'[w] <=> isTimeout[w] \/ w \in ToSet(late)
      BY <1>3 DEF TimeoutMark
    <2>2. \A w \in Work : w \in ToSet(late) => Contains(list, w)
      BY CutContains
    <2>3. hooks' = hooks /\ raced \subseteq raced' /\ UNCHANGED <<tid, aw, wpc>>
      BY <1>3 DEF TimeoutMark
    <2> HIDE DEF inTime, late
    <2> QED
      BY ZenonT(60), <2>1, <2>2, <2>3, HooksKept
  <1>4. ASSUME TimeoutSignal PROVE OneHook'
    BY <1>4, HooksKept DEF TimeoutSignal
  <1>5. ASSUME TimeoutHook PROVE OneHook'
    <2> DEFINE h == Head(expired)
    <2>1. h \in Work /\ isTimeout[h]
      BY <1>5, Expired DEF TimeoutHook
    <2>2. /\ hooks' = [hooks EXCEPT ![h] = @ \cup {"timeout"}]
          /\ UNCHANGED <<isTimeout, raced, tid, aw, wpc>>
      BY <1>5 DEF TimeoutHook
    <2> HIDE DEF h
    <2>3. \A w \in Work : w # h => hooks'[w] = hooks[w]
      BY <2>2
    <2>4. hooks'[h] = hooks[h] \cup {"timeout"}
      BY <2>1, <2>2
    <2>5. h \notin raced => hooks'[h] \subseteq {"timeout"}
      BY <2>1, <2>4
    <2> SUFFICES ASSUME NEW w \in Work
                 PROVE  /\ "timeout" \in hooks'[w] => isTimeout[w]
                        /\ w \notin raced /\ ~(hooks'[w] \subseteq {"timeout"}) =>
                              /\ hooks'[w] \in {{"success"}, {"fail"}}
                              /\ ~isTimeout[w]
                              /\ Done(w)' \/ Runs(w, {"putpool"})'
      BY <2>2
    <2>6. CASE w = h
      BY <2>1, <2>4, <2>5, <2>6
    <2>7. CASE w # h
      BY <2>2, <2>3, <2>7
    <2> QED
      BY <2>6, <2>7
  <1>6. ASSUME TimeoutPut PROVE OneHook'
    BY <1>6, HooksKept DEF TimeoutPut
  <1>7. ASSUME NEW k \in Worker, WorkTake(k) PROVE OneHook'
    <2>1. \A w \in Work : Done(w) \/ Runs(w, {"putpool"}) => Done(w)' \/ Runs(w, {"putpool"})'
      BY <1>7, TailContains DEF WorkTake, WGo
    <2> QED
      BY <1>7, <2>1, HooksKept DEF WorkTake
  <1>8. ASSUME NEW k \in Worker, WorkArm(k) PROVE OneHook'
    <2>1. \A w \in Work : Done(w) \/ Runs(w, {"putpool"}) => Done(w)' \/ Runs(w, {"putpool"})'
      BY <1>8 DEF WorkArm, WGo
    <2> QED
      BY <1>8, <2>1, HooksKept DEF WorkArm
  <1>9. ASSUME NEW k \in Worker, WorkReturn(k) PROVE OneHook'
    <2>1. \A w \in Work : Done(w) \/ Runs(w, {"putpool"}) => Done(w)' \/ Runs(w, {"putpool"})'
      BY <1>9 DEF WorkReturn, WGo
    <2> QED
      BY <1>9, <2>1, HooksKept DEF WorkReturn
  <1>10. ASSUME NEW k \in Worker, WorkDisarm(k) PROVE OneHook'
    <2>1. \A w \in Work : Done(w) \/ Runs(w, {"putpool"}) => Done(w)' \/ Runs(w, {"putpool"})'
      BY <1>10 DEF WorkDisarm, WGo
    <2> QED
      BY <1>10, <2>1, HooksKept DEF WorkDisarm
  <1>11. ASSUME NEW k \in Worker, WorkJumped(k) PROVE OneHook'
    <2>1. \A w \in Work : Done(w) \/ Runs(w, {"putpool"}) => Done(w)' \/ Runs(w, {"putpool"})'
      BY <1>11 DEF WorkJumped, WGo
    <2> QED
      BY <1>11, <2>1, HooksKept DEF WorkJumped
  <1>12. ASSUME NEW k \in Worker, WorkCheck(k) PROVE OneHook'
    <2>1. \A w \in Work : Done(w) \/ Runs(w, {"putpool"}) => Done(w)' \/ Runs(w, {"putpool"})'
      BY <1>12 DEF WorkCheck, WGo
    <2> QED
      BY <1>12, <2>1, HooksKept DEF WorkCheck
  <1>13. ASSUME NEW k \in Worker, WorkUnlink(k) PROVE OneHook'
    <2>1. \A w \in Work : Done(w) \/ Runs(w, {"putpool"}) => Done(w)' \/ Runs(w, {"putpool"})'
      BY <1>13 DEF WorkUnlink, WGo
    <2> QED
      BY <1>13, <2>1, HooksKept DEF WorkUnlink
  <1>14. ASSUME NEW k \in Worker, WorkPutList(k) PROVE OneHook'
    <2>1. \A w \in Work : Done(w) \/ Runs(w, {"putpool"}) => Done(w)' \/ Runs(w, {"putpool"})'
      BY <1>14 DEF WorkPutList, WGo
    <2> QED
      BY <1>14, <2>1, HooksKept DEF WorkPutList
  <1>15. ASSUME NEW k \in Worker, WorkHook(k) PROVE OneHook'
    <2>1. PICK v \in Work : v = aw[k] /\ tid[v] = k /\ Runs(v, {"hook"}) /\ tid[v] # NULL
      BY <1>15, Busy DEF WorkHook, WGo
    <2>2. PICK h \in {"success", "fail"} : hooks' = [hooks EXCEPT ![v] = @ \cup {h}]
      BY <1>15, <2>1 DEF WorkHook
    <2>3. wpc' = [wpc EXCEPT ![k] = "putpool"] /\ UNCHANGED <<isTimeout, raced, tid, aw>>
      BY <1>15 DEF WorkHook, WGo
    <2>4. \A w \in Work : w # v => hooks'[w] = hooks[w]
      BY <2>2
    <2>5. \A w \in Work : Done(w) \/ Runs(w, {"putpool"}) => Done(w)' \/ Runs(w, {"putpool"})'
      BY <2>1, <2>3
    <2>6. v \notin raced => ~isTimeout[v] /\ hooks[v] = {}
      <3>1. v \notin raced => ~isTimeout[v] /\ ~Done(v) /\ ~Runs(v, {"putpool"})
        BY <2>1
      <3>2. v \notin raced => hooks[v] \subseteq {"timeout"} /\ "timeout" \notin hooks[v]
        BY <2>1, <3>1
      <3>3. \A S \in SUBSET {"timeout"} : "timeout" \notin S => S = {}
        OBVIOUS
      <3> QED
        BY <3>1, <3>2, <3>3
    <2>7. v \notin raced => hooks'[v] \in {{"success"}, {"fail"}}
      <3>1. v \notin raced => hooks'[v] = {h}
        BY <2>1, <2>2, <2>6
      <3> QED
        BY <3>1
    <2>8. "timeout" \in hooks'[v] => isTimeout[v]
      BY <2>1, <2>2
    <2>9. Runs(v, {"putpool"})'
      BY <2>1, <2>3
    <2> SUFFICES ASSUME NEW w \in Work
                 PROVE  /\ "timeout" \in hooks'[w] => isTimeout[w]
                        /\ w \notin raced /\ ~(hooks'[w] \subseteq {"timeout"}) =>
                              /\ hooks'[w] \in {{"success"}, {"fail"}}
                              /\ ~isTimeout[w]
                              /\ Done(w)' \/ Runs(w, {"putpool"})'
      BY <2>3
    <2>10. CASE w = v
      BY <2>6, <2>7, <2>8, <2>9, <2>10
    <2>11. CASE w # v
      BY <2>4, <2>5, <2>11
    <2> QED
      BY <2>10, <2>11
  <1>16. ASSUME NEW k \in Worker, WorkPutPool(k) PROVE OneHook'
    <2>1. \A w \in Work : Done(w) \/ Runs(w, {"putpool"}) => Done(w)' \/ Runs(w, {"putpool"})'
      BY <1>16 DEF WorkPutPool, WGo
    <2> QED
      BY <1>16, <2>1, HooksKept DEF WorkPutPool
  <1>17. ASSUME NEW k \in Worker, Handle(k) PROVE OneHook'
    <2>1. \A w \in Work : Done(w) \/ Runs(w, {"putpool"}) => Done(w)' \/ Runs(w, {"putpool"})'
      <3>1. CASE isSetJmp[pending[k]]
        <4>1. aw[k] = pending[k] /\ wpc[k] \in {"work", "disarm"}
          BY <1>17, <3>1, Jump DEF Handle
        <4> QED
          BY <1>17, <3>1, <4>1 DEF Handle
      <3>2. CASE ~isSetJmp[pending[k]]
        BY <1>17, <3>2 DEF Handle
      <3> QED
        BY <3>1, <3>2
    <2> QED
      BY <1>17, <2>1, HooksKept DEF Handle
  <1> QED
    BY <1>1, <1>2, <1>3, <1>4, <1>5, <1>6, <1>7, <1>8, <1>9, <1>10, <1>11, <1>12, <1>13,
       <1>14, <1>15, <1>16, <1>17 DEF Next, TimeoutStep, WorkStep

-----------------------------------------------------------------------------
(* The references *)

Held(w) == One(InList(w)) + One(InPool(w)) + One(InSignal(w))
Exact(w) == ref[w] = Held(w) /\ (w \in freed <=> ref[w] = 0)

(* A step that changes neither the count nor who holds references. *)
LEMMA Kept ==
    ASSUME NEW w \in Work, Exact(w),
           InList(w)' <=> InList(w), InPool(w)' <=> InPool(w), InSignal(w)' <=> InSignal(w),
           ref'[w] = ref[w], w \in freed' <=> w \in freed
    PROVE  Exact(w)'
  BY DEF Exact, Held, One

(* One more holder, of a work that still has one. *)
LEMMA Taken ==
    ASSUME NEW w \in Work, Exact(w), Held(w) > 0, Held(w)' = Held(w) + 1,
           ref'[w] = ref[w] + 1, w \in freed' <=> w \in freed
    PROVE  Exact(w)'
  BY DEF Exact, Held, One

(* One holder fewer: async_work_put. *)
LEMMA Dropped ==
    ASSUME NEW w \in Work, Exact(w), Held(w)' = Held(w) - 1,
           ref'[w] = ref[w] - 1, w \in freed' <=> w \in freed \/ ref[w] = 1
    PROVE  Exact(w)'
  BY DEF Exact, Held, One

(* Every step moves a reference with its holder, takes one for a new       *)
(* holder or puts the one of a holder that is done.                        *)
LEMMA RefStep ==
    ASSUME IInv, Next
    PROVE  RefExact'
  <1> SUFFICES ASSUME NEW w \in Work, assign'[w] # "new", w \notin raced'
               PROVE  Exact(w)'
    BY DEF RefExact, Exact, Held
  <1> USE AsyncAssumption
          DEF IInv, TypeOK, OnePlace, Begun, Runs, InList, InPool, InSignal, loopVars,
              aboutVars, histVars
  <1>0. assign[w] # "new" /\ w \notin raced => Exact(w)
    BY DEF RefExact, Exact, Held
  <1>1. ASSUME NEW v \in Work, AssignAppend(v) PROVE Exact(w)'
    <2>1. /\ assign[v] = "new" /\ ref' = [ref EXCEPT ![v] = 1]
          /\ assign' = [assign EXCEPT ![v] = "append"]
          /\ UNCHANGED <<expired, tid, queue, aw, wpc, pending, lost, freed, raced>>
      BY <1>1 DEF AssignAppend
    <2>2. \A u : Contains(list', u) <=> Contains(list, u) \/ u = v
      BY <1>1, AddBeforeContains DEF AssignAppend
    <2>3. CASE w = v
      <3>1. ~isTimeout[w] /\ w \notin freed
        BY <2>1, <2>3 DEF Untouched
      <3>2. InList(w)' /\ ~InPool(w)'
        <4>1. Contains(list', w) /\ assign'[w] = "append"
          BY <2>1, <2>2, <2>3
        <4>2. ~Contains(queue, w) /\ \A k \in Worker : aw[k] # w
          BY <2>1, <2>3
        <4> QED
          BY <2>1, <4>1, <4>2
      <3>3. ~InSignal(w)'
        BY <2>1, <2>3, <3>1 DEF OneSignal
      <3> QED
        BY <2>1, <2>3, <3>1, <3>2, <3>3 DEF Exact, Held, One
    <2>4. CASE w # v
      <3>1. Exact(w)
        BY <1>0, <2>1, <2>4
      <3>2. /\ (InList(w)' <=> InList(w)) /\ (InPool(w)' <=> InPool(w))
            /\ (InSignal(w)' <=> InSignal(w))
        BY <2>1, <2>2, <2>4
      <3>3. ref'[w] = ref[w] /\ (w \in freed' <=> w \in freed)
        BY <2>1, <2>4
      <3> QED
        BY <3>1, <3>2, <3>3, Kept
    <2> QED
      BY <2>3, <2>4
  <1>2. ASSUME AssignPool PROVE Exact(w)'
    <2>1. PICK v \in Work : v = cur /\ assign[v] = "append" /\ mpc = "assign"
      BY <1>2 DEF AssignPool
    <2>2. /\ ref' = [ref EXCEPT ![v] = @ + 1]
          /\ UNCHANGED <<list, expired, tid, aw, wpc, pending, lost, freed, raced>>
      BY <1>2, <2>1 DEF AssignPool
    <2>3. \A u \in Work : assign'[u] = "rejected" \/ Contains(queue', u) <=>
                          assign[u] = "rejected" \/ Contains(queue, u) \/ u = v
      <3>1. CASE Len(queue) >= max_requests
        BY SMTT(30), <1>2, <2>1, <3>1 DEF AssignPool
      <3>2. CASE ~(Len(queue) >= max_requests)
        <4>1. queue' = Append(queue, v) /\ assign' = [assign EXCEPT ![v] = "assigned"]
          BY <1>2, <2>1, <3>2 DEF AssignPool
        <4>2. \A u : Contains(queue', u) <=> Contains(queue, u) \/ u = v
          BY <4>1, AppendContains
        <4> QED
          BY <2>1, <4>1, <4>2
      <3> QED
        BY <3>1, <3>2
    <2>4. Exact(w)
      BY <1>0, <1>2, <2>1, <2>2 DEF AssignPool
    <2>5. (InList(w)' <=> InList(w)) /\ (InSignal(w)' <=> InSignal(w))
      BY <2>2
    <2>6. CASE w = v
      <3>1. InList(w) /\ ~InPool(w) /\ InPool(w)'
        <4>1. ~isTimeout[w] /\ ~Begun(w)
          BY <2>1, <2>6 DEF Untouched
        <4>2. Contains(list, w)
          BY <2>1, <2>2, <2>6, <4>1 DEF OneList, Done
        <4>3. ~InPool(w)
          BY <2>1, <2>6, <4>1
        <4> QED
          BY <2>3, <2>6, <4>2, <4>3
      <3>2. Held(w) > 0 /\ Held(w)' = Held(w) + 1
        BY <2>5, <3>1 DEF Held, One
      <3> QED
        BY <2>2, <2>4, <2>6, <3>2, Taken
    <2>7. CASE w # v
      <3>1. InPool(w)' <=> InPool(w)
        BY <2>2, <2>3, <2>7
      <3>2. ref'[w] = ref[w] /\ (w \in freed' <=> w \in freed)
        BY <2>2, <2>7
      <3> QED
        BY <2>4, <2>5, <3>1, <3>2, Kept
    <2> QED
      BY <2>6, <2>7
  <1>3. ASSUME TimeoutMark PROVE Exact(w)'
    <2>1. /\ expired = <<>> /\ raced \subseteq raced'
          /\ UNCHANGED <<assign, ref, tid, queue, aw, wpc, pending, lost, freed>>
      BY <1>3 DEF TimeoutMark, OneList
    <2>2. Contains(list', w) \/ Contains(expired', w) <=> Contains(list, w)
      BY <1>3, CutContains DEF TimeoutMark
    <2>3. ~Contains(<<>>, w)
      BY DEF Contains
    <2>4. /\ (InList(w)' <=> InList(w)) /\ (InPool(w)' <=> InPool(w))
          /\ (InSignal(w)' <=> InSignal(w))
      BY <2>1, <2>2, <2>3
    <2> QED
      BY <1>0, <2>1, <2>4, Kept
  <1>4. ASSUME TimeoutSignal PROVE Exact(w)'
    <2>1. PICK v \in Work : v = Head(expired) /\ Contains(expired, v)
      BY <1>4, Expired DEF TimeoutSignal
    <2>2. /\ mpc = "signal" /\ ref' = [ref EXCEPT ![v] = @ + 1]
          /\ UNCHANGED <<list, expired, assign, tid, queue, aw, wpc, freed, raced>>
      BY <1>4, <2>1 DEF TimeoutSignal
    <2>3. \/ lost' = lost \cup {v} /\ pending' = pending
          \/ /\ tid[v] \in Worker /\ pending[tid[v]] = NULL /\ lost' = lost
             /\ pending' = [pending EXCEPT ![tid[v]] = v]
      BY <1>4, <2>1 DEF TimeoutSignal
    <2>4. Exact(w)
      BY <1>0, <2>2
    <2>5. (InList(w)' <=> InList(w)) /\ (InPool(w)' <=> InPool(w))
      BY <2>2
    <2>6. CASE w = v
      <3>1. InList(w) /\ ~InSignal(w)
        BY <2>1, <2>2, <2>6 DEF OneSignal
      <3>2. InSignal(w)'
        BY <2>3, <2>6
      <3>3. Held(w) > 0 /\ Held(w)' = Held(w) + 1
        BY <2>5, <3>1, <3>2 DEF Held, One
      <3> QED
        BY <2>2, <2>4, <2>6, <3>3, Taken
    <2>7. CASE w # v
      <3>1. InSignal(w)' <=> InSignal(w)
        BY <2>2, <2>3, <2>7
      <3>2. ref'[w] = ref[w] /\ (w \in freed' <=> w \in freed)
        BY <2>2, <2>7
      <3> QED
        BY <2>4, <2>5, <3>1, <3>2, Kept
    <2> QED
      BY <2>6, <2>7
  <1>5. ASSUME TimeoutHook PROVE Exact(w)'
    <2>1. UNCHANGED <<list, expired, assign, ref, tid, queue, aw, wpc, pending, lost, freed, raced>>
      BY <1>5 DEF TimeoutHook
    <2> QED
      BY <1>0, <2>1, Kept
  <1>6. ASSUME TimeoutPut PROVE Exact(w)'
    <2>1. PICK v \in Work : v = Head(expired) /\ Contains(expired, v) /\ isTimeout[v]
      BY <1>6, Expired DEF TimeoutPut
    <2>2. /\ Put(v)
          /\ UNCHANGED <<list, assign, tid, queue, aw, wpc, pending, lost, raced>>
      BY <1>6, <2>1 DEF TimeoutPut
    <2>3. \A u : Contains(expired', u) <=> Contains(expired, u) /\ u # v
      BY <1>6, <2>1, Expired, TailContains DEF TimeoutPut, OneList
    <2>4. Exact(w)
      BY <1>0, <2>2
    <2>5. (InPool(w)' <=> InPool(w)) /\ (InSignal(w)' <=> InSignal(w))
      BY <2>2
    <2>6. CASE w = v
      <3>1. InList(w) /\ ~InList(w)'
        BY <2>1, <2>2, <2>3, <2>6 DEF OneList
      <3>2. Held(w)' = Held(w) - 1
        BY <2>5, <3>1 DEF Held, One
      <3> QED
        BY <2>2, <2>4, <2>6, <3>2, PutOne, Dropped
    <2>7. CASE w # v
      <3>1. InList(w)' <=> InList(w)
        BY <2>2, <2>3, <2>7
      <3>2. ref'[w] = ref[w] /\ (w \in freed' <=> w \in freed)
        BY <2>2, <2>7, PutOne
      <3> QED
        BY <2>4, <2>5, <3>1, <3>2, Kept
    <2> QED
      BY <2>6, <2>7
  <1>7. ASSUME NEW k \in Worker, WorkTake(k) PROVE Exact(w)'
    <2>1. /\ aw[k] = NULL /\ aw' = [aw EXCEPT ![k] = Head(queue)]
          /\ wpc' = [wpc EXCEPT ![k] = "arm"] /\ wpc[k] = "idle"
          /\ UNCHANGED <<list, expired, assign, ref, pending, lost, freed, raced>>
      BY <1>7 DEF WorkTake, WGo
    <2>2. \A u : Contains(queue, u) <=> Contains(queue', u) \/ u = Head(queue)
      BY <1>7, TailContains DEF WorkTake
    <2>3. /\ (InList(w)' <=> InList(w)) /\ (InPool(w)' <=> InPool(w))
          /\ (InSignal(w)' <=> InSignal(w))
      BY <2>1, <2>2
    <2> QED
      BY <1>0, <2>1, <2>3, Kept
  <1>8. ASSUME NEW k \in Worker, WorkArm(k) PROVE Exact(w)'
    <2>1. /\ wpc[k] \notin {"jumped", "putlist"} /\ wpc'[k] \notin {"jumped", "putlist"}
          /\ \A j \in Worker : j # k => wpc'[j] = wpc[j]
          /\ UNCHANGED <<list, expired, assign, ref, tid, queue, aw,
                          pending, lost, freed, raced>>
      BY <1>8 DEF WorkArm, WGo
    <2>2. /\ (InList(w)' <=> InList(w)) /\ (InPool(w)' <=> InPool(w))
          /\ (InSignal(w)' <=> InSignal(w))
      BY <2>1
    <2> QED
      BY <1>0, <2>1, <2>2, Kept
  <1>9. ASSUME NEW k \in Worker, WorkReturn(k) PROVE Exact(w)'
    <2>1. /\ wpc[k] \notin {"jumped", "putlist"} /\ wpc'[k] \notin {"jumped", "putlist"}
          /\ \A j \in Worker : j # k => wpc'[j] = wpc[j]
          /\ UNCHANGED <<list, expired, assign, ref, tid, queue, aw,
                          pending, lost, freed, raced>>
      BY <1>9 DEF WorkReturn, WGo
    <2>2. /\ (InList(w)' <=> InList(w)) /\ (InPool(w)' <=> InPool(w))
          /\ (InSignal(w)' <=> InSignal(w))
      BY <2>1
    <2> QED
      BY <1>0, <2>1, <2>2, Kept
  <1>10. ASSUME NEW k \in Worker, WorkDisarm(k) PROVE Exact(w)'
    <2>1. /\ wpc[k] \notin {"jumped", "putlist"} /\ wpc'[k] \notin {"jumped", "putlist"}
          /\ \A j \in Worker : j # k => wpc'[j] = wpc[j]
          /\ UNCHANGED <<list, expired, assign, ref, tid, queue, aw,
                          pending, lost, freed, raced>>
      BY <1>10 DEF WorkDisarm, WGo
    <2>2. /\ (InList(w)' <=> InList(w)) /\ (InPool(w)' <=> InPool(w))
          /\ (InSignal(w)' <=> InSignal(w))
      BY <2>1
    <2> QED
      BY <1>0, <2>1, <2>2, Kept
  <1>11. ASSUME NEW k \in Worker, WorkJumped(k) PROVE Exact(w)'
    <2>1. PICK v \in Work : v = aw[k] /\ Runs(v, {"jumped"}) /\ tid[v] = k
      BY <1>11, Busy DEF WorkJumped, WGo
    <2>2. /\ Put(v) /\ wpc[k] = "jumped" /\ wpc' = [wpc EXCEPT ![k] = "check"]
          /\ aw' = aw
          /\ UNCHANGED <<list, expired, assign, tid, queue, pending, lost, raced>>
      BY <1>11, <2>1 DEF WorkJumped, WGo
    <2>3. Exact(w)
      BY <1>0, <2>2
    <2>4. (InList(w)' <=> InList(w)) /\ (InPool(w)' <=> InPool(w))
      BY <2>1, <2>2
    <2>5. CASE w = v
      <3>1. InSignal(w) /\ ~InSignal(w)'
        BY <2>1, <2>2, <2>5 DEF OneSignal
      <3>2. Held(w)' = Held(w) - 1
        BY <2>4, <3>1 DEF Held, One
      <3> QED
        BY <2>2, <2>3, <2>5, <3>2, PutOne, Dropped
    <2>6. CASE w # v
      <3>1. InSignal(w)' <=> InSignal(w)
        BY <2>1, <2>2, <2>6
      <3>2. ref'[w] = ref[w] /\ (w \in freed' <=> w \in freed)
        BY <2>2, <2>6, PutOne
      <3> QED
        BY <2>3, <2>4, <3>1, <3>2, Kept
    <2> QED
      BY <2>5, <2>6
  <1>12. ASSUME NEW k \in Worker, WorkCheck(k) PROVE Exact(w)'
    <2>1. /\ wpc[k] \notin {"jumped", "putlist"} /\ wpc'[k] \notin {"jumped", "putlist"}
          /\ \A j \in Worker : j # k => wpc'[j] = wpc[j]
          /\ UNCHANGED <<list, expired, assign, ref, tid, queue, aw,
                          pending, lost, freed, raced>>
      BY <1>12 DEF WorkCheck, WGo
    <2>2. /\ (InList(w)' <=> InList(w)) /\ (InPool(w)' <=> InPool(w))
          /\ (InSignal(w)' <=> InSignal(w))
      BY <2>1
    <2> QED
      BY <1>0, <2>1, <2>2, Kept
  <1>13. ASSUME NEW k \in Worker, WorkUnlink(k) PROVE Exact(w)'
    <2>1. PICK v \in Work : v = aw[k] /\ Runs(v, {"unlink"}) /\ tid[v] = k /\ assign[v] # "new"
      BY <1>13, Busy DEF WorkUnlink, WGo
    <2>2. /\ wpc[k] = "unlink" /\ wpc' = [wpc EXCEPT ![k] = "putlist"]
          /\ UNCHANGED <<expired, assign, ref, tid, queue, aw, pending, lost, freed, raced>>
      BY <1>13 DEF WorkUnlink, WGo
    <2>3. \A u : Contains(list', u) <=> Contains(list, u) /\ u # v
      BY <1>13, <2>1, DelContains DEF WorkUnlink, OneList
    <2>4. (InPool(w)' <=> InPool(w)) /\ (InSignal(w)' <=> InSignal(w))
      BY <2>2
    <2>5. InList(w)' <=> InList(w)
      <3>1. CASE w = v
        <4>1. Contains(list, w)
          BY <2>1, <2>2, <3>1 DEF OneList, Done
        <4>2. aw'[k] = w /\ wpc'[k] = "putlist"
          BY <2>1, <2>2, <3>1
        <4> QED
          BY <4>1, <4>2
      <3>2. CASE w # v
        BY <2>1, <2>2, <2>3, <3>2
      <3> QED
        BY <3>1, <3>2
    <2> QED
      BY <1>0, <2>2, <2>4, <2>5, Kept
  <1>14. ASSUME NEW k \in Worker, WorkPutList(k) PROVE Exact(w)'
    <2>1. PICK v \in Work : v = aw[k] /\ Runs(v, {"putlist"}) /\ tid[v] = k
      BY <1>14, Busy DEF WorkPutList, WGo
    <2>2. /\ Put(v) /\ wpc[k] = "putlist" /\ wpc' = [wpc EXCEPT ![k] = "hook"]
          /\ aw' = aw
          /\ UNCHANGED <<list, expired, assign, tid, queue, pending, lost, raced>>
      BY <1>14, <2>1 DEF WorkPutList, WGo
    <2>3. Exact(w)
      BY <1>0, <2>2
    <2>4. (InPool(w)' <=> InPool(w)) /\ (InSignal(w)' <=> InSignal(w))
      BY <2>1, <2>2
    <2>5. CASE w = v
      <3>1. InList(w) /\ ~InList(w)'
        BY <2>1, <2>2, <2>5 DEF OneList
      <3>2. Held(w)' = Held(w) - 1
        BY <2>4, <3>1 DEF Held, One
      <3> QED
        BY <2>2, <2>3, <2>5, <3>2, PutOne, Dropped
    <2>6. CASE w # v
      <3>1. InList(w)' <=> InList(w)
        BY <2>1, <2>2, <2>6
      <3>2. ref'[w] = ref[w] /\ (w \in freed' <=> w \in freed)
        BY <2>2, <2>6, PutOne
      <3> QED
        BY <2>3, <2>4, <3>1, <3>2, Kept
    <2> QED
      BY <2>5, <2>6
  <1>15. ASSUME NEW k \in Worker, WorkHook(k) PROVE Exact(w)'
    <2>1. /\ wpc[k] \notin {"jumped", "putlist"} /\ wpc'[k] \notin {"jumped", "putlist"}
          /\ \A j \in Worker : j # k => wpc'[j] = wpc[j]
          /\ UNCHANGED <<list, expired, assign, ref, tid, queue, aw,
                          pending, lost, freed, raced>>
      BY <1>15 DEF WorkHook, WGo
    <2>2. /\ (InList(w)' <=> InList(w)) /\ (InPool(w)' <=> InPool(w))
          /\ (InSignal(w)' <=> InSignal(w))
      BY <2>1
    <2> QED
      BY <1>0, <2>1, <2>2, Kept
  <1>16. ASSUME NEW k \in Worker, WorkPutPool(k) PROVE Exact(w)'
    <2>1. PICK v \in Work : v = aw[k] /\ Runs(v, {"putpool"}) /\ tid[v] = k
      BY <1>16, Busy DEF WorkPutPool, WGo
    <2>2. /\ Put(v) /\ wpc[k] = "putpool" /\ wpc' = [wpc EXCEPT ![k] = "idle"]
          /\ aw' = [aw EXCEPT ![k] = NULL]
          /\ UNCHANGED <<list, expired, assign, tid, queue, pending, lost, raced>>
      BY <1>16, <2>1 DEF WorkPutPool, WGo
    <2>3. Exact(w)
      BY <1>0, <2>2
    <2>4. (InList(w)' <=> InList(w)) /\ (InSignal(w)' <=> InSignal(w))
      BY <2>1, <2>2
    <2>5. CASE w = v
      <3>1. InPool(w) /\ ~InPool(w)'
        BY <2>1, <2>2, <2>5 DEF OnePlace
      <3>2. Held(w)' = Held(w) - 1
        BY <2>4, <3>1 DEF Held, One
      <3> QED
        BY <2>2, <2>3, <2>5, <3>2, PutOne, Dropped
    <2>6. CASE w # v
      <3>1. InPool(w)' <=> InPool(w)
        BY <2>1, <2>2, <2>6
      <3>2. ref'[w] = ref[w] /\ (w \in freed' <=> w \in freed)
        BY <2>2, <2>6, PutOne
      <3> QED
        BY <2>3, <2>4, <3>1, <3>2, Kept
    <2> QED
      BY <2>5, <2>6
  <1>17. ASSUME NEW k \in Worker, Handle(k) PROVE Exact(w)'
    <2>1. PICK v \in Work : /\ v = pending[k] /\ tid[v] = k /\ k \notin masked
                            /\ \A j \in Worker : pending[j] = v => j = k
      BY <1>17, Pending DEF Handle
    <2>2. /\ pending' = [pending EXCEPT ![k] = NULL]
          /\ UNCHANGED <<list, expired, assign, tid, queue, aw, lost, raced>>
      BY <1>17 DEF Handle
    <2>3. Exact(w)
      BY <1>0, <2>2
    <2>4. CASE isSetJmp[v]
      <3>1. aw[k] = v /\ wpc[k] \in {"work", "disarm"}
        BY SMTT(30), <2>1, <2>4, Jump
      <3>2. wpc' = [wpc EXCEPT ![k] = "jumped"] /\ UNCHANGED <<ref, freed>>
        BY <1>17, <2>1, <2>4 DEF Handle
      <3>3. (InList(w)' <=> InList(w)) /\ (InPool(w)' <=> InPool(w))
        BY <2>2, <3>1, <3>2
      <3>4. InSignal(w)' <=> InSignal(w)
        BY <2>1, <2>2, <3>1, <3>2
      <3> QED
        BY <2>3, <3>2, <3>3, <3>4, Kept
    <2>5. CASE ~isSetJmp[v]
      <3>1. Put(v) /\ wpc' = wpc
        BY <1>17, <2>1, <2>5 DEF Handle
      <3>2. (InList(w)' <=> InList(w)) /\ (InPool(w)' <=> InPool(w))
        BY <2>2, <3>1
      <3>3. CASE w = v
        <4>1. InSignal(w) /\ ~InSignal(w)'
          BY <2>1, <2>2, <3>1, <3>3 DEF OneSignal
        <4>2. Held(w)' = Held(w) - 1
          BY <3>2, <4>1 DEF Held, One
        <4> QED
          BY <2>3, <3>1, <3>3, <4>2, PutOne, Dropped
      <3>4. CASE w # v
        <4>1. InSignal(w)' <=> InSignal(w)
          BY <2>1, <2>2, <3>1, <3>4
        <4>2. ref'[w] = ref[w] /\ (w \in freed' <=> w \in freed)
          BY <3>1, <3>4, PutOne
        <4> QED
          BY <2>3, <3>2, <4>1, <4>2, Kept
      <3> QED
        BY <3>3, <3>4
    <2> QED
      BY <2>4, <2>5
  <1> QED
    BY <1>1, <1>2, <1>3, <1>4, <1>5, <1>6, <1>7, <1>8, <1>9, <1>10, <1>11, <1>12, <1>13,
       <1>14, <1>15, <1>16, <1>17 DEF Next, TimeoutStep, WorkStep

-----------------------------------------------------------------------------
(* The theorems *)

(* At first nobody has anything. *)
LEMMA InitIInv ==
    ASSUME Init
    PROVE  IInv
  <1> USE AsyncAssumption DEF Init
  <1>1. \A x : ~Contains(<<>>, x)
    BY DEF Contains
  <1>2. IsInjective(<<>>) /\ <<>> \in Seq(Work)
    BY DEF IsInjective
  <1>3. TypeOK
    BY <1>2 DEF TypeOK
  <1>4. OnePlace /\ OneList /\ Untouched
    BY <1>1, <1>2 DEF OnePlace, OneList, Untouched, Begun, Runs, Done
  <1>5. OneSignal
    BY <1>1 DEF OneSignal, InSignal, Runs, Begun
  <1>6. OneHook
    BY DEF OneHook
  <1>7. RefExact
    BY DEF RefExact
  <1> QED
    BY <1>3, <1>4, <1>5, <1>6, <1>7 DEF IInv

(* The conjuncts together are inductive. *)
LEMMA IInvStep ==
    ASSUME IInv, [Next]_vars
    PROVE  IInv'
  <1>1. CASE Next
    BY <1>1, TypeStep, PlaceStep, ListStep, SignalStep, UntouchedStep, HookStep, RefStep DEF IInv
  <1>2. CASE UNCHANGED vars
    <2> USE <1>2 DEF vars
    <2>1. TypeOK' /\ OnePlace' /\ Untouched'
      BY DEF IInv, TypeOK, OnePlace, Untouched
    <2>2. OneList' /\ OneHook'
      BY DEF IInv, OneList, OneHook, Begun, Runs, Done
    <2>3. OneSignal'
      BY DEF IInv, OneSignal, InSignal, Begun, Runs
    <2>4. ASSUME NEW w \in Work
          PROVE  /\ (InList(w)' <=> InList(w)) /\ (InPool(w)' <=> InPool(w))
                 /\ (InSignal(w)' <=> InSignal(w))
      BY DEF InList, InPool, InSignal
    <2>5. RefExact'
      BY <2>4 DEF IInv, RefExact, One
    <2> QED
      BY <2>1, <2>2, <2>3, <2>5 DEF IInv
  <1> QED
    BY <1>1, <1>2

(* Wherever the event loop, the workers and the signals are in their steps, *)
(* a work is in one place of each of the three that hold references: the    *)
(* timeout list or timeout_aw_arr, the pool or one worker, and SIGUSR1.     *)
THEOREM Inductive ==
    ASSUME AsyncAssumption
    PROVE  Spec => []IInv
  <1>1. Init => IInv
    BY InitIInv
  <1>2. IInv /\ [Next]_vars => IInv'
    BY IInvStep
  <1> QED
    BY <1>1, <1>2, PTL DEF Spec

(* The counter of async_work_t is the number of those who still will drop a *)
(* reference, and the memory is freed with the last one.                    *)
THEOREM Refs ==
    ASSUME AsyncAssumption
    PROVE  Spec => []RefExact
  <1>1. IInv => RefExact
    BY DEF IInv
  <1> QED
    BY <1>1, Inductive, PTL

(* One of the three hooks answers a work that its worker has not found in   *)
(* time while the event loop was marking it.                                *)
THEOREM Answered ==
    ASSUME AsyncAssumption
    PROVE  Spec => []AnsweredOnce
  <1>1. ASSUME IInv PROVE AnsweredOnce
    <2> SUFFICES ASSUME NEW w \in Work, w \notin raced
                 PROVE  Cardinality(hooks[w]) <= 1
      BY DEF AnsweredOnce
    <2>1. hooks[w] \in {{}, {"timeout"}, {"success"}, {"fail"}}
      <3>1. CASE hooks[w] \subseteq {"timeout"}
        BY <3>1
      <3>2. CASE ~(hooks[w] \subseteq {"timeout"})
        BY <1>1, <3>2 DEF IInv, OneHook
      <3> QED
        BY <3>1, <3>2
    <2>2. /\ Cardinality({}) = 0 /\ Cardinality({"timeout"}) = 1
          /\ Cardinality({"success"}) = 1 /\ Cardinality({"fail"}) = 1
      BY FS_EmptySet, FS_Singleton
    <2> QED
      BY <2>1, <2>2
  <1> QED
    BY <1>1, Inductive, PTL

(* break_timeout_work jumps only while async_work_work, on the same thread  *)
(* and for the same work, is between its setjmp and its return.             *)
THEOREM Jumps ==
    ASSUME AsyncAssumption
    PROVE  Spec => []JumpsIntoLiveFrame
  <1>1. IInv => JumpsIntoLiveFrame
    BY Jump DEF JumpsIntoLiveFrame
  <1> QED
    BY <1>1, Inductive, PTL

==================================================================================
