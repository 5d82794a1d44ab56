----------------------------- MODULE Processes_proofs ---------------------------
(***************************************************************************)
(* Proofs about the systems of several processes.  Task, for every set of  *)
(* process numbers: the supervisor takes its child along, and whom its     *)
(* signals can reach.  Sercmd, for every number of servers and clients,    *)
(* every set of commands and every length of a socket's queue: whose       *)
(* answer a client reads, and that a waiting client is owed exactly one    *)
(* message.  ComMsg, for all senders, lengths of messages and sizes of the *)
(* header, the cache and the pipe: messages are dealt with as sent.        *)
(***************************************************************************)
EXTENDS Task, Sercmd, ComMsg, SeqLemmas, FiniteSetTheorems, TLAPS

-----------------------------------------------------------------------------
(* Task *)


LEMMA InitTaskInv == ASSUME TaskAssumption, TaskInit PROVE TaskInv
  BY DEF TaskInit, TaskInv, TaskTypeOK, OneChild, KnowsChild, TakesChildAlong, StraySignals, Alive

(* The steps of task_start that neither leave nor wait. *)
LEMMA ParentSteps ==
    ASSUME TaskAssumption, TaskInv
    PROVE  /\ (\E p \in Number : Fork(p)) => TaskInv'
           /\ ForkFails => TaskInv'
           /\ Assign => TaskInv'
           /\ Wait => TaskInv'
           /\ Check => TaskInv'
           /\ Sleep => TaskInv'
  <1> USE DEF TaskAssumption, TaskInv, TaskTypeOK, OneChild, KnowsChild, TakesChildAlong,
              StraySignals, Alive, hist
  <1>1. ASSUME NEW p \in Number, Fork(p) PROVE TaskInv'
    BY <1>1 DEF Fork
  <1>2. ASSUME ForkFails PROVE TaskInv'
    BY <1>2 DEF ForkFails
  <1>3. ASSUME Assign PROVE TaskInv'
    BY <1>3 DEF Assign
  <1>4. ASSUME Wait PROVE TaskInv'
    BY <1>4 DEF Wait
  <1>5. ASSUME Check PROVE TaskInv'
    BY <1>5 DEF Check
  <1>6. ASSUME Sleep PROVE TaskInv'
    BY <1>6 DEF Sleep
  <1> QED
    BY <1>1, <1>2, <1>3, <1>4, <1>5, <1>6

(* SIGTERM to child_pid at the parent's end: while it waits this is the     *)
(* child, and in the other places there is none to be left.                 *)
LEMMA LeaveTakesChildAlong ==
    ASSUME TaskAssumption, TaskInv, ppc # "gone",
           NEW how \in {"signal", "wait failed", "success"},
           Leave(how), UNCHANGED <<child_pid, pid, copy, proc, status>>
    PROVE  TaskInv'
  <1> USE DEF TaskAssumption, TaskInv, TaskTypeOK, OneChild, KnowsChild, Leave, Term, Alive
  <1>1. TaskTypeOK' /\ OneChild' /\ KnowsChild'
    OBVIOUS
  <1>2. TakesChildAlong'
    BY DEF TakesChildAlong
  <1>3. StraySignals'
    BY DEF StraySignals
  <1> QED
    BY <1>1, <1>2, <1>3

(* A process that ends was alive, and SIGTERM is no longer under way to it; *)
(* in the window it may send SIGTERM itself.                                *)
LEMMA ChildEnds ==
    ASSUME TaskAssumption, TaskInv, NEW p \in Number, Alive(p),
           NEW how \in {"zero", "failed", "killed"}, Dies(p, how),
           UNCHANGED <<ppc, child_pid, pid, copy, left, leftAt>>, pid_file' \in BOOLEAN,
           termed \ {p} \subseteq termed',
           termed' \subseteq (termed \ {p}) \cup {q \in Number : q # p /\ Alive(q)},
           stray' \subseteq stray \cup {"window"}
    PROVE  TaskInv'
  <1>1. /\ proc' \in [Number -> {"none", "window", "run", "zombie", "stranger"}]
        /\ proc'[p] = IF ppc = "gone" THEN "none" ELSE "zombie"
        /\ \A q \in Number \ {p} : proc'[q] = proc[q]
        /\ status' \in [Number -> {"zero", "failed", "killed"}]
    BY DEF Dies, TaskInv, TaskTypeOK
  <1>2. TaskTypeOK'
    BY <1>1 DEF TaskInv, TaskTypeOK
  <1>3. OneChild'
    BY <1>1 DEF TaskInv, TaskTypeOK, OneChild, Alive
  <1>4. KnowsChild'
    BY DEF TaskInv, KnowsChild
  <1>5. TakesChildAlong'
    BY <1>1 DEF TaskInv, TakesChildAlong, Alive
  <1>6. StraySignals'
    BY DEF TaskInv, StraySignals
  <1> QED
    BY <1>2, <1>3, <1>4, <1>5, <1>6 DEF TaskInv

LEMMA ChildSteps ==
    ASSUME TaskAssumption, TaskInv, NEW p \in Number
    PROVE  /\ ChildRuns(p) => TaskInv'
           /\ ChildReturns(p) => TaskInv'
           /\ ChildSignalled(p) => TaskInv'
           /\ ChildTerminated(p) => TaskInv'
           /\ Stranger(p) => TaskInv'
  <1>1. ASSUME ChildRuns(p) PROVE TaskInv'
    BY <1>1 DEF ChildRuns, hist, TaskAssumption, TaskInv, TaskTypeOK, OneChild,
             KnowsChild, TakesChildAlong, StraySignals, Alive
  <1>2. ASSUME ChildReturns(p) PROVE TaskInv'
    <2>1. PICK how \in {"zero", "failed", "killed"} : Dies(p, how)
      BY <1>2 DEF ChildReturns
    <2>2. /\ Alive(p) /\ termed' = termed \ {p} /\ pid_file' \in BOOLEAN
          /\ UNCHANGED <<ppc, child_pid, pid, copy, left, leftAt, stray>>
      BY <1>2 DEF ChildReturns, Alive, TaskInv, TaskTypeOK, hist
    <2> QED
      BY <2>1, <2>2, ChildEnds
  <1>3. ASSUME ChildSignalled(p) PROVE TaskInv'
    BY <1>3 DEF ChildSignalled, hist, TaskAssumption, TaskInv, TaskTypeOK, OneChild,
             KnowsChild, TakesChildAlong, StraySignals, Alive
  <1>4. ASSUME ChildTerminated(p) PROVE TaskInv'
    <2>1. /\ Alive(p) /\ UNCHANGED <<ppc, child_pid, pid, copy, left, leftAt>>
      BY <1>4 DEF ChildTerminated, TaskInv, OneChild
    <2>2. PICK how \in {"zero", "killed"} : Dies(p, how)
      BY <1>4 DEF ChildTerminated
    <2>3. /\ pid_file' \in BOOLEAN
          /\ termed \ {p} \subseteq termed'
          /\ termed' \subseteq (termed \ {p}) \cup {q \in Number : q # p /\ Alive(q)}
          /\ stray' \subseteq stray \cup {"window"}
      BY <1>4 DEF ChildTerminated, TaskInv, TaskTypeOK
    <2> QED
      BY <2>1, <2>2, <2>3, ChildEnds
  <1>5. ASSUME Stranger(p) PROVE TaskInv'
    BY ZenonT(60), <1>5 DEF Stranger, hist, TaskAssumption, TaskInv, TaskTypeOK, OneChild,
             KnowsChild, TakesChildAlong, StraySignals, Alive
  <1> QED
    BY <1>1, <1>2, <1>3, <1>4, <1>5

LEMMA TaskInvStep == ASSUME TaskAssumption, TaskInv, [TaskNext]_taskVars PROVE TaskInv'
  <1>1. CASE UNCHANGED taskVars
    BY <1>1 DEF taskVars, hist, TaskInv, TaskTypeOK, OneChild, KnowsChild, TakesChildAlong,
                StraySignals, Alive
  <1>2. CASE Parent \/ WaitFails \/ do_signal \/ Killed
    <2>1. CASE DoExit
      BY <2>1, LeaveTakesChildAlong DEF DoExit
    <2>2. CASE WaitFails
      BY <2>2, LeaveTakesChildAlong DEF WaitFails
    <2>3. CASE do_signal
      BY <2>3, LeaveTakesChildAlong DEF do_signal
    <2>4. CASE Killed
      BY <2>4 DEF Killed, TaskInv, TaskTypeOK, OneChild, KnowsChild, TakesChildAlong, StraySignals,
                  Alive
    <2> QED
      BY <1>2, <2>1, <2>2, <2>3, <2>4, ParentSteps DEF Parent
  <1>3. ASSUME NEW p \in Number, Child(p) \/ ChildSignalled(p) \/ Stranger(p) PROVE TaskInv'
    BY <1>3, ChildSteps DEF Child
  <1> QED
    BY <1>1, <1>2, <1>3 DEF TaskNext

(* Where the child is, what child_pid says of it, and what has been sent to *)
(* whom, in every reachable state.                                          *)
THEOREM TaskInductive == ASSUME TaskAssumption PROVE TaskSpec => []TaskInv
  <1>1. TaskInit => TaskInv
    BY InitTaskInv
  <1>2. TaskInv /\ [TaskNext]_taskVars => TaskInv'
    BY TaskInvStep
  <1> QED
    BY <1>1, <1>2, PTL DEF TaskSpec

(* task.c: a supervisor that leaves takes its child along, but for the      *)
(* window between fork and the assignment; and a process that is not its    *)
(* child is only signalled where child_pid is out of date.                  *)
THEOREM Takes == ASSUME TaskAssumption PROVE TaskSpec => []SignalsItsChild
  <1>1. TaskInv => SignalsItsChild
    BY DEF TaskInv, SignalsItsChild
  <1> QED
    BY <1>1, TaskInductive, PTL

-----------------------------------------------------------------------------
(* Sercmd *)

LEMMA InitIInv == ASSUME SercmdAssumption, Init PROVE IInv
  BY DEF SercmdAssumption, Init, IInv, TypeOK, OwnsFile, OneRequest, OneAnswer, Owed, Request,
         RequestAt, Running

-----------------------------------------------------------------------------
(* The server *)

(* What a server does with the path, its pipe and its end takes no request  *)
(* out of a socket; a client that is connected to it has found it running.  *)
LEMMA ServerAside ==
    ASSUME SercmdAssumption, IInv, NEW s \in Server,
           (Look(s) /\ spc[s] \in {"off", "access"}) \/ Unlink(s) \/ Bind(s)
               \/ EpollWait(s) \/ ReadInner(s)
    PROVE  IInv'
  <1>1. UNCHANGED <<queue, cpc, run, file, link, cmd, inbox>>
    BY DEF Look, Unlink, Bind, EpollWait, ReadInner, clients
  <1>2. /\ spc' \in [Server -> {"off", "access", "unlink", "bind", "wait", "read", "gone"}]
        /\ path' \in Server \cup {NULL}
        /\ evs' \in [Server -> SUBSET {"outer", "inner"}]
        /\ \A t \in Server : "outer" \in evs'[t] => queue[t] # <<>>
    <2> USE DEF IInv, TypeOK, OwnsFile
    <2>1. CASE Look(s)
      BY ZenonT(60), <2>1, <1>1 DEF Look
    <2>2. CASE Unlink(s)
      BY <2>2, <1>1 DEF Unlink
    <2>3. CASE Bind(s)
      BY ZenonT(60), <2>3, <1>1 DEF Bind
    <2>4. CASE EpollWait(s)
      BY <2>4, <1>1 DEF EpollWait, Ready
    <2>5. CASE ReadInner(s)
      BY <2>5, <1>1 DEF ReadInner
    <2> QED
      BY <2>1, <2>2, <2>3, <2>4, <2>5
  <1>3. /\ \A t \in Server : spc[t] \in {"wait", "read", "gone"} => spc'[t] \in {"wait", "read", "gone"}
        /\ \A t \in Server : spc[t] \in {"wait", "read", "gone"} /\ spc'[t] \in {"wait", "read"}
               => spc[t] \in {"wait", "read"}
    BY DEF Look, Unlink, Bind, EpollWait, ReadInner, IInv, TypeOK
  <1>4. TypeOK' /\ OwnsFile'
    BY <1>1, <1>2, <1>3 DEF IInv, TypeOK, OwnsFile
  <1>5. OneRequest' /\ OneAnswer'
    BY <1>1 DEF IInv, OneRequest, OneAnswer, RequestAt
  <1>6. Owed'
    <2> SUFFICES ASSUME NEW p \in Pid, cpc[p] = "wait", Running(link[p])'
                 PROVE  inbox[p] # <<>> \/ \E i \in Nat : RequestAt(link[p], i, p)
      BY <1>1 DEF Owed, RequestAt
    <2>1. link[p] \in Server /\ spc[link[p]] \in {"wait", "read", "gone"}
      BY DEF IInv, OwnsFile
    <2>2. Running(link[p])
      BY <2>1, <1>1, <1>3 DEF Running
    <2> QED
      BY <2>2 DEF IInv, Owed
  <1> QED
    BY <1>4, <1>5, <1>6 DEF IInv

(* The request at the head is taken out and answered: to the process that   *)
(* still waits, or, when it has been killed, to nobody.                     *)
LEMMA Reading ==
    ASSUME SercmdAssumption, IInv, NEW s \in Server, ReadOuter(s)
    PROVE  IInv'
  <1> DEFINE m == Head(queue[s])
             p == m.pid
  <1>1. /\ queue[s] # <<>> /\ m = queue[s][1] /\ m \in Request /\ p \in Pid
        /\ Len(queue[s]) \in Nat \ {0}
        /\ queue[s] \in Seq(Request)
    <2>1. queue[s] # <<>> /\ queue[s] \in Seq(Request)
      BY DEF ReadOuter, Dealt, IInv, TypeOK, OwnsFile
    <2>2. m = queue[s][1] /\ m \in Request /\ Len(queue[s]) \in Nat \ {0}
      BY <2>1
    <2> QED
      BY <2>1, <2>2 DEF Request
  <1>2. /\ queue' = [queue EXCEPT ![s] = Tail(@)]
        /\ inbox' = [inbox EXCEPT ![p] =
                        IF cpc[p] # "none" /\ file[p] = run[p] THEN Append(@, m) ELSE @]
        /\ UNCHANGED <<path, cpc, run, file, link, cmd>>
    BY DEF ReadOuter, Answered
  <1>3. /\ evs' \in [Server -> SUBSET {"outer", "inner"}]
        /\ spc' \in [Server -> {"off", "access", "unlink", "bind", "wait", "read", "gone"}]
        /\ "outer" \notin evs'[s]
        /\ \A t \in Server : t # s => evs'[t] = evs[t] /\ spc'[t] = spc[t]
        /\ spc[s] = "read" /\ spc'[s] \in {"wait", "read"}
    BY DEF ReadOuter, Dealt, IInv, TypeOK
  <1>4. /\ RequestAt(s, 1, p)
        /\ m.run = file[p] /\ file[p] # 0 /\ inbox[p] = <<>>
        /\ cpc[p] = "none" \/ (cpc[p] = "wait" /\ link[p] = s /\ m.cmd = cmd[p])
    BY <1>1 DEF RequestAt, IInv, OneRequest
  <1>5. \A t \in Server, q \in Pid, i \in Nat : RequestAt(t, i, q)' =>
           /\ q # p
           /\ \E j \in Nat : /\ RequestAt(t, j, q) /\ queue'[t][i] = queue[t][j]
                             /\ j = IF t = s THEN i + 1 ELSE i
    <2> SUFFICES ASSUME NEW t \in Server, NEW q \in Pid, NEW i \in Nat, RequestAt(t, i, q)'
                 PROVE  LET j == IF t = s THEN i + 1 ELSE i
                        IN RequestAt(t, j, q) /\ queue'[t][i] = queue[t][j] /\ q # p
      OBVIOUS
    <2>1. CASE t = s
      <3>1. queue'[s] = Tail(queue[s])
        BY <1>2 DEF IInv, TypeOK
      <3>2. i \in 1..(Len(queue[s]) - 1) /\ queue'[s][i] = queue[s][i + 1]
        BY <1>1, <2>1, <3>1 DEF RequestAt
      <3>3. RequestAt(s, i + 1, q)
        BY <1>1, <2>1, <3>2 DEF RequestAt
      <3>4. q # p
        BY <3>2, <3>3, <1>4, <1>1 DEF IInv, OneRequest
      <3> QED
        BY <2>1, <3>2, <3>3, <3>4
    <2>2. CASE t # s
      <3>1. queue'[t] = queue[t]
        BY <1>2, <2>2 DEF IInv, TypeOK
      <3>2. RequestAt(t, i, q)
        BY <3>1 DEF RequestAt
      <3>3. q # p
        BY <3>2, <1>4, <1>1, <2>2 DEF IInv, OneRequest
      <3> QED
        BY <2>2, <3>1, <3>2, <3>3
    <2> QED
      BY <2>1, <2>2
  <1>6. TypeOK'
    <2>1. Tail(queue[s]) \in Seq(Request)
      BY <1>1
    <2>2. queue' \in [Server -> Seq(Request)]
      BY <2>1, <1>2 DEF IInv, TypeOK
    <2>3. inbox' \in [Pid -> Seq(Request)]
      BY <1>1, <1>2 DEF IInv, TypeOK
    <2> QED
      BY <1>2, <1>3, <2>2, <2>3 DEF IInv, TypeOK
  <1>7. OwnsFile'
    <2>1. \A t \in Server : "outer" \in evs'[t] => queue'[t] # <<>>
      BY <1>2, <1>3 DEF IInv, TypeOK, OwnsFile
    <2> QED
      BY <2>1, <1>2, <1>3 DEF IInv, OwnsFile
  <1>8. \A q \in Pid : q # p => inbox'[q] = inbox[q]
    BY <1>2 DEF IInv, TypeOK
  <1>9. OneRequest'
    <2>1. \A t \in Server, q \in Pid, i \in Nat : RequestAt(t, i, q)' =>
             /\ queue'[t][i].run = file[q] /\ file[q] # 0
             /\ inbox'[q] = <<>>
             /\ cpc[q] = "none" \/ (cpc[q] = "wait" /\ link[q] = t /\ queue'[t][i].cmd = cmd[q])
      BY <1>5, <1>8 DEF IInv, OneRequest
    <2>2. \A t, u \in Server, q \in Pid, i, j \in Nat :
             RequestAt(t, i, q)' /\ RequestAt(u, j, q)' => t = u /\ i = j
      <3> SUFFICES ASSUME NEW t \in Server, NEW u \in Server, NEW q \in Pid, NEW i \in Nat,
                          NEW j \in Nat, RequestAt(t, i, q)', RequestAt(u, j, q)'
                   PROVE  t = u /\ i = j
        OBVIOUS
      <3>1. RequestAt(t, IF t = s THEN i + 1 ELSE i, q) /\ RequestAt(u, IF u = s THEN j + 1 ELSE j, q)
        BY <1>5
      <3>2. t = u /\ (IF t = s THEN i + 1 ELSE i) = (IF u = s THEN j + 1 ELSE j)
        BY <3>1 DEF IInv, OneRequest
      <3> QED
        BY <3>2
    <2> QED
      <3>1. /\ file' = file /\ cpc' = cpc /\ link' = link /\ cmd' = cmd
        BY <1>2
      <3> QED
        BY ONLY <2>1, <2>2, <3>1 DEF OneRequest, RequestAt
  <1>10. OneAnswer'
    <2>1. inbox'[p] = IF cpc[p] # "none" /\ file[p] = run[p] THEN <<m>> ELSE <<>>
      BY <1>1, <1>2, <1>4 DEF IInv, TypeOK
    <2> QED
      BY SMTT(30), <2>1, <1>2, <1>4, <1>8 DEF IInv, OneAnswer
  <1>11. Owed'
    <2> SUFFICES ASSUME NEW q \in Pid, cpc[q] = "wait", Running(link[q])', inbox'[q] = <<>>
                 PROVE  \E i \in Nat : RequestAt(link[q], i, q)'
      BY <1>2 DEF Owed
    <2>1. q # p
      <3>1. CASE q = p
        <4>1. inbox'[p] = Append(inbox[p], m)
          BY <3>1, <1>1, <1>2 DEF IInv, TypeOK, OwnsFile
        <4>2. Append(<<>>, m) # <<>>
          OBVIOUS
        <4> QED
          BY <4>1, <4>2, <3>1, <1>4
      <3> QED
        BY <3>1
    <2>2. link[q] \in Server /\ Running(link[q]) /\ inbox[q] = <<>>
      BY <1>2, <1>3, <1>8, <2>1 DEF IInv, OwnsFile, Running
    <2>3. PICK j \in Nat : RequestAt(link[q], j, q)
      BY <2>2 DEF IInv, Owed
    <2>4. CASE link[q] = s
      <3>1. j # 1 /\ j \in 1..Len(queue[s])
        BY <2>1, <2>3, <2>4, <1>1 DEF RequestAt
      <3>2. queue'[s] = Tail(queue[s])
        BY <1>2 DEF IInv, TypeOK
      <3>3. j - 1 \in 1..Len(queue'[s]) /\ queue'[s][j - 1] = queue[s][j]
        BY <3>1, <3>2, <1>1
      <3> QED
        <4>1. RequestAt(s, j - 1, q)'
          BY <3>3, <2>3, <2>4 DEF RequestAt
        <4>2. j - 1 \in Nat
          BY <3>1
        <4> QED
          BY <4>1, <4>2, <2>4, <1>2 DEF RequestAt
    <2>5. CASE link[q] # s
      <3>1. queue'[link[q]] = queue[link[q]]
        BY <2>2, <2>5, <1>2 DEF IInv, TypeOK
      <3> QED
        BY <3>1, <2>3, <1>2 DEF RequestAt
    <2> QED
      BY <2>4, <2>5
  <1> QED
    BY <1>6, <1>7, <1>9, <1>10, <1>11 DEF IInv

-----------------------------------------------------------------------------
(* A client *)

ClientsTyped ==
    /\ cpc \in [Pid -> {"none", "connect", "send", "wait", "unlink"}]
    /\ file \in [Pid -> Nat] /\ run \in [Pid -> Nat]
    /\ link \in [Pid -> Server \cup {NULL}] /\ cmd \in [Pid -> Command \cup {NULL}]
    /\ inbox \in [Pid -> Seq(Request)]

OnlyOf(p) ==
    \A q \in Pid : q # p =>
        /\ cpc'[q] = cpc[q] /\ file'[q] = file[q] /\ run'[q] = run[q]
        /\ link'[q] = link[q] /\ cmd'[q] = cmd[q] /\ inbox'[q] = inbox[q]

(* A client that has not sent has no request anywhere. *)
LEMMA NoneBeforeSend ==
    ASSUME IInv, NEW p \in Pid,
           \/ cpc[p] \in {"connect", "send", "unlink"}
           \/ cpc[p] = "none" /\ file[p] = 0
           \/ inbox[p] # <<>>
    PROVE  \A s \in Server, i \in Nat : ~RequestAt(s, i, p)
  BY DEF IInv, OneRequest

LEMMA NoInbox ==
    ASSUME IInv, NEW p \in Pid, cpc[p] # "wait"
    PROVE  inbox[p] = <<>>
  BY DEF IInv, OneAnswer

(* Whose request it is that lies in a socket. *)
LEMMA Owner ==
    ASSUME IInv, NEW s \in Server, NEW p \in Pid, NEW i \in Nat, RequestAt(s, i, p)
    PROVE  /\ queue[s][i].run = file[p] /\ file[p] # 0 /\ inbox[p] = <<>>
           /\ cpc[p] = "none" \/ (cpc[p] = "wait" /\ link[p] = s /\ queue[s][i].cmd = cmd[p])
  BY DEF IInv, OneRequest

(* Only a client that has not sent, or one that was answered, or one that   *)
(* is killed while it waits, changes; the sockets of the servers do not.    *)
LEMMA ClientAside ==
    ASSUME SercmdAssumption, IInv, NEW p \in Pid,
           UNCHANGED <<servers, quitting>>, ClientsTyped', OnlyOf(p),
           cpc'[p] # "wait" /\ inbox'[p] = <<>>,
           cpc'[p] # "none" => file'[p] = run'[p] /\ run'[p] # 0 /\ cmd'[p] \in Command,
           cpc'[p] \in {"send", "unlink"} =>
               link'[p] \in Server /\ spc[link'[p]] \in {"wait", "read", "gone"},
           \/ \A s \in Server, i \in Nat : ~RequestAt(s, i, p)
           \/ file'[p] = file[p] /\ cpc'[p] = "none"
    PROVE  IInv'
  <1>1. UNCHANGED <<path, spc, queue, evs>>
    BY DEF servers
  <1>2. TypeOK' /\ OwnsFile'
    <2>1. TypeOK'
      BY <1>1 DEF IInv, TypeOK, ClientsTyped
    <2>2. ASSUME NEW q \in Pid, cpc'[q] # "none"
          PROVE  /\ file'[q] = run'[q] /\ run'[q] # 0
                 /\ cmd'[q] \in Command
                 /\ cpc'[q] # "connect" =>
                       link'[q] \in Server /\ spc[link'[q]] \in {"wait", "read", "gone"}
      <3>1. CASE q = p
        BY <3>1, <2>2 DEF ClientsTyped
      <3>2. CASE q # p
        BY <3>2, <2>2 DEF IInv, OwnsFile, OnlyOf
      <3> QED
        BY <3>1, <3>2
    <2>3. \A s \in Server : "outer" \in evs'[s] => queue'[s] # <<>>
      BY <1>1 DEF IInv, OwnsFile
    <2> QED
      BY <1>1, <2>1, <2>2, <2>3 DEF OwnsFile
  <1>3. \A s \in Server, q \in Pid, i \in Nat : RequestAt(s, i, q)' <=> RequestAt(s, i, q)
    BY <1>1 DEF RequestAt
  <1>4. OneRequest'
    <2>1. ASSUME NEW s \in Server, NEW q \in Pid, NEW i \in Nat, RequestAt(s, i, q)
          PROVE  /\ queue[s][i].run = file'[q] /\ file'[q] # 0
                 /\ inbox'[q] = <<>>
                 /\ \/ cpc'[q] = "none"
                    \/ cpc'[q] = "wait" /\ link'[q] = s /\ queue[s][i].cmd = cmd'[q]
      <3>1. CASE q = p
        BY <3>1, <2>1, Owner
      <3>2. CASE q # p
        <4>1. /\ cpc'[q] = cpc[q] /\ file'[q] = file[q] /\ inbox'[q] = inbox[q]
              /\ link'[q] = link[q] /\ cmd'[q] = cmd[q]
          BY <3>2 DEF OnlyOf
        <4>2. /\ queue[s][i].run = file[q] /\ file[q] # 0 /\ inbox[q] = <<>>
              /\ cpc[q] = "none" \/ (cpc[q] = "wait" /\ link[q] = s /\ queue[s][i].cmd = cmd[q])
          BY <2>1, Owner
        <4> QED
          BY <4>1, <4>2
      <3> QED
        BY <3>1, <3>2
    <2> QED
      BY <1>1, <1>3, <2>1 DEF IInv, OneRequest
  <1>5. OneAnswer'
    <2>1. ASSUME NEW q \in Pid, inbox'[q] # <<>>
          PROVE  /\ cpc'[q] = "wait" /\ Len(inbox'[q]) = 1
                 /\ inbox'[q][1].run = run'[q] /\ inbox'[q][1].cmd = cmd'[q]
      <3>1. q # p
        BY <2>1
      <3>2. /\ cpc'[q] = cpc[q] /\ run'[q] = run[q] /\ inbox'[q] = inbox[q]
            /\ cmd'[q] = cmd[q]
        BY <3>1 DEF OnlyOf
      <3>3. inbox[q] # <<>>
        BY <3>2, <2>1
      <3>4. /\ cpc[q] = "wait" /\ Len(inbox[q]) = 1
            /\ inbox[q][1].run = run[q] /\ inbox[q][1].cmd = cmd[q]
        BY <3>3 DEF IInv, OneAnswer
      <3> QED
        BY <3>2, <3>4
    <2> QED
      BY <2>1 DEF OneAnswer
  <1>6. Owed'
    <2> SUFFICES ASSUME NEW q \in Pid, cpc'[q] = "wait", Running(link[q])', inbox'[q] = <<>>
                 PROVE  \E i \in Nat : RequestAt(link[q], i, q)'
      BY DEF Owed
    <2>1. /\ q # p /\ cpc[q] = "wait" /\ inbox[q] = <<>> /\ link'[q] = link[q]
          /\ Running(link[q]) /\ link[q] \in Server
      BY <1>1 DEF IInv, OwnsFile, Running, OnlyOf
    <2>2. PICK i \in Nat : RequestAt(link[q], i, q)
      BY <2>1 DEF IInv, Owed
    <2> QED
      BY <2>1, <2>2, <1>1 DEF RequestAt
  <1> QED
    BY <1>2, <1>4, <1>5, <1>6 DEF IInv

LEMMA Binding ==
    ASSUME SercmdAssumption, IInv, NEW p \in Pid, ClientBind(p)
    PROVE  IInv'
  <1>1. inbox[p] = <<>>
    BY NoInbox DEF ClientBind
  <1>2. CASE file[p] = 0 /\ path # NULL
    <2>1. \A s \in Server, i \in Nat : ~RequestAt(s, i, p)
      BY <1>2, NoneBeforeSend DEF ClientBind
    <2>2. /\ run' = [run EXCEPT ![p] = @ + 1] /\ file' = [file EXCEPT ![p] = run'[p]]
          /\ cpc' = [cpc EXCEPT ![p] = "connect"]
          /\ UNCHANGED <<servers, link, inbox, quitting>>
      BY <1>2 DEF ClientBind
    <2>3. PICK c \in Command : cmd' = [cmd EXCEPT ![p] = c]
      BY <1>2 DEF ClientBind
    <2>4. run[p] \in Nat /\ run'[p] = run[p] + 1
      BY <2>2 DEF IInv, TypeOK
    <2>5. ClientsTyped'
      BY <2>2, <2>3, <2>4 DEF IInv, TypeOK, ClientsTyped
    <2>6. OnlyOf(p)
      BY <2>2, <2>3 DEF IInv, TypeOK, OnlyOf
    <2>7. cpc'[p] = "connect" /\ inbox'[p] = <<>> /\ file'[p] = run'[p] /\ run'[p] # 0
          /\ cmd'[p] \in Command
      BY <1>1, <2>2, <2>3, <2>4 DEF IInv, TypeOK
    <2>8. UNCHANGED <<servers, quitting>>
      BY <2>2
    <2> QED
      BY <2>1, <2>5, <2>6, <2>7, <2>8, ClientAside
  <1>3. CASE ~(file[p] = 0 /\ path # NULL)
    <2>1. /\ run' = [run EXCEPT ![p] = @ + 1] /\ cpc[p] = "none"
          /\ UNCHANGED <<servers, file, cpc, cmd, link, inbox, quitting>>
      BY <1>3 DEF ClientBind
    <2>2. ClientsTyped' /\ OnlyOf(p)
      BY <2>1 DEF IInv, TypeOK, ClientsTyped, OnlyOf
    <2> QED
      BY <1>1, <2>1, <2>2, ClientAside
  <1> QED
    BY <1>2, <1>3

LEMMA Ending ==
    ASSUME SercmdAssumption, IInv, NEW p \in Pid, Ends(p),
           \/ UNCHANGED file
           \/ file' = [file EXCEPT ![p] = 0] /\ cpc[p] = "unlink"
    PROVE  IInv'
  <1>1. /\ cpc' = [cpc EXCEPT ![p] = "none"] /\ link' = [link EXCEPT ![p] = NULL]
        /\ cmd' = [cmd EXCEPT ![p] = NULL] /\ inbox' = [inbox EXCEPT ![p] = <<>>]
        /\ UNCHANGED <<servers, run, quitting>>
    BY DEF Ends
  <1>2. \/ \A s \in Server, i \in Nat : ~RequestAt(s, i, p)
        \/ UNCHANGED file
    BY NoneBeforeSend
  <1>3. /\ file' \in [Pid -> Nat] /\ \A q \in Pid : q # p => file'[q] = file[q]
        /\ <<>> \in Seq(Request)
    <2>1. CASE UNCHANGED file
      BY <2>1 DEF IInv, TypeOK
    <2>2. CASE file' = [file EXCEPT ![p] = 0]
      BY <2>2 DEF IInv, TypeOK
    <2> QED
      BY <2>1, <2>2
  <1>4. ClientsTyped' /\ OnlyOf(p) /\ cpc'[p] = "none" /\ inbox'[p] = <<>>
    BY <1>1, <1>3 DEF IInv, TypeOK, ClientsTyped, OnlyOf
  <1> QED
    BY <1>1, <1>2, <1>4, ClientAside

LEMMA Connecting ==
    ASSUME SercmdAssumption, IInv, NEW p \in Pid, ClientConnect(p)
    PROVE  IInv'
  <1>1. CASE path # NULL /\ Running(path)
    <2>1. \A s \in Server, i \in Nat : ~RequestAt(s, i, p)
      BY NoneBeforeSend DEF ClientConnect
    <2>2. inbox[p] = <<>>
      BY NoInbox DEF ClientConnect
    <2>3. /\ link' = [link EXCEPT ![p] = path] /\ cpc' = [cpc EXCEPT ![p] = "send"]
          /\ UNCHANGED <<servers, run, file, cmd, inbox, quitting>>
          /\ path \in Server /\ spc[path] \in {"wait", "read"} /\ cpc[p] = "connect"
      BY <1>1 DEF ClientConnect, Running, IInv, TypeOK
    <2>4. /\ ClientsTyped' /\ OnlyOf(p) /\ cpc'[p] = "send" /\ inbox'[p] = <<>>
          /\ link'[p] = path
      BY <2>2, <2>3 DEF IInv, TypeOK, ClientsTyped, OnlyOf
    <2>5. file'[p] = run'[p] /\ run'[p] # 0 /\ cmd'[p] \in Command
      BY <2>3 DEF IInv, OwnsFile
    <2> QED
      BY <2>1, <2>3, <2>4, <2>5, ClientAside
  <1>2. CASE ~(path # NULL /\ Running(path))
    BY <1>2, Ending DEF ClientConnect
  <1> QED
    BY <1>1, <1>2

LEMMA TakingAnswer ==
    ASSUME SercmdAssumption, IInv, NEW p \in Pid, ClientRead(p)
    PROVE  IInv'
  <1>1. \A s \in Server, i \in Nat : ~RequestAt(s, i, p)
    BY NoneBeforeSend DEF ClientRead
  <1>2. /\ inbox' = [inbox EXCEPT ![p] = Tail(@)] /\ cpc' = [cpc EXCEPT ![p] = "unlink"]
        /\ UNCHANGED <<servers, run, file, link, cmd, quitting>> /\ cpc[p] = "wait"
        /\ inbox[p] # <<>>
    BY DEF ClientRead
  <1>3. Tail(inbox[p]) = <<>>
    <2>1. Len(inbox[p]) = 1 /\ inbox[p] \in Seq(Request)
      BY <1>2 DEF IInv, OneAnswer, TypeOK
    <2> QED
      BY <2>1, <1>2, TailPlaces
  <1>4. <<>> \in Seq(Request)
    OBVIOUS
  <1>5. /\ ClientsTyped' /\ OnlyOf(p) /\ cpc'[p] = "unlink" /\ inbox'[p] = <<>>
    BY <1>2, <1>3, <1>4 DEF IInv, TypeOK, ClientsTyped, OnlyOf
  <1>6. /\ file'[p] = run'[p] /\ run'[p] # 0 /\ cmd'[p] \in Command
        /\ link'[p] \in Server /\ spc[link'[p]] \in {"wait", "read", "gone"}
    BY <1>2 DEF IInv, OwnsFile
  <1> QED
    BY <1>1, <1>2, <1>5, <1>6, ClientAside

(* A request goes to the end of the socket the client is connected to; the  *)
(* number had none before.  A server that is gone takes nothing.            *)
LEMMA Sending ==
    ASSUME SercmdAssumption, IInv, NEW p \in Pid, ClientSend(p)
    PROVE  IInv'
  <1> DEFINE s == link[p]
             m == [pid |-> p, run |-> run[p], cmd |-> cmd[p]]
  <1>1. /\ cpc[p] = "send" /\ cpc' = [cpc EXCEPT ![p] = "wait"]
        /\ UNCHANGED <<path, spc, inner, evs, run, file, link, cmd, inbox>>
    BY DEF ClientSend
  <1>2. /\ s \in Server /\ file[p] = run[p] /\ run[p] # 0 /\ run[p] \in Nat /\ cmd[p] \in Command
        /\ m \in Request /\ inbox[p] = <<>> /\ queue[s] \in Seq(Request)
        /\ Len(queue[s]) \in Nat
    <2>1. /\ s \in Server /\ file[p] = run[p] /\ run[p] # 0 /\ cmd[p] \in Command
      BY <1>1 DEF IInv, OwnsFile
    <2>2. run[p] \in Nat /\ queue[s] \in Seq(Request)
      BY <2>1 DEF IInv, TypeOK
    <2>3. m \in Request
      BY <2>1, <2>2 DEF Request
    <2>4. inbox[p] = <<>>
      BY <1>1, NoInbox
    <2>5. Len(queue[s]) \in Nat
      BY <2>2, QueuePlaces
    <2> QED
      BY <2>1, <2>2, <2>3, <2>4, <2>5
  <1>3. \A t \in Server, i \in Nat : ~RequestAt(t, i, p)
    BY <1>1, NoneBeforeSend
  <1>4. \A q \in Pid : q # p => cpc'[q] = cpc[q]
    BY <1>1 DEF IInv, TypeOK
  <1>5. cpc'[p] = "wait"
    BY <1>1 DEF IInv, TypeOK
  <1>6. \/ ~Running(s) /\ queue' = queue
        \/ queue' = [queue EXCEPT ![s] = Append(@, m)]
    BY DEF ClientSend
  <1>7. /\ Append(queue[s], m) \in Seq(Request) /\ Append(queue[s], m) # <<>>
        /\ Len(Append(queue[s], m)) = Len(queue[s]) + 1
        /\ \A i \in 1..Len(queue[s]) : Append(queue[s], m)[i] = queue[s][i]
        /\ Append(queue[s], m)[Len(queue[s]) + 1] = m
    BY <1>2, AppendPlaces
  <1>8. TypeOK'
    <2>1. queue' \in [Server -> Seq(Request)]
      BY <1>2, <1>6, <1>7 DEF IInv, TypeOK
    <2> QED
      BY <1>1, <2>1 DEF IInv, TypeOK
  <1>9. OwnsFile'
    <2>1. \A t \in Server : "outer" \in evs'[t] => queue'[t] # <<>>
      BY <1>1, <1>6, <1>7 DEF IInv, TypeOK, OwnsFile
    <2>2. \A q \in Pid : cpc'[q] # "none" => cpc[q] # "none" /\ (cpc'[q] # "connect" => cpc[q] # "connect")
      BY <1>1, <1>4, <1>5
    <2> QED
      BY <1>1, <2>1, <2>2 DEF IInv, OwnsFile
  <1>10. \A t \in Server, q \in Pid, i \in Nat : RequestAt(t, i, q) =>
            RequestAt(t, i, q)' /\ queue'[t][i] = queue[t][i]
    <2> SUFFICES ASSUME NEW t \in Server, NEW q \in Pid, NEW i \in Nat, RequestAt(t, i, q)
                 PROVE  RequestAt(t, i, q)' /\ queue'[t][i] = queue[t][i]
      OBVIOUS
    <2>1. CASE queue'[t] = queue[t]
      BY <2>1 DEF RequestAt
    <2>2. CASE t = s /\ queue'[s] = Append(queue[s], m)
      BY <2>2, <1>2, <1>7 DEF RequestAt
    <2> QED
      BY <2>1, <2>2, <1>2, <1>6 DEF IInv, TypeOK
  <1>11. \A t \in Server, q \in Pid, i \in Nat : RequestAt(t, i, q)' =>
            \/ RequestAt(t, i, q) /\ q # p /\ queue'[t][i] = queue[t][i]
            \/ q = p /\ t = s /\ i = Len(queue[s]) + 1 /\ queue'[t][i] = m
    <2> SUFFICES ASSUME NEW t \in Server, NEW q \in Pid, NEW i \in Nat, RequestAt(t, i, q)',
                        ~RequestAt(t, i, q)
                 PROVE  q = p /\ t = s /\ i = Len(queue[s]) + 1 /\ queue'[t][i] = m
      BY <1>3, <1>10
    <2>1. t = s /\ queue' = [queue EXCEPT ![s] = Append(@, m)]
      BY <1>6 DEF RequestAt, IInv, TypeOK
    <2>2. i \in 1..(Len(queue[s]) + 1) /\ Append(queue[s], m)[i].pid = q
      BY <1>2, <1>7, <2>1 DEF RequestAt, IInv, TypeOK
    <2>3. i = Len(queue[s]) + 1
      BY <1>2, <1>7, <2>1, <2>2 DEF RequestAt
    <2> QED
      BY <1>2, <1>7, <2>1, <2>2, <2>3 DEF IInv, TypeOK
  <1>12. OneRequest'
    <2>1. ASSUME NEW t \in Server, NEW q \in Pid, NEW i \in Nat, RequestAt(t, i, q)'
          PROVE  /\ queue'[t][i].run = file[q] /\ file[q] # 0 /\ inbox[q] = <<>>
                 /\ \/ cpc'[q] = "none"
                    \/ cpc'[q] = "wait" /\ link[q] = t /\ queue'[t][i].cmd = cmd[q]
      <3>1. CASE RequestAt(t, i, q) /\ q # p /\ queue'[t][i] = queue[t][i]
        BY <3>1, <1>4, Owner
      <3>2. CASE q = p /\ t = s /\ i = Len(queue[s]) + 1 /\ queue'[t][i] = m
        BY <3>2, <1>2, <1>5
      <3> QED
        BY <2>1, <3>1, <3>2, <1>11
    <2>2. ASSUME NEW t \in Server, NEW u \in Server, NEW q \in Pid, NEW i \in Nat, NEW j \in Nat,
                 RequestAt(t, i, q)', RequestAt(u, j, q)'
          PROVE  t = u /\ i = j
      <3>1. CASE q = p
        BY <2>2, <3>1, <1>11
      <3>2. CASE q # p
        <4>1. RequestAt(t, i, q) /\ RequestAt(u, j, q)
          BY <2>2, <3>2, <1>11
        <4> QED
          BY <4>1 DEF IInv, OneRequest
      <3> QED
        BY <3>1, <3>2
    <2>3. file' = file /\ inbox' = inbox /\ link' = link /\ cmd' = cmd
      BY <1>1
    <2> QED
      BY <2>1, <2>2, <2>3 DEF OneRequest
  <1>13. OneAnswer'
    BY <1>1, <1>2, <1>4 DEF IInv, OneAnswer
  <1>14. Owed'
    <2>1. ASSUME NEW q \in Pid, cpc'[q] = "wait", Running(link[q])', inbox'[q] = <<>>
          PROVE  \E i \in Nat : RequestAt(link[q], i, q)'
      <3>1. CASE q = p
        <4>1. queue' = [queue EXCEPT ![s] = Append(@, m)]
          BY <3>1, <2>1, <1>1, <1>6 DEF Running
        <4>2. PICK t \in Server, n \in Nat : t = s /\ n = Len(queue[s]) + 1
          BY <1>2
        <4>3. queue'[t] = Append(queue[t], m)
          BY <4>1, <4>2, <1>2 DEF IInv, TypeOK
        <4>4. n \in 1..Len(queue'[t]) /\ queue'[t][n].pid = p
          BY <4>2, <4>3, <1>2, <1>7
        <4> QED
          BY <4>2, <4>4, <3>1, <1>1 DEF RequestAt
      <3>2. CASE q # p
        <4>1. /\ cpc[q] = "wait" /\ Running(link[q]) /\ inbox[q] = <<>> /\ link[q] \in Server
              /\ link'[q] = link[q]
          BY <3>2, <2>1, <1>1, <1>4 DEF Running, IInv, OwnsFile
        <4>2. PICK i \in Nat : RequestAt(link[q], i, q)
          BY <4>1 DEF IInv, Owed
        <4>3. PICK t \in Server : t = link[q] /\ RequestAt(t, i, q)
          BY <4>1, <4>2
        <4>4. RequestAt(t, i, q)'
          BY <4>3, <1>10
        <4> QED
          BY <4>1, <4>3, <4>4 DEF RequestAt
      <3> QED
        BY <3>1, <3>2
    <2> QED
      BY <2>1 DEF Owed
  <1> QED
    BY <1>8, <1>9, <1>12, <1>13, <1>14 DEF IInv

-----------------------------------------------------------------------------
LEMMA IInvStep == ASSUME SercmdAssumption, IInv, [Next]_vars PROVE IInv'
  <1>1. CASE UNCHANGED vars
    BY <1>1 DEF vars, servers, clients, IInv, TypeOK, OwnsFile, OneRequest, OneAnswer, Owed,
                RequestAt, Running
  <1>2. ASSUME NEW s \in Server, Start(s) \/ ServerStep(s) PROVE IInv'
    BY <1>2, ServerAside, Reading DEF Start, Access, ServerStep
  <1>3. ASSUME NEW p \in Pid, ClientBind(p) \/ ClientStep(p) \/ ClientKilled(p) PROVE IInv'
    <2>1. CASE ClientUnlink(p)
      BY <2>1, Ending DEF ClientUnlink
    <2>2. CASE ClientKilled(p)
      BY <2>2, Ending DEF ClientKilled
    <2> QED
      BY <1>3, <2>1, <2>2, Binding, Connecting, Sending, TakingAnswer DEF ClientStep
  <1> QED
    BY <1>1, <1>2, <1>3 DEF Next

(* Which requests and answers there are of each client process, in every    *)
(* reachable state.                                                         *)
THEOREM SercmdInductive == ASSUME SercmdAssumption PROVE Spec => []IInv
  <1>1. Init => IInv
    BY InitIInv
  <1>2. IInv /\ [Next]_vars => IInv'
    BY IInvStep
  <1> QED
    BY <1>1, <1>2, PTL DEF Spec

(* com_msg.c and sercmd.c: an answer reaches the process that asked and     *)
(* none that got its number later.                                          *)
THEOREM Answers == ASSUME SercmdAssumption PROVE Spec => []AnswerForOwnRequest
  <1>1. IInv => AnswerForOwnRequest
    BY QueuePlaces DEF IInv, TypeOK, OneAnswer, AnswerForOwnRequest
  <1> QED
    BY <1>1, SercmdInductive, PTL

LEMMA OneIsOwed == IInv => NoClientForgotten
  <1> SUFFICES ASSUME IInv, NEW p \in Pid, cpc[p] = "wait", Running(link[p])
               PROVE  LET asked == {i \in 1..Len(queue[link[p]]) :
                                       queue[link[p]][i].pid = p /\ queue[link[p]][i].run = run[p]}
                      IN Cardinality(asked) + Len(inbox[p]) = 1
    BY DEF NoClientForgotten
  <1> DEFINE s == link[p]
             asked == {i \in 1..Len(queue[s]) : queue[s][i].pid = p /\ queue[s][i].run = run[p]}
  <1>1. s \in Server /\ file[p] = run[p] /\ queue[s] \in Seq(Request)
    BY DEF IInv, OwnsFile, TypeOK
  <1>2. asked = {i \in Nat : RequestAt(s, i, p)}
    BY <1>1, Owner, QueuePlaces DEF RequestAt
  <1> SUFFICES Cardinality(asked) + Len(inbox[p]) = 1
    OBVIOUS
  <1> HIDE DEF asked
  <1>3. CASE inbox[p] # <<>>
    <2>1. asked = {}
      BY <1>1, <1>2, <1>3, Owner
    <2>2. Len(inbox[p]) = 1
      BY <1>3 DEF IInv, OneAnswer
    <2> QED
      BY <2>1, <2>2, FS_EmptySet
  <1>4. CASE inbox[p] = <<>>
    <2>1. PICK i \in Nat : RequestAt(s, i, p)
      BY <1>1, <1>4 DEF IInv, Owed
    <2>2. asked = {i}
      BY <1>1, <1>2, <2>1 DEF IInv, OneRequest
    <2> QED
      <3>1. Cardinality(asked) = 1
        BY <2>2, FS_Singleton
      <3>2. Len(inbox[p]) = 0
        BY <1>4
      <3> QED
        BY <3>1, <3>2
  <1> QED
    BY <1>3, <1>4

(* sercmd.c: a client that waits for a server that runs is owed exactly one *)
(* message, its request in the server's socket or the answer in its own.    *)
THEOREM Owes == ASSUME SercmdAssumption PROVE Spec => []NoClientForgotten
  <1> QED
    BY OneIsOwed, SercmdInductive, PTL

-----------------------------------------------------------------------------
(* ComMsg *)

Byte == Nat \X Nat

LEMMA MinOfTwo ==
    ASSUME NEW a \in Nat, NEW b \in Nat
    PROVE  /\ Min({a, b}) \in Nat
           /\ Min({a, b}) = IF a <= b THEN a ELSE b
  BY DEF Min

(* A frame has its bytes in their places and fits into the cache. *)
LEMMA FrameIs ==
    ASSUME ComMsgAssumption, NEW i \in Nat, NEW n \in Payload
    PROVE  /\ FrameOf(i, n) \in Seq(Byte)
           /\ Len(FrameOf(i, n)) = Header + n
           /\ Header + n \in Nat \ {0}
           /\ Header + n <= CacheSize
           /\ \A k \in 1..Header + n : FrameOf(i, n)[k] = <<i, k>>
  <1>1. Header \in Nat \ {0} /\ n \in Nat /\ Header + n <= CacheSize
    BY DEF ComMsgAssumption
  <1>2. FrameOf(i, n) = [k \in 1..Header + n |-> <<i, k>>]
    BY DEF FrameOf
  <1>3. \A k \in 1..Header + n : <<i, k>> \in Byte
    BY <1>1 DEF Byte
  <1> QED
    BY <1>1, <1>2, <1>3

LEMMA SentFrame ==
    ASSUME ComMsgAssumption, MsgTypeOK, NEW i \in 1..Len(sent)
    PROVE  /\ sent[i].len \in Payload /\ sent[i].from \in Peer
           /\ Frame(i) \in Seq(Byte)
           /\ Len(Frame(i)) = Header + sent[i].len
           /\ Len(Frame(i)) \in Nat \ {0}
           /\ Header <= Len(Frame(i)) /\ Header \in Nat \ {0}
           /\ Len(Frame(i)) <= CacheSize
           /\ \A k \in 1..Len(Frame(i)) : Frame(i)[k] = <<i, k>>
  <1>1. sent[i] \in [len : Payload, from : Peer] /\ i \in Nat
    <2>1. sent \in Seq([len : Payload, from : Peer])
      BY DEF MsgTypeOK
    <2>2. Len(sent) \in Nat /\ \A k \in 1..Len(sent) : sent[k] \in [len : Payload, from : Peer]
      BY <2>1, QueuePlaces
    <2> QED
      BY <2>2
  <1>2. sent[i].len \in Payload /\ sent[i].from \in Peer
    BY <1>1
  <1>3. Header \in Nat \ {0} /\ sent[i].len \in Nat
    BY <1>2 DEF ComMsgAssumption
  <1> QED
    BY <1>1, <1>2, <1>3, FrameIs DEF Frame

(* What the cache has not parsed. *)
RawPlaces ==
    /\ raw \in Seq(Byte)
    /\ Len(raw) = Len(cache) - pos
    /\ Len(raw) \in Nat
    /\ raw = <<>> <=> Len(raw) = 0
    /\ \A k \in 1..Len(raw) : pos + k \in 1..Len(cache) /\ raw[k] = cache[pos + k]
    /\ OfSent(raw)

LEMMA RawIsPlaced == MsgTypeOK => RawPlaces
  <1> SUFFICES ASSUME MsgTypeOK PROVE RawPlaces
    OBVIOUS
  <1>1. cache \in Seq(Byte) /\ pos \in 0..Len(cache) /\ Len(cache) \in Nat
    BY DEF MsgTypeOK, Byte
  <1>2. \A k \in pos + 1..Len(cache) : cache[k] \in Byte
    BY <1>1
  <1>3. raw \in Seq(Byte)
    BY <1>1, <1>2, SubSeqProperties DEF raw
  <1>4. Len(raw) = Len(cache) - pos
    BY <1>1, <1>2, SubSeqProperties DEF raw
  <1>5. \A k \in 1..Len(raw) : raw[k] = cache[pos + k]
    BY <1>1, <1>2, <1>4, SubSeqProperties DEF raw
  <1>6. \A k \in 1..Len(raw) : pos + k \in 1..Len(cache)
    BY <1>1, <1>4
  <1>7. OfSent(raw)
    BY ZenonT(60), <1>5, <1>6 DEF OfSent, MsgTypeOK
  <1>8. raw = <<>> <=> Len(raw) = 0
    BY <1>3, EmptySeq
  <1> QED
    BY <1>1, <1>3, <1>4, <1>5, <1>6, <1>7, <1>8 DEF RawPlaces

LEMMA RawIs == ASSUME MsgTypeOK PROVE RawPlaces
  BY RawIsPlaced

LEMMA RawIsNext == ASSUME MsgTypeOK' PROVE RawPlaces'
  <1>1. (MsgTypeOK => RawPlaces)'
    BY RawIsPlaced, PTL
  <1> QED
    BY <1>1


(* A pipe's bytes that are not dealt with. *)
Stream == raw \o (IF wire = <<>> THEN <<>> ELSE Head(wire))

LEMMA ChunkIs ==
    ASSUME MsgTypeOK, wire # <<>>
    PROVE  /\ Head(wire) = wire[1] /\ Head(wire) \in Seq(Byte) /\ Head(wire) # <<>>
           /\ OfSent(Head(wire))
           /\ Len(wire) \in Nat \ {0}
           /\ Len(Head(wire)) \in Nat \ {0}
  <1>1. wire \in Seq(Seq(Byte))
    BY DEF MsgTypeOK, Byte
  <1>2. Len(wire) \in Nat \ {0} /\ Head(wire) = wire[1]
    BY <1>1, TailPlaces
  <1>3. wire[1] \in Seq(Byte) /\ wire[1] # <<>> /\ OfSent(wire[1])
    BY <1>1, <1>2, ElementOfSeq DEF MsgTypeOK
  <1>4. Len(wire[1]) \in Nat \ {0}
    BY <1>3, EmptySeq, LenProperties
  <1> QED
    BY <1>2, <1>3, <1>4

LEMMA StreamIs ==
    ASSUME MsgTypeOK
    PROVE  /\ Stream \in Seq(Byte)
           /\ Len(Stream) \in Nat
           /\ Stream = <<>> <=> Len(Stream) = 0
           /\ OfSent(Stream)
           /\ wire = <<>> => Stream = raw
           /\ wire # <<>> => Stream = raw \o Head(wire)
  <1>1. CASE wire = <<>>
    <2>1. Stream = raw
      BY <1>1, RawIs, ConcatEmptySeq DEF RawPlaces, Stream
    <2> QED
      BY <1>1, <2>1, RawIs DEF RawPlaces
  <1>2. CASE wire # <<>>
    <2>1. Stream = raw \o Head(wire)
      BY <1>2 DEF Stream
    <2>2. raw \in Seq(Byte) /\ Head(wire) \in Seq(Byte) /\ OfSent(raw) /\ OfSent(Head(wire))
          /\ Len(raw) \in Nat /\ Len(Head(wire)) \in Nat
      BY <1>2, RawIs, ChunkIs DEF RawPlaces
    <2>3. /\ Stream \in Seq(Byte) /\ Len(Stream) = Len(raw) + Len(Head(wire))
          /\ \A k \in 1..Len(raw) + Len(Head(wire)) :
                Stream[k] = IF k <= Len(raw) THEN raw[k] ELSE Head(wire)[k - Len(raw)]
      BY <2>1, <2>2, ConcatProperties
    <2>4. ASSUME NEW k \in 1..Len(Stream)
          PROVE  \E i \in 1..Len(sent) : \E n \in 1..Len(Frame(i)) : Stream[k] = <<i, n>>
      <3>1. CASE k <= Len(raw)
        <4>1. k \in 1..Len(raw) /\ Stream[k] = raw[k]
          BY <2>2, <2>3, <3>1
        <4> QED
          BY <2>2, <4>1 DEF OfSent
      <3>2. CASE ~(k <= Len(raw))
        <4>1. k - Len(raw) \in 1..Len(Head(wire)) /\ Stream[k] = Head(wire)[k - Len(raw)]
          BY <2>2, <2>3, <3>2
        <4> QED
          BY <2>2, <4>1 DEF OfSent
      <3> QED
        BY <3>1, <3>2
    <2>5. OfSent(Stream)
      BY <2>4 DEF OfSent
    <2>6. Stream = <<>> <=> Len(Stream) = 0
      BY <2>3, EmptySeq
    <2> QED
      BY <1>2, <2>1, <2>2, <2>3, <2>5, <2>6
  <1> QED
    BY <1>1, <1>2

(* In a run of bytes that follow one another a frame that begins goes on to its end. *)
LEMMA FrameRuns ==
    ASSUME ComMsgAssumption, MsgTypeOK, NEW s \in Seq(Byte), NEW i \in 1..Len(sent),
           s # <<>>, s[1] = <<i, 1>>, \A k \in 1..Len(s) - 1 : Follows(s[k + 1], s[k])
    PROVE  \A k \in 1..Len(s) : k <= Len(Frame(i)) => s[k] = <<i, k>>
  <1> DEFINE I == {k \in 1..Len(s) : k <= Len(Frame(i)) /\ s[k] # <<i, k>>}
  <1>1. Len(s) \in Nat \ {0} /\ Len(Frame(i)) \in Nat \ {0}
    BY SentFrame, EmptySeq, LenProperties
  <1>2. ASSUME I # {} PROVE FALSE
    <2>1. I \in SUBSET Nat
      OBVIOUS
    <2>2. PICK m \in I : \A y \in I : m <= y
      BY <1>2, <2>1, SmallestIsIn
    <2>3. m \in 1..Len(s) /\ m # 1 /\ m <= Len(Frame(i)) /\ s[m] # <<i, m>>
      OBVIOUS
    <2>4. m - 1 \in 1..Len(s) - 1 /\ m - 1 \in 1..Len(s) /\ m - 1 < Len(Frame(i))
          /\ m - 1 < m /\ (m - 1) + 1 = m
      BY <1>1, <2>3
    <2>5. m - 1 \notin I
      BY <2>2, <2>3, <2>4
    <2>6. s[m - 1] = <<i, m - 1>>
      BY <1>1, <2>4, <2>5
    <2>7. Follows(s[m], s[m - 1])
      BY <2>4
    <2>8. s[m] = <<i, m>>
      BY <2>4, <2>6, <2>7 DEF Follows
    <2> QED
      BY <2>3, <2>8
  <1> QED
    BY <1>2

(* Until something failed no message is dealt with that was not sent. *)
LEMMA DealtIsSent ==
    ASSUME ComMsgAssumption, MsgInv, type = "inner" \/ ~failed
    PROVE  /\ Len(dealt) \in Nat /\ Len(sent) \in Nat /\ Len(dealt) <= Len(sent)
           /\ raw # <<>> => /\ Len(dealt) + 1 \in 1..Len(sent)
                            /\ \A k \in 1..Len(raw) :
                                  k <= Len(Frame(Len(dealt) + 1)) => raw[k] = <<Len(dealt) + 1, k>>
                            /\ raw[1] = <<Len(dealt) + 1, 1>>
                            /\ pos + 1 \in 1..Len(cache) /\ raw[1] = cache[pos + 1]
                            /\ HeaderAt = Len(dealt) + 1
                            /\ Len(raw) >= Header => HasHeader
  <1> USE DEF MsgInv
  <1>1. Len(dealt) \in Nat /\ Len(sent) \in Nat /\ Len(raw) \in Nat /\ raw \in Seq(Byte)
    BY RawIs, LenProperties DEF RawPlaces, MsgTypeOK
  <1>2. /\ Len(dealt) <= Len(sent)
        /\ raw # <<>> =>
              /\ Len(dealt) + 1 \in 1..Len(sent)
              /\ \A k \in 1..Len(raw) : k <= Len(Frame(Len(dealt) + 1)) => raw[k] = <<Len(dealt) + 1, k>>
    <2>1. CASE type = "inner"
      <3>1. CASE Stream = <<>>
        <4>1. Len(dealt) = Len(sent)
          BY <2>1, <3>1 DEF DealtAsSent, PipeInOrder, Stream
        <4>2. raw = <<>>
          <5>1. CASE wire = <<>>
            BY <3>1, <5>1, StreamIs
          <5>2. CASE wire # <<>>
            BY <3>1, <5>2, StreamIs, ChunkIs, RawIs, ConcatProperties, <1>1 DEF RawPlaces
          <5> QED
            BY <5>1, <5>2
        <4> QED
          BY <1>1, <4>1, <4>2
      <3>2. CASE Stream # <<>>
        <4>1. Stream[1] = <<Len(dealt) + 1, 1>>
              /\ \A k \in 1..Len(Stream) - 1 : Follows(Stream[k + 1], Stream[k])
          BY <2>1, <3>2 DEF DealtAsSent, PipeInOrder, Stream
        <4>2. Stream \in Seq(Byte) /\ Len(Stream) \in Nat \ {0} /\ OfSent(Stream)
          BY <3>2, StreamIs
        <4>3. PICK i \in 1..Len(sent) : \E n \in 1..Len(Frame(i)) : Stream[1] = <<i, n>>
          BY <4>2 DEF OfSent
        <4>4. Len(dealt) + 1 = i
          BY <4>1, <4>3
        <4>5. \A k \in 1..Len(Stream) : k <= Len(Frame(i)) => Stream[k] = <<i, k>>
          BY <3>2, <4>1, <4>2, <4>4, FrameRuns
        <4>6. \A k \in 1..Len(raw) : k \in 1..Len(Stream) /\ Stream[k] = raw[k]
          <5>1. CASE wire = <<>>
            BY <5>1, StreamIs, RawIs DEF RawPlaces
          <5>2. CASE wire # <<>>
            <6>1. /\ Len(Stream) = Len(raw) + Len(Head(wire)) /\ Len(Head(wire)) \in Nat
                  /\ \A k \in 1..Len(raw) + Len(Head(wire)) :
                        Stream[k] = IF k <= Len(raw) THEN raw[k] ELSE Head(wire)[k - Len(raw)]
              BY <1>1, <5>2, StreamIs, ChunkIs, ConcatProperties
            <6> QED
              BY <1>1, <6>1
          <5> QED
            BY <5>1, <5>2
        <4> QED
          BY <1>1, <4>4, <4>5, <4>6
      <3> QED
        BY <3>1, <3>2
    <2>2. CASE type = "socket" /\ ~failed
      <3>1. /\ raw = <<>> \/ raw = Frame(Len(dealt) + 1)
            /\ Len(dealt) + (IF raw = <<>> THEN 0 ELSE 1) + Len(wire) = Len(sent)
        BY <2>2 DEF DealtAsSent, DatagramsWhole
      <3>2. Len(wire) \in Nat
        BY LenProperties DEF MsgTypeOK
      <3>3. Len(dealt) <= Len(sent)
        BY <1>1, <3>1, <3>2
      <3>4. ASSUME raw # <<>> PROVE Len(dealt) + 1 \in 1..Len(sent) /\ raw = Frame(Len(dealt) + 1)
        BY <1>1, <3>1, <3>2, <3>4
      <3> QED
        BY <3>3, <3>4, SentFrame
    <2> QED
      BY <2>1, <2>2 DEF MsgTypeOK
  <1>3. ASSUME raw # <<>>
        PROVE  /\ raw[1] = <<Len(dealt) + 1, 1>>
               /\ pos + 1 \in 1..Len(cache) /\ raw[1] = cache[pos + 1]
               /\ HeaderAt = Len(dealt) + 1
    <2>1. 1 \in 1..Len(raw) /\ 1 <= Len(Frame(Len(dealt) + 1))
      BY <1>1, <1>2, <1>3, RawIs, SentFrame DEF RawPlaces
    <2>2. raw[1] = <<Len(dealt) + 1, 1>>
      BY <1>2, <1>3, <2>1
    <2>3. pos + 1 \in 1..Len(cache) /\ raw[1] = cache[pos + 1]
      BY <2>1, RawIs DEF RawPlaces
    <2> QED
      BY <2>2, <2>3 DEF HeaderAt
  <1>4. ASSUME raw # <<>>, Len(raw) >= Header PROVE HasHeader
    <2> DEFINE i == Len(dealt) + 1
    <2>1. i \in 1..Len(sent)
      BY <1>2, <1>4
    <2>2. /\ Frame(i) \in Seq(Byte) /\ Header <= Len(Frame(i)) /\ Header \in Nat \ {0}
          /\ Len(Frame(i)) \in Nat
          /\ \A k \in 1..Len(Frame(i)) : Frame(i)[k] = <<i, k>>
      BY <2>1, SentFrame
    <2>3. \A k \in 1..Header : raw[k] = Frame(i)[k]
      <3> SUFFICES ASSUME NEW k \in 1..Header PROVE raw[k] = Frame(i)[k]
        OBVIOUS
      <3>1. k \in 1..Len(raw) /\ k \in 1..Len(Frame(i))
        BY <1>1, <1>4, <2>2
      <3>2. raw[k] = <<i, k>>
        BY <1>2, <1>4, <3>1
      <3> QED
        BY <2>2, <3>1, <3>2
    <2>4. SubSeq(raw, 1, Header) = SubSeq(Frame(i), 1, Header)
      <3>1. /\ SubSeq(raw, 1, Header) \in Seq(Byte) /\ Len(SubSeq(raw, 1, Header)) = Header
            /\ \A k \in 1..Header : SubSeq(raw, 1, Header)[k] = raw[k]
        BY <1>1, <1>4, <2>2, FrontPlaces
      <3>2. /\ SubSeq(Frame(i), 1, Header) \in Seq(Byte) /\ Len(SubSeq(Frame(i), 1, Header)) = Header
            /\ \A k \in 1..Header : SubSeq(Frame(i), 1, Header)[k] = Frame(i)[k]
        BY <2>2, FrontPlaces
      <3> QED
        BY <2>3, <3>1, <3>2, SeqEqual
    <2>5. HeaderAt = i
      BY <1>3, <1>4
    <2> QED
      BY <1>4, <2>4, <2>5 DEF HasHeader
  <1> QED
    BY <1>1, <1>2, <1>3, <1>4

LEMMA InitMsgInv == ASSUME ComMsgAssumption, MsgInit PROVE MsgInv
  <1> USE DEF MsgInit
  <1>1. raw = <<>>
    BY SubSeqEmpty DEF raw
  <1>2. Stream = <<>>
    BY <1>1 DEF Stream
  <1>3. MsgTypeOK
    <2>1. /\ wire \in Seq(Seq(Nat \X Nat)) /\ Len(wire) = 0
          /\ cache \in Seq(Nat \X Nat) /\ Len(cache) = 0
          /\ sent \in Seq([len : Payload, from : Peer])
          /\ dealt \in Seq([msg : Nat, data : Seq(Nat \X Nat), peer : Peer \cup {NoPeer}])
      BY EmptySeq
    <2>2. CacheSize \in Nat
      BY DEF ComMsgAssumption
    <2>3. OfSent(cache)
      BY <2>1 DEF OfSent
    <2>4. \A c \in 1..Len(wire) : wire[c] # <<>> /\ OfSent(wire[c])
      BY <2>1
    <2>5. /\ type \in {"inner", "socket"} /\ Len(cache) <= CacheSize /\ pos \in 0..Len(cache)
          /\ peer \in Peer \cup {NoPeer} /\ pc \in {"epoll", "recv", "parse", "undefined"}
          /\ failed \in BOOLEAN
      <3>1. pos = 0 /\ peer = NoPeer /\ pc = "epoll" /\ failed = FALSE /\ type \in {"inner", "socket"}
        OBVIOUS
      <3> HIDE DEF MsgInit
      <3>2. Len(cache) <= CacheSize /\ pos \in 0..Len(cache)
        BY <2>1, <2>2, <3>1
      <3> QED
        BY <3>1, <3>2
    <2> HIDE DEF MsgInit
    <2> QED
      BY <2>1, <2>3, <2>4, <2>5 DEF MsgTypeOK
  <1>4. DealtAsSent
    BY <1>1, <1>2 DEF DealtAsSent, DealtWhole, PipeInOrder, DatagramsWhole, AnswerGoesToAsker, Stream
  <1> QED
    BY <1>1, <1>3, <1>4 DEF MsgInv, ReadsWhole

(* A new message leaves the frames of the others as they are. *)
LEMMA FramesStay ==
    ASSUME ComMsgAssumption, MsgTypeOK, NEW n \in Payload, NEW from \in Peer, cmsg_send(n, from)
    PROVE  /\ Len(sent') = Len(sent) + 1 /\ Len(sent) \in Nat
           /\ sent' \in Seq([len : Payload, from : Peer])
           /\ \A i \in 1..Len(sent) : /\ i \in 1..Len(sent') /\ sent'[i] = sent[i]
                                      /\ Frame(i)' = Frame(i)
           /\ \A i \in Nat : i = Len(sent) + 1 =>
                 Frame(i)' = FrameOf(i, n) /\ sent'[i].from = from
  <1> DEFINE e == [len |-> n, from |-> from]
  <1>1. sent' = Append(sent, e)
    BY DEF cmsg_send
  <1>2. sent \in Seq([len : Payload, from : Peer]) /\ e \in [len : Payload, from : Peer]
    BY DEF MsgTypeOK
  <1> HIDE DEF e
  <1>3. /\ sent' \in Seq([len : Payload, from : Peer])
        /\ Len(sent') = Len(sent) + 1 /\ Len(sent) \in Nat
        /\ \A i \in 1..Len(sent) : sent'[i] = sent[i]
        /\ sent'[Len(sent) + 1] = e
    BY <1>1, <1>2, AppendPlaces, QueuePlaces
  <1>4. \A i \in 1..Len(sent) : i \in 1..Len(sent') /\ Frame(i)' = Frame(i)
    BY <1>3 DEF Frame, FrameOf
  <1>5. e.len = n /\ e.from = from
    BY DEF e
  <1>6. ASSUME NEW i \in Nat, i = Len(sent) + 1
        PROVE  Frame(i)' = FrameOf(i, n) /\ sent'[i].from = from
    <2>1. sent'[i] = e
      BY <1>3, <1>6
    <2>2. sent'[i].len = n /\ sent'[i].from = from
      BY <1>5, <2>1
    <2> QED
      BY <2>2 DEF Frame, FrameOf
  <1> QED
    BY <1>3, <1>4, <1>6

LEMMA SendStep ==
    ASSUME ComMsgAssumption, MsgInv, NEW n \in Payload, NEW from \in Peer, cmsg_send(n, from)
    PROVE  MsgInv'
  <1>i. PICK i \in Nat : i = Len(sent) + 1
    BY LenProperties DEF MsgInv, MsgTypeOK
  <1> DEFINE f == FrameOf(i, n)
  <1>t. MsgTypeOK /\ DealtAsSent /\ ReadsWhole
    BY DEF MsgInv
  <1>1. /\ i \in Nat \ {0} /\ Len(sent') = i /\ Len(sent) \in Nat /\ i \in 1..Len(sent')
        /\ sent' \in Seq([len : Payload, from : Peer])
        /\ \A j \in 1..Len(sent) : j \in 1..Len(sent') /\ sent'[j] = sent[j] /\ Frame(j)' = Frame(j)
        /\ Frame(i)' = f /\ sent'[i].from = from
    <2>1. Len(sent') = i /\ i \in Nat \ {0} /\ Len(sent) \in Nat
      BY <1>t, <1>i, FramesStay
    <2>2. Frame(i)' = f /\ sent'[i].from = from
      BY <1>t, <1>i, FramesStay
    <2>3. /\ sent' \in Seq([len : Payload, from : Peer])
          /\ \A j \in 1..Len(sent) : /\ j \in 1..Len(sent') /\ sent'[j] = sent[j]
                                     /\ Frame(j)' = Frame(j)
      BY <1>t, FramesStay
    <2>4. i \in 1..Len(sent')
      BY <2>1
    <2> QED
      BY <2>1, <2>2, <2>3, <2>4
  <1>2. /\ f \in Seq(Byte) /\ Len(f) \in Nat \ {0} /\ f # <<>>
        /\ \A k \in 1..Len(f) : f[k] = <<i, k>>
    <2>1. f \in Seq(Byte) /\ Len(f) \in Nat \ {0} /\ \A k \in 1..Len(f) : f[k] = <<i, k>>
      BY <1>1, FrameIs
    <2> QED
      BY <2>1, EmptySeq
  <1>3. /\ wire' = IF type = "inner" /\ wire # <<>> THEN <<Head(wire) \o f>> ELSE Append(wire, f)
        /\ UNCHANGED <<type, cache, pos, peer, pc, dealt, failed>>
    BY <1>i DEF cmsg_send
  <1> HIDE DEF f
  <1>4. ASSUME NEW s \in Seq(Byte), OfSent(s)
        PROVE  \A k \in 1..Len(s) : \E j \in 1..Len(sent') : \E m \in 1..Len(Frame(j)') : s[k] = <<j, m>>
    BY <1>1, <1>4 DEF OfSent
  <1>5. \A k \in 1..Len(f) : \E j \in 1..Len(sent') : \E m \in 1..Len(Frame(j)') : f[k] = <<j, m>>
    BY <1>1, <1>2
  <1>6. OfSent(cache)'
    <2>1. cache \in Seq(Byte) /\ OfSent(cache)
      BY <1>t DEF MsgTypeOK, Byte
    <2>2. \A k \in 1..Len(cache) : \E j \in 1..Len(sent') : \E m \in 1..Len(Frame(j)') : cache[k] = <<j, m>>
      BY <1>4, <2>1
    <2> QED
      BY <1>3, <2>2 DEF OfSent
  <1>6b. /\ type' \in {"inner", "socket"} /\ cache' \in Seq(Nat \X Nat) /\ OfSent(cache)'
         /\ Len(cache') <= CacheSize /\ pos' \in 0..Len(cache') /\ peer' \in Peer \cup {NoPeer}
         /\ pc' \in {"epoll", "recv", "parse", "undefined"}
         /\ sent' \in Seq([len : Payload, from : Peer])
         /\ dealt' \in Seq([msg : Nat, data : Seq(Nat \X Nat), peer : Peer \cup {NoPeer}])
         /\ failed' \in BOOLEAN
    BY <1>t, <1>1, <1>3, <1>6 DEF MsgTypeOK
  <1>7. ASSUME type = "inner", wire # <<>> PROVE MsgTypeOK'
    <2> DEFINE c == Head(wire) \o f
    <2>1. /\ Head(wire) \in Seq(Byte) /\ Head(wire) # <<>> /\ OfSent(Head(wire)) /\ Len(Head(wire)) \in Nat \ {0}
      BY <1>t, <1>7, ChunkIs
    <2>2. /\ c \in Seq(Byte) /\ Len(c) = Len(Head(wire)) + Len(f)
          /\ \A k \in 1..Len(Head(wire)) + Len(f) :
                c[k] = IF k <= Len(Head(wire)) THEN Head(wire)[k] ELSE f[k - Len(Head(wire))]
      BY <1>2, <2>1, ConcatProperties
    <2>3. wire' = <<c>>
      BY <1>3, <1>7
    <2> HIDE DEF c
    <2>4. \A k \in 1..Len(Head(wire)) : \E j \in 1..Len(sent') : \E m \in 1..Len(Frame(j)') :
              Head(wire)[k] = <<j, m>>
      BY <1>4, <2>1
    <2>5. ASSUME NEW k \in 1..Len(c)
          PROVE  \E j \in 1..Len(sent') : \E m \in 1..Len(Frame(j)') : c[k] = <<j, m>>
      <3>1. CASE k <= Len(Head(wire))
        <4>1. k \in 1..Len(Head(wire)) /\ c[k] = Head(wire)[k]
          BY <1>2, <2>1, <2>2, <3>1
        <4> QED
          BY <2>4, <4>1
      <3>2. CASE ~(k <= Len(Head(wire)))
        <4>1. k - Len(Head(wire)) \in 1..Len(f) /\ c[k] = f[k - Len(Head(wire))]
          BY <1>2, <2>1, <2>2, <3>2
        <4> QED
          BY <1>5, <4>1
      <3> QED
        BY <3>1, <3>2
    <2>6. c # <<>>
      BY <1>2, <2>1, <2>2, EmptySeq
    <2>7. wire' \in Seq(Seq(Byte)) /\ Len(wire') = 1 /\ wire'[1] = c
      BY <2>2, <2>3
    <2>8. \A k \in 1..Len(wire') : wire'[k] # <<>> /\ OfSent(wire[k])'
      <3>1. \A k \in 1..Len(wire') : k = 1
        BY <2>7
      <3>2. OfSent(wire[1])'
        BY <2>5, <2>7 DEF OfSent
      <3> QED
        BY <2>6, <2>7, <3>1, <3>2
    <2> QED
      BY <1>6b, <2>7, <2>8 DEF MsgTypeOK, Byte
  <1>8. ASSUME ~(type = "inner" /\ wire # <<>>) PROVE MsgTypeOK'
    <2>1. wire' = Append(wire, f) /\ wire \in Seq(Seq(Byte))
      BY <1>3, <1>8, <1>t DEF MsgTypeOK, Byte
    <2>2. /\ wire' \in Seq(Seq(Byte)) /\ Len(wire') = Len(wire) + 1 /\ Len(wire) \in Nat
          /\ \A c \in 1..Len(wire) : wire'[c] = wire[c] /\ wire[c] \in Seq(Byte)
          /\ wire'[Len(wire) + 1] = f
      BY <1>2, <2>1, AppendPlaces, QueuePlaces
    <2>3. ASSUME NEW c \in 1..Len(wire')
          PROVE  wire'[c] # <<>> /\ OfSent(wire[c])'
      <3>1. CASE c \in 1..Len(wire)
        <4>1. wire[c] # <<>> /\ OfSent(wire[c]) /\ wire[c] \in Seq(Byte)
          BY <1>t, <2>2, <3>1 DEF MsgTypeOK
        <4>2. \A k \in 1..Len(wire[c]) :
                  \E j \in 1..Len(sent') : \E m \in 1..Len(Frame(j)') : wire[c][k] = <<j, m>>
          BY <1>4, <4>1
        <4> QED
          BY <2>2, <3>1, <4>1, <4>2 DEF OfSent
      <3>2. CASE c = Len(wire) + 1
        BY <1>2, <1>5, <2>2, <3>2 DEF OfSent
      <3> QED
        BY <2>2, <3>1, <3>2
    <2> QED
      BY <1>6b, <2>2, <2>3 DEF MsgTypeOK, Byte
  <1>9. MsgTypeOK'
    BY <1>7, <1>8
  <1>10. raw' = raw
    BY <1>3 DEF raw
  <1>11. DealtWhole' /\ AnswerGoesToAsker'
    <2>1. ASSUME type = "inner" \/ ~failed
          PROVE  /\ Len(dealt) \in Nat /\ Len(dealt) <= Len(sent)
                 /\ \A j \in 1..Len(dealt) : dealt[j].msg = j /\ dealt[j].data = Frame(j)
      BY <1>t, <2>1, DealtIsSent DEF DealtAsSent, DealtWhole
    <2>2. ASSUME type = "inner" \/ ~failed, NEW j \in 1..Len(dealt)
          PROVE  /\ j \in 1..Len(sent) /\ dealt[j].msg = j /\ dealt[j].data = Frame(j)'
                 /\ sent'[dealt[j].msg] = sent[dealt[j].msg]
      <3>1. j \in 1..Len(sent) /\ dealt[j].msg = j /\ dealt[j].data = Frame(j)
        BY <1>1, <2>1, <2>2
      <3> QED
        BY <1>1, <3>1
    <2>3. DealtWhole'
      BY <1>3, <2>2 DEF DealtWhole
    <2>4. AnswerGoesToAsker'
      BY <1>3, <1>t, <2>2 DEF AnswerGoesToAsker, DealtAsSent
    <2> QED
      BY <2>3, <2>4
  <1>12. PipeInOrder'
    <2> SUFFICES ASSUME type = "inner" PROVE PipeInOrder'
      BY <1>3 DEF PipeInOrder
    <2> DEFINE n0 == Len(Stream)
    <2>1. Stream' = Stream \o f /\ Len(wire') <= 1
      <3>1. CASE wire = <<>>
        <4>1. wire' = <<f>>
          BY <1>3, <3>1
        <4> QED
          BY <1>10, <3>1, <4>1, StreamIs, <1>t DEF Stream
      <3>2. CASE wire # <<>>
        <4>1. PICK c : c = Head(wire) \o f
          OBVIOUS
        <4>2. Head(wire) \in Seq(Byte) /\ raw \in Seq(Byte)
          BY <1>t, <3>2, ChunkIs, RawIs DEF RawPlaces
        <4>3. Stream' = raw \o (Head(wire) \o f)
          <5>1. wire' = <<c>>
            BY <1>3, <3>2, <4>1
          <5>2. wire' # <<>> /\ Head(wire') = c
            BY <5>1
          <5>3. Stream' = raw' \o c
            BY <5>2 DEF Stream
          <5> QED
            BY <1>10, <4>1, <5>3
        <4>4. Stream = raw \o Head(wire)
          BY <3>2 DEF Stream
        <4>5. Stream' = Stream \o f
          <5>1. (raw \o Head(wire)) \o f = raw \o (Head(wire) \o f)
            <6>1. f \in Seq(Byte) /\ Head(wire) \in Seq(Byte) /\ raw \in Seq(Byte)
              BY <1>2, <4>2
            <6>2. \A a, b \in Seq(Byte) : (a \o b) \o f = a \o (b \o f)
              BY SMTT(30), <6>1, ConcatAssociative
            <6> QED
              BY <6>1, <6>2
          <5> QED
            BY <4>3, <4>4, <5>1
        <4>6. Len(wire') <= 1
          BY <1>3, <3>2
        <4> QED
          BY <4>5, <4>6
      <3> QED
        BY <3>1, <3>2
    <2>2. PICK s \in Seq(Byte) : s = Stream
      BY <1>t, StreamIs
    <2>3. PICK r \in Seq(Byte) : r = s \o f
      BY <1>2, ConcatProperties
    <2>4. Stream' = r
      BY <2>1, <2>2, <2>3
    <2>5. /\ Len(s) \in Nat /\ (s = <<>> <=> Len(s) = 0)
          /\ \A k \in 1..Len(s) : \E j \in 1..Len(sent) : \E m \in 1..Len(Frame(j)) : s[k] = <<j, m>>
          /\ s = <<>> => Len(dealt) = Len(sent)
          /\ s # <<>> => s[1] = <<Len(dealt) + 1, 1>> /\ s[Len(s)] = LastByte
          /\ \A k \in 1..Len(s) - 1 : Follows(s[k + 1], s[k])
      BY <1>t, <2>2, StreamIs DEF PipeInOrder, DealtAsSent, Stream, OfSent
    <2>6. /\ Len(r) = Len(s) + Len(f)
          /\ \A k \in 1..Len(s) : k \in 1..Len(r) /\ r[k] = s[k]
          /\ \A k \in 1..Len(f) : Len(s) + k \in 1..Len(r) /\ r[Len(s) + k] = f[k]
      BY <1>2, <2>3, <2>5, ConcatProperties
    <2>7. r[1] = <<Len(dealt) + 1, 1>>
      <3>1. CASE s = <<>>
        BY <1>1, <1>2, <1>i, <2>5, <2>6, <3>1
      <3>2. CASE s # <<>>
        BY <2>5, <2>6, <3>2
      <3> QED
        BY <3>1, <3>2
    <2>8. r[Len(r)] = LastByte'
      <3>1. r[Len(r)] = <<i, Len(f)>>
        <4>1. Len(f) \in 1..Len(f) /\ Len(r) = Len(s) + Len(f)
          BY <1>2, <2>6
        <4>2. r[Len(s) + Len(f)] = f[Len(f)] /\ f[Len(f)] = <<i, Len(f)>>
          BY <1>2, <2>6, <4>1
        <4> QED
          BY <4>1, <4>2
      <3> QED
        BY <1>1, <3>1 DEF LastByte
    <2>9. ASSUME NEW k \in 1..Len(r) - 1 PROVE Follows(r[k + 1], r[k])'
      <3>1. CASE k < Len(s)
        <4>1. k \in 1..Len(s) - 1 /\ k \in 1..Len(s) /\ k + 1 \in 1..Len(s)
          BY <2>5, <3>1
        <4>2. PICK j \in 1..Len(sent) : \E m \in 1..Len(Frame(j)) : s[k] = <<j, m>>
          BY <2>5, <4>1
        <4>2a. s[k][1] = j
          BY <4>2
        <4>3. Follows(s[k + 1], s[k]) /\ s[k][1] = j
          BY <2>5, <4>1, <4>2a
        <4>4. Follows(s[k + 1], s[k])'
          BY <1>1, <4>2, <4>3 DEF Follows
        <4> QED
          BY <2>6, <4>1, <4>4
      <3>2. CASE k = Len(s)
        <4>1. r[k] = LastByte /\ s # <<>> /\ k \in 1..Len(s)
          BY <2>5, <2>6, <3>2
        <4>2. PICK j \in 1..Len(sent) : \E m \in 1..Len(Frame(j)) : s[k] = <<j, m>>
          BY <2>5, <4>1
        <4>3. j = Len(sent) /\ r[k] = <<j, Len(Frame(j))>> /\ Frame(j)' = Frame(j)
          BY <1>1, <2>6, <4>1, <4>2 DEF LastByte
        <4>4. r[k + 1] = <<i, 1>>
          <5>1. 1 \in 1..Len(f) /\ f[1] = <<i, 1>>
            BY <1>2
          <5> QED
            BY <2>6, <3>2, <5>1
        <4>5. Len(Frame(j)) \in Nat
          BY <1>t, SentFrame
        <4> QED
          BY <1>i, <4>3, <4>4, <4>5 DEF Follows
      <3>3. CASE k > Len(s)
        <4>1. PICK m \in 1..Len(f) : k = Len(s) + m /\ m + 1 \in 1..Len(f) /\ m < Len(f)
          <5>1. k - Len(s) \in 1..Len(f) /\ k - Len(s) + 1 \in 1..Len(f) /\ k = Len(s) + (k - Len(s))
                /\ k - Len(s) < Len(f)
            BY <1>2, <2>5, <2>6, <3>3
          <5> QED
            BY <5>1
        <4>2. r[k] = <<i, m>>
          BY <1>2, <2>6, <4>1
        <4>3. Len(s) + (m + 1) = k + 1
          BY <1>2, <2>5, <4>1
        <4>4. r[k + 1] = <<i, m + 1>>
          BY <1>2, <2>6, <4>1, <4>3
        <4> QED
          BY <1>1, <4>1, <4>2, <4>4 DEF Follows
      <3> QED
        BY <2>5, <3>1, <3>2, <3>3
    <2>10. /\ r # <<>>
           /\ r[1] = <<Len(dealt') + 1, 1>> /\ r[Len(r)] = LastByte'
           /\ \A k \in 1..Len(r) - 1 : Follows(r[k + 1], r[k])'
      BY <1>2, <1>3, <2>5, <2>6, <2>7, <2>8, <2>9
    <2> QED
      BY <2>1, <2>4, <2>10 DEF PipeInOrder, Stream
  <1>13. DatagramsWhole' /\ ReadsWhole'
    <2> SUFFICES ASSUME type = "socket", ~failed PROVE DatagramsWhole' /\ ReadsWhole'
      BY <1>3 DEF DatagramsWhole, ReadsWhole
    <2>1. /\ raw = <<>> \/ raw = Frame(Len(dealt) + 1)
          /\ Len(dealt) + (IF raw = <<>> THEN 0 ELSE 1) + Len(wire) = Len(sent)
          /\ \A c \in 1..Len(wire) : wire[c] = Frame(Len(sent) - Len(wire) + c)
          /\ pc # "parse" => cache = <<>>
          /\ raw # <<>> => peer = sent[Len(dealt) + 1].from
      BY <1>t DEF DealtAsSent, DatagramsWhole, ReadsWhole
    <2>2. wire' = Append(wire, f) /\ wire \in Seq(Seq(Byte))
      BY <1>3, <1>t DEF MsgTypeOK, Byte
    <2>3. /\ Len(wire') = Len(wire) + 1 /\ Len(wire) \in Nat /\ Len(dealt) \in Nat
          /\ \A c \in 1..Len(wire) : wire'[c] = wire[c]
          /\ wire'[Len(wire) + 1] = f
      BY <1>2, <1>t, <2>2, AppendPlaces, QueuePlaces DEF MsgTypeOK
    <2>4. ASSUME raw # <<>>
          PROVE  /\ Len(dealt) + 1 \in 1..Len(sent)
                 /\ \A d \in 1..Len(sent) : d = Len(dealt) + 1 => raw = Frame(d)' /\ peer = sent'[d].from
      <3>1. Len(dealt) + 1 \in 1..Len(sent) /\ raw = Frame(Len(dealt) + 1)
        BY <1>1, <2>1, <2>3, <2>4
      <3> QED
        BY <1>1, <2>1, <2>4, <3>1
    <2>5. ASSUME NEW c \in 1..Len(wire'), NEW d \in Nat, d = Len(sent') - Len(wire') + c
          PROVE  wire'[c] = Frame(d)'
      <3>1. CASE c \in 1..Len(wire)
        <4>1. d = Len(sent) - Len(wire) + c /\ d \in 1..Len(sent)
          BY <1>1, <1>i, <2>1, <2>3, <2>5, <3>1
        <4>2. wire[c] = Frame(d)
          BY <2>1, <3>1, <4>1
        <4> QED
          BY <1>1, <2>3, <3>1, <4>1, <4>2
      <3>2. CASE c = Len(wire) + 1
        <4>1. d = i
          BY <1>1, <1>i, <2>3, <2>5, <3>2
        <4> QED
          BY <1>1, <2>3, <3>2, <4>1
      <3> QED
        BY <2>3, <3>1, <3>2
    <2>6. \A c \in 1..Len(wire') : Len(sent') - Len(wire') + c \in Nat
      BY <1>1, <1>i, <2>1, <2>3
    <2>7. \A c \in 1..Len(wire') : wire'[c] = Frame(Len(sent) - Len(wire) + c)'
      BY <2>5, <2>6
    <2>8. raw = <<>> \/ raw = Frame(Len(dealt) + 1)'
      BY <1>3, <2>4
    <2>9. Len(dealt') + (IF raw' = <<>> THEN 0 ELSE 1) + Len(wire') = Len(sent')
      <3>1. PICK x \in Nat : x = IF raw = <<>> THEN 0 ELSE 1
        OBVIOUS
      <3>2. Len(dealt) + x + Len(wire) = Len(sent)
        BY <2>1, <3>1
      <3>3. Len(dealt) + x + (Len(wire) + 1) = Len(sent) + 1
        BY <1>1, <2>3, <3>2
      <3>4. x = IF raw' = <<>> THEN 0 ELSE 1
        BY <1>10, <3>1
      <3>5. Len(dealt') = Len(dealt) /\ Len(sent') = Len(sent) + 1
        BY <1>1, <1>3, <1>i
      <3> QED
        BY <2>3, <3>3, <3>4, <3>5
    <2>10. DatagramsWhole'
      BY <1>10, <2>7, <2>8, <2>9 DEF DatagramsWhole
    <2>11. ReadsWhole'
      BY <1>3, <1>10, <2>1, <2>4 DEF ReadsWhole
    <2> QED
      BY <2>10, <2>11
  <1> QED
    BY <1>9, <1>11, <1>12, <1>13 DEF MsgInv, DealtAsSent

(* A step that sends nothing leaves the frames alone. *)
LEMMA SameFrames ==
    ASSUME UNCHANGED sent
    PROVE  /\ \A i : Frame(i)' = Frame(i)
           /\ LastByte' = LastByte
           /\ \A a, b : Follows(b, a)' <=> Follows(b, a)
           /\ \A s : OfSent(s)' <=> OfSent(s)
  <1>1. \A i : Frame(i)' = Frame(i)
    BY DEF Frame, FrameOf
  <1> QED
    BY <1>1 DEF LastByte, Follows, OfSent

LEMMA CutAndJoined ==
    ASSUME NEW S, NEW s \in Seq(S), NEW n \in 0..Len(s)
    PROVE  LET a == SubSeq(s, 1, n)
               b == SubSeq(s, n + 1, Len(s))
           IN  /\ a \in Seq(S) /\ b \in Seq(S) /\ Len(s) \in Nat
               /\ Len(a) = n /\ Len(b) = Len(s) - n
               /\ \A k \in 1..n : k \in 1..Len(s) /\ a[k] = s[k]
               /\ \A k \in 1..Len(s) - n : n + k \in 1..Len(s) /\ b[k] = s[n + k]
               /\ a \o b = s
               /\ b = <<>> => a = s
  <1> DEFINE a == SubSeq(s, 1, n)
             b == SubSeq(s, n + 1, Len(s))
  <1>1. Len(s) \in Nat /\ n \in Nat /\ n <= Len(s) /\ \A k \in 1..Len(s) : s[k] \in S
    BY QueuePlaces
  <1>2. /\ a \in Seq(S) /\ Len(a) = n
        /\ \A k \in 1..n : k \in 1..Len(s) /\ a[k] = s[k]
    BY <1>1, FrontPlaces
  <1>3. /\ b \in Seq(S) /\ Len(b) = Len(s) - n
        /\ \A k \in 1..Len(s) - n : n + k \in 1..Len(s) /\ b[k] = s[n + k]
    <2>1. \A k \in n + 1..Len(s) : s[k] \in S
      BY <1>1
    <2>2. /\ b \in Seq(S)
          /\ Len(b) = IF n + 1 <= Len(s) THEN Len(s) - (n + 1) + 1 ELSE 0
          /\ \A k \in 1..Len(s) - (n + 1) + 1 : b[k] = s[(n + 1) + k - 1]
      BY <1>1, <2>1, SubSeqProperties
    <2>3. \A k \in 1..Len(s) - n : n + k \in 1..Len(s) /\ (n + 1) + k - 1 = n + k
                                  /\ k \in 1..Len(s) - (n + 1) + 1
      BY <1>1
    <2> QED
      BY <1>1, <2>2, <2>3
  <1> HIDE DEF a, b
  <1>4. /\ a \o b \in Seq(S) /\ Len(a \o b) = Len(s)
        /\ \A k \in 1..Len(s) : (a \o b)[k] = IF k <= n THEN a[k] ELSE b[k - n]
    BY <1>1, <1>2, <1>3, ConcatProperties
  <1>5. \A k \in 1..Len(s) : (a \o b)[k] = s[k]
    <2> SUFFICES ASSUME NEW k \in 1..Len(s) PROVE (a \o b)[k] = s[k]
      OBVIOUS
    <2>1. CASE k <= n
      BY <1>1, <1>2, <1>4, <2>1
    <2>2. CASE ~(k <= n)
      <3>1. k - n \in 1..Len(s) - n /\ n + (k - n) = k
        BY <1>1, <2>2
      <3> QED
        BY <1>3, <1>4, <2>2, <3>1
    <2> QED
      BY <2>1, <2>2
  <1>6. a \o b = s
    BY <1>4, <1>5, SeqEqual
  <1>7. b = <<>> => a = s
    BY <1>2, <1>6, ConcatEmptySeq
  <1> QED
    BY <1>1, <1>2, <1>3, <1>6, <1>7 DEF a, b

LEMMA RecvStep == ASSUME ComMsgAssumption, MsgInv, cmsg_recv PROVE MsgInv'
  <1>t. MsgTypeOK /\ DealtAsSent /\ ReadsWhole /\ CacheSize \in Nat
    BY DEF MsgInv, ComMsgAssumption
  <1> DEFINE cnt == Min({Len(Head(wire)), buf_room_len})
             front == SubSeq(Head(wire), 1, cnt)
             others == SubSeq(Head(wire), cnt + 1, Len(Head(wire)))
  <1>1. /\ pc = "recv" /\ wire # <<>> /\ cache' = cache \o front
        /\ wire' = IF type = "inner" /\ others # <<>> THEN <<others>> ELSE Tail(wire)
        /\ peer' = SenderOf(Head(wire)) /\ pc' = "parse"
        /\ UNCHANGED <<type, pos, sent, dealt, failed>>
    BY DEF cmsg_recv
  <1>2. /\ Head(wire) = wire[1] /\ Head(wire) \in Seq(Byte) /\ Head(wire) # <<>>
        /\ OfSent(Head(wire)) /\ Len(wire) \in Nat \ {0} /\ Len(Head(wire)) \in Nat \ {0}
    BY <1>t, <1>1, ChunkIs
  <1>3. /\ cache \in Seq(Byte) /\ Len(cache) \in Nat /\ pos \in 0..Len(cache)
        /\ buf_room_len \in Nat /\ buf_room_len = CacheSize - Len(cache) /\ OfSent(cache)
    BY <1>t DEF MsgTypeOK, Byte, buf_room_len
  <1>4. cnt \in Nat /\ cnt = IF Len(Head(wire)) <= buf_room_len THEN Len(Head(wire)) ELSE buf_room_len
    BY <1>2, <1>3, MinOfTwo
  <1>5. cnt \in 0..Len(Head(wire)) /\ Len(cache) + cnt <= CacheSize
    BY <1>t, <1>2, <1>3, <1>4
  <1>6. /\ front \in Seq(Byte) /\ others \in Seq(Byte)
        /\ Len(front) = cnt /\ Len(others) = Len(Head(wire)) - cnt
        /\ \A k \in 1..cnt : k \in 1..Len(Head(wire)) /\ front[k] = Head(wire)[k]
        /\ \A k \in 1..Len(Head(wire)) - cnt : cnt + k \in 1..Len(Head(wire)) /\ others[k] = Head(wire)[cnt + k]
        /\ front \o others = Head(wire)
        /\ others = <<>> => front = Head(wire)
    <2> HIDE DEF cnt
    <2>0. PICK h \in Seq(Byte) : h = Head(wire)
      BY <1>2
    <2>1. PICK m \in 0..Len(h) : h = Head(wire) /\ m = cnt
      BY <1>5, <2>0
    <2>2. front = SubSeq(h, 1, m) /\ others = SubSeq(h, m + 1, Len(h))
      BY <2>1
    <2> HIDE DEF front, others
    <2>3. /\ front \in Seq(Byte) /\ others \in Seq(Byte)
          /\ Len(front) = m /\ Len(others) = Len(h) - m
          /\ \A k \in 1..m : k \in 1..Len(h) /\ front[k] = h[k]
          /\ \A k \in 1..Len(h) - m : m + k \in 1..Len(h) /\ others[k] = h[m + k]
          /\ front \o others = h
          /\ others = <<>> => front = h
      <3>1. LET a == SubSeq(h, 1, m)
                b == SubSeq(h, m + 1, Len(h))
            IN  /\ a \in Seq(Byte) /\ b \in Seq(Byte) /\ Len(h) \in Nat
                /\ Len(a) = m /\ Len(b) = Len(h) - m
                /\ \A k \in 1..m : k \in 1..Len(h) /\ a[k] = h[k]
                /\ \A k \in 1..Len(h) - m : m + k \in 1..Len(h) /\ b[k] = h[m + k]
                /\ a \o b = h
                /\ b = <<>> => a = h
        BY CutAndJoined, Zenon
      <3> QED
        BY <2>2, <3>1, Zenon
    <2> QED
      BY <2>1, <2>3
  <1> HIDE DEF cnt, front, others
  <1>7. OfSent(front) /\ OfSent(others)
    <2>1. \A k \in 1..Len(Head(wire)) :
              \E i \in 1..Len(sent) : \E n \in 1..Len(Frame(i)) : Head(wire)[k] = <<i, n>>
      BY <1>2 DEF OfSent
    <2>2. \A k \in 1..Len(front) :
              \E i \in 1..Len(sent) : \E n \in 1..Len(Frame(i)) : front[k] = <<i, n>>
      BY ZenonT(60), <1>6, <2>1
    <2>3. \A k \in 1..Len(others) :
              \E i \in 1..Len(sent) : \E n \in 1..Len(Frame(i)) : others[k] = <<i, n>>
      BY <1>6, <2>1
    <2> QED
      BY <2>2, <2>3 DEF OfSent
  <1>8. /\ cache' \in Seq(Byte) /\ Len(cache') = Len(cache) + cnt
        /\ \A k \in 1..Len(cache) + cnt :
              cache'[k] = IF k <= Len(cache) THEN cache[k] ELSE front[k - Len(cache)]
    <2>1. /\ cache \o front \in Seq(Byte) /\ Len(cache \o front) = Len(cache) + Len(front)
          /\ \A i \in 1..Len(cache) : (cache \o front)[i] = cache[i]
          /\ \A i \in 1..Len(front) : (cache \o front)[Len(cache) + i] = front[i]
      <3>1. cache \in Seq(Byte) /\ front \in Seq(Byte)
        BY <1>3, <1>6
      <3> QED
        BY <3>1, ConcatPlaces
    <2>2. cache' = cache \o front /\ Len(front) = cnt
      BY <1>1, <1>6
    <2>3. ASSUME NEW k \in 1..Len(cache) + cnt
          PROVE  cache'[k] = IF k <= Len(cache) THEN cache[k] ELSE front[k - Len(cache)]
      <3>1. CASE k <= Len(cache)
        BY <1>3, <2>1, <2>2, <3>1
      <3>2. CASE ~(k <= Len(cache))
        <4>1. PICK i \in 1..Len(front) : k = Len(cache) + i
          <5>1. k - Len(cache) \in 1..Len(front) /\ k = Len(cache) + (k - Len(cache))
            BY <1>3, <1>4, <2>2, <3>2
          <5> QED
            BY <5>1
        <4>2. k - Len(cache) = i
          BY <1>3, <4>1
        <4> QED
          BY <2>1, <2>2, <3>2, <4>1, <4>2
      <3> QED
        BY <3>1, <3>2
    <2> QED
      BY <2>1, <2>2, <2>3
  <1>9. OfSent(cache')
    <2> SUFFICES ASSUME NEW k \in 1..Len(cache')
                 PROVE  \E i \in 1..Len(sent) : \E n \in 1..Len(Frame(i)) : cache'[k] = <<i, n>>
      BY DEF OfSent
    <2>1. CASE k <= Len(cache)
      <3>1. k \in 1..Len(cache) /\ cache'[k] = cache[k]
        BY <1>3, <1>4, <1>8, <2>1
      <3> QED
        BY <1>3, <3>1 DEF OfSent
    <2>2. CASE ~(k <= Len(cache))
      <3>1. k \in 1..Len(cache) + cnt /\ cache'[k] = front[k - Len(cache)]
        BY <1>8, <2>2
      <3>2. k - Len(cache) \in 1..Len(front)
        BY <1>3, <1>4, <1>6, <2>2, <3>1
      <3> QED
        BY <1>7, <3>1, <3>2 DEF OfSent
    <2> QED
      BY <2>1, <2>2
  <1>10. /\ wire' \in Seq(Seq(Byte))
         /\ \A c \in 1..Len(wire') : wire'[c] # <<>> /\ OfSent(wire'[c])
    <2>1. CASE type = "inner" /\ others # <<>>
      <3>1. wire' = <<others>>
        BY <1>1, <2>1
      <3>2. wire' \in Seq(Seq(Byte)) /\ Len(wire') = 1 /\ wire'[1] = others
        BY <1>6, <3>1
      <3> QED
        BY <1>7, <2>1, <3>2
    <2>2. CASE ~(type = "inner" /\ others # <<>>)
      <3>1. wire' = Tail(wire) /\ wire \in Seq(Seq(Byte))
        BY <1>1, <1>t, <2>2 DEF MsgTypeOK, Byte
      <3>2. /\ wire' \in Seq(Seq(Byte)) /\ Len(wire') = Len(wire) - 1
            /\ \A c \in 1..Len(wire) - 1 : wire'[c] = wire[c + 1]
        BY <1>1, <3>1, TailPlaces
      <3>3. \A c \in 1..Len(wire') : c + 1 \in 1..Len(wire)
        BY <1>2, <3>2
      <3> QED
        BY <1>t, <3>2, <3>3 DEF MsgTypeOK
    <2> QED
      BY <2>1, <2>2
  <1>11. SenderOf(Head(wire)) \in Peer \cup {NoPeer}
    <2>1. PICK i \in 1..Len(sent) : \E n \in 1..Len(Frame(i)) : Head(wire)[1] = <<i, n>>
      BY <1>2 DEF OfSent
    <2>2. Head(wire)[1][1] = i /\ sent[i].from \in Peer
      BY <1>t, <2>1, SentFrame
    <2> QED
      BY <2>2 DEF SenderOf
  <1>12. MsgTypeOK'
    <2>1. OfSent(cache)' /\ \A c \in 1..Len(wire') : wire'[c] # <<>> /\ OfSent(wire[c])'
      <3>1. \A i : Frame(i)' = Frame(i)
        BY <1>1, SameFrames
      <3> QED
        BY <1>1, <1>9, <1>10, <3>1 DEF OfSent
    <2>2. pos' \in 0..Len(cache') /\ Len(cache') <= CacheSize
      BY <1>1, <1>3, <1>4, <1>5, <1>8
    <2> QED
      BY <1>1, <1>t, <1>8, <1>10, <1>11, <2>1, <2>2 DEF MsgTypeOK, Byte
  <1>13. raw' = raw \o front
    <2>1. /\ raw \in Seq(Byte) /\ Len(raw) = Len(cache) - pos /\ Len(raw) \in Nat
          /\ \A k \in 1..Len(raw) : pos + k \in 1..Len(cache) /\ raw[k] = cache[pos + k]
      BY <1>t, RawIs DEF RawPlaces
    <2>2. /\ raw' \in Seq(Byte) /\ Len(raw') = Len(cache') - pos /\ Len(raw') \in Nat
          /\ \A k \in 1..Len(raw') : pos + k \in 1..Len(cache') /\ raw'[k] = cache'[pos + k]
      BY <1>1, <1>12, RawIsNext DEF RawPlaces
    <2>3. /\ raw \o front \in Seq(Byte) /\ Len(raw \o front) = Len(raw) + cnt
          /\ \A k \in 1..Len(raw) + cnt : (raw \o front)[k] = IF k <= Len(raw) THEN raw[k] ELSE front[k - Len(raw)]
      BY ZenonT(60), <1>6, <2>1, ConcatProperties
    <2>4. Len(raw') = Len(raw) + cnt
      BY <1>3, <1>4, <1>8, <2>1, <2>2
    <2>5. ASSUME NEW k \in 1..Len(raw') PROVE raw'[k] = (raw \o front)[k]
      <3>1. raw'[k] = cache'[pos + k] /\ pos + k \in 1..Len(cache) + cnt /\ pos \in Nat /\ k \in 1..Len(raw) + cnt
        BY <1>3, <1>8, <2>2, <2>4
      <3>2. CASE k <= Len(raw)
        BY <1>3, <1>8, <2>1, <2>3, <3>1, <3>2
      <3>3. CASE ~(k <= Len(raw))
        <4>1. ~(pos + k <= Len(cache)) /\ (pos + k) - Len(cache) = k - Len(raw)
          BY <1>3, <2>1, <3>1, <3>3
        <4>2. cache'[pos + k] = front[k - Len(raw)]
          BY <1>8, <3>1, <4>1
        <4> QED
          BY <2>3, <3>1, <3>3, <4>2
      <3> QED
        BY <3>2, <3>3
    <2> QED
      BY <2>2, <2>3, <2>4, <2>5, SeqEqual
  <1>14. DealtWhole' /\ AnswerGoesToAsker'
    <2>1. \A i : Frame(i)' = Frame(i)
      BY <1>1, SameFrames
    <2> QED
      BY <1>1, <1>t, <2>1 DEF DealtWhole, AnswerGoesToAsker, DealtAsSent
  <1>15. PipeInOrder'
    <2> SUFFICES ASSUME type = "inner" PROVE PipeInOrder'
      BY <1>1 DEF PipeInOrder
    <2>1. Len(wire) <= 1
      BY <1>t DEF PipeInOrder, DealtAsSent
    <2>2. Len(wire') <= 1 /\ Stream' = Stream
      <3>1. CASE others # <<>>
        <4>1. PICK c : c = others
          OBVIOUS
        <4>2. wire' = <<c>> /\ Len(wire') <= 1
          BY <1>1, <3>1, <4>1
        <4>3. wire' # <<>> /\ Head(wire') = c
          BY <4>2
        <4>4. Stream' = raw' \o c
          BY <4>3 DEF Stream
        <4>5. Stream' = (raw \o front) \o others
          BY <1>13, <4>1, <4>4
        <4>6. raw \in Seq(Byte) /\ front \in Seq(Byte) /\ others \in Seq(Byte)
          BY <1>t, <1>6, RawIs DEF RawPlaces
        <4>7. \A a, b, d \in Seq(Byte) : (a \o b) \o d = a \o (b \o d)
          BY ConcatAssociative
        <4>8. Stream' = raw \o (front \o others)
          BY <4>5, <4>6, <4>7
        <4>9. Stream = raw \o Head(wire)
          BY <1>1 DEF Stream
        <4> QED
          BY <1>6, <4>2, <4>8, <4>9
      <3>2. CASE others = <<>>
        <4>1. wire' = Tail(wire) /\ front = Head(wire)
          BY <1>1, <1>6, <3>2
        <4>2. Len(wire') = 0 /\ wire' \in Seq(Seq(Byte))
          <5>1. wire \in Seq(Seq(Byte))
            BY <1>t DEF MsgTypeOK, Byte
          <5>2. wire' \in Seq(Seq(Byte)) /\ Len(wire') = Len(wire) - 1
            BY <1>1, <4>1, <5>1, TailPlaces
          <5> QED
            BY <1>2, <2>1, <5>2
        <4>3. wire' = <<>>
          BY <4>2, EmptySeq
        <4>4. Stream' = (raw \o Head(wire)) \o <<>>
          BY <1>13, <4>1, <4>3 DEF Stream
        <4>5. raw \o Head(wire) \in Seq(Byte)
          BY <1>t, <1>2, RawIs, ConcatProperties DEF RawPlaces
        <4>6. Stream' = raw \o Head(wire)
          BY <4>4, <4>5, ConcatEmptySeq
        <4> QED
          <5>1. Stream = raw \o Head(wire)
            BY <1>1 DEF Stream
          <5> QED
            BY <4>2, <4>6, <5>1
      <3> QED
        BY <3>1, <3>2
    <2>3. /\ Stream = <<>> => Len(dealt) = Len(sent)
          /\ Stream # <<>> => Stream[1] = <<Len(dealt) + 1, 1>> /\ Stream[Len(Stream)] = LastByte
          /\ \A k \in 1..Len(Stream) - 1 : Follows(Stream[k + 1], Stream[k])
      BY <1>t DEF PipeInOrder, DealtAsSent, Stream
    <2>4. LastByte' = LastByte /\ \A a, b : Follows(b, a)' <=> Follows(b, a)
      BY <1>1, SameFrames
    <2>5. PICK s : s = Stream
      OBVIOUS
    <2>6. s = Stream'
      BY <2>2, <2>5
    <2>7. /\ s = <<>> => Len(dealt') = Len(sent')
          /\ s # <<>> => s[1] = <<Len(dealt') + 1, 1>> /\ s[Len(s)] = LastByte'
          /\ \A k \in 1..Len(s) - 1 : Follows(s[k + 1], s[k])'
      BY <1>1, <2>3, <2>4, <2>5
    <2> QED
      BY <2>2, <2>6, <2>7 DEF PipeInOrder, Stream
  <1>16. DatagramsWhole' /\ ReadsWhole'
    <2> SUFFICES ASSUME type = "socket", ~failed PROVE DatagramsWhole' /\ ReadsWhole'
      BY <1>1 DEF DatagramsWhole, ReadsWhole
    <2>1. /\ cache = <<>>
          /\ Len(dealt) + (IF raw = <<>> THEN 0 ELSE 1) + Len(wire) = Len(sent)
          /\ \A c \in 1..Len(wire) : wire[c] = Frame(Len(sent) - Len(wire) + c)
      BY <1>1, <1>t DEF DealtAsSent, DatagramsWhole, ReadsWhole
    <2>2. Len(cache) = 0 /\ pos = 0 /\ raw = <<>>
      <3>1. Len(cache) = 0
        BY <2>1
      <3>2. pos = 0
        BY <1>3, <3>1
      <3> QED
        BY <1>t, <3>1, <3>2, RawIs DEF RawPlaces
    <2>3. Len(dealt) \in Nat /\ Len(sent) \in Nat /\ Len(sent) = Len(dealt) + Len(wire)
      BY <1>2, <1>t, <2>1, <2>2, LenProperties DEF MsgTypeOK
    <2>4. PICK d \in 1..Len(sent) : d = Len(dealt) + 1
      BY <1>2, <2>3
    <2>5. Head(wire) = Frame(d)
      <3>1. 1 \in 1..Len(wire) /\ Len(sent) - Len(wire) + 1 = d
        BY <1>2, <2>3, <2>4
      <3> QED
        BY <1>2, <2>1, <3>1
    <2>6. Len(Frame(d)) \in Nat \ {0} /\ Len(Frame(d)) <= CacheSize /\ Frame(d)[1] = <<d, 1>>
      BY <1>t, SentFrame
    <2>7. cnt = Len(Head(wire))
      <3>1. Len(Head(wire)) <= CacheSize /\ Len(Head(wire)) \in Nat
        BY <2>5, <2>6
      <3>2. buf_room_len = CacheSize
        BY <1>t, <1>3, <2>2
      <3> QED
        BY <1>4, <3>1, <3>2
    <2>8. front = Frame(d) /\ raw' = Frame(d)
      <3>1. Len(others) = 0
        BY <1>2, <1>6, <2>7
      <3>2. others = <<>>
        BY <1>6, <3>1, EmptySeq
      <3>3. raw \o front = front
        BY <1>6, <2>2, ConcatEmptySeq
      <3> QED
        BY <1>6, <1>13, <2>5, <3>2, <3>3
    <2>9. Frame(d) # <<>>
      BY <2>6, EmptySeq
    <2>10. /\ Len(wire') = Len(wire) - 1
           /\ \A c \in 1..Len(wire) - 1 : wire'[c] = wire[c + 1]
      <3>1. wire' = Tail(wire) /\ wire \in Seq(Seq(Byte))
        BY <1>1, <1>t DEF MsgTypeOK, Byte
      <3> QED
        BY <1>1, <3>1, TailPlaces
    <2>11. \A i : Frame(i)' = Frame(i)
      BY <1>1, SameFrames
    <2>12. \A c \in 1..Len(wire') : wire'[c] = Frame(Len(sent) - Len(wire') + c)
      <3> SUFFICES ASSUME NEW c \in 1..Len(wire') PROVE wire'[c] = Frame(Len(sent) - Len(wire') + c)
        OBVIOUS
      <3>1. c + 1 \in 1..Len(wire) /\ c \in 1..Len(wire) - 1
        BY <1>2, <2>10
      <3>2. Len(sent) - Len(wire') + c = Len(sent) - Len(wire) + (c + 1)
        BY <1>2, <2>3, <2>10
      <3> QED
        BY <2>1, <2>10, <3>1, <3>2
    <2>13. Len(dealt) + 1 + Len(wire') = Len(sent)
      BY <1>2, <2>3, <2>10
    <2>14. DatagramsWhole'
      <3>1. raw' = Frame(Len(dealt) + 1) /\ raw' # <<>>
        BY <2>4, <2>8, <2>9
      <3> QED
        BY <1>1, <2>11, <2>12, <2>13, <3>1 DEF DatagramsWhole
    <2>15. peer' = sent[Len(dealt) + 1].from
      <3>1. Head(wire)[1][1] = d
        BY <2>5, <2>6
      <3> QED
        BY <1>1, <2>4, <3>1 DEF SenderOf
    <2>16. ReadsWhole'
      BY <1>1, <2>15 DEF ReadsWhole
    <2> QED
      BY <2>14, <2>16
  <1> QED
    BY <1>12, <1>14, <1>15, <1>16 DEF MsgInv, DealtAsSent

LEMMA DealStep == ASSUME ComMsgAssumption, MsgInv, cmsg_deal PROVE MsgInv'
  <1>t. MsgTypeOK /\ DealtAsSent /\ ReadsWhole /\ CacheSize \in Nat
    BY DEF MsgInv, ComMsgAssumption
  <1>r. /\ raw \in Seq(Byte) /\ Len(raw) = Len(cache) - pos /\ Len(raw) \in Nat
        /\ raw = <<>> <=> Len(raw) = 0
        /\ \A k \in 1..Len(raw) : pos + k \in 1..Len(cache) /\ raw[k] = cache[pos + k]
        /\ OfSent(raw)
    BY <1>t, RawIs DEF RawPlaces
  <1>1. PICK h : h = HeaderAt
    OBVIOUS
  <1> DEFINE n == Len(Frame(h))
             data == SubSeq(raw, 1, n)
             e == [msg |-> h, data |-> data, peer |-> peer]
  <1>2. /\ pc = "parse" /\ HasHeader /\ Len(raw) >= n
        /\ dealt' = Append(dealt, e) /\ pos' = pos + n
        /\ UNCHANGED <<type, wire, cache, peer, sent>>
        /\ \/ pc' = "parse" /\ failed' = failed
           \/ pc' = "epoll" /\ failed' = TRUE
    <2>1. /\ pc = "parse" /\ HasHeader /\ Len(raw) >= Len(Frame(HeaderAt))
          /\ dealt' = Append(dealt, [msg |-> HeaderAt, data |-> SubSeq(raw, 1, Len(Frame(HeaderAt))),
                                     peer |-> peer])
          /\ pos' = pos + Len(Frame(HeaderAt))
          /\ UNCHANGED <<type, wire, cache, peer, sent>>
      BY DEF cmsg_deal, Complete
    <2>2. \E ok \in BOOLEAN : pc' = (IF ok THEN "parse" ELSE "epoll") /\ failed' = (failed \/ ~ok)
      BY DEF cmsg_deal
    <2>3. \/ pc' = "parse" /\ failed' = failed
          \/ pc' = "epoll" /\ failed' = TRUE
      BY <1>t, <2>2 DEF MsgTypeOK
    <2> QED
      BY <1>1, <2>1, <2>3
  <1>3. h \in 1..Len(sent) /\ raw # <<>>
    <2>1. Len(raw) >= Header /\ Header \in Nat \ {0}
      BY <1>2 DEF HasHeader, ComMsgAssumption
    <2>2. 1 \in 1..Len(raw) /\ raw # <<>>
      BY <1>r, <2>1
    <2>3. PICK i \in 1..Len(sent) : \E m \in 1..Len(Frame(i)) : raw[1] = <<i, m>>
      BY <1>r, <2>2 DEF OfSent
    <2>4. raw[1][1] = i
      BY <2>3
    <2> QED
      BY <1>1, <1>r, <2>2, <2>4 DEF HeaderAt
  <1>4. n \in Nat \ {0} /\ h \in Nat /\ Frame(h) \in Seq(Byte) /\ \A k \in 1..n : Frame(h)[k] = <<h, k>>
    BY <1>t, <1>3, SentFrame
  <1>5. \A i : Frame(i)' = Frame(i)
    BY <1>2, SameFrames
  <1>6. /\ data \in Seq(Byte) /\ Len(data) = n
        /\ \A k \in 1..n : k \in 1..Len(raw) /\ data[k] = raw[k]
    <2>1. n \in 0..Len(raw)
      BY <1>2, <1>4, <1>r
    <2> QED
      BY <2>1, <1>r, FrontPlaces
  <1> HIDE DEF n, data
  <1>7. /\ dealt' \in Seq([msg : Nat, data : Seq(Byte), peer : Peer \cup {NoPeer}])
        /\ Len(dealt') = Len(dealt) + 1 /\ Len(dealt) \in Nat
        /\ \A j \in 1..Len(dealt) : dealt'[j] = dealt[j]
        /\ dealt'[Len(dealt) + 1] = e
    <2>1. e \in [msg : Nat, data : Seq(Byte), peer : Peer \cup {NoPeer}]
      BY <1>4, <1>6, <1>t DEF MsgTypeOK
    <2>2. dealt \in Seq([msg : Nat, data : Seq(Byte), peer : Peer \cup {NoPeer}])
      BY <1>t DEF MsgTypeOK, Byte
    <2> HIDE DEF e
    <2> QED
      BY <1>2, <2>1, <2>2, AppendPlaces, QueuePlaces
  <1>8. e.msg = h /\ e.data = data /\ e.peer = peer
    OBVIOUS
  <1> HIDE DEF e
  <1>9. MsgTypeOK'
    <2>1. OfSent(cache)' /\ \A c \in 1..Len(wire') : wire'[c] # <<>> /\ OfSent(wire[c])'
      BY <1>2, <1>5, <1>t DEF OfSent, MsgTypeOK
    <2>2. pos' \in 0..Len(cache')
      BY <1>2, <1>4, <1>r, <1>t DEF MsgTypeOK
    <2>3. /\ pc' \in {"epoll", "recv", "parse", "undefined"} /\ failed' \in BOOLEAN
      BY <1>2, <1>t DEF MsgTypeOK
    <2> QED
      BY <1>2, <1>t, <1>7, <2>1, <2>2, <2>3 DEF MsgTypeOK, Byte
  <1>10. /\ raw' \in Seq(Byte) /\ Len(raw') = Len(raw) - n
         /\ \A k \in 1..Len(raw) - n : raw'[k] = raw[n + k]
    <2>1. /\ raw' \in Seq(Byte) /\ Len(raw') = Len(cache') - pos' /\ Len(raw') \in Nat
          /\ \A k \in 1..Len(raw') : raw'[k] = cache'[pos' + k]
      BY <1>9, RawIsNext DEF RawPlaces
    <2>2. pos \in Nat /\ Len(cache) \in Nat
      BY <1>t DEF MsgTypeOK
    <2>3. Len(raw') = Len(raw) - n
      BY <1>2, <1>4, <1>r, <2>1, <2>2
    <2>4. ASSUME NEW k \in 1..Len(raw) - n PROVE raw'[k] = raw[n + k]
      <3>1. n + k \in 1..Len(raw) /\ k \in 1..Len(raw')
        BY <1>4, <1>r, <2>3
      <3>2. pos' + k = pos + (n + k)
        BY <1>2, <1>4, <2>2
      <3> QED
        BY <1>2, <1>r, <2>1, <3>1, <3>2
    <2> QED
      BY <2>1, <2>3, <2>4
  <1>11. ASSUME type = "inner" \/ ~failed
         PROVE  /\ h = Len(dealt) + 1 /\ data = Frame(h)
                /\ \A j \in 1..Len(dealt) : j \in 1..Len(sent) /\ dealt[j].msg = j /\ dealt[j].data = Frame(j)
    <2>1. /\ h = Len(dealt) + 1 /\ Len(dealt) <= Len(sent) /\ Len(sent) \in Nat
          /\ \A k \in 1..Len(raw) : k <= Len(Frame(Len(dealt) + 1)) => raw[k] = <<Len(dealt) + 1, k>>
      BY <1>1, <1>3, <1>11, DealtIsSent
    <2>2. \A k \in 1..n : data[k] = Frame(h)[k]
      <3> SUFFICES ASSUME NEW k \in 1..n PROVE data[k] = Frame(h)[k]
        OBVIOUS
      <3>1. k \in 1..Len(raw) /\ data[k] = raw[k] /\ k <= n /\ Frame(h)[k] = <<h, k>>
        BY <1>4, <1>6
      <3>2. n = Len(Frame(Len(dealt) + 1))
        BY <2>1 DEF n
      <3>3. raw[k] = <<h, k>>
        BY <2>1, <3>1, <3>2
      <3> QED
        BY <3>1, <3>3
    <2>3. data = Frame(h)
      BY <1>4, <1>6, <2>2, SeqEqual DEF n
    <2>4. \A j \in 1..Len(dealt) : j \in 1..Len(sent)
      BY <1>7, <2>1
    <2> QED
      BY <1>11, <1>t, <2>1, <2>3, <2>4 DEF DealtAsSent, DealtWhole
  <1>12. ~failed' => ~failed
    BY <1>2
  <1>13. DealtWhole'
    <2> SUFFICES ASSUME type' = "inner" \/ ~failed', NEW j \in 1..Len(dealt')
                 PROVE  dealt'[j].msg = j /\ dealt'[j].data = Frame(j)'
      BY DEF DealtWhole
    <2>1. type = "inner" \/ ~failed
      BY <1>2, <1>12
    <2>2. CASE j \in 1..Len(dealt)
      BY <1>5, <1>7, <1>11, <2>1, <2>2
    <2>3. CASE j = Len(dealt) + 1
      BY <1>5, <1>7, <1>8, <1>11, <2>1, <2>3
    <2> QED
      BY <1>7, <2>2, <2>3
  <1>14. AnswerGoesToAsker'
    <2> SUFFICES ASSUME type = "socket", ~failed, NEW j \in 1..Len(dealt')
                 PROVE  dealt'[j].peer = sent[dealt'[j].msg].from
      BY <1>2, <1>12 DEF AnswerGoesToAsker
    <2>1. CASE j \in 1..Len(dealt)
      BY <1>7, <1>t, <2>1 DEF DealtAsSent, AnswerGoesToAsker
    <2>2. CASE j = Len(dealt) + 1
      <3>1. peer = sent[Len(dealt) + 1].from
        BY <1>3, <1>t DEF ReadsWhole
      <3> QED
        BY <1>7, <1>8, <1>11, <2>2, <3>1
    <2> QED
      BY <1>7, <2>1, <2>2
  <1>15. DatagramsWhole' /\ ReadsWhole'
    <2> SUFFICES ASSUME type = "socket", ~failed, ~failed' PROVE DatagramsWhole' /\ ReadsWhole'
      BY <1>2, <1>12 DEF DatagramsWhole, ReadsWhole
    <2>1. /\ raw = Frame(Len(dealt) + 1)
          /\ Len(dealt) + 1 + Len(wire) = Len(sent)
          /\ \A c \in 1..Len(wire) : wire[c] = Frame(Len(sent) - Len(wire) + c)
      BY <1>3, <1>t DEF DealtAsSent, DatagramsWhole
    <2>2. Len(raw) = n
      BY <1>11, <2>1 DEF n
    <2>3. raw' = <<>>
      BY <1>10, <1>r, <2>2, EmptySeq
    <2>4. Len(wire) \in Nat
      BY <1>t DEF MsgTypeOK
    <2>5. Len(dealt') + 0 + Len(wire') = Len(sent')
      BY <1>2, <1>7, <2>1, <2>4
    <2>6. DatagramsWhole'
      BY <1>2, <1>5, <2>1, <2>3, <2>5 DEF DatagramsWhole
    <2>7. ReadsWhole'
      BY <1>2, <2>3 DEF ReadsWhole
    <2> QED
      BY <2>6, <2>7
  <1>16. PipeInOrder'
    <2> SUFFICES ASSUME type = "inner" PROVE PipeInOrder'
      BY <1>2 DEF PipeInOrder
    <2> DEFINE w == IF wire = <<>> THEN <<>> ELSE Head(wire)
    <2>1. w \in Seq(Byte) /\ Len(w) \in Nat
      <3>1. <<>> \in Seq(Byte)
        OBVIOUS
      <3>2. wire # <<>> => Head(wire) \in Seq(Byte)
        BY <1>t, ChunkIs
      <3>3. w \in Seq(Byte)
        BY <3>1, <3>2
      <3> QED
        BY <3>3, LenProperties
    <2>2. Stream = raw \o w /\ Stream' = raw' \o w
      BY <1>2 DEF Stream
    <2> HIDE DEF w
    <2>3. PICK s \in Seq(Byte), r \in Seq(Byte) : s = Stream /\ r = Stream'
      BY <1>10, <1>r, <2>1, <2>2, ConcatProperties
    <2>4. /\ Len(s) = Len(raw) + Len(w)
          /\ \A k \in 1..Len(raw) + Len(w) : s[k] = IF k <= Len(raw) THEN raw[k] ELSE w[k - Len(raw)]
      <3>1. s = raw \o w /\ raw \in Seq(Byte) /\ w \in Seq(Byte)
        BY <1>r, <2>1, <2>2, <2>3
      <3> QED
        BY <3>1, ConcatProperties
    <2>5. /\ Len(r) = Len(raw') + Len(w)
          /\ \A k \in 1..Len(raw') + Len(w) : r[k] = IF k <= Len(raw') THEN raw'[k] ELSE w[k - Len(raw')]
      BY <1>10, <2>1, <2>2, <2>3, ConcatProperties
    <2>6. /\ Len(r) = Len(s) - n /\ Len(s) \in Nat /\ n <= Len(s) /\ n \in Nat \ {0}
      <3>1. n \in Nat \ {0} /\ Len(raw) >= n
        BY <1>2, <1>4
      <3>2. Len(s) = Len(raw) + Len(w) /\ Len(r) = Len(raw') + Len(w) /\ Len(raw') = Len(raw) - n
        BY <1>10, <2>4, <2>5
      <3>3. Len(raw) \in Nat /\ Len(w) \in Nat
        BY <1>r, <2>1
      <3>4. Len(r) = Len(s) - n /\ Len(s) \in Nat /\ n <= Len(s)
        BY <3>1, <3>2, <3>3
      <3> QED
        BY <3>1, <3>4
    <2>7. ASSUME NEW k \in 1..Len(r) PROVE r[k] = s[n + k] /\ n + k \in 1..Len(s)
      <3>1. n + k \in 1..Len(raw) + Len(w) /\ k \in 1..Len(raw') + Len(w)
        BY <2>4, <2>5, <2>6
      <3>2. CASE k <= Len(raw')
        <4>1. k \in 1..Len(raw) - n /\ n + k <= Len(raw)
          BY <1>4, <1>10, <1>r, <3>2
        <4> QED
          BY <1>10, <2>4, <2>5, <3>1, <3>2, <4>1
      <3>3. CASE ~(k <= Len(raw'))
        <4>1. ~(n + k <= Len(raw)) /\ k - Len(raw') = (n + k) - Len(raw)
          BY SMTT(30), <1>4, <1>10, <1>r, <3>1, <3>3
        <4> QED
          BY <2>4, <2>5, <3>1, <3>3, <4>1
      <3> QED
        BY <3>2, <3>3
    <2>8. s # <<>>
      BY <2>6, EmptySeq
    <2>9. /\ s[1] = <<Len(dealt) + 1, 1>> /\ s[Len(s)] = LastByte
          /\ \A k \in 1..Len(s) - 1 : Follows(s[k + 1], s[k])
          /\ Len(wire) <= 1
      BY <1>t, <2>3, <2>8 DEF PipeInOrder, DealtAsSent, Stream
    <2>10. s[n] = <<h, n>>
      <3>1. s[n] = raw[n]
        BY <1>2, <1>4, <1>r, <2>1, <2>4, <2>6 DEF n
      <3>2. raw[n] = Frame(h)[n]
        BY <1>6, <1>11, <2>6
      <3>3. n \in 1..n
        BY <2>6
      <3> QED
        BY <1>4, <3>1, <3>2, <3>3 DEF n
    <2>11. LastByte' = LastByte /\ \A a, b : Follows(b, a)' <=> Follows(b, a)
      BY <1>2, SameFrames
    <2>12. r = <<>> => Len(dealt') = Len(sent')
      <3> SUFFICES ASSUME r = <<>> PROVE Len(dealt') = Len(sent')
        OBVIOUS
      <3>1. Len(r) = 0
        OBVIOUS
      <3>2. n = Len(s)
        BY <2>6, <3>1
      <3>3. <<h, n>> = <<Len(sent), Len(Frame(Len(sent)))>>
        BY <2>9, <2>10, <3>2 DEF LastByte
      <3> QED
        BY <1>2, <1>7, <1>11, <3>3
    <2>13. r # <<>> => r[1] = <<Len(dealt') + 1, 1>> /\ r[Len(r)] = LastByte'
      <3> SUFFICES ASSUME r # <<>>
                   PROVE  r[1] = <<Len(dealt') + 1, 1>> /\ r[Len(r)] = LastByte'
        OBVIOUS
      <3>1. Len(r) \in Nat \ {0}
        BY EmptySeq, LenProperties
      <3>2. 1 \in 1..Len(r) /\ Len(r) \in 1..Len(r) /\ n + Len(r) = Len(s) /\ n \in 1..Len(s) - 1
        BY <2>6, <3>1
      <3>3. r[1] = s[n + 1] /\ r[Len(r)] = s[Len(s)]
        BY <2>7, <3>2
      <3>4. Follows(s[n + 1], <<h, n>>)
        BY <2>9, <2>10, <3>2
      <3>5. s[n + 1] = <<h + 1, 1>>
        BY <1>4, <3>4 DEF Follows, n
      <3> QED
        BY <1>7, <1>11, <2>9, <2>11, <3>3, <3>5
    <2>14. ASSUME NEW k \in 1..Len(r) - 1 PROVE Follows(r[k + 1], r[k])'
      <3>1. k \in 1..Len(r) /\ k + 1 \in 1..Len(r) /\ n + k \in 1..Len(s) - 1 /\ n + (k + 1) = (n + k) + 1
        BY <2>6
      <3>2. r[k] = s[n + k] /\ r[k + 1] = s[(n + k) + 1]
        BY <2>7, <3>1
      <3>3. Follows(r[k + 1], r[k])
        BY <2>9, <3>1, <3>2
      <3> QED
        BY <2>11, <3>3
    <2> QED
      BY <1>2, <2>3, <2>9, <2>12, <2>13, <2>14 DEF PipeInOrder, Stream
  <1> QED
    BY <1>9, <1>13, <1>14, <1>15, <1>16 DEF MsgInv, DealtAsSent

LEMMA MoveStep == ASSUME ComMsgAssumption, MsgInv, buf_move PROVE MsgInv'
  <1>t. MsgTypeOK /\ DealtAsSent /\ ReadsWhole /\ CacheSize \in Nat
    BY DEF MsgInv, ComMsgAssumption
  <1>r. /\ raw \in Seq(Byte) /\ Len(raw) = Len(cache) - pos /\ Len(raw) \in Nat
        /\ raw = <<>> <=> Len(raw) = 0
        /\ OfSent(raw)
    BY <1>t, RawIs DEF RawPlaces
  <1>1. /\ pc = "parse" /\ ~Complete /\ cache' = raw /\ pos' = 0
        /\ pc' \in {"epoll", "recv"}
        /\ UNCHANGED <<type, wire, peer, sent, dealt, failed>>
    BY DEF buf_move
  <1>2. /\ \A i : Frame(i)' = Frame(i)
        /\ LastByte' = LastByte /\ \A a, b : Follows(b, a)' <=> Follows(b, a)
    BY <1>1, SameFrames
  <1>3. MsgTypeOK'
    <2>1. OfSent(cache)' /\ \A c \in 1..Len(wire') : wire'[c] # <<>> /\ OfSent(wire[c])'
      BY <1>1, <1>2, <1>r, <1>t DEF OfSent, MsgTypeOK
    <2>2. Len(raw) <= CacheSize
      BY <1>r, <1>t DEF MsgTypeOK
    <2> QED
      BY <1>1, <1>r, <1>t, <2>1, <2>2 DEF MsgTypeOK, Byte
  <1>4. raw' = raw
    <2>1. /\ raw' \in Seq(Byte) /\ Len(raw') = Len(cache') - pos'
          /\ \A k \in 1..Len(raw') : raw'[k] = cache'[pos' + k]
      BY <1>3, RawIsNext DEF RawPlaces
    <2>2. Len(raw') = Len(raw) /\ \A k \in 1..Len(raw) : raw'[k] = raw[k]
      BY <1>1, <1>r, <2>1
    <2> QED
      BY <1>r, <2>1, <2>2, SeqEqual
  <1>5. DealtWhole' /\ AnswerGoesToAsker'
    BY <1>1, <1>2, <1>t DEF DealtWhole, AnswerGoesToAsker, DealtAsSent
  <1>6. DatagramsWhole'
    BY <1>1, <1>2, <1>4, <1>t DEF DatagramsWhole, DealtAsSent
  <1>7. PipeInOrder'
    <2> SUFFICES ASSUME type = "inner" PROVE PipeInOrder'
      BY <1>1 DEF PipeInOrder
    <2>1. PICK s : s = Stream
      OBVIOUS
    <2>2. s = Stream'
      BY <1>1, <1>4, <2>1 DEF Stream
    <2>3. /\ s = <<>> => Len(dealt') = Len(sent')
          /\ s # <<>> => s[1] = <<Len(dealt') + 1, 1>> /\ s[Len(s)] = LastByte'
          /\ \A k \in 1..Len(s) - 1 : Follows(s[k + 1], s[k])'
          /\ Len(wire') <= 1
      BY <1>1, <1>2, <1>t, <2>1 DEF PipeInOrder, DealtAsSent, Stream
    <2> QED
      BY <2>2, <2>3 DEF PipeInOrder, Stream
  <1>8. ReadsWhole'
    <2> SUFFICES ASSUME type = "socket", ~failed PROVE ReadsWhole'
      BY <1>1 DEF ReadsWhole
    <2>1. raw = <<>>
      <3> SUFFICES ASSUME raw # <<>> PROVE FALSE
        OBVIOUS
      <3>1. PICK d \in 1..Len(sent) : d = Len(dealt) + 1 /\ HeaderAt = d /\ (Len(raw) >= Header => HasHeader)
        BY DealtIsSent
      <3>2. raw = Frame(d)
        BY <1>t, <3>1 DEF DatagramsWhole, DealtAsSent
      <3>3. Header <= Len(Frame(d)) /\ Len(Frame(d)) \in Nat /\ Header \in Nat
        BY <1>t, SentFrame
      <3>4. Len(raw) >= Header /\ Len(raw) >= Len(Frame(HeaderAt))
        BY <3>1, <3>2, <3>3
      <3> QED
        BY <1>1, <3>1, <3>4 DEF Complete
    <2> QED
      BY <1>1, <1>4, <2>1 DEF ReadsWhole
  <1> QED
    BY <1>3, <1>5, <1>6, <1>7, <1>8 DEF MsgInv, DealtAsSent

(* The two steps that only move the loop on. *)
LEMMA PlaceStep ==
    ASSUME ComMsgAssumption, MsgInv, event_loop \/ TornHeader \/ UNCHANGED msgVars
    PROVE  MsgInv'
  <1>t. MsgTypeOK /\ DealtAsSent /\ ReadsWhole
    BY DEF MsgInv
  <1>1. /\ UNCHANGED <<type, wire, cache, pos, peer, sent, dealt, failed>>
        /\ pc' \in {"epoll", "recv", "parse", "undefined"}
    BY <1>t DEF event_loop, TornHeader, msgVars, MsgTypeOK
  <1>2. /\ \A i : Frame(i)' = Frame(i)
        /\ LastByte' = LastByte /\ \A a, b : Follows(b, a)' <=> Follows(b, a)
        /\ \A s : OfSent(s)' <=> OfSent(s)
    BY <1>1, SameFrames
  <1>3. raw' = raw
    BY <1>1 DEF raw
  <1>4. MsgTypeOK'
    <2>1. OfSent(cache)' /\ \A c \in 1..Len(wire') : wire'[c] # <<>> /\ OfSent(wire[c])'
      BY ZenonT(60), <1>1, <1>2, <1>t DEF OfSent, MsgTypeOK
    <2> QED
      BY <1>1, <1>t, <2>1 DEF MsgTypeOK
  <1>5. DealtWhole' /\ AnswerGoesToAsker' /\ DatagramsWhole'
    BY <1>1, <1>2, <1>3, <1>t DEF DealtWhole, AnswerGoesToAsker, DatagramsWhole, DealtAsSent
  <1>6. PipeInOrder'
    BY <1>1, <1>2, <1>3, <1>t DEF PipeInOrder, DealtAsSent
  <1>7. ReadsWhole'
    <2> SUFFICES ASSUME type = "socket", ~failed PROVE pc' # "parse" => cache = <<>>
      BY <1>1, <1>3, <1>t DEF ReadsWhole
    <2>1. ASSUME event_loop PROVE cache = <<>>
      BY <1>t, <2>1 DEF event_loop, ReadsWhole
    <2>2. ASSUME TornHeader PROVE FALSE
      <3>1. Len(raw) >= Header /\ ~HasHeader
        BY <2>2 DEF TornHeader
      <3>2. raw # <<>>
        BY <1>t, <3>1, RawIs DEF RawPlaces, ComMsgAssumption
      <3> QED
        BY <3>1, <3>2, DealtIsSent
    <2>3. ASSUME UNCHANGED msgVars PROVE pc' # "parse" => cache = <<>>
      BY <1>t, <2>3 DEF msgVars, ReadsWhole
    <2> QED
      BY <2>1, <2>2, <2>3
  <1> QED
    BY <1>4, <1>5, <1>6, <1>7 DEF MsgInv, DealtAsSent

LEMMA MsgInvStep == ASSUME ComMsgAssumption, MsgInv, [MsgNext]_msgVars PROVE MsgInv'
  <1>1. ASSUME NEW n \in Payload, NEW from \in Peer, cmsg_send(n, from) PROVE MsgInv'
    BY <1>1, SendStep
  <1>2. ASSUME cmsg_recv PROVE MsgInv'
    BY <1>2, RecvStep
  <1>3. ASSUME cmsg_deal PROVE MsgInv'
    BY <1>3, DealStep
  <1>4. ASSUME buf_move PROVE MsgInv'
    BY <1>4, MoveStep
  <1>5. ASSUME event_loop \/ TornHeader \/ UNCHANGED msgVars PROVE MsgInv'
    BY <1>5, PlaceStep
  <1> QED
    BY <1>1, <1>2, <1>3, <1>4, <1>5 DEF MsgNext, MsgLoop

(* com_msg.c, buf.h: the bytes between what was dealt with and what was sent, *)
(* wherever they are, are the messages' own, in order and without a gap.      *)
THEOREM ComMsgInductive == ASSUME ComMsgAssumption PROVE MsgSpec => []MsgInv
  <1>1. MsgInit => MsgInv
    BY InitMsgInv
  <1>2. MsgInv /\ [MsgNext]_msgVars => MsgInv'
    BY MsgInvStep
  <1> QED
    BY <1>1, <1>2, PTL DEF MsgSpec

(* com_msg.c: messages are dealt with whole, in order and once, however reads *)
(* cut the pipe and until a handler fails on a socket, and an answer goes to  *)
(* the one that asked.                                                        *)
THEOREM Whole == ASSUME ComMsgAssumption PROVE MsgSpec => []DealtAsSent
  <1>1. MsgInv => DealtAsSent
    BY DEF MsgInv
  <1> QED
    BY <1>1, ComMsgInductive, PTL
=================================================================================
