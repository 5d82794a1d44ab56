---------------------------------- MODULE Task ---------------------------------
(***************************************************************************)
(* The supervisor of src/task.c: task_start forks a child that runs func,  *)
(* waits for it and forks again unless func returned 0.  Signals may hit   *)
(* the parent and the child between any two steps; the handler, do_signal, *)
(* cleans up and exits.  Process numbers are reused.                       *)
(***************************************************************************)
EXTENDS FiniteSets, Naturals

CONSTANTS
    Number,     \* the process numbers of the kernel
    NoPid       \* child_pid = -1

TaskAssumption == NoPid \notin Number

VARIABLES
    ppc,        \* where the parent is, or "gone"
    child_pid,  \* the parent's variable
    pid,        \* the local of task_start
    copy,       \* child_pid in each child, as it was at the fork
    proc,       \* what a number stands for: "none", "window" (a child that has
                \* the parent's handlers still), "run", "zombie", "stranger"
    status,     \* how a zombie ended: "zero", "failed" or "killed"
    termed,     \* processes that SIGTERM has been sent to and has not hit
    pid_file,   \* /var/run/<prgname>.pid exists
    left,       \* history: how the parent ended
    leftAt,     \* history: where it was
    stray       \* history: where the sender was when a stranger was sent SIGTERM

hist == <<left, leftAt, stray>>
taskVars == <<ppc, child_pid, pid, copy, proc, status, termed, pid_file, hist>>

(* After daemon, signal and save_pid, whose failure is not looked at. *)
TaskInit ==
    /\ ppc = "fork"
    /\ child_pid = NoPid
    /\ pid = NoPid
    /\ copy = [p \in Number |-> NoPid]
    /\ proc = [p \in Number |-> "none"]
    /\ status = [p \in Number |-> "zero"]
    /\ termed = {}
    /\ pid_file \in BOOLEAN
    /\ left = "" /\ leftAt = ""
    /\ stray = {}

Alive(p) == proc[p] \in {"window", "run"}

(* kill(p, SIGTERM): nothing happens to a zombie or a number not in use. *)
Term(p, sender) ==
    /\ termed' = IF p # NoPid /\ Alive(p) THEN termed \cup {p} ELSE termed
    /\ stray' = IF p # NoPid /\ proc[p] = "stranger" THEN stray \cup {sender} ELSE stray

-----------------------------------------------------------------------------
Fork(p) ==
    /\ ppc = "fork"
    /\ proc[p] = "none"
    /\ proc' = [proc EXCEPT ![p] = "window"]
    /\ copy' = [copy EXCEPT ![p] = child_pid]
    /\ pid' = p
    /\ ppc' = "assign"
    /\ UNCHANGED <<child_pid, status, termed, pid_file, hist>>

(* return -1, and the caller's process ends. *)
ForkFails ==
    /\ ppc = "fork"
    /\ ppc' = "gone"
    /\ left' = "fork failed" /\ leftAt' = "fork"
    /\ UNCHANGED <<child_pid, pid, copy, proc, status, termed, pid_file, stray>>

Assign ==
    /\ ppc = "assign"
    /\ child_pid' = pid
    /\ ppc' = "wait"
    /\ UNCHANGED <<pid, copy, proc, status, termed, pid_file, hist>>

(* waitpid *)
Wait ==
    /\ ppc = "wait"
    /\ proc[pid] = "zombie"
    /\ proc' = [proc EXCEPT ![pid] = "none"]
    /\ ppc' = "check"
    /\ UNCHANGED <<child_pid, pid, copy, status, termed, pid_file, hist>>

(* Mutant: only a child that exited is replaced. *)
CheckWaitsOn ==
    /\ ppc = "check"
    /\ \/ status[pid] = "zero" /\ child_pid' = NoPid /\ ppc' = "do_exit"
       \/ status[pid] = "failed" /\ ppc' = "sleep" /\ UNCHANGED child_pid
       \/ status[pid] = "killed" /\ ppc' = "wait" /\ UNCHANGED child_pid
    /\ UNCHANGED <<pid, copy, proc, status, termed, pid_file, hist>>

(* WIFEXITED and WEXITSTATUS; child_pid stays unless the child succeeded. *)
Check ==
    /\ ppc = "check"
    /\ IF status[pid] = "zero"
       THEN child_pid' = NoPid /\ ppc' = "do_exit"
       ELSE ppc' = "sleep" /\ UNCHANGED child_pid
    /\ UNCHANGED <<pid, copy, proc, status, termed, pid_file, hist>>

Sleep ==
    /\ ppc = "sleep"
    /\ ppc' = "fork"
    /\ UNCHANGED <<child_pid, pid, copy, proc, status, termed, pid_file, hist>>

(* Mutant: the child is left alone. *)
LeaveAlone(how) ==
    /\ pid_file' = FALSE
    /\ ppc' = "gone"
    /\ left' = how /\ leftAt' = ppc
    /\ UNCHANGED <<termed, stray>>

(* do_exit and exit. *)
Leave(how) ==
    /\ pid_file' = FALSE
    /\ Term(child_pid, ppc)
    /\ ppc' = "gone"
    /\ left' = how /\ leftAt' = ppc

DoExit ==
    /\ ppc = "do_exit"
    /\ Leave("success")
    /\ UNCHANGED <<child_pid, pid, copy, proc, status>>

(* waitpid < 0. *)
WaitFails ==
    /\ ppc = "wait"
    /\ Leave("wait failed")
    /\ UNCHANGED <<child_pid, pid, copy, proc, status>>

(* SIGTERM, SIGINT, ... at any step of the parent. *)
do_signal ==
    /\ ppc # "gone"
    /\ Leave("signal")
    /\ UNCHANGED <<child_pid, pid, copy, proc, status>>

(* SIGKILL, which signal() cannot catch. *)
Killed ==
    /\ ppc # "gone"
    /\ ppc' = "gone"
    /\ left' = "SIGKILL" /\ leftAt' = ppc
    /\ UNCHANGED <<child_pid, pid, copy, proc, status, termed, pid_file, stray>>

-----------------------------------------------------------------------------
(* The child.  Without a parent init reaps it. *)
Dies(p, how) ==
    /\ proc' = [proc EXCEPT ![p] = IF ppc = "gone" THEN "none" ELSE "zombie"]
    /\ status' = [status EXCEPT ![p] = how]

(* signal(..., SIG_DFL) for all of them. *)
ChildRuns(p) ==
    /\ proc[p] = "window"
    /\ proc' = [proc EXCEPT ![p] = "run"]
    /\ UNCHANGED <<ppc, child_pid, pid, copy, status, termed, pid_file, hist>>

(* exit(func(arg)), or a crash. *)
ChildReturns(p) ==
    /\ proc[p] = "run"
    /\ \E how \in {"zero", "failed", "killed"} : Dies(p, how)
    /\ termed' = termed \ {p}
    /\ UNCHANGED <<ppc, child_pid, pid, copy, pid_file, hist>>

(* Somebody else sends SIGTERM to the child. *)
ChildSignalled(p) ==
    /\ Alive(p)
    /\ termed' = termed \cup {p}
    /\ UNCHANGED <<ppc, child_pid, pid, copy, proc, status, pid_file, hist>>

(* SIGTERM arrives.  In the window it runs the parent's handler: the file is *)
(* removed, the process of the copied child_pid killed, and the exit is a 0. *)
ChildTerminated(p) ==
    /\ p \in termed
    /\ IF proc[p] = "window"
       THEN /\ Dies(p, "zero")
            /\ pid_file' = FALSE
            /\ termed' = (termed \ {p}) \cup {q \in Number : q = copy[p] /\ Alive(q) /\ q # p}
            /\ stray' = IF copy[p] # NoPid /\ proc[copy[p]] = "stranger"
                        THEN stray \cup {"window"} ELSE stray
       ELSE /\ Dies(p, "killed")
            /\ termed' = termed \ {p}
            /\ UNCHANGED <<pid_file, stray>>
    /\ UNCHANGED <<ppc, child_pid, pid, copy, left, leftAt>>

(* Other processes come and go and take the numbers that are free.  An      *)
(* orphan that ended is reaped by init.                                     *)
Stranger(p) ==
    /\ \/ proc[p] = "none" /\ proc' = [proc EXCEPT ![p] = "stranger"]
       \/ proc[p] = "stranger" /\ proc' = [proc EXCEPT ![p] = "none"]
       \/ ppc = "gone" /\ proc[p] = "zombie" /\ proc' = [proc EXCEPT ![p] = "none"]
    /\ UNCHANGED <<ppc, child_pid, pid, copy, status, termed, pid_file, hist>>

Parent == (\E p \in Number : Fork(p)) \/ ForkFails \/ Assign \/ Wait \/ Check \/ Sleep \/ DoExit
Child(p) == ChildRuns(p) \/ ChildReturns(p) \/ ChildTerminated(p)

TaskNext ==
    \/ Parent \/ WaitFails \/ do_signal \/ Killed
    \/ \E p \in Number : Child(p) \/ ChildSignalled(p) \/ Stranger(p)

TaskSpec == TaskInit /\ [][TaskNext]_taskVars

(* The parent runs and a signal that was sent arrives.  func need not return. *)
TaskFairSpec ==
    /\ TaskSpec
    /\ WF_taskVars(Parent)
    /\ \A p \in Number : WF_taskVars(ChildRuns(p)) /\ WF_taskVars(ChildTerminated(p))

-----------------------------------------------------------------------------
TakesChildAlong ==
    left \in {"signal", "wait failed", "success"} =>
        leftAt = "assign" \/ \A p \in Number : Alive(p) => p \in termed

StraySignals == stray \subseteq {"check", "sleep", "fork", "assign", "window"}

(* A parent that leaves by a signal or a failed wait takes its child along: *)
(* unless it was caught between fork and the assignment (task.c:91-108).  A *)
(* process that is not the child is only sent SIGTERM while child_pid is    *)
(* out of date: after waitpid and until the next assignment, where the loop *)
(* does not reset it (task.c:119-128), or by a child that has a copy.       *)
SignalsItsChild == TakesChildAlong /\ StraySignals

(* The inductive invariant behind it.                                       *)
TaskTypeOK ==
    /\ ppc \in {"fork", "assign", "wait", "check", "sleep", "do_exit", "gone"}
    /\ child_pid \in Number \cup {NoPid} /\ pid \in Number \cup {NoPid}
    /\ copy \in [Number -> Number \cup {NoPid}]
    /\ proc \in [Number -> {"none", "window", "run", "zombie", "stranger"}]
    /\ status \in [Number -> {"zero", "failed", "killed"}]
    /\ pid_file \in BOOLEAN

(* There is a child from its fork until the parent has waited for it, known *)
(* by the local pid, and no other; once the parent is gone there may be one *)
(* more end to be reaped.  SIGTERM is only under way to what lives.         *)
OneChild ==
    /\ ppc \in {"assign", "wait"} =>
          /\ pid \in Number /\ proc[pid] \in {"window", "run", "zombie"}
          /\ \A p \in Number \ {pid} : proc[p] \in {"none", "stranger"}
    /\ ppc \in {"fork", "check", "sleep", "do_exit"} =>
          \A p \in Number : proc[p] \in {"none", "stranger"}
    /\ termed \subseteq {p \in Number : Alive(p)}

(* child_pid is the child's while the parent waits, and nobody's when the   *)
(* parent leaves with success.                                              *)
KnowsChild ==
    /\ ppc = "wait" => child_pid = pid
    /\ ppc = "do_exit" => child_pid = NoPid
    /\ ppc # "gone" => left = ""

TaskInv == TaskTypeOK /\ OneChild /\ KnowsChild /\ TakesChildAlong /\ StraySignals

(* Every end of a child has its consequence: the parent ends after a 0, and *)
(* anything else is followed by another child, or by the parent's own end.  *)
EveryEndAnswered ==
    /\ (\E p \in Number : proc[p] = "zombie" /\ status[p] = "zero") ~> (ppc = "gone")
    /\ (\E p \in Number : proc[p] = "zombie" /\ status[p] # "zero")
           ~> (ppc = "gone" \/ \E q \in Number : Alive(q))
=============================================================================
