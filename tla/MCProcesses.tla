------------------------------- MODULE MCProcesses -----------------------------
(* The supervisor, the servers with their clients, and a message context: a     *)
(* behaviour has one of the three systems, the others do not begin.             *)
EXTENDS Task, Sercmd, ComMsg, TLC

CONSTANTS p1, p2, s1, s2, a1, a2, c1, c2

VARIABLE which      \* the system that runs

(* Two process numbers: the child's, and one that is free or taken when it is   *)
(* replaced.  The children come one after the other without end.                *)
MCNumber == {p1, p2}

(* Two servers, so that one takes the path from the other, and two client       *)
(* numbers, so that requests queue up behind a quit; one is used a second time. *)
MCServer == {s1, s2}
MCPid == {a1, a2}
MCCommand == {"quit", "list"}
MCRuns == (a1 :> 2) @@ (a2 :> 1)

(* Four messages from two senders, the largest as large as the cache and the    *)
(* smallest an empty one, over a pipe that holds more than the cache, so that   *)
(* reads cut headers and payloads and the cache is full and unmoved.            *)
MCPeer == {c1, c2}
MCPayload == {0, 1, 3}

ASSUME UserAssumption ==
    TaskAssumption /\ SercmdAssumption /\ ComMsgAssumption

allVars == <<which, taskVars, vars, msgVars>>

(* Where a system can begin in two ways it is given one while it does not run. *)
ProcessesInit ==
    /\ TaskInit /\ Init /\ MsgInit
    /\ which \in {"task", "sercmd", "msg"}
    /\ which # "task" => pid_file
    /\ which # "msg" => type = "inner"

InTask == which = "task" /\ UNCHANGED <<which, vars, msgVars>>
InSercmd == which = "sercmd" /\ UNCHANGED <<which, taskVars, msgVars>>
InMsg == which = "msg" /\ UNCHANGED <<which, taskVars, vars>>

ProcessesNext ==
    \/ InTask /\ TaskNext
    \/ InSercmd /\ Next
    \/ InMsg /\ MsgNext

(* The fairness of TaskFairSpec, of Sercmd's FairSpec and ComMsg's, each for    *)
(* the behaviours of its system.                                                *)
ProcessesFairSpec ==
    /\ ProcessesInit /\ [][ProcessesNext]_allVars
    /\ WF_allVars(InTask /\ Parent)
    /\ \A p \in {p1, p2} :
          WF_allVars(InTask /\ ChildRuns(p)) /\ WF_allVars(InTask /\ ChildTerminated(p))
    /\ \A s \in {s1, s2} : WF_allVars(InSercmd /\ ServerStep(s))
    /\ \A p \in {a1, a2} : WF_allVars(InSercmd /\ ClientStep(p))
    /\ WF_allVars(InMsg /\ MsgLoop)
================================================================================
