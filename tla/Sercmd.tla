--------------------------------- MODULE Sercmd --------------------------------
(***************************************************************************)
(* app/sercmd: servers that own a datagram socket at one path, and clients *)
(* that send a command from a socket of their own, wait for one event and  *)
(* leave.  A server quits through a message to itself.  What happens to    *)
(* bytes is ComMsg's subject; here a datagram is a request or an answer.   *)
(***************************************************************************)
EXTENDS Sequences, Naturals, FiniteSets

CONSTANTS
    Server,     \* server processes, each started at most once
    Pid,        \* numbers of client processes; they are used again
    Command,    \* "quit", "restart", "list", ...
    QueueLen,   \* datagrams a socket holds
    MaxRuns,    \* bound on the client processes of each number
    NULL

SercmdAssumption ==
    /\ NULL \notin Server \cup Pid
    /\ QueueLen \in Nat \ {0} /\ MaxRuns \in [Pid -> Nat]

VARIABLES
    path,       \* the server whose socket is at CLIENT_TEMP_UN_FILE
    spc,        \* each server: "off", "access", "unlink", "bind", "wait", "read", "gone"
    try,        \* the local of open_listen_unix_socket
    queue,      \* the requests in its socket
    inner,      \* quit messages in its pipe
    evs,        \* the events epoll_wait returned and that are not dealt with
    cpc,        \* each client: "none", "connect", "send", "wait" or "unlink"
    run,        \* how many clients the number has had
    file,       \* client_file: the run whose socket is bound there, 0 if none
    link,       \* the server a client is connected to
    cmd,        \* its command
    inbox,      \* the answers in its socket
    quitting    \* history: servers that have dealt with a quit

servers == <<path, spc, try, queue, inner, evs>>
clients == <<cpc, run, file, link, cmd, inbox>>
vars == <<servers, clients, quitting>>

Init ==
    /\ path = NULL
    /\ spc = [s \in Server |-> "off"]
    /\ try = [s \in Server |-> 3]
    /\ queue = [s \in Server |-> <<>>]
    /\ inner = [s \in Server |-> 0]
    /\ evs = [s \in Server |-> {}]
    /\ cpc = [p \in Pid |-> "none"]
    /\ run = [p \in Pid |-> 0]
    /\ file = [p \in Pid |-> 0]
    /\ link = [p \in Pid |-> NULL]
    /\ cmd = [p \in Pid |-> NULL]
    /\ inbox = [p \in Pid |-> <<>>]
    /\ quitting = {}

Running(s) == spc[s] \in {"wait", "read"}

-----------------------------------------------------------------------------
(* open_listen_unix_socket: whoever owns the path is pushed aside. *)
Look(s) ==
    /\ IF path = NULL
       THEN spc' = [spc EXCEPT ![s] = "bind"] /\ UNCHANGED try
       ELSE IF try[s] > 0
       THEN /\ try' = [try EXCEPT ![s] = @ - 1]
            /\ spc' = [spc EXCEPT ![s] = "unlink"]
       ELSE spc' = [spc EXCEPT ![s] = "gone"] /\ UNCHANGED try
    /\ UNCHANGED <<path, queue, inner, evs, clients, quitting>>

Start(s) == spc[s] = "off" /\ Look(s)
Access(s) == spc[s] = "access" /\ Look(s)

(* sleep(1), unlink *)
Unlink(s) ==
    /\ spc[s] = "unlink"
    /\ path' = NULL
    /\ spc' = [spc EXCEPT ![s] = "access"]
    /\ UNCHANGED <<try, queue, inner, evs, clients, quitting>>

Bind(s) ==
    /\ spc[s] = "bind"
    /\ IF path = NULL
       THEN path' = s /\ spc' = [spc EXCEPT ![s] = "wait"]
       ELSE spc' = [spc EXCEPT ![s] = "gone"] /\ UNCHANGED path
    /\ UNCHANGED <<try, queue, inner, evs, clients, quitting>>

-----------------------------------------------------------------------------
(* event_loop: epoll_wait returns every descriptor that can be read, and the *)
(* loop deals with each of them once.                                        *)
Ready(s) == (IF queue[s] # <<>> THEN {"outer"} ELSE {})
                \cup (IF inner[s] > 0 THEN {"inner"} ELSE {})

EpollWait(s) ==
    /\ spc[s] = "wait"
    /\ Ready(s) # {}
    /\ evs' = [evs EXCEPT ![s] = Ready(s)]
    /\ spc' = [spc EXCEPT ![s] = "read"]
    /\ UNCHANGED <<path, try, queue, inner, clients, quitting>>

Dealt(s, e) ==
    /\ e \in evs[s]
    /\ evs' = [evs EXCEPT ![s] = @ \ {e}]
    /\ spc' = [spc EXCEPT ![s] = IF evs[s] = {e} THEN "wait" ELSE "read"]

(* The answer goes to the address the request came from; it is lost when no *)
(* process has a socket there, and cmsg_deal_cmd_req does not mind.          *)
Answered(m) ==
    inbox' = [inbox EXCEPT ![m.pid] =
        IF cpc[m.pid] # "none" /\ file[m.pid] = run[m.pid]
        THEN Append(@, m) ELSE @]

(* Mutant: the answer to a quit is left to the exit. *)
ReadOuterMute(s) ==
    LET m == Head(queue[s]) IN
    /\ spc[s] = "read"
    /\ Dealt(s, "outer")
    /\ queue' = [queue EXCEPT ![s] = Tail(@)]
    /\ inner' = [inner EXCEPT ![s] = IF m.cmd = "quit" THEN @ + 1 ELSE @]
    /\ IF m.cmd = "quit" THEN UNCHANGED inbox ELSE Answered(m)
    /\ quitting' = IF m.cmd = "quit" THEN quitting \cup {s} ELSE quitting
    /\ UNCHANGED <<path, try, cpc, run, file, link, cmd>>

(* cmsg_deal_cmd_req: cmd_quit writes to the pipe, the other commands return *)
(* 0 and have no effect on the server; then the answer is sent.              *)
ReadOuter(s) ==
    LET m == Head(queue[s]) IN
    /\ spc[s] = "read"
    /\ Dealt(s, "outer")
    /\ queue' = [queue EXCEPT ![s] = Tail(@)]
    /\ inner' = [inner EXCEPT ![s] = IF m.cmd = "quit" THEN @ + 1 ELSE @]
    /\ Answered(m)
    /\ quitting' = IF m.cmd = "quit" THEN quitting \cup {s} ELSE quitting
    /\ UNCHANGED <<path, try, cpc, run, file, link, cmd>>

(* Mutant: the message is taken and the process goes on. *)
ReadInnerReturns(s) ==
    /\ spc[s] = "read"
    /\ Dealt(s, "inner")
    /\ inner' = [inner EXCEPT ![s] = 0]
    /\ UNCHANGED <<path, try, queue, clients, quitting>>

(* cmsg_deal_quit: exit(0).  The socket's file stays. *)
ReadInner(s) ==
    /\ spc[s] = "read"
    /\ "inner" \in evs[s]
    /\ spc' = [spc EXCEPT ![s] = "gone"]
    /\ evs' = [evs EXCEPT ![s] = {}]
    /\ UNCHANGED <<path, try, queue, inner, clients, quitting>>

ServerStep(s) ==
    \/ Access(s) \/ Unlink(s) \/ Bind(s)
    \/ EpollWait(s) \/ ReadOuter(s) \/ ReadInner(s)

-----------------------------------------------------------------------------
(* Mutant: an old file is removed first. *)
ClientRebind(p) ==
    /\ cpc[p] = "none"
    /\ run[p] < MaxRuns[p]
    /\ path # NULL
    /\ run' = [run EXCEPT ![p] = @ + 1]
    /\ file' = [file EXCEPT ![p] = run'[p]]
    /\ cpc' = [cpc EXCEPT ![p] = "connect"]
    /\ \E c \in Command : cmd' = [cmd EXCEPT ![p] = c]
    /\ UNCHANGED <<servers, link, inbox, quitting>>

(* open_connect_unix_socket: access and bind, which fails when the file of   *)
(* an earlier process of the same number is still there.                     *)
ClientBind(p) ==
    /\ cpc[p] = "none"
    /\ run[p] < MaxRuns[p]
    /\ run' = [run EXCEPT ![p] = @ + 1]
    /\ IF path # NULL /\ file[p] = 0
       THEN /\ file' = [file EXCEPT ![p] = run'[p]]
            /\ cpc' = [cpc EXCEPT ![p] = "connect"]
            /\ \E c \in Command : cmd' = [cmd EXCEPT ![p] = c]
       ELSE UNCHANGED <<file, cpc, cmd>>
    /\ UNCHANGED <<servers, link, inbox, quitting>>

(* The process is over; its socket goes, its file only by the unlink. *)
Ends(p) ==
    /\ cpc' = [cpc EXCEPT ![p] = "none"]
    /\ link' = [link EXCEPT ![p] = NULL]
    /\ cmd' = [cmd EXCEPT ![p] = NULL]
    /\ inbox' = [inbox EXCEPT ![p] = <<>>]
    /\ UNCHANGED <<servers, run, quitting>>

ClientConnect(p) ==
    /\ cpc[p] = "connect"
    /\ IF path # NULL /\ Running(path)
       THEN /\ link' = [link EXCEPT ![p] = path]
            /\ cpc' = [cpc EXCEPT ![p] = "send"]
            /\ UNCHANGED <<servers, run, file, cmd, inbox, quitting>>
       ELSE Ends(p) /\ UNCHANGED file

(* main of cmdline mode: what cmsg_send_obj returns is not looked at. *)
ClientSend(p) ==
    /\ cpc[p] = "send"
    /\ IF Running(link[p])
       THEN /\ Len(queue[link[p]]) < QueueLen
            /\ queue' = [queue EXCEPT ![link[p]] =
                            Append(@, [pid |-> p, run |-> run[p], cmd |-> cmd[p]])]
       ELSE UNCHANGED queue
    /\ cpc' = [cpc EXCEPT ![p] = "wait"]
    /\ UNCHANGED <<path, spc, try, inner, evs, run, file, link, cmd, inbox, quitting>>

(* One round of event_loop, without a timeout. *)
ClientRead(p) ==
    /\ cpc[p] = "wait"
    /\ inbox[p] # <<>>
    /\ inbox' = [inbox EXCEPT ![p] = Tail(@)]
    /\ cpc' = [cpc EXCEPT ![p] = "unlink"]
    /\ UNCHANGED <<servers, run, file, link, cmd, quitting>>

ClientUnlink(p) ==
    /\ cpc[p] = "unlink"
    /\ file' = [file EXCEPT ![p] = 0]
    /\ Ends(p)

(* ^C *)
ClientKilled(p) ==
    /\ cpc[p] # "none"
    /\ Ends(p)
    /\ UNCHANGED file

ClientStep(p) == ClientConnect(p) \/ ClientSend(p) \/ ClientRead(p) \/ ClientUnlink(p)

Next ==
    \/ \E s \in Server : Start(s) \/ ServerStep(s)
    \/ \E p \in Pid : ClientBind(p) \/ ClientStep(p) \/ ClientKilled(p)

Spec == Init /\ [][Next]_vars

(* Processes that run take their steps.  Nobody has to start or be killed. *)
FairSpec ==
    /\ Spec
    /\ \A s \in Server : WF_vars(ServerStep(s))
    /\ \A p \in Pid : WF_vars(ClientStep(p))

-----------------------------------------------------------------------------
(* An answer reaches the process that asked and none that got its number    *)
(* later: the file a killed client leaves behind keeps the number's next     *)
(* client from binding (com_msg.c:80-83).                                    *)
AnswerForOwnRequest ==
    \A p \in Pid : \A i \in 1..Len(inbox[p]) :
        inbox[p][i].run = run[p] /\ inbox[p][i].cmd = cmd[p]

(* A client that waits has its request in the server's socket or an answer   *)
(* in its own, and one only; otherwise its server has exited, and it waits   *)
(* for ever.                                                                 *)
NoClientForgotten ==
    \A p \in Pid : cpc[p] = "wait" /\ Running(link[p]) =>
        LET asked == {i \in 1..Len(queue[link[p]]) :
                         queue[link[p]][i].pid = p /\ queue[link[p]][i].run = run[p]}
        IN Cardinality(asked) + Len(inbox[p]) = 1

(* The inductive invariant behind the two.                                  *)
Request == [pid : Pid, run : Nat, cmd : Command]

TypeOK ==
    /\ path \in Server \cup {NULL}
    /\ spc \in [Server -> {"off", "access", "unlink", "bind", "wait", "read", "gone"}]
    /\ queue \in [Server -> Seq(Request)]
    /\ inbox \in [Pid -> Seq(Request)]
    /\ cpc \in [Pid -> {"none", "connect", "send", "wait", "unlink"}]
    /\ run \in [Pid -> Nat] /\ file \in [Pid -> Nat]
    /\ link \in [Pid -> Server \cup {NULL}]
    /\ cmd \in [Pid -> Command \cup {NULL}]
    /\ evs \in [Server -> SUBSET {"outer", "inner"}]

(* A client that lives owns the file of its number; it is connected from    *)
(* "send" on, to a server that runs or has run; the loop only reads from a  *)
(* socket that has something.                                               *)
OwnsFile ==
    /\ \A p \in Pid : cpc[p] # "none" =>
          /\ file[p] = run[p] /\ run[p] # 0
          /\ cmd[p] \in Command
          /\ cpc[p] # "connect" => link[p] \in Server /\ spc[link[p]] \in {"wait", "read", "gone"}
    /\ \A s \in Server : "outer" \in evs[s] => queue[s] # <<>>

RequestAt(s, i, p) == i \in 1..Len(queue[s]) /\ queue[s][i].pid = p

(* A request in a socket belongs to the process that left the file there,   *)
(* whether it still waits or has been killed, and no number has two.        *)
OneRequest ==
    /\ \A s \in Server, p \in Pid, i \in Nat : RequestAt(s, i, p) =>
          /\ queue[s][i].run = file[p] /\ file[p] # 0
          /\ inbox[p] = <<>>
          /\ \/ cpc[p] = "none"
             \/ cpc[p] = "wait" /\ link[p] = s /\ queue[s][i].cmd = cmd[p]
    /\ \A s, t \in Server, p \in Pid, i, j \in Nat :
          RequestAt(s, i, p) /\ RequestAt(t, j, p) => s = t /\ i = j

OneAnswer ==
    \A p \in Pid : inbox[p] # <<>> =>
        /\ cpc[p] = "wait" /\ Len(inbox[p]) = 1
        /\ inbox[p][1].run = run[p] /\ inbox[p][1].cmd = cmd[p]

Owed ==
    \A p \in Pid : cpc[p] = "wait" /\ Running(link[p]) =>
        inbox[p] # <<>> \/ \E i \in Nat : RequestAt(link[p], i, p)

IInv == TypeOK /\ OwnsFile /\ OneRequest /\ OneAnswer /\ Owed

(* A client is served or its server is gone, and a server that was told to   *)
(* quit goes, although clients keep coming.                                  *)
EveryClientServed ==
    /\ \A p \in Pid : (cpc[p] = "wait") ~> (cpc[p] # "wait" \/ spc[link[p]] = "gone")
    /\ []<>(\A s \in quitting : spc[s] = "gone")

=============================================================================
