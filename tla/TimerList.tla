------------------------------- MODULE TimerList -------------------------------
(***************************************************************************)
(* The timers of src/timer_list.c in a process with one thread.  SIGALRM   *)
(* interrupts that thread between any two accesses and its handler, the    *)
(* tick, runs to its end, calling the timers' functions, which may create  *)
(* and discard timers themselves.                                          *)
(*                                                                         *)
(* Times are counted in parts of a second, `Second` of them to a second.   *)
(***************************************************************************)
EXTENDS LinkedList, Integers, FiniteSets

CONSTANTS
    Timer,      \* addresses malloc returns
    Root,       \* the address of g_head; Timer stands for the addresses of `next`
    Target,     \* the arguments cb
    Delay,      \* the delays callers ask for
    Second,
    Epoch,      \* the time of the first step
    MaxTime,    \* bound on the time
    NULL

TimerListAssumption ==
    /\ IsFiniteSet(Timer)
    /\ Root \notin Timer /\ NULL \notin Timer \cup {Root} \cup Target
    /\ Second \in Nat \ {0} /\ Delay \subseteq Nat
    /\ Epoch \in Nat /\ Epoch >= Second * Second    \* seconds exceed any tv_usec
    /\ MaxTime \in Nat /\ MaxTime >= Epoch

VARIABLES
    now,        \* gettimeofday
    started,    \* is_init: setitimer was called
    locker,     \* locker is held
    next,       \* the links: next[Root] is g_head
    node,       \* the other fields of each timer
    live,       \* the timers that are allocated
    pc,         \* where the program's thread is
    new, ppos,  \* locals of timer_list_create and __timer_list_add; ppos is also pos
    cb, exec,   \* arguments of timer_list_discard_target
    hpc,        \* where the handler is: "idle", "take", "call" or "readd"
    cur, hpos,  \* locals of the handler: its time, and ppos of its first loop
    timeout_list, called_nb,    \* the timers it took, and how many were looked at
    undefined,  \* freed memory was used, or a list has become a cycle
    intruded,   \* history: a tick has run while the interrupted thread held the lock
    asked,      \* history: what a returned discard that met it asked for: "no", "silent"
                \* or "exec"
    calls       \* history: how often a timer was called since it was discarded

main == <<pc, new, ppos, cb, exec>>
handler == <<hpc, cur, hpos, timeout_list, called_nb>>
history == <<asked, calls>>
listVars == <<now, started, locker, next, node, live, main, handler, undefined, intruded, history>>

(* What malloc returns is not initialised; exec_on_discard stays so. *)
Blank == [ts |-> 0, delay |-> 0, repeat |-> FALSE, cb |-> NULL,
          discard |-> FALSE, exec_on_discard |-> FALSE]

ListInit ==
    /\ now = Epoch
    /\ started = FALSE
    /\ locker = FALSE
    /\ next = [p \in Timer \cup {Root} |-> NULL]
    /\ node = [t \in Timer |-> Blank]
    /\ live = {}
    /\ pc = "idle" /\ new = NULL /\ ppos = Root /\ cb = NULL /\ exec = FALSE
    /\ hpc = "idle" /\ cur = 0 /\ hpos = Root /\ timeout_list = <<>> /\ called_nb = 0
    /\ undefined = FALSE
    /\ intruded = FALSE
    /\ asked = [t \in Timer |-> "no"]
    /\ calls = [t \in Timer |-> 0]

-----------------------------------------------------------------------------
(* timer_cmp adds seconds and microseconds apart and carries nothing. *)
Sec(n) == (n.ts \div Second) + (n.delay \div Second)
Frac(n) == (n.ts % Second) + (n.delay % Second)
NotAfter(m, n) == Sec(m) < Sec(n) \/ (Sec(m) = Sec(n) /\ Frac(m) <= Frac(n))

(* timer_cmp_tv(n, &val) <= 0.  The seconds are compared with tv_usec. *)
Expired(n, val) ==
    IF Sec(n) = val % Second THEN Frac(n) <= val % Second ELSE Sec(n) <= val \div Second

(* The time a timer asks for. *)
Due(n) == n.ts + n.delay

(* The places of a list: g_head, its timers, and the end. *)
Along(list, i) == IF i = 0 THEN Root ELSE IF i <= Len(list) THEN list[i] ELSE NULL

(* The links lead from g_head along the list, which is one of live timers. *)
Leads(f, list) == \A i \in 0..Len(list) : f[Along(list, i)] = Along(list, i + 1)
Chains(f, s) == {list \in SeqOf(s, Cardinality(s)) : Leads(f, list)}

(* The timers reached from g_head, when none is freed and there is an end. *)
Sound == Chains(next, live) # {}
Chain == IF Sound THEN CHOOSE list \in Chains(next, live) : TRUE ELSE <<>>

(* __timer_list_add goes past the timers that are not in this set. *)
NoEarlier(t, n) == {e \in Timer : NotAfter(n[t], n[e])}

(* The links after __timer_list_add(&g_head, t) that nothing interrupts. *)
Added(t, n) ==
    LET p == Along(Chain, Passed(Chain, NoEarlier(t, n)))
    IN [next EXCEPT ![t] = next[p], ![p] = t]

(* timer_list_alloc: what a timer may be when it is created. *)
Fresh == [ts : {now}, delay : Delay, repeat : BOOLEAN, cb : Target,
          discard : {FALSE}, exec_on_discard : BOOLEAN]

-----------------------------------------------------------------------------
(* The program's thread.  It stands still while the handler runs. *)
Runs(label) == hpc = "idle" /\ pc = label

Undefined ==
    /\ undefined' = TRUE
    /\ UNCHANGED <<now, started, locker, next, node, live, main, handler, intruded, history>>

timer_list_start ==
    /\ Runs("idle")
    /\ ~started
    /\ started' = TRUE
    /\ UNCHANGED <<now, locker, next, node, live, main, handler, undefined, intruded, history>>

(* timer_list_create: the allocation, and pthread_mutex_lock. *)
Create(t) ==
    /\ Runs("idle")
    /\ t \notin live
    /\ live' = live \cup {t}
    /\ \E n \in Fresh : node' = [node EXCEPT ![t] = n]
    /\ new' = t
    /\ pc' = "add lock"
    /\ UNCHANGED <<now, started, locker, next, ppos, cb, exec, handler, undefined,
                   intruded, history>>

AddLock ==
    /\ Runs("add lock")
    /\ ~locker
    /\ locker' = TRUE
    /\ ppos' = Root
    /\ pc' = "add walk"
    /\ UNCHANGED <<now, started, next, node, live, new, cb, exec, handler, undefined,
                   intruded, history>>

(* One round of the loop of __timer_list_add: compare, or go on. *)
AddWalk ==
    /\ Runs("add walk")
    /\ LET pos == next[ppos] IN
       \/ /\ ppos \notin live \cup {Root} \/ pos \notin live \cup {NULL}
          /\ Undefined
       \/ /\ ppos \in live \cup {Root}
          /\ pos = NULL \/ (pos \in live /\ NotAfter(node[new], node[pos]))
          /\ pc' = "add next"
          /\ UNCHANGED <<now, started, locker, next, node, live, new, ppos, cb, exec,
                         handler, undefined, intruded, history>>
       \/ /\ ppos \in live \cup {Root}
          /\ pos \in live
          /\ ~NotAfter(node[new], node[pos])
          /\ ppos' = pos
          /\ UNCHANGED <<now, started, locker, next, node, live, pc, new, cb, exec,
                         handler, undefined, intruded, history>>

(* new->next = *p, and *p = new. *)
AddNext ==
    /\ Runs("add next")
    /\ IF ppos \in live \cup {Root}
       THEN /\ next' = [next EXCEPT ![new] = next[ppos]]
            /\ pc' = "add link"
            /\ UNCHANGED <<now, started, locker, node, live, new, ppos, cb, exec, handler,
                           undefined, intruded, history>>
       ELSE Undefined

AddLink ==
    /\ Runs("add link")
    /\ IF ppos \in live \cup {Root}
       THEN /\ next' = [next EXCEPT ![ppos] = new]
            /\ pc' = "unlock"
            /\ UNCHANGED <<now, started, locker, node, live, new, ppos, cb, exec, handler,
                           undefined, intruded, history>>
       ELSE Undefined

(* timer_list_discard_target *)
Discard(c, e) ==
    /\ Runs("idle")
    /\ cb' = c
    /\ exec' = e
    /\ pc' = "discard lock"
    /\ UNCHANGED <<now, started, locker, next, node, live, new, ppos, handler, undefined,
                   intruded, history>>

DiscardLock ==
    /\ Runs("discard lock")
    /\ ~locker
    /\ locker' = TRUE
    /\ ppos' = next[Root]
    /\ pc' = "discard walk"
    /\ UNCHANGED <<now, started, next, node, live, new, cb, exec, handler, undefined,
                   intruded, history>>

(* pos->discard = 1, or the next timer. *)
DiscardWalk ==
    /\ Runs("discard walk")
    /\ \/ /\ ppos = NULL
          /\ pc' = "unlock"
          /\ UNCHANGED <<now, started, locker, next, node, live, new, ppos, cb, exec,
                         handler, undefined, intruded, history>>
       \/ /\ ppos \in live
          /\ node[ppos].cb = cb
          /\ node' = [node EXCEPT ![ppos].discard = TRUE]
          /\ pc' = "discard exec"
          /\ UNCHANGED <<now, started, locker, next, live, new, ppos, cb, exec, handler,
                         undefined, intruded, history>>
       \/ /\ ppos \in live
          /\ node[ppos].cb # cb
          /\ ppos' = next[ppos]
          /\ UNCHANGED <<now, started, locker, next, node, live, pc, new, cb, exec,
                         handler, undefined, intruded, history>>
       \/ ppos \in Timer \ live /\ Undefined

(* pos->exec_on_discard = exec_on_discard, and pos = pos->next. *)
DiscardExec ==
    /\ Runs("discard exec")
    /\ IF ppos \in live
       THEN /\ node' = [node EXCEPT ![ppos].exec_on_discard = exec]
            /\ ppos' = next[ppos]
            /\ pc' = "discard walk"
            /\ UNCHANGED <<now, started, locker, next, live, new, cb, exec, handler,
                           undefined, intruded, history>>
       ELSE Undefined

AskedOf(e) == IF e THEN "exec" ELSE "silent"

(* The list's timers of a target have been asked to go. *)
Ask(c, e) ==
    LET of == {t \in ToSet(Chain) : node[t].cb = c} IN
    /\ asked' = [t \in Timer |-> IF t \in of THEN AskedOf(e) ELSE asked[t]]
    /\ calls' = [t \in Timer |-> IF t \in of THEN 0 ELSE calls[t]]

(* pthread_mutex_unlock, and the return. *)
Unlock ==
    /\ Runs("unlock")
    /\ locker' = FALSE
    /\ pc' = "idle"
    /\ new' = NULL /\ ppos' = Root /\ cb' = NULL /\ exec' = FALSE
    /\ IF cb # NULL THEN Ask(cb, exec) ELSE UNCHANGED history
    /\ UNCHANGED <<now, started, next, node, live, handler, undefined, intruded>>

MainStep ==
    \/ AddLock \/ AddWalk \/ AddNext \/ AddLink
    \/ DiscardLock \/ DiscardWalk \/ DiscardExec \/ Unlock

-----------------------------------------------------------------------------
(* timer_list_tick.  pthread_mutex_trylock reports a lock that is taken with *)
(* a positive number, so the handler never returns at line 118.  On a broken *)
(* list its loop uses freed memory or does not end.                          *)
Tick ==
    /\ hpc = "idle"
    /\ started
    /\ intruded' = (intruded \/ locker)
    /\ IF Sound
       THEN /\ cur' = now
            /\ locker' = TRUE
            /\ hpos' = Root
            /\ hpc' = "take"
            /\ UNCHANGED undefined
       ELSE /\ undefined' = TRUE
            /\ UNCHANGED <<locker, hpc, cur, hpos>>
    /\ UNCHANGED <<now, started, next, node, live, main, timeout_list, called_nb, history>>

(* The timers a tick takes off the list. *)
Takes(t) == node[t].discard \/ Expired(node[t], cur)

(* The loop is left, and the lock with it. *)
Taken ==
    /\ locker' = FALSE
    /\ hpos' = Root
    /\ called_nb' = 0
    /\ hpc' = IF timeout_list = <<>> THEN "idle" ELSE "call"
    /\ UNCHANGED <<next, timeout_list>>

(* The timer at *ppos is moved to timeout_list. *)
Take(t) ==
    /\ next' = [next EXCEPT ![hpos] = next[t]]
    /\ timeout_list' = AddBefore(timeout_list, NoEarlier(t, node), t)
    /\ UNCHANGED <<locker, hpos, called_nb, hpc>>

(* Mutant: the loop ends at the first timer that is not due. *)
TickTakeSorted ==
    LET t == next[hpos] IN
    /\ hpc = "take"
    /\ \/ ~(t # NULL /\ Takes(t)) /\ Taken
       \/ t # NULL /\ Takes(t) /\ Take(t)
    /\ UNCHANGED <<now, started, node, live, main, cur, undefined, intruded, history>>

(* One round of the loop under the lock. *)
TickTake ==
    LET t == next[hpos] IN
    /\ hpc = "take"
    /\ \/ t = NULL /\ Taken
       \/ t # NULL /\ Takes(t) /\ Take(t)
       \/ /\ t # NULL /\ ~Takes(t)
          /\ hpos' = t
          /\ UNCHANGED <<next, locker, timeout_list, called_nb, hpc>>
    /\ UNCHANGED <<now, started, node, live, main, cur, undefined, intruded, history>>

(* What a timer's function does: nothing, timer_list_create, or              *)
(* timer_list_discard_target, which passes over the timers the tick took.    *)
CallbackNothing == UNCHANGED <<next, node, live, asked>>

CallbackCreate(t) ==
    /\ t \notin live
    /\ live' = live \cup {t}
    /\ \E n \in Fresh : node' = [node EXCEPT ![t] = n]
    /\ next' = Added(t, node')
    /\ UNCHANGED asked

CallbackDiscard(c, e) ==
    LET of == {t \in ToSet(Chain) : node[t].cb = c} IN
    /\ node' = [t \in Timer |-> IF t \in of
                                THEN [node[t] EXCEPT !.discard = TRUE, !.exec_on_discard = e]
                                ELSE node[t]]
    /\ asked' = [t \in Timer |-> IF t \in of THEN AskedOf(e) ELSE asked[t]]
    /\ UNCHANGED <<next, live>>

(* Mutant: the call does not ask for the discard. *)
CallsAll(t) == TRUE

(* The next timer of timeout_list is called, unless it is discarded. *)
Calls(t) == ~node[t].discard \/ node[t].exec_on_discard

CallNext ==
    LET t == timeout_list[called_nb + 1] IN
    /\ hpc = "call"
    /\ IF Calls(t)
       THEN /\ calls' = [calls EXCEPT ![t] = IF asked[t] = "no" \/ @ = 2 THEN @ ELSE @ + 1]
            /\ \/ CallbackNothing
               \/ \E u \in Timer : CallbackCreate(u)
               \/ \E c \in Target, e \in BOOLEAN : CallbackDiscard(c, e)
       ELSE CallbackNothing /\ UNCHANGED calls
    /\ called_nb' = called_nb + 1
    /\ hpc' = IF called_nb' = Len(timeout_list) THEN "readd" ELSE "call"
    /\ UNCHANGED <<now, started, locker, main, cur, hpos, timeout_list, undefined, intruded>>

(* Mutant: a timer is added again before its time is set. *)
ReaddEarly(t) ==
    /\ node' = [node EXCEPT ![t].ts = cur]
    /\ next' = Added(t, node)
    /\ UNCHANGED <<live, history>>

(* tmp->ts = cur, and timer_list_add(tmp). *)
Readd(t) ==
    /\ node' = [node EXCEPT ![t].ts = cur]
    /\ next' = Added(t, node')
    /\ UNCHANGED <<live, history>>

(* free(tmp) *)
Free(t) ==
    /\ live' = live \ {t}
    /\ node' = [node EXCEPT ![t] = Blank]
    /\ next' = [next EXCEPT ![t] = NULL]
    /\ asked' = [asked EXCEPT ![t] = "no"]
    /\ calls' = [calls EXCEPT ![t] = 0]

(* The last loop: a timer that repeats is added again, others are freed. *)
ReaddNext ==
    LET t == Head(timeout_list) IN
    /\ hpc = "readd"
    /\ timeout_list' = Tail(timeout_list)
    /\ hpc' = IF timeout_list' = <<>> THEN "idle" ELSE "readd"
    /\ IF ~node[t].discard /\ node[t].repeat THEN Readd(t) ELSE Free(t)
    /\ UNCHANGED <<now, started, locker, main, cur, hpos, called_nb, undefined, intruded>>

HandlerStep == TickTake \/ CallNext \/ ReaddNext

-----------------------------------------------------------------------------
Advance ==
    /\ now < MaxTime
    /\ now' = now + 1
    /\ UNCHANGED <<started, locker, next, node, live, main, handler, undefined, intruded,
                   history>>

Call ==
    \/ timer_list_start
    \/ \E t \in Timer : Create(t)
    \/ \E c \in Target, e \in BOOLEAN : Discard(c, e)

ListNext ==
    /\ ~undefined
    /\ Call \/ MainStep \/ Tick \/ HandlerStep \/ Advance

ListSpec == ListInit /\ [][ListNext]_listVars

-----------------------------------------------------------------------------
Labels == {"idle", "add lock", "add walk", "add next", "add link", "unlock",
           "discard lock", "discard walk", "discard exec"}
Fields == [ts : 0..MaxTime, delay : Delay \cup {0}, repeat : BOOLEAN, cb : Target \cup {NULL},
           discard : BOOLEAN, exec_on_discard : BOOLEAN]

ListTypeOK ==
    /\ now \in Epoch..MaxTime /\ cur \in 0..MaxTime
    /\ {started, locker, undefined, intruded, exec} \subseteq BOOLEAN
    /\ next \in [Timer \cup {Root} -> Timer \cup {NULL}]
    /\ node \in [Timer -> Fields]
    /\ live \subseteq Timer
    /\ pc \in Labels /\ hpc \in {"idle", "take", "call", "readd"}
    /\ new \in Timer \cup {NULL} /\ ppos \in Timer \cup {Root, NULL}
    /\ cb \in Target \cup {NULL}
    /\ hpos \in Timer \cup {Root} /\ timeout_list \in Seq(Timer) /\ called_nb \in Nat
    /\ asked \in [Timer -> {"no", "silent", "exec"}]
    /\ calls \in [Timer -> 0..2]

(* No timer is lost, doubled or freed too early, and the list stays sorted,  *)
(* although the handler and its callbacks rewrite it: unless a tick has run  *)
(* inside a section under the lock, which nothing prevents                   *)
(* (timer_list.c:115).  The timers to readd wait in timeout_list.            *)
Waiting == ToSet(timeout_list)
Adding == IF pc \in {"add lock", "add walk", "add next", "add link"} THEN {new} ELSE {}

AllThere ==
    /\ live = ToSet(Chain) \cup Waiting \cup Adding
    /\ ToSet(Chain) \cap (Waiting \cup Adding) = {} /\ Waiting \cap Adding = {}
InOrder(list, n) == \A i, j \in 1..Len(list) : i < j => NotAfter(n[list[i]], n[list[j]])
Sorted == InOrder(Chain, node)

ListIntact == ListTypeOK /\ (~intruded => ~undefined /\ Sound /\ AllThere /\ Sorted)

(* Once timer_list_discard_target has returned, the target's timers that it *)
(* met on g_head are called no more, or once when the caller asked for that: *)
(* unless a tick intruded.                                                   *)
DiscardedStaySilent ==
    \A t \in live : ~intruded => calls[t] <= (CASE asked[t] = "exec" -> 1
                                               [] OTHER -> 0)

(* A tick leaves no timer behind that should be called or freed.  The list  *)
(* is sorted, yet the loop has to look at all of it.  And no call is too    *)
(* early by more than the two parts of a second that timer_cmp_tv leaves    *)
(* out, the creation time's and the delay's.                                *)
TakesAllDue ==
    hpc = "take" /\ hpc' # "take" =>
        \A t \in ToSet(Chain') : ~node'[t].discard /\ Due(node'[t]) > cur'
EarlyByTwoFractions ==
    hpc' = "call" => \A t \in ToSet(timeout_list') :
                        node'[t].discard \/ Due(node'[t]) - cur' <= 2 * (Second - 1)
TicksOnTime == [][TakesAllDue /\ EarlyByTwoFractions]_listVars

(* timer_list.c:116, "try locker failed, return": a tick leaves a list      *)
(* alone that the interrupted thread is working on.                         *)
TickReturnsWhenLocked == ~intruded

-----------------------------------------------------------------------------
(* The inductive invariant.  What the handler relies on it has found itself, *)
(* whatever it interrupted.                                                  *)
Early(t) == node[t].discard \/ Due(node[t]) - cur <= 2 * (Second - 1)

InHandler ==
    /\ \A t \in live : node[t].ts >= Epoch /\ node[t].cb # NULL
    /\ hpc = "idle" => timeout_list = <<>>
    /\ hpc # "idle" =>
          /\ Sound
          /\ cur \in Epoch..now
          /\ IsInjective(timeout_list) /\ Waiting \subseteq live \ ToSet(Chain)
    /\ hpc = "take" =>
          \E n \in 0..Len(Chain) : hpos = Along(Chain, n) /\ \A i \in 1..n : ~Takes(Chain[i])
    /\ hpc \in {"take", "call"} => \A t \in Waiting : Early(t)
    /\ hpc = "call" => called_nb < Len(timeout_list)
    /\ hpc = "readd" => timeout_list # <<>>

(* The place __timer_list_add has come to in the list. *)
AtPlace ==
    \E n \in 0..Len(Chain) :
        /\ ppos = Along(Chain, n)
        /\ \A i \in 1..n : ~NotAfter(node[new], node[Chain[i]])
        /\ pc # "add walk" /\ n < Len(Chain) => NotAfter(node[new], node[Chain[n + 1]])
        /\ pc = "add link" => next[new] = next[ppos]

(* The timers timer_list_discard_target has passed carry its marks. *)
Marked(t) == node[t].cb = cb => node[t].discard /\ node[t].exec_on_discard = exec
Marking ==
    \E n \in 1..Len(Chain) + 1 :
        /\ ppos = Along(Chain, n)
        /\ \A i \in 1..n - 1 : Marked(Chain[i])
        /\ pc = "discard exec" => n <= Len(Chain) /\ node[ppos].cb = cb /\ node[ppos].discard

InSection == pc \in Labels \ {"idle", "add lock", "discard lock"}

Sections ==
    /\ InSection => locker /\ hpc = "idle"
    /\ Adding # {} => new \in Timer /\ asked[new] = "no" /\ cb = NULL
    /\ pc \in {"add walk", "add next", "add link"} => AtPlace
    /\ pc \in {"discard walk", "discard exec"} => Marking
    /\ pc = "idle" => cb = NULL
    /\ pc \in {"discard lock", "discard walk", "discard exec"} => cb # NULL
    /\ pc = "unlock" /\ cb # NULL => \A t \in ToSet(Chain) : Marked(t)

(* A discard that has returned is seen in the timer, but where another one   *)
(* for it is under way; and only timers of this tick were called since then. *)
Promised ==
    \A t \in Timer :
        /\ asked[t] # "no" =>
              /\ t \in ToSet(Chain) \cup Waiting
              /\ node[t].discard
              /\ \/ node[t].exec_on_discard = (asked[t] = "exec")
                 \/ InSection /\ cb = node[t].cb
        /\ calls[t] # 0 =>
              /\ t \in Waiting /\ asked[t] = "exec" /\ calls[t] = 1
              /\ hpc = "take" => FALSE
              /\ hpc = "call" => \E i \in 1..called_nb : timeout_list[i] = t

Whole == ~undefined /\ Sound /\ AllThere /\ Sorted /\ Sections /\ Promised

ListInv == ListTypeOK /\ InHandler /\ (~intruded => Whole)
=============================================================================
