-------------------------------- MODULE MCTimers -------------------------------
(* The two kinds of timers, which share nothing: a behaviour uses one of them.  *)
EXTENDS TimerWheel, TimerList, TLC

CONSTANTS c1, t1, t2, n1, n2, n3

VARIABLE which      \* the timers in use

MCNode == {n1, n2, n3}

(* Three timers on a wheel of two slots: periods at, below and beyond one turn, *)
(* slots with timers of two turns, and a tick of each slot in a second turn.    *)
MCCycle == {0, 1, 3}

(* Two timers over two seconds in halves: a delay below a second and one above. *)
MCTimer == {t1, t2}
MCTarget == {c1}
MCDelay == {1, 3}

ASSUME UserAssumption == WheelAssumption /\ TimerListAssumption

MCSymmetry == Permutations(MCNode) \cup Permutations(MCTimer)

TimersInit == Init /\ ListInit /\ which \in {"wheel", "list"}

TimersNext ==
    /\ \/ which = "wheel" /\ Next /\ UNCHANGED listVars
       \/ which = "list" /\ ListNext /\ UNCHANGED vars
    /\ UNCHANGED which

TimersSpec == TimersInit /\ [][TimersNext]_<<which, vars, listVars>>

(* Fields whose next use is an assignment: all of them in a freed timer, its    *)
(* time in one that is called, its period in one that does not repeat.          *)
Field(n) ==
    CASE state[n] \in {"new", "freed"} -> <<>>
      [] state[n] = "calling" ->
            <<is_repeat[n], IF is_repeat[n] THEN cycle[n] ELSE 0, is_deleted[n], callsLeft[n]>>
      [] OTHER ->
            <<is_repeat[n], IF is_repeat[n] THEN cycle[n] ELSE 0, is_deleted[n], callsLeft[n],
              tigger_ts[n], IF state[n] = "linked" THEN latest[n] ELSE 0>>

WheelView == <<cur_ts, solts, state, tpc, tigger, born, [n \in MCNode |-> Field(n)]>>

(* The handler's locals mean nothing between ticks, the history little after    *)
(* an intrusion, and nothing at all after undefined behaviour.                  *)
ListView ==
    IF undefined THEN <<>>
    ELSE <<now, started, locker, next, node, live, main, hpc, intruded,
           IF hpc = "idle" THEN <<>> ELSE <<cur, hpos, timeout_list, called_nb>>,
           IF intruded THEN <<>> ELSE history>>

MCView == <<which, WheelView, ListView>>
================================================================================
