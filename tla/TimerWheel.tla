------------------------------ MODULE TimerWheel ------------------------------
(***************************************************************************)
(* The timer wheel of src/timer_wheel.c.  One thread ticks; any thread may *)
(* add a timer or mark one as deleted.  A slot is only touched under its   *)
(* lock, so an insertion is a single action; a tick goes over a slot entry *)
(* by entry, since marking takes no lock.  cur_ts is read before the lock  *)
(* is taken.                                                               *)
(***************************************************************************)
EXTENDS LinkedList, Integers, FiniteSets

CONSTANTS
    Node,       \* the timers callers create, one after the other or at once
    Cycle,      \* the periods they ask for
    solt_nb,    \* number of slots
    MaxTs       \* bound on cur_ts

WheelAssumption ==
    /\ Cycle \subseteq Nat
    /\ solt_nb \in Nat \ {0}
    /\ MaxTs \in Nat

VARIABLES
    cur_ts,
    solts,      \* the list of each slot
    cycle, is_repeat, is_deleted, tigger_ts,    \* the fields of the timers
    state,      \* "new", "adding", "linked", "due", "calling", "readding" or "freed"
    tpc,        \* where the ticking thread is: "wait", "scan" (before the slot's lock), "sweep"
                \* (under it), "call", "done", "readd" or "destroyed"
    tigger,     \* tigger_head: the timers timer_wheel_tick has taken and will call
    born,       \* history: the timers in the order of their insertions
    latest,     \* history: the time of the scan that has to take the timer
    callsLeft   \* history: calls a timer may still see after timer_wheel_del, 0..2

fields == <<cycle, is_repeat, is_deleted, tigger_ts>>
hist == <<born, latest, callsLeft>>
vars == <<cur_ts, solts, fields, state, tpc, tigger, hist>>

Slot == 0..solt_nb - 1

Init ==
    /\ cur_ts = 0
    /\ solts = [i \in Slot |-> <<>>]
    /\ cycle = [n \in Node |-> 0]
    /\ is_repeat = [n \in Node |-> FALSE]
    /\ is_deleted = [n \in Node |-> FALSE]
    /\ tigger_ts = [n \in Node |-> 0]
    /\ state = [n \in Node |-> "new"]
    /\ tpc = "wait"
    /\ tigger = <<>>
    /\ born = <<>>
    /\ latest = [n \in Node |-> 0]
    /\ callsLeft = [n \in Node |-> 2]

-----------------------------------------------------------------------------
(* timer_wheel_add, up to the load of cur_ts in __timer_wheel_add. *)
Add(n) ==
    /\ state[n] = "new"
    /\ tpc # "destroyed"
    /\ \E c \in Cycle, r \in BOOLEAN :
          /\ cycle' = [cycle EXCEPT ![n] = c]
          /\ is_repeat' = [is_repeat EXCEPT ![n] = r]
          /\ tigger_ts' = [tigger_ts EXCEPT ![n] = cur_ts + c]
    /\ state' = [state EXCEPT ![n] = "adding"]
    /\ UNCHANGED <<cur_ts, solts, is_deleted, tpc, tigger, hist>>

(* The scan at its time, or, when that is over (the add read cur_ts before a *)
(* tick and got the lock after it, or the period is 0), the slot's next one. *)
ScanOf(n) ==
    IF cur_ts < tigger_ts[n] \/ (cur_ts = tigger_ts[n] /\ tpc = "scan")
    THEN tigger_ts[n] ELSE cur_ts + solt_nb

(* Mutant: a timer goes to the end of its slot. *)
InsertAtEnd(n) ==
    LET i == tigger_ts[n] % solt_nb IN
    /\ solts' = [solts EXCEPT ![i] = Append(@, n)]
    /\ state' = [state EXCEPT ![n] = "linked"]
    /\ born' = Append(born, n)
    /\ latest' = [latest EXCEPT ![n] = ScanOf(n)]

(* Mutant: equal times are passed. *)
InsertAfterEqual(n) ==
    LET i == tigger_ts[n] % solt_nb IN
    /\ solts' = [solts EXCEPT ![i] =
                    AddBefore(@, {p \in Node : tigger_ts[p] > tigger_ts[n]}, n)]
    /\ state' = [state EXCEPT ![n] = "linked"]
    /\ born' = Append(born, n)
    /\ latest' = [latest EXCEPT ![n] = ScanOf(n)]

(* The section of __timer_wheel_add under the slot's lock: before the first *)
(* timer that is not earlier.                                               *)
Insert(n) ==
    LET i == tigger_ts[n] % solt_nb IN
    /\ solts' = [solts EXCEPT ![i] =
                    AddBefore(@, {p \in Node : tigger_ts[p] >= tigger_ts[n]}, n)]
    /\ state' = [state EXCEPT ![n] = "linked"]
    /\ born' = Append(born, n)
    /\ latest' = [latest EXCEPT ![n] = ScanOf(n)]

AddInsert(n) ==
    /\ state[n] = "adding"
    /\ tpc # "destroyed"
    /\ ~(tpc = "sweep" /\ tigger_ts[n] % solt_nb = cur_ts % solt_nb)
    /\ Insert(n)
    /\ UNCHANGED <<cur_ts, fields, tpc, tigger, callsLeft>>

(* timer_wheel_del.  By the contract (timer_wheel.c:175-185) only repeating *)
(* timers are deleted, and not touched again.                               *)
DelTimer(n) ==
    /\ state[n] \in {"linked", "due", "calling", "readding"}
    /\ is_repeat[n]
    /\ ~is_deleted[n]
    /\ is_deleted' = [is_deleted EXCEPT ![n] = TRUE]
    /\ callsLeft' = [callsLeft EXCEPT ![n] = 1]
    /\ UNCHANGED <<cur_ts, solts, cycle, is_repeat, tigger_ts, state, tpc, tigger,
                   born, latest>>

-----------------------------------------------------------------------------
(* timer_wheel_tick *)

TickAdvance ==
    /\ tpc = "wait"
    /\ cur_ts < MaxTs
    /\ cur_ts' = cur_ts + 1
    /\ tpc' = "scan"
    /\ UNCHANGED <<solts, fields, state, tigger, hist>>

TickLock ==
    /\ tpc = "scan"
    /\ tpc' = "sweep"
    /\ UNCHANGED <<cur_ts, solts, fields, state, tigger, hist>>

(* Under the lock: the first timer of the slot goes, to be freed or to the  *)
(* front of tigger_head, until it is one that is alive and not yet due.     *)
Swept == solts[cur_ts % solt_nb]
TakeOff == solts' = [solts EXCEPT ![cur_ts % solt_nb] = Tail(@)]

TickFree ==
    LET n == Head(Swept) IN
    /\ tpc = "sweep" /\ Swept # <<>>
    /\ is_deleted[n]
    /\ TakeOff
    /\ state' = [state EXCEPT ![n] = "freed"]
    /\ born' = Del(born, n)
    /\ UNCHANGED <<cur_ts, fields, tpc, tigger, latest, callsLeft>>

TickMove ==
    LET n == Head(Swept) IN
    /\ tpc = "sweep" /\ Swept # <<>>
    /\ ~is_deleted[n] /\ tigger_ts[n] <= cur_ts
    /\ TakeOff
    /\ state' = [state EXCEPT ![n] = "due"]
    /\ tigger' = <<n>> \o tigger
    /\ UNCHANGED <<cur_ts, fields, tpc, hist>>

(* After the sweep, and after each call. *)
GoOn(left) == tpc' = IF left = <<>> THEN "wait" ELSE "call"

TickUnlock ==
    /\ tpc = "sweep"
    /\ Swept # <<>> => ~is_deleted[Head(Swept)] /\ tigger_ts[Head(Swept)] > cur_ts
    /\ GoOn(tigger)
    /\ UNCHANGED <<cur_ts, solts, fields, state, tigger, hist>>

(* pos->call(pos->cb); whether the timer was deleted meanwhile is not asked. *)
TickCall ==
    LET n == Head(tigger) IN
    /\ tpc = "call"
    /\ state' = [state EXCEPT ![n] = "calling"]
    /\ callsLeft' = [callsLeft EXCEPT ![n] = IF is_deleted[n] THEN @ - 1 ELSE @]
    /\ born' = Del(born, n)
    /\ tigger' = Tail(tigger)
    /\ tpc' = "done"
    /\ UNCHANGED <<cur_ts, solts, fields, latest>>

(* Mutant: a repeating timer is called again without going through its slot. *)
TickDoneCallAgain(n) ==
    /\ tpc = "done"
    /\ state[n] = "calling"
    /\ IF is_repeat[n]
       THEN /\ tigger' = Append(tigger, n)
            /\ state' = [state EXCEPT ![n] = "due"]
            /\ tpc' = "call"
       ELSE /\ state' = [state EXCEPT ![n] = "freed"]
            /\ GoOn(tigger)
            /\ UNCHANGED tigger
    /\ UNCHANGED <<cur_ts, solts, cycle, is_repeat, is_deleted, tigger_ts, hist>>

(* After the call a repeating timer gets a new time, any other is freed. *)
TickDone(n) ==
    /\ tpc = "done"
    /\ state[n] = "calling"
    /\ IF is_repeat[n]
       THEN /\ tigger_ts' = [tigger_ts EXCEPT ![n] = cur_ts + cycle[n]]
            /\ state' = [state EXCEPT ![n] = "readding"]
            /\ tpc' = "readd"
       ELSE /\ state' = [state EXCEPT ![n] = "freed"]
            /\ GoOn(tigger)
            /\ UNCHANGED tigger_ts
    /\ UNCHANGED <<cur_ts, solts, cycle, is_repeat, is_deleted, tigger, hist>>

TickReadd(n) ==
    /\ tpc = "readd"
    /\ state[n] = "readding"
    /\ Insert(n)
    /\ GoOn(tigger)
    /\ UNCHANGED <<cur_ts, fields, tigger, callsLeft>>

(* timer_wheel_destroy, between two ticks and with no add under way. *)
Destroy ==
    /\ tpc = "wait"
    /\ \A n \in Node : state[n] # "adding"
    /\ tpc' = "destroyed"
    /\ state' = [n \in Node |-> IF state[n] = "linked" THEN "freed" ELSE state[n]]
    /\ solts' = [i \in Slot |-> <<>>]
    /\ born' = <<>>
    /\ UNCHANGED <<cur_ts, fields, tigger, latest, callsLeft>>

-----------------------------------------------------------------------------
Next ==
    \/ \E n \in Node : Add(n) \/ AddInsert(n) \/ DelTimer(n) \/ TickDone(n) \/ TickReadd(n)
    \/ TickAdvance \/ TickLock \/ TickFree \/ TickMove \/ TickUnlock \/ TickCall \/ Destroy

Spec == Init /\ [][Next]_vars

-----------------------------------------------------------------------------
(* Entries of one time stand in the order of their insertions. *)
DueOrder(list, time, inserted) ==
    \A j, k \in 1..Len(list) :
        j < k /\ time[list[j]] = time[list[k]] => Before(inserted, list[j], list[k])

(* Timers for the same time are called in the order in which they were put  *)
(* on the wheel, although a slot is filled and tigger_head built backwards. *)
EqualTimesInOrder == DueOrder(tigger, tigger_ts, born)

(* A timer is in the slot of its time exactly once while it is linked, in   *)
(* tigger_head while it is due, and nowhere once freed; slots are sorted,   *)
(* and equal times keep the order of insertion.                             *)
WheelInv ==
    /\ \A n \in Node, i \in Slot :
          Cardinality({k \in 1..Len(solts[i]) : solts[i][k] = n})
            = IF state[n] = "linked" /\ i = tigger_ts[n] % solt_nb THEN 1 ELSE 0
    /\ \A n \in Node : Contains(tigger, n) <=> state[n] = "due"
    /\ \A i \in Slot : \A j, k \in 1..Len(solts[i]) :
          j < k => tigger_ts[solts[i][j]] <= tigger_ts[solts[i][k]]
    /\ EqualTimesInOrder

(* No tick passes over a timer.  One that was linked before its slot's scan *)
(* at its time is taken by that scan; one linked later waits for the next   *)
(* scan of the slot, at most one turn of the wheel.                         *)
NeverMissed ==
    \A n \in Node : state[n] = "linked" =>
        cur_ts < latest[n] \/ (cur_ts = latest[n] /\ tpc \in {"scan", "sweep"})

(* A call of timer_wheel_del comes too late for one call of the timer at    *)
(* most: the one whose scan is already over.                                *)
DeletedCalledOnce == \A n \in Node : callsLeft[n] >= 0

-----------------------------------------------------------------------------
(* The inductive invariant behind the three. *)
TypeOK ==
    /\ cur_ts \in Nat
    /\ solts \in [Slot -> Seq(Node)]
    /\ cycle \in [Node -> Nat] /\ tigger_ts \in [Node -> Nat] /\ latest \in [Node -> Nat]
    /\ is_repeat \in [Node -> BOOLEAN] /\ is_deleted \in [Node -> BOOLEAN]
    /\ state \in [Node -> {"new", "adding", "linked", "due", "calling", "readding", "freed"}]
    /\ tpc \in {"wait", "scan", "sweep", "call", "done", "readd", "destroyed"}
    /\ tigger \in Seq(Node) /\ born \in Seq(Node)
    /\ callsLeft \in [Node -> Int]

(* Where a timer is follows from its state and its time. *)
Placed ==
    /\ \A i \in Slot :
          /\ IsInjective(solts[i])
          /\ \A n \in Node : Contains(solts[i], n) <=>
                                state[n] = "linked" /\ i = tigger_ts[n] % solt_nb
    /\ IsInjective(tigger) /\ \A n \in Node : Contains(tigger, n) <=> state[n] = "due"
    /\ IsInjective(born) /\ \A n \in Node : Contains(born, n) <=> state[n] \in {"linked", "due"}
    /\ tpc \in {"wait", "scan", "destroyed"} => tigger = <<>>
    /\ tpc = "call" => tigger # <<>>

(* A slot is sorted, and has timers of one time in the reverse order of     *)
(* their insertions; a sweep turns them round.                              *)
SlotOrder(list, time, inserted) ==
    \A j, k \in 1..Len(list) : j < k =>
        \/ time[list[j]] < time[list[k]]
        \/ time[list[j]] = time[list[k]] /\ Before(inserted, list[k], list[j])

Ordered ==
    /\ \A i \in Slot : SlotOrder(solts[i], tigger_ts, born)
    /\ EqualTimesInOrder
    /\ tpc = "sweep" =>
          \A n, m \in Node :
              Contains(Swept, n) /\ Contains(tigger, m) /\ tigger_ts[n] = tigger_ts[m] =>
                  Before(born, n, m)

(* The next scan that a linked timer's slot has at or after its time comes  *)
(* no later than `latest`.                                                  *)
Awaited ==
    \A n \in Node : state[n] = "linked" =>
        \E t \in Nat :
            /\ t % solt_nb = tigger_ts[n] % solt_nb
            /\ tigger_ts[n] <= t /\ t <= latest[n]
            /\ cur_ts < t \/ (cur_ts = t /\ tpc \in {"scan", "sweep"})

(* A deleted timer that has been called is never due again. *)
Counted ==
    \A n \in Node :
        /\ is_deleted[n] => state[n] \notin {"new", "adding"}
        /\ callsLeft[n] \in IF is_deleted[n] THEN {0, 1} ELSE {2}
        /\ callsLeft[n] = 0 => state[n] # "due"

IInv == TypeOK /\ Placed /\ Ordered /\ Awaited /\ Counted
=============================================================================
