--------------------------------- MODULE MCLocks -------------------------------
(* The lock and the read-copy-update scheme: a behaviour has one of the two,    *)
(* the other does not begin.                                                    *)
EXTENDS MCSLock, RCU

CONSTANTS t1, t2, t3, r1, r2, u1

VARIABLE which                  \* what is in use

(* Three threads: an owner, a thread behind it and a newcomer, so that every    *)
(* window between exchange and link is open for somebody.                       *)
MCThread == {t1, t2, t3}

(* Two readers, so that one can join while the other rewrites its word, one     *)
(* updater and two updates, so that one index can go stale.                     *)
MCReader == {r1, r2}
MCUpdater == {u1}

ASSUME UserAssumption == RcuAssumption

allVars == <<which, vars, rcuVars>>

(* What the nodes of the lock hold at first is of no concern to RCU.            *)
LocksInit ==
    /\ Init /\ RcuInit
    /\ \/ which = "mcslock"
       \/ /\ which = "rcu"
          /\ \A t \in MCThread : next[t] = NULL /\ wait[t] = MCS_PROCEED

LocksNext ==
    /\ \/ which = "mcslock" /\ Next /\ UNCHANGED rcuVars
       \/ which = "rcu" /\ RcuNext /\ UNCHANGED vars
    /\ UNCHANGED which

(* The fairness of MCSLock's FairSpec and of RCU's, each for its behaviours.    *)
LocksFairSpec ==
    /\ LocksInit /\ [][LocksNext]_allVars
    /\ \A t \in MCThread :
          WF_allVars(which = "mcslock" /\ Step(t) /\ UNCHANGED <<which, rcuVars>>)
    /\ \A r \in MCReader :
          WF_allVars(which = "rcu" /\ ReadStep(r) /\ UNCHANGED <<which, vars>>)
    /\ \A u \in MCUpdater :
          WF_allVars(which = "rcu" /\ SyncStep(u) /\ UNCHANGED <<which, vars>>)
================================================================================
