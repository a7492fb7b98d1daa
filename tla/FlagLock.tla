------------------------------ MODULE FlagLock ------------------------------
(***************************************************************************)
(* The two-flag lock that 698.c writes out in strategy_event_send,          *)
(* strategy_event_get and my_strategy_event_get (hplc_lock1, hplc_lock2) and   *)
(* in check_afair_from_botom and CtrlUnit_RecResp (hplc_698_state.lock1,       *)
(* hplc_698_state.lock2): poll lock1 every 20 ms, set it, poll lock2, set it,  *)
(* work, clear both.  Test and set are separate statements, so the lock leans  *)
(* on the scheduler: one core, strict priorities, and no two of the threads    *)
(* share a priority.                                                           *)
(*                                                                         *)
(* This module holds the lock statements and the scheduler's choice.  The   *)
(* modules that use the lock add the guarded statements ("cs", "cs2", and       *)
(* "nap" where they sleep).                                                    *)
(***************************************************************************)
EXTENDS Integers

CONSTANTS Threads,   \* the threads that call a locked function
          Prio       \* RT-Thread priority of each: the smaller, the more urgent

ASSUME PrioAssumption ==
    /\ Prio \in [Threads -> Nat]
    /\ \A s, t \in Threads : Prio[s] = Prio[t] => s = t

VARIABLES lock1, lock2,  \* the two flag words
          pc             \* where each thread is in the locked function

lockVars == <<lock1, lock2, pc>>

\* "slp1" and "slp2" are rt_thread_mdelay(20) in the two polling loops.
PCs == {"idle", "test1", "slp1", "set1", "test2", "slp2", "set2",
        "cs", "cs2", "nap", "rel2", "rel1"}

\* Between lock1=1 and lock1=0.
HoldPCs == {"test2", "slp2", "set2", "cs", "cs2", "nap", "rel2", "rel1"}

Holds(t) == pc[t] \in HoldPCs

\* Between lock2=1 and lock2=0: the guarded statements.
Critical(t) == pc[t] \in {"cs", "cs2", "nap", "rel2"}

-----------------------------------------------------------------------------
(* The scheduler. *)

Ready(t) == pc[t] \notin {"idle", "slp1", "slp2", "nap"}

\* rt_schedule runs the most urgent ready thread, and preempts for it.
Running(t) ==
    /\ Ready(t)
    /\ \A u \in Threads : Ready(u) => Prio[t] <= Prio[u]

Goto(t, label) == pc' = [pc EXCEPT ![t] = label]

\* The delay's thread timer expires: the tick interrupt makes t ready again.
Wake(t) ==
    /\ pc[t] \in {"slp1", "slp2"}
    /\ Goto(t, IF pc[t] = "slp1" THEN "test1" ELSE "test2")
    /\ UNCHANGED <<lock1, lock2>>

-----------------------------------------------------------------------------
(* The lock statements. *)

LockInit ==
    /\ lock1 = 0
    /\ lock2 = 0
    /\ pc = [t \in Threads |-> "idle"]

\* Faulty: sets lock1 without having tested it.
Test1Skipped(t) ==
    /\ Running(t)
    /\ pc[t] = "test1"
    /\ Goto(t, "set1")
    /\ UNCHANGED <<lock1, lock2>>

\* while (lock1 == 1) mdelay(20)
Test1(t) ==
    /\ Running(t)
    /\ pc[t] = "test1"
    /\ Goto(t, IF lock1 = 1 THEN "slp1" ELSE "set1")
    /\ UNCHANGED <<lock1, lock2>>

Set1(t) ==
    /\ Running(t)
    /\ pc[t] = "set1"
    /\ lock1' = 1
    /\ Goto(t, "test2")
    /\ UNCHANGED lock2

\* while (lock2 == 1) mdelay(20)
Test2(t) ==
    /\ Running(t)
    /\ pc[t] = "test2"
    /\ Goto(t, IF lock2 = 1 THEN "slp2" ELSE "set2")
    /\ UNCHANGED <<lock1, lock2>>

Set2(t) ==
    /\ Running(t)
    /\ pc[t] = "set2"
    /\ lock2' = 1
    /\ Goto(t, "cs")
    /\ UNCHANGED lock1

Rel2(t) ==
    /\ Running(t)
    /\ pc[t] = "rel2"
    /\ lock2' = 0
    /\ Goto(t, "rel1")
    /\ UNCHANGED lock1

\* Faulty: returns with lock1 set, as a return before the unlock would.
Rel1Missing(t) ==
    /\ Running(t)
    /\ pc[t] = "rel1"
    /\ Goto(t, "idle")
    /\ UNCHANGED <<lock1, lock2>>

Rel1(t) ==
    /\ Running(t)
    /\ pc[t] = "rel1"
    /\ lock1' = 0
    /\ Goto(t, "idle")
    /\ UNCHANGED lock2

LockStep(t) == Wake(t) \/ Test1(t) \/ Set1(t) \/ Test2(t) \/ Set2(t) \/ Rel2(t) \/ Rel1(t)

-----------------------------------------------------------------------------

LockTypeOK ==
    /\ lock1 \in {0, 1}
    /\ lock2 \in {0, 1}
    /\ pc \in [Threads -> PCs]

\* What the comments on the five prologues of 698.c say, "lock the resource":
\* at most one thread is between the two locks and the two unlocks, although a
\* thread may be preempted between the test of a flag and its assignment.  It
\* holds for the event word and not for hplc_698_state, whose lock is held
\* across a sleep.
MutualExclusion ==
    \A s, t \in Threads : Critical(s) /\ Critical(t) => s = t

\* A thread polls a flag that is set.
Polls(t) == (pc[t] = "slp1" /\ lock1 = 1) \/ (pc[t] = "slp2" /\ lock2 = 1)

\* Nobody waits for a flag left set: a thread that polls waits for another one, which is
\* between the flags and does not poll itself.  This holds of both locks of 698.c, of
\* that of hplc_698_state even after it has let both threads in and the first one out
\* has cleared the flags of the second (check_afair_from_botom, CtrlUnit_RecResp).
WaitsForWorker ==
    \A t \in Threads : Polls(t) => \E u \in Threads \ {t} : Holds(u) /\ ~Polls(u)

\* Why it holds: a flag that is set has somebody inside who will clear it.
FlagsHaveHolders ==
    /\ lock1 = 1 => \E t \in Threads : Holds(t)
    /\ lock2 = 1 => \E t \in Threads : Critical(t)

(* Why the lock excludes where nobody sleeps inside, as an inductive invariant. *)

\* A thread past its test of lock1 can only have been overtaken by more
\* urgent threads.
StaleTestIsOutranked ==
    \A s, t \in Threads : pc[s] = "set1" /\ Holds(t) => Prio[t] < Prio[s]

OneHolder == \A s, t \in Threads : Holds(s) /\ Holds(t) => s = t

FlagsAgree ==
    /\ lock1 = 1 <=> \E t \in Threads : Holds(t)
    /\ lock2 = 1 <=> \E t \in Threads : Critical(t)

\* The second polling loop never waits, and neither do the guarded statements.
NobodySleepsInside == \A t \in Threads : pc[t] \notin {"slp2", "nap"}

LockInv ==
    /\ LockTypeOK
    /\ StaleTestIsOutranked
    /\ OneHolder
    /\ FlagsAgree
    /\ NobodySleepsInside
=============================================================================
