--------------------------- MODULE StrategyEvent ---------------------------
(***************************************************************************)
(* strategy_event of 698.c: the word of command events the HPLC thread sets  *)
(* for the control threads.  strategy_event_send ORs a bit in,               *)
(* strategy_event_get returns the word and clears it, my_strategy_event_get  *)
(* returns it.  The word is read and written by separate instructions,       *)
(* guarded by the two-flag lock of FlagLock.                                 *)
(***************************************************************************)
EXTENDS FlagLock

CONSTANTS Events,    \* CTRL_EVENT_TYPE, one bit each
          CallsOf    \* the calls each thread's code makes

Ops == [fn : {"send"}, event : Events] \union [fn : {"get", "peek"}]

ASSUME CallsAssumption == CallsOf \in [Threads -> SUBSET Ops]

VARIABLES strategy_event,  \* the bits set in the word
          op,              \* the call each thread is in
          reg,             \* the word as the thread inside has read it
          result           \* what the last get or peek of each thread returned

vars == <<lockVars, strategy_event, op, reg, result>>

Init ==
    /\ LockInit
    /\ strategy_event = {}
    /\ op = [t \in Threads |-> [fn |-> "peek"]]
    /\ reg = [t \in Threads |-> {}]
    /\ result = [t \in Threads |-> {}]

\* A thread calls one of the three functions.
Call(t, o) ==
    /\ pc[t] = "idle"
    /\ Goto(t, "test1")
    /\ op' = [op EXCEPT ![t] = o]
    /\ UNCHANGED <<lock1, lock2, strategy_event, reg, result>>

\* The read of strategy_event: of |=, and of result=strategy_event.
Load(t) ==
    /\ Running(t)
    /\ pc[t] = "cs"
    /\ reg' = [reg EXCEPT ![t] = strategy_event]
    /\ Goto(t, "cs2")
    /\ UNCHANGED <<lock1, lock2, strategy_event, op, result>>

\* Faulty: = instead of |=.
StoreSendOnly(t) ==
    /\ op[t].fn = "send"
    /\ strategy_event' = {op[t].event}
    /\ UNCHANGED result

\* strategy_event=strategy_event|cmd
StoreSend(t) ==
    /\ op[t].fn = "send"
    /\ strategy_event' = reg[t] \union {op[t].event}
    /\ UNCHANGED result

\* strategy_event=CTRL_NO_EVENT, and the value read is returned
StoreGet(t) ==
    /\ op[t].fn = "get"
    /\ strategy_event' = {}
    /\ result' = [result EXCEPT ![t] = reg[t]]

\* Nothing is written; the value read is returned
StorePeek(t) ==
    /\ op[t].fn = "peek"
    /\ result' = [result EXCEPT ![t] = reg[t]]
    /\ UNCHANGED strategy_event

Store(t) ==
    /\ Running(t)
    /\ pc[t] = "cs2"
    /\ Goto(t, "rel2")
    /\ StoreSend(t) \/ StoreGet(t) \/ StorePeek(t)
    /\ reg' = [reg EXCEPT ![t] = {}]
    /\ UNCHANGED <<lock1, lock2, op>>

Locking(t) == LockStep(t) /\ UNCHANGED <<strategy_event, op, reg, result>>

Step(t) == Locking(t) \/ Load(t) \/ Store(t)

Next == \E t \in Threads : Step(t) \/ \E o \in CallsOf[t] : Call(t, o)

(***************************************************************************)
(* Fairness.  A delayed thread's timer expires, and a thread that is the     *)
(* most urgent ready one again and again executes: a poller sleeps 20 ms     *)
(* between two looks at the flag, time the others have the core for.         *)
(* Nothing obliges a thread to call.                                         *)
(***************************************************************************)
Fairness == \A t \in Threads : SF_vars(Step(t))

Spec == Init /\ [][Next]_vars

FairSpec == Spec /\ Fairness

-----------------------------------------------------------------------------

TypeOK ==
    /\ LockTypeOK
    /\ strategy_event \in SUBSET Events
    /\ op \in [Threads -> Ops]
    /\ reg \in [Threads -> SUBSET Events]
    /\ result \in [Threads -> SUBSET Events]

\* What the thread inside read is still what the word holds when it writes.
ReadIsCurrent == \A t \in Threads : pc[t] = "cs2" => reg[t] = strategy_event

Inv == TypeOK /\ LockInv /\ ReadIsCurrent

Word == INSTANCE EventWord WITH word <- strategy_event

\* The three functions behave as one indivisible step each: no event bit is
\* lost to a concurrent get, none comes back after a get returned it
\* (strategy_event_send, strategy_event_get, my_strategy_event_get).
IsEventWord == Word!Spec

\* Whoever takes the lock gives it back: every path through the three
\* functions reaches hplc_lock2=0, hplc_lock1=0.
LockReleased == (lock1 = 1) ~> (lock1 = 0)
=============================================================================
