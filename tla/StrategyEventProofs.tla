------------------------ MODULE StrategyEventProofs ------------------------
(***************************************************************************)
(* For any set of threads with distinct priorities, any event bits and any   *)
(* assignment of calls to threads: the two-flag lock excludes, and the three *)
(* functions implement the atomic event word.                                *)
(***************************************************************************)
EXTENDS StrategyEvent, TLAPS

LEMMA InitInv == Init => Inv
  <1> SUFFICES ASSUME Init PROVE Inv
    OBVIOUS
  <1> USE DEF Init, LockInit
  <1>1. TypeOK
    BY DEF TypeOK, LockTypeOK, PCs, Ops
  <1>2. LockInv
    BY <1>1 DEF TypeOK, LockInv, StaleTestIsOutranked, OneHolder, FlagsAgree,
                NobodySleepsInside, Holds, HoldPCs, Critical
  <1>3. ReadIsCurrent
    BY DEF ReadIsCurrent
  <1>4. QED
    BY <1>1, <1>2, <1>3 DEF Inv

LEMMA TypeStep == TypeOK /\ [Next]_vars => TypeOK'
  <1> SUFFICES ASSUME TypeOK, [Next]_vars PROVE TypeOK'
    OBVIOUS
  <1> USE DEF TypeOK, LockTypeOK, PCs, Goto
  <1>1. ASSUME NEW t \in Threads, Locking(t) PROVE TypeOK'
    BY <1>1 DEF Locking, LockStep, Wake, Test1, Set1, Test2, Set2, Rel2, Rel1
  <1>2. ASSUME NEW t \in Threads, Load(t) PROVE TypeOK'
    BY <1>2 DEF Load
  <1>3. ASSUME NEW t \in Threads, Store(t) PROVE TypeOK'
    <2>1. CASE StoreSend(t)
      <3>1. op[t].event \in Events
        BY <2>1 DEF StoreSend, Ops
      <3>2. QED
        BY <1>3, <2>1, <3>1 DEF Store, StoreSend
    <2>2. CASE StoreGet(t)
      BY <1>3, <2>2 DEF Store, StoreGet
    <2>3. CASE StorePeek(t)
      BY <1>3, <2>3 DEF Store, StorePeek
    <2>4. QED
      BY <1>3, <2>1, <2>2, <2>3 DEF Store
  <1>4. ASSUME NEW t \in Threads, NEW o \in CallsOf[t], Call(t, o) PROVE TypeOK'
    BY <1>4, CallsAssumption DEF Call
  <1>5. CASE UNCHANGED vars
    BY <1>5 DEF vars, lockVars
  <1>6. QED
    BY <1>1, <1>2, <1>3, <1>4, <1>5 DEF Next, Step

(* Each of the lock's statements, and each guarded statement, preserves the  *)
(* lock invariant whatever the guarded data are.                              *)
LEMMA LockStepInv ==
  ASSUME LockInv, NEW t \in Threads, LockStep(t)
  PROVE  LockInv'
  <1> USE DEF LockInv, LockTypeOK, PCs, Goto, Holds, HoldPCs, Critical
  <1>1. LockTypeOK'
    BY DEF LockStep, Wake, Test1, Set1, Test2, Set2, Rel2, Rel1
  <1>2. ASSUME Wake(t) PROVE LockInv'
    BY <1>1, <1>2 DEF Wake, StaleTestIsOutranked, OneHolder, FlagsAgree,
                      NobodySleepsInside
  <1>3. ASSUME Test1(t) PROVE LockInv'
    BY <1>1, <1>3 DEF Test1, StaleTestIsOutranked, OneHolder, FlagsAgree,
                      NobodySleepsInside
  <1>4. ASSUME Set1(t) PROVE LockInv'
    <2>1. ASSUME NEW u \in Threads, Holds(u) PROVE FALSE
      <3>1. Prio[u] < Prio[t]
        BY <1>4, <2>1 DEF Set1, StaleTestIsOutranked
      <3>2. Ready(u)
        BY <2>1 DEF Ready, NobodySleepsInside
      <3>3. Prio[t] <= Prio[u]
        BY <1>4, <3>2 DEF Set1, Running
      <3>4. QED
        BY <3>1, <3>3, PrioAssumption
    <2>2. ASSUME NEW u \in Threads, u # t, Ready(u) PROVE Prio[t] < Prio[u]
      <3>1. Prio[t] <= Prio[u]
        BY <1>4, <2>2 DEF Set1, Running
      <3>2. Prio[t] # Prio[u] /\ Prio[t] \in Nat /\ Prio[u] \in Nat
        BY <2>2, PrioAssumption
      <3>3. QED
        BY <3>1, <3>2
    <2>3. StaleTestIsOutranked'
      BY <1>4, <2>1, <2>2 DEF Set1, StaleTestIsOutranked, Ready
    <2>4. OneHolder' /\ FlagsAgree' /\ NobodySleepsInside'
      BY <1>4, <2>1 DEF Set1, OneHolder, FlagsAgree, NobodySleepsInside
    <2>5. QED
      BY <1>1, <2>3, <2>4
  <1>5. ASSUME Test2(t) PROVE LockInv'
    <2>1. lock2 # 1
      BY <1>5 DEF Test2, OneHolder, FlagsAgree
    <2>2. QED
      BY <1>1, <1>5, <2>1 DEF Test2, StaleTestIsOutranked, OneHolder, FlagsAgree,
                              NobodySleepsInside
  <1>6. ASSUME Set2(t) PROVE LockInv'
    BY <1>1, <1>6 DEF Set2, StaleTestIsOutranked, OneHolder, FlagsAgree,
                      NobodySleepsInside
  <1>7. ASSUME Rel2(t) PROVE LockInv'
    BY <1>1, <1>7 DEF Rel2, StaleTestIsOutranked, OneHolder, FlagsAgree,
                      NobodySleepsInside
  <1>8. ASSUME Rel1(t) PROVE LockInv'
    BY <1>1, <1>8 DEF Rel1, StaleTestIsOutranked, OneHolder, FlagsAgree,
                      NobodySleepsInside
  <1>9. QED
    BY <1>2, <1>3, <1>4, <1>5, <1>6, <1>7, <1>8 DEF LockStep

LEMMA GuardedStepInv ==
  ASSUME LockInv, NEW t \in Threads, NEW from, NEW to,
         pc[t] = from, Goto(t, to), UNCHANGED <<lock1, lock2>>,
         \/ from = "idle" /\ to = "test1"
         \/ from = "cs" /\ to = "cs2"
         \/ from = "cs2" /\ to = "rel2"
  PROVE  LockInv'
  BY DEF LockInv, LockTypeOK, PCs, Goto, Holds, HoldPCs, Critical,
         StaleTestIsOutranked, OneHolder, FlagsAgree, NobodySleepsInside

LEMMA NextInv == Inv /\ [Next]_vars => Inv'
  <1> SUFFICES ASSUME Inv, [Next]_vars PROVE Inv'
    OBVIOUS
  <1>1. TypeOK' /\ TypeOK /\ LockInv /\ ReadIsCurrent
    BY TypeStep DEF Inv
  <1>2. ASSUME NEW t \in Threads, Locking(t) PROVE Inv'
    <2>1. LockInv'
      BY <1>1, <1>2, LockStepInv DEF Locking
    <2>2. ReadIsCurrent'
      BY <1>1, <1>2 DEF Locking, LockStep, Wake, Test1, Set1, Test2, Set2, Rel2, Rel1,
                        Goto, ReadIsCurrent, TypeOK, LockTypeOK
    <2>3. QED
      BY <1>1, <2>1, <2>2 DEF Inv
  <1>3. ASSUME NEW t \in Threads, Load(t) PROVE Inv'
    <2>1. LockInv'
      BY <1>1, <1>3, GuardedStepInv DEF Load
    <2>2. ReadIsCurrent'
      BY <1>1, <1>3 DEF Load, Goto, ReadIsCurrent, TypeOK, LockTypeOK
    <2>3. QED
      BY <1>1, <2>1, <2>2 DEF Inv
  <1>4. ASSUME NEW t \in Threads, Store(t) PROVE Inv'
    <2>1. LockInv'
      BY <1>1, <1>4, GuardedStepInv DEF Store
    <2>2. \A u \in Threads : u # t => pc[u] # "cs2"
      BY <1>1, <1>4 DEF Store, LockInv, OneHolder, Holds, HoldPCs
    <2>3. ReadIsCurrent'
      BY <1>1, <1>4, <2>2 DEF Store, Goto, ReadIsCurrent, TypeOK, LockTypeOK
    <2>4. QED
      BY <1>1, <2>1, <2>3 DEF Inv
  <1>5. ASSUME NEW t \in Threads, NEW o \in CallsOf[t], Call(t, o) PROVE Inv'
    <2>1. LockInv'
      BY <1>1, <1>5, GuardedStepInv DEF Call
    <2>2. ReadIsCurrent'
      BY <1>1, <1>5 DEF Call, Goto, ReadIsCurrent, TypeOK, LockTypeOK
    <2>3. QED
      BY <1>1, <2>1, <2>2 DEF Inv
  <1>6. CASE UNCHANGED vars
    <2>1. LockInv'
      BY <1>1, <1>6 DEF vars, lockVars, LockInv, LockTypeOK, StaleTestIsOutranked,
                        OneHolder, FlagsAgree, NobodySleepsInside, Holds, Critical
    <2>2. ReadIsCurrent'
      BY <1>1, <1>6 DEF vars, lockVars, ReadIsCurrent
    <2>3. QED
      BY <1>1, <2>1, <2>2 DEF Inv
  <1>7. QED
    BY <1>2, <1>3, <1>4, <1>5, <1>6 DEF Next, Step

(* The inductive invariant holds in every reachable state: the flags agree   *)
(* with who is inside, and what a thread inside read from strategy_event is   *)
(* current until it writes.                                                   *)
THEOREM InvAlways == Spec => []Inv
  BY InitInv, NextInv, PTL DEF Spec

(* No two threads are ever between lock and unlock of the strategy_event      *)
(* functions, for any threads with distinct priorities.                       *)
THEOREM ExclusionAlways == Spec => []MutualExclusion
  <1>1. Inv => MutualExclusion
    BY DEF Inv, LockInv, OneHolder, MutualExclusion, Critical, Holds, HoldPCs
  <1>2. QED
    BY <1>1, InvAlways, PTL

(* Whoever polls hplc_lock1 or hplc_lock2 waits for a thread that is inside   *)
(* the lock and does not poll: no call leaves a flag set behind it.           *)
THEOREM WaitsForWorkerAlways == Spec => []WaitsForWorker
  <1>1. Inv => WaitsForWorker
    <2> SUFFICES ASSUME Inv, NEW t \in Threads, Polls(t)
                 PROVE  \E u \in Threads \ {t} : Holds(u) /\ ~Polls(u)
      BY DEF WaitsForWorker
    <2>1. pc[t] = "slp1" /\ lock1 = 1
      BY DEF Inv, LockInv, NobodySleepsInside, Polls
    <2>2. PICK u \in Threads : Holds(u)
      BY <2>1 DEF Inv, LockInv, FlagsAgree
    <2>3. u # t /\ ~Polls(u)
      BY <2>1, <2>2 DEF Inv, LockInv, NobodySleepsInside, Holds, HoldPCs, Polls
    <2>4. QED
      BY <2>2, <2>3
  <1>2. QED
    BY <1>1, InvAlways, PTL

LEMMA StepSimulates ==
  ASSUME Inv, [Next]_vars
  PROVE  [Word!Next]_<<strategy_event, result>>
  <1>1. ASSUME NEW t \in Threads, Store(t) PROVE Word!Next
    <2>1. reg[t] = strategy_event
      BY <1>1 DEF Store, Inv, ReadIsCurrent
    <2>2. CASE StoreSend(t)
      <3>1. op[t].event \in Events
        BY <2>2 DEF StoreSend, Inv, TypeOK, Ops
      <3>2. Word!Send(op[t].event)
        BY <2>1, <2>2 DEF StoreSend, Word!Send
      <3>3. QED
        BY <3>1, <3>2 DEF Word!Next
    <2>3. CASE StoreGet(t)
      <3>1. Word!Get(t)
        BY <2>1, <2>3 DEF StoreGet, Word!Get
      <3>2. QED
        BY <3>1 DEF Word!Next
    <2>4. CASE StorePeek(t)
      <3>1. Word!Peek(t)
        BY <2>1, <2>4 DEF StorePeek, Word!Peek
      <3>2. QED
        BY <3>1 DEF Word!Next
    <2>5. QED
      BY <1>1, <2>2, <2>3, <2>4 DEF Store
  <1>2. ASSUME NEW t \in Threads, NEW o \in CallsOf[t], Locking(t) \/ Load(t) \/ Call(t, o)
        PROVE  UNCHANGED <<strategy_event, result>>
    BY <1>2 DEF Locking, Load, Call
  <1>3. ASSUME NEW t \in Threads, Locking(t) \/ Load(t)
        PROVE  UNCHANGED <<strategy_event, result>>
    BY <1>3 DEF Locking, Load
  <1>4. CASE UNCHANGED vars
    BY <1>4 DEF vars
  <1>5. QED
    BY <1>1, <1>2, <1>3, <1>4 DEF Next, Step

(* strategy_event_send, strategy_event_get and my_strategy_event_get          *)
(* implement the atomic event word: no event bit is lost or delivered twice   *)
(* because of preemption inside them.                                         *)
THEOREM ImplementsEventWord == Spec => IsEventWord
  <1>1. Init => Word!Init
    BY DEF Init, Word!Init
  <1>2. QED
    BY <1>1, InvAlways, StepSimulates, PTL DEF Spec, IsEventWord, Word!Spec
=============================================================================
