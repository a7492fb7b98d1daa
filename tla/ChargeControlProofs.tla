------------------------ MODULE ChargeControlProofs ------------------------
(***************************************************************************)
(* ChargeControl!Inv is an invariant for any number of command frames and     *)
(* reports; with it, how often a command is answered and a report is used.     *)
(***************************************************************************)
EXTENDS ChargeControl, TLAPS

USE DEF Commands, FrameKinds

\* The lock's statements: where they lead, and that they touch nothing else.
LEMMA LockSteps ==
    ASSUME LockTypeOK, NEW t \in Threads, LockStep(t)
    PROVE  /\ LockTypeOK'
           /\ \A u \in Threads \ {t} : pc'[u] = pc[u]
           /\ pc[t] \in {"slp1", "slp2", "test1", "set1", "test2", "set2", "rel2", "rel1"}
           /\ pc'[t] \notin {"nap", "cs2"}
           /\ pc[t] \in {"rel2", "rel1"} => pc'[t] \in {"rel1", "idle"}
<1>1. CASE Wake(t)
  BY <1>1 DEF Wake, Goto, LockTypeOK, PCs
<1>2. CASE Test1(t)
  BY <1>2 DEF Test1, Goto, LockTypeOK, PCs
<1>3. CASE Set1(t)
  BY <1>3 DEF Set1, Goto, LockTypeOK, PCs
<1>4. CASE Test2(t)
  BY <1>4 DEF Test2, Goto, LockTypeOK, PCs
<1>5. CASE Set2(t)
  BY <1>5 DEF Set2, Goto, LockTypeOK, PCs
<1>6. CASE Rel2(t)
  BY <1>6 DEF Rel2, Goto, LockTypeOK, PCs
<1>7. CASE Rel1(t)
  BY <1>7 DEF Rel1, Goto, LockTypeOK, PCs
<1> QED BY <1>1, <1>2, <1>3, <1>4, <1>5, <1>6, <1>7 DEF LockStep

-----------------------------------------------------------------------------
(* The flags of hplc_698_state. *)

\* Nobody leaves the lock and no flag changes.
LEMMA HoldersStay ==
    ASSUME FlagsHaveHolders, UNCHANGED <<lock1, lock2>>,
           \A u \in Threads : (Holds(u) => Holds(u)') /\ (Critical(u) => Critical(u)')
    PROVE  FlagsHaveHolders'
  BY DEF FlagsHaveHolders

\* Whoever sets a flag is inside then, and whoever leaves clears it, also when the other
\* thread is inside.
LEMMA LockKeepsHolders ==
    ASSUME LockTypeOK, FlagsHaveHolders, NEW t \in Threads, LockStep(t)
    PROVE  FlagsHaveHolders'
<1>0. pc \in [Threads -> PCs]
  BY DEF LockTypeOK
<1>1. CASE Wake(t) \/ Test1(t) \/ Test2(t)
  <2>1. \A u \in Threads : (Holds(u) => Holds(u)') /\ (Critical(u) => Critical(u)')
    BY <1>0, <1>1 DEF Wake, Test1, Test2, Goto, Holds, HoldPCs, Critical
  <2> QED BY <1>1, <2>1, HoldersStay DEF Wake, Test1, Test2
<1>2. CASE Set1(t)
  <2>1. Holds(t)' /\ lock2' = lock2
    BY <1>0, <1>2 DEF Set1, Goto, Holds, HoldPCs
  <2>2. \A u \in Threads : Critical(u) => Critical(u)'
    BY <1>0, <1>2 DEF Set1, Goto, Critical
  <2> QED BY <2>1, <2>2 DEF FlagsHaveHolders
<1>3. CASE Set2(t)
  <2>1. Holds(t)' /\ Critical(t)'
    BY <1>0, <1>3 DEF Set2, Goto, Holds, HoldPCs, Critical
  <2> QED BY <2>1 DEF FlagsHaveHolders
<1>4. CASE Rel2(t)
  <2>1. Holds(t)' /\ lock2' = 0
    BY <1>0, <1>4 DEF Rel2, Goto, Holds, HoldPCs
  <2> QED BY <2>1 DEF FlagsHaveHolders
<1>5. CASE Rel1(t)
  <2>1. lock1' = 0 /\ lock2' = lock2
    BY <1>5 DEF Rel1
  <2>2. \A u \in Threads : Critical(u) => Critical(u)'
    BY <1>0, <1>5 DEF Rel1, Goto, Critical
  <2> QED BY <2>1, <2>2 DEF FlagsHaveHolders
<1> QED BY <1>1, <1>2, <1>3, <1>4, <1>5 DEF LockStep

LEMMA HoldersStep ==
    ASSUME TypeOK, FlagsHaveHolders, [Next]_vars
    PROVE  FlagsHaveHolders'
<1>0. LockTypeOK /\ "hplc" \in Threads /\ "energycon" \in Threads /\ pc \in [Threads -> PCs]
  BY ControlAssumption DEF TypeOK, LockTypeOK
<1>1. ASSUME NEW t \in Threads, CallLocked(t) PROVE FlagsHaveHolders'
  <2>1. \A u \in Threads : (Holds(u) => Holds(u)') /\ (Critical(u) => Critical(u)')
    BY <1>0, <1>1 DEF CallLocked, Goto, Holds, HoldPCs, Critical
  <2> QED BY <1>1, <2>1, HoldersStay DEF CallLocked
<1>2. CASE UNCHANGED lockVars
  BY <1>2, HoldersStay DEF lockVars, Holds, Critical
<1>3. CASE check_afair_from_botom
  <2>1. \A u \in Threads : (Holds(u) => Holds(u)') /\ (Critical(u) => Critical(u)')
    BY <1>0, <1>3 DEF check_afair_from_botom, Pack, PackFails, SendAnswer, NoAck, Looks,
                      LookedAt, Goto, Holds, HoldPCs, Critical
  <2>2. UNCHANGED <<lock1, lock2>>
    BY <1>3 DEF check_afair_from_botom, Pack, PackFails, SendAnswer, NoAck
  <2> QED BY <2>1, <2>2, HoldersStay
<1>4. CASE CtrlUnit_RecResp
  <2>1. \A u \in Threads : (Holds(u) => Holds(u)') /\ (Critical(u) => Critical(u)')
    BY <1>0, <1>4 DEF CtrlUnit_RecResp, Load, StoreAck, Inside, Goto, Holds, HoldPCs, Critical
  <2>2. UNCHANGED <<lock1, lock2>>
    BY <1>4 DEF CtrlUnit_RecResp, Load, StoreAck
  <2> QED BY <2>1, <2>2, HoldersStay
<1>5. ASSUME NEW t \in Threads, Locking(t) PROVE FlagsHaveHolders'
  BY <1>0, <1>5, LockKeepsHolders DEF Locking
<1>6. HplcCall => CallLocked("hplc")
  BY DEF HplcCall, Poll, ReceiveFrame, Handle, StoreFrame
<1>7. EnergyconStep => CallLocked("energycon") \/ UNCHANGED lockVars
  BY DEF EnergyconStep, Second, NoReport, TakeReport, Confirmed, TakeCommand, DropCommands,
         Order, Refuse, Refused
<1>8. (\E c \in Commands : Report(c) \/ Timeout(c)) \/ UNCHANGED vars => UNCHANGED lockVars
  BY DEF Report, Timeout, vars
<1> QED
  BY <1>0, <1>1, <1>2, <1>3, <1>4, <1>5, <1>6, <1>7, <1>8
     DEF Next, HplcStep, EnergyStep, Environment, Halted

-----------------------------------------------------------------------------
(* Types. *)

\* A call of a locked function.
LEMMA CallType ==
    ASSUME LockTypeOK, NEW t \in Threads, CallLocked(t)
    PROVE  LockTypeOK'
  BY DEF LockTypeOK, CallLocked, Goto, PCs

\* Every step keeps the types.
LEMMA TypeStep == TypeOK /\ [Next]_vars => TypeOK'
<1> SUFFICES ASSUME TypeOK, [Next]_vars PROVE TypeOK'
  OBVIOUS
<1>0. LockTypeOK /\ "hplc" \in Threads /\ "energycon" \in Threads
  BY ControlAssumption DEF TypeOK
<1>1. ASSUME HplcCall, Watched PROVE TypeOK'
  <2>1. LockTypeOK'
    BY <1>0, <1>1, CallType DEF HplcCall, Poll, ReceiveFrame, Handle, StoreFrame
  <2>2. CASE Poll
    BY <2>1, <2>2, <1>1 DEF TypeOK, Watched, Poll, control, report, acks
  <2>3. ASSUME NEW k \in FrameKinds, ReceiveFrame(k) PROVE TypeOK'
    BY <2>1, <2>3, <1>1 DEF TypeOK, Watched, ReceiveFrame, report, acks
  <2>4. CASE Handle
    BY <2>1, <2>4, <1>1 DEF TypeOK, Watched, Handle, control, report, acks
  <2>5. CASE StoreFrame
    BY <2>1, <2>5, <1>1 DEF TypeOK, Watched, StoreFrame, report, acks
  <2> QED BY <2>2, <2>3, <2>4, <2>5, <1>1 DEF HplcCall
<1>2. ASSUME check_afair_from_botom, Watched PROVE TypeOK'
  <2>1. LockTypeOK'
    BY <1>0, <1>2 DEF check_afair_from_botom, Pack, PackFails, SendAnswer, NoAck,
                      LookedAt, Goto, LockTypeOK, PCs
  <2>2. AckBit \in Commands
    BY DEF AckBit
  <2>3. CASE Pack \/ PackFails
    BY <2>1, <2>2, <2>3, <1>2
       DEF TypeOK, Watched, check_afair_from_botom, Pack, PackFails, control, report
  <2>4. CASE SendAnswer
    BY <2>1, <2>4, <1>2 DEF TypeOK, Watched, check_afair_from_botom, SendAnswer, control, report
  <2>5. CASE NoAck
    BY <2>1, <2>5, <1>2
       DEF TypeOK, Watched, check_afair_from_botom, NoAck, control, report, acks
  <2> QED BY <2>3, <2>4, <2>5, <1>2 DEF check_afair_from_botom
<1>3. ASSUME NEW t \in Threads, Locking(t), Watched PROVE TypeOK'
  BY <1>0, <1>3, LockSteps DEF TypeOK, Watched, Locking, control, report, acks
<1>4. ASSUME CtrlUnit_RecResp, Watched PROVE TypeOK'
  <2>1. LockTypeOK'
    BY <1>0, <1>4 DEF CtrlUnit_RecResp, Load, StoreAck, Goto, LockTypeOK, PCs
  <2> QED
    BY <2>1, <1>4 DEF TypeOK, Watched, CtrlUnit_RecResp, Load, StoreAck, control, report
<1>5. ASSUME EnergyconStep, Watched PROVE TypeOK'
  <2>1. LockTypeOK'
    BY <1>0, <1>5, CallType
       DEF EnergyconStep, Second, NoReport, TakeReport, Confirmed, TakeCommand, DropCommands,
           Order, Refuse, Refused, lockVars, LockTypeOK
  <2>2. CASE Second \/ NoReport \/ Confirmed \/ DropCommands
    BY <2>1, <2>2, <1>5
       DEF TypeOK, Watched, Second, NoReport, Confirmed, DropCommands, NextPart,
           control, report, acks
  <2>4. CASE Order \/ Refuse \/ Refused
    BY <2>1, <2>4, <1>5
       DEF TypeOK, Watched, Order, Refuse, Refused, control, report, acks
  <2>3. CASE TakeReport
    BY <2>1, <2>3, <1>5 DEF TypeOK, Watched, TakeReport, acks
  <2>5. CASE TakeCommand
    BY <2>1, <2>5, <1>5 DEF TypeOK, Watched, TakeCommand, report, acks
  <2> QED BY <2>2, <2>3, <2>4, <2>5, <1>5 DEF EnergyconStep
<1>6. ASSUME NEW c \in Commands, Report(c) \/ Timeout(c), Watched PROVE TypeOK'
  <2>1. LockTypeOK'
    BY <1>0, <1>6 DEF Report, Timeout, lockVars, LockTypeOK
  <2>2. CASE Report(c)
    BY <2>1, <2>2, <1>6 DEF TypeOK, Watched, Report, control, acks
  <2>3. CASE Timeout(c)
    BY <2>1, <2>3, <1>6 DEF TypeOK, Watched, Timeout, report, acks
  <2> QED BY <2>2, <2>3, <1>6
<1>7. CASE UNCHANGED vars
  BY <1>7 DEF TypeOK, vars, control, report, acks, lockVars, LockTypeOK
<1> QED
  BY <1>0, <1>1, <1>2, <1>3, <1>4, <1>5, <1>6, <1>7
     DEF Next, HplcStep, EnergyStep, Environment, Halted

-----------------------------------------------------------------------------
(* Stored frames and reports. *)

\* A frame is stored before its command is set, and a command's flag and answer come
\* from the command; energycon is in CtrlUnit_RecResp for a command it took.
LEMMA StoredStep ==
    ASSUME TypeOK, FramesStored, CalledForCommand, [Next]_vars
    PROVE  FramesStored' /\ CalledForCommand'
<1> USE DEF FramesStored, CalledForCommand
<1>0. LockTypeOK /\ "hplc" \in Threads /\ "energycon" \in Threads /\ pc \in [Threads -> PCs]
  BY ControlAssumption DEF TypeOK, LockTypeOK
<1>1. ASSUME HplcCall PROVE FramesStored' /\ CalledForCommand'
  <2>1. pc'["energycon"] = pc["energycon"]
    BY <1>0, <1>1 DEF HplcCall, Poll, ReceiveFrame, Handle, StoreFrame, CallLocked, Goto
  <2> QED
    BY <1>1, <2>1 DEF HplcCall, Poll, ReceiveFrame, Handle, StoreFrame, control, acks
<1>2. ASSUME check_afair_from_botom PROVE FramesStored' /\ CalledForCommand'
  <2>1. pc'["energycon"] = pc["energycon"]
    BY <1>0, <1>2 DEF check_afair_from_botom, Pack, PackFails, SendAnswer, NoAck,
                      LookedAt, Goto
  <2> QED
    BY <1>2, <2>1 DEF check_afair_from_botom, Pack, PackFails, SendAnswer, NoAck,
                      control, acks
<1>3. ASSUME NEW t \in Threads, Locking(t) PROVE FramesStored' /\ CalledForCommand'
  <2>1. pc'["energycon"] # "idle" => pc["energycon"] # "idle"
    BY <1>0, <1>3, LockSteps DEF Locking
  <2> QED
    BY <1>3, <2>1 DEF Locking, control, acks
<1>4. ASSUME CtrlUnit_RecResp PROVE FramesStored' /\ CalledForCommand'
  <2>1. pc["energycon"] # "idle"
    BY <1>4 DEF CtrlUnit_RecResp, Load, StoreAck, Inside
  <2> QED
    BY <1>4, <2>1 DEF CtrlUnit_RecResp, Load, StoreAck, control
<1>5. ASSUME EnergyconStep PROVE FramesStored' /\ CalledForCommand'
  <2>1. CASE Second \/ NoReport \/ Confirmed \/ DropCommands
    BY <2>1 DEF Second, NoReport, Confirmed, DropCommands, NextPart, Energycon,
                control, acks, lockVars
  <2>2. CASE Order \/ Refuse \/ Refused
    BY <2>2 DEF Order, Refuse, Refused, Energycon, control, acks, lockVars
  <2>3. CASE TakeReport
    BY <2>3 DEF TakeReport, acks
  <2>4. CASE TakeCommand
    BY <2>4 DEF TakeCommand, acks
  <2> QED BY <2>1, <2>2, <2>3, <2>4, <1>5 DEF EnergyconStep
<1>6. ASSUME NEW c \in Commands, Report(c) \/ Timeout(c)
      PROVE  FramesStored' /\ CalledForCommand'
  BY <1>6 DEF Report, Timeout, control, acks, lockVars
<1>7. CASE UNCHANGED vars
  BY <1>7 DEF vars, control, acks, lockVars
<1> QED
  BY <1>0, <1>1, <1>2, <1>3, <1>4, <1>5, <1>6, <1>7
     DEF Next, HplcStep, EnergyStep, Environment, Halted

\* rt_event_recv clears the event it takes, so a report is used once.
LEMMA ReportStep ==
    ASSUME TypeOK, ReportUsedOnce, [Next]_vars
    PROVE  ReportUsedOnce'
<1> USE DEF ReportUsedOnce, One
<1>1. CASE TakeReport
  BY <1>1 DEF TypeOK, TakeReport
<1>2. ASSUME NEW c \in Commands, Report(c) PROVE ReportUsedOnce'
  BY <1>2 DEF TypeOK, Report
<1>3. CASE UNCHANGED report
  BY <1>3 DEF report
<1>4. \/ TakeReport \/ UNCHANGED report
      \/ \E c \in Commands : Report(c)
  BY DEF Next, HplcStep, HplcCall, Poll, ReceiveFrame, Handle, StoreFrame,
         check_afair_from_botom, Locking, CtrlUnit_RecResp, EnergyStep, EnergyconStep, Second,
         NoReport, Confirmed, TakeCommand, DropCommands, Order, Refuse, Refused,
         Environment, Timeout, Halted, vars
<1> QED BY <1>1, <1>2, <1>3, <1>4

\* A frame becomes an event once, and an event is taken once.
LEMMA TakenStep ==
    ASSUME TypeOK, CommandTakenOnce, [Next]_vars
    PROVE  CommandTakenOnce'
<1> USE DEF CommandTakenOnce, One
<1>0. taken \in [Commands -> Nat] /\ frames \in [FrameKinds -> Nat]
  BY DEF TypeOK
<1>1. ASSUME NEW k \in FrameKinds, ReceiveFrame(k) PROVE CommandTakenOnce'
  BY <1>0, <1>1 DEF ReceiveFrame
<1>2. CASE Handle
  BY <1>0, <1>2 DEF Handle, control
<1>3. CASE StoreFrame
  BY <1>0, <1>3 DEF StoreFrame
<1>4. CASE TakeCommand
  BY <1>0, <1>4 DEF TakeCommand
<1>5. CASE DropCommands
  BY <1>0, <1>5 DEF DropCommands
<1>6. CASE UNCHANGED <<strategy_event, frames, taken, hpc, hcmd>>
  BY <1>6
<1>7. \/ Handle \/ StoreFrame \/ TakeCommand \/ DropCommands
      \/ \E k \in FrameKinds : ReceiveFrame(k)
      \/ UNCHANGED <<strategy_event, frames, taken, hpc, hcmd>>
  BY DEF Next, HplcStep, HplcCall, Poll, check_afair_from_botom, Locking, CtrlUnit_RecResp,
         EnergyStep, EnergyconStep, Second, NoReport, TakeReport, Confirmed, Order, Refuse,
         Refused, Environment, Report, Timeout, Halted, vars, control
<1> QED BY <1>1, <1>2, <1>3, <1>4, <1>5, <1>6, <1>7

-----------------------------------------------------------------------------
(* Answers. *)

\* While the lock has excluded, nobody changes hplc_event between energycon's load and
\* its store: hplc would have to be inside as well.
LEMMA CurrentStep ==
    ASSUME TypeOK, ReadIsCurrent, [Next]_vars
    PROVE  ReadIsCurrent'
<1>0. LockTypeOK /\ "hplc" \in Threads /\ "energycon" \in Threads /\ pc \in [Threads -> PCs]
  BY ControlAssumption DEF TypeOK, LockTypeOK
<1>1. CASE UNCHANGED vars
  BY <1>1 DEF vars, acks, lockVars, ReadIsCurrent, MutualExclusion, Critical
<1>2. CASE overlap'
  BY <1>2 DEF ReadIsCurrent
<1>3. ASSUME ~overlap', Watched PROVE ReadIsCurrent'
  <2>1. MutualExclusion' /\ ~overlap
    BY <1>3 DEF Watched
  <2>2. MutualExclusion /\ (pc["energycon"] = "cs2" => reg = hplc_event)
    BY <2>1 DEF ReadIsCurrent
  <2> SUFFICES ASSUME pc'["energycon"] = "cs2" PROVE reg' = hplc_event'
    BY <2>1 DEF ReadIsCurrent
  <2>3. ASSUME HplcCall \/ EnergyconStep \/ (\E t \in Threads : Locking(t))
               \/ (\E c \in Commands : Report(c) \/ Timeout(c)) PROVE reg' = hplc_event'
    <3>1. UNCHANGED <<reg, hplc_event>>
      BY <2>3 DEF HplcCall, Poll, ReceiveFrame, Handle, StoreFrame, EnergyconStep, Second,
                  NoReport, TakeReport, Confirmed, TakeCommand, DropCommands, Order, Refuse,
                  Refused, Locking, Report, Timeout, acks
    <3>2. pc["energycon"] = "cs2"
      <4>1. CASE HplcCall \/ EnergyconStep
        BY <4>1, <1>0 DEF HplcCall, Poll, ReceiveFrame, Handle, StoreFrame, EnergyconStep,
                  Second, NoReport, TakeReport, Confirmed, TakeCommand, DropCommands, Order,
                  Refuse, Refused, CallLocked, Goto, lockVars
      <4>2. CASE \E t \in Threads : Locking(t)
        BY <4>2, <1>0, LockSteps DEF Locking
      <4>3. CASE \E c \in Commands : Report(c) \/ Timeout(c)
        BY <4>3 DEF Report, Timeout, lockVars
      <4> QED BY <4>1, <4>2, <4>3, <2>3
    <3> QED BY <3>1, <3>2, <2>2
  <2>4. ASSUME check_afair_from_botom PROVE reg' = hplc_event'
    <3>1. pc'["energycon"] = pc["energycon"]
      BY <1>0, <2>4 DEF check_afair_from_botom, Pack, PackFails, SendAnswer, NoAck,
                        LookedAt, Goto
    <3>2. pc["hplc"] \in {"cs", "cs2", "nap"}
      BY <2>4 DEF check_afair_from_botom, Pack, PackFails, SendAnswer, NoAck, Looks
    <3> QED BY <1>0, <3>1, <3>2, <2>2 DEF MutualExclusion, Critical
  <2>5. ASSUME CtrlUnit_RecResp PROVE reg' = hplc_event'
    BY <1>0, <2>5 DEF CtrlUnit_RecResp, Load, StoreAck, Goto
  <2>6. CASE UNCHANGED vars
    BY <2>6, <2>2 DEF vars, acks, lockVars
  <2> QED
    BY <1>0, <2>3, <2>4, <2>5, <2>6 DEF Next, HplcStep, EnergyStep, Environment, Halted
<1> QED
  BY <1>1, <1>2, <1>3 DEF Next, HplcStep, EnergyStep, Environment, Halted

\* What bounds the answers to a command: the steps between its being taken and the
\* answer only pass the allowance on.
Spent(c) == answers[c] + Outstanding(c)

\* The allowance in terms of what a step may change.
LEMMA SpentStep ==
    ASSUME TypeOK, AnswersBudgeted, ~overlap, NEW c \in Commands,
           answers'[c] \in Nat, taken'[c] \in Nat,
           \/ Spent(c)' <= Spent(c) /\ taken'[c] = taken[c]
           \/ Spent(c)' <= Spent(c) + AnswersPer(c) /\ taken'[c] = taken[c] + 1
    PROVE  Spent(c)' <= AnswersPer(c) * taken'[c]
<1>1. Spent(c) <= AnswersPer(c) * taken[c]
  BY DEF AnswersBudgeted, Spent
<1>2. answers[c] \in Nat /\ taken[c] \in Nat
  BY DEF TypeOK
<1>3. Outstanding(c) \in Nat /\ Outstanding(c)' \in Nat
  BY DEF Outstanding, One
<1>4. CASE c = "Start"
  BY <1>1, <1>2, <1>3, <1>4 DEF AnswersPer, Spent
<1>5. CASE c = "Stop"
  BY <1>1, <1>2, <1>3, <1>5 DEF AnswersPer, Spent
<1> QED BY <1>4, <1>5

\* Every step keeps to the allowance, as long as the lock excludes.
LEMMA BudgetStep ==
    ASSUME TypeOK, TypeOK', FramesStored, CalledForCommand, ReadIsCurrent, AnswersBudgeted,
           [Next]_vars
    PROVE  AnswersBudgeted'
<1>0. LockTypeOK /\ "hplc" \in Threads /\ "energycon" \in Threads /\ pc \in [Threads -> PCs]
  BY ControlAssumption DEF TypeOK, LockTypeOK
<1>1. CASE UNCHANGED vars
  BY <1>1 DEF vars, acks, control, lockVars, AnswersBudgeted, Outstanding, One, AckDue,
              AnswersPer, Accepted
<1>2. CASE overlap'
  BY <1>2 DEF AnswersBudgeted
<1>3. ASSUME ~overlap', Watched, ~UNCHANGED vars PROVE AnswersBudgeted'
  <2>1. ~overlap
    BY <1>3 DEF Watched
  <2> SUFFICES ASSUME NEW c \in Commands
               PROVE  \/ Spent(c)' <= Spent(c) /\ taken'[c] = taken[c]
                      \/ Spent(c)' <= Spent(c) + AnswersPer(c) /\ taken'[c] = taken[c] + 1
    <3>1. \A c \in Commands : answers'[c] \in Nat /\ taken'[c] \in Nat
      BY DEF TypeOK
    <3> QED BY <2>1, <3>1, SpentStep DEF AnswersBudgeted, Spent, AnswersPer
  <2>0. answers[c] \in Nat
    BY DEF TypeOK
  <2> USE DEF Spent, Outstanding, One, AckDue, Accepted
  <2>2. CASE HplcCall
    <3>1. /\ pc'["energycon"] = pc["energycon"]
          /\ pc["hplc"] # "nap" /\ pc'["hplc"] # "nap"
      BY <1>0, <2>2 DEF HplcCall, Poll, ReceiveFrame, Handle, StoreFrame, CallLocked, Goto
    <3>2. UNCHANGED <<acks, epc, ecmd, flags, taken>>
      BY <2>2 DEF HplcCall, Poll, ReceiveFrame, Handle, StoreFrame, control
    <3> QED BY <2>0, <3>1, <3>2 DEF acks
  <2>3. CASE check_afair_from_botom
    <3>1. pc'["energycon"] = pc["energycon"] /\ UNCHANGED <<epc, ecmd, flags, taken>>
      BY <1>0, <2>3 DEF check_afair_from_botom, Pack, PackFails, SendAnswer, NoAck,
                        LookedAt, Goto, control
    <3>2. CASE Pack
      <4>1. pc["hplc"] # "nap" /\ pc'["hplc"] = "nap" /\ AckBit \in hplc_event
        BY <1>0, <3>2 DEF Pack, Looks, Goto
      <4> QED BY <2>0, <3>1, <3>2, <4>1 DEF Pack
    <3>3. CASE PackFails
      <4>1. pc["hplc"] # "nap" /\ pc'["hplc"] # "nap"
        BY <1>0, <3>3 DEF PackFails, Looks, LookedAt, Goto
      <4> QED BY <2>0, <3>1, <3>3, <4>1 DEF PackFails
    <3>4. CASE SendAnswer
      <4>1. pc["hplc"] = "nap" /\ pc'["hplc"] # "nap"
        BY <1>0, <3>4 DEF SendAnswer, LookedAt, Goto
      <4>2. answers'[c] = answers[c] + One(answering = c)
        BY <3>4 DEF SendAnswer, TypeOK
      <4> QED BY <2>0, <3>1, <3>4, <4>1, <4>2 DEF SendAnswer
    <3>5. CASE NoAck
      <4>1. pc["hplc"] # "nap" /\ pc'["hplc"] # "nap"
        BY <1>0, <3>5 DEF NoAck, Looks, LookedAt, Goto
      <4> QED BY <2>0, <3>1, <3>5, <4>1 DEF NoAck, acks
    <3> QED BY <2>3, <3>2, <3>3, <3>4, <3>5 DEF check_afair_from_botom
  <2>4. ASSUME NEW t \in Threads, Locking(t)
        PROVE  Spent(c)' <= Spent(c) /\ taken'[c] = taken[c]
    <3>1. pc'["hplc"] = "nap" => pc["hplc"] = "nap"
      BY <1>0, <2>4, LockSteps DEF Locking
    <3>2. pc["energycon"] \in {"idle", "rel2", "rel1"} =>
             pc'["energycon"] \in {"idle", "rel2", "rel1"}
      BY <1>0, <2>4, LockSteps DEF Locking
    <3> QED BY <2>0, <2>4, <3>1, <3>2 DEF Locking, acks, control
  <2>5. CASE CtrlUnit_RecResp
    <3>1. pc'["hplc"] = pc["hplc"] /\ UNCHANGED <<epc, ecmd, flags, taken, answering, answers>>
      BY <1>0, <2>5 DEF CtrlUnit_RecResp, Load, StoreAck, Goto, control
    <3>2. CASE Load
      <4>1. pc["energycon"] = "cs" /\ pc'["energycon"] = "cs2"
        BY <1>0, <3>2 DEF Load, Goto, Inside
      <4> QED BY <2>0, <3>1, <3>2, <4>1 DEF Load
    <3>3. CASE StoreAck
      <4>1. pc["energycon"] = "cs2" /\ pc'["energycon"] = "rel2" /\ reg = hplc_event
        BY <1>0, <2>1, <3>3 DEF StoreAck, Goto, ReadIsCurrent
      <4>2. epc \in {"confirm", "fetch", "refuse"}
        BY <4>1 DEF CalledForCommand
      <4> QED BY <2>0, <3>1, <3>3, <4>1, <4>2 DEF StoreAck
    <3> QED BY <2>5, <3>2, <3>3 DEF CtrlUnit_RecResp
  <2>6. CASE EnergyconStep
    <3>1. pc'["hplc"] = pc["hplc"] /\ UNCHANGED acks
      BY <1>0, <2>6 DEF EnergyconStep, Second, NoReport, TakeReport, Confirmed, TakeCommand,
                        DropCommands, Order, Refuse, Refused, CallLocked, Goto, lockVars
    <3>2. CASE Second \/ DropCommands
      BY <2>0, <3>1, <3>2 DEF Second, DropCommands, Energycon, control, acks, lockVars, TypeOK
    <3>6. CASE NoReport
      BY <2>0, <3>1, <3>6 DEF NoReport, NextPart, Energycon, control, acks, lockVars
    <3>7. CASE Confirmed
      BY <2>0, <3>1, <3>7 DEF Confirmed, NextPart, Energycon, acks, lockVars
    <3>3. CASE Order \/ Refuse \/ Refused
      BY <2>0, <3>1, <3>3 DEF Order, Refuse, Refused, Energycon, control, acks, lockVars
    <3>4. CASE TakeReport
      BY <2>0, <3>1, <3>4 DEF TakeReport, Energycon, acks
    <3>5. CASE TakeCommand
      <4>1. taken'[c] = taken[c] + One(ecmd' = c)
        BY <3>5 DEF TakeCommand, TypeOK
      <4> QED BY <2>0, <3>1, <3>5, <4>1 DEF TakeCommand, Energycon, acks, AnswersPer
    <3> QED BY <2>6, <3>2, <3>3, <3>4, <3>5, <3>6, <3>7 DEF EnergyconStep
  <2>7. ASSUME NEW d \in Commands, Report(d) \/ Timeout(d)
        PROVE  Spent(c)' <= Spent(c) /\ taken'[c] = taken[c]
    BY <2>0, <2>7 DEF Report, Timeout, control, acks, lockVars
  <2> QED
    BY <1>0, <1>3, <2>2, <2>3, <2>4, <2>5, <2>6, <2>7
       DEF Next, HplcStep, EnergyStep, Environment, Halted
<1> QED
  BY <1>1, <1>2, <1>3 DEF Next, HplcStep, EnergyStep, Environment, Halted

-----------------------------------------------------------------------------

\* The power-up state satisfies the invariant.
LEMMA InitInv == Init => Inv
<1> SUFFICES ASSUME Init PROVE Inv
  OBVIOUS
<1>0. "hplc" \in Threads /\ "energycon" \in Threads
  BY ControlAssumption
<1>1. TypeOK
  BY DEF Init, LockInit, TypeOK, LockTypeOK, PCs
<1>2. FramesStored /\ ReportUsedOnce
  BY DEF Init, FramesStored, ReportUsedOnce, One
<1>3. CalledForCommand /\ ReadIsCurrent
  BY <1>0 DEF Init, LockInit, CalledForCommand, ReadIsCurrent, MutualExclusion, Critical
<1>4. AnswersBudgeted
  BY <1>0 DEF Init, LockInit, AnswersBudgeted, Outstanding, One, AckDue, AnswersPer, Accepted
<1>5. CommandTakenOnce /\ FlagsHaveHolders
  BY DEF Init, LockInit, CommandTakenOnce, One, FlagsHaveHolders
<1> QED BY <1>1, <1>2, <1>3, <1>4, <1>5 DEF Inv

\* The inductive invariant, for any number of commands and reports: frames are stored
\* before they are needed, energycon answers only commands it took, and every answer has
\* its allowance while the flags of hplc_698_state exclude.
THEOREM InvAlways == Spec => []Inv
<1>1. Inv /\ [Next]_vars => Inv'
  BY TypeStep, StoredStep, ReportStep, CurrentStep, BudgetStep, TakenStep, HoldersStep DEF Inv
<1> QED BY <1>1, InitInv, PTL DEF Spec

\* A report of the pile confirms one command at most (PileData_RecProcess).
THEOREM ReportUsedOnceAlways == Spec => []ReportUsedOnce
<1>1. Inv => ReportUsedOnce
  BY DEF Inv
<1> QED BY <1>1, InvAlways, PTL

\* A stop is answered at most once and a start at most twice, unless both threads were
\* inside the lock of hplc_event at once.
THEOREM AnswersAccountedAlways == Spec => []AnswersAccounted
<1>1. Inv => AnswersAccounted
  <2> SUFFICES ASSUME Inv, ~overlap, NEW c \in Commands
               PROVE  answers[c] <= AnswersPer(c) * taken[c]
    BY DEF AnswersAccounted
  <2>1. answers[c] \in Nat /\ taken[c] \in Nat /\ Outstanding(c) \in Nat
    BY DEF Inv, TypeOK, Outstanding, One
  <2>2. answers[c] + Outstanding(c) <= AnswersPer(c) * taken[c]
    BY DEF Inv, AnswersBudgeted
  <2> QED BY <2>1, <2>2 DEF AnswersPer
<1> QED BY <1>1, InvAlways, PTL

\* A command frame is taken once at most (strategy_event_send, strategy_event_get).
THEOREM CommandTakenOnceAlways == Spec => []CommandTakenOnce
<1>1. Inv => CommandTakenOnce
  BY DEF Inv
<1> QED BY <1>1, InvAlways, PTL

\* Whoever polls a flag of hplc_698_state waits for another thread that does not poll:
\* the threads never wait for each other, and never for a flag nobody will clear.
THEOREM WaitsForWorkerAlways == Spec => []WaitsForWorker
<1>1. Inv => WaitsForWorker
  <2> SUFFICES ASSUME FlagsHaveHolders, NEW t \in Threads, Polls(t)
               PROVE  \E u \in Threads \ {t} : Holds(u) /\ ~Polls(u)
    BY DEF Inv, WaitsForWorker
  <2>1. \A u \in Threads : Critical(u) => Holds(u) /\ ~Polls(u)
    BY DEF Critical, Holds, HoldPCs, Polls
  <2>2. CASE lock2 = 1
    <3>1. PICK u \in Threads : Critical(u)
      BY <2>2 DEF FlagsHaveHolders
    <3> QED BY <2>1, <3>1
  <2>3. CASE lock2 # 1
    <3>1. lock1 = 1 /\ pc[t] = "slp1"
      BY <2>3 DEF Polls
    <3>2. PICK u \in Threads : Holds(u)
      BY <3>1 DEF FlagsHaveHolders
    <3>3. u # t /\ ~Polls(u)
      BY <2>3, <3>1, <3>2 DEF Holds, HoldPCs, Polls
    <3> QED BY <3>2, <3>3
  <2> QED BY <2>2, <2>3
<1> QED BY <1>1, InvAlways, PTL
=============================================================================
