-------------------------- MODULE ChargePileProofs --------------------------
(***************************************************************************)
(* ChargePile!Inv is an invariant for any set of frames the pile may send and  *)
(* any command periods.                                                        *)
(***************************************************************************)
EXTENDS ChargePile, TLAPS

\* The flags of the frames that the proofs tell apart.
LEMMA Flags ==
  /\ FlagOf("StartOK") = "StartState" /\ FlagOf("StartFail") = "StartState"
  /\ FlagOf("StopOK") = "StopState" /\ FlagOf("StopFail") = "StopState"
  /\ \A f \in FrameKinds : FlagOf(f) \in {FlagOf(g) : g \in FrameKinds}
  BY DEF FlagOf

\* Power-on satisfies the invariant.
LEMMA InitInv == Init => Inv
  BY DEF Init, Inv, TypeOK, CommandedFramesOnly, AtMostOnePost, ChargingIsMarked, AwaitedNotDropped,
    ParaNeverMarked, NoVersionBeforeBoot, StopIsMarked,
    RetriesBounded, CommandIsOwed, PostedIsMarked, AnsweredIsNew, States, MainPCs, Success

\* chargepile keeps it at every access to shared state.
LEMMA MainKeepsInv ==
  ASSUME Inv, MainStep
  PROVE  Inv'
  <1> USE DEF Inv, TypeOK, CommandedFramesOnly, AtMostOnePost, ChargingIsMarked, AwaitedNotDropped,
    ParaNeverMarked, NoVersionBeforeBoot, StopIsMarked,
    RetriesBounded, CommandIsOwed, PostedIsMarked, AnsweredIsNew, States, MainPCs, Main
  <1>1. CASE Boot
    BY <1>1 DEF Boot
  <1>2. CASE Top
    BY <1>2 DEF Top
  <1>3. CASE TestCmd
    BY <1>3 DEF TestCmd
  <1>4. CASE SetCmd
    BY <1>4 DEF SetCmd
  <1>5. CASE Switch
    BY <1>5 DEF Switch
  <1>6. CASE SendFrame
    BY <1>6 DEF SendFrame
  <1>7. CASE FrameSent
    BY <1>7 DEF FrameSent
  <1>8. CASE ClearFlags
    BY <1>8 DEF ClearFlags
  <1>9. CASE EndToStandby
    BY <1>9 DEF EndToStandby
  <1>10. CASE Wake
    BY <1>10 DEF Wake
  <1> QED
    BY <1>1, <1>2, <1>3, <1>4, <1>5, <1>6, <1>7, <1>8, <1>9, <1>10 DEF MainStep

\* Handling a received frame, up to the answer if there is one, keeps it.
LEMMA RecKeepsInv ==
  ASSUME Inv, Rec
  PROVE  Inv'
  <1> USE Flags, FramesAssumption
      DEF Inv, TypeOK, CommandedFramesOnly, AtMostOnePost, ChargingIsMarked, AwaitedNotDropped,
    ParaNeverMarked, NoVersionBeforeBoot, StopIsMarked,
    RetriesBounded, CommandIsOwed, PostedIsMarked, AnsweredIsNew, States, Receive, Success
  <1>0. "StopAck" \in {FlagOf(f) : f \in FrameKinds} /\ "Ver" \in {FlagOf(f) : f \in FrameKinds}
    <2>1. FlagOf("StopAck") = "StopAck" /\ FlagOf("Ver") = "Ver"
      BY DEF FlagOf
    <2> QED
      BY <2>1 DEF FrameKinds
  <1>1. CASE RecStopAck
    BY <1>0, <1>1 DEF RecStopAck
  <1>2. CASE RecVer
    BY <1>0, <1>2 DEF RecVer
  <1>3. CASE RecPara
    BY <1>3 DEF RecPara
  <1>4. CASE RecUpdateBegin
    BY <1>4 DEF RecUpdateBegin
  <1>5. CASE RecFail
    BY <1>5 DEF RecFail
  <1>6. CASE RecAnswered
    <2>1. PICK f \in Answered \intersect Frames :
            /\ Receive(f)
            /\ frame' = f
            /\ errors' = IF f = "BadPackage" THEN errors + 1 ELSE errors
      BY <1>6 DEF RecAnswered
    <2>2. errors < 3 /\ errors' \in 0 .. 3 /\ RetriesBounded'
      BY <1>6, <2>1 DEF RecAnswered
    <2>3. AtMostOnePost' /\ AnsweredIsNew'
      BY <1>6, <2>1 DEF RecAnswered
    <2> QED
      BY <1>6, <2>1, <2>2, <2>3 DEF RecAnswered
  <1> QED
    BY <1>1, <1>2, <1>3, <1>4, <1>5, <1>6 DEF Rec

\* So does the rest of a handler, once its answer is on the bus.
LEMMA RevKeepsInv ==
  ASSUME Inv, RevStep
  PROVE  Inv'
  <1> USE DEF Inv, TypeOK, CommandedFramesOnly, AtMostOnePost, ChargingIsMarked, AwaitedNotDropped,
    ParaNeverMarked, NoVersionBeforeBoot, StopIsMarked,
    RetriesBounded, CommandIsOwed, PostedIsMarked, AnsweredIsNew, States, Answer, Success
  <1>1. CASE AnsweredSuccess
    BY <1>1, Flags DEF AnsweredSuccess, FrameKinds
  <1>2. CASE AnsweredRequest
    <2>1. \A f \in {"Timing", "ServeOnOff", "ElecLock"} : FlagOf(f) = f /\ f \in FrameKinds
      BY DEF FlagOf, FrameKinds
    <2> QED
      BY <1>2, <2>1 DEF AnsweredRequest
  <1>3. CASE AnsweredPackage
    BY <1>3 DEF AnsweredPackage
  <1>4. CASE GiveUpUpdate
    BY <1>4 DEF GiveUpUpdate
  <1>5. CASE SystemReset
    BY <1>5 DEF SystemReset, MainPCs
  <1> QED
    BY <1>1, <1>2, <1>3, <1>4, <1>5 DEF RevStep

\* The router's view of the charging cycle stays consistent.
THEOREM InvAlways == Spec => []Inv
  <1>1. Inv /\ [Next]_vars => Inv'
    <2> SUFFICES ASSUME Inv, [Next]_vars PROVE Inv'
      OBVIOUS
    <2> USE DEF Inv, TypeOK, CommandedFramesOnly, AtMostOnePost, ChargingIsMarked, AwaitedNotDropped,
    ParaNeverMarked, NoVersionBeforeBoot, StopIsMarked,
      RetriesBounded, CommandIsOwed, PostedIsMarked, AnsweredIsNew, States
    <2>1. CASE MainStep
      BY <2>1, MainKeepsInv
    <2>2. CASE Rec
      BY <2>2, RecKeepsInv
    <2>3. CASE RevStep
      BY <2>3, RevKeepsInv
    <2>4. CASE Command
      BY <2>4 DEF Command
    <2>5. CASE TakeEvent
      BY <2>5 DEF TakeEvent
    <2>6. CASE Tick
      <3>1. AutoStart * AutoStop \in Nat \ {0}
        BY AutoAssumption
      <3>2. RunTime' \in Nat
        BY <2>6, <3>1 DEF Tick
      <3> QED
        BY <2>6, <3>2 DEF Tick
    <2>7. CASE UNCHANGED vars
      BY <2>7 DEF vars
    <2> QED
      BY <2>1, <2>2, <2>3, <2>4, <2>5, <2>6, <2>7 DEF Next
  <1> QED
    BY <1>1, InitInv, PTL DEF Spec

\* Every start and stop frame on the bus is owed to an accepted command.
THEOREM CommandedFramesOnlyAlways == Spec => []CommandedFramesOnly
  <1>1. Inv => CommandedFramesOnly
    BY DEF Inv
  <1> QED
    BY <1>1, InvAlways, PTL

\* A success is reported at most once per charging cycle.
THEOREM AtMostOnePostAlways == Spec => []AtMostOnePost
  <1>1. Inv => AtMostOnePost
    BY DEF Inv
  <1> QED
    BY <1>1, InvAlways, PTL

\* A charging pile cannot be taken to have started again.
THEOREM ChargingIsMarkedAlways == Spec => []ChargingIsMarked
  <1>1. Inv => ChargingIsMarked
    BY DEF Inv
  <1> QED
    BY <1>1, InvAlways, PTL

\* The answers of the handshake are not dropped while they are waited for.
THEOREM AwaitedNotDroppedAlways == Spec => []AwaitedNotDropped
  <1>1. Inv => AwaitedNotDropped
    BY DEF Inv
  <1> QED
    BY <1>1, InvAlways, PTL
=============================================================================
