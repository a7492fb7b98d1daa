----------------------------- MODULE ChargePile -----------------------------
(***************************************************************************)
(* The router's side of the CAN protocol with the charging pile               *)
(* (chargepile.c).  Four actors share STR_ChargePile_A.ChgState and the        *)
(* "already received" flags of StrStateFrame without a lock:                   *)
(*   - chargepile (priority 21): boots, issues test commands by RunTime, and    *)
(*     sends the frame the state asks for, twice a second;                      *)
(*   - chargepileRev (20): CAN_V110_RecProtocal on each received frame;         *)
(*   - energycon (18): ChargepileDataGetSet, and takes events;                  *)
(*   - the heart timer: RunTime.                                                *)
(* A thread is preempted by the more urgent ones between any two accesses and   *)
(* by all others while it waits in rt_device_write.  What chargepileRev does    *)
(* between two such waits is one step: chargepile cannot run then, and          *)
(* energycon's test-and-set touches nothing it has tested.                      *)
(***************************************************************************)
EXTENDS Integers, FiniteSets

CONSTANTS Frames,      \* the kinds of frame the pile sends
          AutoStart,   \* start command when RunTime % AutoStart = 0
          AutoStop     \* stop command when RunTime % AutoStop = 0

\* A frame's kind is its code, and what the handler tests of its contents:
\* "Ver" is VertionCheckFrameAck with the right Pro_Version, "Para" is ChargeParaInfoFrameAck with data[1] = 0; "StartOK", "StartFail",
\* "StopOK", "StopFail" are the state frames by ConfIdent; "BadPackage" is the
\* DataSendFrame that ends a package with a wrong sum; "Reset" has ResetAct 0xAA.
\* All other frames change nothing that is modelled here.
FrameKinds == {"StopAck", "Timing", "Ver", "Para", "ServeOnOff", "ElecLock", "PowerAdjust",
               "StartOK", "StartFail", "StopOK", "StopFail", "PileParaInfo", "UpdateBegin",
               "BadPackage", "UpdateCheck", "Reset"}

NoFrame == "none"

ASSUME FramesAssumption == Frames \subseteq FrameKinds
ASSUME AutoAssumption   == /\ AutoStart \in Nat \ {0}
                           /\ AutoStop \in Nat \ {0}

VARIABLES
    ChgState,        \* STR_ChargePile_A.ChgState
    dup,             \* the ...ReSendFlag fields of StrStateFrame that are TRUE
    ChargePileEvent, \* bits of the event object
    RunTime,         \* seconds, modulo AutoStart * AutoStop
    timers,          \* CAN_Heart_Tx and CAN_250ms_Tx are running
    errors,          \* chgUpdate.ErrResendCount
    mpc,             \* where chargepile is
    rpc, frame,      \* where chargepileRev is, and the frame it handles
    owed,            \* history: commands accepted and not yet put on the bus
    posted           \* history: successes reported since StrStateFrame was cleared

vars == <<ChgState, dup, ChargePileEvent, RunTime, timers, errors, mpc, rpc, frame,
          owed, posted>>

States == {"PowerON", "WaitVertionCheck", "WaitPilePara", "Standby", "ChargStart",
           "WaitChargeStartFrameAsk", "Charging", "ToCheck", "WaitStop", "ChargEnd"}

MainPCs == {"boot", "top", "cmdStart", "setStart", "cmdStop", "setStop", "switch",
            "sendVer", "sendPara", "sendStart", "sendStop", "sent", "asked", "clear",
            "standby", "sleep"}

\* Success frames, and the flag that marks a kind of frame as received.
Success == {"StartOK", "StopOK"}

FlagOf(f) == CASE f \in {"StartOK", "StartFail"} -> "StartState"
               [] f \in {"StopOK", "StopFail"} -> "StopState"
               [] OTHER -> f

Init ==
    /\ ChgState = "PowerON"
    /\ dup = {} /\ ChargePileEvent = {}
    /\ RunTime = 0 /\ timers = TRUE /\ errors = 0
    /\ mpc = "boot" /\ rpc = "idle" /\ frame = NoFrame
    /\ owed = {} /\ posted = {}

-----------------------------------------------------------------------------
(* chargepile_thread_entry.  Each action is one access to shared state. *)

\* chargepile goes from one label to the next.
Main(at, next) == mpc = at /\ mpc' = next

Boot ==
    /\ Main("boot", "sleep")
    /\ ChgState' = "WaitVertionCheck"
    /\ UNCHANGED <<dup, ChargePileEvent, RunTime, timers, errors, rpc, frame, owed, posted>>

\* The top of the loop: a command by RunTime, or none.
Top ==
    /\ Main("top",
            CASE ChgState = "Standby" /\ RunTime % AutoStart = 0 -> "cmdStart"
              [] ChgState = "Charging" /\ RunTime % AutoStop = 0 -> "cmdStop"
              [] OTHER -> "switch")
    /\ UNCHANGED <<ChgState, dup, ChargePileEvent, RunTime, timers, errors, rpc, frame,
                   owed, posted>>

\* ChargepileDataGetSet(Cmd_ChargeStart / Cmd_ChargeStop) called by chargepile:
\* it may be preempted between the test and the assignment.
TestCmd ==
    /\ \/ Main("cmdStart", IF ChgState = "Standby" THEN "setStart" ELSE "switch")
       \/ Main("cmdStop", IF ChgState = "Charging" THEN "setStop" ELSE "switch")
    /\ UNCHANGED <<ChgState, dup, ChargePileEvent, RunTime, timers, errors, rpc, frame,
                   owed, posted>>

SetCmd ==
    /\ \/ Main("setStart", "switch") /\ ChgState' = "ChargStart" /\ owed' = owed \union {"start"}
       \/ Main("setStop", "switch") /\ ChgState' = "ToCheck" /\ owed' = owed \union {"stop"}
    /\ UNCHANGED <<dup, ChargePileEvent, RunTime, timers, errors, rpc, frame, posted>>

\* switch(ChgState), which reads the state once.
Switch ==
    /\ Main("switch",
            CASE ChgState = "WaitVertionCheck" -> "sendVer"
              [] ChgState = "WaitPilePara" -> "sendPara"
              [] ChgState = "ChargStart" -> "sendStart"
              [] ChgState = "ToCheck" -> "sendStop"
              [] ChgState = "ChargEnd" -> "clear"
              [] OTHER -> "sleep")
    /\ UNCHANGED <<ChgState, dup, ChargePileEvent, RunTime, timers, errors, rpc, frame,
                   owed, posted>>

\* Inform_Communicate_Can up to rt_device_write: the frame goes out.
SendFrame ==
    /\ \/ Main("sendVer", "sent") /\ UNCHANGED owed
       \/ Main("sendPara", "sent") /\ UNCHANGED owed
       \/ Main("sendStart", "asked") /\ owed' = owed \ {"start"}
       \/ Main("sendStop", "asked") /\ owed' = owed \ {"stop"}
    /\ UNCHANGED <<ChgState, dup, ChargePileEvent, RunTime, timers, errors, rpc, frame, posted>>

\* Faulty: the state is left as it is.
FrameSentOnly ==
    /\ \/ Main("sent", "sleep")
       \/ Main("asked", "sleep")
    /\ UNCHANGED <<ChgState, dup, ChargePileEvent, RunTime, timers, errors, rpc, frame,
                   owed, posted>>

\* rt_device_write returns.  After the start frame and after the stop frame the
\* same state is stored, whatever the state has become meanwhile.
FrameSent ==
    /\ \/ Main("sent", "sleep") /\ UNCHANGED ChgState
       \/ Main("asked", "sleep") /\ ChgState' = "WaitChargeStartFrameAsk"
    /\ UNCHANGED <<dup, ChargePileEvent, RunTime, timers, errors, rpc, frame, owed, posted>>

\* state_ChargEnd: memset(&StrStateFrame), then the state.
ClearFlags ==
    /\ Main("clear", "standby")
    /\ dup' = {}
    /\ posted' = {}
    /\ UNCHANGED <<ChgState, ChargePileEvent, RunTime, timers, errors, rpc, frame, owed>>

EndToStandby ==
    /\ Main("standby", "sleep")
    /\ ChgState' = "Standby"
    /\ UNCHANGED <<dup, ChargePileEvent, RunTime, timers, errors, rpc, frame, owed, posted>>

\* rt_thread_mdelay returns.
Wake ==
    /\ Main("sleep", "top")
    /\ UNCHANGED <<ChgState, dup, ChargePileEvent, RunTime, timers, errors, rpc, frame,
                   owed, posted>>

MainStep == Boot \/ Top \/ TestCmd \/ SetCmd \/ Switch \/ SendFrame \/ FrameSent
            \/ ClearFlags \/ EndToStandby \/ Wake

-----------------------------------------------------------------------------
(* chargepileRev_thread_entry: CAN_V110_RecProtocal. *)

\* A frame of a kind that is flagged as received is dropped.
Receive(f) ==
    /\ rpc = "idle"
    /\ FlagOf(f) \notin dup

\* ChargeStopFrameAck
RecStopAck ==
    /\ Receive("StopAck")
    /\ dup' = dup \union {"StopAck"}
    /\ ChgState' = "WaitStop"
    /\ UNCHANGED <<ChargePileEvent, RunTime, timers, errors, mpc, rpc, frame, owed, posted>>

\* Faulty: counts as received in any state, as the other frames do.
RecVerMarked ==
    /\ Receive("Ver")
    /\ ChgState' = IF ChgState = "WaitVertionCheck" THEN "WaitPilePara" ELSE ChgState
    /\ dup' = dup \union {"Ver"}
    /\ UNCHANGED <<ChargePileEvent, RunTime, timers, errors, mpc, rpc, frame, owed, posted>>

\* VertionCheckFrameAck counts as received only if it was waited for.
RecVer ==
    /\ Receive("Ver")
    /\ IF ChgState = "WaitVertionCheck"
       THEN ChgState' = "WaitPilePara" /\ dup' = dup \union {"Ver"}
       ELSE UNCHANGED <<ChgState, dup>>
    /\ UNCHANGED <<ChargePileEvent, RunTime, timers, errors, mpc, rpc, frame, owed, posted>>

\* ChargeParaInfoFrameAck is taken in every state; its flag is never set.
RecPara ==
    /\ Receive("Para")
    /\ ChgState' = "Standby"
    /\ UNCHANGED <<dup, ChargePileEvent, RunTime, timers, errors, mpc, rpc, frame, owed, posted>>

\* ChargeStartStateFrame and ChargeStopStateFrame that report a failure.
RecFail ==
    /\ \E f \in {"StartFail", "StopFail"} \intersect Frames :
         Receive(f) /\ dup' = dup \union {FlagOf(f)}
    /\ UNCHANGED <<ChgState, ChargePileEvent, RunTime, timers, errors, mpc, rpc, frame, owed,
                   posted>>

\* UpdateBeginFrame: nothing sets App_Mark or the state, so it only stops timers.
RecUpdateBegin ==
    /\ Receive("UpdateBegin")
    /\ timers' = (timers /\ ChgState # "Standby")
    /\ UNCHANGED <<ChgState, dup, ChargePileEvent, RunTime, errors, mpc, rpc, frame, owed, posted>>

\* Frames that are answered: the handler blocks in Inform_Communicate_Can.
Answered == Success \union {"Timing", "ServeOnOff", "ElecLock", "PowerAdjust", "PileParaInfo",
                            "BadPackage", "UpdateCheck", "Reset"}

RecAnswered ==
    /\ \E f \in Answered \intersect Frames :
        /\ Receive(f)
        /\ frame' = f
        /\ errors' = IF f = "BadPackage" THEN errors + 1 ELSE errors
    /\ rpc' = "answer"
    /\ UNCHANGED <<ChgState, dup, ChargePileEvent, RunTime, timers, mpc, owed, posted>>

Rec == \/ "StopAck" \in Frames /\ RecStopAck
       \/ "Ver" \in Frames /\ RecVer
       \/ "Para" \in Frames /\ RecPara
       \/ "UpdateBegin" \in Frames /\ RecUpdateBegin
       \/ RecFail \/ RecAnswered

\* The answer is out.
Answer(kinds, next) ==
    /\ rpc = "answer"
    /\ frame \in kinds
    /\ rpc' = next
    /\ frame' = IF next = "idle" THEN NoFrame ELSE frame
    /\ UNCHANGED <<RunTime, mpc, owed>>

\* Faulty: the flag is not set.
SuccessUnmarked ==
    /\ Answer(Success, "idle")
    /\ ChgState' = IF frame = "StartOK" THEN "Charging" ELSE "ChargEnd"
    /\ ChargePileEvent' = ChargePileEvent \union {frame}
    /\ posted' = posted \union {frame}
    /\ UNCHANGED <<dup, timers, errors>>

\* The state frames: state, event, flag.
AnsweredSuccess ==
    /\ Answer(Success, "idle")
    /\ ChgState' = IF frame = "StartOK" THEN "Charging" ELSE "ChargEnd"
    /\ ChargePileEvent' = ChargePileEvent \union {frame}
    /\ posted' = posted \union {frame}
    /\ dup' = dup \union {FlagOf(frame)}
    /\ UNCHANGED <<timers, errors>>

\* Inform_Communicate_Can(..., TRUE) sets the flag, (..., FALSE) does not.
AnsweredRequest ==
    /\ Answer({"Timing", "ServeOnOff", "ElecLock", "PowerAdjust", "PileParaInfo",
               "UpdateCheck"}, "idle")
    /\ dup' = IF frame \in {"Timing", "ServeOnOff", "ElecLock"} THEN dup \union {frame} ELSE dup
    /\ UNCHANGED <<ChgState, ChargePileEvent, timers, errors, posted>>

\* Faulty: asks for the package again and again.
PackageRetried ==
    /\ Answer({"BadPackage"}, "idle")
    /\ UNCHANGED <<ChgState, dup, ChargePileEvent, timers, errors, posted>>

\* After the third bad package an error frame is sent as well.
AnsweredPackage ==
    /\ Answer({"BadPackage"}, IF errors >= 3 THEN "error" ELSE "idle")
    /\ UNCHANGED <<ChgState, dup, ChargePileEvent, timers, errors, posted>>

GiveUpUpdate ==
    /\ rpc = "error"
    /\ rpc' = "idle"
    /\ errors' = 0
    /\ ChgState' = "Standby"
    /\ timers' = TRUE
    /\ frame' = NoFrame
    /\ UNCHANGED <<dup, ChargePileEvent, RunTime, mpc, owed, posted>>

\* NVIC_SystemReset
SystemReset ==
    /\ rpc = "answer" /\ frame = "Reset"
    /\ ChgState' = "PowerON"
    /\ dup' = {} /\ ChargePileEvent' = {}
    /\ RunTime' = 0 /\ timers' = TRUE /\ errors' = 0
    /\ mpc' = "boot" /\ rpc' = "idle" /\ frame' = NoFrame
    /\ owed' = {} /\ posted' = {}

RevStep == AnsweredSuccess \/ AnsweredRequest \/ AnsweredPackage \/ GiveUpUpdate \/ SystemReset

-----------------------------------------------------------------------------
(* energycon and the heart timer. *)

\* ChargepileDataGetSet called by energycon: test and assignment in one.
Command ==
    /\ \/ ChgState = "Standby" /\ ChgState' = "ChargStart" /\ owed' = owed \union {"start"}
       \/ ChgState = "Charging" /\ ChgState' = "ToCheck" /\ owed' = owed \union {"stop"}
    /\ UNCHANGED <<dup, ChargePileEvent, RunTime, timers, errors, mpc, rpc, frame, posted>>

\* rt_event_recv(&ChargePileEvent, e, OR | CLEAR) in PileData_RecProcess.
TakeEvent ==
    /\ \E e \in ChargePileEvent : ChargePileEvent' = ChargePileEvent \ {e}
    /\ UNCHANGED <<ChgState, dup, RunTime, timers, errors, mpc, rpc, frame, owed, posted>>

\* CAN_Heart_Tx_callback
Tick ==
    /\ timers
    /\ RunTime' = (RunTime + 1) % (AutoStart * AutoStop)
    /\ UNCHANGED <<ChgState, dup, ChargePileEvent, timers, errors, mpc, rpc, frame, owed, posted>>

Next == MainStep \/ Rec \/ RevStep \/ Command \/ TakeEvent \/ Tick

(***************************************************************************)
(* Fairness.  Both threads go on (their writes return, their delays end), and  *)
(* a pile that is asked for its version or its parameters again and again      *)
(* answers in the end, while it is still being asked.                          *)
(***************************************************************************)
Fairness ==
    /\ WF_vars(MainStep)
    /\ WF_vars(RevStep)
    /\ SF_vars("Ver" \in Frames /\ ChgState = "WaitVertionCheck" /\ RecVer)
    /\ SF_vars("Para" \in Frames /\ ChgState = "WaitPilePara" /\ RecPara)

Spec == Init /\ [][Next]_vars

FairSpec == Spec /\ Fairness

-----------------------------------------------------------------------------

TypeOK ==
    /\ ChgState \in States
    /\ dup \subseteq {FlagOf(f) : f \in FrameKinds}
    /\ ChargePileEvent \subseteq Success
    /\ RunTime \in Nat
    /\ timers \in BOOLEAN
    /\ errors \in 0 .. 3
    /\ mpc \in MainPCs
    /\ rpc \in {"idle", "answer", "error"}
    /\ frame \in FrameKinds \union {NoFrame}
    /\ owed \subseteq {"start", "stop"}
    /\ posted \subseteq Success

\* Between two start (stop) frames on the bus a start (stop) command was
\* accepted: chargepile never repeats a command on its own, whatever
\* ChargepileDataGetSet and the receive handlers store while it is preempted or
\* waits for the bus.
CommandedFramesOnly ==
    /\ mpc = "sendStart" => "start" \in owed
    /\ mpc = "sendStop" => "stop" \in owed

\* A success is reported to energycon at most once until the flags are cleared
\* (state_ChargEnd), however often the pile repeats its frame and whenever
\* chargepile clears them, also while the answer is being sent.
AtMostOnePost == rpc = "answer" /\ frame \in Success => frame \notin posted

\* A charging pile cannot start again: its start frame stays marked as received,
\* but for the moment in which chargepile leaves state_ChargEnd.
ChargingIsMarked ==
    ChgState \in {"Charging", "ToCheck"} => "StartState" \in dup \/ mpc = "standby"

\* The answer chargepile waits for in the handshake is never dropped as a repeat: an
\* answer to a version check that came early, before the boot or after the state had
\* moved on, does not count as received (VertionCheckFrameAck,
\* ChargeParaInfoFrameAck).
AwaitedNotDropped ==
    /\ ChgState = "WaitVertionCheck" => "Ver" \notin dup
    /\ ChgState = "WaitPilePara" => "Para" \notin dup

(* Why they hold, as an inductive invariant. *)

ParaNeverMarked == "Para" \notin dup

NoVersionBeforeBoot == mpc = "boot" => "Ver" \notin dup /\ ChgState # "WaitVertionCheck"

CommandIsOwed ==
    /\ ChgState = "ChargStart" /\ mpc # "asked" => "start" \in owed
    /\ ChgState = "ToCheck" /\ mpc # "asked" => "stop" \in owed

StopIsMarked == mpc = "setStop" => "StartState" \in dup

RetriesBounded == errors = 3 => rpc = "error" \/ (rpc = "answer" /\ frame = "BadPackage")

PostedIsMarked == \A f \in posted : FlagOf(f) \in dup

AnsweredIsNew == rpc = "answer" /\ frame \in Success => FlagOf(frame) \notin dup

Inv ==
    /\ TypeOK
    /\ CommandedFramesOnly
    /\ AtMostOnePost
    /\ ChargingIsMarked
    /\ AwaitedNotDropped
    /\ ParaNeverMarked
    /\ NoVersionBeforeBoot
    /\ StopIsMarked
    /\ RetriesBounded
    /\ CommandIsOwed
    /\ PostedIsMarked
    /\ AnsweredIsNew

\* The handshake ends: version and parameters, lost or answered late, do not
\* leave the router waiting, whatever else the pile sends.
HandshakeCompletes ==
    ChgState = "WaitVertionCheck" ~> ChgState \notin {"WaitVertionCheck", "WaitPilePara"}

\* What the comment "received a repeated command" says of a dropped state frame:
\* its success has been received and reported already.
DroppedIsRepeat ==
    \A f \in Success : rpc = "idle" /\ FlagOf(f) \in dup => f \in posted
=============================================================================
