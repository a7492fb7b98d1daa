---------------------------- MODULE MCChargePile ----------------------------
(* The frames of the handshake and of a charging cycle, alone and with those of *)
(* the services and the update; short command periods.                         *)
EXTENDS ChargePile

MCCycleFrames == {"Ver", "Para", "StopAck", "StartOK", "StartFail", "StopOK", "StopFail",
                  "Reset"}

\* ServeOnOff and ElecLock are handled like Timing, PileParaInfo and UpdateCheck
\* like PowerAdjust.
MCFrames == MCCycleFrames \union {"Timing", "PowerAdjust", "UpdateBegin", "BadPackage"}
=============================================================================
