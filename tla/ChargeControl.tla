--------------------------- MODULE ChargeControl ---------------------------
(***************************************************************************)
(* The way of a charging command through the router and of its answer back:   *)
(*   - hplc (698.c) receives command frames, keeps a copy and sets the         *)
(*     command's bit in strategy_event; in every round of its receiver it      *)
(*     calls check_afair_from_botom, which answers for the bits of hplc_event; *)
(*   - energycon (energycon.c), once a second, looks for reports of the pile   *)
(*     (PileData_RecProcess) and takes commands (CtrlData_RecProcess); it      *)
(*     answers through CtrlUnit_RecResp, which sets bits of hplc_event;        *)
(*   - chargepileRev posts the pile's successes in ChargePileEvent;            *)
(*   - the one-shot response timers expire in the tick interrupt.              *)
(* hplc_event is guarded by the flags of hplc_698_state (FlagLock), and unlike *)
(* those of the event word they are held across a sleep: security_get_package  *)
(* calls the ESAM, and the delays of ESAM_Send_and_Recv, called with the         *)
(* scheduler locked, suspend its thread when rt_exit_critical unlocks it.        *)
(* Functions of the event word are one step each, as StrategyEvent implements    *)
(* EventWord.  Between two rounds hplc may sleep: in the delay of its polling,   *)
(* in the ESAM that decodes a secured frame, and in the event word's lock.       *)
(***************************************************************************)
EXTENDS FlagLock, FiniteSets

CONSTANTS MaxFrames,   \* bound: command frames the station sends
          MaxReports   \* bound: reports the pile makes

ASSUME ControlAssumption ==
    /\ Threads = {"hplc", "energycon"}
    /\ Prio["hplc"] < Prio["energycon"]
    /\ MaxFrames \in Nat /\ MaxReports \in Nat

\* Commands that energycon handles, and the plan commands (ChgPlanIssue,
\* ChgPlanAdjust, ChgPlanIssueGet) nobody takes out of the word but energycon.
Commands == {"Start", "Stop"}
FrameKinds == Commands \union {"Plan"}

VARIABLES
    strategy_event,   \* commands set for the control threads
    hplc_event,       \* answers set for hplc
    stored,           \* kinds of command whose frame hplc has kept
    ChargePileEvent,  \* commands whose success chargepileRev has posted
    flags,            \* startchg_flag, stopchg_flag
    timers,           \* StartChgResp, StopChgResp are running
    halted,           \* the hard fault handler has the processor
    hpc, hcmd,        \* what hplc does next, and the frame it handles
    epc, ecmd, reg,   \* what energycon does next, its command, hplc_event as read
    answering,        \* the command whose answer hplc packs
    frames,           \* history: command frames received, per kind
    taken, reports, confirmed, answers, \* history: counts per command
    overlap           \* history: both threads have been inside the lock at once

control == <<strategy_event, stored, flags, timers, frames, taken>>
report  == <<ChargePileEvent, reports, confirmed>>
acks    == <<hplc_event, answering, answers>>
vars == <<lockVars, control, report, acks, halted, hpc, hcmd, epc, ecmd, reg,
          overlap>>

Init ==
    /\ LockInit
    /\ strategy_event = {} /\ hplc_event = {} /\ ChargePileEvent = {}
    /\ stored = {} /\ flags = {} /\ timers = {}
    /\ halted = FALSE
    /\ hpc = "poll" /\ hcmd = "Plan"
    /\ epc = "sleep" /\ ecmd = "Start" /\ reg = {}
    /\ answering = "Start"
    /\ frames = [k \in FrameKinds |-> 0]
    /\ taken = [c \in Commands |-> 0] /\ reports = [c \in Commands |-> 0]
    /\ confirmed = [c \in Commands |-> 0] /\ answers = [c \in Commands |-> 0]
    /\ overlap = FALSE

\* A thread calls a function that takes the lock.
CallLocked(t) ==
    /\ pc[t] = "idle"
    /\ Goto(t, "test1")
    /\ UNCHANGED <<lock1, lock2>>

-----------------------------------------------------------------------------
(* hplc: hplc_thread_entry and get_single_frame_frome_hplc. *)

\* No byte: check_afair_from_botom, then 200 ms of sleep.
Poll ==
    /\ hpc = "poll"
    /\ CallLocked("hplc")
    /\ UNCHANGED <<control, report, acks, halted, hpc, hcmd, epc, ecmd, reg>>

\* A command frame is complete: check_afair_from_botom before it is handled.
ReceiveFrame(k) ==
    /\ hpc = "poll"
    /\ frames["Start"] + frames["Stop"] + frames["Plan"] < MaxFrames
    /\ CallLocked("hplc")
    /\ hpc' = "handle" /\ hcmd' = k
    /\ frames' = [frames EXCEPT ![k] = @ + 1]
    /\ UNCHANGED <<strategy_event, stored, flags, timers, taken, report, acks,
                   halted, epc, ecmd, reg>>

\* The handler looks whether the last command of this kind is still pending, and
\* goes on in either case ("return 2" is commented out).
Handle ==
    /\ hpc = "handle"
    /\ CallLocked("hplc")
    /\ hpc' = "store"
    /\ UNCHANGED <<control, report, acks, halted, hcmd, epc, ecmd, reg>>

\* Faulty: the event without the frame.
StoreFrameOnly ==
    /\ hpc = "store"
    /\ CallLocked("hplc")
    /\ strategy_event' = strategy_event \union {hcmd}
    /\ hpc' = "poll"
    /\ UNCHANGED <<stored, flags, timers, frames, taken, report, acks,
                   halted, hcmd, epc, ecmd, reg>>

\* copy_698_frame, strategy_event_send; the next round begins.
StoreFrame ==
    /\ hpc = "store"
    /\ CallLocked("hplc")
    /\ stored' = stored \union {hcmd}
    /\ strategy_event' = strategy_event \union {hcmd}
    /\ hpc' = "poll"
    /\ UNCHANGED <<flags, timers, frames, taken, report, acks, halted,
                   hcmd, epc, ecmd, reg>>

HplcCall == Poll \/ (\E k \in FrameKinds : ReceiveFrame(k)) \/ Handle \/ StoreFrame

-----------------------------------------------------------------------------
(* hplc inside check_afair_from_botom. *)

Inside(t) == Running(t) /\ pc[t] = "cs"

\* Each bit is looked at once: that of start, and then that of stop.
Looks == Running("hplc") /\ pc["hplc"] \in {"cs", "cs2"}

AckBit == IF pc["hplc"] = "cs" THEN "Start" ELSE "Stop"

\* From the look at c to the next one, or to the unlock.
LookedAt(c) == Goto("hplc", IF c = "Start" THEN "cs2" ELSE "rel2")

\* Faulty: the bit stays set, as those of the plan answers do.
PackKept ==
    /\ Looks /\ AckBit \in hplc_event
    /\ answering' = AckBit
    /\ Goto("hplc", "nap")
    /\ UNCHANGED <<lock1, lock2, hplc_event, answers>>

\* The bit is cleared, the stored frame is turned into an answer, and
\* security_get_package waits for the ESAM.  energycon's result (cSucIdle) is not
\* asked for: the DAR octet of both answers is the constant 0, success.
Pack ==
    /\ Looks /\ AckBit \in hplc_event
    /\ hplc_event' = hplc_event \ {AckBit}
    /\ answering' = AckBit
    /\ Goto("hplc", "nap")
    /\ UNCHANGED <<lock1, lock2, answers>>

\* The byte behind the stored frame, left over from an earlier one, is taken for a
\* time tag: no answer is sent.
PackFails ==
    /\ Looks /\ AckBit \in hplc_event
    /\ hplc_event' = hplc_event \ {AckBit}
    /\ LookedAt(AckBit)
    /\ UNCHANGED <<lock1, lock2, answering, answers>>

\* The ESAM has answered: hplc_tx_frame.
SendAnswer ==
    /\ pc["hplc"] = "nap"
    /\ answers' = [answers EXCEPT ![answering] = @ + 1]
    /\ LookedAt(answering)
    /\ UNCHANGED <<lock1, lock2, hplc_event, answering>>

\* The bit is not set.  If energycon, let in by the sleep, sets it after this, it waits
\* for the next call.
NoAck ==
    /\ Looks /\ AckBit \notin hplc_event
    /\ LookedAt(AckBit)
    /\ UNCHANGED <<lock1, lock2, acks>>

check_afair_from_botom ==
    /\ Pack \/ PackFails \/ SendAnswer \/ NoAck
    /\ UNCHANGED <<control, report, halted, hpc, hcmd, epc, ecmd, reg>>

-----------------------------------------------------------------------------
(* energycon inside CtrlUnit_RecResp. *)

Load ==
    /\ Inside("energycon")
    /\ reg' = hplc_event
    /\ Goto("energycon", "cs2")
    /\ UNCHANGED <<lock1, lock2, hplc_event>>

\* Faulty: Cmd_StopChg falls into the default branch, which returns without unlocking.
StoreAckReturns ==
    /\ Running("energycon") /\ pc["energycon"] = "cs2"
    /\ hplc_event' = IF epc = "fetch" THEN hplc_event ELSE reg \union {ecmd}
    /\ Goto("energycon", IF epc = "fetch" /\ ecmd = "Stop" THEN "idle" ELSE "rel2")
    /\ UNCHANGED <<lock1, lock2, reg>>

\* Faulty: Cmd_StopChgAck sets no bit, as Cmd_StopChg does not.
StoreAckStartOnly ==
    /\ Running("energycon") /\ pc["energycon"] = "cs2"
    /\ hplc_event' = IF epc = "fetch" \/ ecmd = "Stop" THEN hplc_event ELSE reg \union {ecmd}
    /\ Goto("energycon", "rel2")
    /\ UNCHANGED <<lock1, lock2, reg>>

\* Cmd_StartChgAck and Cmd_StopChgAck set their bit; Cmd_StartChg and Cmd_StopChg
\* change nothing, not even the structure they are to fill.
StoreAck ==
    /\ Running("energycon") /\ pc["energycon"] = "cs2"
    /\ hplc_event' = IF epc = "fetch" THEN hplc_event ELSE reg \union {ecmd}
    /\ Goto("energycon", "rel2")
    /\ UNCHANGED <<lock1, lock2, reg>>

CtrlUnit_RecResp ==
    /\ Load \/ StoreAck
    /\ UNCHANGED <<control, report, answering, answers, halted, hpc, hcmd, epc, ecmd>>

-----------------------------------------------------------------------------
(* energycon_thread_entry: PileData_RecProcess, CtrlData_RecProcess, 1 s. *)

\* energycon is past the lock function it called last.
Energycon(at) == epc = at /\ pc["energycon"] = "idle"

\* From the part for start to the part for stop, and from there to the commands.
NextPart ==
    IF ecmd = "Start" THEN epc' = "pile" /\ ecmd' = "Stop"
                      ELSE epc' = "ctrl" /\ ecmd' = ecmd

Second ==
    /\ Energycon("sleep")
    /\ epc' = "pile" /\ ecmd' = "Start"
    /\ UNCHANGED <<lockVars, control, report, acks, halted, hpc, hcmd, reg>>

\* No command of this kind is pending, or rt_event_recv timed out, and so did the
\* one for the failure, which nobody posts.
NoReport ==
    /\ Energycon("pile")
    /\ ecmd \notin flags \/ ecmd \notin ChargePileEvent
    /\ NextPart
    /\ UNCHANGED <<lockVars, control, report, acks, halted, hpc, hcmd, reg>>

\* Faulty: rt_event_recv without RT_EVENT_FLAG_CLEAR.
TakeReportKept ==
    /\ Energycon("pile")
    /\ ecmd \in flags /\ ecmd \in ChargePileEvent
    /\ confirmed' = [confirmed EXCEPT ![ecmd] = @ + 1]
    /\ timers' = timers \ {ecmd}
    /\ epc' = "confirm"
    /\ CallLocked("energycon")
    /\ UNCHANGED <<strategy_event, stored, flags, frames, taken, ChargePileEvent,
                   reports, acks, halted, hpc, hcmd, ecmd, reg>>

TakeReport ==
    /\ Energycon("pile")
    /\ ecmd \in flags /\ ecmd \in ChargePileEvent
    /\ ChargePileEvent' = ChargePileEvent \ {ecmd}
    /\ confirmed' = [confirmed EXCEPT ![ecmd] = @ + 1]
    /\ timers' = timers \ {ecmd}
    /\ epc' = "confirm"
    /\ CallLocked("energycon")
    /\ UNCHANGED <<strategy_event, stored, flags, frames, taken, reports, acks,
                   halted, hpc, hcmd, ecmd, reg>>

\* CtrlUnit_RecResp has returned 0.
Confirmed ==
    /\ Energycon("confirm")
    /\ flags' = flags \ {ecmd}
    /\ NextPart
    /\ UNCHANGED <<lockVars, strategy_event, stored, timers, frames, taken, report,
                   acks, halted, hpc, hcmd, reg>>

\* switch(strategy_event_get()) with one of its two cases.
TakeCommand ==
    /\ Energycon("ctrl")
    /\ \E c \in Commands :
        /\ strategy_event = {c}
        /\ ecmd' = c
        /\ flags' = flags \union {c}
        /\ taken' = [taken EXCEPT ![c] = @ + 1]
    /\ strategy_event' = {}
    /\ epc' = "fetch"
    /\ CallLocked("energycon")
    /\ UNCHANGED <<stored, timers, frames, report, acks, halted, hpc,
                   hcmd, reg>>

\* The default case: no event, a plan command, or several commands at once.
DropCommands ==
    /\ Energycon("ctrl")
    /\ \A c \in Commands : strategy_event # {c}
    /\ strategy_event' = {}
    /\ epc' = "sleep"
    /\ UNCHANGED <<lockVars, stored, flags, timers, frames, taken, report, acks,
                   halted, hpc, hcmd, ecmd, reg>>

\* Ctrl_Start and Ctrl_Stop were not filled.  Their asset numbers are not the router's,
\* which storage_thread_init has set, so a start is refused; a stop passes by its
\* OrderSn, as empty as that of Ctrl_Start.  Fault.Total is never TRUE in this build.
Accepted == ecmd = "Stop"

\* ChargepileDataGetSet, whose result is ignored, and the response timer.
Order ==
    /\ Energycon("fetch")
    /\ Accepted
    /\ timers' = timers \union {ecmd}
    /\ epc' = "sleep"
    /\ UNCHANGED <<lockVars, strategy_event, stored, flags, frames, taken, report,
                   acks, halted, hpc, hcmd, ecmd, reg>>

\* The command is answered and its flag stays TRUE.
Refuse ==
    /\ Energycon("fetch")
    /\ ~Accepted
    /\ epc' = "refuse"
    /\ CallLocked("energycon")
    /\ UNCHANGED <<control, report, acks, halted, hpc, hcmd, ecmd, reg>>

Refused ==
    /\ Energycon("refuse")
    /\ epc' = "sleep"
    /\ UNCHANGED <<lockVars, control, report, acks, halted, hpc, hcmd, ecmd, reg>>

EnergyconStep == Second \/ NoReport \/ TakeReport \/ Confirmed \/ TakeCommand \/ DropCommands
                 \/ Order \/ Refuse \/ Refused

-----------------------------------------------------------------------------
(* The pile and the timers. *)

\* chargepileRev posts a success: the pile may report one in any state, ordered or not.
Report(c) ==
    /\ reports["Start"] + reports["Stop"] < MaxReports
    /\ reports' = [reports EXCEPT ![c] = @ + 1]
    /\ ChargePileEvent' = ChargePileEvent \union {c}
    /\ UNCHANGED <<lockVars, control, confirmed, acks, halted, hpc, hcmd, epc, ecmd,
                   reg>>

\* StartChgResp_Timeout, StopChgResp_Timeout: ChargepileDataGetSet writes through the
\* null pointer it is given, which faults or does nothing; nobody is told.
Timeout(c) ==
    /\ c \in timers
    /\ timers' = timers \ {c}
    /\ halted' \in BOOLEAN
    /\ UNCHANGED <<lockVars, strategy_event, stored, flags, frames, taken, report,
                   acks, hpc, hcmd, epc, ecmd, reg>>

Locking(t) ==
    /\ LockStep(t)
    /\ UNCHANGED <<control, report, acks, halted, hpc, hcmd, epc, ecmd, reg>>

\* While the processor is not halted; the history of the lock.
Watched == ~halted /\ overlap' = (overlap \/ ~MutualExclusion')

HplcStep == (HplcCall \/ check_afair_from_botom \/ Locking("hplc")) /\ Watched

EnergyStep == (EnergyconStep \/ CtrlUnit_RecResp \/ Locking("energycon")) /\ Watched

Environment == (\E c \in Commands : Report(c) \/ Timeout(c)) /\ Watched

Halted == halted /\ UNCHANGED vars

Next == HplcStep \/ EnergyStep \/ Environment \/ Halted

(***************************************************************************)
(* Fairness.  hplc polls for ever and sleeps between its rounds, energycon     *)
(* runs once a second, the ESAM answers.  Nothing obliges the station to send,  *)
(* the pile to report or a timer to expire before it is stopped.                *)
(***************************************************************************)
Fairness == WF_vars(HplcStep) /\ SF_vars(EnergyStep)

Spec == Init /\ [][Next]_vars

FairSpec == Spec /\ Fairness

-----------------------------------------------------------------------------

TypeOK ==
    /\ LockTypeOK
    /\ strategy_event \subseteq FrameKinds /\ stored \subseteq FrameKinds
    /\ hplc_event \subseteq Commands /\ reg \subseteq Commands
    /\ ChargePileEvent \subseteq Commands
    /\ flags \subseteq Commands /\ timers \subseteq Commands
    /\ halted \in BOOLEAN /\ overlap \in BOOLEAN
    /\ hpc \in {"poll", "handle", "store"} /\ hcmd \in FrameKinds
    /\ epc \in {"sleep", "pile", "confirm", "ctrl", "fetch", "refuse"} /\ ecmd \in Commands
    /\ answering \in Commands
    /\ frames \in [FrameKinds -> Nat]
    /\ taken \in [Commands -> Nat] /\ reports \in [Commands -> Nat]
    /\ confirmed \in [Commands -> Nat] /\ answers \in [Commands -> Nat]

One(P) == IF P THEN 1 ELSE 0

\* A start that is taken can be answered twice, since its refusal leaves
\* startchg_flag TRUE for the next report of the pile.
AnswersPer(c) == IF c = "Start" THEN 2 ELSE 1

\* The station gets at most one answer for a stop that energycon took, and at most two
\* for a start (CtrlData_RecProcess, PileData_RecProcess, check_afair_from_botom):
\* nothing but the lock letting both threads in can repeat an answer.
AnswersAccounted ==
    overlap \/ \A c \in Commands : answers[c] <= AnswersPer(c) * taken[c]

\* One report of the pile confirms one command at most: what is left in
\* ChargePileEvent from an earlier start can answer one later command, not two
\* (rt_event_recv with RT_EVENT_FLAG_CLEAR in PileData_RecProcess).
ReportUsedOnce ==
    \A c \in Commands : confirmed[c] + One(c \in ChargePileEvent) <= reports[c]

\* A command frame is taken once at most, whatever hplc does between its arrival and the
\* setting of the event, and whatever else is in the word when energycon looks
\* (StoreFrame's strategy_event_send, strategy_event_get in CtrlData_RecProcess).
CommandTakenOnce ==
    \A c \in Commands :
        taken[c] + One(c \in strategy_event) + One(hpc # "poll" /\ hcmd = c) <= frames[c]

\* Every pending command, and every answer hplc is to pack, has its frame stored: hplc
\* never builds an answer from an empty _698_FRAME (copy_698_frame before
\* strategy_event_send).
FramesStored ==
    /\ strategy_event \subseteq stored
    /\ flags \subseteq stored
    /\ hplc_event \union reg \subseteq stored
    /\ epc \in {"confirm", "fetch", "refuse"} => ecmd \in flags

(* Why the answers are accounted for, as an inductive invariant. *)

\* energycon calls CtrlUnit_RecResp only for a command it has taken.
CalledForCommand ==
    pc["energycon"] # "idle" => epc \in {"confirm", "fetch", "refuse"}

\* While the lock has excluded, what energycon has read of hplc_event is current.
ReadIsCurrent ==
    overlap \/ (MutualExclusion /\ (pc["energycon"] = "cs2" => reg = hplc_event))

\* energycon is about to set the answer's bit, or will refuse the command.
AckDue(c) ==
    /\ ecmd = c
    /\ \/ epc \in {"confirm", "refuse"} /\ pc["energycon"] \notin {"idle", "rel2", "rel1"}
       \/ epc = "fetch" /\ ~Accepted

\* Answers that are under way or that the pending flag still allows.
Outstanding(c) ==
    One(c \in hplc_event) + One(pc["hplc"] = "nap" /\ answering = c)
    + One(AckDue(c)) + One(c \in flags /\ ~(epc = "confirm" /\ ecmd = c))

AnswersBudgeted ==
    overlap \/ \A c \in Commands : answers[c] + Outstanding(c) <= AnswersPer(c) * taken[c]

\* Every command, report and answer between hplc and energycon is accounted for at every
\* statement (CtrlUnit_RecResp, check_afair_from_botom, PileData_RecProcess).
Inv ==
    /\ TypeOK
    /\ FramesStored
    /\ ReportUsedOnce
    /\ CalledForCommand
    /\ ReadIsCurrent
    /\ AnswersBudgeted
    /\ CommandTakenOnce
    /\ FlagsHaveHolders

\* A command that is alone in the word when energycon looks is taken, whatever answers
\* are under way at the locks (CtrlData_RecProcess).
AloneIsTaken ==
    \A c \in Commands :
        strategy_event = {c} ~> c \in flags \/ Cardinality(strategy_event) > 1 \/ halted

\* The pile's report on a pending command becomes an answer for hplc, unless an earlier
\* report is just confirming that command: then it stays behind for the next one
\* (PileData_RecProcess).  A faulting timer may stop the router first.
ReportIsRelayed ==
    \A c \in Commands :
        /\ c \in flags /\ c \in ChargePileEvent
        /\ ~(epc = "confirm" /\ ecmd = c)
        ~> c \in hplc_event \/ halted

\* An answer that energycon gave is packed by hplc: neither thread is left waiting for
\* the flags of hplc_698_state, although they are held across the ESAM exchange and a
\* thread may hold one of them only (CtrlUnit_RecResp, check_afair_from_botom).
AnswerIsPacked ==
    \A c \in Commands : c \in hplc_event ~> c \notin hplc_event \/ halted
=============================================================================
