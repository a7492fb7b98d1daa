------------------------------- MODULE CanTx -------------------------------
(***************************************************************************)
(* The sending half of the CAN driver: _can_int_tx and the transmit part of  *)
(* rt_hw_can_isr (components/drivers/can/can.c), CAN1_TX_IRQHandler,          *)
(* CAN1_SCE_IRQHandler and drv_sendmsg (drv_can.c), rt_completion.           *)
(*                                                                         *)
(* A writer takes one of the three send boxes, hands its frame to the        *)
(* mailbox of that number and sleeps, without a timeout, until the transmit   *)
(* interrupt completes the box.  Of a frame, only whose header it carries is  *)
(* modelled.                                                                  *)
(***************************************************************************)
EXTENDS Integers, FiniteSets

CONSTANTS Senders,       \* the threads that write to the CAN device
          Prio,          \* RT-Thread priority of each: the smaller, the more urgent
          SndBoxNumber,  \* config.sndboxnumber
          BusErrors      \* can the error-status interrupt occur?

ASSUME SendersAssumption == IsFiniteSet(Senders)
ASSUME PrioAssumption    == Prio \in [Senders -> Nat]
ASSUME BoxesAssumption   == SndBoxNumber \in Nat \ {0}
ASSUME BusAssumption     == BusErrors \in BOOLEAN

Boxes == 0 .. SndBoxNumber - 1

NoBox == SndBoxNumber

VARIABLES
    free,      \* boxes in tx_fifo->freelist; which of them is first is left open
    sem,       \* tx_fifo->sem
    result,    \* buffer[no].result
    done,      \* boxes whose completion has flag RT_COMPLETED
    pc, box,   \* each sender: where it is in _can_int_tx, and tx_tosnd
    TxMessage, \* the driver's one header buffer: {sender it was filled by}, or {}
    header,    \* the header loaded into each mailbox, likewise
    mailbox,   \* hardware: mailboxes with a transmission requested
    rqcp,      \* hardware: the RQCPx flags of the TSR register
    txok,      \* hardware: the TXOKx flags
    irq,       \* the box CAN1_TX_IRQHandler is serving, or NoBox
    outcome,   \* history: how the last request of each mailbox ended
    ret        \* the variable result of each sender's last _can_int_tx

vars == <<free, sem, result, done, pc, box, TxMessage, header, mailbox, rqcp, txok, irq,
          outcome, ret>>
hardware == <<mailbox, rqcp, txok>>

PCs == {"idle", "take", "pick", "send", "load", "wait", "put", "release"}

\* The statements of _can_int_tx during which tx_tosnd is the sender's.
Owns(t) == pc[t] \in {"send", "load", "wait", "put"}

Ready(t) ==
    /\ pc[t] # "idle"
    /\ pc[t] = "take" => sem > 0
    /\ pc[t] = "wait" => box[t] \in done

\* Between interrupt handlers the most urgent ready thread runs.
Thread(t, at) ==
    /\ irq = NoBox
    /\ pc[t] = at
    /\ \A u \in Senders : Ready(u) => Prio[t] <= Prio[u]

Goto(t, label) == pc' = [pc EXCEPT ![t] = label]

\* rt_can_open
Init ==
    /\ free = Boxes
    /\ sem = SndBoxNumber
    /\ result = [b \in Boxes |-> "ok"]
    /\ done = {}
    /\ pc = [t \in Senders |-> "idle"]
    /\ box = [t \in Senders |-> NoBox]
    /\ TxMessage = {} /\ header = [b \in Boxes |-> {}]
    /\ mailbox = {} /\ rqcp = {} /\ txok = {}
    /\ irq = NoBox
    /\ outcome = [b \in Boxes |-> "none"] /\ ret = [t \in Senders |-> "none"]

-----------------------------------------------------------------------------
(* The writer. *)

\* rt_device_write -> rt_can_write -> _can_int_tx; a delay or an event has made
\* the thread ready.
Write(t) ==
    /\ irq = NoBox
    /\ pc[t] = "idle"
    /\ Goto(t, "take")
    /\ UNCHANGED <<free, sem, result, done, box, TxMessage, header, hardware, irq, outcome, ret>>

\* Faulty: the semaphore is tested and not taken.
SemTried(t) ==
    /\ Thread(t, "take")
    /\ sem > 0
    /\ Goto(t, "pick")
    /\ UNCHANGED <<free, sem, result, done, box, TxMessage, header, hardware, irq, outcome, ret>>

\* rt_sem_take(&tx_fifo->sem, RT_WAITING_FOREVER)
SemTake(t) ==
    /\ Thread(t, "take")
    /\ sem > 0
    /\ sem' = sem - 1
    /\ Goto(t, "pick")
    /\ UNCHANGED <<free, result, done, box, TxMessage, header, hardware, irq, outcome, ret>>

\* Faulty: the entry stays in the list.
PickKept(t) ==
    /\ Thread(t, "pick")
    /\ \E b \in free : box' = [box EXCEPT ![t] = b]
    /\ Goto(t, "send")
    /\ UNCHANGED <<free, sem, result, done, TxMessage, header, hardware, irq, outcome, ret>>

\* The first entry of the free list, interrupts disabled.
Pick(t) ==
    /\ Thread(t, "pick")
    /\ \E b \in free :
        /\ free' = free \ {b}
        /\ box' = [box EXCEPT ![t] = b]
    /\ Goto(t, "send")
    /\ UNCHANGED <<sem, result, done, TxMessage, header, hardware, irq, outcome, ret>>

\* drv_sendmsg, up to the header buffer: refused when the mailbox still
\* transmits; then the box goes back and the loop starts over at once.
Send(t) ==
    /\ Thread(t, "send")
    /\ result' = [result EXCEPT ![box[t]] = "wait"]
    /\ IF box[t] \in mailbox
       THEN /\ free' = free \union {box[t]}
            /\ Goto(t, "release")
            /\ UNCHANGED TxMessage
       ELSE /\ TxMessage' = {t}
            /\ Goto(t, "load")
            /\ UNCHANGED free
    /\ UNCHANGED <<sem, done, box, header, hardware, irq, outcome, ret>>

\* The rest of drv_sendmsg: header and data into the mailbox, and the request.
Load(t) ==
    /\ Thread(t, "load")
    /\ header' = [header EXCEPT ![box[t]] = TxMessage]
    /\ mailbox' = mailbox \union {box[t]}
    /\ Goto(t, "wait")
    /\ UNCHANGED <<free, sem, result, done, box, TxMessage, rqcp, txok, irq, outcome, ret>>

\* Faulty: the completion's flag is not cleared.
CompletedKept(t) ==
    /\ Thread(t, "wait")
    /\ box[t] \in done
    /\ Goto(t, "put")
    /\ UNCHANGED <<free, sem, result, done, box, TxMessage, header, hardware, irq, outcome, ret>>

\* rt_completion_wait(..., RT_WAITING_FOREVER) returns and clears the flag.
Completed(t) ==
    /\ Thread(t, "wait")
    /\ box[t] \in done
    /\ done' = done \ {box[t]}
    /\ Goto(t, "put")
    /\ UNCHANGED <<free, sem, result, box, TxMessage, header, hardware, irq, outcome, ret>>

\* Read the result and give the box back, interrupts disabled.
PutBack(t) ==
    /\ Thread(t, "put")
    /\ ret' = [ret EXCEPT ![t] = result[box[t]]]
    /\ free' = free \union {box[t]}
    /\ box' = [box EXCEPT ![t] = NoBox]
    /\ Goto(t, "release")
    /\ UNCHANGED <<sem, result, done, TxMessage, header, hardware, irq, outcome>>

\* rt_sem_release, and the loop's exit or its next round.
Release(t) ==
    /\ Thread(t, "release")
    /\ sem' = sem + 1
    /\ Goto(t, IF box[t] = NoBox THEN "idle" ELSE "take")
    /\ box' = [box EXCEPT ![t] = NoBox]
    /\ UNCHANGED <<free, result, done, TxMessage, header, hardware, irq, outcome, ret>>

Sender(t) ==
    \/ Write(t) \/ SemTake(t) \/ Pick(t) \/ Send(t) \/ Load(t)
    \/ Completed(t) \/ PutBack(t) \/ Release(t)

-----------------------------------------------------------------------------
(* The mailboxes and the interrupt handlers. *)

\* A mailbox's request ends: the frame is on the bus (TXOK) or was given up.
Transmit(b, ok) ==
    /\ b \in mailbox
    /\ mailbox' = mailbox \ {b}
    /\ rqcp' = rqcp \union {b}
    /\ txok' = IF ok THEN txok \union {b} ELSE txok \ {b}
    /\ outcome' = [outcome EXCEPT ![b] = IF ok THEN "ok" ELSE "err"]
    /\ UNCHANGED <<free, sem, result, done, pc, box, TxMessage, header, irq, ret>>

\* Faulty: wakes the sender without a result.
TxIrqNoResult ==
    /\ irq = NoBox
    /\ \E b \in rqcp :
        /\ \A c \in rqcp : b <= c
        /\ done' = done \union {b}
        /\ irq' = b
    /\ UNCHANGED <<free, sem, result, pc, box, TxMessage, header, hardware, outcome, ret>>

\* CAN1_TX_IRQHandler, first half: of the boxes whose RQCPx is set the lowest
\* is reported; rt_hw_can_isr stores the result and rt_completion_done wakes.
TxIrq ==
    /\ irq = NoBox
    /\ \E b \in rqcp :
        /\ \A c \in rqcp : b <= c
        /\ result' = [result EXCEPT ![b] = IF b \in txok THEN "ok" ELSE "err"]
        /\ done' = done \union {b}
        /\ irq' = b
    /\ UNCHANGED <<free, sem, pc, box, TxMessage, header, hardware, outcome, ret>>

\* Second half: SET_BIT(TSR, CAN_TSR_RQCPx) is TSR |= RQCPx.  Flags of TSR are
\* cleared by writing 1, so the flags that read as 1 are cleared with it, and TXOKx
\* falls with RQCPx.
TxIrqClear ==
    /\ irq # NoBox
    /\ rqcp' = {} /\ txok' = {}
    /\ irq' = NoBox
    /\ UNCHANGED <<free, sem, result, done, pc, box, TxMessage, header, mailbox, outcome, ret>>

\* CAN1_SCE_IRQHandler: HAL_CAN_IRQHandler also clears each RQCPx it finds, and
\* calls transmit callbacks that the project leaves empty.
ErrorIrq ==
    /\ BusErrors
    /\ irq = NoBox
    /\ rqcp' = {} /\ txok' = {}
    /\ UNCHANGED <<free, sem, result, done, pc, box, TxMessage, header, mailbox, irq, outcome, ret>>

Next ==
    \/ \E t \in Senders : Sender(t)
    \/ \E b \in Boxes, ok \in BOOLEAN : Transmit(b, ok)
    \/ TxIrq \/ TxIrqClear \/ ErrorIrq

(***************************************************************************)
(* Fairness.  A thread inside _can_int_tx executes when it can (SF where the  *)
(* statement may be blocked again and again), interrupt handlers are served,  *)
(* and the bus carries every requested frame in the end: the controller       *)
(* retransmits by itself (AutoRetransmission = ENABLE).                       *)
(***************************************************************************)
Fairness ==
    /\ \A t \in Senders : SF_vars(Sender(t) /\ pc[t] # "idle")
    /\ \A b \in Boxes : WF_vars(Transmit(b, TRUE) \/ Transmit(b, FALSE))
    /\ WF_vars(TxIrq \/ TxIrqClear)

Spec == Init /\ [][Next]_vars

FairSpec == Spec /\ Fairness

-----------------------------------------------------------------------------

TypeOK ==
    /\ free \subseteq Boxes
    /\ sem \in Int
    /\ result \in [Boxes -> {"ok", "err", "wait"}]
    /\ done \subseteq Boxes
    /\ pc \in [Senders -> PCs]
    /\ box \in [Senders -> Boxes \union {NoBox}]
    /\ TxMessage \subseteq Senders
    /\ header \in [Boxes -> SUBSET Senders]
    /\ mailbox \subseteq Boxes
    /\ rqcp \subseteq Boxes
    /\ txok \subseteq Boxes
    /\ irq \in Boxes \union {NoBox}
    /\ outcome \in [Boxes -> {"none", "ok", "err"}]
    /\ ret \in [Senders -> {"none", "ok", "err", "wait"}]

\* Every box is either free or with exactly one sender, however senders and
\* handlers interleave: none is leaked, none is used twice (_can_int_tx moves
\* boxes with interrupts disabled, but decides on the semaphore outside).
BoxesConserved ==
    /\ \A t \in Senders : Owns(t) => box[t] \in Boxes \ free
    /\ \A s, t \in Senders : Owns(s) /\ Owns(t) /\ box[s] = box[t] => s = t
    /\ \A b \in Boxes \ free : \E t \in Senders : Owns(t) /\ box[t] = b

\* Whoever is past rt_sem_take finds a box in the free list, although the
\* semaphore and the list change in separate steps (RT_ASSERT(tx_tosnd !=
\* RT_NULL) could not tell: the entry of an empty list is not null).
ListNotEmpty == sem >= 0 /\ \A t \in Senders : pc[t] = "pick" => free # {}

\* Neither transmitting, nor flagged, nor completed, nor being reported.
Quiet(b) == b \notin mailbox \union rqcp \union done \union {irq}

\* The box a sender is about to use has an idle mailbox, no flag in TSR and no
\* completion left from an earlier frame: sendmsg is never refused (the refusal
\* path retries in a loop that does not sleep), and a sender never takes an
\* earlier frame's completion for its own.
BoxIsFresh == \A t \in Senders : pc[t] \in {"send", "load"} => Quiet(box[t])

\* A result is there when its sender is woken: rt_hw_can_isr writes it before
\* rt_completion_done.
WokenWithResult ==
    \A t \in Senders :
        (pc[t] = "put" \/ (pc[t] = "wait" /\ box[t] \in done)) => result[box[t]] # "wait"

(* Why they hold, as an inductive invariant. *)

\* Senders for which the list and the semaphore differ by one.
InTransit == {t \in Senders : pc[t] \in {"pick", "release"}}

SemAccounts == Cardinality(free) = sem + Cardinality(InTransit)

FreeBoxesQuiet ==
    /\ \A b \in free : Quiet(b)
    /\ \A t \in Senders : pc[t] = "put" => Quiet(box[t])

\* A box is in one stage of its transmission at a time.
OneStage ==
    /\ mailbox \intersect (rqcp \union done \union {irq}) = {}
    /\ \A b \in done : b \in rqcp => irq = b
    /\ irq \in Boxes => irq \in done

ResultWritten == \A b \in done : result[b] # "wait"

\* The flags, then the result, tell how the request of the box ended.
OutcomeReported ==
    /\ \A b \in rqcp : outcome[b] = IF b \in txok THEN "ok" ELSE "err"
    /\ \A b \in done : result[b] = outcome[b]
    /\ \A t \in Senders : pc[t] = "put" => result[box[t]] = outcome[box[t]]

Inv ==
    /\ TypeOK
    /\ BoxesConserved
    /\ SemAccounts
    /\ ListNotEmpty
    /\ BoxIsFresh
    /\ WokenWithResult
    /\ FreeBoxesQuiet
    /\ OneStage
    /\ ResultWritten
    /\ OutcomeReported

(***************************************************************************)
(* The service of TxService: a write is pending until the request of its      *)
(* mailbox ends, and over when its box is given back.                         *)
(***************************************************************************)

CallOf(t) ==
    CASE pc[t] = "idle" \/ (pc[t] = "release" /\ box[t] = NoBox) -> "idle"
      [] pc[t] \in {"wait", "put"} /\ box[t] \notin mailbox       -> outcome[box[t]]
      [] OTHER                                                    -> "pending"

Service == INSTANCE TxService WITH call <- [t \in Senders |-> CallOf(t)]

\* A frame is tried once for each rt_device_write, and the write returns after that try
\* has ended and with its outcome, never with that of another frame, although mailbox,
\* completion and result are reused and the result travels through an interrupt
\* (_can_int_tx, CAN1_TX_IRQHandler, rt_hw_can_isr).
IsTxService == Service!Spec

\* rt_device_write returns: a sender that waits for its completion gets it.
SendReturns == \A t \in Senders : (pc[t] = "wait") ~> (pc[t] # "wait")

\* A frame goes out under the identifier its sender gave it ("Set up the Id" in
\* drv_sendmsg).
OwnHeader == \A t \in Senders : pc[t] = "wait" => header[box[t]] = {t}
=============================================================================
