------------------------------- MODULE CanRx -------------------------------
(***************************************************************************)
(* The receiving half of the CAN driver and its reader: CAN1_RX0_IRQHandler   *)
(* and drv_recvmsg (drv_can.c), _can_int_rx and the receive part of           *)
(* rt_hw_can_isr (components/drivers/can/can.c), can_rx_ind and               *)
(* chargepileRev_thread_entry (chargepile.c).  Frames are numbered in the     *)
(* order the controller accepts them; their contents play no part.            *)
(***************************************************************************)
EXTENDS Integers, FiniteSets, SequencesExt

CONSTANTS Nodes,       \* the msgboxsz message nodes of rx_fifo
          FifoDepth,   \* mailboxes of the controller's receive FIFO
          MaxFrames    \* bound: frames that arrive in a behaviour

ASSUME NodesAssumption == IsFiniteSet(Nodes) /\ Nodes # {}
ASSUME DepthAssumption == FifoDepth \in Nat \ {0} /\ MaxFrames \in Nat

VARIABLES
    arrived,       \* frames the controller has accepted
    hw,            \* its receive FIFO
    fovr,          \* FOVR0 of RF0R
    isr,           \* CAN1_RX0_IRQHandler is running
    RxMessage,     \* drv_can1.RxMessage
    free,          \* rx_fifo->freelist; which node is first is left open
    use,           \* rx_fifo->uselist
    data,          \* the frame in each node
    freenumbers,   \* rx_fifo->freenumbers
    indicate,      \* rx_indicate is installed
    early,         \* history: the last frame taken in before it was
    event,         \* CAN_RX_EVENT is set in can_rx_event
    pc,            \* where chargepileRev is
    held,          \* its listmsg
    g_RxMessage    \* the frame it handles

controller == <<arrived, hw, fovr, isr, RxMessage>>
fifo       == <<free, use, data, freenumbers>>
reader     == <<indicate, early, pc, held, g_RxMessage>>
vars       == <<controller, fifo, event, reader>>

NoFrame == 0

\* rt_can_open has built the lists and enabled the receive interrupts; the
\* callback is not installed and the reader not started yet.
Init ==
    /\ arrived = 0 /\ hw = <<>> /\ fovr = FALSE /\ isr = FALSE /\ RxMessage = NoFrame
    /\ free = Nodes /\ use = <<>> /\ freenumbers = Cardinality(Nodes)
    /\ data = [n \in Nodes |-> NoFrame]
    /\ indicate = FALSE /\ early = NoFrame /\ event = FALSE
    /\ pc = "boot" /\ g_RxMessage = NoFrame
    /\ held \in Nodes

-----------------------------------------------------------------------------
(* The controller and its interrupt handler. *)

\* A full FIFO that is not locked (ReceiveFifoLocked = DISABLE) overwrites its
\* newest frame.
Arrive ==
    /\ arrived < MaxFrames
    /\ arrived' = arrived + 1
    /\ IF Len(hw) < FifoDepth
       THEN hw' = Append(hw, arrived') /\ UNCHANGED fovr
       ELSE hw' = [hw EXCEPT ![FifoDepth] = arrived'] /\ fovr' = TRUE
    /\ UNCHANGED <<isr, RxMessage, fifo, event, reader>>

IsrEnter ==
    /\ ~isr
    /\ hw # <<>>
    /\ isr' = TRUE
    /\ UNCHANGED <<arrived, hw, fovr, RxMessage, fifo, event, reader>>

\* Faulty: indicates only the first frame of a burst.
IndicateFirst == event' = (event \/ (indicate /\ use = <<>>))

\* rx_indicate: can_rx_ind sends CAN_RX_EVENT.
Indicate == event' = (event \/ indicate)

\* rt_hw_can_isr, RX_IND: put the frame into a free node or, when there is none,
\* into the oldest used one; then the callback.
Enqueue(frame) ==
    /\ IF free # {}
       THEN \E n \in free :
              /\ free' = free \ {n}
              /\ freenumbers' = freenumbers - 1
              /\ data' = [data EXCEPT ![n] = frame]
              /\ use' = Append(use, n)
       ELSE /\ data' = IF use = <<>> THEN data ELSE [data EXCEPT ![Head(use)] = frame]
            /\ use' = IF use = <<>> THEN use ELSE Append(Tail(use), Head(use))
            /\ UNCHANGED <<free, freenumbers>>
    /\ Indicate

\* Faulty: RFOM0 is written alone, FOVR0 stays, and RXOF_IND still has no break.
IsrFrameKeepsFovr ==
    /\ isr
    /\ hw # <<>>
    /\ RxMessage' = Head(hw)
    /\ hw' = Tail(hw)
    /\ Enqueue(Head(hw))
    /\ UNCHANGED <<arrived, fovr, isr, reader>>

\* One round of the handler's loop.  SET_BIT(RF0R, RFOM0) releases the mailbox
\* and writes back a 1 to FOVR0 if it read one, which clears it.
IsrFrame ==
    /\ isr
    /\ hw # <<>>
    /\ RxMessage' = Head(hw)
    /\ hw' = Tail(hw)
    /\ fovr' = FALSE
    /\ Enqueue(Head(hw))
    /\ UNCHANGED <<arrived, isr, reader>>

\* The FIFO is drained.  RXOF_IND has no break: after counting the overrun it
\* runs into RX_IND, which takes in RxMessage again.
IsrLeave ==
    /\ isr
    /\ hw = <<>>
    /\ IF fovr THEN Enqueue(RxMessage) ELSE UNCHANGED <<fifo, event>>
    /\ fovr' = FALSE
    /\ isr' = FALSE
    /\ UNCHANGED <<arrived, hw, RxMessage, reader>>

-----------------------------------------------------------------------------
(* The thread chargepileRev, which runs when no handler does. *)

Thread(at) == ~isr /\ pc = at

\* chargepile_thread_init: rt_device_set_rx_indicate, then the thread starts.
Install ==
    /\ Thread("boot")
    /\ indicate' = TRUE
    /\ early' = RxMessage
    /\ pc' = "poll"
    /\ UNCHANGED <<controller, fifo, event, held, g_RxMessage>>

\* rt_event_recv(..., AND | CLEAR, 0): does not wait.
Poll ==
    /\ Thread("poll")
    /\ pc' = IF event THEN "read" ELSE "sleep"
    /\ event' = FALSE
    /\ UNCHANGED <<controller, fifo, indicate, early, held, g_RxMessage>>

\* rt_thread_mdelay(can1RevCycle) returns.
Delay ==
    /\ Thread("sleep")
    /\ pc' = "poll"
    /\ UNCHANGED <<controller, fifo, event, indicate, early, held, g_RxMessage>>

\* Faulty: the node stays in the list while it is copied.
TakeKept ==
    /\ Thread("read")
    /\ IF use = <<>>
       THEN pc' = "sleep" /\ UNCHANGED held
       ELSE pc' = "copy" /\ held' = Head(use)
    /\ UNCHANGED <<controller, fifo, event, indicate, early, g_RxMessage>>

\* Faulty: the newest node.
TakeNewest ==
    /\ Thread("read")
    /\ IF use = <<>>
       THEN pc' = "sleep" /\ UNCHANGED <<use, held>>
       ELSE pc' = "copy" /\ held' = Last(use) /\ use' = Front(use)
    /\ UNCHANGED <<controller, free, data, freenumbers, event, indicate, early, g_RxMessage>>

\* _can_int_rx: the oldest used node, interrupts disabled; none ends the loop.
Take ==
    /\ Thread("read")
    /\ IF use = <<>>
       THEN pc' = "sleep" /\ UNCHANGED <<use, held>>
       ELSE pc' = "copy" /\ held' = Head(use) /\ use' = Tail(use)
    /\ UNCHANGED <<controller, free, data, freenumbers, event, indicate, early, g_RxMessage>>

\* rt_memcpy(data, &listmsg->data), interrupts enabled.
Copy ==
    /\ Thread("copy")
    /\ g_RxMessage' = data[held]
    /\ pc' = "put"
    /\ UNCHANGED <<controller, fifo, event, indicate, early, held>>

\* The node goes back; then CAN_V110_RecProtocal() and the next read.
PutNode ==
    /\ Thread("put")
    /\ free' = free \union {held}
    /\ freenumbers' = freenumbers + 1
    /\ pc' = "read"
    /\ UNCHANGED <<controller, use, data, event, indicate, early, held, g_RxMessage>>

Reader == Install \/ Poll \/ Delay \/ Take \/ Copy \/ PutNode

Next == Arrive \/ IsrEnter \/ IsrFrame \/ IsrLeave \/ Reader

(***************************************************************************)
(* Fairness.  A pending interrupt is served; the reader, which a handler may  *)
(* interrupt again and again, goes on in the end.                             *)
(***************************************************************************)
Fairness ==
    /\ WF_vars(IsrEnter \/ IsrFrame \/ IsrLeave)
    /\ SF_vars(Reader)

Spec == Init /\ [][Next]_vars

FairSpec == Spec /\ Fairness

-----------------------------------------------------------------------------

PCs == {"boot", "poll", "sleep", "read", "copy", "put"}

TypeOK ==
    /\ arrived \in 0 .. MaxFrames
    /\ hw \in Seq(1 .. MaxFrames) /\ Len(hw) <= FifoDepth
    /\ fovr \in BOOLEAN /\ isr \in BOOLEAN /\ indicate \in BOOLEAN /\ event \in BOOLEAN
    /\ RxMessage \in 0 .. MaxFrames /\ g_RxMessage \in 0 .. MaxFrames
    /\ early \in 0 .. MaxFrames
    /\ free \subseteq Nodes
    /\ use \in Seq(Nodes)
    /\ data \in [Nodes -> 0 .. MaxFrames]
    /\ freenumbers \in 0 .. Cardinality(Nodes)
    /\ pc \in PCs
    /\ held \in Nodes

Holding == pc \in {"copy", "put"}

\* Every node is in exactly one place, and freenumbers counts the free ones,
\* whatever frames arrive between the three short sections of _can_int_rx: its
\* and rt_hw_can_isr's assertions on freenumbers hold.
NodesConserved ==
    /\ freenumbers = Cardinality(free)
    /\ free \union ToSet(use) \union (IF Holding THEN {held} ELSE {}) = Nodes
    /\ free \intersect ToSet(use) = {}
    /\ Holding => held \notin free \union ToSet(use)
    /\ \A i, j \in 1 .. Len(use) : use[i] = use[j] => i = j

\* Frames not yet handed to the reader, oldest first.
Pending == [i \in 1 .. Len(use) |-> data[use[i]]] \o hw

\* Everything from the frame being handled to the newest one.
Stream == <<g_RxMessage>> \o (IF pc = "copy" THEN <<data[held]>> ELSE <<>>) \o Pending

\* The reader gets the frames in the order they arrived and none twice, also
\* when the FIFO or the nodes overflow: the fall-through of RXOF_IND never
\* repeats a frame, and no handler overwrites the node being copied.
InOrderOnce == \A i, j \in 1 .. Len(Stream) : i < j => Stream[i] < Stream[j]

\* The reader clears the event before it empties the list, and polls: it does
\* not go to sleep on a frame that came in after the callback was installed.
WakeupNotLost ==
    pc \in {"sleep", "poll"} /\ (\E n \in ToSet(use) : data[n] > early) => event

\* What was last handed to the reader, copied or not.
Delivered == IF pc = "copy" THEN data[held] ELSE g_RxMessage

Queue == INSTANCE RxQueue WITH
           queue <- Pending, count <- arrived, msg <- Delivered,
           Backlog <- IF FifoDepth < Cardinality(Nodes) THEN FifoDepth ELSE Cardinality(Nodes)

\* For its reader the driver is a queue that loses frames only out of a backlog
\* of as many frames as the FIFO or the nodes hold.
IsRxQueue == Queue!Spec

(* Why they hold, as parts of an inductive invariant. *)

\* An overrun is noticed while the FIFO is full: RFOM0 clears FOVR0 before the FIFO is
\* drained, so that RXOF_IND never takes in a frame.
OverrunIsFull == fovr => Len(hw) = FifoDepth

Installed == indicate <=> pc # "boot"

\* RxMessage is the last frame taken in.
LastTakenIn == \A i \in 1 .. Len(use) : data[use[i]] <= RxMessage

CopiesNext == pc = "copy" => g_RxMessage < data[held]

\* The nodes, the FIFO and the frames in them stay in step through every interleaving of
\* the controller, CAN1_RX0_IRQHandler, rt_hw_can_isr and _can_int_rx.
Inv ==
    /\ TypeOK
    /\ NodesConserved
    /\ OverrunIsFull /\ Installed
    /\ Queue!InOrder
    /\ LastTakenIn /\ CopiesNext
    /\ WakeupNotLost

\* A frame that arrives once the callback is installed, or a newer one in its
\* place, is handed to CAN_V110_RecProtocal in the end.
NewestIsHandled ==
    \A f \in 1 .. MaxFrames :
        (indicate /\ arrived = f /\ f > early) ~> (g_RxMessage >= f)
=============================================================================
