------------------------------ MODULE RxQueue ------------------------------
(***************************************************************************)
(* What the thread that reads a CAN device may rely on: frames, numbered in   *)
(* the order of their arrival, are delivered in that order and once each, and *)
(* frames are lost only out of a backlog.                                     *)
(***************************************************************************)
EXTENDS Naturals, Sequences

CONSTANT Backlog   \* the length below which nothing is lost

VARIABLES queue,   \* the frames received and not yet delivered
          count,   \* frames that have arrived
          msg      \* the last frame delivered, 0 before the first

vars == <<queue, count, msg>>

Init == queue = <<>> /\ count = 0 /\ msg = 0

Arrive ==
    /\ count' = count + 1
    /\ queue' = Append(queue, count')
    /\ UNCHANGED msg

\* The newest frame takes the place of the one before it.
Overwrite ==
    /\ Len(queue) >= Backlog
    /\ queue # <<>>
    /\ count' = count + 1
    /\ queue' = [queue EXCEPT ![Len(queue)] = count']
    /\ UNCHANGED msg

\* The oldest frame is dropped.
Lose ==
    /\ Len(queue) >= Backlog
    /\ queue # <<>>
    /\ queue' = Tail(queue)
    /\ UNCHANGED <<count, msg>>

Deliver ==
    /\ queue # <<>>
    /\ msg' = Head(queue)
    /\ queue' = Tail(queue)
    /\ UNCHANGED count

Next == Arrive \/ Overwrite \/ Lose \/ Deliver

Spec == Init /\ [][Next]_vars

\* Frames wait in the order of their arrival, after the one delivered last.
InOrder ==
    /\ msg <= count
    /\ \A i \in 1 .. Len(queue) : msg < queue[i] /\ queue[i] <= count
    /\ \A i, j \in 1 .. Len(queue) : i < j => queue[i] < queue[j]
=============================================================================
