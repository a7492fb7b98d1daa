----------------------------- MODULE TxService -----------------------------
(***************************************************************************)
(* What a thread that writes to a CAN device may rely on: its frame is tried  *)
(* exactly once, and the write returns after that and with its outcome.       *)
(***************************************************************************)
CONSTANT Senders   \* the threads that write

VARIABLES call,    \* each sender: "idle", "pending", or how its frame ended
          ret      \* what its last write returned, "none" before the first

vars == <<call, ret>>

Outcomes == {"ok", "err"}

Init ==
    /\ call = [t \in Senders |-> "idle"]
    /\ ret = [t \in Senders |-> "none"]

Write(t) ==
    /\ call[t] = "idle"
    /\ call' = [call EXCEPT ![t] = "pending"]
    /\ UNCHANGED ret

\* The frame is on the bus, or was given up.
Transmit(t, outcome) ==
    /\ call[t] = "pending"
    /\ call' = [call EXCEPT ![t] = outcome]
    /\ UNCHANGED ret

Return(t) ==
    /\ call[t] \in Outcomes
    /\ ret' = [ret EXCEPT ![t] = call[t]]
    /\ call' = [call EXCEPT ![t] = "idle"]

Next ==
    \E t \in Senders :
        Write(t) \/ (\E outcome \in Outcomes : Transmit(t, outcome)) \/ Return(t)

Spec == Init /\ [][Next]_vars
=============================================================================
