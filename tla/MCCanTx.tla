------------------------------ MODULE MCCanTx ------------------------------
(* The two threads that send on CAN1, and a third one.                        *)
EXTENDS CanTx

MCSenders == {"chargepile", "chargepileRev"}

\* More senders than boxes: the semaphore runs out.
MCManySenders == {"chargepile", "chargepileRev", "other"}

MCPrio == [t \in Senders |-> CASE t = "chargepileRev" -> 20
                               [] t = "chargepile"    -> 21
                               [] OTHER               -> 22]
=============================================================================
