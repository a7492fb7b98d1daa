------------------------------ MODULE MCCanRx ------------------------------
(* Two nodes and a FIFO of two mailboxes: both overflow within five frames.   *)
EXTENDS CanRx

MCNodes == {"n1", "n2"}
=============================================================================
