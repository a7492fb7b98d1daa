-------------------------- MODULE MCFrameReceiver --------------------------
(* A short frame behind a preamble, one with 0x68 in it whose header is spoilt, one
   with a spoilt tail, a cut one, one whose length is the buffer's, one too long, and
   a 645 request. *)
EXTENDS FrameReceiver

MCKinds == {"good", "badHeader", "badTail", "cut", "full", "long", "ask645"}

F(pre, head, size, bytes) == [bytes |-> bytes, pre |-> pre, head |-> head, size |-> size]

MCBurst ==
    [good      |-> F(1, 9, 12, <<254, 104, 10, 0, 67, 0, 1, 1, 1, 1, 2, 2, 22>>),
     badHeader |-> F(0, 0, 0,  <<104, 10, 0, 67, 0, 1, 1, 1, 9, 104, 1, 0>>),
     badTail   |-> F(0, 9, 0,  <<104, 10, 0, 67, 15, 1, 1, 1, 1, 2, 2, 22>>),
     cut       |-> F(0, 0, 0,  <<104, 10, 0, 67>>),
     full      |-> F(0, 9, 14, <<104, 12, 0, 67, 0, 1, 1, 1, 1, 1, 1, 2, 2, 22>>),
     long      |-> F(0, 0, 0,  <<104, 13, 0, 67, 0, 1>>),
     ask645    |-> F(0, 0, 0,  <<104, 170, 170, 170, 170, 170, 170, 104, 19, 0, 223, 22>>)]
=============================================================================
