----------------------------- MODULE EventWord -----------------------------
(***************************************************************************)
(* What the callers of 698.c's strategy_event functions rely on: one word   *)
(* of event bits on which setting a bit, taking all bits and looking at them *)
(* are each one indivisible step.                                            *)
(***************************************************************************)
CONSTANTS Threads, Events

VARIABLES word,    \* the bits that are set
          result   \* what each thread's last get or peek returned

Init ==
    /\ word = {}
    /\ result = [t \in Threads |-> {}]

Send(e) ==
    /\ word' = word \union {e}
    /\ UNCHANGED result

Get(t) ==
    /\ result' = [result EXCEPT ![t] = word]
    /\ word' = {}

Peek(t) ==
    /\ result' = [result EXCEPT ![t] = word]
    /\ UNCHANGED word

Next ==
    \/ \E e \in Events : Send(e)
    \/ \E t \in Threads : Get(t) \/ Peek(t)

Spec == Init /\ [][Next]_<<word, result>>
=============================================================================
