---------------------------- MODULE CanTxProofs ----------------------------
(***************************************************************************)
(* CanTx!Inv is an invariant for any finite set of senders and any number    *)
(* of send boxes.                                                            *)
(***************************************************************************)
EXTENDS CanTx, FiniteSetTheorems, TLAPS

\* Everything but the semaphore's account.
BoxInv ==
    /\ TypeOK
    /\ BoxesConserved
    /\ BoxIsFresh
    /\ WokenWithResult
    /\ FreeBoxesQuiet
    /\ OneStage
    /\ ResultWritten
    /\ OutcomeReported

\* NoBox is no box number.
LEMMA NoBoxIsNoBox == NoBox \notin Boxes
  BY BoxesAssumption DEF NoBox, Boxes

\* What a set's cardinality becomes when one element joins or leaves it.
LEMMA CardChange ==
  ASSUME NEW S, IsFiniteSet(S), NEW x
  PROVE  /\ Cardinality(S) \in Nat
         /\ x \notin S => Cardinality(S \union {x}) = Cardinality(S) + 1
         /\ x \in S => Cardinality(S \ {x}) = Cardinality(S) - 1
  BY FS_CardinalityType, FS_AddElement, FS_RemoveElement

\* The free list and the set of senders in transit are finite.
LEMMA FiniteParts ==
  ASSUME TypeOK
  PROVE  IsFiniteSet(free) /\ IsFiniteSet(InTransit)
  <1>1. IsFiniteSet(Boxes)
    BY BoxesAssumption, FS_Interval DEF Boxes
  <1> QED
    BY <1>1, SendersAssumption, FS_Subset DEF TypeOK, InTransit

\* rt_can_open establishes the invariant.
LEMMA InitInv == Init => BoxInv
  BY NoBoxIsNoBox, BoxesAssumption
  DEF Init, BoxInv, TypeOK, BoxesConserved, BoxIsFresh, WokenWithResult, FreeBoxesQuiet,
      OneStage, ResultWritten, OutcomeReported, Owns, Quiet, PCs

\* Every step of a sender keeps the boxes in order.
LEMMA SenderKeepsBoxInv ==
  ASSUME BoxInv, NEW t \in Senders, Sender(t)
  PROVE  BoxInv'
  <1> USE NoBoxIsNoBox DEF BoxInv, TypeOK, Thread, Goto, PCs, hardware
  <1>1. CASE Write(t)
    BY <1>1 DEF Write, BoxesConserved, BoxIsFresh, WokenWithResult, FreeBoxesQuiet,
      OneStage, ResultWritten, OutcomeReported, Owns, Quiet
  <1>2. CASE SemTake(t)
    BY <1>2 DEF SemTake, BoxesConserved, BoxIsFresh, WokenWithResult, FreeBoxesQuiet,
      OneStage, ResultWritten, OutcomeReported, Owns, Quiet
  <1>3. CASE Pick(t)
    BY <1>3 DEF Pick, BoxesConserved, BoxIsFresh, WokenWithResult, FreeBoxesQuiet,
      OneStage, ResultWritten, OutcomeReported, Owns, Quiet
  <1>4. CASE Send(t)
    BY <1>4 DEF Send, BoxesConserved, BoxIsFresh, WokenWithResult, FreeBoxesQuiet,
      OneStage, ResultWritten, OutcomeReported, Owns, Quiet
  <1>4a. CASE Load(t)
    BY <1>4a DEF Load, BoxesConserved, BoxIsFresh, WokenWithResult, FreeBoxesQuiet,
      OneStage, ResultWritten, OutcomeReported, Owns, Quiet
  <1>5. CASE Completed(t)
    BY <1>5 DEF Completed, BoxesConserved, BoxIsFresh, WokenWithResult, FreeBoxesQuiet,
      OneStage, ResultWritten, OutcomeReported, Owns, Quiet
  <1>6. CASE PutBack(t)
    BY <1>6 DEF PutBack, BoxesConserved, BoxIsFresh, WokenWithResult, FreeBoxesQuiet,
      OneStage, ResultWritten, OutcomeReported, Owns, Quiet
  <1>7. CASE Release(t)
    BY <1>7 DEF Release, BoxesConserved, BoxIsFresh, WokenWithResult, FreeBoxesQuiet,
      OneStage, ResultWritten, OutcomeReported, Owns, Quiet
  <1> QED
    BY <1>1, <1>2, <1>3, <1>4, <1>4a, <1>5, <1>6, <1>7 DEF Sender

\* So does every step of the hardware and of the interrupt handlers.
LEMMA DeviceKeepsBoxInv ==
  ASSUME BoxInv
  PROVE  /\ \A b \in Boxes, ok \in BOOLEAN : Transmit(b, ok) => BoxInv'
         /\ TxIrq => BoxInv'
         /\ TxIrqClear => BoxInv'
         /\ ErrorIrq => BoxInv'
  <1> USE NoBoxIsNoBox DEF BoxInv, TypeOK, PCs, hardware
  <1>1. ASSUME NEW b \in Boxes, NEW ok \in BOOLEAN, Transmit(b, ok)
        PROVE  BoxInv'
    BY <1>1 DEF Transmit, BoxesConserved, BoxIsFresh, WokenWithResult, FreeBoxesQuiet,
      OneStage, ResultWritten, OutcomeReported, Owns, Quiet
  <1>2. TxIrq => BoxInv'
    BY DEF TxIrq, BoxesConserved, BoxIsFresh, WokenWithResult, FreeBoxesQuiet,
      OneStage, ResultWritten, OutcomeReported, Owns, Quiet
  <1>3. TxIrqClear => BoxInv'
    BY DEF TxIrqClear, BoxesConserved, BoxIsFresh, WokenWithResult, FreeBoxesQuiet,
      OneStage, ResultWritten, OutcomeReported, Owns, Quiet
  <1>4. ErrorIrq => BoxInv'
    BY DEF ErrorIrq, BoxesConserved, BoxIsFresh, WokenWithResult, FreeBoxesQuiet,
      OneStage, ResultWritten, OutcomeReported, Owns, Quiet
  <1> QED
    BY <1>1, <1>2, <1>3, <1>4

\* A sender's step changes the semaphore, the list and the senders in transit
\* so that the account stays even.
LEMMA SenderKeepsAccount ==
  ASSUME BoxInv, SemAccounts, sem >= 0, NEW t \in Senders, Sender(t)
  PROVE  SemAccounts' /\ sem' >= 0
  <1> USE DEF Thread, Goto
  <1>0. TypeOK /\ IsFiniteSet(free) /\ IsFiniteSet(InTransit)
    BY FiniteParts DEF BoxInv
  <1>1. /\ Cardinality(InTransit) \in Nat
        /\ Cardinality(free) \in Nat
        /\ t \notin InTransit => Cardinality(InTransit \union {t}) = Cardinality(InTransit) + 1
        /\ t \in InTransit => Cardinality(InTransit \ {t}) = Cardinality(InTransit) - 1
    BY <1>0, CardChange
  <1>2. \A b : /\ b \notin free => Cardinality(free \union {b}) = Cardinality(free) + 1
               /\ b \in free => Cardinality(free \ {b}) = Cardinality(free) - 1
    BY <1>0, CardChange
  <1>3. CASE Write(t)
    <2>1. InTransit' = InTransit /\ free' = free /\ sem' = sem
      BY <1>3, <1>0 DEF Write, TypeOK, InTransit
    <2> QED
      BY <2>1 DEF SemAccounts
  <1>4. CASE SemTake(t)
    <2>1. /\ t \notin InTransit /\ InTransit' = InTransit \union {t}
          /\ free' = free /\ sem' = sem - 1 /\ sem > 0
      BY <1>4, <1>0 DEF SemTake, TypeOK, InTransit
    <2> QED
      BY <2>1, <1>0, <1>1 DEF SemAccounts, TypeOK
  <1>5. CASE Pick(t)
    <2>1. t \in InTransit /\ InTransit' = InTransit \ {t} /\ sem' = sem
      BY <1>5, <1>0 DEF Pick, TypeOK, InTransit
    <2>2. PICK b \in free : free' = free \ {b}
      BY <1>5 DEF Pick
    <2> QED
      BY <2>1, <2>2, <1>0, <1>1, <1>2 DEF SemAccounts, TypeOK
  <1>6. CASE Send(t)
    <2>1. InTransit' = InTransit /\ free' = free /\ sem' = sem
      BY <1>6, <1>0 DEF Send, TypeOK, InTransit, BoxInv, BoxIsFresh, Quiet
    <2> QED
      BY <2>1 DEF SemAccounts
  <1>6a. CASE Load(t)
    <2>1. InTransit' = InTransit /\ free' = free /\ sem' = sem
      BY <1>6a, <1>0 DEF Load, TypeOK, InTransit
    <2> QED
      BY <2>1 DEF SemAccounts
  <1>7. CASE Completed(t)
    <2>1. InTransit' = InTransit /\ free' = free /\ sem' = sem
      BY <1>7, <1>0 DEF Completed, TypeOK, InTransit
    <2> QED
      BY <2>1 DEF SemAccounts
  <1>8. CASE PutBack(t)
    <2>1. /\ t \notin InTransit /\ InTransit' = InTransit \union {t}
          /\ free' = free \union {box[t]} /\ box[t] \notin free /\ sem' = sem
      BY <1>8, <1>0 DEF PutBack, TypeOK, InTransit, BoxInv, BoxesConserved, Owns
    <2> QED
      BY <2>1, <1>0, <1>1, <1>2 DEF SemAccounts, TypeOK
  <1>9. CASE Release(t)
    <2>1. t \in InTransit /\ InTransit' = InTransit \ {t} /\ free' = free /\ sem' = sem + 1
      BY <1>9, <1>0 DEF Release, TypeOK, InTransit
    <2> QED
      BY <2>1, <1>0, <1>1 DEF SemAccounts, TypeOK
  <1> QED
    BY <1>3, <1>4, <1>5, <1>6, <1>6a, <1>7, <1>8, <1>9 DEF Sender

\* The account covers every sender that is about to take from the list.
LEMMA AccountGivesList == TypeOK /\ SemAccounts /\ sem >= 0 => ListNotEmpty
  <1> SUFFICES ASSUME TypeOK, SemAccounts, sem >= 0, NEW t \in Senders, pc[t] = "pick"
               PROVE  free # {}
    BY DEF ListNotEmpty
  <1>1. t \in InTransit
    BY DEF InTransit
  <1>2. Cardinality(InTransit) \in Nat /\ Cardinality(InTransit) # 0
    BY <1>1, FiniteParts, FS_CardinalityType, FS_EmptySet
  <1>3. Cardinality({}) = 0
    BY FS_EmptySet
  <1>4. sem \in Int
    BY DEF TypeOK
  <1> QED
    BY <1>2, <1>3, <1>4 DEF SemAccounts

\* Boxes, semaphore, completions and mailboxes of _can_int_tx and its
\* interrupt handlers stay consistent, for any number of senders and boxes.
THEOREM InvAlways == Spec => []Inv
  <1>1. Init => Inv
    <2> SUFFICES ASSUME Init PROVE Inv
      OBVIOUS
    <2>1. BoxInv
      BY InitInv
    <2>2. InTransit = {} /\ free = 0 .. SndBoxNumber - 1 /\ sem = SndBoxNumber
      BY DEF Init, InTransit, Boxes
    <2>3. Cardinality(0 .. SndBoxNumber - 1) = SndBoxNumber
      BY BoxesAssumption, FS_Interval
    <2>4. SemAccounts /\ sem >= 0
      BY <2>2, <2>3, FS_EmptySet, BoxesAssumption DEF SemAccounts
    <2> QED
      BY <2>1, <2>4, AccountGivesList DEF BoxInv, Inv
  <1>2. Inv /\ [Next]_vars => Inv'
    <2>a. (TypeOK /\ SemAccounts /\ sem >= 0)' => ListNotEmpty'
      BY AccountGivesList, PTL
    <2> SUFFICES ASSUME Inv, [Next]_vars
                 PROVE  BoxInv' /\ SemAccounts' /\ sem' >= 0
      BY <2>a DEF BoxInv, Inv
    <2>0. BoxInv /\ SemAccounts /\ sem >= 0
      BY DEF Inv, BoxInv, ListNotEmpty
    <2>1. CASE \E t \in Senders : Sender(t)
      BY <2>0, <2>1, SenderKeepsBoxInv, SenderKeepsAccount
    <2>2. ASSUME \/ \E b \in Boxes, ok \in BOOLEAN : Transmit(b, ok)
                 \/ TxIrq \/ TxIrqClear \/ ErrorIrq
          PROVE  BoxInv' /\ SemAccounts' /\ sem' >= 0
      <3>1. BoxInv'
        BY <2>0, <2>2, DeviceKeepsBoxInv
      <3>2. InTransit' = InTransit /\ free' = free /\ sem' = sem
        BY <2>2 DEF Transmit, TxIrq, TxIrqClear, ErrorIrq, InTransit
      <3> QED
        BY <2>0, <3>1, <3>2 DEF SemAccounts
    <2>3. CASE UNCHANGED vars
      BY <2>0, <2>3 DEF vars, BoxInv, TypeOK, BoxesConserved, BoxIsFresh, WokenWithResult,
        FreeBoxesQuiet, OneStage, ResultWritten, OutcomeReported, SemAccounts, InTransit,
        Owns, Quiet
    <2> QED
      BY <2>1, <2>2, <2>3 DEF Next
  <1> QED
    BY <1>1, <1>2, PTL DEF Spec

\* No send box is leaked or shared.
THEOREM BoxesConservedAlways == Spec => []BoxesConserved
  <1>1. Inv => BoxesConserved
    BY DEF Inv
  <1> QED
    BY <1>1, InvAlways, PTL

\* A sender past the semaphore finds a box.
THEOREM ListNotEmptyAlways == Spec => []ListNotEmpty
  <1>1. Inv => ListNotEmpty
    BY DEF Inv
  <1> QED
    BY <1>1, InvAlways, PTL

\* A sender never meets a busy mailbox or an earlier frame's completion.
THEOREM BoxIsFreshAlways == Spec => []BoxIsFresh
  <1>1. Inv => BoxIsFresh
    BY DEF Inv
  <1> QED
    BY <1>1, InvAlways, PTL

\* A sender is never woken before the result of its frame has been written.
THEOREM WokenWithResultAlways == Spec => []WokenWithResult
  <1>1. Inv => WokenWithResult
    BY DEF Inv, BoxInv
  <1> QED
    BY <1>1, InvAlways, PTL

-----------------------------------------------------------------------------
(* The refinement of TxService. *)

\* A mailbox that transmits belongs to one sender, which waits for it.
LEMMA MailboxHasWaiter ==
  ASSUME BoxInv, NEW b \in mailbox
  PROVE  \E t \in Senders : /\ pc[t] = "wait" /\ box[t] = b
                            /\ \A u \in Senders : Owns(u) /\ box[u] = b => u = t
  <1>1. b \in Boxes /\ b \notin free
    BY DEF BoxInv, TypeOK, FreeBoxesQuiet, Quiet
  <1>2. PICK t \in Senders : Owns(t) /\ box[t] = b
    BY <1>1 DEF BoxInv, BoxesConserved
  <1>3. pc[t] \notin {"send", "load", "put"}
    BY <1>2 DEF BoxInv, BoxIsFresh, FreeBoxesQuiet, Quiet
  <1>4. pc[t] = "wait"
    BY <1>2, <1>3 DEF Owns
  <1>5. \A u \in Senders : Owns(u) /\ box[u] = b => u = t
    BY <1>2 DEF BoxInv, BoxesConserved
  <1> QED
    BY <1>2, <1>4, <1>5

\* The call of a sender depends on its own place, its box and that box's mailbox.
LEMMA CallStays ==
  ASSUME NEW t, pc'[t] = pc[t], box'[t] = box[t],
         pc[t] \in {"wait", "put"} =>
             /\ box[t] \in mailbox' <=> box[t] \in mailbox
             /\ outcome'[box[t]] = outcome[box[t]]
  PROVE  CallOf(t)' = CallOf(t)
  BY DEF CallOf

\* A sender's step is a step of the service or changes nothing of it.
LEMMA SenderServes ==
  ASSUME BoxInv, NEW t \in Senders, Sender(t)
  PROVE  [Service!Next]_(Service!vars)
  <1> DEFINE calls == [u \in Senders |-> CallOf(u)]
  <1> USE NoBoxIsNoBox
  <1>0. /\ pc \in [Senders -> PCs] /\ box \in [Senders -> Boxes \union {NoBox}]
        /\ ret \in [Senders -> {"none", "ok", "err", "wait"}]
        /\ Owns(t) => box[t] \in Boxes
    BY DEF BoxInv, TypeOK, BoxesConserved
  <1>1. ASSUME NEW u \in Senders, u # t
        PROVE  CallOf(u)' = CallOf(u)
    <2>1. pc'[u] = pc[u] /\ box'[u] = box[u] /\ outcome' = outcome
      BY <1>0, <1>1
      DEF Sender, Write, SemTake, Pick, Send, Load, Completed, PutBack, Release, Thread, Goto
    <2>2. pc[u] \in {"wait", "put"} => (box[u] \in mailbox' <=> box[u] \in mailbox)
      <3>1. CASE Load(t)
        <4>1. Owns(t) /\ mailbox' = mailbox \union {box[t]}
          BY <3>1 DEF Load, Thread, Owns
        <4>2. pc[u] \in {"wait", "put"} => box[u] # box[t]
          BY <1>1, <4>1 DEF BoxInv, BoxesConserved, Owns
        <4> QED
          BY <4>1, <4>2
      <3>2. CASE ~Load(t)
        BY <3>2
        DEF Sender, Write, SemTake, Pick, Send, Completed, PutBack, Release, hardware
      <3> QED
        BY <3>1, <3>2
    <2> QED
      BY <2>1, <2>2, CallStays
  <1>2. CASE Write(t)
    <2>1. CallOf(t) = "idle" /\ CallOf(t)' = "pending" /\ ret' = ret
      BY <1>0, <1>2 DEF Write, Goto, CallOf
    <2>2. calls' = [calls EXCEPT ![t] = "pending"] /\ calls[t] = "idle"
      BY <1>1, <2>1
    <2> QED
      BY <2>1, <2>2 DEF Service!Next, Service!Write
  <1>3. CASE PutBack(t)
    <2>1. /\ pc[t] = "put" /\ box[t] \notin mailbox /\ result[box[t]] = outcome[box[t]]
          /\ result[box[t]] # "wait" /\ box[t] \in Boxes
      BY <1>0, <1>3 DEF PutBack, Thread, BoxInv, FreeBoxesQuiet, Quiet, OutcomeReported,
        WokenWithResult, Owns
    <2>2. outcome[box[t]] \in {"ok", "err"}
      <3>1. result[box[t]] \in {"ok", "err", "wait"}
        BY <2>1 DEF BoxInv, TypeOK
      <3> QED
        BY <2>1, <3>1
    <2>3. CallOf(t) = outcome[box[t]]
      BY <2>1 DEF CallOf
    <2>4. CallOf(t)' = "idle"
      BY <1>0, <1>3 DEF PutBack, Goto, CallOf
    <2>5. ret' = [ret EXCEPT ![t] = outcome[box[t]]]
      BY <1>3, <2>1 DEF PutBack
    <2>6. calls' = [calls EXCEPT ![t] = "idle"] /\ calls[t] = outcome[box[t]]
      BY <1>1, <2>3, <2>4
    <2> QED
      BY <2>2, <2>5, <2>6 DEF Service!Next, Service!Return, Service!Outcomes
  <1>4. CASE ~Write(t) /\ ~PutBack(t)
    <2>1. ret' = ret
      BY <1>4 DEF Sender, SemTake, Pick, Send, Load, Completed, Release
    <2>2. CallOf(t)' = CallOf(t)
      <3>1. CASE SemTake(t) \/ Pick(t) \/ Send(t)
        <4>1. pc[t] \in {"take", "pick", "send"}
          BY <3>1 DEF SemTake, Pick, Send, Thread
        <4>2. \/ pc'[t] \in {"pick", "send", "load"}
              \/ pc'[t] = "release" /\ box'[t] \in Boxes
          BY <1>0, <3>1 DEF SemTake, Pick, Send, Goto, Thread, Owns
        <4> QED
          BY <4>1, <4>2 DEF CallOf
      <3>2. CASE Load(t)
        <4>1. pc[t] = "load" /\ pc'[t] = "wait" /\ box'[t] \in mailbox'
          BY <1>0, <3>2 DEF Load, Thread, Goto
        <4> QED
          BY <4>1 DEF CallOf
      <3>3. CASE Completed(t)
        <4>1. /\ pc[t] = "wait" /\ pc'[t] = "put" /\ box' = box /\ mailbox' = mailbox
              /\ outcome' = outcome
          BY <1>0, <3>3 DEF Completed, Thread, Goto, hardware
        <4> QED
          BY <4>1 DEF CallOf
      <3>4. CASE Release(t)
        <4>1. pc[t] = "release" /\ pc'[t] = IF box[t] = NoBox THEN "idle" ELSE "take"
          BY <1>0, <3>4 DEF Release, Thread, Goto
        <4> QED
          BY <4>1 DEF CallOf
      <3> QED
        BY <1>4, <3>1, <3>2, <3>3, <3>4 DEF Sender
    <2>3. calls' = calls
      BY <1>1, <2>2
    <2> QED
      BY <2>1, <2>3 DEF Service!vars
  <1> QED
    BY <1>2, <1>3, <1>4

\* The end of a mailbox's request is the try of its waiter's frame; the interrupt
\* handlers change nothing of the service.
LEMMA DeviceServes ==
  ASSUME BoxInv,
         \/ \E b \in Boxes, ok \in BOOLEAN : Transmit(b, ok)
         \/ TxIrq \/ TxIrqClear \/ ErrorIrq \/ UNCHANGED vars
  PROVE  [Service!Next]_(Service!vars)
  <1> DEFINE calls == [u \in Senders |-> CallOf(u)]
  <1>1. ASSUME NEW b \in Boxes, NEW ok \in BOOLEAN, Transmit(b, ok)
        PROVE  [Service!Next]_(Service!vars)
    <2> DEFINE end == IF ok THEN "ok" ELSE "err"
    <2>1. /\ b \in mailbox /\ mailbox' = mailbox \ {b} /\ pc' = pc /\ box' = box
          /\ outcome' = [outcome EXCEPT ![b] = end] /\ ret' = ret
      BY <1>1 DEF Transmit
    <2>2. outcome \in [Boxes -> {"none", "ok", "err"}]
      BY DEF BoxInv, TypeOK
    <2>3. PICK t \in Senders : /\ pc[t] = "wait" /\ box[t] = b
                               /\ \A u \in Senders : Owns(u) /\ box[u] = b => u = t
      BY <2>1, MailboxHasWaiter
    <2>4. CallOf(t) = "pending" /\ CallOf(t)' = end
      BY <2>1, <2>2, <2>3 DEF CallOf
    <2>5. ASSUME NEW u \in Senders, u # t
          PROVE  CallOf(u)' = CallOf(u)
      <3>1. pc[u] \in {"wait", "put"} => box[u] # b
        BY <2>3, <2>5 DEF Owns
      <3>2. pc[u] \in {"wait", "put"} =>
              /\ box[u] \in mailbox' <=> box[u] \in mailbox
              /\ outcome'[box[u]] = outcome[box[u]]
        BY <2>1, <2>2, <3>1
      <3> QED
        BY <2>1, <3>2, CallStays
    <2>6. end \in {"ok", "err"}
      OBVIOUS
    <2> HIDE DEF end
    <2>7. calls' = [calls EXCEPT ![t] = end] /\ calls[t] = "pending"
      BY <2>4, <2>5
    <2> QED
      BY <2>1, <2>6, <2>7 DEF Service!Next, Service!Transmit, Service!Outcomes
  <1>2. CASE TxIrq \/ TxIrqClear \/ ErrorIrq \/ UNCHANGED vars
    <2>1. UNCHANGED <<pc, box, mailbox, outcome, ret>>
      BY <1>2 DEF TxIrq, TxIrqClear, ErrorIrq, vars, hardware
    <2>2. calls' = calls
      BY <2>1, CallStays
    <2> QED
      BY <2>1, <2>2 DEF Service!vars
  <1> QED
    BY <1>1, <1>2

\* _can_int_tx and its interrupt handlers implement the service for any number of
\* senders and boxes: a frame is tried once for each write, and the write returns the
\* outcome of its own frame.
THEOREM ImplementsTxService == Spec => IsTxService
  <1>1. Init => Service!Init
    BY DEF Init, Service!Init, CallOf
  <1>2. Inv /\ [Next]_vars => [Service!Next]_(Service!vars)
    <2> SUFFICES ASSUME Inv, [Next]_vars PROVE [Service!Next]_(Service!vars)
      OBVIOUS
    <2>1. BoxInv
      BY DEF Inv, BoxInv
    <2> QED
      BY <2>1, SenderServes, DeviceServes DEF Next
  <1> QED
    BY <1>1, <1>2, InvAlways, PTL DEF Spec, IsTxService, Service!Spec
=============================================================================
