------------------------------ MODULE SerialRx ------------------------------
(***************************************************************************)
(* Reception on a serial port with circular DMA (drv_usart.c, serial.c): the  *)
(* DMA stream writes bytes into the ring of bufsz; the threads learn of them   *)
(* only when the line falls idle (uart_isr) or the DMA reaches the end of the   *)
(* ring (HAL_UART_RxCpltCallback), whose handlers move put_index; a thread      *)
(* reads one byte at get_index.  Bytes are numbered in the order they came.     *)
(*                                                                         *)
(* The stream's interrupt is more urgent than the UART's, and a byte takes a    *)
(* millisecond: it is served before the next byte comes and before uart_isr     *)
(* goes on.  Threads run when no handler does.                                  *)
(***************************************************************************)
EXTENDS Integers

CONSTANT bufsz   \* bytes in the ring

ASSUME BufszAssumption == bufsz \in Nat /\ bufsz > 1

Slots == 0..(bufsz - 1)

VARIABLES
    came,         \* bytes the line has brought
    ring,         \* the byte last written into each slot, 0 for none
    dma,          \* the slot the DMA writes next: bufsz less its counter
    tc, idle,     \* pending: end of the ring reached, line idle
    isr, length,  \* where uart_isr is, and the length it has computed
    last_index, put_index, get_index, is_full,
    reported      \* history: bytes reported to the fifo

line     == <<came, ring, dma>>
irq      == <<tc, idle, isr, length, last_index>>
fifo     == <<put_index, get_index, is_full, reported>>
serialVars == <<line, irq, fifo>>

SerialInit ==
    /\ came = 0 /\ ring = [i \in Slots |-> 0] /\ dma = 0
    /\ tc = FALSE /\ idle = FALSE
    /\ isr = "none" /\ length = 0 /\ last_index = 0
    /\ put_index = 0 /\ get_index = 0 /\ is_full = FALSE
    /\ reported = 0

\* rt_dma_calc_recved_len
Recved ==
    IF put_index = get_index THEN IF is_full THEN bufsz ELSE 0
    ELSE IF put_index > get_index THEN put_index - get_index
    ELSE bufsz - (get_index - put_index)

\* Bytes in the ring that no thread has read, reported or not.
Unread == Recved + (came - reported)

-----------------------------------------------------------------------------

\* The line brings a byte; at most one while uart_isr runs, which counts and reports
\* within microseconds.
DmaByte ==
    /\ ~tc
    /\ isr # "none" => dma = last_index /\ last_index # 0
    /\ came' = came + 1
    /\ ring' = [ring EXCEPT ![dma] = came + 1]
    /\ dma' = IF dma = bufsz - 1 THEN 0 ELSE dma + 1
    /\ tc' = (dma = bufsz - 1)
    /\ UNCHANGED <<idle, isr, length, last_index, fifo>>

\* One character of silence; too long to happen twice within the handler.
LineIdle ==
    /\ isr = "none" /\ ~idle
    /\ idle' = TRUE
    /\ UNCHANGED <<line, tc, isr, length, last_index, fifo>>

\* Faulty: put_index runs over get_index without notice.
UpdateForgetful(n) ==
    /\ put_index' = (put_index + n) % bufsz
    /\ reported' = reported + n
    /\ UNCHANGED <<get_index, is_full>>

\* rt_dma_recv_update_put_index: a ring that has been written over is full, and is
\* read from put_index on.
UpdatePutIndex(n) ==
    LET reaches == IF get_index <= put_index
                   THEN put_index + n >= bufsz /\ (put_index + n) % bufsz >= get_index
                   ELSE put_index + n >= get_index
    IN  /\ put_index' = (put_index + n) % bufsz
        /\ is_full' = (is_full \/ reaches)
        /\ get_index' = IF is_full' THEN put_index' ELSE get_index
        /\ reported' = reported + n

\* uart_isr, interrupts disabled.
IdleCount ==
    /\ isr = "none" /\ idle /\ ~tc
    /\ length' = dma - last_index
    /\ last_index' = dma
    /\ isr' = IF length' = 0 THEN "clear" ELSE "report"
    /\ UNCHANGED <<line, tc, idle, fifo>>

\* uart_isr calls rt_hw_serial_isr.
IdleReport ==
    /\ isr = "report" /\ ~tc
    /\ UpdatePutIndex(length)
    /\ isr' = "clear"
    /\ UNCHANGED <<line, tc, idle, length, last_index>>

IdleClear ==
    /\ isr = "clear" /\ ~tc
    /\ idle' = FALSE
    /\ isr' = "none"
    /\ UNCHANGED <<line, tc, length, last_index, fifo>>

\* Faulty: last_index keeps its value.
RxCpltKeepsIndex ==
    /\ tc
    /\ tc' = FALSE
    /\ UpdatePutIndex(bufsz - last_index)
    /\ UNCHANGED <<line, idle, isr, length, last_index>>

\* HAL_UART_RxCpltCallback, also in the middle of uart_isr.
RxCplt ==
    /\ tc
    /\ tc' = FALSE
    /\ last_index' = 0
    /\ UpdatePutIndex(bufsz - last_index)
    /\ UNCHANGED <<line, idle, isr, length>>

Handler == IdleCount \/ IdleReport \/ IdleClear \/ RxCplt

\* A thread runs, the handlers being done.
ThreadRuns == isr = "none" /\ ~idle /\ ~tc

\* _serial_dma_rx of one byte, which is ring[get_index].
ReadByte ==
    /\ ThreadRuns
    /\ Recved > 0
    /\ is_full' = FALSE
    /\ get_index' = IF get_index = bufsz - 1 THEN 0 ELSE get_index + 1
    /\ UNCHANGED <<line, irq, put_index, reported>>

-----------------------------------------------------------------------------

SerialTypeOK ==
    /\ came \in Nat /\ ring \in [Slots -> Nat] /\ dma \in Slots
    /\ tc \in BOOLEAN /\ idle \in BOOLEAN
    /\ isr \in {"none", "report", "clear"} /\ length \in Slots /\ last_index \in Slots
    /\ put_index \in Slots /\ get_index \in Slots /\ is_full \in BOOLEAN
    /\ reported \in Nat

\* Bytes that were counted by a handler or not, but are not reported yet.
Waiting == came - reported

\* The driver's three positions tell the same story, whichever handler interrupted
\* which: the DMA is ahead of put_index by the bytes not yet reported, and ahead of
\* last_index by those not yet counted (uart_isr, HAL_UART_RxCpltCallback).
IndexesAgree ==
    /\ Waiting \in 0..bufsz
    /\ dma = (put_index + Waiting) % bufsz
    /\ LET counted == IF isr = "report" THEN length ELSE 0
       IN  Waiting = counted + (IF tc THEN bufsz ELSE dma) - last_index
    /\ is_full => put_index = get_index

\* Why it holds: within a lap the DMA is not behind what has been counted.
DmaAhead == IF tc THEN dma = 0 ELSE last_index <= dma

\* What a thread is offered is the reported part of the line, in order and up to its
\* end, except that the DMA may have written over the oldest of it; this also holds
\* after an overrun, when the whole ring is offered (rt_dma_recv_update_put_index,
\* _serial_dma_rx).
RingHoldsNewest ==
    \A i \in 0..(Recved - 1) :
        LET byte == reported - Recved + i + 1
        IN  ring[(get_index + i) % bufsz]
                = IF byte + bufsz <= came THEN byte + bufsz ELSE byte

(* Why it holds, as parts of an inductive invariant. *)

\* The slot written k bytes before the last one.
SlotBack(k) == IF k < dma THEN dma - 1 - k ELSE dma - 1 - k + bufsz

\* Read back from the DMA, the ring is the line.
RingIsLine == \A k \in Slots : ring[SlotBack(k)] = IF came > k THEN came - k ELSE 0

\* No more is offered than was reported.
OfferIsReported == Recved <= reported
=============================================================================
