------------------------ MODULE FrameReceiverProofs ------------------------
(***************************************************************************)
(* Proofs about the serial driver's ring and hplc's receiver of frames: the     *)
(* ring's positions agree, the ring offers the newest bytes in order, and hplc  *)
(* collects them without a gap, for every size of the ring and of the buffer.   *)
(***************************************************************************)
EXTENDS FrameReceiver, TLAPS

(* What the serial driver keeps by itself. *)
SerialInv == SerialTypeOK /\ IndexesAgree /\ DmaAhead /\ RingIsLine /\ OfferIsReported

SerialStep == DmaByte \/ LineIdle \/ Handler \/ ReadByte

\* One lap of the ring at most is taken off.
LEMMA ModWrap ==
  \A x \in 0..(2 * bufsz - 1) : x % bufsz = IF x < bufsz THEN x ELSE x - bufsz
  <1> TAKE x \in 0..(2 * bufsz - 1)
  <1>1. bufsz \in Nat /\ bufsz > 0
    BY BufszAssumption
  <1>2. CASE x < bufsz
    <2>1. x \in 0..(bufsz - 1)
      BY <1>1, <1>2
    <2> QED
      BY <1>1, <1>2, <2>1
  <1>3. CASE ~(x < bufsz)
    <2>1. x \in bufsz..(2 * bufsz - 1)
      BY <1>1, <1>3
    <2> QED
      BY <1>1, <1>3, <2>1
  <1> QED
    BY <1>2, <1>3

\* A position of the ring, moved on by a lap at most.
LEMMA MovedOn ==
  ASSUME NEW p \in Slots, NEW w \in 0..bufsz
  PROVE  (p + w) % bufsz = IF p + w < bufsz THEN p + w ELSE p + w - bufsz
  <1>1. p \in 0..(bufsz - 1) /\ bufsz \in Nat /\ bufsz > 1
    BY BufszAssumption DEF Slots
  <1>2. p + w \in 0..(2 * bufsz - 1)
    BY <1>1
  <1> QED
    BY <1>1, <1>2, ModWrap

LEMMA RecvedType ==
  ASSUME SerialTypeOK
  PROVE  Recved \in 0..bufsz
  BY BufszAssumption DEF SerialTypeOK, Recved, Slots

\* rt_dma_recv_update_put_index adds the new bytes to those offered, up to a full ring.
LEMMA UpdateOffers ==
  ASSUME SerialTypeOK, is_full => put_index = get_index,
         NEW n \in 0..bufsz, UpdatePutIndex(n)
  PROVE  /\ put_index' = IF put_index + n < bufsz THEN put_index + n ELSE put_index + n - bufsz
         /\ put_index' \in Slots /\ get_index' \in Slots /\ is_full' \in BOOLEAN
         /\ is_full' => put_index' = get_index'
         /\ Recved' = IF Recved + n < bufsz THEN Recved + n ELSE bufsz
         /\ reported' = reported + n
  <1>1. /\ put_index \in 0..(bufsz - 1) /\ get_index \in 0..(bufsz - 1)
        /\ bufsz \in Nat /\ bufsz > 1
    BY BufszAssumption DEF SerialTypeOK, Slots
  <1>b. is_full' \in BOOLEAN
    BY DEF UpdatePutIndex
  <1>3. (put_index + n) % bufsz
          = IF put_index + n < bufsz THEN put_index + n ELSE put_index + n - bufsz
    BY MovedOn DEF SerialTypeOK
  <1>4. put_index' = (put_index + n) % bufsz /\ reported' = reported + n
    BY DEF UpdatePutIndex
  <1>5. put_index' \in 0..(bufsz - 1)
    BY <1>1, <1>3, <1>4
  <1>6. CASE is_full
    <2>1. is_full' /\ get_index' = put_index'
      BY <1>6 DEF UpdatePutIndex
    <2>2. Recved = bufsz /\ Recved' = bufsz
      BY <1>6, <2>1 DEF Recved
    <2> QED
      BY <1>1, <1>3, <1>4, <1>5, <2>1, <2>2 DEF Slots
  <1>7. CASE ~is_full
    <2> DEFINE r == IF get_index <= put_index
                    THEN put_index + n >= bufsz /\ put_index' >= get_index
                    ELSE put_index + n >= get_index
    <2>1. is_full' = r /\ get_index' = IF is_full' THEN put_index' ELSE get_index
      BY <1>7 DEF UpdatePutIndex
    <2>2. r <=> Recved + n >= bufsz
      BY <1>1, <1>3, <1>4, <1>7 DEF Recved
    <2>3. CASE r
      BY <1>1, <1>b, <1>3, <1>4, <1>5, <2>1, <2>2, <2>3, RecvedType DEF Recved, Slots
    <2>4. CASE ~r
      <3>1. ~is_full' /\ get_index' = get_index
        BY <2>1, <2>4
      <3>2. Recved' = Recved + n
        BY <1>1, <1>3, <1>4, <1>7, <2>4, <3>1 DEF Recved
      <3> QED
        BY <1>1, <1>b, <1>3, <1>4, <1>5, <2>2, <2>4, <3>1, <3>2, RecvedType DEF Slots
    <2> QED
      BY <2>3, <2>4
  <1> QED
    BY <1>1, <1>6, <1>7

\* The DMA writes a byte.
LEMMA DmaByteKeeps ==
  ASSUME SerialInv, DmaByte
  PROVE  SerialInv'
  <1>1. /\ bufsz \in Nat /\ bufsz > 1
        /\ came \in Nat /\ ring \in [Slots -> Nat] /\ dma \in 0..(bufsz - 1)
        /\ length \in 0..(bufsz - 1) /\ last_index \in 0..(bufsz - 1)
        /\ put_index \in 0..(bufsz - 1) /\ reported \in Nat
    BY BufszAssumption DEF SerialInv, SerialTypeOK, Slots
  <1>2. /\ ~tc /\ came' = came + 1 /\ ring' = [ring EXCEPT ![dma] = came + 1]
        /\ dma' = IF dma = bufsz - 1 THEN 0 ELSE dma + 1
        /\ tc' <=> dma = bufsz - 1
        /\ isr' = isr /\ length' = length /\ last_index' = last_index
        /\ put_index' = put_index /\ get_index' = get_index /\ is_full' = is_full
        /\ reported' = reported
    BY DEF DmaByte, fifo
  <1>3. SerialTypeOK'
    <2>1. tc' \in BOOLEAN /\ idle' \in BOOLEAN /\ is_full' \in BOOLEAN
      BY <1>2 DEF SerialInv, SerialTypeOK, DmaByte
    <2>2. /\ came' \in Nat /\ dma' \in Slots /\ ring' \in [Slots -> Nat]
      BY <1>1, <1>2 DEF Slots
    <2> QED
      BY <1>2, <2>1, <2>2 DEF SerialInv, SerialTypeOK
  <1>4. /\ Waiting' = Waiting + 1 /\ last_index <= dma
        /\ Waiting \in 0..bufsz
        /\ Waiting = (IF isr = "report" THEN length ELSE 0) + dma - last_index
    BY <1>1, <1>2 DEF SerialInv, IndexesAgree, DmaAhead, Waiting
  <1>5. Waiting < bufsz
    <2>1. CASE isr = "report"
      BY <1>1, <1>4, <2>1 DEF DmaByte
    <2>2. CASE isr # "report"
      BY <1>1, <1>4, <2>2
    <2> QED
      BY <2>1, <2>2
  <1>6. DmaAhead'
    BY <1>1, <1>2, <1>4 DEF DmaAhead
  <1>7. IndexesAgree'
    <2>1. Waiting' \in 0..bufsz
      BY <1>1, <1>4, <1>5
    <2>2. dma = IF put_index + Waiting < bufsz THEN put_index + Waiting
                                               ELSE put_index + Waiting - bufsz
      BY <1>4, MovedOn DEF SerialInv, IndexesAgree, SerialTypeOK
    <2>3. dma' = IF put_index + Waiting' < bufsz THEN put_index + Waiting'
                                               ELSE put_index + Waiting' - bufsz
      BY <1>1, <1>2, <1>4, <1>5, <2>2
    <2>4. dma' = (put_index' + Waiting') % bufsz
      BY <1>2, <1>3, <2>1, <2>3, MovedOn DEF SerialTypeOK
    <2>5. Waiting' = (IF isr' = "report" THEN length' ELSE 0)
                       + (IF tc' THEN bufsz ELSE dma') - last_index'
      BY <1>1, <1>2, <1>4
    <2>6. is_full' => put_index' = get_index'
      BY <1>2 DEF SerialInv, IndexesAgree
    <2> QED
      BY <2>1, <2>4, <2>5, <2>6 DEF IndexesAgree
  <1>8. RingIsLine'
    <2>1. SUFFICES ASSUME NEW k \in Slots
                   PROVE  ring'[SlotBack(k)'] = IF came' > k THEN came' - k ELSE 0
      BY DEF RingIsLine
    <2>2. k \in 0..(bufsz - 1)
      BY DEF Slots
    <2>3. CASE k = 0
      <3>1. SlotBack(k)' = dma
        BY <1>1, <1>2, <2>3 DEF SlotBack
      <3> QED
        BY <1>1, <1>2, <2>3, <3>1 DEF Slots
    <2>4. CASE k # 0
      <3>1. k - 1 \in Slots
        BY <1>1, <2>2, <2>4 DEF Slots
      <3>2. SlotBack(k)' = SlotBack(k - 1) /\ SlotBack(k - 1) # dma
            /\ SlotBack(k - 1) \in Slots
        BY <1>1, <1>2, <2>2, <2>4 DEF SlotBack, Slots
      <3>3. ring[SlotBack(k - 1)] = IF came > k - 1 THEN came - (k - 1) ELSE 0
        BY <3>1 DEF SerialInv, RingIsLine
      <3> QED
        BY <1>1, <1>2, <2>2, <3>2, <3>3
    <2> QED
      BY <2>3, <2>4
  <1>9. OfferIsReported'
    BY <1>2 DEF SerialInv, OfferIsReported, Recved
  <1> QED
    BY <1>3, <1>6, <1>7, <1>8, <1>9 DEF SerialInv

\* A handler reports the n bytes of which the DMA was ahead.
LEMMA ReportKeeps ==
  ASSUME SerialInv, NEW n \in 0..bufsz, n <= Waiting, UpdatePutIndex(n), UNCHANGED line
  PROVE  /\ put_index' \in Slots /\ get_index' \in Slots /\ is_full' \in BOOLEAN
         /\ reported' \in Nat /\ Waiting' = Waiting - n
         /\ dma' = IF put_index' + Waiting' < bufsz THEN put_index' + Waiting'
                                                    ELSE put_index' + Waiting' - bufsz
         /\ is_full' => put_index' = get_index'
         /\ OfferIsReported'
  <1>1. /\ bufsz \in Nat /\ bufsz > 1 /\ came \in Nat /\ dma \in 0..(bufsz - 1)
        /\ put_index \in 0..(bufsz - 1) /\ reported \in Nat
        /\ SerialTypeOK /\ Waiting \in 0..bufsz /\ (is_full => put_index = get_index)
        /\ Recved <= reported /\ Recved \in 0..bufsz
    BY BufszAssumption, RecvedType
    DEF SerialInv, SerialTypeOK, Slots, IndexesAgree, OfferIsReported
  <1>2. dma = IF put_index + Waiting < bufsz THEN put_index + Waiting
                                             ELSE put_index + Waiting - bufsz
    BY <1>1, MovedOn DEF SerialInv, IndexesAgree, SerialTypeOK
  <1>3. /\ put_index' = IF put_index + n < bufsz THEN put_index + n ELSE put_index + n - bufsz
        /\ put_index' \in Slots /\ get_index' \in Slots /\ is_full' \in BOOLEAN
        /\ is_full' => put_index' = get_index'
        /\ Recved' = IF Recved + n < bufsz THEN Recved + n ELSE bufsz
        /\ reported' = reported + n
    BY <1>1, UpdateOffers
  <1>4. came' = came /\ dma' = dma
    BY DEF line
  <1>5. Waiting' = Waiting - n
    BY <1>1, <1>3, <1>4 DEF Waiting
  <1>6. dma' = IF put_index' + Waiting' < bufsz THEN put_index' + Waiting'
                                                ELSE put_index' + Waiting' - bufsz
    BY <1>1, <1>2, <1>3, <1>4, <1>5
  <1>7. OfferIsReported' /\ reported' \in Nat
    BY <1>1, <1>3 DEF OfferIsReported
  <1> QED
    BY <1>3, <1>5, <1>6, <1>7

LEMMA HandlerKeeps ==
  ASSUME SerialInv, Handler
  PROVE  SerialInv'
  <1>1. /\ bufsz \in Nat /\ bufsz > 1 /\ dma \in 0..(bufsz - 1)
        /\ length \in 0..(bufsz - 1) /\ last_index \in 0..(bufsz - 1)
        /\ Waiting \in 0..bufsz
    BY BufszAssumption DEF SerialInv, SerialTypeOK, Slots, IndexesAgree
  <1>2. Waiting = (IF isr = "report" THEN length ELSE 0)
                    + (IF tc THEN bufsz ELSE dma) - last_index
    BY DEF SerialInv, IndexesAgree
  <1>3. UNCHANGED line /\ RingIsLine'
    BY DEF Handler, IdleCount, IdleReport, IdleClear, RxCplt, line, SerialInv, RingIsLine,
           SlotBack
  <1>4. CASE IdleCount
    <2>1. /\ isr = "none" /\ ~tc /\ length' = dma - last_index /\ last_index' = dma
          /\ isr' = IF length' = 0 THEN "clear" ELSE "report"
          /\ tc' = tc /\ idle' = idle /\ UNCHANGED fifo
      BY <1>4 DEF IdleCount
    <2>2. last_index <= dma
      BY <2>1 DEF SerialInv, DmaAhead
    <2>3. SerialTypeOK'
      BY <1>1, <1>3, <2>1, <2>2 DEF SerialInv, SerialTypeOK, fifo, line, Slots
    <2>4. Waiting' = Waiting /\ Recved' = Recved
      BY <1>3, <2>1 DEF Waiting, Recved, fifo, line
    <2>5. Waiting' = (IF isr' = "report" THEN length' ELSE 0)
                       + (IF tc' THEN bufsz ELSE dma') - last_index'
      BY <1>1, <1>2, <1>3, <2>1, <2>2, <2>4 DEF line
    <2>6. IndexesAgree'
      BY <1>3, <2>1, <2>4, <2>5 DEF SerialInv, IndexesAgree, fifo, line
    <2>7. DmaAhead' /\ OfferIsReported'
      BY <1>1, <1>3, <2>1, <2>4 DEF SerialInv, DmaAhead, OfferIsReported, fifo, line
    <2> QED
      BY <1>3, <2>3, <2>6, <2>7 DEF SerialInv
  <1>5. CASE IdleReport
    <2>1. /\ isr = "report" /\ ~tc /\ UpdatePutIndex(length) /\ isr' = "clear"
          /\ tc' = tc /\ idle' = idle /\ length' = length /\ last_index' = last_index
      BY <1>5 DEF IdleReport
    <2>2. last_index <= dma
      BY <2>1 DEF SerialInv, DmaAhead
    <2>3. length \in 0..bufsz /\ length <= Waiting
      BY <1>1, <1>2, <2>1, <2>2
    <2>4. /\ put_index' \in Slots /\ get_index' \in Slots /\ is_full' \in BOOLEAN
          /\ reported' \in Nat /\ Waiting' = Waiting - length
          /\ dma' = IF put_index' + Waiting' < bufsz THEN put_index' + Waiting'
                                                     ELSE put_index' + Waiting' - bufsz
          /\ is_full' => put_index' = get_index'
          /\ OfferIsReported'
      BY <1>3, <2>1, <2>3, ReportKeeps
    <2>5. SerialTypeOK'
      BY <1>3, <2>1, <2>4 DEF SerialInv, SerialTypeOK, line
    <2>6. /\ Waiting' \in 0..bufsz
          /\ Waiting' = (IF tc' THEN bufsz ELSE dma') - last_index'
      BY <1>1, <1>2, <1>3, <2>1, <2>3, <2>4 DEF line
    <2>7. IndexesAgree'
      BY <1>1, <2>1, <2>4, <2>6, MovedOn DEF IndexesAgree
    <2>8. DmaAhead'
      BY <1>3, <2>1, <2>2 DEF DmaAhead, line
    <2> QED
      BY <1>3, <2>4, <2>5, <2>7, <2>8 DEF SerialInv
  <1>6. CASE IdleClear
    BY <1>6 DEF IdleClear, SerialInv, SerialTypeOK, IndexesAgree, Waiting, DmaAhead,
      RingIsLine, SlotBack, OfferIsReported, Recved, line, fifo
  <1>7. CASE RxCplt
    <2>1. /\ tc /\ ~tc' /\ tc' \in BOOLEAN /\ UpdatePutIndex(bufsz - last_index)
          /\ last_index' = 0 /\ isr' = isr /\ idle' = idle /\ length' = length
      BY <1>7 DEF RxCplt
    <2>2. dma = 0
      BY <2>1 DEF SerialInv, DmaAhead
    <2>3. bufsz - last_index \in 0..bufsz /\ bufsz - last_index <= Waiting
      BY <1>1, <1>2, <2>1
    <2>4. /\ put_index' \in Slots /\ get_index' \in Slots /\ is_full' \in BOOLEAN
          /\ reported' \in Nat /\ Waiting' = Waiting - (bufsz - last_index)
          /\ dma' = IF put_index' + Waiting' < bufsz THEN put_index' + Waiting'
                                                     ELSE put_index' + Waiting' - bufsz
          /\ is_full' => put_index' = get_index'
          /\ OfferIsReported'
      BY <1>3, <2>1, <2>3, ReportKeeps
    <2>5. SerialTypeOK'
      <3>1. last_index' \in Slots
        BY <1>1, <2>1 DEF Slots
      <3> QED
        BY <1>3, <2>1, <2>4, <3>1 DEF SerialInv, SerialTypeOK, line
    <2>6. /\ Waiting' \in 0..bufsz
          /\ Waiting' = (IF isr' = "report" THEN length' ELSE 0)
                          + (IF tc' THEN bufsz ELSE dma') - last_index'
      BY <1>1, <1>2, <1>3, <2>1, <2>2, <2>3, <2>4 DEF line
    <2>7. IndexesAgree'
      <3>1. dma' = (put_index' + Waiting') % bufsz
        BY <1>1, <2>4, <2>6, MovedOn
      <3> QED
        BY <2>4, <2>6, <3>1 DEF IndexesAgree
    <2>8. DmaAhead'
      BY <1>3, <2>1, <2>2 DEF DmaAhead, line
    <2> QED
      BY <1>3, <2>4, <2>5, <2>7, <2>8 DEF SerialInv
  <1> QED
    BY <1>4, <1>5, <1>6, <1>7 DEF Handler

\* A thread reads one byte: one less is offered.
LEMMA ReadByteTakes ==
  ASSUME SerialInv, ReadByte
  PROVE  /\ SerialInv'
         /\ Recved' = Recved - 1 /\ Waiting' = Waiting
  <1>1. /\ bufsz \in Nat /\ bufsz > 1
        /\ put_index \in 0..(bufsz - 1) /\ get_index \in 0..(bufsz - 1)
        /\ reported \in Nat /\ Recved \in 0..bufsz /\ Recved > 0 /\ Recved <= reported
    BY BufszAssumption, RecvedType
    DEF SerialInv, SerialTypeOK, Slots, ReadByte, OfferIsReported
  <1>2. is_full => put_index = get_index
    BY DEF SerialInv, IndexesAgree
  <1>3. /\ ~is_full' /\ is_full' \in BOOLEAN /\ put_index' = put_index
        /\ get_index' = IF get_index = bufsz - 1 THEN 0 ELSE get_index + 1
    BY DEF ReadByte
  <1>4. Recved' = Recved - 1
    BY <1>1, <1>2, <1>3 DEF Recved
  <1>5. get_index' \in Slots
    BY <1>1, <1>3 DEF Slots
  <1>6. UNCHANGED <<line, irq, reported>>
    BY DEF ReadByte
  <1>7. SerialTypeOK'
    BY <1>3, <1>5, <1>6 DEF SerialInv, SerialTypeOK, line, irq
  <1>8. IndexesAgree' /\ DmaAhead' /\ RingIsLine' /\ Waiting' = Waiting
    BY <1>3, <1>6
    DEF SerialInv, IndexesAgree, DmaAhead, RingIsLine, SlotBack, Waiting, line, irq
  <1>9. OfferIsReported'
    BY <1>1, <1>4, <1>6 DEF OfferIsReported
  <1> QED
    BY <1>4, <1>7, <1>8, <1>9 DEF SerialInv

LEMMA SerialInvStart == SerialInit => SerialInv
  <1> SUFFICES ASSUME SerialInit PROVE SerialInv
    OBVIOUS
  <1>1. bufsz \in Nat /\ bufsz > 1
    BY BufszAssumption
  <1>2. SerialTypeOK /\ DmaAhead
    <2>1. 0 \in Slots
      BY <1>1 DEF Slots
    <2>2. tc \in BOOLEAN /\ idle \in BOOLEAN /\ is_full \in BOOLEAN
      BY DEF SerialInit
    <2>3. ring \in [Slots -> Nat] /\ came \in Nat /\ reported \in Nat
      BY DEF SerialInit
    <2> QED
      BY <2>1, <2>2, <2>3 DEF SerialInit, SerialTypeOK, DmaAhead
  <1>3. Waiting = 0 /\ Recved = 0
    BY DEF SerialInit, Waiting, Recved
  <1>4. (0 + 0) % bufsz = 0
    BY <1>1, MovedOn DEF Slots
  <1>5. IndexesAgree
    BY <1>1, <1>3, <1>4 DEF SerialInit, IndexesAgree
  <1>6. RingIsLine /\ OfferIsReported
    BY <1>1, <1>3 DEF SerialInit, RingIsLine, OfferIsReported, SlotBack, Slots
  <1> QED
    BY <1>2, <1>5, <1>6 DEF SerialInv

LEMMA SerialInvStep ==
  ASSUME SerialInv, SerialStep \/ UNCHANGED serialVars
  PROVE  SerialInv'
  <1>1. CASE LineIdle
    BY <1>1 DEF LineIdle, SerialInv, SerialTypeOK, IndexesAgree, Waiting, DmaAhead,
      RingIsLine, SlotBack, OfferIsReported, Recved, line, fifo
  <1>2. CASE UNCHANGED serialVars
    BY <1>2 DEF serialVars, SerialInv, SerialTypeOK, IndexesAgree, Waiting, DmaAhead,
      RingIsLine, SlotBack, OfferIsReported, Recved, line, irq, fifo
  <1> QED
    BY <1>1, <1>2, DmaByteKeeps, HandlerKeeps, ReadByteTakes DEF SerialStep

\* What is offered lies on the line.
LEMMA OfferedIsNewest ==
  ASSUME SerialInv
  PROVE  RingHoldsNewest
  <1>1. /\ bufsz \in Nat /\ bufsz > 1 /\ came \in Nat /\ dma \in 0..(bufsz - 1)
        /\ put_index \in 0..(bufsz - 1) /\ get_index \in 0..(bufsz - 1)
        /\ reported \in Nat /\ Recved \in 0..bufsz /\ Recved <= reported
        /\ Waiting \in 0..bufsz /\ Waiting = came - reported
    BY BufszAssumption, RecvedType
    DEF SerialInv, SerialTypeOK, Slots, OfferIsReported, IndexesAgree, Waiting
  <1>2. dma = IF put_index + Waiting < bufsz THEN put_index + Waiting
                                             ELSE put_index + Waiting - bufsz
    BY <1>1, MovedOn DEF SerialInv, IndexesAgree, SerialTypeOK
  <1>3. put_index = IF get_index + Recved < bufsz THEN get_index + Recved
                                                 ELSE get_index + Recved - bufsz
    BY <1>1 DEF Recved, SerialInv, IndexesAgree
  <1> SUFFICES ASSUME NEW i \in 0..(Recved - 1)
               PROVE  ring[(get_index + i) % bufsz]
                        = IF reported - Recved + i + 1 + bufsz <= came
                          THEN reported - Recved + i + 1 + bufsz
                          ELSE reported - Recved + i + 1
    BY DEF RingHoldsNewest
  <1>4. (get_index + i) % bufsz = IF get_index + i < bufsz THEN get_index + i
                                                          ELSE get_index + i - bufsz
    BY <1>1, MovedOn DEF Slots
  <1> DEFINE far == Waiting + Recved - i - 1
             k   == IF far < bufsz THEN far ELSE far - bufsz
  <1>5. k \in Slots
    BY <1>1 DEF Slots
  <1>6. SlotBack(k) = (get_index + i) % bufsz
    BY <1>1, <1>2, <1>3, <1>4 DEF SlotBack
  <1>7. ring[SlotBack(k)] = IF came > k THEN came - k ELSE 0
    BY <1>5 DEF SerialInv, RingIsLine
  <1> QED
    BY <1>1, <1>6, <1>7

-----------------------------------------------------------------------------
(* What the receiver sees of the driver. *)

LEMMA ReadByteIsNext ==
  ASSUME SerialInv, Recved > 0
  PROVE  /\ ring[get_index] \in 1..came
         /\ Unread <= bufsz => ring[get_index] = came - Unread + 1
  <1>1. /\ bufsz \in Nat /\ bufsz > 1 /\ came \in Nat /\ get_index \in 0..(bufsz - 1)
        /\ reported \in Nat /\ Recved \in 0..bufsz /\ Recved <= reported
        /\ came - reported \in 0..bufsz
    BY BufszAssumption, RecvedType
    DEF SerialInv, SerialTypeOK, Slots, OfferIsReported, IndexesAgree, Waiting
  <1>2. (get_index + 0) % bufsz = get_index
    BY <1>1
  <1>3. 0 \in 0..(Recved - 1)
    BY <1>1
  <1>4. ring[get_index] = IF reported - Recved + 1 + bufsz <= came
                          THEN reported - Recved + 1 + bufsz
                          ELSE reported - Recved + 1
    <2>1. ring[(get_index + 0) % bufsz]
            = IF reported - Recved + 0 + 1 + bufsz <= came
              THEN reported - Recved + 0 + 1 + bufsz
              ELSE reported - Recved + 0 + 1
      BY <1>3, OfferedIsNewest DEF RingHoldsNewest
    <2> QED
      BY <1>1, <1>2, <2>1
  <1> QED
    BY <1>1, <1>4 DEF Unread

\* As long as nothing unread is written over, a handler offers all of it.
LEMMA HandlerKeepsUnread ==
  ASSUME SerialInv, Handler, Unread <= bufsz
  PROVE  Unread' = Unread
  <1>1. /\ bufsz \in Nat /\ bufsz > 1 /\ dma \in 0..(bufsz - 1) /\ came \in Nat
        /\ length \in 0..(bufsz - 1) /\ last_index \in 0..(bufsz - 1) /\ reported \in Nat
        /\ Waiting \in 0..bufsz /\ Recved \in 0..bufsz /\ Waiting = came - reported
    BY BufszAssumption, RecvedType DEF SerialInv, SerialTypeOK, Slots, IndexesAgree, Waiting
  <1>2. /\ Waiting = (IF isr = "report" THEN length ELSE 0)
                    + (IF tc THEN bufsz ELSE dma) - last_index
        /\ is_full => put_index = get_index
        /\ SerialTypeOK
    BY DEF SerialInv, IndexesAgree
  <1>3. ASSUME NEW n \in 0..bufsz, n <= Waiting, UpdatePutIndex(n), UNCHANGED came
        PROVE  Unread' = Unread
    <2>1. /\ Recved' = IF Recved + n < bufsz THEN Recved + n ELSE bufsz
          /\ reported' = reported + n
      BY <1>2, <1>3, UpdateOffers
    <2> QED
      BY <1>1, <1>3, <2>1 DEF Unread
  <1>4. CASE IdleCount \/ IdleClear
    BY <1>4 DEF IdleCount, IdleClear, Unread, Recved, line, fifo
  <1>5. CASE IdleReport
    <2>1. length \in 0..bufsz /\ length <= Waiting
      BY <1>1, <1>2, <1>5 DEF IdleReport, SerialInv, DmaAhead
    <2> QED
      BY <1>3, <1>5, <2>1 DEF IdleReport, line
  <1>6. CASE RxCplt
    <2>1. bufsz - last_index \in 0..bufsz /\ bufsz - last_index <= Waiting
      BY <1>1, <1>2, <1>6 DEF RxCplt
    <2> QED
      BY <1>3, <1>6, <2>1 DEF RxCplt, line
  <1> QED
    BY <1>4, <1>5, <1>6 DEF Handler

-----------------------------------------------------------------------------
(* The receiver. *)

ReceiverType ==
    /\ sta \in {"seek", "length", "address", "header", "body", "done"}
    /\ priveData \in Seq(1..Len(sent))
    /\ len_all \in Nat /\ len_sa \in 0..16 /\ len_left \in Int

ReceiverInv == ReceiverType /\ CountersAgree /\ CollectedByState

LineType == sent \in Seq(0..255)

\* The number of a byte of the line.
OnLine(n) == n \in 1..Len(sent)

LEMMA SavedFits ==
  ASSUME priveData \in Seq(1..Len(sent)), sent \in Seq(0..255),
         Len(priveData) < HPLC_DATA_MAX_SIZE, NEW n \in 1..Len(sent)
  PROVE  /\ Saved(n) \in Seq(1..Len(sent)) /\ Saved(n) # <<>>
         /\ 0 < Len(Saved(n)) /\ Len(Saved(n)) < HPLC_DATA_MAX_SIZE
         /\ Len(Saved(n)) = IF Len(priveData) + 1 < HPLC_DATA_MAX_SIZE
                            THEN Len(priveData) + 1 ELSE Len(priveData)
         /\ \A i \in 1..Len(Saved(n)) : Value(Saved(n)[i]) \in 0..255
  <1>1. HPLC_DATA_MAX_SIZE \in Nat /\ HPLC_DATA_MAX_SIZE > 12 /\ Len(priveData) \in Nat
    BY ReceiverAssumption
  <1>2. CASE HPLC_DATA_MAX_SIZE > Len(priveData) + 1
    <2>1. Saved(n) = Append(priveData, n)
      BY <1>2 DEF Saved
    <2>2. Saved(n) \in Seq(1..Len(sent)) /\ Len(Saved(n)) = Len(priveData) + 1
      BY <2>1
    <2> QED
      BY <1>1, <1>2, <2>2 DEF Value
  <1>3. CASE ~(HPLC_DATA_MAX_SIZE > Len(priveData) + 1)
    <2>1. Saved(n) = priveData
      BY <1>3 DEF Saved
    <2> QED
      BY <1>1, <1>3, <2>1 DEF Value
  <1> QED
    BY <1>2, <1>3

LEMMA ClearKeeps ==
  ASSUME Clear, UNCHANGED sent
  PROVE  ReceiverInv' /\ priveData' = <<>>
  BY ReceiverAssumption DEF Clear, ReceiverInv, ReceiverType, CountersAgree, CollectedByState

\* The steps of the receiver keep its counters in agreement; they add the byte read to
\* priveData or empty it.
LEMMA ReceiverKeeps ==
  ASSUME ReceiverInv, LineType, UNCHANGED sent, NEW n, OnLine(n),
         Seek(n) \/ Length(n) \/ Address(n) \/ HeaderByte(n) \/ Body(n)
  PROVE  ReceiverInv' /\ priveData' \in {<<>>, Saved(n)}
  <1> DEFINE data == Saved(n)
  <1>0. priveData \in Seq(1..Len(sent))
    BY DEF ReceiverInv, ReceiverType
  <1>1. /\ HPLC_DATA_MAX_SIZE \in Nat /\ HPLC_DATA_MAX_SIZE > 12
        /\ Len(priveData) \in Nat /\ Len(priveData) < HPLC_DATA_MAX_SIZE
        /\ len_all \in Nat /\ len_sa \in 0..16 /\ len_left \in Int
    BY <1>0, ReceiverAssumption DEF ReceiverInv, ReceiverType, CountersAgree
  <1>2. /\ data # <<>>
        /\ Len(data) \in Nat /\ 0 < Len(data) /\ Len(data) < HPLC_DATA_MAX_SIZE
        /\ Len(data) = IF Len(priveData) + 1 < HPLC_DATA_MAX_SIZE
                       THEN Len(priveData) + 1 ELSE Len(priveData)
    BY <1>0, <1>1, SavedFits DEF LineType, OnLine
  <1>a. data \in Seq(1..Len(sent))
    BY <1>0, <1>1, SavedFits DEF LineType, OnLine
  <1>b. \A i \in 1..Len(data) : Value(data[i]) \in 0..255
    BY <1>0, <1>1, SavedFits DEF LineType, OnLine
  <1> HIDE DEF data
  <1>3. CASE Seek(n)
    <2>1. priveData = <<>> /\ Len(data) = 1
      BY <1>1, <1>2, <1>3 DEF Seek, ReceiverInv, CountersAgree
    <2>2. CASE Value(n) = 104
      <3>1. /\ sta' = "length" /\ priveData' = data
            /\ UNCHANGED <<len_all, len_sa, len_left>>
        BY <1>3, <2>2 DEF Seek, data
      <3>2. ReceiverType'
        BY <1>1, <1>a, <3>1 DEF ReceiverType
      <3>3. Len(priveData') = 1 /\ priveData' # <<>>
        BY <1>2, <2>1, <3>1
      <3>4. CountersAgree' /\ CollectedByState'
        BY <1>1, <3>1, <3>3 DEF CountersAgree, CollectedByState
      <3> QED
        BY <3>1, <3>2, <3>4 DEF ReceiverInv, data
    <2>3. CASE Value(n) # 104
      BY <1>3, <2>1, <2>3
      DEF Seek, ReceiverInv, ReceiverType, CountersAgree, CollectedByState
    <2> QED
      BY <2>2, <2>3
  <1>4. CASE Length(n)
    <2> DEFINE all == Value(data[3]) * 256 + Value(data[2]) + 2
    <2>1. CASE Len(data) < 3 /\ priveData' = data /\ UNCHANGED <<sta, len_all, len_sa, len_left>>
      <3>1. sta = "length"
        BY <1>4 DEF Length
      <3>2. ReceiverType'
        BY <1>1, <1>a, <2>1, <3>1 DEF ReceiverType
      <3>3. CountersAgree' /\ CollectedByState'
        BY <1>1, <1>2, <2>1, <3>1 DEF CountersAgree, CollectedByState
      <3> QED
        BY <2>1, <3>2, <3>3 DEF ReceiverInv, data
    <2>2. CASE Clear
      BY <2>2, ClearKeeps
    <2>3. CASE /\ Len(data) = 3 /\ all >= 12
               /\ sta' = "address" /\ priveData' = data
               /\ len_all' = all /\ len_left' = all - 3
               /\ UNCHANGED len_sa
      <3>1. all \in Nat
        BY <1>b, <2>3
      <3> HIDE DEF all
      <3>2. ReceiverType'
        BY <1>1, <1>a, <2>3, <3>1 DEF ReceiverType
      <3>3. Len(priveData') = 3 /\ priveData' # <<>>
        BY <1>2, <2>3
      <3>4. len_left' > 0 /\ 3 + len_left' = len_all' /\ len_all' >= 12
        BY <2>3, <3>1
      <3>5. CountersAgree' /\ CollectedByState'
        <4>1. sta' = "address" /\ Len(priveData') + len_left' = len_all'
          BY <2>3, <3>3, <3>4
        <4>2. Len(priveData') < HPLC_DATA_MAX_SIZE
          BY <1>1, <3>3
        <4> QED
          BY <3>3, <3>4, <4>1, <4>2 DEF CountersAgree, CollectedByState
      <3> QED
        BY <2>3, <3>2, <3>5 DEF ReceiverInv, data
    <2> QED
      BY <1>4, <2>1, <2>2, <2>3 DEF Length, data
  <1>5. CASE Address(n)
    <2> DEFINE is645 == Value(data[2]) = 170 /\ Value(data[3]) = 170
    <2>1. CASE Clear
      BY <2>1, ClearKeeps
    <2>2. CASE /\ priveData' = data
               /\ len_left' = len_left - 1
               /\ IF Len(data) = 5
                  THEN /\ sta' = "header"
                       /\ len_sa' = IF is645 THEN 4 ELSE (Value(data[5]) % 16) + 1
                  ELSE UNCHANGED <<sta, len_sa>>
               /\ UNCHANGED len_all
      <3> HIDE DEF is645
      <3>1. /\ sta = "address" /\ 3 <= Len(priveData) /\ Len(priveData) < 5 /\ len_all >= 12
            /\ Len(data) = Len(priveData) + 1 /\ Len(priveData) + len_left = len_all
        BY <1>1, <1>2, <1>5 DEF Address, ReceiverInv, CollectedByState, CountersAgree
      <3>2. sta' \in {"address", "header"} /\ (sta' = "address" => Len(data) = 4)
        BY <1>1, <2>2, <3>1
      <3>3. len_sa' \in 0..16
        <4>1. CASE Len(data) = 5
          <5>1. Value(data[5]) \in 0..255
            BY <1>b, <4>1
          <5>2. len_sa' = IF is645 THEN 4 ELSE (Value(data[5]) % 16) + 1
            BY <2>2, <4>1
          <5> QED
            BY <5>1, <5>2
        <4>2. CASE Len(data) # 5
          BY <1>1, <2>2, <4>2
        <4> QED
          BY <4>1, <4>2
      <3>4. ReceiverType'
        BY <1>1, <1>a, <2>2, <3>2, <3>3 DEF ReceiverType
      <3>5. CountersAgree' /\ CollectedByState'
        BY <1>1, <1>2, <2>2, <3>1, <3>2 DEF CountersAgree, CollectedByState
      <3> QED
        BY <2>2, <3>4, <3>5 DEF ReceiverInv, data
    <2> QED
      BY <1>5, <2>1, <2>2 DEF Address, data
  <1>6. ASSUME NEW next \in {"header", "body"}, sta \in {"header", "body"}, Count(data, next)
        PROVE  ReceiverInv' /\ priveData' \in {<<>>, data}
    <2>1. CASE Clear
      BY <2>1, ClearKeeps
    <2>2. CASE /\ sta' = (IF len_left > 1 THEN next ELSE "done")
               /\ priveData' = data /\ len_left' = len_left - 1
               /\ UNCHANGED <<len_all, len_sa>>
      <3>1. ReceiverType'
        BY <1>1, <1>a, <1>6, <2>2 DEF ReceiverType
      <3>2. CountersAgree' /\ CollectedByState'
        BY <1>1, <1>2, <1>6, <2>2 DEF CountersAgree, CollectedByState, ReceiverInv
      <3> QED
        BY <2>2, <3>1, <3>2 DEF ReceiverInv
    <2> QED
      BY <1>1, <1>6, <2>1, <2>2 DEF Count
  <1>7. CASE HeaderByte(n)
    BY <1>6, <1>7, ClearKeeps DEF HeaderByte, data
  <1>8. CASE Body(n)
    BY <1>6, <1>8 DEF Body, data
  <1> QED
    BY <1>3, <1>4, <1>5, <1>7, <1>8 DEF data

Collected == BufferIsLine /\ NextFollows

\* The byte read is the successor of the last one collected.
LEMMA ReceiveCollects ==
  ASSUME SerialInv, ReceiverInv, Collected, overrun \in Nat, UNCHANGED overrun, ReadByte,
         priveData' \in {<<>>, Saved(ring[get_index])}
  PROVE  Collected'
  <1> DEFINE n == ring[get_index]
             len == Len(priveData)
  <1>1. /\ bufsz \in Nat /\ came \in Nat /\ came' = came
        /\ Recved \in 0..bufsz /\ Recved > 0 /\ Waiting \in 0..bufsz
        /\ Recved' = Recved - 1 /\ Waiting' = Waiting
        /\ Unread = Recved + Waiting /\ Unread' = Recved' + Waiting'
    BY BufszAssumption, RecvedType, ReadByteTakes
    DEF SerialInv, SerialTypeOK, IndexesAgree, ReadByte, line, Unread, Waiting
  <1>2. Unread' = Unread - 1 /\ Unread \in Nat
    BY <1>1
  <1>3. SUFFICES ASSUME overrun = 0
                 PROVE  Collected'
    BY DEF Collected, BufferIsLine, NextFollows
  <1>4. Unread <= bufsz /\ n = came - Unread + 1 /\ n \in Nat
    BY <1>1, <1>2, <1>3, ReadByteIsNext DEF Collected, NextFollows
  <1>5. Unread' <= bufsz /\ came' - Unread' = n
    BY <1>1, <1>2, <1>4
  <1> HIDE DEF n
  <1>6. CASE priveData' = <<>>
    BY <1>5, <1>6 DEF Collected, BufferIsLine, NextFollows
  <1>7. CASE priveData' = Saved(n)
    <2>1. priveData \in Seq(Nat) /\ len \in Nat
      BY DEF ReceiverInv, ReceiverType
    <2>2. \A i \in 2..len : priveData[i] = priveData[i - 1] + 1
      BY <1>3 DEF Collected, BufferIsLine
    <2>3. CASE HPLC_DATA_MAX_SIZE > len + 1
      <3>1. priveData' = Append(priveData, n)
        BY <1>7, <2>3 DEF Saved
      <3>2. /\ Len(priveData') = len + 1 /\ priveData'[len + 1] = n
            /\ \A i \in 1..len : priveData'[i] = priveData[i]
        BY <1>4, <2>1, <3>1
      <3>3. len > 0 => priveData[len] + 1 = n
        <4>1. HPLC_DATA_MAX_SIZE \in Nat
          BY ReceiverAssumption
        <4>2. len > 0 => priveData[len] = came - Unread
          BY <1>3, <2>1, <2>3, <4>1 DEF Collected, NextFollows
        <4> QED
          BY <1>1, <1>2, <1>4, <4>2
      <3>4. ASSUME NEW i \in 2..(len + 1)
            PROVE  priveData'[i] = priveData'[i - 1] + 1
        <4>1. i - 1 \in 1..len
          BY <2>1
        <4>2. priveData'[i - 1] = priveData[i - 1]
          BY <3>2, <4>1
        <4>3. CASE i = len + 1
          BY <2>1, <3>2, <3>3, <4>1, <4>2, <4>3
        <4>4. CASE i # len + 1
          <5>1. i \in 2..len /\ i \in 1..len
            BY <2>1, <4>4
          <5> QED
            BY <2>2, <3>2, <4>2, <5>1
        <4> QED
          BY <4>3, <4>4
      <3> QED
        BY <1>5, <3>2, <3>4 DEF Collected, BufferIsLine, NextFollows
    <2>4. CASE ~(HPLC_DATA_MAX_SIZE > len + 1)
      <3>1. priveData' = priveData
        BY <1>7, <2>4 DEF Saved
      <3>2. BufferIsLine'
        BY <2>2, <3>1 DEF BufferIsLine
      <3>3. NextFollows'
        BY <1>5, <2>1, <2>4, <3>1, ReceiverAssumption DEF NextFollows
      <3> QED
        BY <3>2, <3>3 DEF Collected
    <2> QED
      BY <2>3, <2>4
  <1> QED
    BY <1>6, <1>7 DEF n

-----------------------------------------------------------------------------
(* What has been handled. *)

Messages == [first : 1..Len(sent), last : 1..Len(sent)]

HandledType == handled \in Seq(Messages)

LEMMA LastIsOnLine ==
  ASSUME HandledType, NEW i \in DOMAIN handled
  PROVE  handled[i].last \in 1..Len(sent)
  <1>1. handled[i] \in Messages
    BY DEF HandledType
  <1> QED
    BY <1>1 DEF Messages

\* A byte is added to a buffer that holds one already: its first stays the first.
LEMMA SavedKeepsFirst ==
  ASSUME priveData \in Seq(1..Len(sent)), priveData # <<>>, NEW n \in 1..Len(sent)
  PROVE  Saved(n)[1] = priveData[1]
  <1>1. Len(priveData) \in Nat /\ Len(priveData) > 0
    OBVIOUS
  <1> QED
    BY <1>1 DEF Saved

\* One more message is handled.
LEMMA HandledGrows ==
  ASSUME HandledType, NEW data \in Seq(1..Len(sent)), data # <<>>, UNCHANGED sent,
         handled' = Append(handled, Message(data))
  PROVE  /\ HandledType' /\ Len(handled') = Len(handled) + 1
         /\ DOMAIN handled = 1..Len(handled) /\ Len(handled) \in Nat
         /\ DOMAIN handled' = 1..(Len(handled) + 1)
         /\ \A i \in DOMAIN handled : handled'[i] = handled[i]
         /\ handled'[Len(handled) + 1].first = data[1]
         /\ handled'[Len(handled) + 1].last = data[Len(data)]
  <1>1. Len(data) \in Nat /\ Len(data) > 0
    OBVIOUS
  <1>2. data[1] \in 1..Len(sent) /\ data[Len(data)] \in 1..Len(sent)
    BY <1>1
  <1>3. Message(data) \in Messages
    BY <1>2 DEF Message, Messages
  <1>4. Messages' = Messages
    BY DEF Messages
  <1>5. handled \in Seq(Messages) /\ Len(handled) \in Nat /\ DOMAIN handled = 1..Len(handled)
    BY DEF HandledType
  <1> DEFINE m == Message(data)
  <1>6. m.first = data[1] /\ m.last = data[Len(data)]
    BY DEF Message
  <1> HIDE DEF m
  <1>7. m \in Messages /\ handled' = Append(handled, m)
    BY <1>3 DEF m
  <1>8. /\ handled' \in Seq(Messages) /\ Len(handled') = Len(handled) + 1
        /\ handled'[Len(handled) + 1] = m
        /\ \A i \in 1..Len(handled) : handled'[i] = handled[i]
        /\ DOMAIN handled' = 1..(Len(handled) + 1)
    BY <1>5, <1>7
  <1> QED
    BY <1>4, <1>5, <1>6, <1>8 DEF HandledType

\* The frame or request a step of hplc hands over: the bytes collected, perhaps with the
\* one just read.
HandsOver(data) ==
    /\ data \in Seq(1..Len(sent)) /\ data # <<>> /\ priveData # <<>>
    /\ data[1] = priveData[1]
    /\ handled' = Append(handled, Message(data))
    /\ priveData' = <<>>

\* Handing over what has been read keeps what is handled behind what is read next.
LEMMA HandOverIsRead ==
  ASSUME HandledType, HandledIsRead, UNCHANGED <<sent, overrun>>, NEW data, HandsOver(data),
         NEW read \in Int, came - Unread \in Int, came - Unread <= read, came' - Unread' = read,
         overrun = 0 => data[Len(data)] <= read
  PROVE  HandledIsRead' /\ HandledType'
  <1>1. /\ HandledType' /\ DOMAIN handled = 1..Len(handled) /\ Len(handled) \in Nat
        /\ DOMAIN handled' = 1..(Len(handled) + 1)
        /\ \A i \in DOMAIN handled : handled'[i] = handled[i]
        /\ handled'[Len(handled) + 1].last = data[Len(data)]
    BY HandledGrows DEF HandsOver
  <1>2. \A i \in DOMAIN handled : handled[i].last \in 1..Len(sent)
    BY LastIsOnLine
  <1>3. SUFFICES ASSUME overrun = 0, NEW i \in 1..(Len(handled) + 1)
                 PROVE  handled'[i].last <= read
    BY <1>1 DEF HandsOver, HandledIsRead
  <1>4. CASE i = Len(handled) + 1
    BY <1>1, <1>3, <1>4
  <1>5. CASE i # Len(handled) + 1
    <2>1. i \in DOMAIN handled
      BY <1>1, <1>5
    <2>2. handled[i].last <= came - Unread /\ handled[i].last \in Int
      BY <1>2, <1>3, <2>1 DEF HandledIsRead
    <2> QED
      BY <1>1, <2>1, <2>2
  <1> QED
    BY <1>4, <1>5

\* hplc reads a byte: it adds it to what it collects, starts anew, or answers a request.
LEMMA ReceiveHandles ==
  ASSUME SerialInv, ReceiverInv, LineType, Collected, HandledType, HandledIsRead,
         UNCHANGED <<sent, overrun>>, ReadByte, OnLine(ring[get_index]),
         priveData' \in {<<>>, Saved(ring[get_index])},
         handled' = handled \/ HandsOver(Saved(ring[get_index]))
  PROVE  HandledIsRead' /\ HandledType'
  <1> DEFINE n == ring[get_index]
             data == Saved(n)
             read == came - Unread + 1
  <1>1. /\ came \in Nat /\ came' = came /\ Unread \in Int /\ Unread' = Unread - 1
        /\ Recved > 0 /\ bufsz \in Nat
    <2>1. /\ came \in Nat /\ reported \in Nat /\ Recved \in 0..bufsz /\ bufsz \in Nat
          /\ Recved > 0 /\ came' = came /\ reported' = reported
      BY BufszAssumption, RecvedType DEF SerialInv, SerialTypeOK, ReadByte, line
    <2>2. Recved' = Recved - 1
      BY ReadByteTakes
    <2> QED
      BY <2>1, <2>2 DEF Unread
  <1>2. read \in Int /\ came - Unread < read /\ came' - Unread' = read
        /\ came - Unread \in Int
    BY <1>1
  <1>3. n \in 1..Len(sent) /\ priveData \in Seq(1..Len(sent)) /\ Len(priveData) \in Nat
        /\ Len(priveData) < HPLC_DATA_MAX_SIZE /\ HPLC_DATA_MAX_SIZE \in Nat
    BY ReceiverAssumption DEF OnLine, ReceiverInv, ReceiverType, CountersAgree
  <1>4. overrun = 0 => n = read
    BY <1>1, ReadByteIsNext DEF Collected, NextFollows
  <1>5. /\ data \in Seq(1..Len(sent)) /\ data # <<>> /\ Len(data) > 0 /\ Len(data) \in Nat
    BY <1>3, SavedFits DEF LineType
  <1>6. overrun = 0 => \A i \in 1..Len(data) : data[i] <= read
    <2> SUFFICES ASSUME overrun = 0, NEW i \in 1..Len(data)
                 PROVE  data[i] <= read
      OBVIOUS
    <2>1. \A j \in 1..Len(priveData) : priveData[j] <= came - Unread /\ priveData[j] \in Int
      BY <1>3 DEF HandledIsRead
    <2>2. CASE HPLC_DATA_MAX_SIZE > Len(priveData) + 1
      <3>1. data = Append(priveData, n)
        BY <2>2 DEF Saved
      <3>2. CASE i = Len(priveData) + 1
        BY <1>2, <1>3, <1>4, <3>1, <3>2
      <3>3. CASE i # Len(priveData) + 1
        <4>1. i \in 1..Len(priveData) /\ data[i] = priveData[i]
          BY <1>3, <3>1, <3>3
        <4> QED
          BY <1>1, <2>1, <4>1
      <3> QED
        BY <3>2, <3>3
    <2>3. CASE ~(HPLC_DATA_MAX_SIZE > Len(priveData) + 1)
      <3>1. data = priveData
        BY <2>3 DEF Saved
      <3> QED
        BY <1>1, <2>1, <3>1
    <2> QED
      BY <2>2, <2>3
  <1>7. CASE HandsOver(data)
    <2>1. overrun = 0 => data[Len(data)] <= read
      BY <1>5, <1>6
    <2> HIDE DEF data, read
    <2> QED
      BY <1>2, <1>7, <2>1, HandOverIsRead
  <1>8. CASE handled' = handled
    <2>1. HandledType'
      BY <1>8 DEF HandledType, Messages
    <2>2. \A i \in DOMAIN handled : handled[i].last \in Int
      BY LastIsOnLine
    <2>3. SUFFICES ASSUME overrun = 0
                   PROVE  /\ \A i \in DOMAIN priveData' : priveData'[i] <= read
                          /\ \A i \in DOMAIN handled :
                               /\ handled[i].last <= read
                               /\ priveData' # <<>> => handled[i].last < priveData'[1]
      BY <1>2, <1>8, <2>1 DEF HandledIsRead
    <2>4. \A i \in DOMAIN handled : handled[i].last <= came - Unread
      BY <2>3 DEF HandledIsRead
    <2>5. \A i \in DOMAIN handled : handled[i].last <= read
      BY <1>1, <2>2, <2>4
    <2>6. CASE priveData' = <<>>
      BY <2>5, <2>6
    <2>7. CASE priveData' = data
      <3>1. DOMAIN priveData' = 1..Len(data)
        BY <1>5, <2>7
      <3>2. ASSUME NEW i \in DOMAIN handled
            PROVE  handled[i].last < data[1]
        <4>1. CASE priveData = <<>>
          <5>1. data = <<n>>
            BY <1>3, <4>1, ReceiverAssumption DEF Saved
          <5> QED
            BY <1>1, <1>2, <1>4, <2>2, <2>3, <2>4, <5>1
        <4>2. CASE priveData # <<>>
          BY <1>3, <2>3, <4>2, SavedKeepsFirst DEF HandledIsRead
        <4> QED
          BY <4>1, <4>2
      <3> HIDE DEF data, read
      <3> QED
        BY <1>6, <2>3, <2>5, <2>7, <3>1, <3>2
    <2> QED
      BY <2>6, <2>7
  <1> QED
    BY <1>7, <1>8

-----------------------------------------------------------------------------
(* The system. *)

StationType ==
    /\ LineType /\ came <= Len(sent) /\ silent \in BOOLEAN
    /\ bursts \in Seq([kind : Kinds, first : Nat]) /\ Len(bursts) <= MaxBursts
    /\ times \in 0..(MaxPolls - 1)
    /\ expected \subseteq DOMAIN bursts /\ overrun \in Nat
    /\ HandledType

LEMMA InvParts == Inv <=> SerialInv /\ ReceiverInv /\ StationType /\ Collected /\ HandledIsRead
  BY DEF Inv, TypeOK, SerialInv, ReceiverInv, ReceiverType, StationType, LineType, Collected,
    HandledType, Messages

LEMMA InvPartsNext ==
  SerialInv' /\ ReceiverInv' /\ StationType' /\ Collected' /\ HandledIsRead' => Inv'
  BY DEF Inv, TypeOK, SerialInv, ReceiverInv, ReceiverType, StationType, LineType, Collected,
    HandledType, Messages

LEMMA StartBurstKeeps ==
  ASSUME Inv, NEW k \in Kinds, StartBurst(k)
  PROVE  Inv'
  <1>0. SerialInv /\ ReceiverInv /\ StationType /\ Collected /\ HandledIsRead
    BY InvParts
  <1>1. SerialInv' /\ Unread' = Unread /\ came' = came
    BY <1>0, SerialInvStep DEF StartBurst, serialVars, line, fifo, Unread, Recved
  <1>2. Burst[k].bytes \in Seq(0..255)
    BY ReceiverAssumption
  <1>3. sent \in Seq(0..255) /\ sent' = sent \o Burst[k].bytes
    BY <1>0 DEF StartBurst, StationType, LineType
  <1>4. sent' \in Seq(0..255) /\ Len(sent) <= Len(sent') /\ Len(sent) \in Nat
        /\ Len(sent') \in Nat
    BY <1>2, <1>3
  <1>5. ReceiverInv'
    <2>1. priveData \in Seq(1..Len(sent')) 
      <3>1. priveData \in Seq(1..Len(sent))
        BY <1>0 DEF ReceiverInv, ReceiverType
      <3>2. \A i \in 1..Len(priveData) : priveData[i] \in 1..Len(sent')
        BY <1>4, <3>1
      <3> QED
        BY <3>1, <3>2
    <2>2. UNCHANGED receiver
      BY DEF StartBurst
    <2> QED
      BY <1>0, <2>1, <2>2
      DEF ReceiverInv, ReceiverType, CountersAgree, CollectedByState, receiver
  <1>6. StationType'
    <2>1. came \in Nat /\ MaxBursts \in Nat /\ Len(bursts) \in Nat
      BY <1>0, ReceiverAssumption DEF StationType, SerialInv, SerialTypeOK
    <2>2. [kind |-> k, first |-> came + 1] \in [kind : Kinds, first : Nat]
      BY <2>1
    <2>3. bursts \in Seq([kind : Kinds, first : Nat])
      BY <1>0 DEF StationType
    <2>4. /\ bursts' \in Seq([kind : Kinds, first : Nat])
          /\ Len(bursts') = Len(bursts) + 1 /\ DOMAIN bursts' = 1..Len(bursts')
          /\ DOMAIN bursts = 1..Len(bursts)
      BY <2>2, <2>3 DEF StartBurst
    <2>5. Len(bursts') <= MaxBursts
      BY <2>1, <2>4 DEF StartBurst
    <2>6. expected' \subseteq DOMAIN bursts'
      <3>1. DOMAIN bursts \subseteq DOMAIN bursts' /\ Len(bursts) + 1 \in DOMAIN bursts'
        BY <2>1, <2>4
      <3> QED
        BY <1>0, <3>1 DEF StartBurst, StationType
    <2>7. overrun' \in Nat
      BY <1>0 DEF StartBurst, StationType
    <2>8. came' <= Len(sent')
      BY <1>1, <1>4, <2>1 DEF StartBurst
    <2>9. UNCHANGED <<silent, times>>
      BY DEF StartBurst
    <2>10. HandledType'
      <3>1. handled \in Seq(Messages) /\ handled' = handled
        BY <1>0 DEF StartBurst, StationType, HandledType
      <3>2. Messages \subseteq Messages'
        BY <1>4 DEF Messages
      <3> QED
        BY <3>1, <3>2 DEF HandledType
    <2> QED
      BY <1>0, <1>4, <2>4, <2>5, <2>6, <2>7, <2>8, <2>9, <2>10 DEF StationType, LineType
  <1>7. Collected'
    <2>1. priveData' = priveData
      BY DEF StartBurst, receiver
    <2>2. CASE Free
      <3>1. priveData = <<>> /\ Unread = 0
        BY <1>0, <2>2 DEF Free, ReceiverInv, CountersAgree
      <3> QED
        BY <1>1, <2>1, <3>1, BufszAssumption DEF Collected, BufferIsLine, NextFollows
    <2>3. CASE ~Free
      <3>1. overrun' = overrun
        BY <2>3 DEF StartBurst
      <3> QED
        BY <1>0, <1>1, <2>1, <3>1 DEF Collected, BufferIsLine, NextFollows
    <2> QED
      BY <2>2, <2>3
  <1>8. HandledIsRead'
    <2>1. priveData' = priveData /\ handled' = handled
      BY DEF StartBurst, receiver
    <2>2. CASE Free
      <3>1. priveData = <<>> /\ Unread = 0 /\ came = Len(sent)
        BY <1>0, <2>2 DEF Free, ReceiverInv, CountersAgree, StartBurst
      <3>2. \A i \in DOMAIN handled : handled[i].last \in 1..Len(sent)
        BY <1>0, LastIsOnLine DEF StationType
      <3> QED
        BY <1>1, <1>4, <2>1, <3>1, <3>2 DEF HandledIsRead
    <2>3. CASE ~Free
      <3>1. overrun' = overrun
        BY <2>3 DEF StartBurst
      <3> QED
        BY <1>0, <1>1, <2>1, <3>1 DEF HandledIsRead
    <2> QED
      BY <2>2, <2>3
  <1> QED
    BY <1>1, <1>5, <1>6, <1>7, <1>8, InvPartsNext

LEMMA ByteKeeps ==
  ASSUME Inv, Byte
  PROVE  Inv'
  <1>0. SerialInv /\ ReceiverInv /\ StationType /\ Collected /\ HandledIsRead
    BY InvParts
  <1>1. SerialInv' /\ came' = came + 1 /\ Recved' = Recved /\ reported' = reported
    BY <1>0, SerialInvStep DEF Byte, SerialStep, DmaByte, fifo, Recved
  <1>2. UNCHANGED <<sent, bursts, receiver, times, handled>>
    BY DEF Byte
  <1>3. ReceiverInv'
    BY <1>0, <1>2 DEF ReceiverInv, ReceiverType, CountersAgree, CollectedByState, receiver
  <1>4. StationType'
    <2>1. came' <= Len(sent')
      BY <1>0, <1>1, <1>2 DEF Byte, SerialInv, SerialTypeOK, StationType, LineType
    <2>2. silent' \in BOOLEAN
      BY DEF Byte
    <2>3. expected' \subseteq DOMAIN bursts' /\ overrun' \in Nat
      BY <1>0, <1>2 DEF Byte, StationType
    <2> QED
      BY <1>0, <1>2, <2>1, <2>2, <2>3 DEF StationType, LineType, HandledType, Messages
  <1>5. Collected' /\ HandledIsRead'
    <2>1. /\ bufsz \in Nat /\ came \in Nat /\ reported \in Nat /\ Recved \in 0..bufsz
          /\ overrun \in Nat /\ priveData' = priveData /\ handled' = handled
      BY <1>0, <1>2, BufszAssumption, RecvedType
      DEF SerialInv, SerialTypeOK, StationType, receiver
    <2>2. Unread' = Unread + 1 /\ Unread \in Int
      BY <1>1, <2>1 DEF Unread
    <2>3. CASE Unread >= bufsz
      <3>1. overrun' > 0
        BY <2>1, <2>3 DEF Byte
      <3> QED
        BY <2>1, <3>1 DEF Collected, BufferIsLine, NextFollows, HandledIsRead
    <2>4. CASE ~(Unread >= bufsz)
      <3>1. overrun' = overrun
        BY <2>4 DEF Byte
      <3>2. Unread' <= bufsz /\ came' - Unread' = came - Unread
        BY <1>1, <2>1, <2>2, <2>4
      <3> QED
        BY <1>0, <2>1, <3>1, <3>2 DEF Collected, BufferIsLine, NextFollows, HandledIsRead
    <2> QED
      BY <2>3, <2>4
  <1> QED
    BY <1>1, <1>3, <1>4, <1>5, InvPartsNext

\* The line falls silent or an interrupt is served.
LEMMA InterruptKeeps ==
  ASSUME Inv, Silence \/ Interrupt
  PROVE  Inv'
  <1>0. SerialInv /\ ReceiverInv /\ StationType /\ Collected /\ HandledIsRead
    BY InvParts
  <1>1. SerialInv' /\ came' = came
    BY <1>0, SerialInvStep DEF Silence, Interrupt, SerialStep, Handler, LineIdle, line,
      IdleCount, IdleReport, IdleClear, RxCplt
  <1>2. UNCHANGED <<sent, bursts, receiver, times, expected, overrun, handled>>
    BY DEF Silence, Interrupt, station
  <1>3. ReceiverInv'
    BY <1>0, <1>2 DEF ReceiverInv, ReceiverType, CountersAgree, CollectedByState, receiver
  <1>4. silent' \in BOOLEAN
    BY <1>0 DEF Silence, Interrupt, station, StationType
  <1>5. StationType'
    BY <1>0, <1>1, <1>2, <1>4 DEF StationType, LineType, HandledType, Messages
  <1>6. overrun = 0 => Unread' = Unread
    <2>1. CASE Silence
      BY <2>1 DEF Silence, LineIdle, Unread, Recved, line, fifo
    <2>2. CASE Interrupt
      BY <1>0, <2>2, HandlerKeepsUnread DEF Interrupt, Collected, NextFollows
    <2> QED
      BY <2>1, <2>2
  <1>7. Collected' /\ HandledIsRead'
    BY <1>0, <1>1, <1>2, <1>6
    DEF Collected, BufferIsLine, NextFollows, HandledIsRead, receiver
  <1> QED
    BY <1>1, <1>3, <1>5, <1>7, InvPartsNext

LEMMA ReadIsOnLine ==
  ASSUME SerialInv, StationType, ReadByte
  PROVE  OnLine(ring[get_index])
  <1>1. ring[get_index] \in 1..came
    BY ReadByteIsNext DEF ReadByte
  <1>2. came \in Nat /\ came <= Len(sent) /\ Len(sent) \in Nat
    BY DEF StationType, LineType, SerialInv, SerialTypeOK
  <1> QED
    BY <1>1, <1>2 DEF OnLine

\* Only the end of a wrong header is handled while bytes are read, as a 645 request.
LEMMA ReceiverHandsOver ==
  ASSUME ReceiverInv, LineType, NEW n, OnLine(n),
         Seek(n) \/ Length(n) \/ Address(n) \/ HeaderByte(n) \/ Body(n)
  PROVE  handled' = handled \/ HandsOver(Saved(n))
  <1>1. CASE ~HeaderByte(n)
    BY <1>1 DEF Seek, Length, Address, Body
  <1>2. CASE HeaderByte(n)
    <2>1. priveData \in Seq(1..Len(sent)) /\ Len(priveData) < HPLC_DATA_MAX_SIZE
          /\ priveData # <<>>
      BY <1>2 DEF HeaderByte, ReceiverInv, ReceiverType, CountersAgree
    <2>2. Saved(n) \in Seq(1..Len(sent)) /\ Saved(n) # <<>>
      BY <2>1, SavedFits DEF LineType, OnLine
    <2>3. Saved(n)[1] = priveData[1]
      BY <2>1, SavedKeepsFirst DEF OnLine
    <2>4. \/ handled' = handled
          \/ handled' = Append(handled, Message(Saved(n))) /\ priveData' = <<>>
      BY <1>2 DEF HeaderByte, Clear
    <2> QED
      BY <2>1, <2>2, <2>3, <2>4 DEF HandsOver
  <1> QED
    BY <1>1, <1>2

LEMMA ReceiveKeeps ==
  ASSUME Inv, Receive
  PROVE  Inv'
  <1>0. SerialInv /\ ReceiverInv /\ StationType /\ Collected /\ HandledIsRead
    BY InvParts
  <1> DEFINE n == ring[get_index]
  <1>1. /\ ReadByte /\ times' = 0 /\ UNCHANGED <<station, expected, overrun>>
        /\ Seek(n) \/ Length(n) \/ Address(n) \/ HeaderByte(n) \/ Body(n)
    BY DEF Receive
  <1>2. SerialInv' /\ came' = came
    BY <1>0, <1>1, SerialInvStep DEF SerialStep, ReadByte, line
  <1>3. OnLine(n)
    BY <1>0, <1>1, ReadIsOnLine
  <1> HIDE DEF n
  <1>4. LineType /\ UNCHANGED sent
    BY <1>0, <1>1 DEF StationType, station
  <1>5. ReceiverInv' /\ priveData' \in {<<>>, Saved(n)}
    BY <1>0, <1>1, <1>3, <1>4, ReceiverKeeps
  <1>6. Collected'
    BY <1>0, <1>1, <1>5, ReceiveCollects DEF StationType, n
  <1>7. HandledIsRead' /\ HandledType'
    <2>1. handled' = handled \/ HandsOver(Saved(n))
      BY <1>0, <1>1, <1>3, <1>4, ReceiverHandsOver
    <2> QED
      BY <1>0, <1>1, <1>3, <1>4, <1>5, <2>1, ReceiveHandles DEF StationType, n
  <1>8. times' \in 0..(MaxPolls - 1)
    BY <1>1, ReceiverAssumption
  <1>9. StationType'
    BY <1>0, <1>1, <1>2, <1>7, <1>8 DEF StationType, LineType, station
  <1> QED
    BY <1>2, <1>5, <1>6, <1>7, <1>9, InvPartsNext

\* A complete frame is handled when it is analysed.
LEMMA PollHandsOver ==
  ASSUME ReceiverInv, Analyse \/ EmptyPoll \/ LastPoll
  PROVE  handled' = handled \/ HandsOver(priveData)
  <1>1. CASE Analyse
    <2>1. priveData \in Seq(1..Len(sent)) /\ priveData # <<>>
      BY <1>1 DEF Analyse, ReceiverInv, ReceiverType, CountersAgree
    <2> QED
      BY <1>1, <2>1 DEF Analyse, Clear, HandsOver
  <1>2. CASE EmptyPoll \/ LastPoll
    BY <1>2 DEF EmptyPoll, LastPoll
  <1> QED
    BY <1>1, <1>2

\* hplc analyses a frame, polls in vain or starts anew.
LEMMA PollKeeps ==
  ASSUME Inv, Analyse \/ EmptyPoll \/ LastPoll
  PROVE  Inv'
  <1>0. SerialInv /\ ReceiverInv /\ StationType /\ Collected /\ HandledIsRead
    BY InvParts
  <1>1. UNCHANGED <<serialVars, station, expected, overrun>>
    BY DEF Analyse, EmptyPoll, LastPoll
  <1>2. SerialInv' /\ came' = came /\ Unread' = Unread
    BY <1>0, <1>1, SerialInvStep DEF serialVars, line, fifo, Unread, Recved
  <1>3. UNCHANGED sent
    BY <1>1 DEF station
  <1>4. Clear \/ UNCHANGED receiver
    BY DEF Analyse, EmptyPoll, LastPoll
  <1>5. ReceiverInv' /\ (priveData' = <<>> \/ priveData' = priveData)
    <2>1. CASE Clear
      BY <1>3, <2>1, ClearKeeps
    <2>2. CASE UNCHANGED receiver
      BY <1>0, <1>3, <2>2
      DEF ReceiverInv, ReceiverType, CountersAgree, CollectedByState, receiver
    <2> QED
      BY <1>4, <2>1, <2>2
  <1>6. Collected'
    BY <1>0, <1>1, <1>2, <1>5 DEF Collected, BufferIsLine, NextFollows
  <1>7. HandledIsRead' /\ HandledType'
    <2>1. HandledType /\ came \in Nat /\ bufsz \in Nat /\ reported \in Nat
          /\ Recved \in 0..bufsz
      BY <1>0, RecvedType, BufszAssumption DEF StationType, SerialInv, SerialTypeOK
    <2>2. CASE handled' = handled
      <3>1. HandledType'
        BY <1>3, <2>1, <2>2 DEF HandledType, Messages
      <3> QED
        BY <1>0, <1>1, <1>2, <1>5, <2>2, <3>1 DEF HandledIsRead
    <2>3. CASE HandsOver(priveData)
      <3>1. came - Unread \in Int
        BY <2>1 DEF Unread
      <3>2. overrun = 0 => priveData[Len(priveData)] <= came - Unread
        BY <1>0, <2>3 DEF HandsOver, HandledIsRead
      <3> QED
        BY <1>0, <1>1, <1>2, <1>3, <2>1, <2>3, <3>1, <3>2, HandOverIsRead
    <2> QED
      BY <1>0, <2>2, <2>3, PollHandsOver
  <1>8. times' \in 0..(MaxPolls - 1)
    BY <1>0, ReceiverAssumption DEF Analyse, EmptyPoll, LastPoll, StationType
  <1>9. StationType'
    BY <1>0, <1>1, <1>2, <1>7, <1>8 DEF StationType, LineType, station
  <1> QED
    BY <1>2, <1>5, <1>6, <1>7, <1>9, InvPartsNext

\* The positions of the ring agree, and the counters of the receiver with its buffer, in
\* every state, whatever the sizes of the ring and of priveData and whatever the line
\* brings.
THEOREM InvAlways == Spec => []Inv
  <1>1. Init => Inv
    <2> SUFFICES ASSUME Init PROVE Inv
      OBVIOUS
    <2>1. SerialInv /\ Unread = 0
      BY SerialInvStart DEF Init, SerialInit, Unread, Recved
    <2>2. ReceiverInv
      BY ReceiverAssumption
      DEF Init, ReceiverInv, ReceiverType, CountersAgree, CollectedByState
    <2>3. LineType /\ came <= Len(sent) /\ Len(bursts) <= MaxBursts
          /\ bursts \in Seq([kind : Kinds, first : Nat])
      BY ReceiverAssumption DEF Init, SerialInit, LineType
    <2>4. /\ silent \in BOOLEAN /\ times \in 0..(MaxPolls - 1)
          /\ expected \subseteq DOMAIN bursts /\ overrun \in Nat
          /\ HandledType
      BY ReceiverAssumption DEF Init, HandledType
    <2>5. StationType
      BY <2>3, <2>4 DEF StationType
    <2>6. Collected /\ HandledIsRead
      BY <2>1, BufszAssumption DEF Init, Collected, BufferIsLine, NextFollows, HandledIsRead
    <2> QED
      BY <2>1, <2>2, <2>5, <2>6, InvParts
  <1>2. Inv /\ [Next]_vars => Inv'
    <2> SUFFICES ASSUME Inv, [Next]_vars PROVE Inv'
      OBVIOUS
    <2>1. CASE UNCHANGED vars
      <3>0. SerialInv /\ ReceiverInv /\ StationType /\ Collected /\ HandledIsRead
        BY InvParts
      <3>1. SerialInv' /\ Unread' = Unread /\ came' = came
        BY <2>1, <3>0, SerialInvStep DEF vars, serialVars, line, fifo, Unread, Recved
      <3>2. ReceiverInv'
        BY <2>1, <3>0 DEF vars, station, receiver, ReceiverInv, ReceiverType, CountersAgree,
          CollectedByState
      <3>3. StationType' /\ Collected' /\ HandledIsRead'
        BY <2>1, <3>0, <3>1 DEF vars, station, receiver, StationType, LineType, Collected,
          BufferIsLine, NextFollows, HandledIsRead, HandledType, Messages
      <3> QED
        BY <3>1, <3>2, <3>3, InvPartsNext
    <2> QED
      BY <2>1, StartBurstKeeps, ByteKeeps, InterruptKeeps, ReceiveKeeps, PollKeeps
      DEF Next, LineStep, HplcStep
  <1> QED
    BY <1>1, <1>2, PTL DEF Spec

\* What the ring offers is the reported part of the line, in order and up to its end,
\* also after an overrun, for every size of the ring (rt_dma_recv_update_put_index).
THEOREM RingHoldsNewestAlways == Spec => []RingHoldsNewest
  <1>1. Inv => RingHoldsNewest
    BY InvParts, OfferedIsNewest
  <1> QED
    BY <1>1, InvAlways, PTL

\* While nothing unread is written over, hplc collects consecutive bytes of the line.
THEOREM BufferIsLineAlways == Spec => []BufferIsLine
  <1>1. Inv => BufferIsLine
    BY DEF Inv
  <1> QED
    BY <1>1, InvAlways, PTL

\* While nothing unread is written over, every frame or request handled lies on the line
\* behind all that were handled before it, whatever the line brings: none is handled
\* twice (clear_data after hplc_priveData_analysis and hplc_645_addr_receive).
THEOREM HandledOnceAlways == Spec => HandledOnce
  <1> DEFINE Later ==
        overrun = 0 => \A i \in DOMAIN handled : handled[i].last < handled'[Len(handled')].first
  <1>1. Inv /\ [Next]_vars => [Later]_handled
    <2> SUFFICES ASSUME Inv, Next, handled' # handled PROVE Later
      BY DEF vars
    <2>0. SerialInv /\ ReceiverInv /\ StationType /\ Collected /\ HandledIsRead
      BY InvParts
    <2>1. Receive \/ Analyse \/ EmptyPoll \/ LastPoll
      BY DEF Next, LineStep, HplcStep, StartBurst, Byte, Silence, Interrupt
    <2>2. PICK data : HandsOver(data)
      <3>1. CASE Receive
        <4> DEFINE n == ring[get_index]
        <4>1. /\ ReadByte
              /\ Seek(n) \/ Length(n) \/ Address(n) \/ HeaderByte(n) \/ Body(n)
          BY <3>1 DEF Receive
        <4>2. OnLine(n)
          BY <2>0, <4>1, ReadIsOnLine
        <4> HIDE DEF n
        <4> QED
          BY <2>0, <4>1, <4>2, ReceiverHandsOver DEF StationType
      <3>2. CASE Analyse \/ EmptyPoll \/ LastPoll
        BY <2>0, <3>2, PollHandsOver
      <3> QED
        BY <2>1, <3>1, <3>2
    <2>3. sent' = sent
      BY <2>1 DEF Receive, Analyse, EmptyPoll, LastPoll, station
    <2>4. handled'[Len(handled')].first = data[1]
      BY <2>0, <2>2, <2>3, HandledGrows DEF HandsOver, StationType
    <2>5. overrun = 0 => \A i \in DOMAIN handled : handled[i].last < data[1]
      BY <2>0, <2>2 DEF HandsOver, HandledIsRead
    <2> QED
      BY <2>4, <2>5
  <1>2. Inv /\ [Next]_vars => [overrun = 0 =>
          \A i \in DOMAIN handled : handled[i].last < handled'[Len(handled')].first]_handled
    BY <1>1
  <1> QED
    BY <1>2, InvAlways, PTL DEF Spec, HandledOnce
=============================================================================
