--------------------------- MODULE FrameReceiver ---------------------------
(***************************************************************************)
(* hplc's receiver of 698.45 frames, get_single_frame_frome_hplc, on top of    *)
(* the serial driver: it collects bytes from a 0x68 on, takes the length from  *)
(* bytes 2 and 3 and the place of the header check from byte 5, and hands the  *)
(* frame over when the length is reached; 30 empty polls drop what it has.     *)
(*                                                                         *)
(* The line brings bursts.  A burst says which of its bytes are a header with  *)
(* a right check sequence and which are a right frame; the check sequences     *)
(* are taken to fail on everything else.  The buffer holds byte numbers.       *)
(***************************************************************************)
EXTENDS SerialRx, Sequences

CONSTANTS
    Kinds, Burst,         \* Burst[k]: bytes, pre(amble), head and size (0: not right)
    HPLC_DATA_MAX_SIZE,   \* size of priveData
    MaxPolls,             \* empty polls until the receiver starts anew (30)
    MaxBursts,            \* bound: bursts the line brings
    MaxOverrun            \* bound: unread bytes written over until hplc is free again

ASSUME ReceiverAssumption ==
    /\ Burst \in [Kinds -> [bytes : Seq(0..255), pre : Nat, head : Nat, size : Nat]]
    /\ HPLC_DATA_MAX_SIZE \in Nat /\ HPLC_DATA_MAX_SIZE > 12
    /\ MaxPolls \in Nat \ {0} /\ MaxBursts \in Nat /\ MaxOverrun \in Nat

VARIABLES
    sent,                 \* bytes of the line, to the end of the running burst
    bursts,               \* bursts begun: kind and number of the first byte
    silent,               \* the line has been idle since its last byte
    sta,                  \* USART_RX_STA, and "done" for a frame handed over
    priveData,            \* numbers of the bytes collected; dataSize is its length
    len_all, len_sa, len_left, times,
    expected,             \* history: bursts that hplc, free and in time, must handle
    overrun,              \* history: unread bytes written over since hplc was free
    handled               \* history: frames and requests handled, their first and last byte

station  == <<sent, bursts, silent>>
receiver == <<sta, priveData, len_all, len_sa, len_left>>
vars == <<serialVars, station, receiver, times, expected, overrun, handled>>

Init ==
    /\ SerialInit
    /\ sent = <<>> /\ bursts = <<>> /\ silent = TRUE
    /\ sta = "seek" /\ priveData = <<>> /\ len_all = 0 /\ len_sa = 0 /\ len_left = 0
    /\ times = 0
    /\ expected = {} /\ overrun = 0 /\ handled = <<>>

-----------------------------------------------------------------------------
(* The line. *)

Ask645(k) == Len(Burst[k].bytes) = 12 /\ Burst[k].bytes[2] = 170

\* A frame of HPLC_DATA_MAX_SIZE bytes passes the length check, but its last byte is
\* not saved: the longest frame is one shorter.
Receivable(k) == Burst[k].size \in 12..(HPLC_DATA_MAX_SIZE - 1) \/ Ask645(k)

\* hplc has read everything and waits for a frame.
Free == Unread = 0 /\ sta = "seek"

StartBurst(k) ==
    /\ came = Len(sent) /\ Len(bursts) < MaxBursts
    /\ sent' = sent \o Burst[k].bytes
    /\ bursts' = Append(bursts, [kind |-> k, first |-> came + 1])
    /\ expected' = IF Free /\ Receivable(k) THEN expected \union {Len(bursts) + 1}
                                            ELSE expected
    /\ overrun' = IF Free THEN 0 ELSE overrun
    /\ UNCHANGED <<serialVars, silent, receiver, times, handled>>

\* The next byte of the burst; writing over an unread one spoils what is under way.
Byte ==
    /\ came < Len(sent)
    /\ Unread >= bufsz => overrun < MaxOverrun
    /\ DmaByte
    /\ silent' = FALSE
    /\ expected' = IF Unread >= bufsz THEN {} ELSE expected
    /\ overrun' = IF Unread >= bufsz THEN overrun + 1 ELSE overrun
    /\ UNCHANGED <<sent, bursts, receiver, times, handled>>

Silence ==
    /\ came = Len(sent) /\ ~silent
    /\ LineIdle
    /\ silent' = TRUE
    /\ UNCHANGED <<sent, bursts, receiver, times, expected, overrun, handled>>

Interrupt == Handler /\ UNCHANGED <<station, receiver, times, expected, overrun, handled>>

-----------------------------------------------------------------------------
(* The receiver: one byte is read and worked in. *)

\* save_hplc_data: a byte that does not fit is dropped, and no error is returned.
Saved(n) ==
    IF HPLC_DATA_MAX_SIZE > Len(priveData) + 1 THEN Append(priveData, n) ELSE priveData

Value(n) == sent[n]

Message(data) == [first |-> data[1], last |-> data[Len(data)]]

\* clear_data
Clear ==
    /\ sta' = "seek" /\ priveData' = <<>>
    /\ len_all' = 0 /\ len_sa' = 0 /\ len_left' = 0

\* _698_HCS over the header, _698_FCS over the frame of burst b.
BytesOf(b, n) == [i \in 1..n |-> bursts[b].first + Burst[bursts[b].kind].pre + i - 1]

Header(data) ==
    \E b \in DOMAIN bursts :
        LET head == Burst[bursts[b].kind].head IN head > 0 /\ data = BytesOf(b, head)

Frame(b, data) ==
    LET size == Burst[bursts[b].kind].size IN size > 0 /\ data = BytesOf(b, size)

\* Still without a 0x68.
Seek(n) ==
    /\ sta = "seek"
    /\ IF Value(n) = 104 THEN sta' = "length" /\ priveData' = Saved(n)
                         ELSE UNCHANGED <<sta, priveData>>
    /\ UNCHANGED <<len_all, len_sa, len_left, handled>>

\* Faulty: any length is good.
LengthAny(n) ==
    /\ sta = "length"
    /\ LET data == Saved(n)
           all  == Value(data[3]) * 256 + Value(data[2]) + 2
       IN  \/ /\ Len(data) < 3
              /\ priveData' = data
              /\ UNCHANGED <<sta, len_all, len_sa, len_left>>
           \/ /\ Len(data) = 3
              /\ sta' = "address" /\ priveData' = data
              /\ len_all' = all /\ len_left' = all - 3
              /\ UNCHANGED len_sa
    /\ UNCHANGED handled

\* Faulty: a length of 12 is refused.
LengthStrict(n) ==
    /\ sta = "length"
    /\ LET data == Saved(n)
           all  == Value(data[3]) * 256 + Value(data[2]) + 2
       IN  \/ /\ Len(data) < 3
              /\ priveData' = data
              /\ UNCHANGED <<sta, len_all, len_sa, len_left>>
           \/ Len(data) = 3 /\ all <= 12 /\ Clear
           \/ /\ Len(data) = 3 /\ all > 12
              /\ sta' = "address" /\ priveData' = data
              /\ len_all' = all /\ len_left' = all - 3
              /\ UNCHANGED len_sa
    /\ UNCHANGED handled

\* To the length in bytes 2 and 3, which is at least 12.
Length(n) ==
    /\ sta = "length"
    /\ LET data == Saved(n)
           all  == Value(data[3]) * 256 + Value(data[2]) + 2
       IN  \/ /\ Len(data) < 3
              /\ priveData' = data
              /\ UNCHANGED <<sta, len_all, len_sa, len_left>>
           \/ Len(data) = 3 /\ all < 12 /\ Clear
           \/ /\ Len(data) = 3 /\ all >= 12
              /\ sta' = "address" /\ priveData' = data
              /\ len_all' = all /\ len_left' = all - 3
              /\ UNCHANGED len_sa
    /\ UNCHANGED handled

\* To byte 5, which tells where the header ends; 0xAA in bytes 2 and 3 is the
\* broadcast address of a 645 request, not a length.
Address(n) ==
    /\ sta = "address"
    /\ LET data  == Saved(n)
           is645 == Value(data[2]) = 170 /\ Value(data[3]) = 170
       IN  \/ /\ Len(data) = 5 /\ ~is645 /\ len_all > HPLC_DATA_MAX_SIZE
              /\ Clear
           \/ /\ ~(Len(data) = 5 /\ ~is645 /\ len_all > HPLC_DATA_MAX_SIZE)
              /\ priveData' = data
              /\ len_left' = len_left - 1
              /\ IF Len(data) = 5
                 THEN /\ sta' = "header"
                      /\ len_sa' = IF is645 THEN 4 ELSE (Value(data[5]) % 16) + 1
                 ELSE UNCHANGED <<sta, len_sa>>
              /\ UNCHANGED len_all
    /\ UNCHANGED handled

\* The byte is counted; the last one must be 0x16.
Count(data, next) ==
    \/ /\ len_left > 1
       /\ sta' = next /\ priveData' = data /\ len_left' = len_left - 1
       /\ UNCHANGED <<len_all, len_sa>>
    \/ /\ len_left <= 1 /\ Value(data[Len(data)]) # 22
       /\ Clear
    \/ /\ len_left <= 1 /\ Value(data[Len(data)]) = 22
       /\ sta' = "done" /\ priveData' = data /\ len_left' = len_left - 1
       /\ UNCHANGED <<len_all, len_sa>>

\* hplc_645_addr_receive
Is645(data) ==
    /\ Len(data) >= 12
    /\ Value(data[8]) = 104 /\ Value(data[12]) = 22
    /\ Value(data[2]) = 170 /\ Value(data[9]) = 19 /\ Value(data[11]) = 223

BurstOf(n) == CHOOSE b \in DOMAIN bursts :
    /\ bursts[b].first <= n
    /\ \A c \in DOMAIN bursts : c > b => bursts[c].first > n

\* To the end of the header.  A wrong one may be a 645 request, which is answered;
\* otherwise the receiver starts anew, after a look at the byte in front of
\* priveData, the top byte of time_flag_positon, which is never 0x16.
HeaderByte(n) ==
    /\ sta = "header"
    /\ LET data == Saved(n)
           ends == Len(data) = 8 + len_sa
       IN  \/ /\ ~ends \/ Header(data)
              /\ Count(data, IF ends THEN "body" ELSE "header")
              /\ UNCHANGED handled
           \/ /\ ends /\ ~Header(data)
              /\ Clear
              /\ handled' = IF Is645(data) THEN Append(handled, Message(data)) ELSE handled

Body(n) ==
    /\ sta = "body"
    /\ Count(Saved(n), "body")
    /\ UNCHANGED handled

Receive ==
    /\ ReadByte
    /\ times' = 0
    /\ LET n == ring[get_index]
       IN  Seek(n) \/ Length(n) \/ Address(n) \/ HeaderByte(n) \/ Body(n)
    /\ UNCHANGED <<station, expected, overrun>>

\* Faulty: the frame stays in priveData.
AnalyseKept ==
    /\ sta = "done"
    /\ ThreadRuns
    /\ handled' = IF \E b \in DOMAIN bursts : Frame(b, priveData)
                  THEN Append(handled, Message(priveData)) ELSE handled
    /\ times' = 0
    /\ UNCHANGED <<serialVars, station, receiver, expected, overrun>>

\* The frame is complete: hplc_priveData_analysis, what follows from it, clear_data.
Analyse ==
    /\ sta = "done"
    /\ ThreadRuns
    /\ Clear
    /\ handled' = IF \E b \in DOMAIN bursts : Frame(b, priveData)
                  THEN Append(handled, Message(priveData)) ELSE handled
    /\ times' = 0
    /\ UNCHANGED <<serialVars, station, expected, overrun>>

\* Nothing to read: 200 ms.
EmptyPoll ==
    /\ ThreadRuns /\ sta # "done"
    /\ Recved = 0 /\ times + 1 < MaxPolls
    /\ times' = times + 1
    /\ UNCHANGED <<serialVars, station, receiver, expected, overrun, handled>>

LastOf(b) == IF b = Len(bursts) THEN Len(sent) ELSE bursts[b + 1].first - 1

\* Six seconds are longer than a burst: they do not pass before the ones that brought
\* the bytes collected are over and their ends reported.
TimeAllows ==
    \A i \in DOMAIN priveData : LastOf(BurstOf(priveData[i])) <= reported

\* Faulty: what was collected is kept.
LastPollKept ==
    /\ ThreadRuns /\ sta # "done"
    /\ Recved = 0 /\ times + 1 = MaxPolls
    /\ TimeAllows
    /\ times' = 0
    /\ UNCHANGED <<serialVars, station, receiver, expected, overrun, handled>>

LastPoll ==
    /\ ThreadRuns /\ sta # "done"
    /\ Recved = 0 /\ times + 1 = MaxPolls
    /\ TimeAllows
    /\ times' = 0
    /\ Clear
    /\ UNCHANGED <<serialVars, station, expected, overrun, handled>>

-----------------------------------------------------------------------------

HplcStep == Receive \/ Analyse \/ EmptyPoll \/ LastPoll

LineStep == Byte \/ Silence

Next == (\E k \in Kinds : StartBurst(k)) \/ LineStep \/ Interrupt \/ HplcStep

\* A burst runs to its end, interrupts are served, and hplc polls for ever.
Fairness == WF_vars(LineStep) /\ WF_vars(Interrupt) /\ WF_vars(HplcStep)

Spec == Init /\ [][Next]_vars

FairSpec == Spec /\ Fairness

-----------------------------------------------------------------------------

TypeOK ==
    /\ SerialTypeOK
    /\ sent \in Seq(0..255) /\ came <= Len(sent) /\ silent \in BOOLEAN
    /\ bursts \in Seq([kind : Kinds, first : Nat]) /\ Len(bursts) <= MaxBursts
    /\ sta \in {"seek", "length", "address", "header", "body", "done"}
    /\ priveData \in Seq(1..Len(sent))
    /\ len_all \in Nat /\ len_sa \in 0..16 /\ len_left \in Int
    /\ times \in 0..(MaxPolls - 1)
    /\ expected \subseteq DOMAIN bursts /\ overrun \in Nat
    /\ handled \in Seq([first : 1..Len(sent), last : 1..Len(sent)])

\* The counters of the receiver fit its buffer in every state: the bytes collected and
\* those still to come make the length of the frame, and the collected ones end inside
\* priveData (get_single_frame_frome_hplc, save_char_point_data).
CountersAgree ==
    /\ Len(priveData) < HPLC_DATA_MAX_SIZE
    /\ sta = "seek" <=> priveData = <<>>
    /\ sta = "done" => len_left = 0
    /\ sta \in {"address", "header", "body"} => len_left > 0
    /\ sta \in {"address", "header", "body", "done"} =>
           \/ Len(priveData) + len_left = len_all
           \/ Len(priveData) = HPLC_DATA_MAX_SIZE - 1 /\ Len(priveData) + len_left < len_all

\* Why they do: what has been collected before the length and the address are known.
CollectedByState ==
    /\ sta = "length" => Len(priveData) < 3
    /\ sta = "address" => 3 <= Len(priveData) /\ Len(priveData) < 5 /\ len_all >= 12

\* While the DMA has written over nothing unread, hplc collects consecutive bytes of the
\* line, none twice and none left out (the driver and get_single_frame_frome_hplc).
BufferIsLine ==
    overrun > 0 \/ \A i \in 2..Len(priveData) : priveData[i] = priveData[i - 1] + 1

\* Why it does: the ring still holds what was not read, and the byte read next follows
\* the last one collected, unless priveData is full.
NextFollows ==
    overrun = 0 =>
    /\ Unread <= bufsz
    /\ 0 < Len(priveData) /\ Len(priveData) + 1 < HPLC_DATA_MAX_SIZE =>
           priveData[Len(priveData)] = came - Unread

\* What was collected or handled has been read, and what is collected came after what
\* was handled.
HandledIsRead ==
    overrun = 0 =>
    /\ \A i \in DOMAIN priveData : priveData[i] <= came - Unread
    /\ \A i \in DOMAIN handled :
           /\ handled[i].last <= came - Unread
           /\ priveData # <<>> => handled[i].last < priveData[1]

\* The ring's positions, the receiver's counters and the line agree at every byte and
\* every interrupt (rt_dma_recv_update_put_index, get_single_frame_frome_hplc).
Inv ==
    /\ TypeOK
    /\ IndexesAgree /\ DmaAhead /\ RingIsLine /\ OfferIsReported
    /\ CountersAgree /\ CollectedByState
    /\ BufferIsLine /\ NextFollows /\ HandledIsRead

\* While the DMA has written over nothing unread, a frame or request that hplc handles lies
\* on the line behind all it handled before: no byte is part of two, and none is handled
\* out of order, whatever lengths and marks the line carries (clear_data after hplc_priveData_analysis and hplc_645_addr_receive).
HandledOnce ==
    [][overrun = 0 =>
           \A i \in DOMAIN handled : handled[i].last < handled'[Len(handled')].first]_handled

\* The bytes of burst b that hplc must handle: its frame, or the 645 request it is.
MessageOf(b) ==
    LET k     == bursts[b].kind
        first == bursts[b].first + IF Ask645(k) THEN 0 ELSE Burst[k].pre
        size  == IF Ask645(k) THEN 12 ELSE Burst[k].size
    IN  [first |-> first, last |-> first + size - 1]

\* A frame or 645 request that begins when hplc has nothing left over is handled,
\* however the idle and end-of-ring interrupts cut it, whatever follows it on the line
\* and whatever came before, unless hplc falls behind by a whole ring.
FrameHandled ==
    \A b \in 1..MaxBursts :
        b \in expected ~> b \notin expected \/ \E i \in DOMAIN handled : handled[i] = MessageOf(b)

\* The receiver does not stay in a frame: a wrong length, a lost byte or a cut frame
\* holds it only until the line has been quiet for the time of its polls
\* (get_single_frame_frome_hplc, times==30).
StartsAnew == sta # "seek" ~> sta = "seek"
=============================================================================
