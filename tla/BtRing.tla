-------------------------------- MODULE BtRing --------------------------------
(***************************************************************************)
(* The ring in which main.c keeps the bytes for the Bluetooth UART: an     *)
(* array, a read and a write pointer and a fill counter.  Every operation  *)
(* is one action here, which is what happens when no interrupt falls       *)
(* inside it; module BtLink takes the operations apart.                    *)
(*                                                                         *)
(* The pointers run over 0..Size, one position more than the array has:    *)
(* bt_rx_get_next wraps after the cell behind the array, so that cell is   *)
(* read and written too, and it belongs to another variable.               *)
(***************************************************************************)
EXTENDS Integers, Sequences

CONSTANTS
    Size,       \* bytes in bt_rx_ring_buffer (1024)
    Word,       \* values of a uint16_t (65536)
    MaxLen,     \* longest report payload (255)
    MaxBare,    \* most the reports without a payload may be ahead of the UART
    Byte,       \* values of a byte
    Payloads,   \* the messages that protocol handlers report
    Protocols,  \* the protocol numbers they report them under
    Codes,      \* result codes of commands; {} when the host sends none
    Foreign,    \* values the variable behind the array takes; {} if nobody's
    Paced       \* TRUE: producers never outrun the UART by a whole ring

ASSUME SizeAssumption ==
    /\ MaxLen \in Nat \ {0}
    /\ MaxBare \in Nat
    /\ Size \in Nat /\ Size >= MaxLen + 6
    /\ Word \in Nat /\ Word > 3 * Size

ASSUME ByteAssumption ==
    /\ 0 \in Byte /\ 1 \in Byte /\ 10 \in Byte /\ 43 \in Byte
    /\ 66 \in Byte /\ 128 \in Byte
    /\ Protocols \subseteq Byte /\ Codes \subseteq Byte /\ Foreign \subseteq Byte
    /\ Paced \in BOOLEAN

\* ccd_process_byte reports a lone zero, which is its own checksum, without a
\* payload (CCD.c:102-105)
ASSUME PayloadAssumption ==
    \A m \in Payloads : m \in Seq(Byte) /\ Len(m) \in 0 .. MaxLen

VARIABLES
    ring,   \* bt_rx_ring_buffer and the byte behind it
    begin,  \* bt_rx_begin, the next byte to send
    last,   \* bt_rx_last, the next cell to write
    fill,   \* bt_rx_buffer_fill_size
    bare    \* history: bytes of reports without a payload, less those sent since

vars == <<ring, begin, last, fill, bare>>

Cell == 0 .. Size

\* mutant: the pointer runs on past the array
GetNextUnbounded(ptr) == ptr + 1

GetNext(ptr) == IF ptr = Size THEN 0 ELSE ptr + 1

\* n calls of bt_rx_get_next, for n up to the number of cells
Advance(ptr, n) == IF ptr + n > Size THEN ptr + n - (Size + 1) ELSE ptr + n

\* how far cell k is ahead of ptr
Offset(ptr, k) == IF k >= ptr THEN k - ptr ELSE k - ptr + Size + 1

\* the number of bytes waiting to be sent
Live == Offset(begin, last)

\* 16-bit arithmetic, for results that left the range by less than a word
Wrap(n) == IF n >= Word THEN n - Word ELSE IF n < 0 THEN n + Word ELSE n

CmdFrame(c) == <<43, 66, 1, c, 10>>

\* the fifth byte is a placeholder: bt_queue_rx steps over its cell
RxFrame(m, p) == <<43, 66, 128, p, 0>> \o m \o <<10>>

\* bt_write_byte for every byte of f except those at the positions of skip
Write(f, skip) ==
    /\ ring' = [k \in Cell |->
                  LET i == Offset(last, k) + 1
                  IN  IF i \in DOMAIN f \ skip THEN f[i] ELSE ring[k]]
    /\ last' = Advance(last, Len(f))

\* mutant: the test allows for twice the array
OverflowsLate(n) == Wrap(fill + n) > 2 * Size

\* the test both producers make for a frame that they count as n bytes
Overflows(n) == Wrap(fill + n) > Size

QueueCmd(c) ==
    /\ Paced => Live + 5 <= Size
    /\ Write(CmdFrame(c), {})
    /\ IF Overflows(1) THEN begin' = last /\ fill' = 0 /\ bare' = 0
                       ELSE UNCHANGED <<begin, fill, bare>>

\* Producers that are not Paced may outrun the UART as they like, except with
\* reports that have no payload: no more than MaxBare bytes of those are ahead
\* of what the UART has taken.
CountBare(m) ==
    IF Paced THEN bare' = bare
    ELSE /\ bare' = (IF Overflows(Len(m)) THEN 0 ELSE bare) + IF m = <<>> THEN 6 ELSE 0
         /\ bare' <= MaxBare

\* mutant: the payload is counted once
QueueRxCountsOnce(m, p) ==
    /\ Paced => Live + Len(m) + 6 <= Size
    /\ Write(RxFrame(m, p), {5})
    /\ begin' = IF Overflows(Len(m)) THEN last ELSE begin
    /\ fill' = Wrap((IF Overflows(Len(m)) THEN 0 ELSE fill) + Len(m) + 6)
    /\ CountBare(m)

\* mutant: the backlog is discarded after the frame was written
QueueRxDiscardsFrame(m, p) ==
    /\ Paced => Live + Len(m) + 6 <= Size
    /\ Write(RxFrame(m, p), {5})
    /\ begin' = IF Overflows(Len(m)) THEN last' ELSE begin
    /\ fill' = Wrap((IF Overflows(Len(m)) THEN 0 ELSE fill) + 2 * Len(m) + 6)
    /\ CountBare(m)

QueueRx(m, p) ==
    /\ Paced => Live + Len(m) + 6 <= Size
    /\ Write(RxFrame(m, p), {5})
    /\ begin' = IF Overflows(Len(m)) THEN last ELSE begin
    /\ fill' = Wrap((IF Overflows(Len(m)) THEN 0 ELSE fill) + 2 * Len(m) + 6)
    /\ CountBare(m)

\* mutant: the main loop does not ask whether anything is queued
DrainBlind ==
    /\ begin' = GetNext(begin)
    /\ fill' = Wrap(fill - 1)
    /\ bare' = IF bare = 0 THEN 0 ELSE bare - 1
    /\ UNCHANGED <<ring, last>>

\* the main loop, when the UART's data register is empty
Drain ==
    /\ begin # last
    /\ begin' = GetNext(begin)
    /\ fill' = Wrap(fill - 1)
    /\ bare' = IF bare = 0 THEN 0 ELSE bare - 1
    /\ UNCHANGED <<ring, last>>

\* the owner of the byte behind the array writes it
ForeignWrite(b) ==
    /\ ring' = [ring EXCEPT ![Size] = b]
    /\ UNCHANGED <<begin, last, fill, bare>>

Init ==
    /\ ring = [k \in Cell |-> 0]
    /\ begin = 0 /\ last = 0 /\ fill = 0 /\ bare = 0

Next ==
    \/ \E c \in Codes : QueueCmd(c)
    \/ \E m \in Payloads, p \in Protocols : QueueRx(m, p)
    \/ Drain
    \/ \E b \in Foreign : ForeignWrite(b)

Spec == Init /\ [][Next]_vars

-------------------------------------------------------------------------------
TypeOK ==
    /\ ring \in [Cell -> Byte]
    /\ begin \in Cell /\ last \in Cell
    /\ fill \in 0 .. Word - 1 /\ bare \in Nat

\* The counter stays ahead of the backlog, but for what reports without a
\* payload put into it.  bt_queue_rx counts a payload twice, which makes up for
\* the frame bytes its test leaves out only where there is a payload.
FillCoversLive == 8 * Live <= 7 * fill + bare

\* Whenever the test of bt_queue_rx finds no overflow the frame fits behind
\* the backlog, so a report never runs into bytes that are still to be sent.
CheckIsSound ==
    \A m \in Payloads : ~Overflows(Len(m)) => Live + Len(m) + 6 <= Size

\* The backlog, read from the ring.
Backlog == [i \in 1 .. Live |-> ring[Advance(begin, i - 1)]]

Queue == INSTANCE BtQueue WITH queue <- Backlog

\* The ring is a queue: bytes leave in order, frames go in whole, and a
\* backlog is lost only as a whole (bt_queue_cmd, bt_queue_rx, main loop).
ImplementsQueue == Queue!Spec

\* main.c:218 and main.c:234 call the discarding branch "buffer overflow": a
\* backlog is thrown away when, and only when, the frame would not fit behind
\* it.  Neither direction holds of bt_queue_rx: see bt_ring_overflow.cfg.
OverflowMeansFull ==
    [][\A m \in Payloads, p \in Protocols :
         QueueRx(m, p) /\ Live > 0 =>
             (begin' # begin <=> Live + Len(m) + 6 > Size)]_vars
===============================================================================
