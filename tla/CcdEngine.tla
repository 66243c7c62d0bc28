------------------------------ MODULE CcdEngine ------------------------------
(***************************************************************************)
(* CCD.c.  Bytes of the bus are collected until it was idle for 11 bits;   *)
(* then, if the last is the sum of the others, the others are reported.    *)
(* The idle timer starts with each byte and is stopped by the falling edge *)
(* that begins the next.  A message of the host is to begin with a byte    *)
(* that a second timer puts on the pin in quarters of a bit, listening     *)
(* meanwhile; while that timer runs falling edges are not seen.            *)
(*                                                                         *)
(* ccd_do_tasks runs in the main loop and is taken apart into steps; the   *)
(* rest runs in interrupt handlers, which do not nest.  main.c never takes *)
(* the host's message back, so ccd_do_tasks loads it in every turn.  The   *)
(* handler of USARTC0_DRE is left out: nobody enables that interrupt.      *)
(*                                                                         *)
(* A byte is the set of the positions of its bits that are set.            *)
(***************************************************************************)
EXTENDS Integers, Sequences, SequencesExt, FiniteSetsExt

CONSTANTS
    Bits,       \* data bits of a byte (8)
    Messages,   \* what others send on the bus, with the last byte for the sum
    MaxMessages \* bound on the messages on the bus

Byte == SUBSET (0 .. Bits - 1)

ASSUME CcdAssumption ==
    /\ Bits \in Nat \ {0} /\ MaxMessages \in Nat
    /\ \A m \in Messages : m \in Seq(Byte) /\ m # <<>>

VARIABLES
    hosted,     \* chosen once: the host sends a message
    pending,    \* the host's message has come, and stays
    pc,         \* where the main loop is
    txLen,      \* ccd_tx_buffer_len, for a message of one byte
    active,     \* ccd_tx_active
    busIdle,    \* ccd_bus_idle
    bit, step,  \* ccd_tx0_current_bit, ccd_tx0_step_index
    tx0Byte,    \* ccd_tx0_byte
    tx0On,      \* CCD_TX0_TIMER runs; the pin's interrupt is masked
    idleTimer,  \* "off", or what started it: a "byte" or the end of the "tx0" timer
    rx,         \* the first ccd_rx_buffer_len bytes of ccd_rx_buffer
    reports,    \* what was passed to bt_queue_rx, kept while there is no host
    due,        \* history: the bodies of the sound messages on the bus, kept likewise
    said,       \* what is to come of the message on the bus
    inByte,     \* a byte is on the bus
    count,      \* the number of messages on the bus
    halted      \* the processor is caught in an interrupt without a handler

host == <<hosted, pending, pc>>
tx0 == <<active, bit, step, tx0Byte, tx0On>>
bus == <<said, inByte, due, count>>
receiver == <<idleTimer, rx, reports, busIdle>>
vars == <<host, txLen, tx0, receiver, bus, halted>>

Init ==
    /\ hosted \in BOOLEAN /\ pending = FALSE /\ pc = "turn" /\ txLen = 0
    /\ active = FALSE /\ busIdle = FALSE /\ bit = 0 /\ step = 0 /\ tx0Byte = {} /\ tx0On = FALSE
    /\ idleTimer = "off" /\ rx = <<>> /\ reports = <<>>
    /\ said = <<>> /\ inByte = FALSE /\ due = <<>> /\ count = 0 /\ halted = FALSE

\* ccd_calculate_crc
Value(b) == MapThenSumSet(LAMBDA k : 2^k, b)
Sum(m) == FoldLeft(LAMBDA s, b : (s + Value(b)) % 2^Bits, 0, m)

\* the last byte is the sum of the others
Sound(m) == Sum(Front(m)) = Value(Last(m))

\* the bodies with that of m, if m is to be reported
With(bodies, m) == IF ~hosted /\ Sound(m) THEN Append(bodies, Front(m)) ELSE bodies

\* ccd_tx0_timer_start
StartTx0 == tx0On' = TRUE /\ busIdle' = FALSE

-------------------------------------------------------------------------------
(* ccd_do_tasks *)

HostSends ==
    /\ hosted /\ ~pending
    /\ pending' = TRUE
    /\ UNCHANGED <<hosted, pc, txLen, tx0, receiver, bus, halted>>

Load ==
    /\ pc = "turn" /\ pending
    /\ txLen' = 1
    /\ pc' = "sum"
    /\ UNCHANGED <<hosted, pending, tx0, receiver, bus, halted>>

AddSum ==
    /\ pc = "sum"
    /\ txLen' = 2
    /\ pc' = "rewind"
    /\ UNCHANGED <<hosted, pending, tx0, receiver, bus, halted>>

Rewind ==
    /\ pc = "rewind"
    /\ bit' = 0
    /\ pc' = IF busIdle THEN "start" ELSE "turn"
    /\ UNCHANGED <<hosted, pending, txLen, active, step, tx0Byte, tx0On, receiver, bus, halted>>

StartIfIdle ==
    /\ pc = "start"
    /\ StartTx0
    /\ pc' = "turn"
    /\ UNCHANGED <<hosted, pending, txLen, active, bit, step, tx0Byte, idleTimer, rx, reports, bus, halted>>

MainStep == Load \/ AddSum \/ Rewind \/ StartIfIdle

(* The idle timer's callback *)

Report == reports' = With(reports, rx) /\ rx' = <<>>

\* It can run between the bytes of a message only in the middle of the next
\* byte, when nobody saw its falling edge.
IdleTimeElapses == idleTimer = "tx0" \/ (idleTimer = "byte" /\ (inByte \/ said = <<>>))

IdleOver ==
    /\ IdleTimeElapses
    /\ Report
    /\ idleTimer' = "off"
    /\ IF txLen > 0 /\ ~active THEN active' = TRUE /\ StartTx0
                               ELSE busIdle' = TRUE /\ UNCHANGED <<active, tx0On>>
    /\ UNCHANGED <<host, txLen, bit, step, tx0Byte, bus, halted>>

(* ccd_tx0_timer_tick, four steps for each bit *)

\* The pins are left out: the UART's transmitter is on and owns the pin.
DriveBit ==
    /\ tx0On /\ step = 0 /\ bit # Bits + 2
    /\ step' = 1
    /\ UNCHANGED <<host, txLen, active, bit, tx0Byte, tx0On, receiver, bus, halted>>

\* After the stop bit the UART takes the second byte of an active message.  That
\* it is sent raises an interrupt that main.c enables and nobody handles.
EndActive ==
    /\ tx0On /\ step = 0 /\ bit = Bits + 2 /\ active
    /\ bit' = 0 /\ step' = 1 /\ tx0On' = FALSE
    /\ halted' = (txLen > 1)
    /\ UNCHANGED <<host, txLen, active, tx0Byte, receiver, bus>>

EndLost ==
    /\ tx0On /\ step = 0 /\ bit = Bits + 2 /\ ~active
    /\ bit' = 0 /\ step' = 1 /\ tx0On' = FALSE
    /\ rx' = <<tx0Byte>> /\ idleTimer' = "tx0"
    /\ UNCHANGED <<host, txLen, active, tx0Byte, reports, busIdle, bus, halted>>

\* Bit k takes the level of the bus.
SetBit(byte, k, low) == IF low THEN byte \ {k} ELSE byte \cup {k}

\* Arbitration is lost when the bus is low where the byte is high.  From then on
\* each sample goes into the byte.  The mask is empty at the start bit; at the
\* stop bit the shift count is negative, which is undefined: the shift loop of
\* the processor may do nothing, and the last data bit is hit, or empty the mask.
Sample(low) ==
    /\ tx0On /\ step \in {1, 2}
    /\ low => inByte
    /\ active' = (active /\ ~(bit \in 1 .. Bits /\ low /\ Bits - bit \in tx0Byte))
    /\ tx0Byte' \in IF active' THEN {tx0Byte}
                    ELSE IF bit \in 1 .. Bits THEN {SetBit(tx0Byte, Bits - bit, low)}
                    ELSE IF bit = Bits + 1 THEN {tx0Byte, SetBit(tx0Byte, 0, low)}
                    ELSE {tx0Byte}
    /\ step' = step + 1
    /\ UNCHANGED <<host, txLen, bit, tx0On, receiver, bus, halted>>

\* mutant: the step is not set back
NextBitKeepsStep ==
    /\ tx0On /\ step = 3
    /\ step' = step + 1 /\ bit' = bit + 1
    /\ UNCHANGED <<host, txLen, active, tx0Byte, tx0On, receiver, bus, halted>>

NextBit ==
    /\ tx0On /\ step = 3
    /\ step' = 0 /\ bit' = bit + 1
    /\ UNCHANGED <<host, txLen, active, tx0Byte, tx0On, receiver, bus, halted>>

Tick == DriveBit \/ EndActive \/ EndLost \/ (\E low \in BOOLEAN : Sample(low)) \/ NextBit

-------------------------------------------------------------------------------
(* The bus.  A message goes on within 11 bits and a next one begins after    *)
(* 11 bits at the earliest, when a timer started by the last byte is over.   *)

\* mutant: the edge does not stop the timer
EdgeUnseen == UNCHANGED idleTimer

\* PORTC_INT0, whose handler stops the idle timer
Edge == idleTimer' = IF tx0On THEN idleTimer ELSE "off"

StartByte ==
    /\ ~inByte /\ said # <<>>
    /\ inByte' = TRUE
    /\ Edge
    /\ UNCHANGED <<host, txLen, tx0, rx, reports, busIdle, said, due, count, halted>>

StartMessage(m) ==
    /\ ~inByte /\ said = <<>> /\ idleTimer # "byte" /\ count < MaxMessages
    /\ said' = m /\ inByte' = TRUE
    /\ count' = count + 1 /\ due' = With(due, m)
    /\ Edge
    /\ UNCHANGED <<host, txLen, tx0, rx, reports, busIdle, halted>>

\* mutant: only the first byte starts the idle timer
TimerAfterFirst == idleTimer' = IF rx = <<>> THEN "byte" ELSE idleTimer

\* ccd_idle_timer_start
StartIdleTimer == idleTimer' = "byte"

\* USARTC0_RXC
Rxc ==
    /\ inByte
    /\ inByte' = FALSE
    /\ rx' = Append(rx, Head(said)) /\ said' = Tail(said)
    /\ StartIdleTimer
    /\ UNCHANGED <<host, txLen, tx0, reports, busIdle, due, count, halted>>

Next ==
    /\ ~halted
    /\ \/ HostSends \/ MainStep \/ IdleOver \/ Tick
       \/ StartByte \/ (\E m \in Messages : StartMessage(m)) \/ Rxc

\* A message that began on the bus is sent to its end, and a timer expires.
Fairness == WF_vars(~halted /\ IdleOver) /\ WF_vars(~halted /\ StartByte) /\ WF_vars(~halted /\ Rxc)

Spec == Init /\ [][Next]_vars /\ Fairness

-------------------------------------------------------------------------------
\* Bit and step of the byte that is clocked out stay in their ranges (:35-38),
\* also when the main loop rewinds the bit in between; a sum is only computed over
\* bytes that were received (:102).
TypeOK ==
    /\ pc \in {"turn", "sum", "rewind", "start"}
    /\ bit \in 0 .. Bits + 2 /\ step \in 0 .. 3 /\ (bit = Bits + 2 => step = 0)
    /\ tx0Byte \in Byte /\ txLen \in 0 .. 2
    /\ idleTimer \in {"off", "byte", "tx0"}
    /\ rx \in Seq(Byte) /\ (idleTimer # "off" => rx # <<>>)

\* Without a message of the host the engine reports, in order, the body of each
\* message on the bus whose last byte is its sum, whole and once (:100-109,
\* :226-237): the edges keep the timer from expiring inside a message.
ReportsWhatIsSaid == ~hosted /\ said = <<>> /\ idleTimer = "off" => reports = due

\* Whatever is in the buffer is done with at the next pause of the bus (:100),
\* unless the processor was caught by then.
BackToIdle == rx # <<>> ~> rx = <<>> \/ halted
===============================================================================
