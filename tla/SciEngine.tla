------------------------------ MODULE SciEngine ------------------------------
(***************************************************************************)
(* SCI.c: the main loop puts the first byte of a message on the bus, and   *)
(* the receive interrupt puts every further byte on it when the vehicle    *)
(* has echoed the one before.  The two share send_buff, send_buff_len and  *)
(* send_cur_index without any lock, so sci_do_tasks is taken apart into    *)
(* the steps between which the interrupt may run.  The interrupt itself is *)
(* one action: handlers of one level do not nest.                          *)
(***************************************************************************)
EXTENDS Integers, Sequences, SequencesExt

CONSTANTS
    BuffSize,   \* bytes in send_buff and in recv_buff (255)
    Messages,   \* messages the host sends, as bt_setup_tx_buffer leaves them
    Replies,    \* bytes the vehicle sends that are no echo
    MaxMsgs,    \* bound on the host's messages in a behaviour
    MaxReplies  \* bound on the vehicle's own bytes in a behaviour

ASSUME MessageAssumption ==
    /\ BuffSize \in Nat
    /\ \A m \in Messages : m \in Seq(Int) /\ Len(m) \in 1 .. BuffSize
    /\ Replies \subseteq Int
    /\ MaxMsgs \in Nat /\ MaxReplies \in Nat

VARIABLES
    halfDuplex, \* host and vehicle wait until the engine is quiet: chosen once
    asked,      \* the host's messages so far; the last is in pendingTxSci
    sendBuff,   \* send_buff
    sendLen,    \* send_buff_len
    sendCur,    \* send_cur_index
    recv,       \* the first recv_buff_len bytes of recv_buff
    pc,         \* where the main loop is in sci_do_tasks
    idx,        \* bytes copied so far by memcpy
    line,       \* bytes in the UART: one being shifted out, one buffered
    bus,        \* bytes on the bus that the vehicle has not echoed yet
    heard,      \* all bytes received
    replied,    \* how many of them were no echo
    reports     \* the messages passed to bt_queue_rx

host == <<halfDuplex, asked>>
engine == <<sendBuff, sendLen, sendCur, pc, idx>>
vars == <<host, engine, recv, line, bus, heard, replied, reports>>

InExchange == 0 < sendCur /\ sendCur < sendLen

Quiet ==
    /\ pc = "loop" /\ ~InExchange
    /\ line = <<>> /\ bus = <<>> /\ recv = <<>>

\* A write to DATA: the register takes a byte when it is free, that is when
\* at most the byte being shifted out is in the UART, and ignores it otherwise.
PutData(b) == line' = IF Len(line) < 2 THEN Append(line, b) ELSE line

Init ==
    /\ halfDuplex \in BOOLEAN
    /\ asked = <<>> /\ heard = <<>> /\ reports = <<>> /\ replied = 0
    /\ sendBuff = [i \in 0 .. BuffSize - 1 |-> 0] /\ sendLen = 0 /\ sendCur = -1
    /\ recv = <<>> /\ pc = "loop" /\ idx = 0 /\ line = <<>> /\ bus = <<>>

\* The main loop has filled pendingTxSci and enters sci_do_tasks again.
HostMessage(m) ==
    /\ pc = "loop" /\ Len(asked) < MaxMsgs
    /\ halfDuplex => Quiet
    /\ asked' = Append(asked, m)
    /\ pc' = "copy" /\ idx' = 0
    /\ UNCHANGED <<halfDuplex, sendBuff, sendLen, sendCur, recv, line, bus, heard, replied, reports>>

CopyByte ==
    /\ pc = "copy"
    /\ sendBuff' = [sendBuff EXCEPT ![idx] = Last(asked)[idx + 1]]
    /\ idx' = idx + 1
    /\ pc' = IF idx + 1 = Len(Last(asked)) THEN "length" ELSE "copy"
    /\ UNCHANGED <<host, sendLen, sendCur, recv, line, bus, heard, replied, reports>>

\* mutant: the length counts a terminator
SetLengthTerminated ==
    /\ pc = "length"
    /\ sendLen' = Len(Last(asked)) + 1
    /\ pc' = "rewind"
    /\ UNCHANGED <<host, sendBuff, sendCur, idx, recv, line, bus, heard, replied, reports>>

SetLength ==
    /\ pc = "length"
    /\ sendLen' = Len(Last(asked))
    /\ pc' = "rewind"
    /\ UNCHANGED <<host, sendBuff, sendCur, idx, recv, line, bus, heard, replied, reports>>

\* send_cur_index = 0.  Nothing is volatile and the index is set to one
\* before it is read again, so the compiler may drop this store.
Rewind ==
    /\ pc = "rewind"
    /\ sendCur' \in {0, sendCur}
    /\ pc' = "first"
    /\ UNCHANGED <<host, sendBuff, sendLen, idx, recv, line, bus, heard, replied, reports>>

\* mutant: both registers of the UART are filled
FirstTwoBytes ==
    /\ pc = "first"
    /\ line' = line \o <<sendBuff[0], sendBuff[1]>>
    /\ pc' = "count"
    /\ UNCHANGED <<host, sendBuff, sendLen, sendCur, idx, recv, bus, heard, replied, reports>>

FirstByte ==
    /\ pc = "first"
    /\ PutData(sendBuff[0])
    /\ pc' = "count"
    /\ UNCHANGED <<host, sendBuff, sendLen, sendCur, idx, recv, bus, heard, replied, reports>>

CountFirst ==
    /\ pc = "count"
    /\ sendCur' = 1
    /\ pc' = "loop"
    /\ UNCHANGED <<host, sendBuff, sendLen, idx, recv, line, bus, heard, replied, reports>>

\* mutant: the exchange ends one byte early
RxSendNextStopsEarly(b) ==
    /\ InExchange
    /\ recv' = Append(recv, b)
    /\ PutData(sendBuff[sendCur])
    /\ IF sendCur + 2 >= sendLen THEN sendCur' = -1 /\ sendLen' = 0
                                 ELSE sendCur' = sendCur + 1 /\ UNCHANGED sendLen
    /\ UNCHANGED reports

\* mutant: the next byte waits for the echo of its very predecessor
RxSendNextIfEcho(b) ==
    /\ InExchange
    /\ recv' = Append(recv, b)
    /\ IF b # sendBuff[sendCur - 1] THEN UNCHANGED <<line, sendCur, sendLen>>
       ELSE /\ PutData(sendBuff[sendCur])
            /\ IF sendCur + 1 = sendLen THEN sendCur' = -1 /\ sendLen' = 0
                                        ELSE sendCur' = sendCur + 1 /\ UNCHANGED sendLen
    /\ UNCHANGED reports

\* the interrupt handler USARTE0_RXC_vect, for a received byte b
RxSendNext(b) ==
    /\ InExchange
    /\ recv' = Append(recv, b)
    /\ PutData(sendBuff[sendCur])
    /\ IF sendCur + 1 = sendLen THEN sendCur' = -1 /\ sendLen' = 0
                                ELSE sendCur' = sendCur + 1 /\ UNCHANGED sendLen
    /\ UNCHANGED reports

\* mutant: recv_buff_len is not reset
RxReportKeeps(b) ==
    /\ ~InExchange
    /\ reports' = Append(reports, Append(recv, b))
    /\ recv' = Append(recv, b)
    /\ UNCHANGED <<line, sendCur, sendLen>>

RxReport(b) ==
    /\ ~InExchange
    /\ reports' = Append(reports, Append(recv, b))
    /\ recv' = <<>>
    /\ UNCHANGED <<line, sendCur, sendLen>>

\* recv_buff has no room.  The handler does not ask: it would write behind the
\* array, and the model goes no further than that.
Full == Len(recv) = BuffSize

Rxc(b) ==
    /\ ~Full
    /\ RxSendNext(b) \/ RxReport(b)
    /\ heard' = Append(heard, b)
    /\ UNCHANGED <<host, sendBuff, pc, idx>>

\* The byte that was shifted out is on the bus and the next one follows.  A
\* byte takes 160 us and more, so the byte that FirstByte wrote is still being
\* shifted out when the few instructions up to CountFirst have run.
Transmit ==
    /\ line # <<>>
    /\ pc = "count" => Len(line) = 2
    /\ bus' = Append(bus, Head(line))
    /\ line' = Tail(line)
    /\ UNCHANGED <<host, engine, recv, heard, replied, reports>>

Echo ==
    /\ bus # <<>>
    /\ Rxc(Head(bus))
    /\ bus' = Tail(bus)
    /\ UNCHANGED replied

Reply(b) ==
    /\ replied < MaxReplies
    /\ halfDuplex => Quiet
    /\ Rxc(b)
    /\ replied' = replied + 1
    /\ UNCHANGED bus

MainStep == CopyByte \/ SetLength \/ Rewind \/ FirstByte \/ CountFirst

Next ==
    \/ \E m \in Messages : HostMessage(m)
    \/ MainStep
    \/ Transmit
    \/ Echo
    \/ \E b \in Replies : Reply(b)

\* The main loop never blocks inside sci_do_tasks, the UART shifts out what it
\* holds, and the vehicle echoes what it hears.
Fairness == WF_vars(MainStep) /\ WF_vars(Transmit) /\ WF_vars(Echo)

Spec == Init /\ [][Next]_vars /\ Fairness

-------------------------------------------------------------------------------
TypeOK ==
    /\ halfDuplex \in BOOLEAN /\ asked \in Seq(Messages)
    /\ sendBuff \in [0 .. BuffSize - 1 -> Int]
    /\ sendLen \in 0 .. BuffSize /\ sendCur \in -1 .. BuffSize
    /\ recv \in Seq(Int) /\ Len(recv) <= BuffSize
    /\ line \in Seq(Int) /\ bus \in Seq(Int)
    /\ heard \in Seq(Int) /\ reports \in Seq(Seq(Int))
    /\ pc \in {"loop", "copy", "length", "rewind", "first", "count"}
    /\ idx \in 0 .. BuffSize /\ replied \in 0 .. MaxReplies

\* Everything heard is reported once and in the order it was heard, or is still
\* in recv_buff, however messages and foreign bytes interleave, as long as
\* recv_buff has room for the next byte (SCI.c:65-84).
HeardOnce == FlattenSeq(reports) \o recv = heard

\* A byte goes out after the echo of its predecessor: with a host and a
\* vehicle that wait, the UART and the bus never hold more than one byte.
OneByteOut == halfDuplex => Len(line) + Len(bus) <= 1

\* With a host and a vehicle that wait, recv_buff holds a prefix of the
\* message under way, so an echo never starts with bytes of an earlier one.
RecvIsEcho == halfDuplex /\ recv # <<>> => asked # <<>> /\ IsPrefix(recv, Last(asked))

\* With a host and a vehicle that wait, every message is sent, echoed and
\* reported whole and once, and every other byte is reported by itself.
Exchange == INSTANCE SciExchange
    WITH request <- IF halfDuplex /\ ~Quiet THEN Last(asked) ELSE <<>>,
         reports <- IF halfDuplex THEN reports ELSE <<>>
ImplementsExchange == Exchange!Spec

\* Whatever arrived when, the engine comes to rest, if recv_buff is not filled
\* before: no exchange is left waiting and no byte is left in recv_buff once
\* all echoes have come.
Settles == <>[](Full \/ (~InExchange /\ recv = <<>>))
===============================================================================
