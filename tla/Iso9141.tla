------------------------------- MODULE Iso9141 -------------------------------
(***************************************************************************)
(* ISO9141.c.  One timer serves four purposes, one callback at a time: the *)
(* bits of the five-baud address, the time-outs of the initialisation, the *)
(* gap between two bytes of a message, and the idle time after it.  On the *)
(* bus's single wire the UART hears every byte it sends.                   *)
(*                                                                         *)
(* iso9141_do_tasks and iso9141_start_five_baud_init run in the main loop  *)
(* and are taken apart into steps; the rest runs in interrupt handlers,    *)
(* which do not nest.  A running timer may expire at any moment.           *)
(***************************************************************************)
EXTENDS Integers, Sequences, SequencesExt

CONSTANTS
    BuffSize,   \* bytes in the two buffers (64)
    Messages,   \* the host's messages, as bt_setup_tx_buffer leaves them
    Answer,     \* what the vehicle answers to the address: sync, two keywords
    Chatter,    \* other bytes the vehicle sends
    MaxAsks, MaxChatter     \* bounds on what host and vehicle do

ASSUME IsoAssumption ==
    /\ BuffSize \in Nat /\ MaxAsks \in Nat /\ MaxChatter \in Nat
    /\ \A m \in Messages : m \in Seq(0 .. 255) /\ Len(m) \in 1 .. BuffSize - 1
    /\ Answer \in Seq(0 .. 255) /\ Len(Answer) = 3
    /\ Chatter \subseteq 0 .. 255

VARIABLES
    paced,      \* the host asks for one thing at a time: chosen once
    timer,      \* the callback of the running timer, "off" when it is stopped
    ticked,     \* the timer expired since iso9141_start_five_baud_init began
    uartOn,     \* TXEN and RXEN
    busIdle,    \* iso9141_bus_idle
    initActive, \* iso9141_init_active
    sentKw2,    \* iso9141_sent_kw2_inverted
    syncByte, syncBit,  \* iso9141_sync_byte, iso9141_sync_bit
    rx,         \* the first iso9141_rx_buffer_len bytes of iso9141_rx_buffer
    tx, txLen,  \* iso9141_tx_buffer, iso9141_tx_buffer_len
    cur,        \* iso9141_tx_current_byte
    pc,         \* where the main loop is
    line,       \* bytes the UART holds
    answers,    \* the codes that ended an initialisation
    reports,    \* the bytes passed to bt_queue_rx
    heard,      \* all bytes received, but for those a handshake rejects
    put,        \* all bytes of messages that the UART took
    loaded,     \* the message copied last, as bt_setup_tx_buffer returns it
    asked,      \* what the host's messages put on the bus, checksums included
    wave,       \* levels of the TX pin in this initialisation, bit by bit
    answered,   \* bytes of Answer the vehicle sent in this initialisation
    msgs, inits, chats      \* counters for the bounds

sync == <<syncByte, syncBit>>
initVars == <<initActive, sentKw2, sync, wave, answers, uartOn>>
alarm == <<timer, ticked>>
message == <<tx, txLen>>
txVars == <<message, cur, line, put>>
rxVars == <<rx, reports, heard, busIdle>>
counters == <<paced, msgs, inits, chats, loaded, asked, answered>>
vars == <<alarm, pc, initVars, txVars, rxVars, counters>>

Address == 51  \* 0x33

\* The steps of iso9141_start_five_baud_init take microseconds, the timer's
\* shortest period 3 ms: it does not expire twice among them.
Starting == pc \in {"reset", "byte", "bit", "activate", "timer"}
Expires(callback) ==
    /\ timer = callback
    /\ ~(Starting /\ ticked)
    /\ ticked' = Starting

\* iso9141_checksum
Checksum(m) ==
    LET sum[n \in 0 .. Len(m)] == IF n = 0 THEN 0 ELSE (sum[n - 1] + m[n]) % 256
    IN  sum[Len(m)]

\* A write to DATA is ignored when the register is full.
PutData(b) == IF Len(line) < 2
              THEN line' = Append(line, b) /\ put' = Append(put, b)
              ELSE UNCHANGED <<line, put>>

\* What a host that asks for one thing at a time waits for.
AtRest == txLen = 0 /\ line = <<>> /\ ~initActive

Init ==
    /\ paced \in BOOLEAN
    /\ timer = "off" /\ ticked = FALSE /\ uartOn = TRUE /\ busIdle = TRUE
    /\ initActive = FALSE /\ sentKw2 = FALSE /\ syncByte = Address /\ syncBit = 0 /\ wave = <<>>
    /\ rx = <<>> /\ tx = [i \in 0 .. BuffSize - 1 |-> 0] /\ txLen = 0 /\ cur = 0 /\ pc = "loop" /\ line = <<>>
    /\ answers = <<>> /\ reports = <<>> /\ heard = <<>> /\ put = <<>>
    /\ loaded = <<>> /\ asked = <<>> /\ answered = 0 /\ msgs = 0 /\ inits = 0 /\ chats = 0

-------------------------------------------------------------------------------
(* iso9141_do_tasks: a new message is copied with its checksum; then, in    *)
(* every turn of the loop, a message that has not begun is begun.           *)

\* The position may be anywhere in the message before; that a byte of it is
\* sent while memcpy runs is not told apart from one sent before or after it.
LoadMessage(m) ==
    /\ pc = "loop" /\ msgs + inits < MaxAsks
    /\ paced => AtRest
    /\ msgs' = msgs + 1
    /\ tx' = [i \in DOMAIN tx |-> IF i < Len(m) THEN m[i + 1] ELSE tx[i]]
    /\ loaded' = m
    /\ asked' = asked \o Append(m, Checksum(m))
    /\ pc' = "length"
    /\ UNCHANGED <<alarm, initVars, txLen, cur, line, put, rxVars, paced, inits, chats, answered>>

SetLength ==
    /\ pc = "length"
    /\ txLen' = Len(loaded)
    /\ pc' = "sum"
    /\ UNCHANGED <<alarm, initVars, tx, cur, line, put, rxVars, counters>>

\* The length is not volatile: the compiler may load it again to add one, and
\* find that an interrupt has ended the message, or still know its value.
AddChecksum ==
    /\ pc = "sum"
    /\ tx' = [tx EXCEPT ![Len(loaded)] = Checksum(loaded)]
    /\ txLen' \in {txLen + 1, Len(loaded) + 1}
    /\ pc' = "rewind"
    /\ UNCHANGED <<alarm, initVars, cur, line, put, rxVars, counters>>

Rewind ==
    /\ pc = "rewind"
    /\ cur' = 0
    /\ pc' = "start"
    /\ UNCHANGED <<alarm, initVars, message, line, put, rxVars, counters>>

\* A UART that is switched off may ignore the byte.
StartMessage ==
    /\ pc \in {"loop", "start"}
    /\ txLen # 0 /\ cur = 0 /\ busIdle
    /\ PutData(tx[0]) \/ (~uartOn /\ UNCHANGED <<line, put>>)
    /\ pc' = "count"
    /\ UNCHANGED <<alarm, initVars, message, cur, rxVars, counters>>

NoStart ==
    /\ pc = "start"
    /\ ~(txLen # 0 /\ cur = 0 /\ busIdle)
    /\ pc' = "loop"
    /\ UNCHANGED <<alarm, initVars, txVars, rxVars, counters>>

CountFirst ==
    /\ pc = "count"
    /\ cur' = cur + 1
    /\ pc' = "loop"
    /\ UNCHANGED <<alarm, initVars, message, line, put, rxVars, counters>>

(* iso9141_start_five_baud_init *)

SwitchUartOff ==
    /\ pc = "loop" /\ msgs + inits < MaxAsks
    /\ paced => AtRest
    /\ inits' = inits + 1
    /\ uartOn' = FALSE
    /\ pc' = "reset"
    /\ UNCHANGED <<alarm, initActive, sentKw2, sync, wave, answers>>
    /\ UNCHANGED <<txVars, rxVars, paced, msgs, chats, loaded, asked, answered>>

ResetKw2 ==
    /\ pc = "reset"
    /\ sentKw2' = FALSE
    /\ pc' = "byte"
    /\ UNCHANGED <<alarm, initActive, sync, wave, answers, uartOn, txVars, rxVars, counters>>

\* mutant: the shifted address of the last time is sent
ResetSyncByteSkips ==
    /\ pc = "byte"
    /\ pc' = "bit"
    /\ UNCHANGED <<alarm, initVars, txVars, rxVars, counters>>

ResetSyncByte ==
    /\ pc = "byte"
    /\ syncByte' = Address
    /\ pc' = "bit"
    /\ UNCHANGED <<alarm, initActive, sentKw2, syncBit, wave, answers, uartOn>>
    /\ UNCHANGED <<txVars, rxVars, counters>>

ResetSyncBit ==
    /\ pc = "bit"
    /\ syncBit' = 0
    /\ pc' = "activate"
    /\ UNCHANGED <<alarm, initActive, sentKw2, syncByte, wave, answers, uartOn>>
    /\ UNCHANGED <<txVars, rxVars, counters>>

Activate ==
    /\ pc = "activate"
    /\ initActive' = TRUE
    /\ wave' = <<0>>
    /\ answered' = 0
    /\ pc' = "timer"
    /\ UNCHANGED <<alarm, sentKw2, sync, answers, uartOn, txVars, rxVars>>
    /\ UNCHANGED <<paced, msgs, inits, chats, loaded, asked>>

StartTimer ==
    /\ pc = "timer"
    /\ timer' = "sync"
    /\ ticked' = FALSE
    /\ pc' = "loop"
    /\ UNCHANGED <<initVars, txVars, rxVars, counters>>

MainStep == SetLength \/ AddChecksum \/ Rewind \/ StartMessage \/ NoStart \/ CountFirst
            \/ ResetKw2 \/ ResetSyncByte \/ ResetSyncBit \/ Activate \/ StartTimer

-------------------------------------------------------------------------------
(* The timer's callbacks. *)

\* iso9141_five_baud_sync_tx_callback: eight bits, the stop bit, then the wait
\* for the vehicle's answer
SyncTick ==
    /\ Expires("sync")
    /\ wave' = CASE syncBit < 8 -> Append(wave, syncByte % 2)
                 [] syncBit = 8 -> Append(wave, 1)
                 [] OTHER -> wave
    /\ syncByte' = IF syncBit < 8 THEN syncByte \div 2 ELSE syncByte
    /\ timer' = IF syncBit = 9 THEN "init" ELSE "sync"
    /\ syncBit' = syncBit + 1
    /\ UNCHANGED <<pc, initActive, sentKw2, answers, uartOn, txVars, rxVars, counters>>

\* mutant: the UART stays off
FinishKeepsUartOff(code) == UNCHANGED uartOn /\ answers' = Append(answers, code)

\* iso9141_five_baud_finish
Finish(code) == uartOn' = TRUE /\ answers' = Append(answers, code)

\* iso9141_init_timeout_callback
KeywordsHeard == Len(rx) = 3 /\ ~sentKw2

\* mutant: the timer is stopped and not started again
InitTimeoutStops ==
    /\ Expires("init") /\ KeywordsHeard
    /\ timer' = "off"
    /\ sentKw2' = TRUE
    /\ UNCHANGED <<pc, initActive, sync, wave, answers, uartOn, txVars, rxVars, counters>>

InitTimeoutGoesOn ==
    /\ Expires("init") /\ KeywordsHeard
    /\ \/ Len(line) < 2 /\ line' = Append(line, 255 - rx[3])
       \/ (~uartOn \/ Len(line) = 2) /\ UNCHANGED line
    /\ sentKw2' = TRUE
    /\ UNCHANGED <<timer, pc, initActive, sync, wave, answers, uartOn, message, cur, put>>
    /\ UNCHANGED <<rxVars, counters>>

\* mutant: the initialisation stays active
InitTimeoutStaysActive ==
    /\ Expires("init") /\ ~KeywordsHeard
    /\ timer' = "off"
    /\ Finish("RC_FAIL")
    /\ UNCHANGED <<pc, initActive, sentKw2, sync, wave, txVars, rxVars, counters>>

InitTimeoutFails ==
    /\ Expires("init") /\ ~KeywordsHeard
    /\ timer' = "off"
    /\ initActive' = FALSE
    /\ Finish("RC_FAIL")
    /\ UNCHANGED <<pc, sentKw2, sync, wave, txVars, rxVars, counters>>

\* mutants: the position outlives its message; the byte sent last is sent again
GapOverKeepsPosition ==
    /\ Expires("gap") /\ Len(line) < 2 /\ cur < BuffSize
    /\ IF cur = 0 THEN timer' = "off" /\ UNCHANGED txVars
       ELSE /\ PutData(tx[cur])
            /\ UNCHANGED tx
            /\ cur' = cur + 1
            /\ IF cur + 1 = txLen THEN txLen' = 0 /\ timer' = "idle"
                                  ELSE UNCHANGED txLen /\ timer' = "off"
    /\ UNCHANGED <<pc, initVars, rxVars, counters>>

GapOverRepeats ==
    /\ Expires("gap") /\ Len(line) < 2 /\ cur < BuffSize
    /\ IF cur = 0 THEN timer' = "off" /\ UNCHANGED txVars
       ELSE /\ PutData(tx[cur - 1])
            /\ UNCHANGED tx
            /\ IF cur + 1 = txLen
                 THEN cur' = 0 /\ txLen' = 0 /\ timer' = "idle"
                 ELSE cur' = cur + 1 /\ UNCHANGED txLen /\ timer' = "off"
    /\ UNCHANGED <<pc, initVars, rxVars, counters>>

\* iso9141_p4_min_timeout_callback: the next byte of the message.  The gap is
\* longer than two bytes take, so by now the UART can take one.  The model
\* stops where the position, having missed the length, leaves the array.
GapOver ==
    /\ Expires("gap") /\ Len(line) < 2 /\ cur < BuffSize
    /\ IF cur = 0 THEN timer' = "off" /\ UNCHANGED txVars
       ELSE /\ PutData(tx[cur])
            /\ UNCHANGED tx
            /\ IF cur + 1 = txLen
                 THEN cur' = 0 /\ txLen' = 0 /\ timer' = "idle"
                 ELSE cur' = cur + 1 /\ UNCHANGED txLen /\ timer' = "off"
    /\ UNCHANGED <<pc, initVars, rxVars, counters>>

\* mutant: the buffer is not emptied
IdleOverKeepsBuffer ==
    /\ Expires("idle")
    /\ timer' = "off"
    /\ busIdle' = TRUE
    /\ reports' = reports \o rx
    /\ UNCHANGED <<rx, pc, initVars, txVars, heard, counters>>

\* iso9141_idle_timeout_callback
IdleOver ==
    /\ Expires("idle")
    /\ timer' = "off"
    /\ busIdle' = TRUE
    /\ reports' = reports \o rx
    /\ rx' = <<>>
    /\ UNCHANGED <<pc, initVars, txVars, heard, counters>>

TimerTick == SyncTick \/ InitTimeoutGoesOn \/ InitTimeoutFails \/ GapOver \/ IdleOver

-------------------------------------------------------------------------------
(* The receive interrupt USARTD0_RXC_vect. *)

\* the handshake, by the number of bytes heard with this one
Expected(n, b) ==
    CASE n = 1 -> b = 85
      [] n = 2 -> b \in {8, 148, 32}
      [] n = 3 -> b \in {8, 148, 37, 39, 41, 49}

HandshakeByte(b) ==
    LET n == Len(rx) + 1
    IN  IF n <= 3
        THEN /\ rx' = IF Expected(n, b) THEN Append(rx, b) ELSE rx
             /\ heard' = IF Expected(n, b) THEN Append(heard, b) ELSE heard
             /\ timer' = IF Expected(n, b) THEN "init" ELSE timer
             /\ UNCHANGED <<initActive, answers, uartOn, busIdle, reports>>
        ELSE /\ initActive' = (n # 5)
             /\ heard' = Append(heard, b)
             /\ IF n = 5 /\ b = 204
                THEN /\ answers' = Append(answers, "RC_SUCCESS")
                     /\ reports' = reports \o Append(rx, b)
                     /\ rx' = <<>> /\ busIdle' = FALSE /\ timer' = "idle"
                     /\ UNCHANGED uartOn
                \* a byte never equals the complement of a byte: both are
                \* promoted to int before they are compared
                ELSE /\ rx' = Append(rx, b)
                     /\ IF n <= 5 THEN Finish("RC_FAIL") ELSE UNCHANGED <<uartOn, answers>>
                     /\ UNCHANGED <<timer, busIdle, reports>>

\* The model stops where the buffer is full.
Rxc(b) ==
    /\ uartOn /\ Len(rx) < BuffSize
    /\ IF initActive THEN HandshakeByte(b)
       ELSE /\ rx' = Append(rx, b) /\ heard' = Append(heard, b)
            /\ timer' = "gap"
            /\ UNCHANGED <<initActive, answers, uartOn, busIdle, reports>>
    /\ UNCHANGED <<ticked, pc, sentKw2, sync, wave, message, cur, put>>

\* a byte on the bus while the receiver is off
Unheard == ~uartOn /\ UNCHANGED <<alarm, pc, initVars, rxVars, message, cur, put>>

Echo ==
    /\ line # <<>>
    /\ Rxc(Head(line)) \/ Unheard
    /\ line' = Tail(line)
    /\ UNCHANGED counters

\* an echo that is not heard: the wire is broken or the bus is not selected
EchoLost ==
    /\ line # <<>> /\ chats < MaxChatter
    /\ line' = Tail(line)
    /\ chats' = chats + 1
    /\ UNCHANGED <<alarm, pc, initVars, message, cur, put, rxVars, paced, msgs, inits, loaded, asked, answered>>

\* the vehicle answers the five-baud address once it has seen it
VehicleAnswers ==
    /\ initActive /\ timer = "init" /\ answered < 3
    /\ Rxc(Answer[answered + 1]) \/ Unheard
    /\ answered' = answered + 1
    /\ UNCHANGED <<line, paced, msgs, inits, chats, loaded, asked>>

VehicleTalks(b) ==
    /\ chats < MaxChatter
    /\ Rxc(b) \/ Unheard
    /\ chats' = chats + 1
    /\ UNCHANGED <<line, paced, msgs, inits, loaded, asked, answered>>

Next ==
    \/ \E m \in Messages : LoadMessage(m)
    \/ SwitchUartOff
    \/ MainStep
    \/ TimerTick
    \/ Echo
    \/ EchoLost
    \/ VehicleAnswers
    \/ \E b \in Chatter : VehicleTalks(b)

\* The main loop finishes what it began, a running timer expires, and what the
\* UART holds goes out.
Spec == Init /\ [][Next]_vars /\ WF_vars(MainStep) /\ WF_vars(TimerTick) /\ WF_vars(Echo)

-------------------------------------------------------------------------------
\* 0x33 on the wire: the start bit, eight bits from the lowest on, the stop bit
Wave == <<0, 1, 1, 0, 0, 1, 1, 0, 0, 1>>

TypeOK ==
    /\ timer \in {"off", "sync", "init", "gap", "idle"}
    /\ pc \in {"loop", "length", "sum", "rewind", "start", "count"} \/ Starting
    /\ {ticked, uartOn, busIdle, initActive, sentKw2} \subseteq BOOLEAN
    /\ syncByte \in 0 .. 255 /\ syncBit \in 0 .. 10
    /\ \A s \in {rx, line, heard, put, loaded, asked} : s \in Seq(0 .. 255)
    /\ loaded \in Messages \cup {<<>>} /\ tx \in [0 .. BuffSize - 1 -> 0 .. 255]
    /\ Len(rx) <= BuffSize /\ txLen \in 0 .. BuffSize /\ cur \in 0 .. BuffSize
    /\ paced => cur <= txLen

\* While an initialisation is under way nothing else has the timer, so nothing
\* can keep it from its end (ISO9141.c:130-189).
InitOwnsTimer == initActive /\ pc # "timer" => timer \in {"sync", "init"}

\* The address goes out as start bit, eight bits, lowest first, and stop bit,
\* whatever else the timer was doing before (ISO9141.c:157-172).
AddressInOrder == paced /\ initActive => IsPrefix(wave, Wave)

\* Every initialisation is answered, and answered once (ISO9141.c:142-146).
AnsweredOnce ==
    paced /\ pc \notin {"reset", "byte", "bit", "activate"} =>
        Len(answers) + (IF initActive THEN 1 ELSE 0) = inits

\* The bytes the bus carries for the host are its messages, each with its
\* checksum, byte by byte and in order, even if vehicle bytes and lost echoes
\* disturb the gap timer (ISO9141.c:67-82, 108-124).
SentAsAsked == paced => IsPrefix(put, asked)

\* Everything heard, but for bytes that a handshake rejects, is reported once
\* and in order, or is still in the buffer (ISO9141.c:55-65, 191-246).
HeardOnce == reports \o rx = heard

\* However often an initialisation is asked for, and whenever, the UART ends up
\* switched on and no initialisation stays unfinished.
UartOnAgain == <>[](uartOn /\ ~initActive)

\* ISO9141.c:178, "Got SYNC / KW1 / KW2 - OK to continue": an initialisation
\* does not fail before the second keyword is answered if the vehicle sent
\* the sync byte and both keywords.
KeywordsSuffice == [][InitTimeoutFails /\ ~sentKw2 => answered < 3]_vars
===============================================================================
