------------------------------ MODULE IsoProofs ------------------------------
(***************************************************************************)
(* Theorems about Iso9141 for every size of the buffers, all messages and  *)
(* answers, and any number of requests and bytes.                          *)
(***************************************************************************)
EXTENDS Iso9141, SequenceTheorems, WellFoundedInduction, TLAPS

\* The steps of the main loop within one call, by the call they belong to.
Sending == SetLength \/ AddChecksum \/ Rewind \/ StartMessage \/ NoStart \/ CountFirst
StartSteps == ResetKw2 \/ ResetSyncByte \/ ResetSyncBit \/ Activate \/ StartTimer

\* A byte on the bus, be it an echo, an answer or another.
Heard == \E b : Rxc(b) \/ Unheard

LEMMA NextSteps ==
    ASSUME Next
    PROVE  \/ \E m \in Messages : LoadMessage(m)
           \/ SwitchUartOff \/ Sending \/ StartSteps \/ TimerTick \/ EchoLost
           \/ Heard /\ UNCHANGED <<paced, msgs, inits, asked>>
  BY DEF Next, MainStep, Sending, StartSteps, Heard, Echo, VehicleAnswers, VehicleTalks, counters

-------------------------------------------------------------------------------
(* The timer *)

LEMMA OwnsTimerNext == InitOwnsTimer /\ [Next]_vars => InitOwnsTimer'
  <1> SUFFICES ASSUME InitOwnsTimer, [Next]_vars PROVE InitOwnsTimer'
    OBVIOUS
  <1> USE DEF InitOwnsTimer, initVars, alarm
  <1>1. ASSUME NEW m \in Messages, LoadMessage(m) PROVE InitOwnsTimer'
    BY <1>1 DEF LoadMessage
  <1>2. CASE SwitchUartOff
    BY <1>2 DEF SwitchUartOff
  <1>3. CASE Sending
    BY <1>3 DEF Sending, SetLength, AddChecksum, Rewind, StartMessage, NoStart, CountFirst
  <1>4. CASE StartSteps
    BY <1>4 DEF StartSteps, ResetKw2, ResetSyncByte, ResetSyncBit, Activate, StartTimer
  <1>5. CASE TimerTick
    BY <1>5 DEF TimerTick, SyncTick, InitTimeoutGoesOn, InitTimeoutFails, GapOver, IdleOver, Expires
  <1>6. CASE EchoLost
    BY <1>6 DEF EchoLost
  <1>7. CASE Heard
    <2>1. PICK b : Rxc(b) \/ Unheard
      BY <1>7 DEF Heard
    <2> QED BY <2>1 DEF Rxc, HandshakeByte, Unheard
  <1>8. CASE UNCHANGED vars
    BY <1>8 DEF vars
  <1> QED BY <1>1, <1>2, <1>3, <1>4, <1>5, <1>6, <1>7, <1>8, NextSteps

\* However messages, initialisations and bytes overlap, no other callback gets the
\* timer before the initialisation is over (ISO9141.c:130-189, :245).
THEOREM IsoOwnsTimer == Spec => []InitOwnsTimer
  <1>1. Init => InitOwnsTimer
    BY DEF Init, InitOwnsTimer
  <1> QED BY <1>1, OwnsTimerNext, PTL DEF Spec

-------------------------------------------------------------------------------
(* A host that asks for one thing at a time *)

\* From the call to the step that makes the initialisation active.
Asking == pc \in {"reset", "byte", "bit", "activate"}

\* An initialisation that was asked for and is not over is the only one, keeps
\* the UART off, and has the timer as soon as its start is done.
OneAtATime ==
    paced =>
        /\ Asking => ~initActive
        /\ pc = "timer" => initActive
        /\ Asking \/ initActive => ~uartOn
        /\ timer \in {"sync", "init"} => initActive /\ ~Starting

AnsweredInv ==
    /\ answers \in Seq({"RC_SUCCESS", "RC_FAIL"})
    /\ inits \in Nat
    /\ OneAtATime
    /\ paced => Len(answers) + (IF initActive \/ Asking THEN 1 ELSE 0) = inits

LEMMA AnsweredInvInit == Init => AnsweredInv
  <1> SUFFICES ASSUME Init PROVE AnsweredInv
    OBVIOUS
  <1>1. pc = "loop" /\ timer = "off" /\ initActive = FALSE /\ answers = <<>> /\ inits = 0
    BY DEF Init
  <1> QED BY <1>1 DEF AnsweredInv, OneAtATime, Asking, Starting

LEMMA AnsweredInvNext == AnsweredInv /\ [Next]_vars => AnsweredInv'
  <1> SUFFICES ASSUME AnsweredInv, [Next]_vars PROVE AnsweredInv'
    OBVIOUS
  <1> USE DEF AnsweredInv, OneAtATime, Asking, Starting, initVars, alarm
  <1>1. ASSUME NEW m \in Messages, LoadMessage(m) PROVE AnsweredInv'
    BY <1>1 DEF LoadMessage
  <1>2. CASE SwitchUartOff
    BY <1>2 DEF SwitchUartOff, AtRest
  <1>3. CASE Sending
    BY <1>3 DEF Sending, SetLength, AddChecksum, Rewind, StartMessage, NoStart, CountFirst, counters
  <1>4. CASE StartSteps
    BY <1>4 DEF StartSteps, ResetKw2, ResetSyncByte, ResetSyncBit, Activate, StartTimer, counters
  <1>5. CASE SyncTick \/ InitTimeoutGoesOn \/ GapOver \/ IdleOver
    BY <1>5 DEF SyncTick, InitTimeoutGoesOn, GapOver, IdleOver, Expires, counters
  <1>6. CASE InitTimeoutFails
    BY <1>6 DEF InitTimeoutFails, Finish, Expires, counters
  <1>7. CASE EchoLost
    BY <1>7 DEF EchoLost
  <1>8. CASE Heard /\ UNCHANGED <<paced, msgs, inits, asked>>
    <2>1. PICK b : Rxc(b) \/ Unheard
      BY <1>8 DEF Heard
    <2>2. CASE Unheard
      BY <1>8, <2>2 DEF Unheard
    <2>3. CASE Rxc(b) /\ ~initActive
      BY <1>8, <2>3 DEF Rxc
    <2>4. CASE Rxc(b) /\ initActive
      <3>1. ~paced
        BY <2>4 DEF Rxc
      <3>2. \/ UNCHANGED answers
            \/ answers' = Append(answers, "RC_SUCCESS")
            \/ answers' = Append(answers, "RC_FAIL")
        BY <2>4 DEF Rxc, HandshakeByte, Finish
      <3> QED BY <1>8, <3>1, <3>2
    <2> QED BY <2>1, <2>2, <2>3, <2>4
  <1>9. CASE UNCHANGED vars
    BY <1>9 DEF vars, counters
  <1> QED BY <1>1, <1>2, <1>3, <1>4, <1>5, <1>6, <1>7, <1>8, <1>9, NextSteps DEF TimerTick

\* Every initialisation that a host asks for, one at a time, is answered once
\* (ISO9141.c:142-146).
THEOREM IsoAnsweredOnce == Spec => []AnsweredOnce
  <1>1. AnsweredInv => AnsweredOnce
    BY DEF AnsweredInv, AnsweredOnce, Asking
  <1> QED BY <1>1, AnsweredInvInit, AnsweredInvNext, PTL DEF Spec

-------------------------------------------------------------------------------
(* What is heard *)

\* What a byte is does not matter, the checksums among them included.
Bytes(S) == rx \in Seq(S) /\ reports \in Seq(S) /\ heard \in Seq(S)

HeardInv == HeardOnce /\ \E S : Bytes(S)

LEMMA Received ==
    ASSUME NEW S, Bytes(S), HeardOnce, NEW b \in S
    PROVE  /\ Append(rx, b) \in Seq(S) /\ Append(heard, b) \in Seq(S)
           /\ reports \o Append(rx, b) = Append(heard, b)
           /\ reports \o Append(rx, b) \in Seq(S)
  <1>1. Append(rx, b) = rx \o <<b>> /\ Append(heard, b) = heard \o <<b>>
    BY AppendIsConcat DEF Bytes
  <1>2. reports \o (rx \o <<b>>) = (reports \o rx) \o <<b>>
    BY ConcatAssociative DEF Bytes
  <1>3. Append(rx, b) \in Seq(S) /\ Append(heard, b) \in Seq(S)
    BY AppendProperties DEF Bytes
  <1> QED BY <1>1, <1>2, <1>3 DEF HeardOnce

LEMMA HeardInvNext == HeardInv /\ [Next]_vars => HeardInv'
  <1> SUFFICES ASSUME HeardInv, [Next]_vars PROVE HeardInv'
    OBVIOUS
  <1>1. PICK S : Bytes(S)
    BY DEF HeardInv
  <1> USE DEF HeardOnce, Bytes
  <1>2. CASE UNCHANGED <<rx, reports, heard>>
    BY <1>1, <1>2 DEF HeardInv
  <1>3. CASE IdleOver
    <2>1. reports' = heard /\ rx' = <<>> /\ heard' = heard
      BY <1>3 DEF IdleOver, HeardInv
    <2>2. reports' \o rx' = heard'
      BY <1>1, <2>1, ConcatEmptySeq
    <2> QED BY <1>1, <2>1, <2>2 DEF HeardInv
  <1>4. CASE Heard
    <2>1. PICK b : Rxc(b) \/ Unheard
      BY <1>4 DEF Heard
    <2> DEFINE T == S \cup {b}
    <2>2. Bytes(T)
      <3>1. \A s : s \in Seq(S) => s \in Seq(T)
        OBVIOUS
      <3> QED BY <1>1, <3>1
    <2>3. \/ UNCHANGED <<rx, reports, heard>>
          \/ rx' = Append(rx, b) /\ heard' = Append(heard, b) /\ UNCHANGED reports
          \/ rx' = <<>> /\ heard' = Append(heard, b) /\ reports' = reports \o Append(rx, b)
      BY <2>1 DEF Rxc, HandshakeByte, Unheard, rxVars
    <2>4. CASE UNCHANGED <<rx, reports, heard>>
      BY <1>2, <2>4
    <2>5. CASE rx' = Append(rx, b) /\ heard' = Append(heard, b) /\ UNCHANGED reports
      BY <2>2, <2>5, Received DEF HeardInv
    <2>6. CASE rx' = <<>> /\ heard' = Append(heard, b) /\ reports' = reports \o Append(rx, b)
      <3>1. heard' \in Seq(T) /\ reports' = heard'
        BY <2>2, <2>6, Received DEF HeardInv
      <3>2. reports' \o rx' = heard'
        BY <2>6, <3>1, ConcatEmptySeq
      <3> QED BY <2>6, <3>1, <3>2 DEF HeardInv
    <2> QED BY <2>3, <2>4, <2>5, <2>6
  <1>5. CASE UNCHANGED vars
    BY <1>2, <1>5 DEF vars, rxVars
  <1>6. CASE \E m \in Messages : LoadMessage(m)
    BY <1>2, <1>6 DEF LoadMessage, rxVars
  <1>7. CASE SwitchUartOff \/ Sending \/ StartSteps \/ EchoLost
    BY <1>2, <1>7 DEF SwitchUartOff, Sending, SetLength, AddChecksum, Rewind, StartMessage, NoStart,
       CountFirst, StartSteps, ResetKw2, ResetSyncByte, ResetSyncBit, Activate, StartTimer, EchoLost, rxVars
  <1>8. CASE SyncTick \/ InitTimeoutGoesOn \/ InitTimeoutFails \/ GapOver
    BY <1>2, <1>8 DEF SyncTick, InitTimeoutGoesOn, InitTimeoutFails, GapOver, rxVars
  <1> QED BY <1>3, <1>4, <1>5, <1>6, <1>7, <1>8, NextSteps DEF TimerTick

\* Whoever sends, and whatever the timer does meanwhile, each byte heard is reported
\* once and in order or waits in the buffer (ISO9141.c:55-65, 191-246).
THEOREM IsoHeardOnce == Spec => []HeardOnce
  <1>1. Init => HeardInv
    <2> SUFFICES ASSUME Init PROVE HeardOnce /\ Bytes({})
      BY DEF HeardInv
    <2> QED BY DEF Init, HeardOnce, Bytes
  <1>2. HeardInv => HeardOnce
    BY DEF HeardInv
  <1> QED BY <1>1, <1>2, HeardInvNext, PTL DEF Spec

-------------------------------------------------------------------------------
(* The checksum, by induction on the bytes it is made from *)

LEMMA LeastNat ==
    ASSUME NEW T \in SUBSET Nat, T # {}
    PROVE  \E n \in T : \A m \in T : n <= m
  <1> DEFINE R == {p \in Nat \X Nat : p[1] < p[2]}
  <1>1. IsWellFoundedOn(R, Nat)
    BY NatLessThanWellFounded, Zenon DEF OpToRel
  <1>2. PICK n \in T : \A m \in T : <<m, n>> \notin R
    <2> HIDE DEF R
    <2> QED BY <1>1, WFMin, Zenon
  <1>3. \A m \in T : ~(m < n)
    BY <1>2
  <1> QED BY <1>3

\* induction, for a set rather than a formula
LEMMA UpTo ==
    ASSUME NEW n \in Nat, NEW Good, 0 \in Good,
           \A k \in 1 .. n : k - 1 \in Good => k \in Good
    PROVE  0 .. n \subseteq Good
  <1> DEFINE Bad == {k \in 0 .. n : k \notin Good}
  <1> SUFFICES ASSUME Bad # {} PROVE FALSE
    OBVIOUS
  <1>1. Bad \in SUBSET Nat
    OBVIOUS
  <1>2. PICK k \in Bad : \A j \in Bad : k <= j
    <2> HIDE DEF Bad
    <2> QED BY <1>1, LeastNat
  <1>3. k \in 1 .. n
    BY <1>2
  <1>4. k - 1 \in Good
    BY <1>2, <1>3
  <1> QED BY <1>2, <1>3, <1>4

\* f holds the sums of the first bytes of m, up to k of them
IsSum(m, f, k) ==
    /\ f \in [0 .. k -> 0 .. 255] /\ f[0] = 0
    /\ \A i \in 1 .. k : f[i] = (f[i - 1] + m[i]) % 256

HasSum(m, k) == \E f : IsSum(m, f, k)

LEMMA SumGrows ==
    ASSUME NEW m \in Seq(0 .. 255), NEW k \in 1 .. Len(m), HasSum(m, k - 1)
    PROVE  HasSum(m, k)
  <1>1. PICK f : IsSum(m, f, k - 1)
    BY DEF HasSum
  <1>2. m[k] \in 0 .. 255 /\ f[k - 1] \in 0 .. 255
    <2>1. m[k] \in 0 .. 255
      BY ElementOfSeq
    <2>2. k - 1 \in 0 .. k - 1
      OBVIOUS
    <2>3. f \in [0 .. k - 1 -> 0 .. 255]
      BY <1>1 DEF IsSum
    <2> QED BY <2>1, <2>2, <2>3
  <1> DEFINE g == [i \in 0 .. k |-> IF i < k THEN f[i] ELSE (f[k - 1] + m[k]) % 256]
  <1>3. g \in [0 .. k -> 0 .. 255]
    <2>1. \A i \in 0 .. k : i < k => f[i] \in 0 .. 255
      <3>1. f \in [0 .. k - 1 -> 0 .. 255]
        BY <1>1 DEF IsSum
      <3>2. \A i \in 0 .. k : i < k => i \in 0 .. k - 1
        OBVIOUS
      <3> QED BY <3>1, <3>2
    <2>2. (f[k - 1] + m[k]) % 256 \in 0 .. 255
      <3>1. \A a, b \in 0 .. 255 : (a + b) % 256 \in 0 .. 255
        OBVIOUS
      <3> HIDE DEF g
      <3> QED BY <1>2, <3>1, Zenon
    <2> QED BY <2>1, <2>2
  <1>4. g[0] = 0
    BY <1>1 DEF IsSum
  <1>5. \A i \in 1 .. k : g[i] = (g[i - 1] + m[i]) % 256
    BY <1>1, <1>2 DEF IsSum
  <1>6. IsSum(m, g, k)
    BY <1>3, <1>4, <1>5 DEF IsSum
  <1> QED BY <1>6 DEF HasSum

LEMMA SumFound ==
    ASSUME NEW m \in Seq(0 .. 255)
    PROVE  HasSum(m, Len(m))
  <1> DEFINE Good == {k \in 0 .. Len(m) : HasSum(m, k)}
  <1>1. 0 \in Good
    <2> DEFINE f == [i \in 0 .. 0 |-> 0]
    <2>1. IsSum(m, f, 0)
      BY DEF IsSum
    <2> QED BY <2>1 DEF HasSum
  <1>2. \A k \in 1 .. Len(m) : k - 1 \in Good => k \in Good
    BY SumGrows
  <1>3. Len(m) \in Nat
    OBVIOUS
  <1>4. 0 .. Len(m) \subseteq Good
    <2> HIDE DEF Good
    <2> QED BY <1>1, <1>2, <1>3, UpTo
  <1> QED BY <1>3, <1>4

LEMMA ChecksumType ==
    ASSUME NEW m \in Seq(0 .. 255)
    PROVE  Checksum(m) \in 0 .. 255
  <1> DEFINE n == Len(m)
             Step(f) == [i \in 0 .. n |-> IF i = 0 THEN 0 ELSE (f[i - 1] + m[i]) % 256]
             sum == CHOOSE f : f = Step(f)
  <1>1. n \in Nat
    OBVIOUS
  <1>2. PICK f : IsSum(m, f, n)
    BY SumFound DEF HasSum
  <1>3. f = Step(f)
    BY <1>2 DEF IsSum
  <1>4. sum = Step(sum)
    <2> HIDE DEF Step
    <2> QED BY <1>3
  <1>5. Checksum(m) = sum[n]
    BY DEF Checksum
  <1>6. \A i \in 0 .. n : sum[i] = IF i = 0 THEN 0 ELSE (sum[i - 1] + m[i]) % 256
    <2> HIDE DEF sum
    <2> QED BY <1>4
  <1> HIDE DEF sum
  <1> DEFINE Good == {i \in 0 .. n : sum[i] = f[i]}
  <1>7. 0 \in Good
    BY <1>1, <1>2, <1>6 DEF IsSum
  <1>8. \A i \in 1 .. n : i - 1 \in Good => i \in Good
    BY <1>1, <1>2, <1>6 DEF IsSum
  <1>9. 0 .. n \subseteq Good
    <2> HIDE DEF Good, n
    <2> QED BY <1>1, <1>7, <1>8, UpTo
  <1>10. sum[n] = f[n]
    BY <1>1, <1>9
  <1>11. f[n] \in 0 .. 255
    <2>1. f \in [0 .. n -> 0 .. 255] /\ n \in 0 .. n
      BY <1>1, <1>2 DEF IsSum
    <2> QED BY <2>1
  <1> QED BY <1>5, <1>10, <1>11
-------------------------------------------------------------------------------
(* Types *)

ByteSeq == Seq(0 .. 255)

\* The counters stay within their bounds because an initialisation that is
\* being prepared gets at most one tick, the position moves past a byte only
\* once, and the length that is loaded again is one that was stored.
Flags == {ticked, uartOn, busIdle, initActive, sentKw2} \subseteq BOOLEAN

Control ==
    /\ timer \in {"off", "sync", "init", "gap", "idle"}
    /\ pc \in {"loop", "length", "sum", "rewind", "start", "count",
               "reset", "byte", "bit", "activate", "timer"}
    /\ syncByte \in 0 .. 255 /\ syncBit \in 0 .. 10 /\ answered \in 0 .. 3
    /\ timer = "sync" => syncBit <= 9
    /\ pc \in {"activate", "timer"} => syncBit = 0 \/ (syncBit = 1 /\ ticked = TRUE)

Data ==
    /\ rx \in ByteSeq /\ line \in ByteSeq /\ heard \in ByteSeq /\ put \in ByteSeq /\ asked \in ByteSeq
    /\ loaded \in Messages \cup {<<>>}
    /\ tx \in [0 .. BuffSize - 1 -> 0 .. 255]
    /\ Len(rx) <= BuffSize /\ txLen \in 0 .. BuffSize /\ cur \in 0 .. BuffSize
    /\ pc = "count" => cur = 0 /\ BuffSize > 0
    /\ pc \in {"length", "sum"} => loaded \in Messages
    /\ pc = "sum" => txLen \in {0, Len(loaded)}

IsoType == Flags /\ Control /\ Data

LEMMA ByteSeqs ==
    ASSUME NEW s \in ByteSeq
    PROVE  /\ s # <<>> => Head(s) \in 0 .. 255 /\ Tail(s) \in ByteSeq
           /\ \A i \in 1 .. Len(s) : s[i] \in 0 .. 255
           /\ \A b \in 0 .. 255 : Append(s, b) \in ByteSeq /\ Len(Append(s, b)) = Len(s) + 1
           /\ Len(s) \in Nat
  <1>1. s \in Seq(0 .. 255)
    BY DEF ByteSeq
  <1>2. s # <<>> => Head(s) \in 0 .. 255 /\ Tail(s) \in Seq(0 .. 255)
    BY <1>1, HeadTailProperties
  <1>3. \A i \in 1 .. Len(s) : s[i] \in 0 .. 255
    BY <1>1, ElementOfSeq
  <1>4. \A b \in 0 .. 255 : Append(s, b) \in Seq(0 .. 255) /\ Len(Append(s, b)) = Len(s) + 1
    BY <1>1, AppendProperties
  <1> QED BY <1>1, <1>2, <1>3, <1>4 DEF ByteSeq

LEMMA PutType ==
    ASSUME line \in ByteSeq, put \in ByteSeq, NEW b \in 0 .. 255,
           PutData(b) \/ UNCHANGED <<line, put>>
    PROVE  line' \in ByteSeq /\ put' \in ByteSeq
  <1>1. Append(line, b) \in ByteSeq /\ Append(put, b) \in ByteSeq
    BY ByteSeqs, Zenon
  <1>2. \/ line' = line /\ put' = put
        \/ line' = Append(line, b) /\ put' = Append(put, b)
    BY DEF PutData
  <1> QED BY <1>1, <1>2, Zenon

LEMMA LineType ==
    ASSUME line \in ByteSeq, line' = line \/ (line # <<>> /\ line' = Tail(line))
    PROVE  line' \in ByteSeq
  BY ByteSeqs, Zenon

\* a timer that expires while an initialisation is prepared says so
LEMMA Ticked ==
    ASSUME NEW c, Expires(c)
    PROVE  /\ timer = c /\ ticked' \in BOOLEAN
           /\ pc \in {"activate", "timer"} => ticked # TRUE /\ ticked' = TRUE
  <1>1. pc \in {"activate", "timer"} => Starting
    BY DEF Starting
  <1>2. Starting \in BOOLEAN
    BY DEF Starting
  <1> QED BY <1>1, <1>2, Zenon DEF Expires

\* a byte on the bus, and what becomes of the bytes the UART holds
BusByte(b) ==
    /\ Rxc(b) \/ Unheard
    /\ line' = line \/ (line # <<>> /\ line' = Tail(line))
    /\ answered' = answered \/ (answered < 3 /\ answered' = answered + 1)
    /\ UNCHANGED <<paced, msgs, inits, loaded, asked>>

LEMMA BytesHeard ==
    ASSUME IsoType, Echo \/ VehicleAnswers \/ \E c \in Chatter : VehicleTalks(c)
    PROVE  \E b \in 0 .. 255 : BusByte(b)
  <1>1. CASE Echo
    <2>1. Head(line) \in 0 .. 255
      BY <1>1, ByteSeqs, Zenon DEF Echo, IsoType, Data
    <2> QED BY <1>1, <2>1 DEF Echo, BusByte, counters
  <1>2. CASE VehicleAnswers
    <2>1. answered + 1 \in 1 .. 3
      BY <1>2 DEF VehicleAnswers, IsoType, Control
    <2>2. Answer[answered + 1] \in 0 .. 255
      BY <2>1, IsoAssumption, ByteSeqs DEF ByteSeq
    <2>3. PICK b \in 0 .. 255 : Rxc(b) \/ Unheard
      BY <1>2, <2>2, Zenon DEF VehicleAnswers
    <2> QED BY <1>2, <2>3 DEF VehicleAnswers, BusByte
  <1>3. CASE \E c \in Chatter : VehicleTalks(c)
    <2>1. PICK c \in Chatter : VehicleTalks(c)
      BY <1>3
    <2>2. c \in 0 .. 255
      BY IsoAssumption
    <2> QED BY <2>1, <2>2 DEF VehicleTalks, BusByte
  <1> QED BY <1>1, <1>2, <1>3

LEMMA MessageType ==
    ASSUME NEW m \in Messages
    PROVE  /\ m \in ByteSeq /\ Len(m) \in 1 .. BuffSize - 1 /\ Checksum(m) \in 0 .. 255
           /\ \A i \in 1 .. Len(m) : m[i] \in 0 .. 255
  <1>1. m \in ByteSeq /\ Len(m) \in 1 .. BuffSize - 1
    BY IsoAssumption DEF ByteSeq
  <1> QED BY <1>1, ChecksumType, ElementOfSeq DEF ByteSeq

LEMMA IsoTypeInit == Init => IsoType
  <1> SUFFICES ASSUME Init PROVE IsoType
    OBVIOUS
  <1>1. Flags
    BY DEF Init, Flags
  <1>2. Control
    BY DEF Init, Control, Address
  <1>3. Data
    <2>1. <<>> \in ByteSeq /\ Len(<<>>) = 0
      BY DEF ByteSeq
    <2>2. tx \in [0 .. BuffSize - 1 -> 0 .. 255]
      BY DEF Init
    <2> QED BY <2>1, <2>2, IsoAssumption DEF Init, Data
  <1> QED BY <1>1, <1>2, <1>3 DEF IsoType

LEMMA LoadType ==
    ASSUME IsoType, NEW m \in Messages, LoadMessage(m)
    PROVE  IsoType'
  <1>1. asked' \in ByteSeq
    <2>1. Append(m, Checksum(m)) \in ByteSeq
      BY MessageType, ByteSeqs
    <2> QED BY <2>1, ConcatProperties DEF LoadMessage, IsoType, Data, ByteSeq
  <1>2. tx' \in [0 .. BuffSize - 1 -> 0 .. 255]
    <2>1. \A i \in 0 .. BuffSize - 1 : i < Len(m) => m[i + 1] \in 0 .. 255
      <3>1. \A i \in 0 .. BuffSize - 1 : i < Len(m) => i + 1 \in 1 .. Len(m)
        BY MessageType, IsoAssumption
      <3> QED BY <3>1, MessageType
    <2>2. tx' = [i \in 0 .. BuffSize - 1 |-> IF i < Len(m) THEN m[i + 1] ELSE tx[i]]
      BY DEF LoadMessage, IsoType, Data
    <2>3. \A i \in 0 .. BuffSize - 1 : tx[i] \in 0 .. 255
      BY DEF IsoType, Data
    <2> QED BY <2>1, <2>2, <2>3
  <1>3. Flags'
    BY DEF LoadMessage, IsoType, Flags, alarm, initVars, rxVars
  <1>4. Control'
    BY DEF LoadMessage, IsoType, Control, alarm, initVars, sync
  <1>5. Data'
    BY <1>1, <1>2 DEF LoadMessage, IsoType, Data, rxVars
  <1> QED BY <1>3, <1>4, <1>5 DEF IsoType

LEMMA SendingType ==
    ASSUME IsoType, Sending
    PROVE  IsoType'
  <1>1. Flags'
    BY DEF Sending, SetLength, AddChecksum, Rewind, StartMessage, NoStart, CountFirst,
           IsoType, Flags, alarm, initVars, rxVars
  <1>2. Control'
    <2> USE DEF IsoType, Control, alarm, initVars, sync, counters
    <2>1. CASE SetLength
      BY <2>1 DEF SetLength
    <2>2. CASE AddChecksum
      BY <2>2 DEF AddChecksum
    <2>3. CASE Rewind
      BY <2>3 DEF Rewind
    <2>4. CASE StartMessage
      BY <2>4 DEF StartMessage
    <2>5. CASE NoStart
      BY <2>5 DEF NoStart
    <2>6. CASE CountFirst
      BY <2>6 DEF CountFirst
    <2> QED BY <2>1, <2>2, <2>3, <2>4, <2>5, <2>6 DEF Sending
  <1> SUFFICES Data'
    BY <1>1, <1>2 DEF IsoType
  <1> USE DEF Data, rxVars, counters, message
  <1>3. CASE SetLength
    BY <1>3, MessageType, IsoAssumption DEF SetLength, IsoType
  <1>4. CASE AddChecksum
    <2>1. loaded \in Messages
      BY <1>4 DEF AddChecksum, IsoType
    <2>2. Len(loaded) \in 0 .. BuffSize - 1 /\ Checksum(loaded) \in 0 .. 255
      BY <2>1, MessageType
    <2>3. tx' \in [0 .. BuffSize - 1 -> 0 .. 255]
      BY <1>4, <2>2 DEF AddChecksum, IsoType
    <2>4. txLen' \in 0 .. BuffSize
      BY <1>4, <2>2, IsoAssumption DEF AddChecksum, IsoType
    <2> QED BY <1>4, <2>3, <2>4 DEF AddChecksum, IsoType
  <1>5. CASE Rewind
    BY <1>5, IsoAssumption DEF Rewind, IsoType
  <1>6. CASE StartMessage
    <2>1. tx[0] \in 0 .. 255
      BY <1>6, IsoAssumption DEF StartMessage, IsoType
    <2>2. line' \in ByteSeq /\ put' \in ByteSeq
      BY <1>6, <2>1, PutType, Zenon DEF StartMessage, IsoType
    <2> QED BY <1>6, <2>2, IsoAssumption DEF StartMessage, IsoType
  <1>7. CASE NoStart
    BY <1>7 DEF NoStart, txVars, IsoType
  <1>8. CASE CountFirst
    <2>1. cur' \in 0 .. BuffSize
      BY <1>8, IsoAssumption DEF CountFirst, IsoType
    <2> QED BY <1>8, <2>1 DEF CountFirst, IsoType
  <1> QED BY <1>3, <1>4, <1>5, <1>6, <1>7, <1>8 DEF Sending

LEMMA StartType ==
    ASSUME IsoType, SwitchUartOff \/ StartSteps
    PROVE  IsoType'
  <1> USE DEF StartSteps, ResetKw2, ResetSyncByte, ResetSyncBit, Activate, StartTimer, SwitchUartOff
  <1>1. Flags'
    BY DEF IsoType, Flags, alarm, initVars, rxVars
  <1>2. Control'
    BY DEF IsoType, Control, alarm, initVars, sync, counters, Address
  <1>3. Data'
    <2>1. UNCHANGED <<txVars, rxVars, loaded, asked>>
      BY DEF counters
    <2>2. pc' \notin {"count", "length", "sum"}
      OBVIOUS
    <2> HIDE DEF StartSteps, ResetKw2, ResetSyncByte, ResetSyncBit, Activate, StartTimer, SwitchUartOff
    <2> QED BY <2>1, <2>2 DEF IsoType, Data, rxVars, txVars, message
  <1> QED BY <1>1, <1>2, <1>3 DEF IsoType

LEMMA TimerType ==
    ASSUME IsoType, TimerTick
    PROVE  IsoType'
  <1>1. CASE SyncTick
    <2>1. Expires("sync")
      BY <1>1 DEF SyncTick
    <2>2. Flags'
      BY <1>1, <2>1, Ticked DEF SyncTick, IsoType, Flags, rxVars
    <2>3. timer = "sync" /\ (pc \in {"activate", "timer"} => ticked # TRUE /\ ticked' = TRUE)
      BY <2>1, Ticked
    <2>6. /\ syncBit' = syncBit + 1
          /\ timer' = IF syncBit = 9 THEN "init" ELSE "sync"
          /\ pc' = pc /\ answered' = answered
      BY <1>1 DEF SyncTick, counters
    <2>7. syncByte' \in 0 .. 255
      <3>1. \A n \in 0 .. 255 : n \div 2 \in 0 .. 255
        OBVIOUS
      <3>2. syncByte' = syncByte \div 2 \/ syncByte' = syncByte
        BY <1>1 DEF SyncTick
      <3> QED BY <3>1, <3>2, ZenonT(40) DEF IsoType, Control
    <2>8. syncBit \in 0 .. 9
      BY <2>3 DEF IsoType, Control
    <2>9. pc' \in {"activate", "timer"} => syncBit' = 1 /\ ticked' = TRUE
      <3>1. pc \in {"activate", "timer"} => syncBit = 0 /\ ticked' = TRUE
        BY <2>3, Zenon DEF IsoType, Control
      <3>2. syncBit = 0 => syncBit' = 1
        BY <2>6
      <3> QED BY <2>6, <3>1, <3>2, Zenon
    <2>4. Control'
      BY <2>6, <2>7, <2>8, <2>9 DEF IsoType, Control
    <2>5. Data'
      BY <1>1 DEF SyncTick, IsoType, Data, rxVars, txVars, message, counters
    <2> QED BY <2>2, <2>4, <2>5 DEF IsoType
  <1>2. CASE InitTimeoutGoesOn
    <2>1. Expires("init")
      BY <1>2 DEF InitTimeoutGoesOn
    <2>2. Flags'
      BY <1>2, <2>1, Ticked DEF InitTimeoutGoesOn, IsoType, Flags, rxVars
    <2>3. Control'
      BY <1>2, <2>1, Ticked DEF InitTimeoutGoesOn, IsoType, Control, sync, counters
    <2>4. line' \in ByteSeq
      <3>1. \A i \in 1 .. 3 : rx[i] \in 0 .. 255
        BY <1>2, ByteSeqs DEF InitTimeoutGoesOn, KeywordsHeard, IsoType, Data
      <3>2. 255 - rx[3] \in 0 .. 255
        <4>1. \A b \in 0 .. 255 : 255 - b \in 0 .. 255
          OBVIOUS
        <4>2. 3 \in 1 .. 3
          OBVIOUS
        <4> QED BY <3>1, <4>1, <4>2, Zenon
      <3>3. Append(line, 255 - rx[3]) \in ByteSeq
        BY <3>2, ByteSeqs, Zenon DEF IsoType, Data
      <3> QED BY <1>2, <3>3, Zenon DEF InitTimeoutGoesOn, IsoType, Data
    <2>5. Data'
      BY <1>2, <2>4 DEF InitTimeoutGoesOn, IsoType, Data, rxVars, message, counters
    <2> QED BY <2>2, <2>3, <2>5 DEF IsoType
  <1>3. CASE InitTimeoutFails
    <2>1. Expires("init")
      BY <1>3 DEF InitTimeoutFails
    <2>2. Flags'
      BY <1>3, <2>1, Ticked DEF InitTimeoutFails, Finish, IsoType, Flags, rxVars
    <2>3. Control'
      BY <1>3, <2>1, Ticked DEF InitTimeoutFails, IsoType, Control, sync, counters
    <2>4. Data'
      BY <1>3 DEF InitTimeoutFails, IsoType, Data, rxVars, txVars, message, counters
    <2> QED BY <2>2, <2>3, <2>4 DEF IsoType
  <1>4. CASE GapOver
    <2>1. Expires("gap")
      BY <1>4 DEF GapOver
    <2>2. Flags'
      BY <1>4, <2>1, Ticked DEF GapOver, IsoType, Flags, initVars, rxVars
    <2>3. timer' \in {"off", "idle"}
      BY <1>4 DEF GapOver
    <2>4. Control'
      BY <1>4, <2>1, <2>3, Ticked DEF GapOver, IsoType, Control, initVars, sync, counters
    <2>5. CASE cur = 0
      BY <1>4, <2>2, <2>4, <2>5 DEF GapOver, IsoType, Data, rxVars, txVars, message, counters
    <2>6. CASE cur # 0
      <3>1. tx[cur] \in 0 .. 255
        BY <1>4, <2>6, IsoAssumption DEF GapOver, IsoType, Data
      <3>2. line' \in ByteSeq /\ put' \in ByteSeq
        BY <1>4, <2>6, <3>1, PutType, Zenon DEF GapOver, IsoType, Data
      <3>3. /\ cur' \in 0 .. BuffSize /\ txLen' \in 0 .. BuffSize
            /\ pc = "sum" => txLen' \in {0, Len(loaded)}
        BY <1>4, <2>6, IsoAssumption DEF GapOver, IsoType, Data
      <3>4. UNCHANGED <<tx, pc, rx, heard, loaded, asked>>
        BY <1>4, <2>6 DEF GapOver, rxVars, counters
      <3>5. pc # "count"
        BY <2>6 DEF IsoType, Data
      <3>6. Data'
        BY <3>2, <3>3, <3>4, <3>5 DEF IsoType, Data
      <3> QED BY <2>2, <2>4, <3>6 DEF IsoType
    <2> QED BY <2>5, <2>6
  <1>5. CASE IdleOver
    <2>1. Expires("idle")
      BY <1>5 DEF IdleOver
    <2>2. Flags'
      BY <1>5, <2>1, Ticked DEF IdleOver, IsoType, Flags, initVars
    <2>3. Control'
      BY <1>5, <2>1, Ticked DEF IdleOver, IsoType, Control, initVars, sync, counters
    <2>4. rx' \in ByteSeq /\ Len(rx') = 0
      BY <1>5 DEF IdleOver, ByteSeq
    <2>5. Data'
      BY <1>5, <2>4, IsoAssumption DEF IdleOver, IsoType, Data, txVars, message, counters
    <2> QED BY <2>2, <2>3, <2>5 DEF IsoType
  <1> QED BY <1>1, <1>2, <1>3, <1>4, <1>5 DEF TimerTick

LEMMA ByteType ==
    ASSUME IsoType, NEW b \in 0 .. 255, BusByte(b)
    PROVE  IsoType'
  <1>1. line' \in ByteSeq
    BY LineType, Zenon DEF BusByte, IsoType, Data
  <1>2. CASE Unheard
    <2>1. Flags'
      BY <1>2 DEF Unheard, IsoType, Flags, alarm, initVars, rxVars
    <2>2. Control'
      BY <1>2 DEF Unheard, BusByte, IsoType, Control, alarm, initVars, sync
    <2>3. Data'
      BY <1>1, <1>2 DEF Unheard, BusByte, IsoType, Data, rxVars, message
    <2> QED BY <2>1, <2>2, <2>3 DEF IsoType
  <1>3. CASE Rxc(b)
    <2>1. Flags'
      BY <1>3 DEF Rxc, HandshakeByte, Finish, IsoType, Flags
    <2>2. Control'
      <3>1. timer' \in {timer, "init", "idle", "gap"}
        BY <1>3 DEF Rxc, HandshakeByte
      <3> QED BY <1>3, <3>1 DEF Rxc, BusByte, IsoType, Control, sync
    <2>3. /\ Append(rx, b) \in ByteSeq /\ Append(heard, b) \in ByteSeq
          /\ Len(Append(rx, b)) = Len(rx) + 1 /\ Len(rx) \in Nat
      <3>1. rx \in ByteSeq /\ heard \in ByteSeq /\ b \in 0 .. 255
        BY <1>3 DEF Rxc, BusByte, IsoType, Data
      <3> QED BY <3>1, ByteSeqs, ZenonT(40)
    <2>4. <<>> \in ByteSeq /\ Len(<<>>) = 0
      BY DEF ByteSeq
    <2>5. \/ rx' = rx \/ rx' = <<>> \/ rx' = Append(rx, b)
      BY <1>3 DEF Rxc, HandshakeByte
    <2>6. heard' = heard \/ heard' = Append(heard, b)
      BY <1>3 DEF Rxc, HandshakeByte
    <2>7. rx' \in ByteSeq /\ Len(rx') <= BuffSize
      <3>1. Len(rx) < BuffSize /\ BuffSize \in Nat
        BY <1>3, IsoAssumption DEF Rxc
      <3>2. rx \in ByteSeq
        BY DEF IsoType, Data
      <3>3. CASE rx' = rx
        BY <3>1, <3>2, <3>3, <2>3
      <3>4. CASE rx' = <<>>
        BY <3>1, <3>4, <2>4
      <3>5. CASE rx' = Append(rx, b)
        <4>1. Len(rx) + 1 <= BuffSize
          BY <3>1, <2>3
        <4> QED BY <2>3, <3>5, <4>1, Zenon
      <3> QED BY <2>5, <3>3, <3>4, <3>5
    <2>8. heard' \in ByteSeq
      BY <2>3, <2>6 DEF IsoType, Data
    <2>9. Data'
      BY <1>1, <1>3, <2>7, <2>8 DEF Rxc, BusByte, IsoType, Data, message
    <2> QED BY <2>1, <2>2, <2>9 DEF IsoType
  <1> QED BY <1>2, <1>3 DEF BusByte

LEMMA IsoTypeNext == IsoType /\ [Next]_vars => IsoType'
  <1> SUFFICES ASSUME IsoType, [Next]_vars PROVE IsoType'
    OBVIOUS
  <1>1. CASE EchoLost
    <2>1. line' \in ByteSeq
      BY <1>1, LineType DEF EchoLost, IsoType, Data
    <2>2. Flags'
      BY <1>1 DEF EchoLost, IsoType, Flags, alarm, initVars, rxVars
    <2>3. Control'
      BY <1>1 DEF EchoLost, IsoType, Control, alarm, initVars, sync
    <2>4. Data'
      BY <1>1, <2>1 DEF EchoLost, IsoType, Data, rxVars, message
    <2> QED BY <2>2, <2>3, <2>4 DEF IsoType
  <1>2. CASE UNCHANGED vars
    <2>1. Flags'
      BY <1>2 DEF vars, IsoType, Flags, alarm, initVars, rxVars
    <2>2. Control'
      BY <1>2 DEF vars, IsoType, Control, alarm, initVars, sync, counters
    <2>3. Data'
      BY <1>2 DEF vars, IsoType, Data, rxVars, txVars, message, counters
    <2> QED BY <2>1, <2>2, <2>3 DEF IsoType
  <1>3. CASE Echo \/ VehicleAnswers \/ \E b \in Chatter : VehicleTalks(b)
    BY <1>3, BytesHeard, ByteType
  <1> QED BY <1>1, <1>2, <1>3, LoadType, SendingType, StartType, TimerType
          DEF Next, MainStep, Sending, StartSteps

-------------------------------------------------------------------------------
(* The address *)

\* 51, which is 00110011 in binary, and what is left of it after each bit
Shifted == <<51, 25, 12, 6, 3, 1, 0, 0, 0, 0, 0>>

Levels(n) == IF n < 9 THEN n + 1 ELSE 10

\* The levels sent and the bits left belong together.
AddressInv ==
    paced =>
        /\ pc \in {"bit", "activate"} => syncByte = Address
        /\ pc = "activate" => syncBit = 0
        /\ initActive =>
              /\ syncByte = Shifted[syncBit + 1]
              /\ wave \in Seq({0, 1}) /\ Len(wave) = Levels(syncBit)
              /\ \A i \in 1 .. Len(wave) : wave[i] = Wave[i]

LEMMA Shifts ==
    ASSUME NEW n \in 0 .. 7
    PROVE  Shifted[n + 1] % 2 = Wave[n + 2] /\ Shifted[n + 1] \div 2 = Shifted[n + 2]
           /\ Wave[n + 2] \in {0, 1}
  <1>1. CASE n = 0
    BY <1>1 DEF Shifted, Wave
  <1>2. CASE n = 1
    BY <1>2 DEF Shifted, Wave
  <1>3. CASE n = 2
    BY <1>3 DEF Shifted, Wave
  <1>4. CASE n = 3
    BY <1>4 DEF Shifted, Wave
  <1>5. CASE n = 4
    BY <1>5 DEF Shifted, Wave
  <1>6. CASE n = 5
    BY <1>6 DEF Shifted, Wave
  <1>7. CASE n = 6
    BY <1>7 DEF Shifted, Wave
  <1>8. CASE n = 7
    BY <1>8 DEF Shifted, Wave
  <1> QED BY <1>1, <1>2, <1>3, <1>4, <1>5, <1>6, <1>7, <1>8

LEMMA WaveGrows ==
    ASSUME wave \in Seq({0, 1}), NEW n \in 1 .. 9, Len(wave) = n,
           \A i \in 1 .. n : wave[i] = Wave[i],
           NEW b \in {0, 1}, b = Wave[n + 1], wave' = Append(wave, b)
    PROVE  /\ wave' \in Seq({0, 1}) /\ Len(wave') = n + 1
           /\ \A i \in 1 .. n + 1 : wave'[i] = Wave[i]
  <1>1. /\ wave' \in Seq({0, 1}) /\ Len(wave') = n + 1
        /\ \A i \in 1 .. n : wave'[i] = wave[i]
        /\ wave'[n + 1] = b
    BY AppendProperties
  <1>2. \A i \in 1 .. n + 1 : i = n + 1 \/ i \in 1 .. n
    OBVIOUS
  <1> QED BY <1>1, <1>2

LEMMA AddressTick ==
    ASSUME IsoType, OneAtATime, AddressInv, paced, SyncTick
    PROVE  /\ syncByte' = Shifted[syncBit' + 1]
           /\ wave' \in Seq({0, 1}) /\ Len(wave') = Levels(syncBit')
           /\ \A i \in 1 .. Len(wave') : wave'[i] = Wave[i]
  <1>1. timer = "sync"
    BY Ticked DEF SyncTick
  <1>2. syncBit \in 0 .. 9 /\ syncBit' = syncBit + 1
    BY <1>1 DEF SyncTick, IsoType, Control
  <1>3. /\ syncByte = Shifted[syncBit + 1]
        /\ wave \in Seq({0, 1}) /\ Len(wave) = Levels(syncBit)
        /\ \A i \in 1 .. Len(wave) : wave[i] = Wave[i]
    BY <1>1 DEF AddressInv, OneAtATime
  <1>4. CASE syncBit < 8
    <2>1. syncBit \in 0 .. 7 /\ Len(wave) = syncBit + 1 /\ Levels(syncBit') = syncBit + 2
      BY <1>2, <1>3, <1>4 DEF Levels
    <2>2. wave' = Append(wave, syncByte % 2) /\ syncByte' = syncByte \div 2
      BY <1>4 DEF SyncTick
    <2>3. syncByte' = Shifted[syncBit + 2] /\ syncByte % 2 = Wave[syncBit + 2] /\ syncByte % 2 \in {0, 1}
      BY <1>3, <2>1, <2>2, Shifts
    <2>4. /\ wave' \in Seq({0, 1}) /\ Len(wave') = syncBit + 2
          /\ \A i \in 1 .. syncBit + 2 : wave'[i] = Wave[i]
      <3> DEFINE n == syncBit + 1
      <3>1. n \in 1 .. 9 /\ n + 1 = syncBit + 2 /\ Len(wave) = n
        BY <2>1
      <3> HIDE DEF n
      <3> QED BY <1>3, <2>2, <2>3, <3>1, WaveGrows
    <2> QED BY <1>2, <2>1, <2>3, <2>4
  <1>5. CASE syncBit = 8
    <2>1. Len(wave) = 9 /\ Levels(syncBit') = 10 /\ syncBit' = 9
      BY <1>2, <1>3, <1>5 DEF Levels
    <2>2. wave' = Append(wave, 1) /\ syncByte' = syncByte
      BY <1>5 DEF SyncTick
    <2>3. syncByte = 0 /\ Shifted[syncBit' + 1] = 0
      BY <1>3, <1>5, <2>1 DEF Shifted
    <2>4. Wave[10] = 1
      BY DEF Wave
    <2>5. /\ wave' \in Seq({0, 1}) /\ Len(wave') = 10
          /\ \A i \in 1 .. 10 : wave'[i] = Wave[i]
      BY <1>3, <2>1, <2>2, <2>4, WaveGrows
    <2> QED BY <2>1, <2>2, <2>3, <2>5
  <1>6. CASE syncBit = 9
    <2>1. Len(wave) = 10 /\ Levels(syncBit') = 10 /\ syncBit' = 10
      BY <1>2, <1>3, <1>6 DEF Levels
    <2>2. wave' = wave /\ syncByte' = syncByte
      BY <1>6 DEF SyncTick
    <2>3. syncByte = 0 /\ Shifted[syncBit' + 1] = 0
      BY <1>3, <1>6, <2>1 DEF Shifted
    <2> QED BY <1>3, <2>1, <2>2, <2>3
  <1> QED BY <1>2, <1>4, <1>5, <1>6

LEMMA AddressBegins ==
    ASSUME AddressInv, paced, Activate
    PROVE  /\ syncByte' = Shifted[syncBit' + 1]
           /\ wave' \in Seq({0, 1}) /\ Len(wave') = Levels(syncBit')
           /\ \A i \in 1 .. Len(wave') : wave'[i] = Wave[i]
  <1>1. syncByte' = 51 /\ syncBit' = 0 /\ wave' = <<0>>
    BY DEF AddressInv, Activate, initVars, sync, Address
  <1>2. Shifted[1] = 51 /\ Wave[1] = 0 /\ Levels(0) = 1
    BY DEF Shifted, Wave, Levels
  <1> QED BY <1>1, <1>2

LEMMA AddressInvNext == IsoType /\ OneAtATime /\ AddressInv /\ [Next]_vars => AddressInv'
  <1> SUFFICES ASSUME IsoType, OneAtATime, AddressInv, [Next]_vars PROVE AddressInv'
    OBVIOUS
  <1> USE DEF AddressInv, initVars, sync, counters
  <1>1. ASSUME NEW m \in Messages, LoadMessage(m) PROVE AddressInv'
    BY <1>1 DEF LoadMessage
  <1>2. CASE SwitchUartOff
    BY <1>2 DEF SwitchUartOff
  <1>3. CASE Sending
    BY <1>3 DEF Sending, SetLength, AddChecksum, Rewind, StartMessage, NoStart, CountFirst
  <1>4. CASE StartSteps
    <2>1. CASE Activate
      BY <2>1, AddressBegins DEF Activate
    <2>2. CASE ResetKw2 \/ ResetSyncByte \/ ResetSyncBit \/ StartTimer
      BY <2>2 DEF ResetKw2, ResetSyncByte, ResetSyncBit, StartTimer, OneAtATime, Asking
    <2> QED BY <1>4, <2>1, <2>2 DEF StartSteps
  <1>5. CASE SyncTick
    <2> SUFFICES ASSUME paced PROVE AddressInv'
      BY <1>5 DEF SyncTick
    <2>1. timer = "sync" /\ initActive /\ ~Starting
      BY <1>5, Ticked DEF SyncTick, OneAtATime
    <2>2. pc' = pc /\ pc \notin {"bit", "activate"}
      BY <1>5, <2>1 DEF SyncTick, Starting
    <2> QED BY <1>5, <2>2, AddressTick
  <1>6. CASE InitTimeoutGoesOn \/ InitTimeoutFails \/ GapOver \/ IdleOver \/ EchoLost
    BY <1>6 DEF InitTimeoutGoesOn, InitTimeoutFails, GapOver, IdleOver, EchoLost
  <1>7. CASE Heard /\ UNCHANGED <<paced, msgs, inits, asked>>
    <2>1. PICK b : Rxc(b) \/ Unheard
      BY <1>7 DEF Heard
    <2>2. UNCHANGED <<pc, syncByte, syncBit, wave>> /\ (paced => initActive' = initActive)
      BY <2>1 DEF Rxc, Unheard, OneAtATime
    <2> QED BY <1>7, <2>2
  <1>8. CASE UNCHANGED vars
    BY <1>8 DEF vars
  <1> QED BY <1>1, <1>2, <1>3, <1>4, <1>5, <1>6, <1>7, <1>8, NextSteps DEF TimerTick

LEMMA AddressImplies == IsoType /\ AddressInv => AddressInOrder
  <1> SUFFICES ASSUME IsoType, AddressInv, paced, initActive PROVE IsPrefix(wave, Wave)
    BY DEF AddressInOrder
  <1>1. /\ wave \in Seq({0, 1}) /\ Len(wave) = Levels(syncBit)
        /\ \A i \in 1 .. Len(wave) : wave[i] = Wave[i]
    BY DEF AddressInv
  <1>2. Len(Wave) = 10 /\ Len(wave) <= 10 /\ Len(wave) \in Nat
    BY <1>1 DEF Wave, Levels, IsoType, Control
  <1> QED BY <1>1, <1>2 DEF IsPrefix

-------------------------------------------------------------------------------
(* The messages *)

\* A message is on its way from the copy to its last byte, and no other is
\* copied meanwhile; what is not copied any more is the rest of it.
OneMessage ==
    paced =>
        /\ Starting \/ initActive => txLen = 0 /\ pc \notin {"length", "sum", "rewind", "start", "count"}
        /\ ~uartOn => Asking \/ initActive
        /\ pc = "length" => txLen = 0 /\ line = <<>>
        /\ pc = "sum" => txLen = Len(loaded)
        /\ pc # "sum" => txLen # 1
        /\ pc \in {"rewind", "start", "count"} => txLen # 0
        /\ pc \in {"length", "sum", "rewind", "start", "count"} => cur = 0
        /\ cur # 0 => cur < txLen
        /\ txLen # 0 /\ cur = 0 /\ pc # "count" => line = <<>>

LEMMA OneMessageNext == IsoType /\ OneAtATime /\ OneMessage /\ [Next]_vars => OneMessage'
  <1> SUFFICES ASSUME IsoType, OneAtATime, OneMessage, [Next]_vars, paced PROVE OneMessage'
    BY DEF OneMessage, Next, MainStep, TimerTick, vars, LoadMessage, SwitchUartOff, SetLength, AddChecksum,
           Rewind, StartMessage, NoStart, CountFirst, ResetKw2, ResetSyncByte, ResetSyncBit, Activate,
           StartTimer, SyncTick, InitTimeoutGoesOn, InitTimeoutFails, GapOver, IdleOver, Echo, EchoLost,
           VehicleAnswers, VehicleTalks, counters
  <1> USE DEF OneMessage, OneAtATime, Starting, Asking, initVars, rxVars, txVars, message, counters
  <1>1. ASSUME NEW m \in Messages, LoadMessage(m) PROVE OneMessage'
    BY <1>1 DEF LoadMessage, AtRest, IsoType, Data
  <1>2. CASE SwitchUartOff
    BY <1>2 DEF SwitchUartOff, AtRest
  <1>3. CASE SetLength
    <2>1. Len(loaded) \in 1 .. BuffSize - 1
      BY <1>3, MessageType DEF SetLength, IsoType, Data
    <2> QED BY <1>3, <2>1, IsoAssumption DEF SetLength
  <1>4. CASE AddChecksum
    <2>1. Len(loaded) \in 1 .. BuffSize - 1
      BY <1>4, MessageType DEF AddChecksum, IsoType, Data
    <2>2. txLen' = Len(loaded) + 1
      BY <1>4 DEF AddChecksum
    <2> QED BY <1>4, <2>1, <2>2, IsoAssumption DEF AddChecksum
  <1>5. CASE Rewind
    BY <1>5 DEF Rewind
  <1>6. CASE StartMessage
    BY <1>6 DEF StartMessage
  <1>7. CASE NoStart
    BY <1>7 DEF NoStart
  <1>8. CASE CountFirst
    <2>1. cur' = 1 /\ txLen \in Nat
      BY <1>8 DEF CountFirst, IsoType, Data
    <2> QED BY <1>8, <2>1 DEF CountFirst
  <1>9. CASE StartSteps
    BY <1>9 DEF StartSteps, ResetKw2, ResetSyncByte, ResetSyncBit, Activate, StartTimer, alarm
  <1>10. CASE SyncTick \/ IdleOver
    BY <1>10 DEF SyncTick, IdleOver
  <1>11. CASE InitTimeoutGoesOn
    <2>1. timer = "init"
      BY <1>11, Ticked DEF InitTimeoutGoesOn
    <2> QED BY <1>11, <2>1 DEF InitTimeoutGoesOn
  <1>12. CASE InitTimeoutFails
    BY <1>12 DEF InitTimeoutFails, Finish
  <1>13. CASE GapOver
    BY <1>13 DEF GapOver, IsoType, Data
  <1>14. CASE Echo \/ VehicleAnswers \/ \E c \in Chatter : VehicleTalks(c)
    <2>1. PICK b \in 0 .. 255 : BusByte(b)
      BY <1>14, BytesHeard
    <2>2. line = <<>> => line' = <<>>
      BY <2>1 DEF BusByte
    <2>3. UNCHANGED <<pc, cur, txLen, loaded, paced>> /\ initActive' = initActive /\ uartOn' = uartOn
      BY <2>1 DEF BusByte, Rxc, Unheard
    <2> QED BY <2>2, <2>3
  <1>15. CASE EchoLost
    BY <1>15 DEF EchoLost
  <1>16. CASE UNCHANGED vars
    BY <1>16 DEF vars
  <1> QED BY <1>1, <1>2, <1>3, <1>4, <1>5, <1>6, <1>7, <1>8, <1>9, <1>10, <1>11, <1>12, <1>13, <1>14,
             <1>15, <1>16 DEF Next, MainStep, TimerTick, StartSteps

\* the position in the message once CountFirst is done
Position == IF pc = "count" THEN 1 ELSE cur

\* What was put so far is right, and what is still to be put is in the buffer
\* or, before the checksum is added, on its way there.
SentInv ==
    paced =>
        /\ \A i \in 1 .. Len(put) : put[i] = asked[i]
        /\ pc \in {"length", "sum"} =>
              /\ Len(asked) = Len(put) + Len(loaded) + 1
              /\ \A i \in 0 .. Len(loaded) - 1 : tx[i] = asked[Len(put) + 1 + i]
              /\ Checksum(loaded) = asked[Len(put) + 1 + Len(loaded)]
        /\ pc \notin {"length", "sum"} =>
              /\ Len(asked) = Len(put) + txLen - Position
              /\ \A i \in Position .. txLen - 1 : tx[i] = asked[Len(put) + 1 + i - Position]

LEMMA LoadSends ==
    ASSUME IsoType, OneMessage, SentInv, paced, NEW m \in Messages, LoadMessage(m)
    PROVE  SentInv'
  <1>1. /\ txLen = 0 /\ cur = 0 /\ pc = "loop" /\ pc' = "length" /\ put' = put /\ loaded' = m
        /\ paced' = paced
    BY DEF LoadMessage, AtRest, OneMessage, IsoType, Data
  <1> DEFINE n == Len(put)
             full == Append(m, Checksum(m))
  <1>2. n \in Nat /\ Len(asked) = n /\ \A i \in 1 .. n : put[i] = asked[i]
    BY <1>1, ByteSeqs DEF SentInv, Position, IsoType, Data
  <1>3. /\ m \in ByteSeq /\ Len(m) \in 1 .. BuffSize - 1 /\ Len(m) \in Nat /\ BuffSize \in Nat
        /\ full \in ByteSeq /\ Len(full) = Len(m) + 1 /\ full[Len(m) + 1] = Checksum(m)
        /\ \A i \in 1 .. Len(m) : full[i] = m[i]
    BY MessageType, AppendProperties, IsoAssumption DEF ByteSeq
  <1>4. asked' = asked \o full /\ asked \in ByteSeq
    BY DEF LoadMessage, IsoType, Data
  <1> HIDE DEF full
  <1>5. /\ Len(asked') = n + Len(m) + 1
        /\ \A i \in 1 .. n : asked'[i] = asked[i]
        /\ \A i \in 1 .. Len(m) + 1 : asked'[n + i] = full[i]
    <2>1. Len(asked') = Len(asked) + Len(full)
          /\ \A i \in 1 .. Len(asked) + Len(full) :
                asked'[i] = IF i <= Len(asked) THEN asked[i] ELSE full[i - Len(asked)]
      <3>1. asked \in Seq(0 .. 255) /\ full \in Seq(0 .. 255)
        BY <1>3, <1>4 DEF ByteSeq
      <3> QED BY <1>4, <3>1, ConcatProperties, ZenonT(40)
    <2>2. \A i \in 1 .. Len(m) + 1 : n + i \in 1 .. n + Len(m) + 1 /\ ~(n + i <= n) /\ (n + i) - n = i
      BY <1>2, <1>3
    <2>3. Len(asked') = n + Len(m) + 1
      BY <1>2, <1>3, <2>1
    <2>4. \A i \in 1 .. n : i \in 1 .. Len(asked) + Len(full) /\ i <= Len(asked)
      BY <1>2, <1>3
    <2>5. \A i \in 1 .. n : asked'[i] = asked[i]
      <3> HIDE DEF n
      <3> QED BY <2>1, <2>4
    <2>6. \A i \in 1 .. Len(m) + 1 : n + i \in 1 .. Len(asked) + Len(full)
      BY <1>2, <1>3
    <2>7. \A i \in 1 .. Len(m) + 1 : asked'[n + i] = full[i]
      <3> SUFFICES ASSUME NEW i \in 1 .. Len(m) + 1 PROVE asked'[n + i] = full[i]
        OBVIOUS
      <3>1. asked'[n + i] = IF n + i <= Len(asked) THEN asked[n + i] ELSE full[(n + i) - Len(asked)]
        BY <2>1, <2>6
      <3> QED BY <1>2, <2>2, <3>1
    <2> QED BY <2>3, <2>5, <2>7
  <1>6. \A i \in 0 .. Len(m) - 1 : tx'[i] = m[i + 1]
    BY <1>3 DEF LoadMessage, IsoType, Data
  <1>7. \A i \in 0 .. Len(m) - 1 : tx'[i] = asked'[n + 1 + i]
    <2>1. \A i \in 0 .. Len(m) - 1 : i + 1 \in 1 .. Len(m) /\ i + 1 \in 1 .. Len(m) + 1 /\ n + (i + 1) = n + 1 + i
      BY <1>2, <1>3
    <2> HIDE DEF n
    <2> QED BY <1>3, <1>5, <1>6, <2>1
  <1>8. asked'[n + 1 + Len(m)] = Checksum(m)
    <2>1. Len(m) + 1 \in 1 .. Len(m) + 1 /\ n + (Len(m) + 1) = n + 1 + Len(m)
      BY <1>2, <1>3
    <2> HIDE DEF n
    <2> QED BY <1>3, <1>5, <2>1
  <1>9. \A i \in 1 .. n : put[i] = asked'[i]
    BY <1>2, <1>5
  <1> QED BY <1>1, <1>5, <1>7, <1>8, <1>9 DEF SentInv

\* One byte of the message goes out.
LEMMA PutSends ==
    ASSUME IsoType, SentInv, paced, pc \notin {"length", "sum"}, Position < txLen,
           put' = Append(put, tx[Position]), asked' = asked
    PROVE  /\ \A i \in 1 .. Len(put') : put'[i] = asked'[i]
           /\ Len(asked') = Len(put') + txLen - (Position + 1)
           /\ \A i \in Position + 1 .. txLen - 1 : tx[i] = asked'[Len(put') + 1 + i - (Position + 1)]
           /\ Position + 1 = txLen => Len(asked') = Len(put')
  <1> DEFINE n == Len(put)
             p == Position
  <1>1. /\ Len(asked) = n + txLen - p
        /\ \A i \in p .. txLen - 1 : tx[i] = asked[n + 1 + i - p]
        /\ \A i \in 1 .. n : put[i] = asked[i]
    BY DEF SentInv
  <1>2. put \in ByteSeq /\ tx \in [0 .. BuffSize - 1 -> 0 .. 255] /\ txLen \in 0 .. BuffSize
        /\ cur \in 0 .. BuffSize /\ BuffSize \in Nat
    BY IsoAssumption DEF IsoType, Data
  <1>3. n \in Nat /\ p \in Nat /\ txLen \in Nat /\ p < txLen /\ p \in 0 .. BuffSize - 1
    <2>1. n \in Nat
      BY <1>2, ByteSeqs
    <2>2. p \in Nat
      BY <1>2 DEF Position
    <2> HIDE DEF n
    <2> QED BY <1>2, <2>1, <2>2
  <1>4. tx[p] \in 0 .. 255
    BY <1>2, <1>3
  <1>5. /\ Len(put') = n + 1 /\ put'[n + 1] = tx[p]
        /\ \A i \in 1 .. n : put'[i] = put[i]
    BY <1>2, <1>4, AppendProperties DEF ByteSeq
  <1> HIDE DEF n, p
  <1>6. tx[p] = asked[n + 1]
    <2>1. p \in p .. txLen - 1 /\ n + 1 + p - p = n + 1
      BY <1>3
    <2> QED BY <1>1, <2>1
  <1>7. \A i \in 1 .. n + 1 : put'[i] = asked[i]
    <2>1. \A i \in 1 .. n + 1 : i = n + 1 \/ i \in 1 .. n
      BY <1>3
    <2> QED BY <1>1, <1>5, <1>6, <2>1
  <1>8. \A i \in p + 1 .. txLen - 1 : tx[i] = asked[(n + 1) + 1 + i - (p + 1)]
    <2>1. \A i \in p + 1 .. txLen - 1 : i \in p .. txLen - 1 /\ (n + 1) + 1 + i - (p + 1) = n + 1 + i - p
      BY <1>3
    <2> QED BY <1>1, <2>1
  <1>9. Len(asked) = (n + 1) + txLen - (p + 1) /\ (p + 1 = txLen => Len(asked) = n + 1)
    BY <1>1, <1>3
  <1> QED BY <1>5, <1>7, <1>8, <1>9 DEF n, p

LEMMA SentInvNext == IsoType /\ OneAtATime /\ OneMessage /\ SentInv /\ [Next]_vars => SentInv'
  <1> SUFFICES ASSUME IsoType, OneAtATime, OneMessage, SentInv, [Next]_vars, paced PROVE SentInv'
    BY DEF SentInv, Next, MainStep, TimerTick, vars, LoadMessage, SwitchUartOff, SetLength, AddChecksum,
           Rewind, StartMessage, NoStart, CountFirst, ResetKw2, ResetSyncByte, ResetSyncBit, Activate,
           StartTimer, SyncTick, InitTimeoutGoesOn, InitTimeoutFails, GapOver, IdleOver, Echo, EchoLost,
           VehicleAnswers, VehicleTalks, counters
  <1>1. ASSUME NEW m \in Messages, LoadMessage(m) PROVE SentInv'
    BY <1>1, LoadSends
  <1>2. CASE /\ UNCHANGED <<paced, put, asked, tx, txLen, cur, loaded>>
             /\ pc' = pc \/ {pc, pc'} \cap {"length", "sum", "count"} = {}
    BY <1>2 DEF SentInv, Position
  <1>3. CASE SetLength
    BY <1>3 DEF SetLength, SentInv, counters
  <1>4. CASE AddChecksum
    <2>1. /\ Len(loaded) \in 1 .. BuffSize - 1 /\ txLen' = Len(loaded) + 1 /\ cur' = 0 /\ pc' = "rewind"
          /\ put' = put /\ asked' = asked /\ BuffSize \in Nat /\ paced' = paced
          /\ tx' = [tx EXCEPT ![Len(loaded)] = Checksum(loaded)]
          /\ tx \in [0 .. BuffSize - 1 -> 0 .. 255]
      BY <1>4, MessageType, IsoAssumption DEF AddChecksum, IsoType, Data, OneMessage, counters
    <2>2. /\ Len(asked) = Len(put) + Len(loaded) + 1
          /\ \A i \in 0 .. Len(loaded) - 1 : tx[i] = asked[Len(put) + 1 + i]
          /\ Checksum(loaded) = asked[Len(put) + 1 + Len(loaded)]
          /\ \A i \in 1 .. Len(put) : put[i] = asked[i]
      BY <1>4 DEF AddChecksum, SentInv
    <2> DEFINE n == Len(put)
               k == Len(loaded)
    <2>3. n \in Nat
      BY ByteSeqs DEF IsoType, Data
    <2>4. \A i \in 0 .. k : tx'[i] = asked[n + 1 + i]
      <3>1. \A i \in 0 .. k : i = k \/ i \in 0 .. k - 1
        BY <2>1
      <3>2. tx'[k] = Checksum(loaded) /\ \A i \in 0 .. k - 1 : tx'[i] = tx[i]
        BY <2>1
      <3> QED BY <2>2, <3>1, <3>2
    <2>5. \A i \in 0 .. txLen' - 1 : tx'[i] = asked[n + 1 + i - 0]
      <3>1. \A i \in 0 .. txLen' - 1 : i \in 0 .. k /\ n + 1 + i - 0 = n + 1 + i
        BY <2>1, <2>3
      <3> HIDE DEF n, k
      <3> QED BY <2>4, <3>1
    <2>6. Position' = 0
      BY <2>1 DEF Position
    <2>7. Len(asked) = n + txLen' - 0
      BY <2>1, <2>2, <2>3
    <2> QED BY <2>1, <2>2, <2>5, <2>6, <2>7 DEF SentInv
  <1>5. CASE Rewind
    <2>1. cur = 0 /\ cur' = 0
      BY <1>5 DEF Rewind, OneMessage
    <2> QED BY <1>5, <2>1 DEF Rewind, SentInv, Position, message, counters
  <1>6. CASE StartMessage
    <2>1. line = <<>> /\ uartOn /\ cur = 0 /\ txLen # 0 /\ pc \notin {"length", "sum", "count"}
      BY <1>6 DEF StartMessage, OneMessage, Asking, Starting
    <2>2. put' = Append(put, tx[0])
      BY <1>6, <2>1 DEF StartMessage, PutData
    <2>3. Position = 0 /\ 0 < txLen /\ pc' = "count" /\ Position' = 1
      BY <1>6, <2>1 DEF Position, StartMessage, IsoType, Data
    <2>4. UNCHANGED <<paced, asked, tx, txLen>>
      BY <1>6 DEF StartMessage, message, counters
    <2> QED BY <2>1, <2>2, <2>3, <2>4, PutSends DEF SentInv
  <1>7. CASE CountFirst
    <2>1. Position = 1 /\ Position' = 1
      BY <1>7 DEF CountFirst, Position, OneMessage
    <2> QED BY <1>7, <2>1 DEF CountFirst, SentInv, message, counters
  <1>8. CASE GapOver /\ cur # 0
    <2>1. pc \notin {"length", "sum", "count"} /\ pc' = pc /\ Position = cur /\ cur < txLen
      BY <1>8 DEF GapOver, OneMessage, Position
    <2>2. put' = Append(put, tx[Position]) /\ UNCHANGED <<paced, asked, tx>>
      BY <1>8, <2>1 DEF GapOver, PutData, counters
    <2>3. CASE cur + 1 = txLen
      <3>1. cur' = 0 /\ txLen' = 0 /\ Position' = 0
        BY <1>8, <2>1, <2>3 DEF GapOver, Position
      <3>2. Len(put') \in Nat
        <4>1. tx[Position] \in 0 .. 255
          BY <1>8, <2>1, IsoAssumption DEF GapOver, IsoType, Data
        <4> QED BY <2>2, <4>1, ByteSeqs DEF IsoType, Data
      <3> QED BY <2>1, <2>2, <2>3, <3>1, <3>2, PutSends DEF SentInv
    <2>4. CASE cur + 1 # txLen
      <3>1. cur' = cur + 1 /\ txLen' = txLen /\ Position' = Position + 1
        BY <1>8, <2>1, <2>4 DEF GapOver, Position
      <3> QED BY <2>1, <2>2, <3>1, PutSends DEF SentInv
    <2> QED BY <2>3, <2>4
  <1>9. CASE SwitchUartOff \/ NoStart \/ StartSteps \/ SyncTick \/ InitTimeoutGoesOn \/ InitTimeoutFails \/ IdleOver
             \/ (GapOver /\ cur = 0) \/ EchoLost \/ UNCHANGED vars
    BY <1>2, <1>9 DEF SwitchUartOff, NoStart, StartSteps, ResetKw2, ResetSyncByte, ResetSyncBit, Activate, StartTimer,
           SyncTick, InitTimeoutGoesOn, InitTimeoutFails, IdleOver, GapOver, EchoLost, vars, txVars, message, counters
  <1>10. CASE Echo \/ VehicleAnswers \/ \E c \in Chatter : VehicleTalks(c)
    <2>1. PICK b \in 0 .. 255 : BusByte(b)
      BY <1>10, BytesHeard
    <2> QED BY <1>2, <2>1 DEF BusByte, Rxc, Unheard, message
  <1> QED BY <1>1, <1>3, <1>4, <1>5, <1>6, <1>7, <1>8, <1>9, <1>10
          DEF Next, MainStep, TimerTick, StartSteps

LEMMA SentImplies == IsoType /\ OneMessage /\ SentInv => SentAsAsked
  <1> SUFFICES ASSUME IsoType, OneMessage, SentInv, paced PROVE IsPrefix(put, asked)
    BY DEF SentAsAsked
  <1>1. put \in ByteSeq /\ asked \in ByteSeq /\ Len(put) \in Nat /\ Len(asked) \in Nat
        /\ txLen \in Nat /\ cur \in Nat /\ Len(loaded) \in Nat
    <2>1. put \in ByteSeq /\ asked \in ByteSeq /\ txLen \in Nat /\ cur \in Nat
      BY DEF IsoType, Data
    <2>2. CASE loaded \in Messages
      BY <2>1, <2>2, MessageType, ByteSeqs
    <2>3. CASE loaded = <<>>
      BY <2>1, <2>3, ByteSeqs
    <2> QED BY <2>2, <2>3 DEF IsoType, Data
  <1>2. Len(put) <= Len(asked)
    BY <1>1 DEF SentInv, OneMessage, Position
  <1>3. \A i \in 1 .. Len(put) : put[i] = asked[i]
    BY DEF SentInv
  <1> QED BY <1>1, <1>2, <1>3 DEF IsPrefix, ByteSeq

-------------------------------------------------------------------------------
(* The theorems that need the types *)

IsoInv == IsoType /\ AnsweredInv /\ AddressInv /\ OneMessage /\ SentInv

LEMMA IsoInvInit == Init => IsoInv
  <1> SUFFICES ASSUME Init PROVE IsoInv
    OBVIOUS
  <1>1. AddressInv
    BY DEF Init, AddressInv
  <1>2. OneMessage
    BY DEF Init, OneMessage, Starting, Asking
  <1>3. SentInv
    <2>1. put = <<>> /\ asked = <<>> /\ txLen = 0 /\ cur = 0 /\ pc = "loop"
      BY DEF Init
    <2> QED BY <2>1 DEF SentInv, Position
  <1> QED BY <1>1, <1>2, <1>3, IsoTypeInit, AnsweredInvInit DEF IsoInv

LEMMA IsoInvNext == IsoInv /\ [Next]_vars => IsoInv'
  BY IsoTypeNext, AnsweredInvNext, AddressInvNext, OneMessageNext, SentInvNext DEF IsoInv, AnsweredInv

LEMMA IsoInvTypes == IsoInv => TypeOK
  <1> SUFFICES ASSUME IsoInv PROVE TypeOK
    OBVIOUS
  <1>1. IsoType
    BY DEF IsoInv
  <1>2. paced => cur <= txLen
    BY <1>1 DEF IsoInv, OneMessage, IsoType, Data
  <1>3. \A s \in {rx, line, heard, put, loaded, asked} : s \in Seq(0 .. 255)
    <2>1. loaded \in ByteSeq
      <3>1. <<>> \in ByteSeq
        BY DEF ByteSeq
      <3>2. loaded \in Messages \/ loaded = <<>>
        BY <1>1 DEF IsoType, Data
      <3> QED BY <3>1, <3>2, MessageType, Zenon
    <2> QED BY <1>1, <2>1 DEF IsoType, Data, ByteSeq
  <1>4. pc \in {"loop", "length", "sum", "rewind", "start", "count"} \/ Starting
    BY <1>1 DEF IsoType, Control, Starting
  <1>5. Flags /\ Control /\ Data
    BY <1>1 DEF IsoType
  <1> QED BY <1>2, <1>3, <1>4, <1>5 DEF TypeOK, Flags, Control, Data

\* Every variable keeps its type and every index its array, and the position of a
\* host that waits never passes the length (ISO9141.c:67-124).
THEOREM IsoTypes == Spec => []TypeOK
  BY IsoInvInit, IsoInvNext, IsoInvTypes, PTL DEF Spec

\* To a host that asks for one thing at a time the address goes out as start bit,
\* eight bits, lowest first, and stop bit, whatever the vehicle says (ISO9141.c:157-172).
THEOREM IsoAddressInOrder == Spec => []AddressInOrder
  <1>1. IsoInv => AddressInOrder
    BY AddressImplies DEF IsoInv
  <1> QED BY <1>1, IsoInvInit, IsoInvNext, PTL DEF Spec

\* The messages of such a host go out byte by byte with their checksums, however
\* bytes of the vehicle and lost echoes move the gaps (ISO9141.c:67-82, 108-124).
THEOREM IsoSentAsAsked == Spec => []SentAsAsked
  <1>1. IsoInv => SentAsAsked
    BY SentImplies DEF IsoInv
  <1> QED BY <1>1, IsoInvInit, IsoInvNext, PTL DEF Spec

-------------------------------------------------------------------------------
(* The end of an initialisation.  That the steps are taken is fairness and   *)
(* left to TLC; here is what UartOnAgain rests on beside it.                 *)

\* from the call on until the UART is on and the initialisation inactive
Initialising == Starting \/ initActive \/ ~uartOn

\* The UART is off only for an initialisation that is active or will be.
OffForInit == uartOn \in BOOLEAN /\ (~uartOn => initActive = TRUE \/ Asking)

LEMMA OffForInitNext == OffForInit /\ [Next]_vars => OffForInit'
  <1> SUFFICES ASSUME OffForInit, [Next]_vars PROVE OffForInit'
    OBVIOUS
  <1> USE DEF OffForInit, Asking, initVars
  <1>1. ASSUME NEW m \in Messages, LoadMessage(m) PROVE OffForInit'
    BY <1>1 DEF LoadMessage
  <1>2. CASE SwitchUartOff
    BY <1>2 DEF SwitchUartOff
  <1>3. CASE Sending
    BY <1>3 DEF Sending, SetLength, AddChecksum, Rewind, StartMessage, NoStart, CountFirst
  <1>4. CASE StartSteps
    BY <1>4 DEF StartSteps, ResetKw2, ResetSyncByte, ResetSyncBit, Activate, StartTimer
  <1>5. CASE TimerTick
    BY <1>5 DEF TimerTick, SyncTick, InitTimeoutGoesOn, InitTimeoutFails, GapOver, IdleOver, Finish
  <1>6. CASE EchoLost
    BY <1>6 DEF EchoLost
  <1>7. CASE Heard
    <2>1. PICK b : Rxc(b) \/ Unheard
      BY <1>7 DEF Heard
    <2> QED BY <2>1 DEF Rxc, HandshakeByte, Unheard, Finish
  <1>8. CASE UNCHANGED vars
    BY <1>8 DEF vars
  <1> QED BY <1>1, <1>2, <1>3, <1>4, <1>5, <1>6, <1>7, <1>8, NextSteps

LEMMA OffForInitInit == Init => OffForInit
  BY DEF Init, OffForInit

\* An initialisation always has a step to take: one of the call's, or the timer
\* runs with a callback that brings it on (ISO9141.c:130-189).
THEOREM IsoNeverStuck == Spec => [](Initialising => Starting \/ timer \in {"sync", "init"})
  <1>1. OffForInit /\ InitOwnsTimer => (Initialising => Starting \/ timer \in {"sync", "init"})
    BY DEF OffForInit, InitOwnsTimer, Initialising, Starting, Asking
  <1>2. Init => InitOwnsTimer
    BY DEF Init, InitOwnsTimer
  <1> QED BY <1>1, <1>2, OffForInitInit, OffForInitNext, OwnsTimerNext, PTL DEF Spec

\* the steps of the call and the ticks of the timer that are left
Rank ==
    CASE pc = "reset" -> 20 [] pc = "byte" -> 19 [] pc = "bit" -> 18 [] pc = "activate" -> 17 [] pc = "timer" -> 16
      [] OTHER -> IF timer = "sync" THEN 12 - syncBit ELSE IF sentKw2 THEN 0 ELSE 1

\* The call's steps and, after them, the ticks of the timer use up a number; no byte
\* on the bus and no message of the host sets it back.  Only a new call does
\* (ISO9141.c:130-189, :191-246).
THEOREM IsoInitRunsOut ==
    Spec => [][\/ SwitchUartOff
               \/ ~Initialising'
               \/ /\ Initialising /\ Rank \in Nat /\ Rank' <= Rank
                  /\ StartSteps \/ (TimerTick /\ ~Starting) => Rank' < Rank]_vars
  <1> DEFINE Down == /\ Initialising /\ Rank \in Nat /\ Rank' <= Rank
                     /\ StartSteps \/ (TimerTick /\ ~Starting) => Rank' < Rank
  <1>1. ASSUME IsoType, IsoType', InitOwnsTimer, OffForInit, [Next]_vars, ~SwitchUartOff, Initialising', ~(UNCHANGED vars)
        PROVE  Down
    <2>1. /\ syncBit \in 0 .. 10 /\ sentKw2 \in BOOLEAN /\ uartOn \in BOOLEAN
          /\ syncBit' \in 0 .. 10 /\ sentKw2' \in BOOLEAN
      BY <1>1 DEF IsoType, Control, Flags
    <2>2. Rank \in Nat /\ Rank' \in Nat
      <3>0. \A k \in 0 .. 10 : 12 - k \in Nat
        OBVIOUS
      <3>1. 12 - syncBit \in Nat /\ 12 - syncBit' \in Nat
        BY <2>1, <3>0
      <3> DEFINE a == 12 - syncBit
                 b == 12 - syncBit'
      <3>2. Rank' = CASE pc' = "reset" -> 20 [] pc' = "byte" -> 19 [] pc' = "bit" -> 18
                      [] pc' = "activate" -> 17 [] pc' = "timer" -> 16
                      [] OTHER -> IF timer' = "sync" THEN b ELSE IF sentKw2' THEN 0 ELSE 1
        BY DEF Rank
      <3>3. Rank = CASE pc = "reset" -> 20 [] pc = "byte" -> 19 [] pc = "bit" -> 18
                     [] pc = "activate" -> 17 [] pc = "timer" -> 16
                     [] OTHER -> IF timer = "sync" THEN a ELSE IF sentKw2 THEN 0 ELSE 1
        BY DEF Rank
      <3> HIDE DEF a, b
      <3> QED BY <3>1, <3>2, <3>3 DEF a, b
    <2>3. Rank \in Int /\ Rank' \in Int
      BY <2>2
    <2>4. CASE StartSteps
      <3>1. Starting
        BY <2>4 DEF StartSteps, ResetKw2, ResetSyncByte, ResetSyncBit, Activate, StartTimer, Starting
      <3>2. Rank' < Rank
        <4>1. CASE ResetKw2 \/ ResetSyncByte \/ ResetSyncBit \/ Activate
          BY <4>1 DEF ResetKw2, ResetSyncByte, ResetSyncBit, Activate, Rank
        <4>2. CASE StartTimer
          <5>1. Rank = 16 /\ Rank' = 12 - syncBit
            BY <4>2 DEF StartTimer, Rank, initVars, sync
          <5> QED BY <2>1, <5>1
        <4> QED BY <2>4, <4>1, <4>2 DEF StartSteps
      <3> QED BY <2>2, <3>1, <3>2 DEF Initialising
    <2>5. ASSUME UNCHANGED pc, Starting PROVE Rank' = Rank
      BY <2>5 DEF Starting, Rank
    <2>6. CASE TimerTick
      <3>1. pc' = pc
        BY <2>6 DEF TimerTick, SyncTick, InitTimeoutGoesOn, InitTimeoutFails, GapOver, IdleOver
      <3>2. Initialising
        BY <1>1, <2>6, <3>1 DEF TimerTick, SyncTick, InitTimeoutGoesOn, InitTimeoutFails, GapOver, IdleOver,
           Initialising, Starting, initVars, Finish
      <3>3. CASE Starting
        <4>1. ~StartSteps
          BY <3>1 DEF StartSteps, ResetKw2, ResetSyncByte, ResetSyncBit, Activate, StartTimer
        <4> QED BY <2>2, <2>5, <3>1, <3>2, <3>3, <4>1
      <3>4. CASE ~Starting
        <4>1. pc \notin {"reset", "byte", "bit", "activate", "timer"} /\ pc' = pc
          BY <3>1, <3>4 DEF Starting
        <4>2. Rank = IF timer = "sync" THEN 12 - syncBit ELSE IF sentKw2 THEN 0 ELSE 1
          BY <4>1 DEF Rank
        <4>3. Rank' = IF timer' = "sync" THEN 12 - syncBit' ELSE IF sentKw2' THEN 0 ELSE 1
          BY <4>1 DEF Rank
        <4>4. CASE SyncTick
          <5>1. timer = "sync" /\ syncBit \in 0 .. 9 /\ syncBit' = syncBit + 1
                /\ timer' \in {"sync", "init"}
            BY <1>1, <4>4 DEF SyncTick, Expires, IsoType, Control
          <5>2. Rank' < Rank
            BY <2>1, <4>2, <4>3, <5>1
          <5> QED BY <2>2, <3>2, <5>2
        <4>5. CASE InitTimeoutGoesOn
          <5>1. timer = "init" /\ timer' = "init" /\ sentKw2 = FALSE /\ sentKw2' = TRUE
            BY <2>1, <4>5 DEF InitTimeoutGoesOn, Expires, KeywordsHeard
          <5>2. Rank' < Rank
            BY <4>2, <4>3, <5>1
          <5> QED BY <2>2, <3>2, <5>2
        <4>6. ASSUME InitTimeoutFails \/ GapOver \/ IdleOver PROVE FALSE
          <5>1. CASE InitTimeoutFails
            BY <1>1, <3>1, <3>4, <5>1 DEF InitTimeoutFails, Finish, Initialising, Starting
          <5>2. CASE GapOver \/ IdleOver
            <6>1. timer \notin {"sync", "init"} /\ UNCHANGED <<initActive, uartOn>>
              BY <5>2 DEF GapOver, IdleOver, Expires, initVars
            <6>2. ~initActive
              BY <1>1, <4>1, <6>1 DEF InitOwnsTimer
            <6>3. uartOn
              BY <1>1, <4>1, <6>2 DEF OffForInit, Asking
            <6> QED BY <1>1, <3>1, <3>4, <6>1, <6>2, <6>3 DEF Initialising, Starting
          <5> QED BY <4>6, <5>1, <5>2
        <4> QED BY <2>6, <4>4, <4>5, <4>6 DEF TimerTick
      <3> QED BY <3>3, <3>4
    <2>7. ASSUME Sending \/ EchoLost \/ Heard \/ \E m \in Messages : LoadMessage(m)
          PROVE  Initialising /\ Rank' <= Rank
      <3>1. Starting' = Starting /\ (Starting => pc' = pc) /\ UNCHANGED <<syncBit, sentKw2>>
        <4>1. CASE \E m \in Messages : LoadMessage(m)
          BY <4>1 DEF LoadMessage, Starting, initVars, sync
        <4>2. CASE Sending
          BY <4>2 DEF Sending, SetLength, AddChecksum, Rewind, StartMessage, NoStart, CountFirst,
             Starting, initVars, sync
        <4>3. CASE EchoLost
          BY <4>3 DEF EchoLost, Starting, initVars, sync
        <4>4. CASE Heard
          BY <4>4 DEF Heard, Rxc, Unheard, Starting, initVars, sync
        <4> QED BY <2>7, <4>1, <4>2, <4>3, <4>4
      <3>2. CASE Starting
        <4>1. Rank' = Rank
          BY <2>5, <3>1, <3>2
        <4> QED BY <2>3, <3>2, <4>1 DEF Initialising
      <3>3. CASE ~Starting
        <4>1. /\ pc \notin {"reset", "byte", "bit", "activate", "timer"}
              /\ pc' \notin {"reset", "byte", "bit", "activate", "timer"}
          BY <3>1, <3>3 DEF Starting
        <4>2. Rank = IF timer = "sync" THEN 12 - syncBit ELSE IF sentKw2 THEN 0 ELSE 1
          BY <4>1 DEF Rank
        <4>3. Rank' = IF timer' = "sync" THEN 12 - syncBit' ELSE IF sentKw2' THEN 0 ELSE 1
          BY <4>1 DEF Rank
        <4>4. Initialising /\ timer' \in {timer, "init"}
          <5>1. CASE UNCHANGED <<timer, initActive, uartOn>>
            BY <1>1, <3>1, <5>1 DEF Initialising
          <5>2. ASSUME NEW b, Rxc(b) PROVE Initialising /\ timer' \in {timer, "init"}
            <6>1. uartOn
              BY <5>2 DEF Rxc
            <6>2. CASE ~initActive
              BY <1>1, <3>1, <3>3, <5>2, <6>1, <6>2 DEF Rxc, Initialising
            <6>3. CASE initActive
              BY <1>1, <3>1, <3>3, <5>2, <6>1, <6>3 DEF Rxc, HandshakeByte, Finish, Initialising
            <6> QED BY <6>2, <6>3
          <5> QED BY <2>7, <5>1, <5>2 DEF LoadMessage, Sending, SetLength, AddChecksum, Rewind, StartMessage,
                  NoStart, CountFirst, EchoLost, Heard, Unheard, initVars, alarm
        <4>5. timer = "sync" => syncBit \in 0 .. 9
          BY <1>1 DEF IsoType, Control
        <4> QED BY <2>1, <2>3, <3>1, <4>2, <4>3, <4>4, <4>5
      <3> QED BY <3>2, <3>3
    <2>8. CASE ~StartSteps /\ ~TimerTick
      BY <1>1, <2>2, <2>7, <2>8, NextSteps
    <2> QED BY <1>1, <2>4, <2>6, <2>8
  <1>2. IsoType /\ IsoType' /\ InitOwnsTimer /\ OffForInit /\ [Next]_vars
        => [\/ SwitchUartOff \/ ~Initialising' \/ Down]_vars
    BY <1>1
  <1>3. Init => InitOwnsTimer
    BY DEF Init, InitOwnsTimer
  <1> QED BY <1>2, <1>3, IsoTypeInit, IsoTypeNext, OffForInitInit, OffForInitNext, OwnsTimerNext, PTL DEF Spec
===============================================================================
