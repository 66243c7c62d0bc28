------------------------------ MODULE SciProofs ------------------------------
(***************************************************************************)
(* Theorems about SciEngine for every buffer size, message and bound: the  *)
(* variables keep their types, and for a host and a vehicle that wait, the *)
(* engine's steps are steps of SciExchange.  For any partner, up to a full *)
(* recv_buff, nothing heard is lost and nothing is left over at rest.      *)
(***************************************************************************)
EXTENDS SciEngine, SequenceTheorems, WellFoundedInduction, TLAPS

\* the message under way, or the last one
Msg == Last(asked)

TypeInv ==
    /\ TypeOK
    /\ pc # "loop" => asked # <<>>
    /\ pc = "copy" => idx < Len(Msg)

LEMMA MsgType ==
    ASSUME asked \in Seq(Messages), asked # <<>>
    PROVE  Msg \in Seq(Int) /\ Len(Msg) \in 1 .. BuffSize
  <1>1. Len(asked) \in Nat /\ Len(asked) # 0
    BY EmptySeq
  <1>2. asked[Len(asked)] \in Messages
    BY <1>1, ElementOfSeq
  <1> QED BY <1>2, MessageAssumption DEF Msg, Last

LEMMA AskedGrows ==
    ASSUME asked \in Seq(Messages), NEW m \in Messages, asked' = Append(asked, m)
    PROVE  asked' \in Seq(Messages) /\ asked' # <<>> /\ Msg' = m
  BY AppendProperties DEF Msg, Last

LEMMA HeadTailType ==
    ASSUME NEW s \in Seq(Int), s # <<>>
    PROVE  Head(s) \in Int /\ Tail(s) \in Seq(Int)
  BY HeadTailProperties

LEMMA PutDataType ==
    ASSUME line \in Seq(Int), NEW b \in Int, PutData(b)
    PROVE  line' \in Seq(Int)
  BY DEF PutData

LEMMA RxcType ==
    ASSUME TypeInv, NEW b \in Int, Rxc(b)
    PROVE  /\ recv' \in Seq(Int) /\ Len(recv') <= BuffSize
           /\ heard' \in Seq(Int) /\ line' \in Seq(Int)
           /\ reports' \in Seq(Seq(Int))
           /\ sendLen' \in 0 .. BuffSize /\ sendCur' \in -1 .. BuffSize
  <1>1. heard' \in Seq(Int)
    BY DEF Rxc, TypeInv, TypeOK
  <1>2. /\ Append(recv, b) \in Seq(Int) /\ Len(Append(recv, b)) <= BuffSize
        /\ Len(<<>>) <= BuffSize
    <2>1. recv \in Seq(Int) /\ Len(recv) \in Nat /\ Len(recv) < BuffSize
      BY MessageAssumption DEF Rxc, Full, TypeInv, TypeOK
    <2> QED BY <2>1, MessageAssumption
  <1>3. CASE RxSendNext(b)
    <2>1. sendCur \in 0 .. BuffSize - 1 /\ sendCur + 1 \in -1 .. BuffSize
      BY <1>3, MessageAssumption DEF RxSendNext, InExchange, TypeInv, TypeOK
    <2>2. sendBuff[sendCur] \in Int
      BY <2>1 DEF TypeInv, TypeOK
    <2>3. line' \in Seq(Int)
      BY <1>3, <2>2, PutDataType DEF RxSendNext, TypeInv, TypeOK
    <2>4. sendLen' \in 0 .. BuffSize /\ sendCur' \in -1 .. BuffSize
      <3>1. CASE sendCur + 1 = sendLen
        <4>1. sendLen' = 0 /\ sendCur' = -1
          BY <1>3, <3>1 DEF RxSendNext
        <4> QED BY <4>1, MessageAssumption
      <3>2. CASE sendCur + 1 # sendLen
        <4>1. sendLen' = sendLen /\ sendCur' = sendCur + 1
          BY <1>3, <3>2 DEF RxSendNext
        <4> QED BY <4>1, <2>1 DEF TypeInv, TypeOK
      <3> QED BY <3>1, <3>2
    <2> QED BY <1>1, <1>2, <1>3, <2>3, <2>4 DEF RxSendNext, TypeInv, TypeOK
  <1>4. CASE RxReport(b)
    BY <1>1, <1>2, <1>4 DEF RxReport, TypeInv, TypeOK
  <1> QED BY <1>3, <1>4 DEF Rxc

LEMMA TypeInvInit == Init => TypeInv
  BY MessageAssumption DEF Init, TypeInv, TypeOK

LEMMA TypeInvNext == TypeInv /\ [Next]_vars => TypeInv'
  <1> SUFFICES ASSUME TypeInv, [Next]_vars PROVE TypeInv'
    OBVIOUS
  <1> USE MessageAssumption
  <1>1. ASSUME NEW m \in Messages, HostMessage(m) PROVE TypeInv'
    <2>1. asked' \in Seq(Messages) /\ asked' # <<>> /\ Msg' = m /\ Len(m) \in 1 .. BuffSize
      BY <1>1, AskedGrows DEF HostMessage, TypeInv, TypeOK
    <2>2. idx' \in 0 .. BuffSize /\ (pc' = "copy" => idx' < Len(Msg'))
      BY <1>1, <2>1 DEF HostMessage
    <2> QED BY <1>1, <2>1, <2>2 DEF HostMessage, TypeInv, TypeOK
  <1>2. CASE CopyByte
    <2>1. asked \in Seq(Messages) /\ asked # <<>> /\ idx \in 0 .. Len(Msg) - 1
      BY <1>2 DEF CopyByte, TypeInv, TypeOK
    <2>2. Msg \in Seq(Int) /\ Len(Msg) \in 1 .. BuffSize
      BY <2>1, MsgType
    <2>3. Msg[idx + 1] \in Int
      <3>1. idx + 1 \in 1 .. Len(Msg)
        BY <2>1, <2>2
      <3> QED BY <3>1, <2>2, ElementOfSeq
    <2>4. sendBuff' \in [0 .. BuffSize - 1 -> Int]
      <3>1. sendBuff' = [sendBuff EXCEPT ![idx] = Msg[idx + 1]]
        BY <1>2 DEF CopyByte, Msg
      <3> QED BY <3>1, <2>3 DEF TypeInv, TypeOK
    <2>7. idx' \in 0 .. BuffSize
      BY <1>2, <2>1, <2>2 DEF CopyByte
    <2>5. Msg' = Msg
      BY <1>2 DEF CopyByte, host, Msg
    <2>6. pc' \in {"copy", "length"} /\ (pc' = "copy" => idx' < Len(Msg'))
      BY <1>2, <2>1, <2>2, <2>5 DEF CopyByte, Msg
    <2> QED BY <1>2, <2>1, <2>4, <2>6, <2>7 DEF CopyByte, host, TypeInv, TypeOK
  <1>3. CASE SetLength
    <2>1. Len(Msg) \in 1 .. BuffSize
      BY <1>3, MsgType DEF SetLength, TypeInv, TypeOK
    <2> QED BY <1>3, <2>1 DEF SetLength, host, Msg, TypeInv, TypeOK
  <1>4. CASE Rewind
    BY <1>4, SMTT(60) DEF Rewind, host, TypeInv, TypeOK
  <1>5. CASE FirstByte
    <2>1. sendBuff[0] \in Int
      <3>1. Len(Msg) \in 1 .. BuffSize
        BY <1>5, MsgType DEF FirstByte, TypeInv, TypeOK
      <3> QED BY <3>1 DEF TypeInv, TypeOK
    <2>2. line' \in Seq(Int)
      BY <1>5, <2>1, PutDataType DEF FirstByte, TypeInv, TypeOK
    <2> QED BY <1>5, <2>2 DEF FirstByte, host, TypeInv, TypeOK
  <1>6. CASE CountFirst
    <2>1. Len(Msg) \in 1 .. BuffSize
      BY <1>6, MsgType DEF CountFirst, TypeInv, TypeOK
    <2> QED BY <1>6, <2>1 DEF CountFirst, host, TypeInv, TypeOK
  <1>7. CASE Transmit
    <2>1. Head(line) \in Int /\ Tail(line) \in Seq(Int)
      BY <1>7, HeadTailType DEF Transmit, TypeInv, TypeOK
    <2> QED BY <1>7, <2>1 DEF Transmit, host, engine, TypeInv, TypeOK, Msg
  <1>8. CASE Echo
    <2>1. Head(bus) \in Int /\ Tail(bus) \in Seq(Int)
      BY <1>8, HeadTailType DEF Echo, TypeInv, TypeOK
    <2>2. Rxc(Head(bus))
      BY <1>8 DEF Echo
    <2>3. UNCHANGED <<host, sendBuff, pc, idx>>
      BY <2>2 DEF Rxc
    <2> QED BY <1>8, <2>1, <2>2, <2>3, RxcType DEF Echo, host, TypeInv, TypeOK, Msg
  <1>9. ASSUME NEW b \in Replies, Reply(b) PROVE TypeInv'
    <2>1. b \in Int /\ Rxc(b)
      BY <1>9 DEF Reply
    <2>2. UNCHANGED <<host, sendBuff, pc, idx>>
      BY <2>1 DEF Rxc
    <2>3. bus' = bus /\ replied' \in 0 .. MaxReplies
      BY <1>9 DEF Reply, TypeInv, TypeOK
    <2> QED BY <2>1, <2>2, <2>3, RxcType DEF host, TypeInv, TypeOK, Msg
  <1>10. CASE UNCHANGED vars
    BY <1>10 DEF vars, host, engine, TypeInv, TypeOK, Msg
  <1> QED BY <1>1, <1>2, <1>3, <1>4, <1>5, <1>6, <1>7, <1>8, <1>9, <1>10 DEF Next, MainStep

\* Type correctness of the SCI engine: whatever message replaces which, and
\* wherever the interrupt falls, length and index stay within the buffer
\* (SCI.c:47-84).
THEOREM SciTypeCorrect == Spec => []TypeOK
  <1>1. TypeInv => TypeOK
    BY DEF TypeInv
  <1> QED BY <1>1, TypeInvInit, TypeInvNext, PTL DEF Spec
-------------------------------------------------------------------------------
(***************************************************************************)
(* A host and a vehicle that wait.  Neither OneByteOut nor RecvIsEcho is   *)
(* inductive: that the next byte is the right one and the only one rests   *)
(* on what the main loop left in send_buff, send_buff_len and              *)
(* send_cur_index, and that on no byte arriving while it writes them.      *)
(***************************************************************************)

\* the first n bytes of the message are in send_buff
CopiedTo(n) == \A i \in 1 .. n : sendBuff[i - 1] = Msg[i]

\* The main loop is in sci_do_tasks: nothing is on its way, but the first byte.
Loading ==
    /\ recv = <<>> /\ bus = <<>>
    /\ line = IF pc = "count" THEN <<Msg[1]>> ELSE <<>>
    /\ CopiedTo(IF pc = "copy" THEN idx ELSE Len(Msg))
    /\ pc \in {"rewind", "first", "count"} => sendLen = Len(Msg)

\* The main loop is idle: the byte after those received is on its way, alone,
\* and the interrupt will send the one after that, if there is one.
Echoing ==
    /\ asked # <<>> /\ Len(recv) < Len(Msg)
    /\ \A i \in 1 .. Len(recv) : recv[i] = Msg[i]
    /\ \/ line = <<Msg[Len(recv) + 1]>> /\ bus = <<>>
       \/ line = <<>> /\ bus = <<Msg[Len(recv) + 1]>>
    /\ IF Len(recv) + 1 < Len(Msg)
       THEN sendCur = Len(recv) + 1 /\ sendLen = Len(Msg) /\ CopiedTo(Len(Msg))
       ELSE ~InExchange

EchoInv == halfDuplex => IF pc = "loop" THEN Quiet \/ Echoing ELSE Loading

LEMMA OneElement ==
    ASSUME NEW b \in Int
    PROVE  /\ Len(<<b>>) = 1 /\ Head(<<b>>) = b /\ Tail(<<b>>) = <<>>
           /\ Append(<<>>, b) = <<b>> /\ <<b>> # <<>>
  OBVIOUS

LEMMA OneByteLen == ASSUME NEW s, NEW b, s = <<b>> PROVE Len(s) = 1 /\ s # <<>>
  <1>1. Len(<<b>>) = 1 /\ <<b>> # <<>>
    OBVIOUS
  <1> QED BY <1>1, Zenon

\* Exactly one byte is on its way, so the engine is not at rest.
LEMMA EchoingIsBusy == Echoing => Len(line) + Len(bus) = 1 /\ ~Quiet
  <1> SUFFICES ASSUME Echoing PROVE Len(line) + Len(bus) = 1 /\ ~Quiet
    OBVIOUS
  <1>1. Len(<<>>) = 0
    OBVIOUS
  <1>2. \/ Len(line) = 1 /\ line # <<>> /\ Len(bus) = 0
        \/ Len(bus) = 1 /\ bus # <<>> /\ Len(line) = 0
    BY <1>1, OneByteLen, Zenon DEF Echoing
  <1>3. CASE Len(line) = 1 /\ line # <<>> /\ Len(bus) = 0
    BY <1>3 DEF Quiet
  <1>4. CASE Len(bus) = 1 /\ bus # <<>> /\ Len(line) = 0
    BY <1>4 DEF Quiet
  <1> QED BY <1>2, <1>3, <1>4

LEMMA PutDataAppends ==
    ASSUME NEW b \in Int, line = <<>>, PutData(b)
    PROVE  line' = <<b>>
  BY OneElement DEF PutData

LEMMA MsgUnchanged == UNCHANGED asked => Msg' = Msg
  BY DEF Msg

\* The main loop's steps stay in Loading, and the last of them starts Echoing.
LEMMA LoadingStep ==
    ASSUME TypeInv, Loading, pc # "loop", MainStep
    PROVE  IF pc' = "loop" THEN Echoing' ELSE Loading'
  <1> USE DEF Loading
  <1>1. asked' = asked /\ Msg' = Msg
    BY MsgUnchanged DEF MainStep, CopyByte, SetLength, Rewind, FirstByte, CountFirst, host
  <1>2. asked # <<>> /\ Msg \in Seq(Int) /\ Len(Msg) \in 1 .. BuffSize
    BY MsgType DEF TypeInv, TypeOK
  <1>3. Msg[1] \in Int
    BY <1>2
  <1>4. CASE CopyByte
    <2>1. idx \in 0 .. Len(Msg) - 1 /\ idx' = idx + 1
      BY <1>4, <1>2 DEF CopyByte, TypeInv, TypeOK
    <2>2. IF pc' = "copy" THEN TRUE ELSE pc' = "length" /\ idx' = Len(Msg)
      BY <1>4 DEF CopyByte, Msg
    <2>3. sendBuff' = [sendBuff EXCEPT ![idx] = Msg[idx + 1]]
      BY <1>4 DEF CopyByte, Msg
    <2>4. \A i \in 1 .. idx + 1 : sendBuff'[i - 1] = Msg[i]
      <3>1. CopiedTo(idx)
        BY <1>4 DEF CopyByte
      <3> QED BY <3>1, <2>1, <2>3, <1>2, MessageAssumption, SMTT(60) DEF CopiedTo, TypeInv, TypeOK
    <2>5. CopiedTo(IF pc = "copy" THEN idx ELSE Len(Msg))'
      BY <1>1, <2>1, <2>2, <2>4 DEF CopiedTo
    <2> QED BY <1>4, <1>1, <2>2, <2>5 DEF CopyByte
  <1>5. CASE SetLength
    BY <1>1, <1>5 DEF SetLength, CopiedTo, Msg
  <1>6. CASE Rewind
    BY <1>1, <1>6 DEF Rewind, CopiedTo
  <1>7. CASE FirstByte
    <2>1. sendBuff[0] = Msg[1]
      BY <1>2, <1>7 DEF FirstByte, CopiedTo
    <2>2. line' = <<Msg[1]>>
      BY <1>3, <1>7, <2>1, PutDataAppends DEF FirstByte
    <2> QED BY <1>1, <1>7, <2>2 DEF FirstByte, CopiedTo
  <1>8. CASE CountFirst
    <2>1. recv' = <<>> /\ Len(recv') = 0 /\ bus' = <<>> /\ line' = <<Msg'[1]>>
      BY <1>1, <1>8 DEF CountFirst
    <2>2. sendCur' = 1 /\ sendLen' = Len(Msg) /\ pc' = "loop"
      BY <1>8 DEF CountFirst
    <2>3. CopiedTo(Len(Msg))'
      BY <1>1, <1>8 DEF CountFirst, CopiedTo
    <2> QED BY <1>1, <1>2, <2>1, <2>2, <2>3 DEF Echoing, InExchange
  <1> QED BY <1>4, <1>5, <1>6, <1>7, <1>8 DEF MainStep

\* An echo sends the next byte, or completes the message and reports it whole.
LEMMA EchoingStep ==
    ASSUME TypeInv, Echoing, pc = "loop", Echo
    PROVE  /\ pc' = "loop" /\ UNCHANGED host
           /\ \/ Echoing' /\ UNCHANGED reports
              \/ Quiet' /\ reports' = Append(reports, Msg)
  <1> DEFINE n == Len(recv)
             b == Msg[n + 1]
  <1>1. Msg \in Seq(Int) /\ Len(Msg) \in 1 .. BuffSize
    BY MsgType DEF TypeInv, TypeOK, Echoing
  <1>2. n \in Nat /\ n < Len(Msg) /\ \A i \in 1 .. n : recv[i] = Msg[i]
    BY DEF TypeInv, TypeOK, Echoing
  <1>3. b \in Int
    <2>1. n + 1 \in 1 .. Len(Msg)
      BY <1>1, <1>2
    <2> QED BY <1>1, <2>1, ElementOfSeq
  <1>4. line = <<>> /\ Head(bus) = b /\ Tail(bus) = <<>>
    BY <1>3, OneElement DEF Echo, Echoing
  <1>5. Rxc(b) /\ bus' = <<>>
    BY <1>4 DEF Echo
  <1>6. UNCHANGED <<asked, Msg, sendBuff, pc, halfDuplex>>
    BY <1>5, MsgUnchanged DEF Rxc, host
  <1>7. /\ Append(recv, b) \in Seq(Int) /\ Len(Append(recv, b)) = n + 1
        /\ \A i \in 1 .. n + 1 : Append(recv, b)[i] = Msg[i]
    BY <1>1, <1>2, <1>3, AppendProperties, SMTT(60) DEF TypeInv, TypeOK
  <1>8. CASE RxSendNext(b)
    <2>1. n + 1 < Len(Msg) /\ sendCur = n + 1 /\ sendLen = Len(Msg)
      BY <1>1, <1>2, <1>8 DEF Echoing, RxSendNext
    <2>2. sendBuff[sendCur] = Msg[n + 2] /\ Msg[n + 2] \in Int
      <3>1. n + 2 \in 1 .. Len(Msg) /\ (n + 2) - 1 = sendCur
        BY <1>1, <1>2, <2>1
      <3>2. CopiedTo(Len(Msg))
        BY <2>1 DEF Echoing
      <3> QED BY <3>1, <3>2, <1>1, ElementOfSeq DEF CopiedTo
    <2>3. line' = <<Msg[n + 2]>>
      BY <1>4, <1>8, <2>2, PutDataAppends DEF RxSendNext
    <2>4. recv' = Append(recv, b) /\ UNCHANGED reports
      BY <1>8 DEF RxSendNext
    <2>5. IF n + 2 < Len(Msg)
          THEN sendCur' = n + 2 /\ sendLen' = Len(Msg)
          ELSE sendCur' = -1
      BY <1>1, <1>2, <1>8, <2>1 DEF RxSendNext
    <2>6. CopiedTo(Len(Msg)) => CopiedTo(Len(Msg))'
      BY <1>6 DEF CopiedTo
    <2>7. Len(recv') = n + 1 /\ \A i \in 1 .. n + 1 : recv'[i] = Msg'[i]
      BY <1>6, <1>7, <2>4
    <2>8. IF Len(recv') + 1 < Len(Msg')
          THEN sendCur' = Len(recv') + 1 /\ sendLen' = Len(Msg') /\ CopiedTo(Len(Msg))'
          ELSE ~InExchange'
      BY <1>1, <1>2, <1>6, <2>1, <2>5, <2>6, <2>7 DEF Echoing, InExchange
    <2>9. Echoing'
      BY <1>1, <1>2, <1>5, <1>6, <2>1, <2>3, <2>7, <2>8 DEF Echoing
    <2> QED BY <1>6, <2>4, <2>9 DEF host
  <1>9. CASE RxReport(b)
    <2>1. n + 1 = Len(Msg)
      BY <1>1, <1>2, <1>9, MessageAssumption DEF Echoing, RxReport, InExchange
    <2>2. Append(recv, b) = Msg
      BY <1>1, <1>7, <2>1, SeqEqual
    <2>3. Quiet'
      BY <1>4, <1>5, <1>6, <1>9 DEF RxReport, Quiet, InExchange
    <2> QED BY <1>6, <1>9, <2>2, <2>3 DEF RxReport, host
  <1> QED BY <1>5, <1>8, <1>9 DEF Rxc

\* Quiet is left by a message of the host only.
LEMMA QuietReply ==
    ASSUME Quiet, NEW b \in Int, Rxc(b), UNCHANGED bus
    PROVE  Quiet' /\ UNCHANGED host /\ reports' = Append(reports, <<b>>)
  <1>1. RxReport(b) /\ UNCHANGED <<host, pc>>
    BY DEF Rxc, RxSendNext, Quiet
  <1> QED BY <1>1, OneElement DEF RxReport, Quiet, InExchange

LEMMA TransmitStep ==
    ASSUME TypeInv, EchoInv, halfDuplex, Transmit
    PROVE  pc = "loop" /\ Echoing /\ Echoing' /\ UNCHANGED <<pc, host, reports>>
  <1>1. UNCHANGED <<pc, host, reports, recv, sendBuff, sendLen, sendCur, asked>>
    BY DEF Transmit, host, engine
  <1>2. Msg' = Msg
    BY <1>1, MsgUnchanged
  <1>3. CASE pc # "loop"
    <2>1. pc = "count" /\ line = <<Msg[1]>> /\ Len(line) = 2
      BY <1>3 DEF Transmit, EchoInv, Loading
    <2> QED BY <2>1
  <1>4. CASE pc = "loop"
    <2>1. Echoing
      BY <1>4 DEF Transmit, EchoInv, Quiet
    <2> DEFINE b == Msg[Len(recv) + 1]
    <2>2. b \in Int
      BY <2>1, MsgType, ElementOfSeq DEF Echoing, TypeInv, TypeOK
    <2>3. line = <<b>> /\ bus = <<>>
      BY <2>1 DEF Transmit, Echoing
    <2>4. bus' = <<b>> /\ line' = <<>>
      BY <2>2, <2>3, OneElement DEF Transmit
    <2> QED BY <1>1, <1>2, <1>4, <2>1, <2>4 DEF Echoing, InExchange, CopiedTo
  <1> QED BY <1>3, <1>4

LEMMA AskStep ==
    ASSUME TypeInv, halfDuplex, NEW m \in Messages, HostMessage(m)
    PROVE  /\ Quiet /\ pc' # "loop" /\ Loading' /\ Msg' = m
           /\ UNCHANGED <<halfDuplex, reports>>
  <1>1. Msg' = m
    BY AskedGrows DEF HostMessage, TypeInv, TypeOK
  <1> QED BY <1>1 DEF HostMessage, Quiet, Loading, CopiedTo

LEMMA EchoInvInit == Init => EchoInv
  BY MessageAssumption DEF Init, EchoInv, Quiet, InExchange

LEMMA EchoInvNext == TypeInv /\ EchoInv /\ [Next]_vars => EchoInv'
  <1> SUFFICES ASSUME TypeInv, EchoInv, [Next]_vars, halfDuplex' PROVE EchoInv'
    BY DEF EchoInv
  <1>0. halfDuplex
    BY DEF Next, HostMessage, MainStep, CopyByte, SetLength, Rewind, FirstByte, CountFirst,
           Transmit, Echo, Reply, Rxc, vars, host
  <1>1. ASSUME NEW m \in Messages, HostMessage(m) PROVE EchoInv'
    BY <1>0, <1>1, AskStep DEF EchoInv
  <1>2. CASE MainStep
    <2>1. pc # "loop"
      BY <1>2 DEF MainStep, CopyByte, SetLength, Rewind, FirstByte, CountFirst
    <2> QED BY <1>0, <1>2, <2>1, LoadingStep DEF EchoInv
  <1>3. CASE Transmit
    BY <1>0, <1>3, TransmitStep DEF EchoInv
  <1>4. CASE Echo
    <2>1. pc = "loop" /\ Echoing
      BY <1>0, <1>4 DEF Echo, EchoInv, Quiet, Loading
    <2> QED BY <1>4, <2>1, EchoingStep DEF EchoInv
  <1>5. ASSUME NEW b \in Replies, Reply(b) PROVE EchoInv'
    <2>1. Quiet /\ b \in Int /\ Rxc(b) /\ UNCHANGED <<bus, pc>>
      BY <1>0, <1>5, MessageAssumption DEF Reply, Rxc
    <2>2. Quiet' /\ pc = "loop"
      BY <2>1, QuietReply DEF Quiet
    <2> QED BY <2>1, <2>2 DEF EchoInv
  <1>6. CASE UNCHANGED vars
    <2>1. UNCHANGED <<asked, sendBuff, sendLen, sendCur, pc, idx, recv, line, bus>>
      BY <1>6 DEF vars, host, engine
    <2>2. Msg' = Msg
      BY <2>1, MsgUnchanged
    <2> QED BY <1>0, <2>1, <2>2 DEF EchoInv, Quiet, Loading, Echoing, InExchange, CopiedTo
  <1> QED BY <1>1, <1>2, <1>3, <1>4, <1>5, <1>6 DEF Next

LEMMA EchoInvOneByteOut == TypeInv /\ EchoInv => OneByteOut
  <1> SUFFICES ASSUME TypeInv, EchoInv, halfDuplex PROVE Len(line) + Len(bus) <= 1
    BY DEF OneByteOut
  <1>1. CASE pc = "loop" /\ Quiet
    BY <1>1 DEF Quiet
  <1>2. CASE pc = "loop" /\ Echoing
    BY <1>2, EchoingIsBusy
  <1>3. CASE pc # "loop"
    <2>1. bus = <<>> /\ (line = <<>> \/ line = <<Msg[1]>>)
      BY <1>3 DEF EchoInv, Loading
    <2>2. Len(<<>>) = 0
      OBVIOUS
    <2>3. Len(bus) = 0 /\ (Len(line) = 0 \/ Len(line) = 1)
      BY <2>1, <2>2, OneByteLen, Zenon
    <2>4. CASE Len(bus) = 0 /\ Len(line) = 0
      BY <2>4
    <2>5. CASE Len(bus) = 0 /\ Len(line) = 1
      BY <2>5
    <2> QED BY <2>3, <2>4, <2>5
  <1> QED BY <1>1, <1>2, <1>3 DEF EchoInv

LEMMA PointwisePrefix ==
    ASSUME NEW s \in Seq(Int), NEW t \in Seq(Int), Len(s) <= Len(t),
           \A i \in 1 .. Len(s) : s[i] = t[i]
    PROVE  IsPrefix(s, t)
  <1> DEFINE n == Len(s)
             a == SubSeq(s, 1, n)
             b == SubSeq(t, 1, n)
  <1>1. n \in Nat /\ n <= Len(t) /\ Len(t) \in Nat
    OBVIOUS
  <1>2. \A i \in 1 .. n : s[i] \in Int /\ t[i] \in Int
    BY <1>1, ElementOfSeq
  <1>3. a \in Seq(Int) /\ Len(a) = n /\ \A i \in 1 .. n : a[i] = s[i]
    BY <1>1, <1>2, SubSeqProperties
  <1>4. b \in Seq(Int) /\ Len(b) = n /\ \A i \in 1 .. n : b[i] = t[i]
    BY <1>1, <1>2, SubSeqProperties
  <1>5. \A i \in 1 .. Len(a) : a[i] = b[i]
    BY <1>3, <1>4
  <1> HIDE DEF a, b
  <1>6. a = b
    BY <1>3, <1>4, <1>5, SeqEqual
  <1> QED BY <1>1, <1>6 DEF IsPrefix, a, b

LEMMA EchoInvRecvIsEcho == TypeInv /\ EchoInv => RecvIsEcho
  <1> SUFFICES ASSUME TypeInv, EchoInv, halfDuplex, recv # <<>>
               PROVE  asked # <<>> /\ IsPrefix(recv, Msg)
    BY DEF RecvIsEcho, Msg
  <1>1. Echoing
    BY DEF EchoInv, Quiet, Loading
  <1>2. asked # <<>> /\ Len(recv) < Len(Msg) /\ \A i \in 1 .. Len(recv) : recv[i] = Msg[i]
    BY <1>1 DEF Echoing
  <1>3. recv \in Seq(Int) /\ Msg \in Seq(Int)
    BY <1>2, MsgType DEF TypeInv, TypeOK
  <1> QED BY <1>2, <1>3, PointwisePrefix

\* With a host and a vehicle that wait, a byte goes out only after the echo of
\* the byte before: the UART and the bus never hold two (SCI.c:65-84).
THEOREM SciOneByteOut == Spec => []OneByteOut
  BY TypeInvInit, TypeInvNext, EchoInvInit, EchoInvNext, EchoInvOneByteOut, PTL DEF Spec

\* With a host and a vehicle that wait, recv_buff holds a prefix of the message
\* under way and nothing of an earlier one (SCI.c:65-84).
THEOREM SciRecvIsEcho == Spec => []RecvIsEcho
  BY TypeInvInit, TypeInvNext, EchoInvInit, EchoInvNext, EchoInvRecvIsEcho, PTL DEF Spec

\* Every step of the engine is a step of SciExchange, or changes nothing there.
LEMMA ExchangeStep == TypeInv /\ EchoInv /\ [Next]_vars => [Exchange!Next]_(Exchange!vars)
  <1> SUFFICES ASSUME TypeInv, EchoInv, [Next]_vars PROVE [Exchange!Next]_(Exchange!vars)
    OBVIOUS
  <1> USE DEF Exchange!vars
  <1>0. UNCHANGED halfDuplex
    BY DEF Next, HostMessage, MainStep, CopyByte, SetLength, Rewind, FirstByte, CountFirst,
           Transmit, Echo, Reply, Rxc, vars, host
  <1>1. CASE ~halfDuplex
    BY <1>0, <1>1
  <1>2. CASE UNCHANGED vars
    BY <1>2 DEF vars, host, engine, Quiet, InExchange
  <1>3. CASE halfDuplex /\ Next
    <2>1. ASSUME NEW m \in Messages, HostMessage(m) PROVE Exchange!Ask(m)
      <3>1. Quiet /\ ~Quiet' /\ Msg' = m /\ UNCHANGED reports
        BY <1>3, <2>1, AskStep DEF Quiet
      <3> QED BY <1>0, <1>3, <3>1 DEF Exchange!Ask, Msg
    <2>2. CASE MainStep
      <3>1. pc # "loop" /\ UNCHANGED <<asked, reports>>
        BY <2>2 DEF MainStep, CopyByte, SetLength, Rewind, FirstByte, CountFirst, host
      <3>2. ~Quiet /\ ~Quiet'
        <4>1. IF pc' = "loop" THEN Echoing' ELSE TRUE
          BY <1>3, <2>2, <3>1, LoadingStep DEF EchoInv
        <4>2. Echoing' => ~Quiet'
          BY EchoingIsBusy, PTL
        <4> QED BY <3>1, <4>1, <4>2 DEF Quiet
      <3> QED BY <1>0, <1>3, <3>1, <3>2
    <2>3. CASE Transmit
      <3>1. Echoing /\ Echoing' /\ UNCHANGED <<asked, reports>>
        BY <1>3, <2>3, TransmitStep DEF host
      <3>2. ~Quiet /\ ~Quiet'
        BY <3>1, EchoingIsBusy, PTL
      <3> QED BY <1>0, <1>3, <3>1, <3>2
    <2>4. CASE Echo
      <3>1. pc = "loop" /\ Echoing /\ ~Quiet
        BY <1>3, <2>4 DEF Echo, EchoInv, Quiet, Loading
      <3>2. CASE Echoing' /\ UNCHANGED <<host, reports>>
        <4>1. ~Quiet'
          BY <3>2, EchoingIsBusy, PTL
        <4> QED BY <1>0, <1>3, <3>1, <3>2, <4>1 DEF host
      <3>3. CASE Quiet' /\ reports' = Append(reports, Msg)
        <4>1. Msg # <<>>
          BY <3>1, MsgType DEF Echoing, TypeInv, TypeOK
        <4>2. Exchange!Complete
          BY <1>0, <1>3, <3>1, <3>3, <4>1 DEF Exchange!Complete, Msg
        <4> QED BY <4>2 DEF Exchange!Next
      <3> QED BY <2>4, <3>1, <3>2, <3>3, EchoingStep
    <2>5. ASSUME NEW b \in Replies, Reply(b) PROVE Exchange!Reply(b)
      <3>1. Quiet /\ b \in Int /\ Rxc(b) /\ UNCHANGED bus
        BY <1>3, <2>5, MessageAssumption DEF Reply
      <3>2. Quiet' /\ reports' = Append(reports, <<b>>)
        BY <3>1, QuietReply
      <3> QED BY <1>0, <1>3, <3>1, <3>2 DEF Exchange!Reply
    <2> QED BY <1>3, <2>1, <2>2, <2>3, <2>4, <2>5 DEF Next, Exchange!Next
  <1> QED BY <1>1, <1>2, <1>3

\* The safety half of ImplementsExchange: with a host and a vehicle that wait,
\* the interrupt and the main loop together send, echo and report every message
\* whole and once (SCI.c:41-84).
THEOREM SciImplementsExchange == Spec => Exchange!Init /\ [][Exchange!Next]_(Exchange!vars)
  <1>1. Init => Exchange!Init
    BY DEF Init, Exchange!Init, Quiet, InExchange
  <1> QED BY <1>1, TypeInvInit, TypeInvNext, EchoInvInit, EchoInvNext, ExchangeStep, PTL DEF Spec

-------------------------------------------------------------------------------
(* What is heard: the messages reported, one after the other, by induction *)
(* on their number                                                         *)

LEMMA LeastNat ==
    ASSUME NEW T \in SUBSET Nat, T # {}
    PROVE  \E n \in T : \A m \in T : n <= m
  <1> DEFINE R == {p \in Nat \X Nat : p[1] < p[2]}
  <1>1. IsWellFoundedOn(R, Nat)
    BY NatLessThanWellFounded, Zenon DEF OpToRel
  <1>2. PICK n \in T : \A m \in T : <<m, n>> \notin R
    <2> HIDE DEF R
    <2> QED BY <1>1, WFMin, Zenon
  <1>3. \A m \in T : ~(m < n)
    BY <1>2
  <1> QED BY <1>3

\* induction, for a set rather than a formula
LEMMA UpTo ==
    ASSUME NEW n \in Nat, NEW Good, 1 \in Good,
           \A k \in 2 .. n : k - 1 \in Good => k \in Good
    PROVE  1 .. n \subseteq Good
  <1> DEFINE Bad == {k \in 1 .. n : k \notin Good}
  <1> SUFFICES ASSUME Bad # {} PROVE FALSE
    OBVIOUS
  <1>1. Bad \in SUBSET Nat
    OBVIOUS
  <1>2. PICK k \in Bad : \A j \in Bad : k <= j
    <2> HIDE DEF Bad
    <2> QED BY <1>1, LeastNat
  <1>3. k \in 2 .. n
    BY <1>2
  <1>4. k - 1 \in Good
    BY <1>2, <1>3
  <1> QED BY <1>2, <1>3, <1>4

\* f[i] holds the bytes of the first i messages of s, up to k of them
IsFlat(s, f, k) ==
    /\ f \in [1 .. k -> Seq(Int)] /\ f[1] = s[1]
    /\ \A i \in 2 .. k : f[i] = f[i - 1] \o s[i]

HasFlat(s, k) == \E f : IsFlat(s, f, k)

LEMMA FlatGrows ==
    ASSUME NEW s \in Seq(Seq(Int)), NEW k \in 2 .. Len(s), NEW f, IsFlat(s, f, k - 1)
    PROVE  IsFlat(s, [i \in 1 .. k |-> IF i < k THEN f[i] ELSE f[k - 1] \o s[k]], k)
  <1> DEFINE g == [i \in 1 .. k |-> IF i < k THEN f[i] ELSE f[k - 1] \o s[k]]
  <1>1. f \in [1 .. k - 1 -> Seq(Int)] /\ k - 1 \in 1 .. k - 1
    BY DEF IsFlat
  <1>2. f[k - 1] \in Seq(Int) /\ s[k] \in Seq(Int)
    BY <1>1, ElementOfSeq
  <1>3. g \in [1 .. k -> Seq(Int)]
    <2>1. \A i \in 1 .. k : i < k => i \in 1 .. k - 1
      OBVIOUS
    <2>2. f[k - 1] \o s[k] \in Seq(Int)
      BY <1>2, ConcatProperties, Zenon
    <2> QED BY <1>1, <2>1, <2>2
  <1>4. g[1] = s[1]
    BY DEF IsFlat
  <1>5. \A i \in 2 .. k : g[i] = g[i - 1] \o s[i]
    <2> SUFFICES ASSUME NEW i \in 2 .. k PROVE g[i] = g[i - 1] \o s[i]
      OBVIOUS
    <2>1. g[i - 1] = f[i - 1]
      OBVIOUS
    <2>2. CASE i = k
      <3>1. g[k] = f[k - 1] \o s[k]
        <4>1. k \in 1 .. k /\ ~(k < k)
          OBVIOUS
        <4> QED BY <4>1, Zenon
      <3> HIDE DEF g
      <3> QED BY <2>1, <2>2, <3>1, Zenon
    <2>3. CASE i < k
      <3>1. g[i] = f[i] /\ i \in 2 .. k - 1
        BY <2>3
      <3>2. f[i] = f[i - 1] \o s[i]
        BY <3>1, Zenon DEF IsFlat
      <3> QED BY <2>1, <3>1, <3>2, Zenon
    <2>4. i = k \/ i < k
      OBVIOUS
    <2> QED BY <2>2, <2>3, <2>4, Zenon
  <1> QED BY <1>3, <1>4, <1>5 DEF IsFlat

LEMMA FlatFound ==
    ASSUME NEW s \in Seq(Seq(Int)), s # <<>>
    PROVE  HasFlat(s, Len(s))
  <1> DEFINE Good == {k \in 1 .. Len(s) : HasFlat(s, k)}
  <1>1. Len(s) \in Nat /\ 1 \in 1 .. Len(s)
    BY EmptySeq
  <1>2. 1 \in Good
    <2> DEFINE f == [i \in 1 .. 1 |-> s[1]]
    <2>1. s[1] \in Seq(Int)
      BY <1>1, ElementOfSeq
    <2>2. IsFlat(s, f, 1)
      BY <2>1 DEF IsFlat
    <2> QED BY <1>1, <2>2 DEF HasFlat
  <1>3. \A k \in 2 .. Len(s) : k - 1 \in Good => k \in Good
    <2> SUFFICES ASSUME NEW k \in 2 .. Len(s), HasFlat(s, k - 1) PROVE HasFlat(s, k) /\ k \in 1 .. Len(s)
      OBVIOUS
    <2>1. PICK f : IsFlat(s, f, k - 1)
      BY DEF HasFlat
    <2>2. IsFlat(s, [i \in 1 .. k |-> IF i < k THEN f[i] ELSE f[k - 1] \o s[k]], k)
      BY <2>1, FlatGrows
    <2>3. k \in 1 .. Len(s)
      OBVIOUS
    <2> QED BY <2>2, <2>3, Zenon DEF HasFlat
  <1>4. 1 .. Len(s) \subseteq Good
    <2> HIDE DEF Good
    <2> QED BY <1>1, <1>2, <1>3, UpTo
  <1> QED BY <1>1, <1>4

LEMMA FlatIs ==
    ASSUME NEW s \in Seq(Seq(Int)), s # <<>>, NEW f, IsFlat(s, f, Len(s))
    PROVE  FlattenSeq(s) = f[Len(s)] /\ f[Len(s)] \in Seq(Int)
  <1> DEFINE n == Len(s)
             Step(g) == [i \in 1 .. n |-> IF i = 1 THEN s[i] ELSE g[i - 1] \o s[i]]
             flatten == CHOOSE g : g = Step(g)
  <1>1. n \in Nat /\ n # 0 /\ n \in 1 .. n
    BY EmptySeq
  <1>2. f = Step(f)
    <2>1. \A i \in 1 .. n : i = 1 \/ i \in 2 .. n
      OBVIOUS
    <2>2. \A i \in 1 .. n : f[i] = IF i = 1 THEN s[i] ELSE f[i - 1] \o s[i]
      BY <2>1, Zenon DEF IsFlat
    <2>3. f = [i \in 1 .. n |-> f[i]]
      BY DEF IsFlat
    <2> HIDE DEF n
    <2> QED BY <2>2, <2>3
  <1>3. flatten = Step(flatten)
    <2> HIDE DEF Step
    <2> QED BY <1>2
  <1>4. FlattenSeq(s) = flatten[n]
    BY <1>1 DEF FlattenSeq
  <1>5. \A i \in 1 .. n : flatten[i] = IF i = 1 THEN s[i] ELSE flatten[i - 1] \o s[i]
    <2> HIDE DEF flatten
    <2> QED BY <1>3
  <1> HIDE DEF flatten
  <1> DEFINE Good == {i \in 1 .. n : flatten[i] = f[i]}
  <1>6. 1 \in Good
    BY <1>1, <1>5 DEF IsFlat
  <1>7. \A i \in 2 .. n : i - 1 \in Good => i \in Good
    <2> SUFFICES ASSUME NEW i \in 2 .. n, i - 1 \in Good PROVE i \in Good
      OBVIOUS
    <2>1. i \in 1 .. n /\ i # 1
      OBVIOUS
    <2>2. flatten[i] = flatten[i - 1] \o s[i]
      BY <1>5, <2>1, Zenon
    <2>3. f[i] = f[i - 1] \o s[i]
      BY Zenon DEF IsFlat
    <2>4. flatten[i - 1] = f[i - 1]
      OBVIOUS
    <2> QED BY <2>1, <2>2, <2>3, <2>4, Zenon
  <1>8. 1 .. n \subseteq Good
    <2> HIDE DEF Good, n
    <2> QED BY <1>1, <1>6, <1>7, UpTo
  <1>9. f[n] \in Seq(Int)
    BY <1>1 DEF IsFlat
  <1> QED BY <1>1, <1>4, <1>8, <1>9

\* A message that is added goes to the end.
LEMMA FlattenAppend ==
    ASSUME NEW s \in Seq(Seq(Int)), NEW m \in Seq(Int)
    PROVE  /\ FlattenSeq(s) \in Seq(Int)
           /\ FlattenSeq(Append(s, m)) = FlattenSeq(s) \o m
  <1> DEFINE t == Append(s, m)
             n == Len(s)
  <1>1. /\ t \in Seq(Seq(Int)) /\ t # <<>> /\ Len(t) = n + 1 /\ n \in Nat
        /\ t[n + 1] = m /\ \A i \in 1 .. n : t[i] = s[i]
    BY AppendProperties
  <1> HIDE DEF t
  <1>2. CASE s = <<>>
    <2>1. FlattenSeq(s) = <<>> /\ n = 0
      BY <1>2 DEF FlattenSeq
    <2> DEFINE f == [i \in 1 .. 1 |-> m]
    <2>2. IsFlat(t, f, 1) /\ f[1] = m /\ Len(t) = 1
      BY <1>1, <2>1 DEF IsFlat
    <2>3. FlattenSeq(t) = m
      <3> HIDE DEF f
      <3> QED BY <1>1, <2>2, FlatIs
    <2> QED BY <2>1, <2>3, ConcatEmptySeq DEF t
  <1>3. CASE s # <<>>
    <2>1. PICK f : IsFlat(s, f, n)
      BY <1>3, FlatFound DEF HasFlat
    <2>2. n \in 1 .. n /\ n + 1 \in 2 .. Len(t) /\ (n + 1) - 1 = n
      BY <1>1, <1>3, EmptySeq
    <2>3. IsFlat(t, f, n)
      <3>1. \A i \in 2 .. n : i \in 1 .. n
        OBVIOUS
      <3>2. f[1] = t[1]
        <4>1. 1 \in 1 .. n
          BY <2>2
        <4> QED BY <1>1, <2>1, <4>1 DEF IsFlat
      <3>3. \A i \in 2 .. n : f[i] = f[i - 1] \o t[i]
        BY <1>1, <2>1, <3>1, Zenon DEF IsFlat
      <3> HIDE DEF n
      <3> QED BY <2>1, <3>2, <3>3 DEF IsFlat
    <2> DEFINE g == [i \in 1 .. n + 1 |-> IF i < n + 1 THEN f[i] ELSE f[n] \o t[n + 1]]
    <2>4. IsFlat(t, g, n + 1)
      BY <1>1, <2>2, <2>3, FlatGrows
    <2>5. FlattenSeq(t) = g[n + 1]
      BY <1>1, <2>4, FlatIs
    <2>6. g[n + 1] = f[n] \o m
      BY <1>1
    <2>7. FlattenSeq(s) = f[n] /\ f[n] \in Seq(Int)
      BY <1>3, <2>1, FlatIs
    <2> QED BY <2>5, <2>6, <2>7 DEF t
  <1> QED BY <1>2, <1>3

LEMMA HeardOnceNext == TypeInv /\ HeardOnce /\ [Next]_vars => HeardOnce'
  <1> SUFFICES ASSUME TypeInv, HeardOnce, [Next]_vars PROVE HeardOnce'
    OBVIOUS
  <1>1. reports \in Seq(Seq(Int)) /\ recv \in Seq(Int) /\ FlattenSeq(reports) \in Seq(Int)
    BY FlattenAppend DEF TypeInv, TypeOK
  <1>2. ASSUME NEW b \in Int, Rxc(b) PROVE HeardOnce'
    <2>1. FlattenSeq(reports) \o Append(recv, b) = Append(heard, b)
      <3>1. Append(recv, b) = recv \o <<b>> /\ Append(heard, b) = heard \o <<b>> /\ <<b>> \in Seq(Int)
        <4>1. heard \in Seq(Int)
          BY DEF TypeInv, TypeOK
        <4>2. Append(recv, b) = recv \o <<b>>
          BY <1>1, AppendIsConcat
        <4>3. Append(heard, b) = heard \o <<b>>
          BY <4>1, AppendIsConcat
        <4> QED BY <4>2, <4>3
      <3>2. FlattenSeq(reports) \o (recv \o <<b>>) = (FlattenSeq(reports) \o recv) \o <<b>>
        BY <1>1, <3>1, ConcatAssociative
      <3> QED BY <3>1, <3>2 DEF HeardOnce
    <2>2. CASE RxSendNext(b)
      BY <1>2, <2>1, <2>2 DEF Rxc, RxSendNext, HeardOnce
    <2>3. CASE RxReport(b)
      <3>1. Append(recv, b) \in Seq(Int)
        BY <1>1, AppendProperties
      <3>2. FlattenSeq(reports') = FlattenSeq(reports) \o Append(recv, b)
        BY <1>1, <2>3, <3>1, FlattenAppend DEF RxReport
      <3>3. FlattenSeq(reports') = heard' /\ heard' \in Seq(Int) /\ recv' = <<>>
        BY <1>2, <2>1, <2>3, <3>2, AppendProperties DEF Rxc, RxReport, TypeInv, TypeOK
      <3> QED BY <3>3, ConcatEmptySeq DEF HeardOnce
    <2> QED BY <1>2, <2>2, <2>3 DEF Rxc
  <1>3. CASE UNCHANGED <<recv, heard, reports>>
    BY <1>3 DEF HeardOnce
  <1>4. CASE Echo
    <2>1. Head(bus) \in Int
      BY <1>4, HeadTailType DEF Echo, TypeInv, TypeOK
    <2> QED BY <1>2, <1>4, <2>1 DEF Echo
  <1>5. ASSUME NEW b \in Replies, Reply(b) PROVE HeardOnce'
    BY <1>2, <1>5, MessageAssumption DEF Reply
  <1>6. CASE (\E m \in Messages : HostMessage(m)) \/ MainStep \/ Transmit \/ UNCHANGED vars
    BY <1>3, <1>6 DEF HostMessage, MainStep, CopyByte, SetLength, Rewind, FirstByte, CountFirst, Transmit, vars
  <1> QED BY <1>4, <1>5, <1>6 DEF Next

\* However messages replace each other and foreign bytes fall, as long as
\* recv_buff has room for the next byte, every byte heard is in one report, in its
\* place, or still in recv_buff (SCI.c:65-84).
THEOREM SciHeardOnce == Spec => []HeardOnce
  <1>1. Init => HeardOnce
    BY DEF Init, HeardOnce, FlattenSeq
  <1> QED BY <1>1, TypeInvInit, TypeInvNext, HeardOnceNext, PTL DEF Spec

-------------------------------------------------------------------------------
(***************************************************************************)
(* Coming to rest.  That the engine's steps are taken at all is fairness   *)
(* and left to TLC; here is what Settles rests on beside it: they use up a *)
(* number, however messages and foreign bytes interfere, and when nothing  *)
(* is under way, no exchange and no byte of an echo is pending.  A full    *)
(* recv_buff, where the model ends, may leave a byte under way.            *)
(***************************************************************************)

ToSend == IF InExchange THEN sendLen - sendCur ELSE 0

\* the steps of the main loop, with what the new length may add to ToSend
MainRank ==
    CASE pc = "loop" -> 0
      [] pc = "count" -> 3 * BuffSize + 1
      [] pc = "first" -> 3 * BuffSize + 4
      [] pc = "rewind" -> 3 * BuffSize + 5
      [] pc = "length" -> 6 * BuffSize + 6
      [] pc = "copy" -> 6 * BuffSize + 6 + (Len(Msg) - idx)

Rank == MainRank + 3 * ToSend + 2 * Len(line) + Len(bus)

LEMMA RankIsNumber ==
    TypeInv => /\ MainRank \in Nat /\ ToSend \in Nat /\ Len(line) \in Nat /\ Len(bus) \in Nat
               /\ Rank \in Nat
  <1> SUFFICES ASSUME TypeInv
               PROVE  /\ MainRank \in Nat /\ ToSend \in Nat /\ Len(line) \in Nat /\ Len(bus) \in Nat
                      /\ Rank \in Nat
    OBVIOUS
  <1>1. ToSend \in Nat
    BY MessageAssumption DEF ToSend, InExchange, TypeInv, TypeOK
  <1>2. MainRank \in Nat
    <2>1. pc # "loop" => Len(Msg) \in 1 .. BuffSize
      BY MsgType DEF TypeInv, TypeOK
    <2>2. pc = "copy" => Len(Msg) - idx \in Nat
      BY <2>1, MessageAssumption DEF TypeInv, TypeOK
    <2> DEFINE d == Len(Msg) - idx
    <2> HIDE DEF d
    <2>3. pc \in {"loop", "copy", "length", "rewind", "first", "count"} /\ BuffSize \in Nat
      BY MessageAssumption DEF TypeInv, TypeOK
    <2> QED BY <2>2, <2>3 DEF MainRank, d
  <1>3. Len(line) \in Nat /\ Len(bus) \in Nat
    BY LenProperties DEF TypeInv, TypeOK
  <1> QED BY <1>1, <1>2, <1>3 DEF Rank

LEMMA PutDataLength ==
    ASSUME line \in Seq(Int), NEW b, PutData(b)
    PROVE  Len(line') \in {Len(line), Len(line) + 1}
  BY AppendProperties DEF PutData

\* A byte received in an exchange costs more of what is to be sent than it adds to the line.
LEMMA RxcRunsOut ==
    ASSUME TypeInv, TypeInv', NEW b, Rxc(b)
    PROVE  3 * ToSend' + 2 * Len(line') <= 3 * ToSend + 2 * Len(line)
  <1>1. /\ ToSend \in Nat /\ ToSend' \in Nat /\ Len(line) \in Nat /\ Len(line') \in Nat
    <2>1. (TypeInv => /\ MainRank \in Nat /\ ToSend \in Nat /\ Len(line) \in Nat /\ Len(bus) \in Nat
                      /\ Rank \in Nat)'
      BY RankIsNumber, PTL
    <2> QED BY <2>1, RankIsNumber
  <1>2. CASE RxSendNext(b)
    <2>1. Len(line') \in {Len(line), Len(line) + 1}
      BY <1>2, PutDataLength DEF RxSendNext, TypeInv, TypeOK
    <2>2. sendCur \in Int /\ sendLen \in Int /\ InExchange
      BY <1>2 DEF RxSendNext, TypeInv, TypeOK
    <2>3. ToSend' = ToSend - 1
      <3>1. CASE sendCur + 1 = sendLen
        BY <1>2, <2>2, <3>1 DEF RxSendNext, ToSend, InExchange
      <3>2. CASE sendCur + 1 # sendLen
        BY <1>2, <2>2, <3>2 DEF RxSendNext, ToSend, InExchange
      <3> QED BY <3>1, <3>2
    <2> QED BY <1>1, <2>1, <2>3
  <1>3. CASE RxReport(b)
    <2>1. ToSend' = ToSend /\ Len(line') = Len(line)
      BY <1>3 DEF RxReport, ToSend, InExchange
    <2> QED BY <1>1, <2>1
  <1> QED BY <1>2, <1>3 DEF Rxc

\* Each step of the main loop makes room for what it adds.
LEMMA MainRunsOut ==
    ASSUME TypeInv, TypeInv', MainStep
    PROVE  Rank' < Rank
  <1>1. /\ ToSend \in Nat /\ ToSend' \in Nat /\ Len(line) \in Nat /\ Len(line') \in Nat
        /\ Len(bus) \in Nat /\ BuffSize \in Nat
    <2>1. (TypeInv => /\ MainRank \in Nat /\ ToSend \in Nat /\ Len(line) \in Nat /\ Len(bus) \in Nat
                      /\ Rank \in Nat)'
      BY RankIsNumber, PTL
    <2> QED BY <2>1, RankIsNumber, MessageAssumption
  <1>2. /\ sendCur \in Int /\ sendLen \in 0 .. BuffSize
        /\ sendCur' \in -1 .. BuffSize /\ sendLen' \in 0 .. BuffSize
    BY DEF TypeInv, TypeOK
  <1> DEFINE busy == 0 < sendCur' /\ sendCur' < sendLen'
  <1>10. ToSend' = IF busy THEN sendLen' - sendCur' ELSE 0
    BY DEF ToSend, InExchange
  <1>11. ToSend' \in 0 .. BuffSize
    <2>1. CASE busy
      <3>1. ToSend' = sendLen' - sendCur'
        BY <1>10, <2>1
      <3>2. \A B \in Nat : \A l \in 0 .. B, c \in -1 .. B : 0 < c /\ c < l => l - c \in 0 .. B
        OBVIOUS
      <3>3. sendLen' - sendCur' \in 0 .. BuffSize
        BY <1>1, <1>2, <2>1, <3>2, Zenon
      <3> QED BY <3>1, <3>3
    <2>2. CASE ~busy
      BY <1>1, <1>10, <2>2
    <2> QED BY <2>1, <2>2
  <1>3. CASE CopyByte
    <2>1. Len(Msg) \in 1 .. BuffSize /\ idx \in Int
      BY <1>3, MsgType DEF CopyByte, TypeInv, TypeOK
    <2>2. Msg' = Msg /\ line' = line /\ bus' = bus /\ ToSend' = ToSend /\ idx' = idx + 1
      BY <1>3 DEF CopyByte, host, Msg, ToSend, InExchange
    <2>3. MainRank = 6 * BuffSize + 6 + (Len(Msg) - idx)
      BY <1>3 DEF CopyByte, MainRank
    <2>4. MainRank' = 6 * BuffSize + 6 + (Len(Msg) - idx) - 1
      <3>1. CASE idx + 1 = Len(Msg)
        <4>1. MainRank' = 6 * BuffSize + 6
          BY <1>3, <3>1 DEF CopyByte, MainRank, Msg
        <4> QED BY <1>1, <2>1, <3>1, <4>1
      <3>2. CASE idx + 1 # Len(Msg)
        <4>1. MainRank' = 6 * BuffSize + 6 + (Len(Msg') - idx')
          BY <1>3, <3>2 DEF CopyByte, MainRank, Msg
        <4> QED BY <1>1, <2>1, <2>2, <4>1
      <3> QED BY <3>1, <3>2
    <2> HIDE DEF MainRank
    <2>5. Rank' = MainRank' + 3 * ToSend + 2 * Len(line) + Len(bus)
      BY <2>2 DEF Rank
    <2> QED BY <1>1, <2>1, <2>3, <2>4, <2>5 DEF Rank
  <1>4. CASE SetLength
    <2>1. MainRank = 6 * BuffSize + 6 /\ MainRank' = 3 * BuffSize + 5 /\ line' = line /\ bus' = bus
      BY <1>4 DEF SetLength, MainRank
    <2> QED BY <1>1, <1>11, <2>1 DEF Rank
  <1>5. CASE Rewind
    <2>1. MainRank = 3 * BuffSize + 5 /\ MainRank' = 3 * BuffSize + 4 /\ line' = line /\ bus' = bus
      BY <1>5 DEF Rewind, MainRank
    <2>2. ToSend' <= ToSend
      <3>1. CASE sendCur' = 0
        <4>1. ToSend' = 0
          BY <3>1 DEF ToSend, InExchange
        <4> QED BY <1>1, <4>1
      <3>2. CASE sendCur' = sendCur
        <4>1. ToSend' = ToSend
          BY <1>5, <3>2 DEF Rewind, ToSend, InExchange
        <4> QED BY <1>1, <4>1
      <3> QED BY <1>5, <3>1, <3>2 DEF Rewind
    <2> QED BY <1>1, <2>1, <2>2 DEF Rank
  <1>6. CASE FirstByte
    <2>1. MainRank = 3 * BuffSize + 4 /\ MainRank' = 3 * BuffSize + 1 /\ bus' = bus /\ ToSend' = ToSend
      BY <1>6 DEF FirstByte, MainRank, ToSend, InExchange
    <2>2. Len(line') \in {Len(line), Len(line) + 1}
      BY <1>6, PutDataLength DEF FirstByte, TypeInv, TypeOK
    <2> QED BY <1>1, <2>1, <2>2 DEF Rank
  <1>7. CASE CountFirst
    <2>1. MainRank = 3 * BuffSize + 1 /\ MainRank' = 0 /\ line' = line /\ bus' = bus /\ sendCur' = 1
      BY <1>7 DEF CountFirst, MainRank
    <2> QED BY <1>1, <1>11, <2>1 DEF Rank
  <1> QED BY <1>3, <1>4, <1>5, <1>6, <1>7 DEF MainStep

\* Whatever arrives when, every step but a new message of the host uses up a
\* number, and a byte of the vehicle's own never adds to it (SCI.c:47-84).
THEOREM SciStepsRunOut ==
    Spec => [][\/ \E m \in Messages : HostMessage(m)
               \/ (\E b \in Replies : Reply(b)) /\ Rank' <= Rank
               \/ Rank \in Nat /\ Rank' < Rank]_vars
  <1>1. ASSUME TypeInv, TypeInv', [Next]_vars, ~(\E m \in Messages : HostMessage(m)), ~(UNCHANGED vars)
        PROVE  \/ (\E b \in Replies : Reply(b)) /\ Rank' <= Rank
               \/ Rank \in Nat /\ Rank' < Rank
    <2>1. /\ MainRank \in Nat /\ ToSend \in Nat /\ Len(line) \in Nat /\ Len(bus) \in Nat /\ Rank \in Nat
          /\ ToSend' \in Nat /\ Len(line') \in Nat /\ Len(bus') \in Nat
      <3>1. (TypeInv => /\ MainRank \in Nat /\ ToSend \in Nat /\ Len(line) \in Nat /\ Len(bus) \in Nat
                        /\ Rank \in Nat)'
        BY RankIsNumber, PTL
      <3> QED BY <1>1, <3>1, RankIsNumber
    <2>2. CASE MainStep
      BY <1>1, <2>1, <2>2, MainRunsOut
    <2>3. CASE Transmit
      <3>1. Len(line') = Len(line) - 1 /\ Len(bus') = Len(bus) + 1
        BY <1>1, <2>3, HeadTailProperties, AppendProperties DEF Transmit, TypeInv, TypeOK
      <3>2. MainRank' = MainRank /\ ToSend' = ToSend
        BY <2>3 DEF Transmit, host, engine, MainRank, Msg, ToSend, InExchange
      <3> QED BY <2>1, <3>1, <3>2 DEF Rank
    <2>4. ASSUME NEW b, Rxc(b) PROVE MainRank' = MainRank
      BY <2>4 DEF Rxc, host, MainRank, Msg
    <2>5. CASE Echo
      <3>1. Len(bus') = Len(bus) - 1 /\ MainRank' = MainRank
        BY <1>1, <2>4, <2>5, HeadTailProperties DEF Echo, TypeInv, TypeOK
      <3>2. 3 * ToSend' + 2 * Len(line') <= 3 * ToSend + 2 * Len(line)
        BY <1>1, <2>5, RxcRunsOut DEF Echo
      <3>3. Rank' < Rank
        BY <2>1, <3>1, <3>2, SMTT(30) DEF Rank
      <3> QED BY <2>1, <3>3
    <2>6. ASSUME NEW b \in Replies, Reply(b) PROVE Rank' <= Rank
      <3>1. bus' = bus /\ MainRank' = MainRank
        BY <2>4, <2>6 DEF Reply
      <3>2. 3 * ToSend' + 2 * Len(line') <= 3 * ToSend + 2 * Len(line)
        BY <1>1, <2>6, RxcRunsOut DEF Reply
      <3> QED BY <2>1, <3>1, <3>2 DEF Rank
    <2> QED BY <1>1, <2>1, <2>2, <2>3, <2>5, <2>6 DEF Next
  <1>2. TypeInv /\ TypeInv' /\ [Next]_vars
        => [\/ \E m \in Messages : HostMessage(m)
            \/ (\E b \in Replies : Reply(b)) /\ Rank' <= Rank
            \/ Rank \in Nat /\ Rank' < Rank]_vars
    BY <1>1
  <1> QED BY <1>2, TypeInvInit, TypeInvNext, PTL DEF Spec

\* What is pending has a byte under way that will bring it on.  While the main
\* loop has not written the first byte, an old index and the new length may
\* look like an exchange.
Pending ==
    /\ pc = "count" => line # <<>>
    /\ recv # <<>> \/ (InExchange /\ pc \notin {"rewind", "first"}) => line # <<>> \/ bus # <<>>

LEMMA PutDataFills ==
    ASSUME line \in Seq(Int), NEW b, PutData(b)
    PROVE  line' # <<>>
  BY AppendProperties, EmptySeq DEF PutData

LEMMA PendingNext == TypeInv /\ Pending /\ [Next]_vars => Pending'
  <1> SUFFICES ASSUME TypeInv, Pending, [Next]_vars PROVE Pending'
    OBVIOUS
  <1>1. line \in Seq(Int) /\ bus \in Seq(Int)
    BY DEF TypeInv, TypeOK
  <1>2. ASSUME NEW m \in Messages, HostMessage(m) PROVE Pending'
    BY <1>2 DEF HostMessage, Pending, InExchange
  <1>3. CASE CopyByte \/ SetLength \/ Rewind
    BY <1>3 DEF CopyByte, SetLength, Rewind, Pending, InExchange
  <1>4. CASE FirstByte
    <2>1. line' # <<>>
      BY <1>1, <1>4, PutDataFills DEF FirstByte
    <2> QED BY <2>1 DEF Pending
  <1>5. CASE CountFirst
    BY <1>5 DEF CountFirst, Pending
  <1>6. CASE Transmit
    <2>1. bus' # <<>>
      BY <1>1, <1>6, AppendProperties, EmptySeq DEF Transmit
    <2>2. pc = "count" => Tail(line) # <<>>
      <3> SUFFICES ASSUME pc = "count", Tail(line) = <<>> PROVE FALSE
        OBVIOUS
      <3>1. Len(Tail(line)) = 1
        BY <1>1, <1>6, HeadTailProperties DEF Transmit
      <3>2. Len(Tail(line)) = 0
        BY EmptySeq, Zenon
      <3> QED BY <3>1, <3>2
    <2> QED BY <1>6, <2>1, <2>2 DEF Transmit, Pending, engine
  <1>7. ASSUME NEW b, Rxc(b) PROVE line' # <<>> \/ (line' = line /\ recv' = <<>> /\ ~InExchange')
    <2>1. CASE RxSendNext(b)
      BY <1>1, <2>1, PutDataFills DEF RxSendNext
    <2>2. CASE RxReport(b)
      BY <2>2 DEF RxReport, InExchange
    <2> QED BY <1>7, <2>1, <2>2 DEF Rxc
  <1>8. CASE Echo \/ \E b \in Replies : Reply(b)
    <2>1. pc' = pc /\ \E b : Rxc(b)
      BY <1>8 DEF Echo, Reply, Rxc
    <2> QED BY <1>7, <2>1 DEF Pending
  <1>9. CASE UNCHANGED vars
    BY <1>9 DEF vars, engine, Pending, InExchange
  <1> QED BY <1>2, <1>3, <1>4, <1>5, <1>6, <1>8, <1>9 DEF Next, MainStep

\* nothing is left for the main loop, the UART and the bus to do
Resting == pc = "loop" /\ line = <<>> /\ bus = <<>>

\* When nothing is under way, no exchange waits for an echo and no byte is left
\* in recv_buff, even if the UART ignored a byte or a message replaced another in
\* mid-exchange (SCI.c:47-84).
THEOREM SciRestsSettled == Spec => [](Resting => ~InExchange /\ recv = <<>>)
  <1>1. Init => Pending
    BY DEF Init, Pending, InExchange
  <1>2. Pending => (Resting => ~InExchange /\ recv = <<>>)
    BY DEF Pending, Resting
  <1> QED BY <1>1, <1>2, TypeInvInit, TypeInvNext, PendingNext, PTL DEF Spec
===============================================================================
