----------------------------- MODULE BtRingProofs -----------------------------
(***************************************************************************)
(* Theorems about BtRing and BtLink for every ring size, payload and       *)
(* protocol.                                                               *)
(***************************************************************************)
EXTENDS BtLink, SequenceTheorems, TLAPS

\* Only protocol handlers produce, and nothing holds them back; the ring has
\* room for the longest payload, for the frame bytes that the test leaves out,
\* and for the reports without a payload that may be ahead of the UART.
ReportsOnly ==
    /\ Codes = {} /\ ~Paced
    /\ Size >= MaxLen + MaxBare + 48

LEMMA AdvanceType ==
    ASSUME NEW p \in Cell, NEW n \in 0 .. Size
    PROVE  Advance(p, n) \in Cell
  BY SizeAssumption DEF Advance, Cell

LEMMA LiveType == TypeOK => Live \in 0 .. Size
  BY SizeAssumption DEF TypeOK, Live, Offset, Cell

LEMMA WriteType ==
    ASSUME TypeOK, NEW f \in Seq(Byte), NEW skip, Len(f) \in 0 .. Size, Write(f, skip)
    PROVE  ring' \in [Cell -> Byte] /\ last' \in Cell
  <1>1. ASSUME NEW k \in Cell
        PROVE  (IF Offset(last, k) + 1 \in DOMAIN f \ skip
                  THEN f[Offset(last, k) + 1] ELSE ring[k]) \in Byte
    BY DEF TypeOK
  <1>2. ring' \in [Cell -> Byte]
    BY <1>1 DEF Write
  <1>3. last' \in Cell
    BY AdvanceType DEF Write, TypeOK
  <1> QED BY <1>2, <1>3

LEMMA FrameTypes ==
    /\ \A c \in Codes : CmdFrame(c) \in Seq(Byte) /\ Len(CmdFrame(c)) = 5
    /\ \A m \in Payloads, p \in Protocols :
         RxFrame(m, p) \in Seq(Byte) /\ Len(RxFrame(m, p)) = Len(m) + 6
  <1>1. ASSUME NEW c \in Codes
        PROVE  CmdFrame(c) \in Seq(Byte) /\ Len(CmdFrame(c)) = 5
    BY ByteAssumption DEF CmdFrame
  <1>2. ASSUME NEW m \in Payloads, NEW p \in Protocols
        PROVE  RxFrame(m, p) \in Seq(Byte) /\ Len(RxFrame(m, p)) = Len(m) + 6
    <2> DEFINE head == <<43, 66, 128, p, 0>>
               tail == <<10>>
    <2>1. head \in Seq(Byte) /\ Len(head) = 5
      BY ByteAssumption
    <2>2. tail \in Seq(Byte) /\ Len(tail) = 1
      BY ByteAssumption
    <2>3. m \in Seq(Byte) /\ Len(m) \in Nat
      BY PayloadAssumption
    <2> HIDE DEF head, tail
    <2>4. head \o m \in Seq(Byte) /\ Len(head \o m) = 5 + Len(m)
      <3>1. head \o m \in Seq(Byte) /\ Len(head \o m) = Len(head) + Len(m)
        BY <2>1, <2>3, ConcatProperties, Zenon
      <3> QED BY <2>1, <3>1
    <2>5. (head \o m) \o tail \in Seq(Byte) /\ Len((head \o m) \o tail) = Len(m) + 6
      <3>1. /\ (head \o m) \o tail \in Seq(Byte)
            /\ Len((head \o m) \o tail) = Len(head \o m) + Len(tail)
        BY <2>2, <2>4, ConcatProperties, Zenon
      <3> QED BY <2>2, <2>3, <2>4, <3>1
    <2> QED BY <2>5 DEF RxFrame, head, tail
  <1> QED BY <1>1, <1>2

LEMMA WrapType ==
    ASSUME NEW n \in (0 - Word) .. (2 * Word - 1)
    PROVE  Wrap(n) \in 0 .. Word - 1
  BY SizeAssumption DEF Wrap

LEMMA TypeRx ==
    ASSUME TypeOK, NEW m \in Payloads, NEW p \in Protocols, QueueRx(m, p)
    PROVE  TypeOK'
  <1>1. Len(m) \in 0 .. MaxLen
    BY PayloadAssumption
  <1>2. ring' \in [Cell -> Byte] /\ last' \in Cell
    <2>1. RxFrame(m, p) \in Seq(Byte) /\ Len(RxFrame(m, p)) \in 0 .. Size
      BY <1>1, FrameTypes, SizeAssumption
    <2>2. Write(RxFrame(m, p), {5})
      BY DEF QueueRx
    <2> QED BY <2>1, <2>2, WriteType
  <1>3. begin' \in Cell
    BY DEF QueueRx, TypeOK
  <1>4. fill' \in 0 .. Word - 1
    BY <1>1, WrapType, SizeAssumption DEF QueueRx, TypeOK
  <1>5. bare' \in Nat
    BY DEF QueueRx, CountBare, TypeOK
  <1> QED BY <1>2, <1>3, <1>4, <1>5 DEF TypeOK

\* Type correctness of the ring: pointers stay within the array and the one
\* cell behind it, and the counter is a word whatever it counts (main.c:47-50).
THEOREM TypeCorrect == Spec => []TypeOK
  <1>1. Init => TypeOK
    BY SizeAssumption, ByteAssumption DEF Init, TypeOK, Cell
  <1>2. TypeOK /\ [Next]_vars => TypeOK'
    <2> SUFFICES ASSUME TypeOK, [Next]_vars PROVE TypeOK'
      OBVIOUS
    <2>1. ASSUME NEW c \in Codes, QueueCmd(c) PROVE TypeOK'
      <3>1. ring' \in [Cell -> Byte] /\ last' \in Cell
        <4>1. CmdFrame(c) \in Seq(Byte) /\ Len(CmdFrame(c)) \in 0 .. Size
          <5>1. CmdFrame(c) \in Seq(Byte) /\ Len(CmdFrame(c)) = 5
            BY <2>1, FrameTypes, Zenon
          <5>2. 5 \in 0 .. Size
            BY SizeAssumption
          <5> QED BY <5>1, <5>2
        <4>2. Write(CmdFrame(c), {})
          BY <2>1 DEF QueueCmd
        <4> QED BY <4>1, <4>2, WriteType
      <3>2. begin' \in Cell /\ fill' \in 0 .. Word - 1 /\ bare' \in Nat
        BY <2>1, SizeAssumption DEF QueueCmd, TypeOK
      <3> QED BY <3>1, <3>2 DEF TypeOK
    <2>2. ASSUME NEW m \in Payloads, NEW p \in Protocols, QueueRx(m, p) PROVE TypeOK'
      BY <2>2, TypeRx
    <2>3. CASE Drain
      <3>1. begin' \in Cell
        BY <2>3, SizeAssumption DEF Drain, TypeOK, GetNext, Cell
      <3>2. fill' \in 0 .. Word - 1
        BY <2>3, WrapType, SizeAssumption DEF Drain, TypeOK
      <3> QED BY <2>3, <3>1, <3>2 DEF Drain, TypeOK
    <2>4. ASSUME NEW b \in Foreign, ForeignWrite(b) PROVE TypeOK'
      BY <2>4, ByteAssumption DEF ForeignWrite, TypeOK
    <2>5. CASE UNCHANGED vars
      BY <2>5 DEF vars, TypeOK
    <2> QED BY <2>1, <2>2, <2>3, <2>4, <2>5 DEF Next
  <1> QED BY <1>1, <1>2, PTL DEF Spec

\* With reports only, the counter and the bytes of reports without a payload
\* together stay ahead of the backlog, and the counter far from the end of its
\* word, so the comparison in bt_queue_rx never meets a wrapped sum.
RingInv ==
    /\ TypeOK
    /\ FillCoversLive
    /\ Live <= fill /\ fill <= Size + MaxLen + 6
    /\ bare <= MaxBare

LEMMA RingInvSound == RingInv /\ ReportsOnly => CheckIsSound
  <1> SUFFICES ASSUME RingInv, ReportsOnly, NEW m \in Payloads, ~Overflows(Len(m))
               PROVE  Live + Len(m) + 6 <= Size
    BY DEF CheckIsSound
  <1>1. Len(m) \in 0 .. MaxLen
    BY PayloadAssumption
  <1>2. fill + Len(m) <= Size
    BY <1>1, SizeAssumption DEF RingInv, TypeOK, Overflows, Wrap
  <1> QED BY <1>1, <1>2, LiveType, SizeAssumption
          DEF RingInv, TypeOK, FillCoversLive, ReportsOnly

LEMMA RingInvInit == Init => RingInv
  BY SizeAssumption, ByteAssumption
  DEF Init, RingInv, TypeOK, FillCoversLive, Live, Offset, Cell

LEMMA RingInvQueueRx ==
    ASSUME RingInv, TypeOK', ReportsOnly,
           NEW m \in Payloads, NEW p \in Protocols, QueueRx(m, p)
    PROVE  RingInv'
  <1> DEFINE own == IF m = <<>> THEN 6 ELSE 0
  <1>1. Len(m) \in 0 .. MaxLen /\ own \in {0, 6} /\ (Len(m) = 0 => own = 6)
    BY PayloadAssumption, EmptySeq
  <1>2. last' = Advance(last, Len(m) + 6)
    BY FrameTypes DEF QueueRx, Write
  <1>3. fill + Len(m) \in 0 .. Word - 1
    BY <1>1, SizeAssumption DEF RingInv, TypeOK
  <1>4. bare' <= MaxBare /\ bare' = (IF Overflows(Len(m)) THEN 0 ELSE bare) + own
    BY DEF QueueRx, CountBare, ReportsOnly
  <1> HIDE DEF own
  <1>5. CASE Overflows(Len(m))
    <2>1. begin' = last /\ fill' = 2 * Len(m) + 6
      BY <1>1, <1>5, SizeAssumption DEF QueueRx, Wrap
    <2>2. Live' = Len(m) + 6
      BY <1>1, <1>2, <2>1, SizeAssumption DEF RingInv, TypeOK, Live, Offset, Advance, Cell
    <2>3. bare' = own
      BY <1>1, <1>4, <1>5
    <2> QED BY <1>1, <1>4, <2>1, <2>2, <2>3, SizeAssumption
            DEF RingInv, FillCoversLive, ReportsOnly
  <1>6. CASE ~Overflows(Len(m))
    <2>1. fill + Len(m) <= Size
      BY <1>1, <1>3, <1>6, SizeAssumption DEF Overflows, Wrap
    <2>2. Live + Len(m) + 6 <= Size
      BY <1>6, RingInvSound DEF CheckIsSound
    <2>3. begin' = begin /\ fill' = fill + 2 * Len(m) + 6
      BY <1>1, <1>6, <2>1, SizeAssumption DEF QueueRx, Wrap, RingInv, TypeOK
    <2>4. Live' = Live + Len(m) + 6
      BY <1>1, <1>2, <2>2, <2>3, SizeAssumption
      DEF RingInv, TypeOK, Live, Offset, Advance, Cell
    <2>5. fill \in Nat /\ Live \in Nat /\ bare \in Nat /\ bare' = bare + own
      BY <1>4, <1>6, LiveType, SizeAssumption DEF RingInv, TypeOK
    <2>6. 8 * Live' <= 7 * fill' + bare' /\ Live' <= fill'
      BY <1>1, <2>3, <2>4, <2>5 DEF RingInv, FillCoversLive
    <2>7. fill' <= Size + MaxLen + 6
      BY <1>1, <2>1, <2>3, <2>5, SizeAssumption
    <2> QED BY <1>4, <2>6, <2>7 DEF RingInv, FillCoversLive
  <1> QED BY <1>5, <1>6

LEMMA RingInvDrain == ASSUME RingInv, TypeOK', Drain PROVE RingInv'
  <1>1. Live \in 1 .. Size /\ Live' = Live - 1
    BY SizeAssumption DEF Drain, RingInv, TypeOK, Live, Offset, GetNext, Cell
  <1>2. fill \in Nat /\ fill' = fill - 1
    BY <1>1, SizeAssumption DEF Drain, Wrap, RingInv, TypeOK
  <1>3. bare \in Nat /\ bare' = IF bare = 0 THEN 0 ELSE bare - 1
    BY DEF Drain, RingInv, TypeOK
  <1> QED BY <1>1, <1>2, <1>3, SizeAssumption DEF RingInv, FillCoversLive

LEMMA RingInvStep == RingInv /\ TypeOK' /\ ReportsOnly /\ [Next]_vars => RingInv'
  <1> SUFFICES ASSUME RingInv, TypeOK', ReportsOnly, [Next]_vars PROVE RingInv'
    OBVIOUS
  <1>1. ASSUME NEW c \in Codes PROVE FALSE
    BY <1>1 DEF ReportsOnly
  <1>2. ASSUME NEW m \in Payloads, NEW p \in Protocols, QueueRx(m, p) PROVE RingInv'
    BY <1>2, RingInvQueueRx
  <1>3. CASE Drain
    BY <1>3, RingInvDrain
  <1>4. ASSUME NEW b \in Foreign, ForeignWrite(b) PROVE RingInv'
    BY <1>4 DEF ForeignWrite, RingInv, FillCoversLive, Live
  <1>5. CASE UNCHANGED vars
    BY <1>5 DEF vars, RingInv, FillCoversLive, Live
  <1> QED BY <1>1, <1>2, <1>3, <1>4, <1>5 DEF Next

\* With reports only, the counter together with the reports that have no
\* payload bounds the backlog from above (main.c:229-249, CCD.c:102-105).
THEOREM FillBoundsBacklog == ReportsOnly => (Spec => []FillCoversLive)
  <1> SUFFICES ASSUME ReportsOnly PROVE Spec => []FillCoversLive
    OBVIOUS
  <1>1. RingInv /\ TypeOK' /\ [Next]_vars => RingInv'
    BY RingInvStep
  <1>2. RingInv => FillCoversLive
    BY DEF RingInv
  <1> QED BY <1>1, <1>2, RingInvInit, TypeCorrect, PTL DEF Spec

\* With reports only, a frame that passes the test of bt_queue_rx never runs
\* into bytes that are still to be sent, as long as the reports without a
\* payload that are ahead of the UART take no more than the ring has beyond the
\* longest payload and 48 bytes: 721 of the firmware's 1024 bytes, which is 120
\* such reports.
THEOREM ReportsNeverOverrun == ReportsOnly => (Spec => []CheckIsSound)
  <1> SUFFICES ASSUME ReportsOnly PROVE Spec => []CheckIsSound
    OBVIOUS
  <1>1. RingInv /\ TypeOK' /\ [Next]_vars => RingInv'
    BY RingInvStep
  <1>2. RingInv => CheckIsSound
    BY RingInvSound
  <1> QED BY <1>1, <1>2, RingInvInit, TypeCorrect, PTL DEF Spec
-------------------------------------------------------------------------------
(***************************************************************************)
(* The ring as a queue.                                                    *)
(***************************************************************************)

\* what an operation that writes n bytes leaves in the cells behind last
Stored(n) == [i \in 1 .. n |-> ring'[Advance(last, i - 1)]]

LEMMA OffsetOfAdvance ==
    ASSUME NEW p \in Cell, NEW n \in 0 .. Size
    PROVE  Offset(p, Advance(p, n)) = n
  BY SizeAssumption DEF Offset, Advance, Cell

LEMMA AdvanceAdvance ==
    ASSUME NEW p \in Cell, NEW n \in Nat, NEW k \in Nat, n + k <= Size
    PROVE  Advance(Advance(p, n), k) = Advance(p, n + k)
  BY SizeAssumption DEF Advance, Cell

LEMMA AdvanceLive == TypeOK => Advance(begin, Live) = last
  BY SizeAssumption DEF TypeOK, Advance, Live, Offset, Cell

BacklogRead ==
    /\ Backlog \in Seq(Byte) /\ Len(Backlog) = Live
    /\ \A i \in 1 .. Live : Backlog[i] = ring[Advance(begin, i - 1)]

LEMMA BacklogIs == TypeOK => BacklogRead
  <1> SUFFICES ASSUME TypeOK PROVE BacklogRead
    OBVIOUS
  <1>1. Live \in 0 .. Size /\ Live \in Nat
    BY LiveType, SizeAssumption
  <1>2. ASSUME NEW i \in 1 .. Live PROVE ring[Advance(begin, i - 1)] \in Byte
    BY <1>1, AdvanceType, SizeAssumption DEF TypeOK
  <1> QED BY <1>1, <1>2 DEF Backlog, BacklogRead

LEMMA StoredIs ==
    ASSUME TypeOK, TypeOK', NEW n \in 0 .. Size + 1
    PROVE  /\ Stored(n) \in Seq(Byte) /\ Len(Stored(n)) = n
           /\ \A i \in 1 .. n : Stored(n)[i] = ring'[Advance(last, i - 1)]
  <1>1. ASSUME NEW i \in 1 .. n PROVE ring'[Advance(last, i - 1)] \in Byte
    BY AdvanceType, SizeAssumption DEF TypeOK
  <1> QED BY <1>1, SizeAssumption DEF Stored

\* The bytes of the frame, in the cells behind last, and nothing else changes.
LEMMA WriteCells ==
    ASSUME TypeOK, NEW f \in Seq(Byte), NEW skip, Len(f) \in 0 .. Size, Write(f, skip)
    PROVE  /\ \A i \in 1 .. Len(f) :
                ring'[Advance(last, i - 1)] =
                  IF i \in skip THEN ring[Advance(last, i - 1)] ELSE f[i]
           /\ \A k \in Cell : Offset(last, k) >= Len(f) => ring'[k] = ring[k]
  <1>1. last \in Cell
    BY DEF TypeOK
  <1>2. DOMAIN f = 1 .. Len(f)
    OBVIOUS
  <1>3. ASSUME NEW i \in 1 .. Len(f)
        PROVE  ring'[Advance(last, i - 1)] =
                 IF i \in skip THEN ring[Advance(last, i - 1)] ELSE f[i]
    <2>1. i - 1 \in 0 .. Size /\ (i - 1) + 1 = i
      BY SizeAssumption
    <2>2. Advance(last, i - 1) \in Cell /\ Offset(last, Advance(last, i - 1)) = i - 1
      BY <1>1, <2>1, AdvanceType, OffsetOfAdvance
    <2> QED BY <1>2, <2>1, <2>2 DEF Write
  <1>4. ASSUME NEW k \in Cell, Offset(last, k) >= Len(f)
        PROVE  ring'[k] = ring[k]
    <2>1. Offset(last, k) + 1 \notin DOMAIN f
      BY <1>1, <1>2, <1>4, SizeAssumption DEF Offset, Cell
    <2> QED BY <2>1 DEF Write
  <1> QED BY <1>3, <1>4

\* A frame that fits behind the backlog extends it.
LEMMA WriteExtends ==
    ASSUME TypeOK, TypeOK', NEW f \in Seq(Byte), NEW skip, Write(f, skip),
           begin' = begin, Live + Len(f) <= Size
    PROVE  Live' = Live + Len(f) /\ Backlog' = Backlog \o Stored(Len(f))
  <1> DEFINE n == Len(f)
             G == Stored(n)
  <1>1. Live \in 0 .. Size /\ n \in 0 .. Size /\ Live + n <= Size /\ Size \in Nat
    BY LiveType, SizeAssumption
  <1>2. begin \in Cell /\ last \in Cell /\ last' = Advance(last, n)
    BY DEF TypeOK, Write
  <1>3. last = Advance(begin, Live)
    BY AdvanceLive
  <1>4. last' = Advance(begin, Live + n)
    BY <1>1, <1>2, <1>3, AdvanceAdvance
  <1>5. Live' = Live + n
    <2>1. Live + n \in 0 .. Size
      BY <1>1, SizeAssumption
    <2>2. Offset(begin, Advance(begin, Live + n)) = Live + n
      BY <1>2, <2>1, OffsetOfAdvance
    <2> QED BY <1>4, <2>2 DEF Live
  <1>6. Backlog' \in Seq(Byte) /\ Len(Backlog') = Live + n
        /\ \A i \in 1 .. Live + n : Backlog'[i] = ring'[Advance(begin, i - 1)]
    <2>1. BacklogRead'
      BY BacklogIs, PTL
    <2> QED BY <1>5, <2>1 DEF BacklogRead
  <1>7. G \in Seq(Byte) /\ Len(G) = n /\ \A i \in 1 .. n : G[i] = ring'[Advance(last, i - 1)]
    <2>1. n \in 0 .. Size + 1
      BY <1>1, SizeAssumption
    <2> QED BY <2>1, StoredIs, Zenon
  <1>8. Backlog \in Seq(Byte) /\ Len(Backlog) = Live
        /\ \A i \in 1 .. Live : Backlog[i] = ring[Advance(begin, i - 1)]
    BY BacklogIs DEF BacklogRead
  <1>9. /\ Backlog \o G \in Seq(Byte) /\ Len(Backlog \o G) = Live + n
        /\ \A i \in 1 .. Live + n :
             (Backlog \o G)[i] = IF i <= Live THEN Backlog[i] ELSE G[i - Live]
    <2> HIDE DEF G, n
    <2>1. /\ Backlog \o G \in Seq(Byte) /\ Len(Backlog \o G) = Len(Backlog) + Len(G)
          /\ \A i \in 1 .. Len(Backlog) + Len(G) :
               (Backlog \o G)[i] = IF i <= Len(Backlog) THEN Backlog[i]
                                                      ELSE G[i - Len(Backlog)]
      BY <1>7, <1>8, ConcatProperties, Zenon
    <2> QED BY <1>7, <1>8, <2>1
  <1>10. ASSUME NEW i \in 1 .. Live + n
         PROVE  Backlog'[i] = (Backlog \o G)[i]
    <2> HIDE DEF G, n
    <2>0. i <= Live \/ i > Live
      BY <1>1
    <2>1. CASE i <= Live
      <3>1. i - 1 \in 0 .. Size /\ i \in 1 .. Live
        BY <1>1, <2>1, SizeAssumption
      <3>2. Advance(begin, i - 1) \in Cell
        BY <1>2, <3>1, AdvanceType
      <3>3. Offset(last, Advance(begin, i - 1)) >= n
        BY <1>1, <1>2, <1>3, <2>1, SizeAssumption DEF Offset, Advance, Cell
      <3>4. ring'[Advance(begin, i - 1)] = ring[Advance(begin, i - 1)]
        BY <1>1, <3>2, <3>3, WriteCells DEF n
      <3> QED BY <1>6, <1>8, <1>9, <2>1, <3>1, <3>4
    <2>2. CASE i > Live
      <3>1. /\ i - Live \in 1 .. n /\ i - Live - 1 \in Nat
            /\ Live + (i - Live - 1) = i - 1 /\ i - 1 <= Size
        BY <1>1, <2>2, SizeAssumption
      <3>2. Advance(last, i - Live - 1) = Advance(begin, i - 1)
        BY <1>1, <1>2, <1>3, <3>1, AdvanceAdvance
      <3>3. Backlog'[i] = ring'[Advance(begin, i - 1)]
        BY <1>6
      <3>4. (Backlog \o G)[i] = G[i - Live]
        BY <1>1, <1>9, <2>2
      <3>5. G[i - Live] = ring'[Advance(last, i - Live - 1)]
        BY <1>7, <3>1
      <3> QED BY <3>2, <3>3, <3>4, <3>5
    <2> QED BY <2>0, <2>1, <2>2, Zenon
  <1>11. Backlog' = Backlog \o G
    BY <1>6, <1>9, <1>10, SeqEqual
  <1> QED BY <1>5, <1>11

\* A frame before which the backlog is thrown away is all of the new one.
LEMMA WriteReplaces ==
    ASSUME TypeOK, TypeOK', NEW f \in Seq(Byte), NEW skip, Write(f, skip),
           begin' = last, Len(f) \in 0 .. Size
    PROVE  Live' = Len(f) /\ Backlog' = Stored(Len(f))
  <1>1. last \in Cell /\ last' = Advance(last, Len(f))
    BY DEF TypeOK, Write
  <1>2. Live' = Len(f)
    BY <1>1, OffsetOfAdvance DEF Live
  <1>3. Backlog' = Stored(Len(f))
    BY <1>2 DEF Backlog, Stored
  <1> QED BY <1>2, <1>3
\* The frame of bt_queue_rx, with the byte that is skipped, place by place.
LEMMA RxFrameAt ==
    ASSUME NEW m \in Payloads, NEW p \in Protocols, NEW b \in Byte
    PROVE  /\ Queue!RxFrame(m, p, b) \in Seq(Byte)
           /\ Len(Queue!RxFrame(m, p, b)) = Len(m) + 6
           /\ Queue!RxFrame(m, p, b)[5] = b
           /\ \A i \in 1 .. Len(m) + 6 :
                i # 5 => Queue!RxFrame(m, p, b)[i] = RxFrame(m, p)[i]
  <1> DEFINE head(s) == <<43, 66, 128, p, s>>
             tail == <<10>>
             f(s) == (head(s) \o m) \o tail
  <1>1. m \in Seq(Byte) /\ Len(m) \in Nat
    BY PayloadAssumption
  <1>2. tail \in Seq(Byte) /\ Len(tail) = 1
    BY ByteAssumption
  <1>3. ASSUME NEW s \in Byte
        PROVE  /\ f(s) \in Seq(Byte) /\ Len(f(s)) = Len(m) + 6
               /\ \A i \in 1 .. Len(m) + 6 :
                    f(s)[i] = IF i <= 5 THEN head(s)[i]
                              ELSE IF i <= Len(m) + 5 THEN m[i - 5] ELSE tail[i - Len(m) - 5]
    <2>1. head(s) \in Seq(Byte) /\ Len(head(s)) = 5
      BY ByteAssumption
    <2> HIDE DEF head, tail
    <2>2. /\ head(s) \o m \in Seq(Byte) /\ Len(head(s) \o m) = Len(head(s)) + Len(m)
          /\ \A i \in 1 .. Len(head(s)) + Len(m) :
               (head(s) \o m)[i] = IF i <= Len(head(s)) THEN head(s)[i]
                                                       ELSE m[i - Len(head(s))]
      BY <1>1, <2>1, ConcatProperties, Zenon
    <2> DEFINE h == head(s) \o m
    <2>3. h \in Seq(Byte) /\ Len(h) = Len(m) + 5 /\ f(s) = h \o tail
      BY <1>1, <2>1, <2>2
    <2>4. /\ f(s) \in Seq(Byte) /\ Len(f(s)) = Len(h) + Len(tail)
          /\ \A i \in 1 .. Len(h) + Len(tail) :
               f(s)[i] = IF i <= Len(h) THEN h[i] ELSE tail[i - Len(h)]
      <3> HIDE DEF h, f
      <3> QED BY <1>2, <2>3, ConcatProperties, SMTT(60)
    <2> HIDE DEF f
    <2>5. ASSUME NEW i \in 1 .. Len(m) + 6
          PROVE  f(s)[i] = IF i <= 5 THEN head(s)[i]
                           ELSE IF i <= Len(m) + 5 THEN m[i - 5] ELSE tail[i - Len(m) - 5]
      <3>1. f(s)[i] = IF i <= Len(m) + 5 THEN h[i] ELSE tail[i - (Len(m) + 5)]
        BY <1>1, <1>2, <2>3, <2>4
      <3>2. i <= Len(m) + 5 => h[i] = IF i <= 5 THEN head(s)[i] ELSE m[i - 5]
        BY <1>1, <2>1, <2>2
      <3>3. i - (Len(m) + 5) = i - Len(m) - 5
        BY <1>1
      <3> HIDE DEF h
      <3> QED BY <1>1, <3>1, <3>2, <3>3
    <2>6. Len(f(s)) = Len(m) + 6
      BY <1>1, <1>2, <2>3, <2>4
    <2> HIDE DEF h
    <2> QED BY <2>4, <2>5, <2>6
  <1>4. ASSUME NEW s \in Byte PROVE Queue!RxFrame(m, p, s) = f(s)
    BY DEF Queue!RxFrame
  <1>5. 0 \in Byte /\ RxFrame(m, p) = f(0)
    BY ByteAssumption DEF RxFrame
  <1>6. head(b)[5] = b /\ \A i \in 1 .. 4 : head(b)[i] = head(0)[i]
    OBVIOUS
  <1> HIDE DEF f, head, tail
  <1>7. f(b)[5] = b
    <2>1. 5 \in 1 .. Len(m) + 6 /\ 5 <= 5
      BY <1>1
    <2>2. f(b)[5] = head(b)[5]
      BY <1>3, <2>1
    <2> QED BY <1>6, <2>2
  <1>8. ASSUME NEW i \in 1 .. Len(m) + 6, i # 5 PROVE f(b)[i] = f(0)[i]
    <2>1. CASE i <= 5
      <3>1. i \in 1 .. 4
        BY <1>1, <1>8, <2>1
      <3> QED BY <1>3, <1>5, <1>6, <2>1, <3>1, SMTT(60)
    <2>2. CASE ~(i <= 5)
      BY <1>3, <1>5, <2>2
    <2> QED BY <2>1, <2>2
  <1> QED BY <1>3, <1>4, <1>5, <1>7, <1>8

\* What bt_queue_rx leaves in the ring is a frame of the abstract queue.
LEMMA StoredRx ==
    ASSUME TypeOK, TypeOK', NEW m \in Payloads, NEW p \in Protocols, QueueRx(m, p)
    PROVE  Stored(Len(m) + 6) \in Queue!Frames
  <1> DEFINE n == Len(m) + 6
             b == ring[Advance(last, 4)]
             f == Queue!RxFrame(m, p, b)
             g == RxFrame(m, p)
  <1>1. n \in 6 .. Size /\ n \in 0 .. Size + 1
    BY PayloadAssumption, SizeAssumption
  <1>2. b \in Byte
    BY <1>1, AdvanceType, SizeAssumption DEF TypeOK
  <1>3. /\ f \in Seq(Byte) /\ Len(f) = n /\ f[5] = b
        /\ \A i \in 1 .. n : i # 5 => f[i] = g[i]
    BY <1>2, RxFrameAt
  <1>4. g \in Seq(Byte) /\ Len(g) = n /\ Write(g, {5})
    BY FrameTypes DEF QueueRx
  <1> HIDE DEF n, f, g, b
  <1>5. Stored(n) \in Seq(Byte) /\ Len(Stored(n)) = n
        /\ \A i \in 1 .. n : Stored(n)[i] = ring'[Advance(last, i - 1)]
    BY <1>1, StoredIs
  <1>6. \A i \in 1 .. n : ring'[Advance(last, i - 1)] =
                            IF i \in {5} THEN ring[Advance(last, i - 1)] ELSE g[i]
    <2>1. Len(g) \in 0 .. Size
      BY <1>1, <1>4, SizeAssumption
    <2> QED BY <1>4, <2>1, WriteCells
  <1>7. ASSUME NEW i \in 1 .. n PROVE Stored(n)[i] = f[i]
    <2>1. CASE i = 5
      BY <1>3, <1>5, <1>6, <2>1 DEF b
    <2>2. CASE i # 5
      BY <1>3, <1>5, <1>6, <2>2
    <2> QED BY <2>1, <2>2
  <1>8. Stored(n) = f
    BY <1>3, <1>5, <1>7, SeqEqual
  <1> QED BY <1>2, <1>8 DEF n, f, Queue!Frames

LEMMA StoredCmd ==
    ASSUME TypeOK, TypeOK', NEW c \in Codes, QueueCmd(c)
    PROVE  Stored(5) \in Queue!Frames
  <1> DEFINE g == CmdFrame(c)
  <1>1. g \in Seq(Byte) /\ Len(g) = 5 /\ Write(g, {}) /\ 5 \in 0 .. Size
    BY FrameTypes, SizeAssumption DEF QueueCmd
  <1>2. g = Queue!CmdFrame(c)
    BY DEF CmdFrame, Queue!CmdFrame
  <1> HIDE DEF g
  <1>3. Stored(5) \in Seq(Byte) /\ Len(Stored(5)) = 5
        /\ \A i \in 1 .. 5 : Stored(5)[i] = ring'[Advance(last, i - 1)]
    <2>1. 5 \in 0 .. Size + 1
      BY <1>1, SizeAssumption
    <2> QED BY <2>1, StoredIs
  <1>4. \A i \in 1 .. 5 : Stored(5)[i] = g[i]
    <2> DEFINE none == {}
    <2>1. Write(g, none) /\ Len(g) \in 0 .. Size
      BY <1>1
    <2> HIDE DEF none
    <2>2. \A i \in 1 .. Len(g) : ring'[Advance(last, i - 1)] =
                                IF i \in none THEN ring[Advance(last, i - 1)] ELSE g[i]
      BY <1>1, <2>1, WriteCells
    <2> QED BY <1>1, <1>3, <2>2 DEF none
  <1>5. Stored(5) = g
    BY <1>1, <1>3, <1>4, SeqEqual
  <1> QED BY <1>2, <1>5 DEF Queue!Frames

\* bt_queue_rx puts its frame behind the backlog, or throws the backlog away.
LEMMA RxRefines ==
    ASSUME TypeOK, TypeOK', NEW m \in Payloads, NEW p \in Protocols, QueueRx(m, p),
           ~Overflows(Len(m)) => Live + Len(m) + 6 <= Size
    PROVE  Queue!Put \/ Queue!PutAlone
  <1> DEFINE n == Len(m) + 6
  <1>1. n \in 0 .. Size
    BY PayloadAssumption, SizeAssumption
  <1>2. RxFrame(m, p) \in Seq(Byte) /\ Len(RxFrame(m, p)) = n /\ Write(RxFrame(m, p), {5})
    BY FrameTypes DEF QueueRx
  <1>3. Stored(n) \in Queue!Frames
    BY StoredRx
  <1>4. Live + n = Live + Len(m) + 6
    BY LiveType, PayloadAssumption
  <1>5. CASE Overflows(Len(m))
    <2>1. begin' = last
      BY <1>5 DEF QueueRx
    <2>2. Backlog' = Stored(n)
      BY <1>1, <1>2, <2>1, WriteReplaces
    <2> QED BY <1>3, <2>2 DEF Queue!PutAlone
  <1>6. CASE ~Overflows(Len(m))
    <2>1. begin' = begin
      BY <1>6 DEF QueueRx
    <2>2. Backlog' = Backlog \o Stored(n)
      BY <1>2, <1>4, <1>6, <2>1, WriteExtends
    <2> QED BY <1>3, <2>2 DEF Queue!Put
  <1> QED BY <1>5, <1>6

LEMMA CmdRefines ==
    ASSUME TypeOK, TypeOK', NEW c \in Codes, QueueCmd(c), Paced
    PROVE  Queue!Put \/ Queue!PutAlone
  <1>1. /\ CmdFrame(c) \in Seq(Byte) /\ Len(CmdFrame(c)) = 5
        /\ Write(CmdFrame(c), {}) /\ 5 \in 0 .. Size /\ Live + 5 <= Size
    BY FrameTypes, SizeAssumption DEF QueueCmd
  <1>2. Stored(5) \in Queue!Frames
    BY StoredCmd
  <1>3. CASE Overflows(1)
    <2>1. Backlog' = Stored(5)
      BY <1>1, <1>3, WriteReplaces DEF QueueCmd
    <2> QED BY <1>2, <2>1 DEF Queue!PutAlone
  <1>4. CASE ~Overflows(1)
    <2>1. Backlog' = Backlog \o Stored(5)
      BY <1>1, <1>4, WriteExtends DEF QueueCmd
    <2> QED BY <1>2, <2>1 DEF Queue!Put
  <1> QED BY <1>3, <1>4

\* The pointer that moves on past one byte leaves the rest of the backlog.
LEMMA NextTakes ==
    ASSUME TypeOK, TypeOK', begin # last, begin' = GetNext(begin), UNCHANGED <<ring, last>>
    PROVE  Backlog # <<>> /\ Backlog' = Tail(Backlog)
  <1>1. BacklogRead /\ BacklogRead'
    BY BacklogIs, PTL
  <1>2. Live \in 1 .. Size /\ Live' = Live - 1
    BY SizeAssumption DEF TypeOK, Live, Offset, GetNext, Cell
  <1>3. Backlog # <<>>
    BY <1>1, <1>2 DEF BacklogRead
  <1>4. /\ Tail(Backlog) \in Seq(Byte) /\ Len(Tail(Backlog)) = Live - 1
        /\ \A i \in 1 .. Live - 1 : Tail(Backlog)[i] = Backlog[i + 1]
    BY <1>1, <1>2, <1>3, HeadTailProperties DEF BacklogRead
  <1>5. ASSUME NEW i \in 1 .. Live - 1 PROVE Backlog'[i] = Tail(Backlog)[i]
    <2>1. Backlog'[i] = ring[Advance(begin', i - 1)]
      BY <1>1, <1>2 DEF BacklogRead
    <2>2. i + 1 \in 1 .. Live /\ (i + 1) - 1 = i
      BY <1>2
    <2>3. Backlog[i + 1] = ring[Advance(begin, i)]
      BY <1>1, <2>2 DEF BacklogRead
    <2>4. Advance(begin', i - 1) = Advance(begin, i)
      BY <1>2, SizeAssumption DEF GetNext, Advance, TypeOK, Cell
    <2> QED BY <1>4, <2>1, <2>3, <2>4
  <1>6. Backlog' = Tail(Backlog)
    BY <1>1, <1>2, <1>4, <1>5, SeqEqual DEF BacklogRead
  <1> QED BY <1>3, <1>6

LEMMA DrainRefines == ASSUME TypeOK, TypeOK', Drain PROVE Queue!Take
  BY NextTakes DEF Drain, Queue!Take

\* The variable behind the array is one byte of the backlog, or none.
LEMMA ForeignRefines ==
    ASSUME TypeOK, TypeOK', NEW b \in Foreign, ForeignWrite(b)
    PROVE  Queue!Smudge \/ UNCHANGED Backlog
  <1>1. BacklogRead /\ BacklogRead'
    BY BacklogIs, PTL
  <1>2. /\ ring' = [ring EXCEPT ![Size] = b] /\ begin' = begin /\ Live' = Live
        /\ begin \in Cell /\ Live \in 0 .. Size /\ DOMAIN ring = Cell
    BY LiveType DEF ForeignWrite, Live, TypeOK
  <1>3. ASSUME NEW i \in 1 .. Live
        PROVE  Backlog'[i] = IF Advance(begin, i - 1) = Size THEN b ELSE Backlog[i]
    <2>1. Advance(begin, i - 1) \in Cell
      BY <1>2, AdvanceType, SizeAssumption
    <2> QED BY <1>1, <1>2, <2>1 DEF BacklogRead
  <1>4. CASE \E i \in 1 .. Live : Advance(begin, i - 1) = Size
    <2>1. PICK i \in 1 .. Live : Advance(begin, i - 1) = Size
      BY <1>4
    <2>2. \A j \in 1 .. Live : Advance(begin, j - 1) = Size => j = i
      BY <1>2, <2>1, SizeAssumption DEF Advance, Cell
    <2>3. b \in Byte /\ i \in 1 .. Len(Backlog) /\ i \in DOMAIN Backlog
      BY <1>1, ByteAssumption DEF BacklogRead
    <2> DEFINE t == [Backlog EXCEPT ![i] = b]
    <2>4. /\ t \in Seq(Byte) /\ Len(t) = Len(Backlog)
          /\ \A j \in 1 .. Len(Backlog) : t[j] = IF j = i THEN b ELSE Backlog[j]
      BY <1>1, <2>3, ExceptSeq DEF BacklogRead
    <2> HIDE DEF t
    <2>5. \A j \in 1 .. Live : Backlog'[j] = t[j]
      BY <1>1, <1>3, <2>1, <2>2, <2>4 DEF BacklogRead
    <2>6. Backlog' = t
      BY <1>1, <1>2, <2>4, <2>5, SeqEqual DEF BacklogRead
    <2> QED BY <2>3, <2>6 DEF Queue!Smudge, t
  <1>5. CASE ~\E i \in 1 .. Live : Advance(begin, i - 1) = Size
    <2>1. \A i \in 1 .. Live : Backlog'[i] = Backlog[i]
      BY <1>3, <1>5
    <2> QED BY <1>1, <1>2, <2>1, SeqEqual DEF BacklogRead
  <1> QED BY <1>4, <1>5

\* Every step of the ring is a step of the queue, or none: under Paced by the
\* pace, otherwise because the test of bt_queue_rx is sound.
LEMMA RefinesStep ==
    ASSUME TypeOK, TypeOK', Paced \/ (Codes = {} /\ CheckIsSound), [Next]_vars
    PROVE  [Queue!Next]_Backlog
  <1>1. ASSUME NEW c \in Codes, QueueCmd(c) PROVE Queue!Next
    BY <1>1, CmdRefines DEF Queue!Next
  <1>2. ASSUME NEW m \in Payloads, NEW p \in Protocols, QueueRx(m, p) PROVE Queue!Next
    <2>1. ~Overflows(Len(m)) => Live + Len(m) + 6 <= Size
      BY <1>2 DEF CheckIsSound, QueueRx
    <2> QED BY <1>2, <2>1, RxRefines DEF Queue!Next
  <1>3. CASE Drain
    BY <1>3, DrainRefines DEF Queue!Next
  <1>4. ASSUME NEW b \in Foreign, ForeignWrite(b) PROVE Queue!Next \/ UNCHANGED Backlog
    BY <1>4, ForeignRefines DEF Queue!Next
  <1>5. CASE UNCHANGED vars
    BY <1>5 DEF vars, Backlog, Live
  <1> QED BY <1>1, <1>2, <1>3, <1>4, <1>5 DEF Next

\* The ring is a queue of whole frames that loses only whole backlogs, if the
\* producers are paced, or if only reports are queued and the ring has room for
\* those without a payload (main.c:44-249): the refinement that the runs of
\* both kinds check on a small ring.
THEOREM RingImplementsQueue == Paced \/ ReportsOnly => (Spec => ImplementsQueue)
  <1> SUFFICES ASSUME Paced \/ ReportsOnly PROVE Spec => ImplementsQueue
    OBVIOUS
  <1>1. Init => Queue!Init
    BY SizeAssumption DEF Init, Queue!Init, Backlog, Live, Offset
  <1>2. CASE Paced
    <2>1. TypeOK /\ TypeOK' /\ [Next]_vars => [Queue!Next]_Backlog
      BY <1>2, RefinesStep
    <2> QED BY <1>1, <2>1, TypeCorrect, PTL DEF Spec, ImplementsQueue, Queue!Spec
  <1>3. CASE ReportsOnly
    <2>1. TypeOK /\ TypeOK' /\ CheckIsSound /\ [Next]_vars => [Queue!Next]_Backlog
      BY <1>3, RefinesStep DEF ReportsOnly
    <2>2. Spec => []CheckIsSound
      BY <1>3, ReportsNeverOverrun
    <2> QED BY <1>1, <2>1, <2>2, TypeCorrect, PTL DEF Spec, ImplementsQueue, Queue!Spec
  <1> QED BY <1>2, <1>3
-------------------------------------------------------------------------------
(* BtLink: the drain, taken apart, and the interrupts between its steps. *)

\* what is in the ring and not yet in the UART: the byte that was written to
\* the UART is still the first of the backlog until the pointer moves on
Unsent == IF pc = "advance" THEN Tail(Backlog) ELSE Backlog

LinkTypeOK ==
    /\ TypeOK
    /\ pc \in {"top", "high", "data", "advance", "load", "store", "sleep", "asleep"}
    /\ at \in Cell /\ count \in 0 .. Word - 1
    /\ sent \in Seq(Byte) /\ queued \in Seq(Byte) /\ discarded \in BOOLEAN

\* Only reports move last, and as long as none discards a backlog they leave
\* begin alone.  So begin is still what the byte was read with; a backlog that
\* was seen stays one; and the two halves of last are those of one value, or
\* else there is a backlog.
InOrder ==
    /\ pc \in {"data", "advance"} => begin # last
    /\ pc = "advance" => at = begin
    /\ pc = "high" /\ begin = last => lo = last % Page
    /\ sent \o Unsent = queued

LinkInv == LinkTypeOK /\ (~discarded => InOrder)

LEMMA LiveZero == TypeOK => (Live = 0 <=> begin = last)
  BY SizeAssumption DEF TypeOK, Live, Offset, Cell

LEMMA Halves ==
    ASSUME NEW n \in Nat
    PROVE  (n \div Page) * Page + (n % Page) = n
  BY LinkAssumption

LEMMA AppendThenTail ==
    ASSUME NEW s \in Seq(Byte), NEW t \in Seq(Byte), t # <<>>
    PROVE  Append(s, Head(t)) \o Tail(t) = s \o t
  OBVIOUS

LEMMA TailOfConcat ==
    ASSUME NEW s \in Seq(Byte), NEW t \in Seq(Byte), s # <<>>
    PROVE  Tail(s \o t) = Tail(s) \o t
  OBVIOUS

LEMMA LinkTypeInit == LinkInit => LinkTypeOK
  <1>1. Init => TypeOK
    BY SizeAssumption, ByteAssumption DEF Init, TypeOK, Cell
  <1>2. LinkInit => sent \in Seq(Byte) /\ queued \in Seq(Byte)
    BY DEF LinkInit
  <1>3. LinkInit => at \in Cell /\ count \in 0 .. Word - 1
    BY SizeAssumption DEF LinkInit, Cell
  <1> QED BY <1>1, <1>2, <1>3 DEF LinkInit, LinkTypeOK

LEMMA LinkTypeStep == LinkTypeOK /\ [LinkNext]_linkVars => LinkTypeOK'
  <1> SUFFICES ASSUME LinkTypeOK, [LinkNext]_linkVars PROVE LinkTypeOK'
    OBVIOUS
  <1> USE DEF LinkTypeOK
  <1>1. CASE LoadLow \/ Compare \/ Sleep \/ Shift \/ LoadFill \/ OtherInterrupt
    BY <1>1 DEF LoadLow, Compare, Sleep, Shift, LoadFill, OtherInterrupt, Woken,
                RingUnchanged, vars, TypeOK
  <1>2. CASE WriteData
    <2>1. ring[begin] \in Byte /\ begin \in Cell
      BY DEF TypeOK
    <2> QED BY <1>2, <2>1 DEF WriteData, RingUnchanged, vars, TypeOK
  <1>3. CASE AdvanceBegin
    <2>1. begin' \in Cell
      BY <1>3, SizeAssumption DEF AdvanceBegin, GetNext, TypeOK, Cell
    <2> QED BY <1>3, <2>1 DEF AdvanceBegin, TypeOK
  <1>4. CASE StoreFill
    <2>1. fill' \in 0 .. Word - 1
      BY <1>4, WrapType, SizeAssumption DEF StoreFill
    <2> QED BY <1>4, <2>1 DEF StoreFill, TypeOK
  <1>5. ASSUME NEW m \in Payloads, NEW p \in Protocols, Report(m, p) PROVE LinkTypeOK'
    <2>1. TypeOK'
      BY <1>5, TypeRx DEF Report
    <2>2. Stored(Len(m) + 6) \in Seq(Byte)
      <3>1. Len(m) + 6 \in 0 .. Size + 1
        BY PayloadAssumption, SizeAssumption
      <3> QED BY <2>1, <3>1, StoredIs
    <2>3. queued' = queued \o Stored(Len(m) + 6)
      BY <1>5 DEF Report, Stored
    <2>4. queued' \in Seq(Byte)
      BY <2>2, <2>3, ConcatProperties
    <2>5. discarded' \in BOOLEAN
      BY <1>5 DEF Report
    <2> QED BY <1>5, <2>1, <2>4, <2>5 DEF Report, Woken
  <1>6. CASE UNCHANGED linkVars
    BY <1>6 DEF linkVars, vars, main, TypeOK
  <1> QED BY <1>1, <1>2, <1>3, <1>4, <1>5, <1>6 DEF LinkNext, MainStep

LEMMA InOrderInit == LinkInit => InOrder
  <1> SUFFICES ASSUME LinkInit PROVE InOrder
    OBVIOUS
  <1>1. Backlog = <<>>
    BY SizeAssumption DEF LinkInit, Init, Backlog, Live, Offset
  <1>2. Unsent = <<>> /\ sent = <<>> /\ queued = <<>>
    BY <1>1 DEF Unsent, LinkInit
  <1>3. sent \o Unsent = queued
    BY <1>2
  <1> QED BY <1>3 DEF InOrder, LinkInit

LEMMA UnsentType == LinkTypeOK /\ InOrder => Unsent \in Seq(Byte)
  <1> SUFFICES ASSUME LinkTypeOK, InOrder PROVE Unsent \in Seq(Byte)
    OBVIOUS
  <1>1. BacklogRead /\ Live \in Nat
    BY BacklogIs, LiveType, SizeAssumption DEF LinkTypeOK
  <1>2. pc = "advance" => Backlog # <<>>
    BY <1>1, LiveZero DEF InOrder, LinkTypeOK, BacklogRead
  <1> QED BY <1>1, <1>2, HeadTailProperties DEF Unsent, BacklogRead

LEMMA CompareInOrder == ASSUME LinkTypeOK, InOrder, Compare PROVE InOrder'
  <1>1. CASE begin = last
    <2>1. last \in Nat
      BY SizeAssumption DEF LinkTypeOK, TypeOK, Cell
    <2>2. (last \div Page) * Page + lo = begin
      BY <1>1, <2>1, Halves DEF InOrder, Compare
    <2> QED BY <2>2 DEF Compare, RingUnchanged, vars, InOrder, Unsent, Backlog, Live
  <1>2. CASE begin # last
    BY <1>2 DEF Compare, RingUnchanged, vars, InOrder, Unsent, Backlog, Live
  <1> QED BY <1>1, <1>2

LEMMA WriteDataInOrder == ASSUME LinkTypeOK, InOrder, WriteData PROVE InOrder'
  <1>1. BacklogRead /\ Backlog' = Backlog /\ begin # last
    BY BacklogIs DEF LinkTypeOK, WriteData, RingUnchanged, vars, Backlog, Live, InOrder
  <1>2. Live \in 1 .. Size
    BY <1>1, LiveZero, LiveType, SizeAssumption DEF LinkTypeOK
  <1>3. Backlog \in Seq(Byte) /\ Backlog # <<>> /\ ring[begin] = Backlog[1]
    <2>1. Backlog[1] = ring[Advance(begin, 0)]
      BY <1>1, <1>2 DEF BacklogRead
    <2>2. Advance(begin, 0) = begin
      BY SizeAssumption DEF Advance, LinkTypeOK, TypeOK, Cell
    <2> QED BY <1>1, <1>2, <2>1, <2>2 DEF BacklogRead
  <1>4. Append(sent, Head(Backlog)) \o Tail(Backlog) = sent \o Backlog
    BY <1>3, AppendThenTail DEF LinkTypeOK
  <1>5. sent' \o Unsent' = queued'
    <2>1. Head(Backlog) = ring[begin]
      BY <1>3
    <2>2. sent' = Append(sent, Head(Backlog)) /\ Unsent' = Tail(Backlog) /\ Unsent = Backlog
      BY <1>1, <2>1 DEF WriteData, Unsent
    <2>3. sent \o Backlog = queued'
      BY <2>2 DEF WriteData, RingUnchanged, InOrder
    <2> QED BY <1>4, <2>2, <2>3
  <1> QED BY <1>1, <1>5 DEF WriteData, RingUnchanged, vars, InOrder

LEMMA AdvanceInOrder ==
    ASSUME LinkTypeOK, LinkTypeOK', InOrder, AdvanceBegin
    PROVE  InOrder'
  <1>1. begin # last /\ begin' = GetNext(begin) /\ UNCHANGED <<ring, last>>
    BY DEF AdvanceBegin, InOrder
  <1>2. Backlog' = Tail(Backlog)
    BY <1>1, NextTakes DEF LinkTypeOK
  <1> QED BY <1>2 DEF AdvanceBegin, InOrder, Unsent

\* A report that fits goes behind what is queued and what is in the ring.
LEMMA ReportInOrder ==
    ASSUME LinkTypeOK, LinkTypeOK', InOrder, Paced, ~discarded',
           NEW m \in Payloads, NEW p \in Protocols, Report(m, p)
    PROVE  InOrder'
  <1> DEFINE n == Len(m) + 6
             S == Stored(n)
  <1>1. n \in 6 .. Size /\ n \in 0 .. Size + 1
    BY PayloadAssumption, SizeAssumption
  <1>2. TypeOK /\ TypeOK' /\ QueueRx(m, p) /\ ~Overflows(Len(m))
    BY DEF Report, LinkTypeOK
  <1>3. S \in Seq(Byte)
    BY <1>1, <1>2, StoredIs
  <1>4. begin' = begin /\ Live + n <= Size
    <2>1. Live + n = Live + Len(m) + 6
      BY <1>2, LiveType, PayloadAssumption
    <2> QED BY <1>2, <2>1 DEF QueueRx
  <1>5. Live' = Live + n /\ Backlog' = Backlog \o S
    <2>1. /\ RxFrame(m, p) \in Seq(Byte) /\ Len(RxFrame(m, p)) = n
          /\ Write(RxFrame(m, p), {5})
      BY <1>2, FrameTypes DEF QueueRx
    <2> QED BY <1>2, <1>4, <2>1, WriteExtends
  <1>6. begin' # last'
    <2>1. Live' # 0
      BY <1>1, <1>2, <1>5, LiveType, SizeAssumption
    <2>2. Live' = Offset(begin', last')
      BY DEF Live
    <2>3. \A k \in Cell : Offset(k, k) = 0
      BY SizeAssumption DEF Offset, Cell
    <2> QED BY <1>2, <2>1, <2>2, <2>3 DEF TypeOK
  <1>7. queued' = queued \o S
    BY DEF Report, Stored
  <1>8. Unsent' = Unsent \o S
    <2>1. BacklogRead
      BY <1>2, BacklogIs
    <2>2. CASE pc = "advance"
      <3>1. Backlog # <<>> /\ Backlog \in Seq(Byte)
        BY <1>2, <2>1, <2>2, LiveZero DEF InOrder, BacklogRead
      <3>2. Tail(Backlog \o S) = Tail(Backlog) \o S
        BY <1>3, <3>1, TailOfConcat
      <3> QED BY <1>5, <2>2, <3>2 DEF Report, Woken, Unsent
    <2>3. CASE pc # "advance"
      BY <1>5, <2>3 DEF Report, Woken, Unsent
    <2> QED BY <2>2, <2>3
  <1>9. sent' \o Unsent' = queued'
    <2>1. (sent \o Unsent) \o S = sent \o (Unsent \o S)
      <3>1. sent \in Seq(Byte) /\ Unsent \in Seq(Byte)
        BY UnsentType DEF LinkTypeOK
      <3> HIDE DEF S
      <3> QED BY <1>3, <3>1, ConcatAssociative
    <2>2. sent' = sent /\ sent \o Unsent = queued
      BY DEF Report, InOrder
    <2> QED BY <1>7, <1>8, <2>1, <2>2
  <1> QED BY <1>4, <1>6, <1>9 DEF InOrder, Report, Woken

LEMMA InOrderStep ==
    LinkInv /\ LinkTypeOK' /\ Paced /\ [LinkNext]_linkVars => LinkInv'
  <1> SUFFICES ASSUME LinkInv, LinkTypeOK', Paced, [LinkNext]_linkVars, ~discarded'
               PROVE  InOrder'
    BY DEF LinkInv
  <1>1. LinkTypeOK /\ InOrder
    <2>1. ~discarded
      BY DEF LinkNext, MainStep, LoadLow, Compare, WriteData, AdvanceBegin, LoadFill,
             StoreFill, Sleep, Shift, Report, OtherInterrupt, RingUnchanged, linkVars
    <2> QED BY <2>1 DEF LinkInv
  <1>2. CASE LoadLow
    BY <1>1, <1>2 DEF LoadLow, RingUnchanged, vars, InOrder, Unsent, Backlog, Live
  <1>3. CASE Compare
    BY <1>1, <1>3, CompareInOrder
  <1>4. CASE WriteData
    BY <1>1, <1>4, WriteDataInOrder
  <1>5. CASE AdvanceBegin
    BY <1>1, <1>5, AdvanceInOrder
  <1>6. CASE LoadFill \/ Sleep \/ Shift
    BY <1>1, <1>6 DEF LoadFill, Sleep, Shift, RingUnchanged, vars, InOrder, Unsent,
                      Backlog, Live
  <1>7. CASE StoreFill
    BY <1>1, <1>7 DEF StoreFill, InOrder, Unsent, Backlog, Live
  <1>8. ASSUME NEW m \in Payloads, NEW p \in Protocols, Report(m, p) PROVE InOrder'
    BY <1>1, <1>8, ReportInOrder
  <1>9. CASE OtherInterrupt
    BY <1>1, <1>9 DEF OtherInterrupt, Woken, RingUnchanged, vars, InOrder, Unsent,
                      Backlog, Live
  <1>10. CASE UNCHANGED linkVars
    BY <1>1, <1>10 DEF linkVars, vars, main, InOrder, Unsent, Backlog, Live
  <1> QED BY <1>2, <1>3, <1>4, <1>5, <1>6, <1>7, <1>8, <1>9, <1>10 DEF LinkNext, MainStep

LEMMA LinkInvSound == LinkInv => SentInOrder
  <1> SUFFICES ASSUME LinkTypeOK, InOrder
               PROVE  sent \o SubSeq(Backlog, IF pc = "advance" THEN 2 ELSE 1, Live) = queued
    BY DEF LinkInv, SentInOrder
  <1>1. BacklogRead /\ Live \in Nat
    BY BacklogIs, LiveType, SizeAssumption DEF LinkTypeOK
  <1>2. pc = "advance" => Backlog # <<>>
    BY <1>1, LiveZero DEF InOrder, LinkTypeOK, BacklogRead
  <1>3. SubSeq(Backlog, 1, Live) = Backlog
    BY <1>1, SubSeqFull DEF BacklogRead
  <1>4. pc = "advance" => SubSeq(Backlog, 2, Live) = Tail(Backlog)
    BY <1>1, <1>2, TailIsSubSeq DEF BacklogRead
  <1> QED BY <1>3, <1>4 DEF InOrder, Unsent

\* For a ring of any size, and wherever the interrupts fall between the loads
\* and stores of the main loop: as long as the producers keep within the ring
\* and no report throws a backlog away, the bytes given to the UART are those
\* of the reports, in order and once (main.c:185-191 against main.c:229-249).
THEOREM LinkSentInOrder == Paced => (LinkSpec => []SentInOrder)
  <1> SUFFICES ASSUME Paced PROVE LinkSpec => []SentInOrder
    OBVIOUS
  <1>1. LinkInit => LinkInv
    BY LinkTypeInit, InOrderInit DEF LinkInv
  <1>2. LinkInv /\ [LinkNext]_linkVars => LinkInv'
    BY LinkTypeStep, InOrderStep DEF LinkInv
  <1> QED BY <1>1, <1>2, LinkInvSound, PTL DEF LinkSpec
===============================================================================
