------------------------------ MODULE FrameProofs ------------------------------
(***************************************************************************)
(* Theorems about BtFrames for every buffer, payload and command.          *)
(***************************************************************************)
EXTENDS BtFrames, SequenceTheorems, TLAPS

Octet == 0 .. 255

\* The two bytes that begin a frame come nowhere else in what the host sends.
\* It is a hypothesis about the host: a payload that holds a frame of its own
\* can be taken for that frame once a stale newline has cut off its beginning.
HeaderOnlyAtStart ==
    \A f \in Frames, end \in Ends :
        \A i \in 2 .. Len(f \o end) - 1 : ~((f \o end)[i] = 43 /\ (f \o end)[i + 1] = 66)

LEMMA FrameShape ==
    ASSUME NEW f \in Frames
    PROVE  /\ f \in Seq(Octet) /\ Len(f) >= 4
           /\ f[1] = 43 /\ f[2] = 66 /\ f[3] = Len(f) - 2
  <1>1. CASE \E c \in Commands : f = CommandFrame(c)
    <2>1. PICK c \in Commands : f = <<43, 66, 2, c>>
      BY <1>1 DEF CommandFrame
    <2>2. c \in Octet
      BY FrameAssumption DEF Octet
    <2> QED BY <2>1, <2>2 DEF Octet
  <1>2. CASE \E p \in Buses, d \in Data : f = MessageFrame(p, d)
    <2>1. PICK p \in Buses, d \in Data : f = MessageFrame(p, d)
      BY <1>2
    <2> DEFINE h == <<43, 66, Len(d) + 3, 128, p>>
    <2>2. d \in Seq(Octet) /\ Len(d) \in Nat /\ Len(d) + 3 \in Octet /\ p \in Octet
      <3>1. d \in Seq(0 .. 255) /\ Len(d) + 3 <= 255 /\ p \in 0 .. 255
        BY FrameAssumption
      <3>2. Len(d) \in Nat
        BY <3>1, LenProperties, Zenon
      <3>3. d \in Seq(Octet) /\ p \in Octet
        BY <3>1, Zenon DEF Octet
      <3>4. \A n \in Nat : n + 3 <= 255 => n + 3 \in Octet
        BY DEF Octet
      <3> QED BY <3>1, <3>2, <3>3, <3>4
    <2>3. /\ h \in Seq(Octet) /\ Len(h) = 5
          /\ h[1] = 43 /\ h[2] = 66 /\ h[3] = Len(d) + 3
      BY <2>2 DEF Octet
    <2>4. f = h \o d
      BY <2>1 DEF MessageFrame
    <2> HIDE DEF h
    <2> HIDE DEF Octet
    <2>5. /\ h \o d \in Seq(Octet) /\ Len(h \o d) = Len(h) + Len(d)
          /\ \A i \in 1 .. Len(h) + Len(d) :
               (h \o d)[i] = IF i <= Len(h) THEN h[i] ELSE d[i - Len(h)]
      <3>1. h \in Seq(Octet)
        BY <2>3
      <3>2. d \in Seq(Octet)
        BY <2>2
      <3> QED BY <3>1, <3>2, ConcatProperties, Zenon
    <2>6. \A i \in 1 .. 5 : f[i] = h[i]
      BY <2>2, <2>3, <2>4, <2>5
    <2>7. Len(f) = Len(d) + 5 /\ f \in Seq(Octet)
      BY <2>2, <2>3, <2>4, <2>5
    <2> QED BY <2>2, <2>3, <2>6, <2>7
  <1> QED BY <1>1, <1>2 DEF Frames

\* what a run of Check can do, without the part of the loop that it belongs to
FrameTypeOK ==
    /\ asked \in Seq(Frames) /\ Len(asked) <= MaxFrames /\ stream \in Seq(Octet)
    /\ bytes \in [0 .. BuffLen - 1 -> Octet] /\ idxLast \in 0 .. BuffLen - 1
    /\ pc \in {"check", "receive"}
    /\ done \in Seq(Seq(Octet))
    /\ mux \in [b : SUBSET (0 .. 5), c : SUBSET (0 .. 5), d : SUBSET {5}]
    /\ selected \in MuxCommands /\ success \in Nat /\ success <= Len(done)

\* g is what the host sends from the last frame on, k bytes of it are read
Reading(g, k) ==
    /\ g \in Seq(Octet) /\ k \in 0 .. Len(g)
    /\ Len(stream) = Len(g) - k
    /\ \A i \in 1 .. Len(stream) : stream[i] = g[k + i]
    /\ \A i \in 2 .. Len(g) - 1 : ~(g[i] = 43 /\ g[i + 1] = 66)
    /\ g # <<>> =>
         /\ asked # <<>> /\ Len(asked[Len(asked)]) <= Len(g)
         /\ \A i \in 1 .. Len(asked[Len(asked)]) : g[i] = asked[Len(asked)][i]
    /\ g = <<>> => asked = <<>>

\* what was done so far, and for which frame; the last one only once it was read
Assigned(at, k) ==
    /\ at \in [DOMAIN done -> DOMAIN asked]
    /\ \A i, j \in DOMAIN done : i < j => at[i] < at[j]
    /\ \A i \in DOMAIN done :
         /\ i <= at[i]
         /\ asked[at[i]] = <<43, 66>> \o done[i]
         /\ k = 0 => at[i] < Len(asked)

\* the buffer begins with frame j, which nothing was done for yet
Aligned(at, k, j) ==
    /\ \A i \in DOMAIN done : at[i] < j
    /\ \A i \in 1 .. Len(asked[j]) : i <= idxLast => bytes[i - 1] = asked[j][i]
    /\ idxLast < Len(asked[j]) => j = Len(asked) /\ k = idxLast
    /\ j = Len(asked) => k > 0

\* A buffer that begins like a frame does so with a frame of the host, or it
\* holds one byte so far and the next will show that it is none.
Buffered(g, at, k) ==
    \/ idxLast = 0
    \/ bytes[0] # 43
    \/ idxLast > 1 /\ bytes[1] # 66
    \/ idxLast = 1 /\ (k < Len(g) => g[k + 1] # 66)
    \/ idxLast > 0 /\ \E j \in DOMAIN asked : Aligned(at, k, j)

FrameInv ==
    /\ FrameTypeOK
    /\ \E g \in Seq(Octet), k \in Nat, at \in [DOMAIN done -> DOMAIN asked] :
         Reading(g, k) /\ Assigned(at, k) /\ Buffered(g, at, k)

LEMMA SetMuxType ==
    ASSUME NEW m \in [b : SUBSET (0 .. 5), c : SUBSET (0 .. 5), d : SUBSET {5}],
           NEW cmd \in MuxCommands
    PROVE  SetMux(m, cmd) \in [b : SUBSET (0 .. 5), c : SUBSET (0 .. 5), d : SUBSET {5}]
  <1>1. CASE cmd = 1
    BY <1>1 DEF SetMux
  <1>2. CASE cmd = 2
    BY <1>2 DEF SetMux
  <1>3. CASE cmd = 5
    BY <1>3 DEF SetMux
  <1> QED BY <1>1, <1>2, <1>3 DEF MuxCommands

LEMMA FrameInvInit == Init => FrameInv
  <1> SUFFICES ASSUME Init PROVE FrameInv
    OBVIOUS
  <1>1. mux \in [b : SUBSET (0 .. 5), c : SUBSET (0 .. 5), d : SUBSET {5}]
    <2>1. [b |-> {}, c |-> {}, d |-> {5}] \in [b : SUBSET (0 .. 5), c : SUBSET (0 .. 5), d : SUBSET {5}]
      OBVIOUS
    <2>2. 1 \in MuxCommands
      BY DEF MuxCommands
    <2> QED BY <2>1, <2>2, SetMuxType DEF Init
  <1>2. FrameTypeOK
    <2>1. bytes \in [0 .. BuffLen - 1 -> Octet] /\ idxLast \in 0 .. BuffLen - 1
      <3>1. bytes \in [0 .. BuffLen - 1 -> Residue] /\ Residue \subseteq Octet
        BY FrameAssumption DEF Init, Octet
      <3>2. bytes \in [0 .. BuffLen - 1 -> Octet]
        BY <3>1
      <3> QED BY <3>2, FrameAssumption DEF Init
    <2>2. asked \in Seq(Frames) /\ stream \in Seq(Octet) /\ done \in Seq(Seq(Octet))
      BY DEF Init
    <2> QED BY <1>1, <2>1, <2>2, FrameAssumption DEF Init, FrameTypeOK, MuxCommands
  <1>3. Reading(<<>>, 0)
    BY DEF Init, Reading
  <1>4. \A at \in [DOMAIN done -> DOMAIN asked] : Assigned(at, 0) /\ Buffered(<<>>, at, 0)
    BY DEF Init, Assigned, Buffered
  <1>5. <<>> \in Seq(Octet) /\ 0 \in Nat /\ <<>> \in [DOMAIN done -> DOMAIN asked]
    BY DEF Init
  <1> QED BY <1>2, <1>3, <1>4, <1>5 DEF FrameInv
LEMMA FrameTypeStep == FrameTypeOK /\ [Next]_vars => FrameTypeOK'
  <1> SUFFICES ASSUME FrameTypeOK, [Next]_vars PROVE FrameTypeOK'
    OBVIOUS
  <1>1. ASSUME NEW f \in Frames, NEW end \in Ends, HostFrame(f, end) PROVE FrameTypeOK'
    <2>1. f \in Seq(Octet) /\ end \in Seq(Octet)
      BY FrameShape, FrameAssumption DEF Octet
    <2>2. stream' \in Seq(Octet)
      BY <1>1, <2>1, ConcatProperties DEF HostFrame
    <2>3. asked' \in Seq(Frames) /\ Len(asked') <= MaxFrames
      <3>1. asked' \in Seq(Frames) /\ Len(asked') = Len(asked) + 1
        BY <1>1, AppendProperties DEF HostFrame, FrameTypeOK
      <3>2. Len(asked) \in Nat /\ Len(asked) < MaxFrames
        BY <1>1, LenProperties DEF HostFrame, FrameTypeOK
      <3> QED BY <3>1, <3>2, FrameAssumption
    <2> QED BY <1>1, <2>2, <2>3 DEF HostFrame, FrameTypeOK
  <1>2. CASE Check
    <2> DEFINE part == SubSeq(Received, 3, idxLast)
    <2>1. part \in Seq(Octet)
      <3>1. \A i \in 3 .. idxLast : Received[i] \in Octet
        <4>1. ASSUME NEW i \in 3 .. idxLast PROVE Received[i] \in Octet
          <5>1. i \in 1 .. idxLast /\ i - 1 \in 0 .. BuffLen - 1
            BY FrameAssumption DEF FrameTypeOK
          <5> QED BY <5>1 DEF Received, FrameTypeOK
        <4> QED BY <4>1
      <3>2. 3 \in Int /\ idxLast \in Int
        BY DEF FrameTypeOK
      <3> QED BY <3>1, <3>2, SubSeqProperties, Zenon
    <2> HIDE DEF part
    <2>2. Append(done, part) \in Seq(Seq(Octet)) /\ Len(Append(done, part)) = Len(done) + 1
          /\ Len(done) \in Nat
      BY <2>1, AppendProperties, LenProperties DEF FrameTypeOK
    <2>3. /\ done' \in Seq(Seq(Octet)) /\ success' \in Nat /\ success' <= Len(done')
      <3>1. \/ done' = Append(done, part) /\ success' \in {success, success + 1}
            \/ done' = done /\ success' = success
        BY <1>2 DEF Check, Forward, RunMux, RunSpeed, RunInit, Ignore, part
      <3>2. done \in Seq(Seq(Octet)) /\ success \in Nat /\ success <= Len(done)
        BY DEF FrameTypeOK
      <3>3. CASE done' = Append(done, part) /\ success' \in {success, success + 1}
        BY <2>2, <3>2, <3>3
      <3>4. CASE done' = done /\ success' = success
        BY <3>2, <3>4
      <3> QED BY <3>1, <3>3, <3>4
    <2>4. mux' \in [b : SUBSET (0 .. 5), c : SUBSET (0 .. 5), d : SUBSET {5}]
          /\ selected' \in MuxCommands
      <3>1. CASE RunMux
        BY <3>1, SetMuxType DEF RunMux, FrameTypeOK
      <3>2. CASE ~RunMux
        BY <1>2, <3>2 DEF Check, Forward, RunSpeed, RunInit, Ignore, FrameTypeOK
      <3> QED BY <3>1, <3>2
    <2>5. idxLast' \in 0 .. BuffLen - 1
      BY <1>2, FrameAssumption DEF Check, FrameTypeOK
    <2> QED BY <1>2, <2>3, <2>4, <2>5 DEF Check, FrameTypeOK
  <1>3. CASE Receive
    <2>1. Head(stream) \in Octet /\ stream' \in Seq(Octet)
      BY <1>3, HeadTailProperties DEF Receive, FrameTypeOK
    <2>2. bytes' \in [0 .. BuffLen - 1 -> Octet]
      BY <1>3, <2>1 DEF Receive, FrameTypeOK
    <2>3. idxLast' \in 0 .. BuffLen - 1
      BY <1>3, FrameAssumption DEF Receive, FrameTypeOK
    <2> QED BY <1>3, <2>1, <2>2, <2>3 DEF Receive, FrameTypeOK
  <1>4. CASE ReceiveNothing
    BY <1>4 DEF ReceiveNothing, FrameTypeOK
  <1>5. CASE UNCHANGED vars
    BY <1>5 DEF vars, FrameTypeOK
  <1> QED BY <1>1, <1>2, <1>3, <1>4, <1>5 DEF Next

\* The host begins a frame when all of the last one is read.
LEMMA FrameInvHost ==
    ASSUME FrameInv, FrameTypeOK', HeaderOnlyAtStart,
           NEW f \in Frames, NEW end \in Ends, HostFrame(f, end)
    PROVE  FrameInv'
  <1>1. PICK g \in Seq(Octet), k \in Nat, at \in [DOMAIN done -> DOMAIN asked] :
               Reading(g, k) /\ Assigned(at, k) /\ Buffered(g, at, k)
    BY DEF FrameInv
  <1> DEFINE h == f \o end
             n == Len(asked)
  <1>2. /\ f \in Seq(Octet) /\ end \in Seq(Octet) /\ Len(f) \in Nat /\ Len(f) >= 4
        /\ f[1] = 43
    BY FrameShape, FrameAssumption, LenProperties DEF Octet
  <1>3. /\ h \in Seq(Octet) /\ Len(h) \in Nat /\ Len(h) >= Len(f)
        /\ \A i \in 1 .. Len(f) : h[i] = f[i]
    <2>1. /\ h \in Seq(Octet) /\ Len(h) = Len(f) + Len(end)
          /\ \A i \in 1 .. Len(f) + Len(end) :
               h[i] = IF i <= Len(f) THEN f[i] ELSE end[i - Len(f)]
      BY <1>2, ConcatProperties
    <2>2. Len(end) \in Nat
      BY <1>2, LenProperties
    <2> QED BY <1>2, <2>1, <2>2
  <1>4. stream = <<>> /\ stream' = h /\ asked' = Append(asked, f)
    BY DEF HostFrame
  <1>5. /\ n \in Nat /\ asked' # <<>> /\ Len(asked') = n + 1 /\ asked'[n + 1] = f
        /\ DOMAIN asked = 1 .. n /\ DOMAIN asked' = 1 .. n + 1
        /\ \A i \in 1 .. n : asked'[i] = asked[i]
    <2>1. asked \in Seq(Frames)
      BY DEF FrameInv, FrameTypeOK
    <2>2. n \in Nat /\ DOMAIN asked = 1 .. n
      BY <2>1, LenProperties, Zenon
    <2>3. /\ Append(asked, f) \in Seq(Frames) /\ Append(asked, f) # <<>>
          /\ Len(Append(asked, f)) = n + 1
          /\ \A i \in 1 .. n : Append(asked, f)[i] = asked[i]
          /\ Append(asked, f)[n + 1] = f
      BY <2>1, AppendProperties
    <2>4. DOMAIN Append(asked, f) = 1 .. n + 1
      BY <2>3, LenProperties, Zenon
    <2> QED BY <1>4, <2>2, <2>3, <2>4, Zenon
  <1>6. UNCHANGED <<bytes, idxLast, done>>
    BY DEF HostFrame
  <1> HIDE DEF h, n
  <1>7. Reading(h, 0)'
    <2>1. \A i \in 2 .. Len(h) - 1 : ~(h[i] = 43 /\ h[i + 1] = 66)
      BY DEF HeaderOnlyAtStart, h
    <2>2. h # <<>>
      BY <1>2, <1>3
    <2>3. \A i \in 1 .. Len(h) : h[0 + i] = h[i]
      BY <1>3
    <2>4. Len(h) = Len(h) - 0 /\ 0 \in 0 .. Len(h)
      BY <1>3
    <2> QED BY <1>2, <1>3, <1>4, <1>5, <2>1, <2>2, <2>3, <2>4 DEF Reading
  <1>8. Assigned(at, 0)' /\ at \in [DOMAIN done' -> DOMAIN asked']
    <2>1. at \in [DOMAIN done -> DOMAIN asked'] /\ \A i \in DOMAIN done : at[i] \in 1 .. n
      BY <1>1, <1>5 DEF n
    <2>2. \A i \in DOMAIN done : at[i] < n + 1 /\ asked'[at[i]] = asked[at[i]]
      BY <1>5, <2>1
    <2> QED BY <1>1, <1>5, <1>6, <2>1, <2>2 DEF Assigned
  <1>9. Buffered(h, at, 0)'
    <2>1. CASE \E j \in DOMAIN asked : idxLast > 0 /\ Aligned(at, k, j)
      <3>1. PICK j \in 1 .. n : idxLast > 0 /\ Aligned(at, k, j)
        BY <1>5, <2>1
      <3>2. ~(idxLast < Len(asked[j]))
        <4>1. SUFFICES ASSUME idxLast < Len(asked[j]) PROVE FALSE
          OBVIOUS
        <4>2. j = n /\ k = idxLast
          BY <3>1, <4>1 DEF Aligned, n
        <4>3. k = Len(g) /\ g # <<>>
          BY <1>1, <1>4, <1>5, <3>1 DEF Reading
        <4>4. Len(asked[n]) <= Len(g)
          BY <1>1, <4>3 DEF Reading, n
        <4> QED BY <4>1, <4>2, <4>3, <4>4 DEF FrameInv, FrameTypeOK
      <3>3. j # n + 1 /\ asked'[j] = asked[j] /\ j \in DOMAIN asked'
        BY <1>5, <3>1
      <3>4. Aligned(at, 0, j)'
        BY <1>5, <1>6, <3>1, <3>2, <3>3 DEF Aligned
      <3> QED BY <1>6, <3>1, <3>3, <3>4 DEF Buffered
    <2>2. CASE ~\E j \in DOMAIN asked : idxLast > 0 /\ Aligned(at, k, j)
      <3>1. h[0 + 1] # 66
        <4>1. 1 \in 1 .. Len(f) /\ 0 + 1 = 1
          BY <1>2
        <4> QED BY <1>2, <1>3, <4>1
      <3> QED BY <1>1, <1>6, <2>2, <3>1 DEF Buffered
    <2> QED BY <2>1, <2>2
  <1> QED BY <1>3, <1>7, <1>8, <1>9 DEF FrameInv
\* The main loop takes the next byte of the host.
LEMMA FrameInvReceive == ASSUME FrameInv, FrameTypeOK', Receive PROVE FrameInv'
  <1>1. PICK g \in Seq(Octet), k \in Nat, at \in [DOMAIN done -> DOMAIN asked] :
               Reading(g, k) /\ Assigned(at, k) /\ Buffered(g, at, k)
    BY DEF FrameInv
  <1> DEFINE n == Len(asked)
             b == Head(stream)
  <1>2. /\ Len(g) \in Nat /\ k + 1 \in 1 .. Len(g) /\ b = g[k + 1]
        /\ Len(stream') = Len(g) - (k + 1)
        /\ \A i \in 1 .. Len(stream') : stream'[i] = g[(k + 1) + i]
    <2>1. stream \in Seq(Octet) /\ stream # <<>> /\ stream' = Tail(stream)
      BY DEF Receive, FrameInv, FrameTypeOK
    <2>2. /\ Len(stream') = Len(stream) - 1 /\ Len(stream) \in Nat \ {0}
          /\ \A i \in 1 .. Len(stream') : stream'[i] = stream[i + 1]
      BY <2>1, HeadTailProperties, LenProperties, EmptySeq
    <2>3. b = stream[1]
      BY <2>1
    <2>4. Len(g) \in Nat
      BY <1>1, LenProperties
    <2>5. Len(stream) = Len(g) - k /\ \A i \in 1 .. Len(stream) : stream[i] = g[k + i]
      BY <1>1 DEF Reading
    <2>6. ASSUME NEW i \in 1 .. Len(stream') PROVE stream'[i] = g[(k + 1) + i]
      <3>1. i + 1 \in 1 .. Len(stream) /\ k + (i + 1) = (k + 1) + i
        BY <2>2, <2>6
      <3> QED BY <2>2, <2>5, <3>1
    <2>7. 1 \in 1 .. Len(stream)
      BY <2>2
    <2> QED BY <2>2, <2>3, <2>4, <2>5, <2>6, <2>7
  <1>3. /\ idxLast \in 0 .. BuffLen - 1 /\ idxLast' = idxLast + 1
        /\ bytes'[idxLast] = b /\ \A i \in 0 .. BuffLen - 1 : i # idxLast => bytes'[i] = bytes[i]
        /\ UNCHANGED <<asked, done>>
    BY DEF Receive, FrameInv, FrameTypeOK
  <1>4. n \in Nat /\ DOMAIN asked = 1 .. n /\ (asked # <<>> => n \in 1 .. n)
    BY LenProperties DEF FrameInv, FrameTypeOK
  <1>5. /\ asked # <<>> /\ Len(asked[n]) <= Len(g) /\ Len(asked[n]) \in Nat /\ Len(asked[n]) >= 4
        /\ \A i \in 1 .. Len(asked[n]) : g[i] = asked[n][i]
    <2>1. g # <<>>
      BY <1>2
    <2>2. asked # <<>> /\ asked[n] \in Frames
      BY <1>1, <1>4, <2>1, SMTT(60) DEF Reading, FrameInv, FrameTypeOK
    <2>3. Len(asked[n]) \in Nat /\ Len(asked[n]) >= 4
      <3>1. asked[n] \in Seq(Octet) /\ Len(asked[n]) >= 4
        BY <2>2, FrameShape
      <3>2. Len(asked[n]) \in Nat
        BY <3>1, LenProperties
      <3> QED BY <3>1, <3>2
    <2> QED BY <1>1, <2>1, <2>2, <2>3 DEF Reading
  <1>6. idxLast = 0 => bytes'[0] = b
    BY <1>3
  <1> HIDE DEF n, b
  <1>7. Reading(g, k + 1)'
    <2>1. k + 1 \in 0 .. Len(g)
      BY <1>2
    <2> QED BY <1>1, <1>2, <1>3, <2>1 DEF Reading
  <1>8. Assigned(at, k + 1)'
    BY <1>1, <1>3 DEF Assigned
  <1>9. Buffered(g, at, k + 1)'
    <2>1. CASE idxLast = 0 /\ k = 0
      <3>1. \A i \in DOMAIN done : at[i] < n
        BY <1>1, <2>1 DEF Assigned, n
      <3>2. bytes'[0] = asked[n][1]
        BY <1>2, <1>5, <1>6, <2>1
      <3>3. \A i \in 1 .. Len(asked[n]) : i <= 1 => i = 1 /\ i - 1 = 0
        BY <1>5
      <3>4. Aligned(at, 1, n)'
        BY <1>3, <1>5, <2>1, <3>1, <3>2, <3>3 DEF Aligned, n
      <3>5. k + 1 = 1 /\ idxLast' > 0 /\ n \in DOMAIN asked'
        BY <1>3, <1>4, <1>5, <2>1
      <3>6. Aligned(at, k + 1, n)'
        BY <3>4, <3>5
      <3> QED BY <1>3, <3>5, <3>6 DEF Buffered, n
    <2>2. CASE idxLast = 0 /\ k > 0
      <3>1. CASE b # 43
        BY <1>6, <2>2, <3>1 DEF Buffered
      <3>2. CASE b = 43 /\ k + 1 < Len(g)
        <4>1. k + 1 \in 2 .. Len(g) - 1
          BY <1>2, <2>2, <3>2
        <4>2. g[(k + 1) + 1] # 66
          BY <1>1, <1>2, <3>2, <4>1 DEF Reading
        <4> QED BY <1>3, <2>2, <4>2 DEF Buffered
      <3>3. CASE ~(k + 1 < Len(g))
        BY <1>3, <2>2, <3>3 DEF Buffered
      <3> QED BY <3>1, <3>2, <3>3
    <2>3. CASE idxLast > 0 /\ bytes[0] # 43
      <3>1. bytes'[0] = bytes[0]
        BY <1>3, <2>3, FrameAssumption
      <3> QED BY <2>3, <3>1 DEF Buffered
    <2>4. CASE idxLast > 1 /\ bytes[1] # 66
      <3>1. bytes'[1] = bytes[1]
        BY <1>3, <2>4, FrameAssumption
      <3> QED BY <1>3, <2>4, <3>1 DEF Buffered
    <2>5. CASE idxLast = 1 /\ (k < Len(g) => g[k + 1] # 66)
      BY <1>2, <1>3, <2>5 DEF Buffered
    <2>6. CASE idxLast > 0 /\ \E j \in DOMAIN asked : Aligned(at, k, j)
      <3>1. PICK j \in DOMAIN asked : Aligned(at, k, j)
        BY <2>6
      <3>2. Len(asked[j]) \in Nat
        BY <1>4, FrameShape, LenProperties DEF FrameInv, FrameTypeOK
      <3>3. ASSUME NEW i \in 1 .. Len(asked[j]), i <= idxLast + 1
            PROVE  bytes'[i - 1] = asked[j][i]
        <4>1. CASE i <= idxLast
          <5>1. i - 1 # idxLast /\ i - 1 \in 0 .. BuffLen - 1
            BY <1>3, <3>2, <4>1, FrameAssumption
          <5> QED BY <1>3, <3>1, <4>1, <5>1 DEF Aligned
        <4>2. CASE i = idxLast + 1
          <5>1. j = n /\ k = idxLast /\ i - 1 = idxLast
            BY <1>3, <3>1, <3>2, <4>2 DEF Aligned, n
          <5> QED BY <1>2, <1>3, <1>5, <4>2, <5>1
        <4> QED BY <1>3, <3>2, <3>3, <4>1, <4>2
      <3>4. idxLast + 1 < Len(asked[j]) => j = n /\ k + 1 = idxLast + 1
        BY <1>3, <3>1, <3>2 DEF Aligned, n
      <3>5. Aligned(at, k + 1, j)'
        BY <1>3, <3>1, <3>3, <3>4 DEF Aligned, n
      <3> QED BY <1>3, <2>6, <3>5 DEF Buffered
    <2> QED BY <1>1, <1>3, <2>1, <2>2, <2>3, <2>4, <2>5, <2>6 DEF Buffered
  <1> QED BY <1>1, <1>3, <1>7, <1>8, <1>9 DEF FrameInv
\* What is forwarded or run is the whole frame the buffer begins with.
LEMMA WholeFrame ==
    ASSUME FrameTypeOK, WellFormed, NEW g, NEW at, NEW k, Buffered(g, at, k)
    PROVE  \E j \in DOMAIN asked :
              /\ Aligned(at, k, j)
              /\ asked[j] = <<43, 66>> \o SubSeq(Received, 3, idxLast)
  <1>1. idxLast \in 4 .. BuffLen - 1 /\ bytes[0] = 43 /\ bytes[1] = 66 /\ idxLast = bytes[2] + 2
    BY DEF WellFormed, FrameTypeOK
  <1>2. PICK j \in DOMAIN asked : Aligned(at, k, j)
    BY <1>1 DEF Buffered
  <1> DEFINE f == asked[j]
             part == SubSeq(Received, 3, idxLast)
             head == <<43, 66>>
  <1>3. /\ f \in Seq(Octet) /\ Len(f) >= 4 /\ Len(f) \in Nat
        /\ f[1] = 43 /\ f[2] = 66 /\ f[3] = Len(f) - 2
    <2>1. f \in Frames
      BY DEF FrameTypeOK
    <2>2. f \in Seq(Octet)
      BY <2>1, FrameShape
    <2> QED BY <2>1, <2>2, FrameShape, LenProperties
  <1>4. \A i \in 1 .. Len(f) : i <= idxLast => bytes[i - 1] = f[i]
    BY <1>2 DEF Aligned
  <1>5. Len(f) = idxLast
    <2>1. 3 \in 1 .. Len(f) /\ 3 <= idxLast /\ 3 - 1 = 2
      BY <1>1, <1>3
    <2>2. bytes[2] = Len(f) - 2
      BY <1>3, <1>4, <2>1
    <2> QED BY <1>1, <1>3, <2>2
  <1>6. \A i \in 3 .. idxLast : Received[i] = f[i] /\ Received[i] \in Octet
    <2>1. ASSUME NEW i \in 3 .. idxLast PROVE Received[i] = f[i] /\ f[i] \in Octet
      <3>1. i \in 1 .. idxLast /\ i \in 1 .. Len(f) /\ i <= idxLast
        BY <1>1, <1>5
      <3>2. f[i] \in Octet
        BY <1>3, <3>1
      <3> QED BY <1>4, <3>1, <3>2 DEF Received
    <2> QED BY <2>1
  <1> HIDE DEF f
  <1>7. /\ part \in Seq(Octet) /\ Len(part) = idxLast - 2
        /\ \A i \in 1 .. idxLast - 2 : part[i] = Received[i + 2]
    <2>1. /\ part \in Seq(Octet)
          /\ Len(part) = IF 3 <= idxLast THEN idxLast - 3 + 1 ELSE 0
          /\ \A i \in 1 .. idxLast - 3 + 1 : part[i] = Received[3 + i - 1]
      <3>1. 3 \in Int /\ idxLast \in Int
        BY <1>1
      <3> QED BY <1>6, <3>1, SubSeqProperties
    <2>2. ASSUME NEW i \in 1 .. idxLast - 2 PROVE part[i] = Received[i + 2]
      <3>1. i \in 1 .. idxLast - 3 + 1 /\ 3 + i - 1 = i + 2
        BY <1>1
      <3> QED BY <2>1, <3>1
    <2> HIDE DEF part
    <2> QED BY <1>1, <2>1, <2>2
  <1>8. head \in Seq(Octet) /\ Len(head) = 2 /\ head[1] = 43 /\ head[2] = 66
    BY DEF Octet
  <1> HIDE DEF part, head
  <1>9. /\ head \o part \in Seq(Octet) /\ Len(head \o part) = idxLast
        /\ \A i \in 1 .. idxLast : (head \o part)[i] = IF i <= 2 THEN head[i] ELSE part[i - 2]
    <2>1. /\ head \o part \in Seq(Octet) /\ Len(head \o part) = Len(head) + Len(part)
          /\ \A i \in 1 .. Len(head) + Len(part) :
               (head \o part)[i] = IF i <= Len(head) THEN head[i] ELSE part[i - Len(head)]
      <3>1. head \in Seq(Octet) /\ part \in Seq(Octet)
        BY <1>7, <1>8
      <3> QED BY <3>1, ConcatProperties, Zenon
    <2> QED BY <1>1, <1>7, <1>8, <2>1, SMTT(60)
  <1>10. ASSUME NEW i \in 1 .. idxLast PROVE f[i] = (head \o part)[i]
    <2>1. CASE i <= 2
      <3>1. i = 1 \/ i = 2
        BY <1>1, <2>1
      <3> QED BY <1>3, <1>8, <1>9, <2>1, <3>1
    <2>2. CASE i > 2
      <3>1. i - 2 \in 1 .. idxLast - 2 /\ i - 2 + 2 = i /\ i \in 3 .. idxLast /\ ~(i <= 2)
        BY <1>1, <2>2
      <3>2. (head \o part)[i] = part[i - 2]
        BY <1>9, <3>1
      <3>3. part[i - 2] = Received[i]
        BY <1>7, <3>1
      <3> QED BY <1>6, <3>1, <3>2, <3>3
    <2>3. i <= 2 \/ i > 2
      BY <1>1
    <2> QED BY <2>1, <2>2, <2>3, Zenon
  <1>11. f = head \o part
    BY <1>3, <1>5, <1>9, <1>10, SeqEqual
  <1> QED BY <1>2, <1>11 DEF f, head, part

\* The main loop looks at what it has received.
LEMMA FrameInvCheck == ASSUME FrameInv, FrameTypeOK', Check PROVE FrameInv'
  <1>1. PICK g \in Seq(Octet), k \in Nat, at \in [DOMAIN done -> DOMAIN asked] :
               Reading(g, k) /\ Assigned(at, k) /\ Buffered(g, at, k)
    BY DEF FrameInv
  <1>2. /\ UNCHANGED <<asked, stream, bytes>>
        /\ idxLast' = IF AtNewline THEN 0 ELSE idxLast
        /\ IsMessage \/ IsCommand => AtNewline /\ WellFormed
    BY DEF Check, IsMessage, IsCommand, WellFormed
  <1>3. Reading(g, k)'
    BY <1>1, <1>2 DEF Reading
  <1>4. CASE Ignore
    <2>1. done' = done
      BY <1>4 DEF Ignore
    <2>2. Assigned(at, k)'
      BY <1>1, <1>2, <2>1 DEF Assigned
    <2>3. Buffered(g, at, k)'
      <3>1. CASE AtNewline
        BY <1>2, <3>1 DEF Buffered
      <3>2. CASE ~AtNewline
        BY <1>1, <1>2, <2>1, <3>2 DEF Buffered, Aligned
      <3> QED BY <3>1, <3>2
    <2> QED BY <1>1, <1>2, <1>3, <2>1, <2>2, <2>3 DEF FrameInv
  <1>5. CASE Forward \/ RunMux \/ RunSpeed \/ RunInit
    <2> DEFINE part == SubSeq(Received, 3, idxLast)
               n == Len(done)
    <2>1. AtNewline /\ WellFormed /\ done' = Append(done, part)
      BY <1>2, <1>5 DEF Forward, RunMux, RunSpeed, RunInit
    <2>2. PICK j \in DOMAIN asked : Aligned(at, k, j) /\ asked[j] = <<43, 66>> \o part
      BY <1>1, <2>1, WholeFrame DEF FrameInv
    <2>3. /\ n \in Nat /\ DOMAIN done = 1 .. n /\ DOMAIN done' = 1 .. n + 1
          /\ done'[n + 1] = part /\ \A i \in 1 .. n : done'[i] = done[i]
      <3>1. done \in Seq(Seq(Octet))
        BY DEF FrameInv, FrameTypeOK
      <3> HIDE DEF part
      <3> QED BY <2>1, <3>1
    <2>4. asked \in Seq(Frames) /\ DOMAIN asked = 1 .. Len(asked) /\ Len(asked) \in Nat
      BY LenProperties DEF FrameInv, FrameTypeOK
    <2> HIDE DEF part, n
    <2>5. PICK to \in [DOMAIN done' -> DOMAIN asked'] :
                to[n + 1] = j /\ \A i \in 1 .. n : to[i] = at[i]
      <3> DEFINE t == [i \in 1 .. n + 1 |-> IF i <= n THEN at[i] ELSE j]
      <3>1. /\ t \in [DOMAIN done' -> DOMAIN asked'] /\ t[n + 1] = j
            /\ \A i \in 1 .. n : t[i] = at[i]
        BY <1>1, <1>2, <2>3
      <3> QED BY <3>1
    <2>6. \A i \in 1 .. n : at[i] < j /\ at[i] \in Nat
      <3>1. \A i \in 1 .. n : at[i] \in 1 .. Len(asked)
        BY <1>1, <2>3, <2>4
      <3>2. \A i \in 1 .. n : at[i] < j
        BY <2>2, <2>3 DEF Aligned
      <3> QED BY <2>4, <3>1, <3>2
    <2>7. Assigned(to, k)'
      <3>1. ASSUME NEW i \in 1 .. n + 1, NEW l \in 1 .. n + 1, i < l PROVE to[i] < to[l]
        <4>1. i \in 1 .. n
          BY <2>3, <3>1
        <4>2. CASE l = n + 1
          BY <2>5, <2>6, <4>1, <4>2
        <4>3. CASE l # n + 1
          <5>1. l \in 1 .. n
            BY <2>3, <4>3
          <5> QED BY <1>1, <2>3, <2>5, <3>1, <4>1, <5>1 DEF Assigned
        <4> QED BY <4>2, <4>3
      <3>2. ASSUME NEW i \in 1 .. n
            PROVE  /\ i <= to[i] /\ asked[to[i]] = <<43, 66>> \o done'[i]
                   /\ k = 0 => to[i] < Len(asked)
        BY <1>1, <2>3, <2>5 DEF Assigned
      <3>3. n + 1 <= j
        <4>1. CASE n = 0
          BY <2>4, <4>1
        <4>2. CASE n > 0
          <5>1. n \in 1 .. n /\ n <= at[n]
            BY <1>1, <2>3, <4>2 DEF Assigned
          <5> QED BY <2>3, <2>4, <2>6, <5>1
        <4> QED BY <2>3, <4>1, <4>2
      <3>4. k = 0 => j < Len(asked)
        BY <1>1, <2>2, <2>4 DEF Aligned
      <3>5. ASSUME NEW i \in 1 .. n + 1
            PROVE  /\ i <= to[i] /\ asked[to[i]] = <<43, 66>> \o done'[i]
                   /\ k = 0 => to[i] < Len(asked)
        <4>1. CASE i = n + 1
          BY <2>2, <2>3, <2>5, <3>3, <3>4, <4>1
        <4>2. CASE i # n + 1
          <5>1. i \in 1 .. n
            BY <2>3, <4>2
          <5> QED BY <3>2, <5>1
        <4> QED BY <4>1, <4>2
      <3> QED BY <1>2, <2>3, <2>5, <3>1, <3>5 DEF Assigned
    <2>8. Buffered(g, to, k)'
      BY <1>2, <2>1 DEF Buffered
    <2> QED BY <1>1, <1>3, <2>5, <2>7, <2>8 DEF FrameInv
  <1> QED BY <1>4, <1>5 DEF Check

LEMMA FrameInvStep == FrameInv /\ HeaderOnlyAtStart /\ [Next]_vars => FrameInv'
  <1> SUFFICES ASSUME FrameInv, HeaderOnlyAtStart, [Next]_vars PROVE FrameInv'
    OBVIOUS
  <1>1. FrameTypeOK'
    BY FrameTypeStep DEF FrameInv
  <1>2. ASSUME NEW f \in Frames, NEW end \in Ends, HostFrame(f, end) PROVE FrameInv'
    BY <1>1, <1>2, FrameInvHost
  <1>3. CASE Check
    BY <1>1, <1>3, FrameInvCheck
  <1>4. CASE Receive
    BY <1>1, <1>4, FrameInvReceive
  <1>5. CASE ReceiveNothing \/ UNCHANGED vars
    <2>1. UNCHANGED <<asked, stream, bytes, idxLast, done>>
      BY <1>5 DEF ReceiveNothing, vars
    <2>2. PICK g \in Seq(Octet), k \in Nat, at \in [DOMAIN done -> DOMAIN asked] :
                 Reading(g, k) /\ Assigned(at, k) /\ Buffered(g, at, k)
      BY DEF FrameInv
    <2>3. Reading(g, k)' /\ Assigned(at, k)'
      BY <2>1, <2>2 DEF Reading, Assigned
    <2>4. Buffered(g, at, k)'
      BY <2>1, <2>2 DEF Buffered, Aligned
    <2> QED BY <1>1, <2>1, <2>2, <2>3, <2>4 DEF FrameInv
  <1> QED BY <1>2, <1>3, <1>4, <1>5 DEF Next

LEMMA FrameInvSound == FrameInv => TypeOK /\ DoneAsAsked
  <1> SUFFICES ASSUME FrameInv PROVE TypeOK /\ DoneAsAsked
    OBVIOUS
  <1>1. PICK k \in Nat, at \in [DOMAIN done -> DOMAIN asked] : Assigned(at, k)
    BY DEF FrameInv
  <1>2. DoneAsAsked
    BY <1>1 DEF DoneAsAsked, Assigned
  <1>3. Len(done) <= MaxFrames
    <2>1. /\ Len(done) \in Nat /\ DOMAIN done = 1 .. Len(done)
          /\ Len(asked) \in Nat /\ DOMAIN asked = 1 .. Len(asked) /\ Len(asked) <= MaxFrames
      BY LenProperties DEF FrameInv, FrameTypeOK
    <2>2. CASE Len(done) = 0
      BY <2>2, FrameAssumption
    <2>3. CASE Len(done) > 0
      <3>1. Len(done) \in DOMAIN done
        BY <2>1, <2>3
      <3>2. Len(done) <= at[Len(done)] /\ at[Len(done)] \in 1 .. Len(asked)
        BY <1>1, <2>1, <3>1 DEF Assigned
      <3> QED BY <2>1, <3>2, FrameAssumption
    <2> QED BY <2>1, <2>2, <2>3
  <1>4. success \in 0 .. MaxFrames
    BY <1>3, FrameAssumption, LenProperties DEF FrameInv, FrameTypeOK
  <1> QED BY <1>2, <1>4 DEF FrameInv, FrameTypeOK, TypeOK, Octet

\* Type correctness, with a bound that takes the whole argument: no more
\* commands succeed than the host sent frames (main.c:126-182).
THEOREM FrameTypes == HeaderOnlyAtStart => (Spec => []TypeOK)
  <1> SUFFICES ASSUME HeaderOnlyAtStart PROVE Spec => []TypeOK
    OBVIOUS
  <1>1. FrameInv /\ [Next]_vars => FrameInv'
    BY FrameInvStep
  <1>2. FrameInv => TypeOK
    BY FrameInvSound
  <1> QED BY <1>1, <1>2, FrameInvInit, PTL DEF Spec

\* Whatever the stack and older frames left in a buffer of any length: if the
\* host's payloads hold no header, what is forwarded or run is always one whole
\* frame of the host, in the host's order and once (main.c:126-196).
THEOREM FramesDoneAsAsked == HeaderOnlyAtStart => (Spec => []DoneAsAsked)
  <1> SUFFICES ASSUME HeaderOnlyAtStart PROVE Spec => []DoneAsAsked
    OBVIOUS
  <1>1. FrameInv /\ [Next]_vars => FrameInv'
    BY FrameInvStep
  <1>2. FrameInv => DoneAsAsked
    BY FrameInvSound
  <1> QED BY <1>1, <1>2, FrameInvInit, PTL DEF Spec
===============================================================================
