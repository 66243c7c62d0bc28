----------------------------- MODULE CommProofs -----------------------------
(***************************************************************************)
(* Theorems about CommHandler for any set of protocols, any length of an   *)
(* SCI answer, and any number of calls and disturbances.                   *)
(***************************************************************************)
EXTENDS CommHandler, SequenceTheorems, TLAPS

Reading == reader \in {"match", "ccd", "j1850", "store", "set"}

\* A call writes at most three times and has room for the frames it asks for.
TypeInv ==
    /\ TypeOK
    /\ pc # "idle" => n >= 1 /\ protocol \in Protocols
    /\ pc \in {"reset", "clear", "write"} => tries < 3
    /\ pc \in {"more", "await", "take"} => left > 0
    /\ Len(got) + left <= 1 + More
    /\ Reading => hand \in Frames

LEMMA TypeInvInit == Init => TypeInv
  <1> SUFFICES ASSUME Init PROVE TypeInv
    OBVIOUS
  <1>1. got \in Seq(Frames) /\ Len(got) = 0 /\ line \in Seq(Frames)
    BY DEF Init
  <1>2. answered \subseteq 1 .. n /\ n \in 0 .. MaxCalls /\ tries \in 0 .. 3 /\ left = 0
    BY HandlerAssumption DEF Init
  <1>3. event \in BOOLEAN /\ open \in BOOLEAN
    BY DEF Init
  <1>4. buffer = <<>> /\ hand = Nothing /\ protocol = "none" /\ pc = "idle" /\ reader = "read" /\ ui = "idle"
    BY DEF Init
  <1> QED BY <1>1, <1>2, <1>3, <1>4, HandlerAssumption DEF TypeInv, TypeOK, Reading

LEMMA AnswerIsFrames ==
    ASSUME NEW p \in Protocols, NEW r \in 0 .. MaxCalls
    PROVE  Answer(r, p) \in Seq(Frames)
  <1> DEFINE len == IF p = "SCI" THEN 1 + More ELSE 1
  <1>1. len \in Nat /\ \A i \in 1 .. len : Frame(p, r, i) \in Frames
    BY HandlerAssumption DEF Frame, Frames
  <1> QED BY <1>1 DEF Answer

LEMMA TypeInvNext == TypeInv /\ [Next]_vars => TypeInv'
  <1> SUFFICES ASSUME TypeInv, [Next]_vars PROVE TypeInv'
    OBVIOUS
  <1> USE HandlerAssumption DEF TypeInv, TypeOK, Reading, caller, readers, shared, rest
  <1>1. ASSUME NEW p \in Protocols, Call(p) PROVE TypeInv'
    <2>1. got' \in Seq(Frames) /\ Len(got') = 0
      BY <1>1 DEF Call
    <2> QED BY <1>1, <2>1 DEF Call
  <1>2. CASE ResetEvent \/ ClearBuffer \/ Response \/ ResetAgain \/ NextFrame \/ NoMore
    <2>1. CASE ResetEvent \/ ResetAgain
      BY <2>1 DEF ResetEvent, ResetAgain
    <2>2. CASE Response \/ NextFrame
      BY <2>2 DEF Response, NextFrame
    <2>4. CASE ClearBuffer
      <3>1. buffer' \in {<<>>} \cup {<<f>> : f \in Frames}
        BY <2>4 DEF ClearBuffer
      <3> QED BY <2>4, <3>1 DEF ClearBuffer
    <2>3. CASE NoMore
      BY <2>3 DEF NoMore, Return
    <2> QED BY <1>2, <2>1, <2>2, <2>3, <2>4
  <1>3. CASE Write
    <2>0. n \in 0 .. MaxCalls /\ n >= 1 /\ protocol \in Protocols
      BY <1>3 DEF Write
    <2>1. line' \in Seq(Frames)
      <3>1. Answer(n, protocol) \in Seq(Frames)
        BY <2>0, AnswerIsFrames
      <3>2. line \o Answer(n, protocol) \in Seq(Frames)
        BY <3>1, ConcatProperties
      <3> QED BY <1>3, <3>2 DEF Write
    <2>2. answered' \subseteq 1 .. n
      <3>1. n \in 1 .. n
        BY <2>0
      <3> QED BY <1>3, <3>1 DEF Write
    <2> QED BY <1>3, <2>1, <2>2 DEF Write
  <1>4. CASE Reopen
    BY <1>4 DEF Reopen, Return
  <1>5. ASSUME NEW s \in {<<>>} \cup {<<f>> : f \in Frames}
        PROVE  s \in Seq(Frames) /\ Len(s) <= 1
    <2>1. CASE s = <<>>
      BY <2>1
    <2>2. ASSUME NEW f \in Frames, s = <<f>> PROVE s \in Seq(Frames) /\ Len(s) <= 1
      BY <2>2
    <2> QED BY <1>5, <2>1, <2>2
  <1>6. ASSUME pc \in {"wait", "copy"}, NEW s \in {<<>>} \cup {<<f>> : f \in Frames}, GoOn(s),
               UNCHANGED <<n, tries, left, answered, readers, shared, line, rest>>
        PROVE  TypeInv'
    BY <1>5, <1>6 DEF GoOn, Return
  <1>7. CASE Copy
    BY <1>6, <1>7 DEF Copy
  <1>8. CASE Timeout
    BY <1>6, <1>8 DEF Timeout
  <1>9. CASE TakeFrame
    <2>1. got' \in Seq(Frames) /\ Len(got') <= Len(got) + 1
      BY <1>5, <1>9, ConcatProperties DEF TakeFrame
    <2>2. left' \in 0 .. More /\ Len(got') + left' <= 1 + More
      BY <1>9, <2>1 DEF TakeFrame
    <2> QED BY <1>9, <2>1, <2>2, SMTT(60) DEF TakeFrame, Return
  <1>10. CASE ReadFrame
    <2>1. hand' \in Frames /\ line' \in Seq(Frames)
      BY <1>10, HeadTailProperties DEF ReadFrame
    <2> QED BY <1>10, <2>1 DEF ReadFrame
  <1>11. CASE Match \/ ClassifyCCD \/ ClassifyJ1850 \/ Store \/ SetEvent \/ ReaderEnds
    BY <1>11 DEF Match, ClassifyCCD, ClassifyJ1850, Store, SetEvent, ReaderEnds
  <1>12. CASE SendCommand \/ CommandReset \/ PortCloses
    <2>1. CASE SendCommand
      BY <2>1 DEF SendCommand
    <2>2. CASE CommandReset
      BY <2>2 DEF CommandReset
    <2>3. CASE PortCloses
      <3>1. reader' \in {"gone", reader} /\ open' = FALSE
        BY <2>3 DEF PortCloses
      <3>2. /\ pc' = pc /\ n' = n /\ tries' = tries /\ left' = left /\ got' = got
            /\ answered' = answered /\ hand' = hand /\ line' = line /\ ui' = ui
            /\ protocol' = protocol /\ buffer' = buffer /\ event' = event
        BY <2>3 DEF PortCloses
      <3>3. Reading' => Reading
        BY <3>1
      <3>4. reader' \in {"read", "match", "ccd", "j1850", "store", "set", "gone"} /\ {event', open'} \subseteq BOOLEAN
        BY <3>1, <3>2
      <3> QED BY <3>2, <3>3, <3>4, Zenon
    <2> QED BY <1>12, <2>1, <2>2, <2>3
  <1>13. ASSUME NEW p \in Protocols \ {"SCI"}, Talk(p) PROVE TypeInv'
    <2>1. Frame(p, 0, 0) \in Frames
      BY DEF Frame, Frames
    <2>2. line' \in Seq(Frames)
      BY <1>13, <2>1, AppendProperties DEF Talk
    <2> QED BY <1>13, <2>2 DEF Talk
  <1>14. CASE UNCHANGED vars
    BY <1>14 DEF vars
  <1> HIDE DEF TypeInv
  <1> QED BY <1>1, <1>2, <1>3, <1>4, <1>7, <1>8, <1>9, <1>10, <1>11, <1>12, <1>13, <1>14
       DEF Next, CallerStep, ReaderStep

\* Wherever the threads are delayed, whatever is late and whoever interferes, a
\* call writes three times at most and takes no more frames than it asked for
\* (ArduinoCommHandler.cs:51-117).
THEOREM CommTypes == Spec => []TypeOK
  <1>1. TypeInv => TypeOK
    BY DEF TypeInv
  <1> QED BY <1>1, TypeInvInit, TypeInvNext, PTL DEF Spec

-------------------------------------------------------------------------------
(* Answers in time and prompt threads *)

\* The number of frames of an answer.
Whole(p) == IF p = "SCI" THEN 1 + More ELSE 1

\* Traffic that is no answer is never on SCI.
Noise(f) == f.req = 0 /\ f.proto # "SCI"
AllNoise(s) == \A i \in DOMAIN s : Noise(s[i])

\* s holds the frames of the answer to r from the k-th on, in order, with nothing
\* but other traffic between them.
Holds(s, r, p, k) ==
    /\ \A i \in DOMAIN s : Noise(s[i]) \/ \E j \in k .. Whole(p) : s[i] = Frame(p, r, j)
    /\ \A j \in k .. Whole(p) : \E i \in DOMAIN s : s[i] = Frame(p, r, j)
    /\ \A i, j \in DOMAIN s : i < j /\ ~Noise(s[i]) /\ ~Noise(s[j]) => s[i].part < s[j].part

\* The reader is between two frames, or with one that it will drop.
Dropping ==
    /\ reader \in {"read", "match", "ccd", "j1850"}
    /\ reader # "read" => Noise(hand)
    /\ reader \in {"ccd", "j1850"} => hand.proto = protocol
    /\ reader = "j1850" => protocol # "CCD"

\* The reader is with the k-th frame of the answer.
Handling(k) ==
    /\ Reading /\ hand = Frame(protocol, n, k)
    /\ reader = "j1850" => protocol # "CCD"
    /\ reader = "set" => buffer = <<hand>>

\* The k-th frame is yet to come, or handed over.
Coming(k) ==
    /\ ~event
    /\ \/ Dropping /\ Holds(line, n, protocol, k)
       \/ Handling(k) /\ Holds(line, n, protocol, k + 1)
HandedOver(k) ==
    /\ event /\ reader = "read"
    /\ buffer = <<Frame(protocol, n, k)>> /\ Holds(line, n, protocol, k + 1)

\* Nothing on the line is for this call.
Unanswered ==
    /\ got = <<>> /\ pc \notin {"idle", "copy", "take"}
    /\ pc # "reset" => ~event
    /\ Dropping /\ AllNoise(line)

\* The call has the first k frames of its answer, and the next is on its way.
Answered(k) ==
    /\ k = Len(got) /\ \A i \in 1 .. k : got[i] = Frame(protocol, n, i)
    /\ \/ pc \in {"wait", "copy"} /\ k = 0
       \/ pc \in {"more", "await", "take"} /\ k >= 1 /\ left = Whole(protocol) - k
    /\ pc \in {"wait", "await"} => Coming(k + 1) \/ HandedOver(k + 1)
    /\ pc \in {"copy", "take"} => HandedOver(k + 1)
    /\ pc = "more" => reader = "read" /\ Holds(line, n, protocol, k + 1)

CallInv ==
    /\ pc = "idle" => Dropping /\ AllNoise(line)
    /\ pc \in {"reset", "clear", "write", "wait", "copy"} => left = Whole(protocol) - 1
    /\ pc # "idle" => (n \notin answered /\ Unanswered) \/ (n \in answered /\ \E k \in Nat : Answered(k))

Outcomes == [req : Nat, proto : Protocols, outcome : {"ok", "exception"}, got : Seq(Frames)]

\* What was returned belongs to calls that are over, and is right.
Past ==
    /\ results \in Seq(Outcomes)
    /\ \A i \in DOMAIN results : results[i].req <= IF pc = "idle" THEN n ELSE n - 1
    /\ AnswersItsRequest

CalmInv == calm => open /\ ui = "idle" /\ CallInv /\ Past

LEMMA FrameFields ==
    ASSUME NEW p, NEW r, NEW i
    PROVE  Frame(p, r, i).proto = p /\ Frame(p, r, i).req = r /\ Frame(p, r, i).part = i
  BY DEF Frame

LEMMA WholeType == \A p : Whole(p) \in Nat /\ Whole(p) >= 1
  BY HandlerAssumption DEF Whole

LEMMA AnswerShape ==
    ASSUME NEW p \in Protocols, NEW r \in 0 .. MaxCalls
    PROVE  /\ Answer(r, p) \in Seq(Frames) /\ Len(Answer(r, p)) = Whole(p)
           /\ \A i \in 1 .. Whole(p) : Answer(r, p)[i] = Frame(p, r, i)
  <1>1. Answer(r, p) \in Seq(Frames)
    BY AnswerIsFrames
  <1>2. Answer(r, p) = [i \in 1 .. Whole(p) |-> Frame(p, r, i)]
    BY DEF Answer, Whole
  <1> QED BY <1>1, <1>2, WholeType

\* A sequence of all the frames of an answer is the answer.
LEMMA AllFrames ==
    ASSUME NEW p \in Protocols, NEW r \in 0 .. MaxCalls, NEW s \in Seq(Frames),
           Len(s) = Whole(p), \A i \in 1 .. Whole(p) : s[i] = Frame(p, r, i)
    PROVE  s = Answer(r, p)
  BY AnswerShape, SeqEqual

\* An answer on a line without one.
LEMMA HoldsAnswer ==
    ASSUME NEW p \in Protocols, NEW r \in 1 .. MaxCalls, NEW s \in Seq(Frames), AllNoise(s)
    PROVE  Holds(s \o Answer(r, p), r, p, 1)
  <1> DEFINE a == Answer(r, p)
             t == s \o a
             w == Whole(p)
  <1>1. a \in Seq(Frames) /\ Len(a) = w /\ \A i \in 1 .. w : a[i] = Frame(p, r, i)
    BY AnswerShape
  <1>2. t \in Seq(Frames) /\ Len(t) = Len(s) + w
    BY <1>1, ConcatProperties
  <1>3. \A i \in 1 .. Len(s) : Noise(t[i])
    BY <1>1, ConcatProperties DEF AllNoise
  <1>4. \A i \in Len(s) + 1 .. Len(t) : i - Len(s) \in 1 .. w /\ t[i] = Frame(p, r, i - Len(s))
    <2> TAKE i \in Len(s) + 1 .. Len(t)
    <2>1. i - Len(s) \in 1 .. w
      BY <1>2, WholeType
    <2>2. t[i] = a[i - Len(s)]
      BY <1>1, <1>2, ConcatProperties
    <2> QED BY <1>1, <2>1, <2>2
  <1>5. \A j \in 1 .. w : j + Len(s) \in DOMAIN t /\ t[j + Len(s)] = Frame(p, r, j)
    <2> TAKE j \in 1 .. w
    <2>1. j + Len(s) \in Len(s) + 1 .. Len(t)
      BY <1>2, WholeType
    <2> QED BY <1>2, <1>4, <2>1
  <1>6. \A i, j \in DOMAIN t : i < j /\ ~Noise(t[i]) /\ ~Noise(t[j]) => t[i].part < t[j].part
    <2> SUFFICES ASSUME NEW i \in DOMAIN t, NEW j \in DOMAIN t, i < j, ~Noise(t[i]), ~Noise(t[j])
                 PROVE  t[i].part < t[j].part
      OBVIOUS
    <2>1. i \in Len(s) + 1 .. Len(t) /\ j \in Len(s) + 1 .. Len(t)
      BY <1>2, <1>3
    <2>2. t[i].part = i - Len(s) /\ t[j].part = j - Len(s)
      BY <1>4, <2>1, FrameFields
    <2> QED BY <2>1, <2>2
  <1>7. \A i \in DOMAIN t : Noise(t[i]) \/ \E j \in 1 .. w : t[i] = Frame(p, r, j)
    BY <1>2, <1>3, <1>4
  <1> HIDE DEF t, w
  <1>8. \A j \in 1 .. w : \E i \in DOMAIN t : t[i] = Frame(p, r, j)
    BY <1>5
  <1> QED BY <1>6, <1>7, <1>8 DEF Holds, t, w

\* What others say changes nothing.
LEMMA HoldsAppend ==
    ASSUME NEW p, NEW r, NEW k \in Nat, NEW s \in Seq(Frames), Holds(s, r, p, k),
           NEW f \in Frames, Noise(f)
    PROVE  Holds(Append(s, f), r, p, k)
  <1> DEFINE t == Append(s, f)
  <1>1. t \in Seq(Frames) /\ Len(t) = Len(s) + 1 /\ t[Len(t)] = f /\ \A i \in 1 .. Len(s) : t[i] = s[i]
    BY AppendProperties
  <1>2. DOMAIN s = 1 .. Len(s) /\ DOMAIN t = 1 .. Len(t) /\ Len(s) \in Nat
    BY <1>1
  <1> HIDE DEF t
  <1>3. \A i \in DOMAIN t : i \in DOMAIN s \/ Noise(t[i])
    BY <1>1, <1>2
  <1>4. \A i \in DOMAIN s : i \in DOMAIN t /\ t[i] = s[i]
    BY <1>1, <1>2
  <1>5. \A i \in DOMAIN t : Noise(t[i]) \/ \E j \in k .. Whole(p) : t[i] = Frame(p, r, j)
    BY <1>3, <1>4 DEF Holds
  <1>6. \A j \in k .. Whole(p) : \E i \in DOMAIN t : t[i] = Frame(p, r, j)
    BY <1>4 DEF Holds
  <1>7. \A i, j \in DOMAIN t : i < j /\ ~Noise(t[i]) /\ ~Noise(t[j]) => t[i].part < t[j].part
    BY <1>3, <1>4 DEF Holds
  <1>8. Holds(t, r, p, k)
    BY <1>5, <1>6, <1>7 DEF Holds
  <1> QED BY <1>8 DEF t

LEMMA NoiseAppend ==
    ASSUME NEW s \in Seq(Frames), AllNoise(s), NEW f \in Frames, Noise(f)
    PROVE  AllNoise(Append(s, f))
  BY AppendProperties DEF AllNoise

LEMMA NoiseTail ==
    ASSUME NEW s \in Seq(Frames), s # <<>>, AllNoise(s)
    PROVE  Noise(Head(s)) /\ AllNoise(Tail(s))
  BY HeadTailProperties DEF AllNoise

\* The first frame that is not noise is the first of the answer.
LEMMA HoldsTail ==
    ASSUME NEW p \in Protocols, NEW r \in 1 .. MaxCalls, NEW k \in Nat, NEW s \in Seq(Frames), s # <<>>,
           Holds(s, r, p, k)
    PROVE  \/ Noise(Head(s)) /\ Holds(Tail(s), r, p, k)
           \/ Head(s) = Frame(p, r, k) /\ Holds(Tail(s), r, p, k + 1)
  <1> DEFINE t == Tail(s)
             w == Whole(p)
  <1>1. t \in Seq(Frames) /\ Len(t) = Len(s) - 1 /\ Len(s) \in Nat \ {0} /\ \A i \in 1 .. Len(t) : t[i] = s[i + 1]
    BY HeadTailProperties
  <1>2. DOMAIN s = 1 .. Len(s) /\ DOMAIN t = 1 .. Len(t) /\ Head(s) = s[1] /\ 1 \in DOMAIN s
    BY <1>1
  <1>w. w \in Nat
    BY WholeType
  <1> HIDE DEF t, w
  <1>3. \A i \in DOMAIN t : i + 1 \in DOMAIN s /\ t[i] = s[i + 1]
    BY <1>1, <1>2
  <1>4. \A i \in DOMAIN s : i = 1 \/ (i - 1 \in DOMAIN t /\ t[i - 1] = s[i])
    <2> TAKE i \in DOMAIN s
    <2>1. i = 1 \/ (i - 1 \in DOMAIN t /\ (i - 1) + 1 = i)
      BY <1>1, <1>2
    <2> QED BY <2>1, <1>3
  <1>5. \A i \in DOMAIN s : Noise(s[i]) \/ \E j \in k .. w : s[i] = Frame(p, r, j)
    BY DEF Holds, w
  <1>6. \A j \in k .. w : \E i \in DOMAIN s : s[i] = Frame(p, r, j)
    BY DEF Holds, w
  <1>7. \A i, j \in DOMAIN s : i < j /\ ~Noise(s[i]) /\ ~Noise(s[j]) => s[i].part < s[j].part
    BY DEF Holds
  <1>8. \A j : ~Noise(Frame(p, r, j))
    BY FrameFields DEF Noise
  <1>9. \A i, j \in DOMAIN t : i < j /\ ~Noise(t[i]) /\ ~Noise(t[j]) => t[i].part < t[j].part
    <2> SUFFICES ASSUME NEW i \in DOMAIN t, NEW j \in DOMAIN t, i < j, ~Noise(t[i]), ~Noise(t[j])
                 PROVE  t[i].part < t[j].part
      OBVIOUS
    <2>1. i + 1 \in DOMAIN s /\ j + 1 \in DOMAIN s /\ i + 1 < j + 1
      BY <1>1, <1>2
    <2>2. t[i] = s[i + 1] /\ t[j] = s[j + 1]
      BY <1>3
    <2> QED BY <1>7, <2>1, <2>2
  <1>10. CASE Noise(s[1])
    <2>1. \A i \in DOMAIN t : Noise(t[i]) \/ \E j \in k .. w : t[i] = Frame(p, r, j)
      BY <1>3, <1>5
    <2>2. \A j \in k .. w : \E i \in DOMAIN t : t[i] = Frame(p, r, j)
      BY <1>4, <1>6, <1>8, <1>10
    <2>3. Holds(t, r, p, k)
      BY <1>9, <2>1, <2>2 DEF Holds, w
    <2> QED BY <1>2, <1>10, <2>3 DEF t
  <1>11. CASE ~Noise(s[1])
    <2>1. PICK j \in k .. w : s[1] = Frame(p, r, j)
      BY <1>2, <1>5, <1>11
    <2>2. s[1] = Frame(p, r, k)
      <3>1. k \in k .. w
        BY <1>w, <2>1
      <3>2. PICK i \in DOMAIN s : s[i] = Frame(p, r, k)
        BY <1>6, <3>1
      <3>3. i = 1 \/ 1 < i
        BY <1>2
      <3>4. 1 < i => s[1].part < s[i].part
        BY <1>2, <1>7, <1>8, <2>1, <3>2
      <3>5. s[1].part = j /\ s[i].part = k
        BY <2>1, <3>2, FrameFields
      <3>6. ~(j < k)
        BY <1>w, <2>1
      <3> QED BY <3>2, <3>3, <3>4, <3>5, <3>6
    <2>3. \A i \in DOMAIN t : Noise(t[i]) \/ \E m \in k + 1 .. w : t[i] = Frame(p, r, m)
      <3> SUFFICES ASSUME NEW i \in DOMAIN t, ~Noise(t[i])
                   PROVE  \E m \in k + 1 .. w : t[i] = Frame(p, r, m)
        OBVIOUS
      <3>1. PICK m \in k .. w : t[i] = Frame(p, r, m)
        BY <1>3, <1>5
      <3>2. s[1].part < s[i + 1].part
        BY <1>1, <1>2, <1>3, <1>7, <1>11, SMTT(60)
      <3>3. s[1].part = k /\ s[i + 1].part = m
        BY <1>3, <2>2, <3>1, FrameFields
      <3>4. m \in k + 1 .. w
        BY <1>w, <3>1, <3>2, <3>3
      <3> QED BY <3>1, <3>4
    <2>4. \A m \in k + 1 .. w : \E i \in DOMAIN t : t[i] = Frame(p, r, m)
      <3> TAKE m \in k + 1 .. w
      <3>1. m \in k .. w /\ m # k
        BY <1>w
      <3>2. PICK i \in DOMAIN s : s[i] = Frame(p, r, m)
        BY <1>6, <3>1
      <3>3. i # 1
        BY <2>2, <3>1, <3>2, FrameFields
      <3> QED BY <1>4, <3>2, <3>3
    <2>5. Holds(t, r, p, k + 1)
      BY <1>9, <2>3, <2>4 DEF Holds, w
    <2> QED BY <1>2, <2>2, <2>5 DEF t
  <1> QED BY <1>10, <1>11

\* After the last frame there is nothing, before it there is something.
LEMMA HoldsEnd ==
    ASSUME NEW p \in Protocols, NEW r \in 1 .. MaxCalls, NEW k \in Nat, NEW s \in Seq(Frames), Holds(s, r, p, k)
    PROVE  /\ k > Whole(p) => AllNoise(s)
           /\ k <= Whole(p) => \E i \in DOMAIN s : s[i].req = r
  <1>1. Whole(p) \in Nat
    BY WholeType
  <1>2. k > Whole(p) => AllNoise(s)
    BY <1>1 DEF Holds, AllNoise
  <1>3. ASSUME k <= Whole(p) PROVE \E i \in DOMAIN s : s[i].req = r
    <2>1. PICK i \in DOMAIN s : s[i] = Frame(p, r, k)
      BY <1>1, <1>3 DEF Holds
    <2> QED BY <2>1, FrameFields
  <1> QED BY <1>2, <1>3

\* A step that returns nothing.
LEMMA PastKept ==
    ASSUME TypeInv, Past, UNCHANGED <<results, calm>>,
           \/ pc' = "idle" /\ pc = "idle" /\ n' = n /\ answered' = answered
           \/ pc' # "idle" /\ pc = "idle" /\ n' = n + 1 /\ answered' = answered
           \/ pc' # "idle" /\ pc # "idle" /\ n' = n /\ answered' \in {answered, answered \cup {n}}
    PROVE  Past'
  <1> DEFINE last == IF pc = "idle" THEN n ELSE n - 1
  <1>1. (IF pc' = "idle" THEN n' ELSE n' - 1) = last /\ n \in Nat
    BY DEF TypeInv, TypeOK
  <1>2. \A i \in DOMAIN results : results[i].req <= last /\ results[i].req \in Nat
    <2>1. \A i \in DOMAIN results : results[i] \in Outcomes
      BY DEF Past
    <2> QED BY <2>1 DEF Past, Outcomes
  <1>3. \A m \in Nat : m <= last /\ m \notin answered => m \notin answered'
    BY <1>1
  <1>4. AnswersItsRequest'
    BY <1>2, <1>3 DEF Past, AnswersItsRequest
  <1> QED BY <1>1, <1>2, <1>4 DEF Past

\* A call returns the whole answer, or nothing when it was not answered.
LEMMA PastReturns ==
    ASSUME TypeInv, Past, pc # "idle", pc' = "idle", UNCHANGED <<calm, n, answered>>,
           NEW g \in Seq(Frames), g = Answer(n, protocol) \/ (g = <<>> /\ n \notin answered),
           results' = Append(results, [req |-> n, proto |-> protocol, outcome |-> "ok", got |-> g])
    PROVE  Past'
  <1> DEFINE r == [req |-> n, proto |-> protocol, outcome |-> "ok", got |-> g]
  <1>1. n \in Nat /\ protocol \in Protocols
    BY DEF TypeInv, TypeOK
  <1>2. r \in Outcomes
    BY <1>1 DEF Outcomes
  <1>3. results \in Seq(Outcomes)
    BY DEF Past
  <1>4. /\ results' \in Seq(Outcomes) /\ Len(results') = Len(results) + 1 /\ results'[Len(results) + 1] = r
        /\ \A i \in 1 .. Len(results) : results'[i] = results[i]
    BY <1>2, <1>3, AppendProperties
  <1>5. \A i \in DOMAIN results' : results'[i] = r \/ (i \in DOMAIN results /\ results'[i] = results[i])
    BY <1>3, <1>4
  <1>6. r.req = n /\ r.proto = protocol /\ r.outcome = "ok" /\ r.got = g
    OBVIOUS
  <1> HIDE DEF r
  <1>7. \A i \in DOMAIN results : results[i].req \in Nat /\ results[i].req <= n
    <2>1. \A i \in DOMAIN results : results[i] \in Outcomes
      BY <1>3
    <2>2. \A i \in DOMAIN results : results[i].req <= n - 1
      BY DEF Past
    <2> QED BY <1>1, <2>1, <2>2 DEF Outcomes
  <1>8. \A i \in DOMAIN results' : results'[i].req <= n
    BY <1>1, <1>5, <1>6, <1>7
  <1>9. AnswersItsRequest'
    BY <1>5, <1>6 DEF Past, AnswersItsRequest
  <1> QED BY <1>4, <1>8, <1>9 DEF Past

-------------------------------------------------------------------------------
(* The reader and the world keep the calm invariant. *)

LEMMA CallTypes ==
    ASSUME TypeInv, pc # "idle"
    PROVE  n \in 1 .. MaxCalls /\ protocol \in Protocols
  BY DEF TypeInv, TypeOK

\* What a step of the reader has to keep.
LEMMA ReaderKeeps ==
    ASSUME TypeInv, CallInv, UNCHANGED <<caller, protocol>>,
           reader = "read" => pc = "idle" \/ (pc \in {"wait", "await"} /\ ~event),
           Dropping /\ AllNoise(line) => Dropping' /\ AllNoise(line') /\ event' = event,
           \A k \in Nat : pc # "idle" /\ Coming(k) => Coming(k)' \/ HandedOver(k)'
    PROVE  CallInv'
  <1> USE DEF caller
  <1>1. CASE pc = "idle"
    BY <1>1 DEF CallInv
  <1>2. CASE pc # "idle" /\ n \notin answered
    <2>1. Unanswered
      BY <1>2 DEF CallInv
    <2>2. Unanswered'
      BY <2>1 DEF Unanswered
    <2> QED BY <1>2, <2>2 DEF CallInv
  <1>3. CASE pc # "idle" /\ n \in answered
    <2>1. PICK k \in Nat : Answered(k)
      BY <1>3 DEF CallInv
    <2>2. pc \in {"wait", "await"} /\ Coming(k + 1)
      BY <2>1 DEF Answered, HandedOver
    <2>3. Coming(k + 1)' \/ HandedOver(k + 1)'
      BY <1>3, <2>2
    <2>4. Answered(k)'
      BY <2>1, <2>2, <2>3 DEF Answered
    <2> QED BY <1>3, <2>4 DEF CallInv
  <1> QED BY <1>1, <1>2, <1>3

\* A frame comes to the reader.
LEMMA ReadFrameCalm ==
    ASSUME TypeInv, calm, CallInv, ReadFrame
    PROVE  CallInv'
  <1> USE DEF ReadFrame, shared, rest
  <1>1. line \in Seq(Frames) /\ line # <<>>
    BY DEF TypeInv, TypeOK
  <1>2. ASSUME Dropping, AllNoise(line) PROVE Dropping' /\ AllNoise(line') /\ event' = event
    <2>1. Noise(hand') /\ AllNoise(line')
      BY <1>1, <1>2, NoiseTail
    <2> QED BY <2>1 DEF Dropping
  <1>3. ASSUME NEW k \in Nat, pc # "idle", Coming(k) PROVE Coming(k)'
    <2>1. n \in 1 .. MaxCalls /\ protocol \in Protocols
      BY <1>3, CallTypes
    <2>2. ~event /\ Holds(line, n, protocol, k)
      BY <1>3 DEF Coming, Handling, Reading
    <2>3. n' = n /\ UNCHANGED <<protocol, event, buffer>>
      BY DEF caller
    <2>4. CASE Noise(Head(line)) /\ Holds(Tail(line), n, protocol, k)
      <3>1. Dropping'
        BY <2>4 DEF Dropping
      <3> QED BY <2>2, <2>3, <2>4, <3>1 DEF Coming
    <2>5. CASE Head(line) = Frame(protocol, n, k) /\ Holds(Tail(line), n, protocol, k + 1)
      <3>1. Handling(k)'
        BY <2>3, <2>5 DEF Handling, Reading
      <3> QED BY <2>2, <2>3, <2>5, <3>1 DEF Coming
    <2> QED BY <1>1, <2>1, <2>2, <2>4, <2>5, HoldsTail
  <1>4. UNCHANGED <<caller, protocol>> /\ (pc = "idle" \/ (pc \in {"wait", "await"} /\ ~event))
    OBVIOUS
  <1> QED BY <1>2, <1>3, <1>4, ReaderKeeps

\* A frame that is dropped does not get past the comparisons, one of the answer does.
LEMMA ReaderCalm ==
    ASSUME TypeInv, calm, open, CallInv, ReaderStep
    PROVE  CallInv'
  <1> USE DEF readers, shared, rest, Reading
  <1>1. CASE ReadFrame
    BY <1>1, ReadFrameCalm
  <1>2. CASE Match
    <2>1. Dropping => Dropping'
      BY <1>2 DEF Match, Dropping, Noise, TypeInv, TypeOK
    <2>2. ASSUME NEW k \in Nat, Handling(k) PROVE Handling(k)'
      <3>1. hand.proto = protocol
        BY <2>2, FrameFields DEF Handling
      <3> QED BY <1>2, <2>2, <3>1 DEF Match, Handling, caller
    <2>3. UNCHANGED <<caller, protocol, event, line>> /\ reader # "read"
      BY <1>2 DEF Match
    <2>4. \A k \in Nat : Coming(k) => Coming(k)'
      BY <2>1, <2>2, <2>3 DEF Coming, caller
    <2> QED BY <2>1, <2>3, <2>4, ReaderKeeps
  <1>3. CASE ClassifyCCD
    <2>1. Dropping => Dropping'
      BY <1>3 DEF ClassifyCCD, Dropping, Noise, LooksLikeAnswer
    <2>2. ASSUME NEW k \in Nat, pc # "idle", Handling(k) PROVE Handling(k)'
      <3>1. hand.proto = protocol /\ hand.req # 0
        BY <2>2, CallTypes, FrameFields DEF Handling
      <3> QED BY <1>3, <2>2, <3>1 DEF ClassifyCCD, Handling, LooksLikeAnswer, caller
    <2>3. UNCHANGED <<caller, protocol, event, line>> /\ reader # "read"
      BY <1>3 DEF ClassifyCCD
    <2>4. \A k \in Nat : pc # "idle" /\ Coming(k) => Coming(k)'
      BY <2>1, <2>2, <2>3 DEF Coming, caller
    <2> QED BY <2>1, <2>3, <2>4, ReaderKeeps
  <1>4. CASE ClassifyJ1850
    <2>1. Dropping => Dropping'
      <3>1. Dropping => hand.proto = "J1850" /\ hand.req = 0 /\ protocol = "J1850"
        BY <1>4, HandlerAssumption DEF ClassifyJ1850, Dropping, Noise, TypeInv, Frames
      <3> QED BY <1>4, <3>1 DEF ClassifyJ1850, Dropping, LooksLikeAnswer
    <2>2. ASSUME NEW k \in Nat, pc # "idle", Handling(k) PROVE Handling(k)'
      <3>1. hand.proto = protocol /\ hand.req # 0
        BY <2>2, CallTypes, FrameFields DEF Handling
      <3> QED BY <1>4, <2>2, <3>1 DEF ClassifyJ1850, Handling, LooksLikeAnswer, caller
    <2>3. UNCHANGED <<caller, protocol, event, line>> /\ reader # "read"
      BY <1>4 DEF ClassifyJ1850
    <2>4. \A k \in Nat : pc # "idle" /\ Coming(k) => Coming(k)'
      BY <2>1, <2>2, <2>3 DEF Coming, caller
    <2> QED BY <2>1, <2>3, <2>4, ReaderKeeps
  <1>5. CASE Store
    <2>1. ASSUME NEW k \in Nat, Handling(k) PROVE Handling(k)'
      BY <1>5, <2>1 DEF Store, Handling, caller
    <2>2. UNCHANGED <<caller, protocol, event, line>> /\ reader # "read" /\ ~Dropping
      BY <1>5 DEF Store, Dropping
    <2>3. \A k \in Nat : Coming(k) => Coming(k)'
      BY <2>1, <2>2 DEF Coming, caller
    <2> QED BY <2>2, <2>3, ReaderKeeps
  <1>6. CASE SetEvent
    <2>1. UNCHANGED <<caller, protocol, buffer, line>> /\ reader # "read" /\ ~Dropping
      BY <1>6 DEF SetEvent, Dropping
    <2>2. \A k \in Nat : Coming(k) => HandedOver(k)'
      BY <1>6, <2>1 DEF SetEvent, Coming, Handling, HandedOver, caller
    <2> QED BY <2>1, <2>2, ReaderKeeps
  <1>7. CASE ReaderEnds
    BY <1>7 DEF ReaderEnds
  <1> QED BY <1>1, <1>2, <1>3, <1>4, <1>5, <1>6, <1>7 DEF ReaderStep

\* What others say.
LEMMA TalkCalm ==
    ASSUME TypeInv, CallInv, NEW p \in Protocols \ {"SCI"}, Talk(p)
    PROVE  CallInv'
  <1> DEFINE f == Frame(p, 0, 0)
  <1>1. f \in Frames /\ Noise(f)
    BY HandlerAssumption DEF Noise, Frame, Frames
  <1>2. line' = Append(line, f) /\ line \in Seq(Frames) /\ UNCHANGED <<caller, readers, shared>>
    BY DEF Talk, TypeInv, TypeOK
  <1> HIDE DEF f
  <1>3. AllNoise(line) => AllNoise(line')
    BY <1>1, <1>2, NoiseAppend
  <1>4. \A k \in Nat : Holds(line, n, protocol, k) => Holds(line', n, protocol, k)
    BY <1>1, <1>2, HoldsAppend
  <1> USE DEF caller, readers, shared
  <1>5. Dropping' = Dropping
    BY <1>2 DEF Dropping
  <1>6. CASE pc = "idle"
    BY <1>2, <1>3, <1>5, <1>6 DEF CallInv
  <1>7. CASE pc # "idle" /\ n \notin answered
    <2>1. Unanswered /\ Unanswered'
      BY <1>2, <1>3, <1>5, <1>7 DEF CallInv, Unanswered
    <2> QED BY <1>2, <1>7, <2>1 DEF CallInv
  <1>8. CASE pc # "idle" /\ n \in answered
    <2>1. PICK k \in Nat : Answered(k)
      BY <1>8 DEF CallInv
    <2>2. Coming(k + 1) => Coming(k + 1)'
      <3>1. Handling(k + 1)' = Handling(k + 1)
        BY <1>2 DEF Handling, Reading
      <3> QED BY <1>2, <1>4, <1>5, <3>1 DEF Coming
    <2>3. HandedOver(k + 1) => HandedOver(k + 1)'
      BY <1>2, <1>4 DEF HandedOver
    <2>4. Answered(k)'
      BY <1>2, <1>4, <2>1, <2>2, <2>3 DEF Answered
    <2> QED BY <1>2, <1>8, <2>4 DEF CallInv
  <1> QED BY <1>6, <1>7, <1>8

-------------------------------------------------------------------------------
(* The caller *)

\* A call begins on a line without answers.
LEMMA CallCalm ==
    ASSUME TypeInv, calm, CallInv, Past, NEW p \in Protocols, Call(p)
    PROVE  CallInv' /\ Past'
  <1> USE DEF Call, readers, rest
  <1>1. n' = n + 1 /\ n' \notin answered /\ UNCHANGED <<answered, line, reader, hand>>
    BY DEF TypeInv, TypeOK
  <1>2. Dropping' /\ AllNoise(line) /\ reader = "read"
    BY DEF CallInv, Dropping
  <1>3. Unanswered'
    BY <1>1, <1>2 DEF Unanswered
  <1>4. left' = Whole(protocol') - 1
    BY HandlerAssumption DEF Whole
  <1>5. CallInv'
    BY <1>1, <1>3, <1>4 DEF CallInv
  <1>6. Past'
    BY <1>1, PastKept
  <1> QED BY <1>5, <1>6

\* Until the request is written, nothing can answer it.
LEMMA BeforeWrite ==
    ASSUME TypeInv, calm, CallInv, Past, ResetEvent \/ ClearBuffer
    PROVE  CallInv' /\ Past'
  <1> USE DEF ResetEvent, ClearBuffer, readers, rest
  <1>1. n \notin answered /\ Unanswered
    BY DEF CallInv, Answered
  <1>2. UNCHANGED <<n, answered, left, got, line, protocol, reader, hand, results, calm>> /\ pc' \in {"clear", "write"}
    OBVIOUS
  <1>3. Unanswered'
    <2>1. Dropping' /\ AllNoise(line')
      BY <1>1, <1>2 DEF Unanswered, Dropping
    <2>2. ~event'
      BY <1>1 DEF Unanswered
    <2> QED BY <1>1, <1>2, <2>1, <2>2 DEF Unanswered
  <1>4. CallInv'
    BY <1>1, <1>2, <1>3 DEF CallInv
  <1>5. Past'
    BY <1>2, PastKept
  <1> QED BY <1>4, <1>5

LEMMA WriteCalm ==
    ASSUME TypeInv, calm, CallInv, Past, Write
    PROVE  CallInv' /\ Past'
  <1> USE DEF Write, readers, shared, rest
  <1>1. n \notin answered /\ Unanswered /\ left = Whole(protocol) - 1
    BY DEF CallInv, Answered
  <1>2. UNCHANGED <<n, left, got, protocol, event, buffer, reader, hand, results, calm>> /\ pc = "write" /\ pc' = "wait"
    OBVIOUS
  <1>3. Dropping'
    BY <1>1, <1>2 DEF Unanswered, Dropping
  <1>4. CASE UNCHANGED <<line, answered>>
    <2>1. Unanswered'
      BY <1>1, <1>2, <1>3, <1>4 DEF Unanswered
    <2> QED BY <1>1, <1>2, <1>4, <2>1, PastKept DEF CallInv
  <1>5. CASE line' = line \o Answer(n, protocol) /\ answered' = answered \cup {n}
    <2>1. n \in 1 .. MaxCalls /\ protocol \in Protocols /\ line \in Seq(Frames)
      BY <1>2, CallTypes DEF TypeInv, TypeOK
    <2>2. Holds(line', n, protocol, 1)
      BY <1>1, <1>5, <2>1, HoldsAnswer DEF Unanswered
    <2>3. Coming(1)'
      BY <1>1, <1>2, <1>3, <2>2 DEF Coming, Unanswered
    <2>4. Answered(0)'
      <3>1. got' = <<>> /\ 0 + 1 = 1
        BY <1>1 DEF Unanswered
      <3> QED BY <1>2, <2>3, <3>1 DEF Answered
    <2>5. n' \in answered' /\ CallInv'
      BY <1>1, <1>2, <1>5, <2>4 DEF CallInv
    <2>6. Past'
      BY <1>2, <1>5, PastKept
    <2> QED BY <2>5, <2>6
  <1> QED BY <1>4, <1>5

\* The event tells the caller of the frame it waits for.
LEMMA EventCalm ==
    ASSUME TypeInv, calm, CallInv, Past, Response \/ NextFrame
    PROVE  CallInv' /\ Past'
  <1> USE DEF Response, NextFrame, readers, shared, rest
  <1>1. UNCHANGED <<n, answered, left, got, line, protocol, event, buffer, reader, hand, results, calm>>
    OBVIOUS
  <1>2. event /\ <<pc, pc'>> \in {<<"wait", "copy">>, <<"await", "take">>}
    OBVIOUS
  <1>3. n \in answered
    BY <1>2 DEF CallInv, Unanswered
  <1>4. PICK k \in Nat : Answered(k)
    BY <1>2, <1>3 DEF CallInv
  <1>5. HandedOver(k + 1)
    BY <1>2, <1>4 DEF Answered, Coming
  <1>6. HandedOver(k + 1)'
    BY <1>1, <1>5 DEF HandedOver
  <1>7. Answered(k)'
    BY <1>1, <1>2, <1>4, <1>6 DEF Answered
  <1>8. CallInv'
    BY <1>1, <1>2, <1>3, <1>4, <1>7 DEF CallInv, Answered
  <1>9. Past'
    BY <1>1, <1>2, PastKept
  <1> QED BY <1>8, <1>9

\* A wait ends without an event only when nothing was answered.
LEMMA NothingComing ==
    ASSUME TypeInv, CallInv, pc \in {"wait", "await"}, ~event, ~AnswerComing
    PROVE  n \notin answered /\ Unanswered
  <1>1. SUFFICES ASSUME n \in answered PROVE FALSE
    BY DEF CallInv
  <1>2. PICK k \in Nat : Answered(k)
    BY <1>1 DEF CallInv
  <1>3. Coming(k + 1)
    BY <1>2 DEF Answered, HandedOver
  <1>4. n \in 1 .. MaxCalls /\ protocol \in Protocols /\ line \in Seq(Frames)
    BY CallTypes DEF TypeInv, TypeOK
  <1>5. k + 1 \in Nat /\ k + 1 <= Whole(protocol)
    <2>1. pc = "wait" => k = 0
      BY <1>2 DEF Answered
    <2>2. pc = "await" => left > 0 /\ left = Whole(protocol) - k
      BY <1>2 DEF Answered, TypeInv
    <2> QED BY <2>1, <2>2, WholeType DEF TypeInv, TypeOK
  <1>6. CASE Holds(line, n, protocol, k + 1)
    BY <1>4, <1>5, <1>6, HoldsEnd DEF AnswerComing
  <1>7. CASE Handling(k + 1)
    <2>1. hand.req = n /\ reader \notin {"read", "gone"}
      BY <1>7, FrameFields DEF Handling, Reading
    <2> QED BY <2>1 DEF AnswerComing
  <1> QED BY <1>3, <1>6, <1>7 DEF Coming

\* A call that was not answered ends with nothing.
LEMMA TimeoutCalm ==
    ASSUME TypeInv, calm, CallInv, Past, Timeout \/ NoMore
    PROVE  CallInv' /\ Past'
  <1> USE DEF Timeout, NoMore, readers, shared, rest
  <1>1. n \notin answered /\ Unanswered
    BY NothingComing
  <1>2. /\ UNCHANGED <<n, answered, left, line, protocol, event, reader, hand, calm>>
        /\ pc \in {"wait", "await"} /\ pc' \in {"idle", "write", "more"} /\ got = <<>> /\ got' = <<>>
    BY <1>1 DEF GoOn, Return, Unanswered
  <1>3. Dropping' /\ AllNoise(line') /\ ~event'
    BY <1>1, <1>2 DEF Unanswered, Dropping
  <1>4. pc' = "write" => left' = Whole(protocol') - 1
    BY <1>2 DEF CallInv, GoOn, Return
  <1>5. CallInv'
    BY <1>1, <1>2, <1>3, <1>4 DEF CallInv, Unanswered
  <1>6. CASE pc' # "idle"
    <2>1. UNCHANGED results
      BY <1>6 DEF GoOn, Return
    <2> QED BY <1>2, <1>5, <1>6, <2>1, PastKept
  <1>7. CASE pc' = "idle"
    <2>1. results' = Append(results, [req |-> n, proto |-> protocol, outcome |-> "ok", got |-> <<>>])
      BY <1>2, <1>7 DEF GoOn, Return
    <2>2. <<>> \in Seq(Frames) /\ pc # "idle"
      BY <1>2
    <2> QED BY <1>1, <1>2, <1>5, <1>7, <2>1, <2>2, PastReturns
  <1> QED BY <1>5, <1>6, <1>7

LEMMA ResetAgainCalm ==
    ASSUME TypeInv, calm, CallInv, Past, ResetAgain
    PROVE  CallInv' /\ Past'
  <1> USE DEF ResetAgain, readers, rest
  <1>1. /\ UNCHANGED <<n, answered, left, got, line, protocol, buffer, reader, hand, results, calm>>
        /\ pc = "more" /\ pc' = "await" /\ event' = FALSE
    OBVIOUS
  <1>2. CASE n \notin answered
    <2>1. Unanswered'
      BY <1>1, <1>2 DEF CallInv, Unanswered, Dropping
    <2> QED BY <1>1, <1>2, <2>1, PastKept DEF CallInv
  <1>3. CASE n \in answered
    <2>1. PICK k \in Nat : Answered(k)
      BY <1>1, <1>3 DEF CallInv
    <2>2. Coming(k + 1)'
      BY <1>1, <2>1 DEF Answered, Coming, Dropping
    <2>3. Answered(k)'
      BY <1>1, <2>1, <2>2 DEF Answered
    <2> QED BY <1>1, <1>3, <2>3, PastKept DEF CallInv
  <1> QED BY <1>2, <1>3

\* With a further frame the call goes on, or returns the whole answer.
LEMMA FrameTaken ==
    ASSUME TypeInv, calm, CallInv, Past, NEW k \in Nat, Answered(k), HandedOver(k + 1), pc # "idle",
           UNCHANGED <<n, answered, protocol, line, event, reader, hand, calm>>, n \in answered,
           got' = got \o buffer, left' = Whole(protocol) - (k + 1), left' \in Nat,
           \/ left' > 0 /\ pc' = "more" /\ UNCHANGED results
           \/ left' = 0 /\ Return("ok", got')
    PROVE  CallInv' /\ Past'
  <1> DEFINE f == Frame(protocol, n, k + 1)
  <1>1. n \in 1 .. MaxCalls /\ protocol \in Protocols /\ line \in Seq(Frames) /\ got \in Seq(Frames) /\ n \in 0 .. MaxCalls
    BY CallTypes DEF TypeInv, TypeOK
  <1>2. k + 1 \in 1 .. Whole(protocol)
    BY WholeType
  <1>3. f \in Frames
    BY <1>1, <1>2, HandlerAssumption DEF Frame, Frames, Whole
  <1>4. got' = Append(got, f)
    BY <1>1, <1>3, AppendIsConcat DEF HandedOver
  <1> HIDE DEF f
  <1>5. got' \in Seq(Frames) /\ Len(got') = k + 1
    BY <1>1, <1>3, <1>4, AppendProperties DEF Answered
  <1>6. \A i \in 1 .. k + 1 : got'[i] = Frame(protocol, n, i)
    <2> TAKE i \in 1 .. k + 1
    <2>0. Len(got) = k /\ \A j \in 1 .. k : got[j] = Frame(protocol, n, j)
      BY DEF Answered
    <2>1. \A j \in 1 .. Len(got) : got'[j] = got[j]
      BY <1>1, <1>3, <1>4, AppendProperties
    <2>2. got'[Len(got) + 1] = f
      BY <1>1, <1>3, <1>4, AppendProperties
    <2>3. CASE i = k + 1
      BY <2>0, <2>2, <2>3 DEF f
    <2>4. CASE i \in 1 .. k
      BY <2>0, <2>1, <2>4
    <2>5. i = k + 1 \/ i \in 1 .. k
      OBVIOUS
    <2> QED BY <2>3, <2>4, <2>5
  <1>7. reader = "read" /\ Holds(line, n, protocol, k + 1 + 1)
    BY DEF HandedOver
  <1>8. CASE left' > 0 /\ pc' = "more" /\ UNCHANGED results
    <2>1. Answered(k + 1)'
      BY <1>5, <1>6, <1>7, <1>8 DEF Answered
    <2>2. k + 1 \in Nat
      OBVIOUS
    <2>3. CallInv'
      BY <1>8, <2>1, <2>2 DEF CallInv
    <2> QED BY <1>8, <2>3, PastKept
  <1>9. CASE left' = 0 /\ Return("ok", got')
    <2>1. k + 1 = Whole(protocol) /\ pc' = "idle"
      BY <1>9, WholeType DEF Return
    <2>2. got' = Answer(n, protocol)
      BY <1>1, <1>5, <1>6, <2>1, AllFrames
    <2>3. AllNoise(line)
      BY <1>1, <1>7, <2>1, HoldsEnd, WholeType
    <2>4. CallInv'
      BY <1>7, <2>1, <2>3 DEF CallInv, Dropping
    <2>5. Past'
      <3>1. results' = Append(results, [req |-> n, proto |-> protocol, outcome |-> "ok", got |-> got'])
        BY <1>9 DEF Return
      <3> DEFINE g == got'
      <3>2. g \in Seq(Frames) /\ g = Answer(n, protocol)
        BY <1>5, <2>2
      <3>3. results' = Append(results, [req |-> n, proto |-> protocol, outcome |-> "ok", got |-> g])
        BY <3>1
      <3> HIDE DEF g
      <3> QED BY <2>1, <3>2, <3>3, PastReturns
    <2> QED BY <2>4, <2>5
  <1> QED BY <1>8, <1>9

LEMMA CopyCalm ==
    ASSUME TypeInv, calm, CallInv, Past, Copy
    PROVE  CallInv' /\ Past'
  <1> USE DEF Copy, readers, shared, rest
  <1>1. n \in answered
    BY DEF CallInv, Unanswered
  <1>2. PICK k \in Nat : Answered(k)
    BY <1>1 DEF CallInv
  <1>3. k = 0 /\ HandedOver(k + 1) /\ left = Whole(protocol) - 1
    BY <1>2 DEF Answered, CallInv
  <1>4. got = <<>> /\ buffer # <<>>
    <2>1. got \in Seq(Frames) /\ Len(got) = 0
      BY <1>2, <1>3 DEF Answered, TypeInv, TypeOK
    <2>2. got = <<>>
      BY <2>1, EmptySeq
    <2>3. buffer # <<>>
      BY <1>3 DEF HandedOver
    <2> QED BY <2>2, <2>3
  <1>5. got' = got \o buffer
    <2>1. buffer \in Seq(Frames)
      <3>1. PICK f \in Frames : buffer = <<f>>
        BY <1>4 DEF TypeInv, TypeOK
      <3> QED BY <3>1
    <2>2. got \o buffer = buffer
      BY <1>4, <2>1, ConcatEmptySeq
    <2> QED BY <2>2 DEF GoOn
  <1>6. left' = Whole(protocol) - (k + 1) /\ left' \in Nat
    BY <1>3 DEF TypeInv, TypeOK
  <1>7. \/ left' > 0 /\ pc' = "more" /\ UNCHANGED results
        \/ left' = 0 /\ Return("ok", got')
    BY <1>4 DEF GoOn
  <1> QED BY <1>1, <1>2, <1>3, <1>5, <1>6, <1>7, FrameTaken

LEMMA TakeFrameCalm ==
    ASSUME TypeInv, calm, CallInv, Past, TakeFrame
    PROVE  CallInv' /\ Past'
  <1> USE DEF TakeFrame, readers, shared, rest
  <1>1. n \in answered
    BY DEF CallInv, Unanswered
  <1>2. PICK k \in Nat : Answered(k)
    BY <1>1 DEF CallInv
  <1>3. k >= 1 /\ HandedOver(k + 1) /\ left = Whole(protocol) - k /\ left > 0
    BY <1>2 DEF Answered, TypeInv
  <1>4. OneByte
    <2>1. buffer = <<Frame(protocol, n, k + 1)>>
      BY <1>3 DEF HandedOver
    <2>2. buffer # <<>> /\ buffer[1] = Frame(protocol, n, k + 1)
      BY <2>1
    <2>3. buffer[1].part > 1
      BY <1>3, <2>2, FrameFields
    <2> QED BY <2>2, <2>3 DEF OneByte
  <1>5. left' = Whole(protocol) - (k + 1) /\ left' \in Nat
    <2>1. left \in Nat /\ left' = left - 1
      BY DEF TypeInv, TypeOK
    <2>2. \A w \in Nat : left = w - k => left - 1 = w - (k + 1)
      BY <2>1
    <2> HIDE DEF TakeFrame
    <2> QED BY <1>3, <2>1, <2>2, WholeType
  <1>6. \/ left' > 0 /\ pc' = "more" /\ UNCHANGED results
        \/ left' = 0 /\ Return("ok", got')
    BY <1>4, <1>5 DEF TypeInv, TypeOK
  <1>7. got' = got \o buffer /\ pc # "idle"
    OBVIOUS
  <1> QED BY <1>1, <1>2, <1>3, <1>5, <1>6, <1>7, FrameTaken

-------------------------------------------------------------------------------

LEMMA CalmInvNext == TypeInv /\ CalmInv /\ [Next]_vars => CalmInv'
  <1> SUFFICES ASSUME TypeInv, CalmInv, [Next]_vars PROVE CalmInv'
    OBVIOUS
  <1>1. CASE UNCHANGED vars
    BY <1>1 DEF vars, caller, readers, shared, rest, CalmInv, CallInv, Past, AnswersItsRequest, Unanswered,
       Answered, Coming, HandedOver, Handling, Dropping, Reading
  <1>2. CASE Next
    <2>1. calm' = calm
      BY <1>2 DEF Next, CallerStep, ReaderStep, Call, ResetEvent, ClearBuffer, Write, Reopen, Response, Copy,
         Timeout, ResetAgain, NextFrame, TakeFrame, NoMore, ReadFrame, Match, ClassifyCCD, ClassifyJ1850, Store,
         SetEvent, ReaderEnds, SendCommand, CommandReset, Talk, PortCloses, rest
    <2>2. SUFFICES ASSUME calm PROVE CalmInv'
      BY <2>1 DEF CalmInv
    <2>3. open /\ ui = "idle" /\ CallInv /\ Past
      BY <2>2 DEF CalmInv
    <2>4. ~SendCommand /\ ~CommandReset /\ ~PortCloses /\ ~Reopen
      BY <2>2, <2>3 DEF SendCommand, CommandReset, PortCloses, Reopen
    <2>5. UNCHANGED <<open, ui>>
      BY <1>2, <2>4 DEF Next, CallerStep, ReaderStep, Call, ResetEvent, ClearBuffer, Write, Response, Copy,
         Timeout, ResetAgain, NextFrame, TakeFrame, NoMore, ReadFrame, Match, ClassifyCCD, ClassifyJ1850, Store,
         SetEvent, ReaderEnds, Talk, rest
    <2>6. ASSUME NEW p \in Protocols, Call(p) PROVE CallInv' /\ Past'
      BY <2>2, <2>3, <2>6, CallCalm
    <2>7. ASSUME CallerStep PROVE CallInv' /\ Past'
      BY <2>2, <2>3, <2>4, <2>7, BeforeWrite, WriteCalm, EventCalm, TimeoutCalm, ResetAgainCalm, CopyCalm,
         TakeFrameCalm DEF CallerStep
    <2>8. ASSUME ReaderStep PROVE CallInv' /\ Past'
      <3>1. UNCHANGED <<caller, calm>>
        BY <2>8 DEF ReaderStep, ReadFrame, Match, ClassifyCCD, ClassifyJ1850, Store, SetEvent, ReaderEnds, rest
      <3>2. Past'
        BY <2>3, <3>1, PastKept DEF caller
      <3> QED BY <2>2, <2>3, <2>8, <3>2, ReaderCalm
    <2>9. ASSUME NEW p \in Protocols \ {"SCI"}, Talk(p) PROVE CallInv' /\ Past'
      <3>1. UNCHANGED <<caller, calm>>
        BY <2>9 DEF Talk
      <3>2. Past'
        BY <2>3, <3>1, PastKept DEF caller
      <3> QED BY <2>3, <2>9, <3>2, TalkCalm
    <2>10. CallInv' /\ Past'
      BY <1>2, <2>4, <2>6, <2>7, <2>8, <2>9 DEF Next
    <2> QED BY <2>1, <2>3, <2>5, <2>10 DEF CalmInv
  <1> QED BY <1>1, <1>2

\* With one caller, answers in time and prompt threads a call never returns a
\* part of an answer, the answer to another call, or nothing when it was
\* answered, whatever the silence before and the traffic between (ArduinoCommHandler.cs:51-151).
THEOREM CommAnswers == Spec => []AnswersItsRequest
  <1>1. Init => CalmInv
    <2> SUFFICES ASSUME Init PROVE open /\ ui = "idle" /\ CallInv /\ Past
      BY DEF CalmInv
    <2>1. CallInv
      BY DEF Init, CallInv, Dropping, AllNoise
    <2>2. Past
      BY DEF Init, Past, AnswersItsRequest
    <2> QED BY <2>1, <2>2 DEF Init
  <1>2. CalmInv => AnswersItsRequest
    BY DEF CalmInv, Past, AnswersItsRequest
  <1> QED BY <1>1, <1>2, TypeInvInit, TypeInvNext, CalmInvNext, PTL DEF Spec

-------------------------------------------------------------------------------
(* A call comes to its end.  That it does under the fairness of Spec is left *)
(* to TLC; here is what that rests on: all steps but calls use up a number,  *)
(* and during a call one of the two threads always has a step to take.       *)

\* an answer on the line, a write and the wait for it
TryCost == 7 * (1 + More) + 3

\* the most steps that remain of a call, with what its tries put on the line
CallerRank ==
    CASE pc = "idle" -> 0
      [] pc = "take" -> 3 * left - 2
      [] pc = "await" -> 3 * left - 1
      [] pc = "more" -> 3 * left
      [] pc = "copy" -> 3 * More + 1
      [] pc = "write" -> 3 * More + (3 - tries) * TryCost + (IF open THEN 0 ELSE 1)
      [] pc = "wait" -> 3 * More + (3 - tries) * TryCost + 2
      [] pc = "clear" -> 3 * More + (3 - tries) * TryCost + 2
      [] pc = "reset" -> 3 * More + (3 - tries) * TryCost + 3

ReaderRank ==
    CASE reader = "gone" -> 0 [] reader = "read" -> 1 [] reader = "set" -> 2 [] reader = "store" -> 3
      [] reader = "j1850" -> 4 [] reader = "ccd" -> 5 [] reader = "match" -> 6

Rank == CallerRank + ReaderRank + 7 * Len(line) + (IF ui = "reset" THEN 1 ELSE 0)
        + 8 * (MaxDisturbances - disturbed)

StepInv == TypeInv /\ disturbed \in 0 .. MaxDisturbances /\ (calm => open /\ reader # "gone")

LEMMA StepInvAlways == Spec => []StepInv
  <1> DEFINE Inv == disturbed \in 0 .. MaxDisturbances /\ (calm => open /\ reader # "gone")
  <1>1. Init => Inv
    BY HandlerAssumption DEF Init
  <1>2. Inv /\ [Next]_vars => Inv'
    <2> SUFFICES ASSUME Inv, [Next]_vars PROVE Inv'
      OBVIOUS
    <2> USE DEF caller, readers, shared, rest
    <2>1. ASSUME NEW p \in Protocols, Call(p) PROVE Inv'
      BY <2>1 DEF Call
    <2>2. CASE CallerStep
      BY <2>2 DEF CallerStep, ResetEvent, ClearBuffer, Write, Reopen, Response, Copy, Timeout, ResetAgain,
         NextFrame, TakeFrame, NoMore
    <2>3. CASE ReaderStep
      BY <2>3 DEF ReaderStep, ReadFrame, Match, ClassifyCCD, ClassifyJ1850, Store, SetEvent, ReaderEnds
    <2>4. CASE SendCommand \/ CommandReset \/ PortCloses
      BY <2>4, HandlerAssumption DEF SendCommand, CommandReset, PortCloses
    <2>5. ASSUME NEW p \in Protocols \ {"SCI"}, Talk(p) PROVE Inv'
      BY <2>5, HandlerAssumption DEF Talk
    <2>6. CASE UNCHANGED vars
      BY <2>6 DEF vars
    <2> HIDE DEF Inv
    <2> QED BY <2>1, <2>2, <2>3, <2>4, <2>5, <2>6 DEF Next
  <1> QED BY <1>1, <1>2, TypeInvInit, TypeInvNext, PTL DEF Spec, StepInv

LEMMA TryCosts ==
    /\ TryCost \in Nat /\ TryCost = 7 * More + 10
    /\ \A t \in 0 .. 3 : (3 - t) * TryCost \in Nat
    /\ \A t \in 0 .. 2 : (3 - t) * TryCost = (3 - (t + 1)) * TryCost + TryCost
  <1>1. TryCost \in Nat /\ TryCost = 7 * More + 10
    BY HandlerAssumption DEF TryCost
  <1> HIDE DEF TryCost
  <1>2. ASSUME NEW t \in 0 .. 3 PROVE (3 - t) * TryCost \in Nat
    <2>1. 3 - t \in Nat
      OBVIOUS
    <2>2. \A a, b \in Nat : a * b \in Nat
      OBVIOUS
    <2> QED BY <1>1, <2>1, <2>2, Zenon
  <1>3. ASSUME NEW t \in 0 .. 2 PROVE (3 - t) * TryCost = (3 - (t + 1)) * TryCost + TryCost
    BY <1>1
  <1> QED BY <1>1, <1>2, <1>3

LEMMA RanksAreNumbers ==
    StepInv => CallerRank \in Nat /\ ReaderRank \in Nat /\ Rank \in Nat
  <1> SUFFICES ASSUME StepInv PROVE CallerRank \in Nat /\ ReaderRank \in Nat /\ Rank \in Nat
    OBVIOUS
  <1>1. CallerRank \in Nat
    <2>1. tries \in 0 .. 3 /\ left \in Nat /\ More \in Nat
      BY HandlerAssumption DEF StepInv, TypeInv, TypeOK
    <2>2. (3 - tries) * TryCost \in Nat
      BY <2>1, TryCosts
    <2>3. pc \in {"more", "await", "take"} => left > 0
      BY DEF StepInv, TypeInv
    <2>4. pc \in {"idle", "reset", "clear", "write", "wait", "copy", "more", "await", "take"}
      BY DEF StepInv, TypeInv, TypeOK
    <2> DEFINE cost == (3 - tries) * TryCost
    <2> HIDE DEF cost
    <2> QED BY <2>1, <2>2, <2>3, <2>4 DEF CallerRank, cost
  <1>2. ReaderRank \in Nat
    BY DEF StepInv, TypeInv, TypeOK, ReaderRank
  <1>3. Len(line) \in Nat
    BY LenProperties DEF StepInv, TypeInv, TypeOK
  <1>4. disturbed \in 0 .. MaxDisturbances /\ MaxDisturbances \in Nat
    BY HandlerAssumption DEF StepInv
  <1> HIDE DEF StepInv
  <1> QED BY <1>1, <1>2, <1>3, <1>4 DEF Rank

\* A step of the caller uses up more than it puts on the line.
LEMMA CallerRunsOut ==
    ASSUME StepInv, CallerStep
    PROVE  CallerRank' + 7 * Len(line') < CallerRank + 7 * Len(line)
  <1>1. tries \in 0 .. 3 /\ left \in 0 .. More /\ More \in Nat /\ line \in Seq(Frames) /\ Len(line) \in Nat
        /\ open \in BOOLEAN
    BY HandlerAssumption, LenProperties DEF StepInv, TypeInv, TypeOK
  <1>2. /\ pc \in {"reset", "clear", "write"} => tries < 3
        /\ pc \in {"more", "await", "take"} => left > 0
        /\ pc # "idle" => n \in 0 .. MaxCalls /\ protocol \in Protocols
    BY DEF StepInv, TypeInv, TypeOK
  <1>3. (3 - tries) * TryCost \in Nat
    BY <1>1, TryCosts
  <1> DEFINE cost == (3 - tries) * TryCost
  <1> USE DEF CallerRank, caller, readers, shared, rest
  <1>4. CASE ResetEvent \/ ClearBuffer
    BY <1>1, <1>3, <1>4 DEF ResetEvent, ClearBuffer
  <1>5. CASE Write
    <2>1. Len(line') <= Len(line) + 1 + More
      <3>1. Answer(n, protocol) \in Seq(Frames) /\ Len(Answer(n, protocol)) <= 1 + More
        <4>1. Answer(n, protocol) \in Seq(Frames)
          BY <1>2, <1>5, AnswerIsFrames DEF Write
        <4>2. Len(Answer(n, protocol)) = IF protocol = "SCI" THEN 1 + More ELSE 1
          BY <1>1 DEF Answer
        <4> QED BY <1>1, <4>1, <4>2
      <3>2. Len(line \o Answer(n, protocol)) = Len(line) + Len(Answer(n, protocol))
        BY <1>1, <3>1, ConcatProperties
      <3> QED BY <1>1, <1>5, <3>1, <3>2, LenProperties DEF Write
    <2>2. (3 - tries) * TryCost = (3 - (tries + 1)) * TryCost + TryCost /\ TryCost = 7 * More + 10
      BY <1>1, <1>2, <1>5, TryCosts DEF Write
    <2>3. (3 - (tries + 1)) * TryCost \in Nat
      BY <1>1, <1>2, <1>5, TryCosts DEF Write
    <2>4. CallerRank = 3 * More + (3 - tries) * TryCost
      BY <1>1, <1>3, <1>5 DEF Write
    <2>5. CallerRank' = 3 * More + (3 - (tries + 1)) * TryCost + 2
      BY <1>5 DEF Write, TryCost
    <2>6. Len(line') \in Nat
      <3>1. line' \in Seq(Frames)
        <4>1. Answer(n, protocol) \in Seq(Frames)
          BY <1>2, <1>5, AnswerIsFrames DEF Write
        <4> QED BY <1>1, <1>5, <4>1, ConcatProperties DEF Write
      <3> QED BY <3>1, LenProperties
    <2> DEFINE rest0 == (3 - (tries + 1)) * TryCost
    <2> HIDE DEF CallerRank, rest0
    <2>7. CallerRank = 3 * More + rest0 + 7 * More + 10 /\ CallerRank' = 3 * More + rest0 + 2 /\ rest0 \in Nat
      BY <1>1, <2>2, <2>3, <2>4, <2>5, TryCosts DEF rest0
    <2> QED BY <1>1, <2>1, <2>6, <2>7
  <1>6. CASE Reopen
    BY <1>1, <1>3, <1>6 DEF Reopen, Return
  <1>7. CASE Response \/ NextFrame \/ ResetAgain
    BY <1>1, <1>2, <1>3, <1>7 DEF Response, NextFrame, ResetAgain
  <1>8. CASE Copy
    BY <1>1, <1>8 DEF Copy, GoOn, Return
  <1>9. CASE Timeout
    BY <1>1, <1>3, <1>9 DEF Timeout, GoOn, Return
  <1>10. CASE TakeFrame
    <2>1. CallerRank = 3 * left - 2 /\ left > 0 /\ line' = line /\ left' = left - 1
      BY <1>2, <1>10 DEF TakeFrame
    <2>2. CallerRank' \in {0, 3 * left'}
      BY <1>10 DEF TakeFrame, Return
    <2> HIDE DEF CallerRank
    <2>3. left \in Nat /\ CallerRank' \in {0, 3 * left - 3} /\ Len(line') = Len(line)
      BY <1>1, <2>1, <2>2
    <2> QED BY <1>1, <2>1, <2>3
  <1>11. CASE NoMore
    BY <1>1, <1>2, <1>11 DEF NoMore, Return
  <1> QED BY <1>4, <1>5, <1>6, <1>7, <1>8, <1>9, <1>10, <1>11 DEF CallerStep

\* A step of the reader takes a frame from the line or goes on with the one it has.
LEMMA ReaderRunsOut ==
    ASSUME StepInv, ReaderStep
    PROVE  ReaderRank' + 7 * Len(line') < ReaderRank + 7 * Len(line)
  <1>1. line \in Seq(Frames) /\ Len(line) \in Nat
    BY LenProperties DEF StepInv, TypeInv, TypeOK
  <1>2. CASE ReadFrame
    <2>1. Len(line') = Len(line) - 1
      BY <1>1, <1>2, HeadTailProperties DEF ReadFrame
    <2>2. ReaderRank = 1 /\ ReaderRank' = 6
      BY <1>2 DEF ReadFrame, ReaderRank
    <2> QED BY <1>1, <2>1, <2>2
  <1>3. CASE Match \/ ClassifyCCD \/ ClassifyJ1850 \/ Store \/ SetEvent \/ ReaderEnds
    <2>1. ReaderRank' < ReaderRank /\ ReaderRank \in Nat /\ ReaderRank' \in Nat
      BY <1>3 DEF Match, ClassifyCCD, ClassifyJ1850, Store, SetEvent, ReaderEnds, ReaderRank
    <2>2. line' = line
      BY <1>3 DEF Match, ClassifyCCD, ClassifyJ1850, Store, SetEvent, ReaderEnds
    <2> QED BY <1>1, <2>1, <2>2
  <1> QED BY <1>2, <1>3 DEF ReaderStep

\* A disturbance costs less than the bound on disturbances loses by it.
LEMMA OthersRunOut ==
    ASSUME StepInv, StepInv',
           SendCommand \/ CommandReset \/ PortCloses \/ \E p \in Protocols \ {"SCI"} : Talk(p)
    PROVE  Rank' < Rank
  <1>1. disturbed \in Nat /\ MaxDisturbances \in Nat /\ ui \in {"idle", "reset"}
    BY HandlerAssumption DEF StepInv, TypeInv, TypeOK
  <1>2. /\ CallerRank \in Nat /\ ReaderRank \in Nat /\ Len(line) \in Nat
        /\ CallerRank' \in Nat /\ ReaderRank' \in Nat /\ Len(line') \in Nat
    <2>1. Len(line) \in Nat /\ Len(line') \in Nat
      BY LenProperties DEF StepInv, TypeInv, TypeOK
    <2>3. CallerRank' \in Nat /\ ReaderRank' \in Nat
      <3>1. (StepInv => CallerRank \in Nat /\ ReaderRank \in Nat /\ Rank \in Nat)'
        BY RanksAreNumbers, PTL
      <3> QED BY <3>1
    <2> QED BY <2>1, <2>3, RanksAreNumbers
  <1>3. CASE SendCommand
    <2>1. CallerRank' = CallerRank /\ ReaderRank' = ReaderRank
      BY <1>3 DEF SendCommand, CallerRank, ReaderRank, caller, readers, shared
    <2>2. line' = line /\ ui = "idle" /\ ui' = "reset" /\ disturbed' = disturbed + 1
      BY <1>3 DEF SendCommand
    <2> QED BY <1>1, <1>2, <2>1, <2>2 DEF Rank
  <1>4. CASE CommandReset
    <2>1. CallerRank' = CallerRank /\ ReaderRank' = ReaderRank
      BY <1>4 DEF CommandReset, CallerRank, ReaderRank, caller, readers, shared
    <2>2. line' = line /\ ui = "reset" /\ ui' = "idle" /\ disturbed' = disturbed
      BY <1>4 DEF CommandReset
    <2> QED BY <1>1, <1>2, <2>1, <2>2 DEF Rank
  <1>5. ASSUME NEW p \in Protocols \ {"SCI"}, Talk(p) PROVE Rank' < Rank
    <2>1. CallerRank' = CallerRank /\ ReaderRank' = ReaderRank
      BY <1>5 DEF Talk, CallerRank, ReaderRank, caller, readers, shared
    <2>2. Len(line') = Len(line) + 1
      BY <1>5, AppendProperties DEF Talk, StepInv, TypeInv, TypeOK
    <2>3. ui' = ui /\ disturbed' = disturbed + 1
      BY <1>5 DEF Talk
    <2> QED BY <1>1, <1>2, <2>1, <2>2, <2>3 DEF Rank
  <1>6. CASE PortCloses
    <2>1. CallerRank' = CallerRank \/ CallerRank' = CallerRank + 1
      <3> DEFINE cost == (3 - tries) * TryCost
      <3>1. cost \in Nat /\ left \in Nat /\ More \in Nat
        BY HandlerAssumption, TryCosts DEF StepInv, TypeInv, TypeOK
      <3>2. UNCHANGED caller /\ open /\ ~open'
        BY <1>6 DEF PortCloses
      <3>3. CASE pc = "write"
        <4>1. CallerRank = 3 * More + cost /\ CallerRank' = 3 * More + cost + 1
          BY <3>1, <3>2, <3>3 DEF CallerRank, caller, TryCost
        <4> QED BY <1>2, <4>1
      <3>4. CASE pc # "write"
        <4>1. CallerRank' = CallerRank
          BY <3>2, <3>4 DEF CallerRank, caller, StepInv, TypeInv, TypeOK
        <4> QED BY <1>2, <4>1
      <3> QED BY <3>3, <3>4
    <2>2. ReaderRank' = 0 \/ ReaderRank' = ReaderRank
      <3>1. reader' = "gone" \/ reader' = reader
        BY <1>6 DEF PortCloses
      <3> QED BY <3>1 DEF ReaderRank
    <2>3. line' = line /\ ui' = ui /\ disturbed' = disturbed + 1
      BY <1>6 DEF PortCloses
    <2>4. Len(line') = Len(line) /\ (IF ui' = "reset" THEN 1 ELSE 0) = (IF ui = "reset" THEN 1 ELSE 0)
      BY <2>3
    <2>5. 8 * (MaxDisturbances - disturbed') = 8 * (MaxDisturbances - disturbed) - 8
      BY <1>1, <2>3
    <2> DEFINE u == IF ui = "reset" THEN 1 ELSE 0
               d == 8 * (MaxDisturbances - disturbed)
    <2>6. u \in Int /\ d \in Int
      BY <1>1
    <2>7. Rank' = CallerRank' + ReaderRank' + 7 * Len(line') + u + (d - 8)
      BY <2>4, <2>5 DEF Rank
    <2>8. Rank = CallerRank + ReaderRank + 7 * Len(line) + u + d
      BY DEF Rank
    <2>9. Len(line') = Len(line)
      BY <2>3
    <2> HIDE DEF u, d
    <2>10. Rank' = CallerRank' + ReaderRank' + 7 * Len(line) + u + (d - 8)
      BY <2>7, <2>9
    <2>11. \A c, r, l \in Nat, v, e \in Int :
               \A c1 \in {c, c + 1}, r1 \in {0, r} : c1 + r1 + 7 * l + v + (e - 8) < c + r + 7 * l + v + e
      OBVIOUS
    <2>12. CallerRank' \in {CallerRank, CallerRank + 1} /\ ReaderRank' \in {0, ReaderRank}
      BY <2>1, <2>2
    <2>13. CallerRank' + ReaderRank' + 7 * Len(line) + u + (d - 8)
               < CallerRank + ReaderRank + 7 * Len(line) + u + d
      BY <1>2, <2>6, <2>11, <2>12, Zenon
    <2> QED BY <2>8, <2>10, <2>13
  <1> QED BY <1>3, <1>4, <1>5, <1>6

\* Every step but a new call uses up a number: with no more calls the handler
\* comes to rest, and a call that the threads go on with comes to its end,
\* whatever is lost, late or closed (ArduinoCommHandler.cs:51-151, 195-227).
THEOREM CommStepsRunOut ==
    Spec => [][(\E p \in Protocols : Call(p)) \/ (Rank \in Nat /\ Rank' < Rank)]_vars
  <1> DEFINE Down == Rank \in Nat /\ Rank' < Rank
  <1>1. ASSUME StepInv, StepInv', [Next]_vars, ~(\E p \in Protocols : Call(p)), ~(UNCHANGED vars)
        PROVE  Down
    <2>1. /\ CallerRank \in Nat /\ ReaderRank \in Nat /\ Rank \in Nat
          /\ CallerRank' \in Nat /\ ReaderRank' \in Nat
      <3>1. (StepInv => CallerRank \in Nat /\ ReaderRank \in Nat /\ Rank \in Nat)'
        BY RanksAreNumbers, PTL
      <3> QED BY <1>1, <3>1, RanksAreNumbers
    <2>2. Len(line) \in Nat /\ Len(line') \in Nat
      BY <1>1, LenProperties DEF StepInv, TypeInv, TypeOK
    <2> DEFINE u == (IF ui = "reset" THEN 1 ELSE 0) + 8 * (MaxDisturbances - disturbed)
    <2>3. u \in Int
      BY <1>1, HandlerAssumption DEF StepInv, TypeInv, TypeOK
    <2>4. Rank = CallerRank + ReaderRank + 7 * Len(line) + u
      <3> DEFINE u1 == IF ui = "reset" THEN 1 ELSE 0
                 u2 == 8 * (MaxDisturbances - disturbed)
      <3>1. u1 \in Int /\ u2 \in Int /\ u = u1 + u2
        BY <1>1, HandlerAssumption DEF StepInv, TypeInv, TypeOK
      <3>2. Rank = CallerRank + ReaderRank + 7 * Len(line) + u1 + u2
        BY DEF Rank
      <3> HIDE DEF u, u1, u2
      <3> QED BY <2>1, <2>2, <3>1, <3>2
    <2>5. UNCHANGED <<ui, disturbed>> => Rank' = CallerRank' + ReaderRank' + 7 * Len(line') + u
      <3> DEFINE u1 == IF ui = "reset" THEN 1 ELSE 0
                 u2 == 8 * (MaxDisturbances - disturbed)
      <3> SUFFICES ASSUME UNCHANGED <<ui, disturbed>> PROVE Rank' = CallerRank' + ReaderRank' + 7 * Len(line') + u
        OBVIOUS
      <3>1. u1 \in Int /\ u2 \in Int /\ u = u1 + u2
        BY <1>1, HandlerAssumption DEF StepInv, TypeInv, TypeOK
      <3>2. Rank' = CallerRank' + ReaderRank' + 7 * Len(line') + u1 + u2
        BY DEF Rank
      <3> HIDE DEF u, u1, u2
      <3> QED BY <2>1, <2>2, <3>1, <3>2
    <2> HIDE DEF u
    <2>6. CASE CallerStep
      <3>1. UNCHANGED <<readers, ui, disturbed>>
        BY <2>6 DEF CallerStep, ResetEvent, ClearBuffer, Write, Reopen, Response, Copy, Timeout, ResetAgain,
           NextFrame, TakeFrame, NoMore, readers, rest
      <3>2. ReaderRank' = ReaderRank
        BY <3>1 DEF ReaderRank, readers
      <3>3. CallerRank' + 7 * Len(line') < CallerRank + 7 * Len(line)
        BY <1>1, <2>6, CallerRunsOut
      <3> QED BY <2>1, <2>2, <2>3, <2>4, <2>5, <3>1, <3>2, <3>3
    <2>7. CASE ReaderStep
      <3>1. UNCHANGED <<caller, ui, disturbed, open>>
        BY <2>7 DEF ReaderStep, ReadFrame, Match, ClassifyCCD, ClassifyJ1850, Store, SetEvent, ReaderEnds, rest
      <3>2. CallerRank' = CallerRank
        BY <3>1 DEF CallerRank, caller
      <3>3. ReaderRank' + 7 * Len(line') < ReaderRank + 7 * Len(line)
        BY <1>1, <2>7, ReaderRunsOut
      <3> QED BY <2>1, <2>2, <2>3, <2>4, <2>5, <3>1, <3>2, <3>3
    <2>8. CASE SendCommand \/ CommandReset \/ PortCloses \/ \E p \in Protocols \ {"SCI"} : Talk(p)
      BY <1>1, <2>1, <2>8, OthersRunOut
    <2> QED BY <1>1, <2>6, <2>7, <2>8 DEF Next
  <1>2. StepInv /\ StepInv' /\ [Next]_vars => [(\E p \in Protocols : Call(p)) \/ Down]_vars
    BY <1>1
  <1> QED BY <1>2, StepInvAlways, PTL DEF Spec

\* the caller has a step that waits for nothing, or its wait is over or out of time
CallerMay ==
    \/ pc \in {"reset", "clear", "write", "copy", "more", "take"}
    \/ pc \in {"wait", "await"} /\ (event \/ ~calm \/ ~AnswerComing)

\* the reader handles a frame, or one is there for it, or the port is closed under it
ReaderMay ==
    \/ reader \notin {"read", "gone"}
    \/ /\ reader = "read" /\ open /\ line # <<>>
       /\ calm => pc = "idle" \/ (pc \in {"wait", "await"} /\ ~event)
    \/ reader = "read" /\ ~open

\* During a call one of the two threads can go on: they never wait for each
\* other, since nobody waits for an answer that is not on its way and the
\* reader leaves no frame on the line while the caller waits.
THEOREM CommNeverStuck == Spec => [](pc # "idle" => CallerMay \/ ReaderMay)
  <1>1. StepInv => (pc # "idle" => CallerMay \/ ReaderMay)
    <2> SUFFICES ASSUME StepInv, pc \in {"wait", "await"}, ~CallerMay PROVE ReaderMay
      BY DEF StepInv, TypeInv, TypeOK, CallerMay
    <2>1. calm /\ AnswerComing /\ ~event
      BY DEF CallerMay
    <2>2. open /\ reader # "gone"
      BY <2>1 DEF StepInv
    <2>3. ASSUME reader = "read" PROVE line # <<>>
      BY <2>1, <2>3 DEF AnswerComing
    <2> QED BY <2>1, <2>2, <2>3 DEF ReaderMay
  <1> QED BY <1>1, StepInvAlways, PTL
===============================================================================
