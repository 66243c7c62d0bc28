------------------------------ MODULE CcdProofs ------------------------------
(***************************************************************************)
(* Theorems about CcdEngine for every width of a byte, every set of        *)
(* messages and any number of them.                                        *)
(***************************************************************************)
EXTENDS CcdEngine, SequenceTheorems, TLAPS

\* With a byte on the bus there is something of its message to come.
TypeInv ==
    /\ TypeOK
    /\ said \in Seq(Byte) /\ (inByte => said # <<>>)

LEMMA TypeInvInit == Init => TypeInv
  BY CcdAssumption DEF Init, TypeInv, TypeOK, Byte

\* A byte of the bus is received: what waits for the pause gets longer.
LEMMA RxcTypes ==
    ASSUME rx \in Seq(Byte), said \in Seq(Byte), said # <<>>, Rxc
    PROVE  rx' \in Seq(Byte) /\ rx' # <<>> /\ said' \in Seq(Byte)
  <1>1. Head(said) \in Byte /\ Tail(said) \in Seq(Byte)
    BY HeadTailProperties
  <1>2. Append(rx, Head(said)) \in Seq(Byte) /\ Append(rx, Head(said)) # <<>>
    BY <1>1, AppendProperties
  <1> QED BY <1>1, <1>2 DEF Rxc

LEMMA TypeInvNext == TypeInv /\ [Next]_vars => TypeInv'
  <1> SUFFICES ASSUME TypeInv, [Next]_vars PROVE TypeInv'
    OBVIOUS
  <1> USE CcdAssumption DEF TypeInv, TypeOK, host, bus, receiver
  <1>1. CASE HostSends
    BY <1>1 DEF HostSends, tx0
  <1>2. CASE MainStep
    BY <1>2 DEF MainStep, Load, AddSum, Rewind, StartIfIdle, StartTx0, tx0
  <1>3. CASE IdleOver
    BY <1>3 DEF IdleOver, Report, StartTx0
  <1>4. CASE DriveBit
    BY <1>4 DEF DriveBit
  <1>5. CASE EndActive
    BY <1>5 DEF EndActive
  <1>6. CASE EndLost
    BY <1>6 DEF EndLost
  <1>7. ASSUME NEW low \in BOOLEAN, Sample(low) PROVE TypeInv'
    <2>1. tx0Byte' \in Byte
      BY <1>7 DEF Sample, SetBit, Byte
    <2>2. step' \in 0 .. 3 /\ bit # Bits + 2
      BY <1>7 DEF Sample
    <2> QED BY <1>7, <2>1, <2>2 DEF Sample
  <1>8. CASE NextBit
    BY <1>8 DEF NextBit
  <1>9. CASE StartByte
    BY <1>9 DEF StartByte, Edge, tx0
  <1>10. ASSUME NEW m \in Messages, StartMessage(m) PROVE TypeInv'
    BY <1>10 DEF StartMessage, Edge, tx0
  <1>11. CASE Rxc
    <2>1. rx' \in Seq(Byte) /\ rx' # <<>> /\ said' \in Seq(Byte)
      BY <1>11, RxcTypes DEF Rxc
    <2> QED BY <1>11, <2>1 DEF Rxc, StartIdleTimer, tx0
  <1>12. CASE UNCHANGED vars
    BY <1>12 DEF vars, tx0
  <1> HIDE DEF TypeInv
  <1> QED BY <1>1, <1>2, <1>3, <1>4, <1>5, <1>6, <1>7, <1>8, <1>9, <1>10, <1>11, <1>12 DEF Next, Tick

\* Wherever the main loop rewinds the bit, the tick stays within its byte, and the
\* idle timer only runs with a byte received (CCD.c:35-38, :102, :117-175).
THEOREM CcdTypes == Spec => []TypeOK
  <1>1. TypeInv => TypeOK
    BY DEF TypeInv
  <1> QED BY <1>1, TypeInvInit, TypeInvNext, PTL DEF Spec

-------------------------------------------------------------------------------
(* Without a message of the host *)

\* The second timer never runs, so that every edge is seen: the idle timer runs
\* in a gap of the bus, while something is in the buffer, and never elsewhere.
Quiet ==
    /\ hosted \in BOOLEAN
    /\ ~hosted =>
        /\ pc = "turn" /\ pending = FALSE /\ txLen = 0
        /\ active = FALSE /\ tx0On = FALSE
        /\ idleTimer = IF rx # <<>> /\ ~inByte THEN "byte" ELSE "off"

\* The bodies due are those reported, with that of the message under way.
Due ==
    ~hosted => due = IF rx \o said = <<>> THEN reports ELSE With(reports, rx \o said)

ReportInv == Quiet /\ Due

LEMMA ReportInvInit == Init => ReportInv
  BY DEF Init, ReportInv, Quiet, Due

\* A byte goes over from what is to come to what was received.
LEMMA Moved ==
    ASSUME rx \in Seq(Byte), said \in Seq(Byte), said # <<>>
    PROVE  Append(rx, Head(said)) \o Tail(said) = rx \o said
  <1>1. Head(said) \in Byte /\ Tail(said) \in Seq(Byte) /\ said = <<Head(said)>> \o Tail(said)
    BY HeadTailProperties
  <1>2. Append(rx, Head(said)) = rx \o <<Head(said)>>
    BY <1>1, AppendIsConcat
  <1>3. (rx \o <<Head(said)>>) \o Tail(said) = rx \o (<<Head(said)>> \o Tail(said))
    BY <1>1, ConcatAssociative
  <1> QED BY <1>1, <1>2, <1>3

LEMMA ReportInvNext == TypeInv /\ ReportInv /\ [Next]_vars => ReportInv'
  <1> SUFFICES ASSUME TypeInv, ReportInv, [Next]_vars PROVE ReportInv'
    OBVIOUS
  <1>1. CASE UNCHANGED vars
    BY <1>1 DEF vars, host, bus, receiver, tx0, ReportInv, Quiet, Due, With
  <1>2. CASE Next
    <2>1. hosted' = hosted
      BY <1>2 DEF Next, HostSends, MainStep, Load, AddSum, Rewind, StartIfIdle, IdleOver, Tick, DriveBit,
         EndActive, EndLost, Sample, NextBit, StartByte, StartMessage, Rxc, host
    <2>2. SUFFICES ASSUME ~hosted PROVE ReportInv'
      BY <2>1 DEF ReportInv, Quiet, Due
    <2> USE <2>1, <2>2 DEF host, bus, receiver, tx0
    <2>3. CASE HostSends \/ MainStep \/ Tick
      BY <2>3 DEF ReportInv, Quiet, HostSends, MainStep, Load, AddSum, Rewind, StartIfIdle, Tick, DriveBit,
         EndActive, EndLost, Sample, NextBit
    <2>4. CASE IdleOver
      <3>1. said = <<>> /\ rx # <<>> /\ rx \in Seq(Byte)
        BY <2>4 DEF IdleOver, IdleTimeElapses, ReportInv, Quiet, TypeInv, TypeOK
      <3>2. rx \o said = rx /\ rx' \o said' = <<>>
        BY <2>4, <3>1, ConcatEmptySeq DEF IdleOver, Report
      <3>3. Quiet'
        BY <2>4, <3>1 DEF IdleOver, Report, ReportInv, Quiet
      <3>4. Due'
        BY <2>4, <3>1, <3>2 DEF IdleOver, Report, ReportInv, Due
      <3> QED BY <3>3, <3>4 DEF ReportInv
    <2>5. CASE StartByte
      BY <2>5 DEF StartByte, Edge, ReportInv, Quiet, Due, With
    <2>6. ASSUME NEW m \in Messages, StartMessage(m) PROVE ReportInv'
      <3>1. rx = <<>> /\ said = <<>> /\ m \in Seq(Byte) /\ m # <<>>
        BY <2>6, CcdAssumption DEF StartMessage, ReportInv, Quiet
      <3>2. rx \o said = <<>> /\ rx' \o said' = m
        BY <2>6, <3>1, ConcatEmptySeq DEF StartMessage
      <3>3. Quiet'
        BY <2>6 DEF StartMessage, Edge, ReportInv, Quiet
      <3>4. Due'
        BY <2>6, <3>1, <3>2 DEF StartMessage, ReportInv, Due, With
      <3> QED BY <3>3, <3>4 DEF ReportInv
    <2>7. CASE Rxc
      <3>1. rx' \o said' = rx \o said /\ rx' # <<>>
        BY <2>7, Moved, RxcTypes DEF Rxc, TypeInv, TypeOK
      <3>2. Quiet'
        BY <2>7, <3>1 DEF Rxc, StartIdleTimer, ReportInv, Quiet
      <3>3. Due'
        BY <2>7, <3>1 DEF Rxc, ReportInv, Due, With
      <3> QED BY <3>2, <3>3 DEF ReportInv
    <2> QED BY <1>2, <2>3, <2>4, <2>5, <2>6, <2>7 DEF Next
  <1> QED BY <1>1, <1>2

LEMMA ReportInvImplies == TypeInv /\ ReportInv => ReportsWhatIsSaid
  <1> SUFFICES ASSUME TypeInv, ReportInv, ~hosted, said = <<>>, idleTimer = "off" PROVE reports = due
    BY DEF ReportsWhatIsSaid
  <1>1. rx = <<>>
    BY DEF TypeInv, ReportInv, Quiet
  <1> QED BY <1>1, ConcatEmptySeq DEF ReportInv, Due

\* Without a message of the host every sound message on the bus is reported whole,
\* once and in order, however edges, bytes and the timer follow each other
\* (CCD.c:100-109, :226-237).
THEOREM CcdReports == Spec => []ReportsWhatIsSaid
  <1> QED BY TypeInvInit, TypeInvNext, ReportInvInit, ReportInvNext, ReportInvImplies, PTL DEF Spec

-------------------------------------------------------------------------------
(* With a message of the host as well                                        *)

\* The idle timer is off only in the middle of a byte, or when it has run out
\* and the buffer is empty.
Watched == rx # <<>> => idleTimer # "off" \/ inByte

LEMMA WatchedNext == TypeInv /\ Watched /\ [Next]_vars => Watched'
  <1> SUFFICES ASSUME TypeInv, Watched, [Next]_vars PROVE Watched'
    OBVIOUS
  <1> USE DEF Watched, host, bus, receiver, tx0
  <1>1. CASE HostSends \/ MainStep
    BY <1>1 DEF HostSends, MainStep, Load, AddSum, Rewind, StartIfIdle
  <1>2. CASE IdleOver
    BY <1>2 DEF IdleOver, Report
  <1>3. CASE Tick
    BY <1>3 DEF Tick, DriveBit, EndActive, EndLost, Sample, NextBit
  <1>4. CASE StartByte \/ \E m \in Messages : StartMessage(m)
    BY <1>4 DEF StartByte, StartMessage
  <1>5. CASE Rxc
    BY <1>5 DEF Rxc, StartIdleTimer
  <1>6. CASE UNCHANGED vars
    BY <1>6 DEF vars
  <1> QED BY <1>1, <1>2, <1>3, <1>4, <1>5, <1>6 DEF Next

\* However the host's byte and its timer interfere, what is in the buffer is never
\* forgotten: more of the message on the bus is to come, with bytes that start the idle
\* timer again, or the idle timer runs and the bus lets it run out (CCD.c:100-116, :141-149, :226-237).
THEOREM CcdNeverForgets ==
    Spec => [](rx # <<>> => said # <<>> \/ IdleTimeElapses)
  <1>1. TypeInv /\ Watched => (rx # <<>> => said # <<>> \/ IdleTimeElapses)
    BY DEF TypeInv, TypeOK, Watched, IdleTimeElapses
  <1>2. Init => Watched
    BY DEF Init, Watched
  <1> QED BY <1>1, <1>2, TypeInvInit, TypeInvNext, WatchedNext, PTL DEF Spec
===============================================================================
