-------------------------------- MODULE BtLink --------------------------------
(***************************************************************************)
(* The main loop of main.c as the reader of the ring of BtRing, taken      *)
(* apart into the accesses between which an interrupt may run, and with    *)
(* the sleep at its end.  The interrupt handlers that report a message     *)
(* (SCI, CCD, ISO 9141) call bt_queue_rx, one action here: handlers of     *)
(* one level do not nest.                                                  *)
(*                                                                         *)
(* A pointer has two bytes, which the processor loads one after the other. *)
(***************************************************************************)
EXTENDS BtRing

CONSTANTS
    Page,       \* positions that share the high byte of a pointer (256)
    MaxReports  \* bound on the reports in a behaviour

ASSUME LinkAssumption == Page \in Nat \ {0} /\ MaxReports \in Nat

VARIABLES
    pc,         \* where the main loop is
    lo,         \* the low byte of bt_rx_last, once loaded
    at,         \* the position of the byte last written to the UART
    count,      \* bt_rx_buffer_fill_size, once loaded
    empty,      \* the UART's data register empty flag, DREIF
    sent,       \* the bytes written to the UART
    queued,     \* the bytes of all reports
    discarded   \* whether bt_queue_rx ever threw a backlog away

main == <<pc, lo, at, count, empty, sent>>
linkVars == <<vars, main, queued, discarded>>

\* the part of the drain that sets only variables of the main loop
RingUnchanged == UNCHANGED <<vars, queued, discarded>>

LoadLow ==
    /\ pc = "top"
    /\ lo' = last % Page
    /\ pc' = "high"
    /\ RingUnchanged /\ UNCHANGED <<at, count, empty, sent>>

\* mutant: the comparison stops at the low byte
CompareLow ==
    /\ pc = "high"
    /\ pc' = IF lo # begin % Page /\ empty THEN "data" ELSE "sleep"
    /\ RingUnchanged /\ UNCHANGED <<lo, at, count, empty, sent>>

\* mutant: nobody asks whether the ring is empty
CompareBlind ==
    /\ pc = "high"
    /\ pc' = IF empty THEN "data" ELSE "sleep"
    /\ RingUnchanged /\ UNCHANGED <<lo, at, count, empty, sent>>

\* if(bt_rx_begin != bt_rx_last && UART_BT.STATUS & USART_DREIF_bm)
Compare ==
    /\ pc = "high"
    /\ pc' = IF (last \div Page) * Page + lo # begin /\ empty THEN "data" ELSE "sleep"
    /\ RingUnchanged /\ UNCHANGED <<lo, at, count, empty, sent>>

WriteData ==
    /\ pc = "data"
    /\ sent' = Append(sent, ring[begin])
    /\ at' = begin
    /\ empty' = FALSE
    /\ pc' = "advance"
    /\ RingUnchanged /\ UNCHANGED <<lo, count>>

\* bt_rx_begin is not volatile: the compiler loads it again or uses the value
\* it has loaded for the byte, which an interrupt may have made stale
AdvanceBegin ==
    /\ pc = "advance"
    /\ begin' \in {GetNext(begin), GetNext(at)}
    /\ bare' = IF bare = 0 THEN 0 ELSE bare - 1
    /\ pc' = "load"
    /\ UNCHANGED <<ring, last, fill, queued, discarded, lo, at, count, empty, sent>>

\* bt_rx_buffer_fill_size--
LoadFill ==
    /\ pc = "load"
    /\ count' = fill
    /\ pc' = "store"
    /\ RingUnchanged /\ UNCHANGED <<lo, at, empty, sent>>

StoreFill ==
    /\ pc = "store"
    /\ fill' = Wrap(count - 1)
    /\ pc' = "sleep"
    /\ UNCHANGED <<ring, begin, last, bare, queued, discarded, lo, at, count, empty, sent>>

\* sleepmgr_enter_sleep does not ask whether anything is left to do
Sleep ==
    /\ pc = "sleep"
    /\ pc' = "asleep"
    /\ RingUnchanged /\ UNCHANGED <<lo, at, count, empty, sent>>

\* the UART takes the byte; it raises no interrupt for that
Shift ==
    /\ ~empty
    /\ empty' = TRUE
    /\ RingUnchanged /\ UNCHANGED <<pc, lo, at, count, sent>>

\* the sleep ends with any interrupt, and only with one
Woken == pc' = IF pc = "asleep" THEN "top" ELSE pc

\* a handler that calls bt_queue_rx
Report(m, p) ==
    /\ Len(queued) < MaxReports * (MaxLen + 6)
    /\ QueueRx(m, p)
    /\ queued' = queued \o [i \in 1 .. Len(m) + 6 |-> ring'[Advance(last, i - 1)]]
    /\ discarded' = (discarded \/ Overflows(Len(m)))
    /\ Woken
    /\ UNCHANGED <<lo, at, count, empty, sent>>

\* a handler that reports nothing: a byte from the host, or from a bus in the
\* middle of a message
OtherInterrupt ==
    /\ pc = "asleep"
    /\ Woken
    /\ RingUnchanged /\ UNCHANGED <<lo, at, count, empty, sent>>

LinkInit ==
    /\ Init
    /\ pc = "top" /\ lo = 0 /\ at = 0 /\ count = 0 /\ empty = TRUE
    /\ sent = <<>> /\ queued = <<>> /\ discarded = FALSE

MainStep == LoadLow \/ Compare \/ WriteData \/ AdvanceBegin \/ LoadFill \/ StoreFill \/ Sleep

LinkNext ==
    \/ MainStep
    \/ Shift
    \/ \E m \in Payloads, p \in Protocols : Report(m, p)
    \/ OtherInterrupt

\* Interrupts keep coming: some bus of the vehicle or the host is never silent
\* for good.
LinkSpec ==
    /\ LinkInit /\ [][LinkNext]_linkVars
    /\ WF_linkVars(MainStep) /\ WF_linkVars(Shift) /\ WF_linkVars(OtherInterrupt)

-------------------------------------------------------------------------------
\* While the producers are Paced, and until bt_queue_rx first discards a
\* backlog, the bytes written to the UART and those still in the ring are the
\* bytes of the reports, in order and once, wherever the interrupts fall
\* (main.c:185-191 against main.c:229-249).  Without the pace a count that
\* bt_rx_buffer_fill_size-- overwrote lets a later report run over a backlog.
SentInOrder ==
    ~discarded =>
        sent \o SubSeq(Backlog, IF pc = "advance" THEN 2 ELSE 1, Live) = queued

\* While interrupts keep coming the loop empties the ring, even though each
\* turn sends one byte and the UART wakes nobody; and unless bt_queue_rx threw
\* a backlog away, every report was then sent to its last byte.
AllSent == <>[](begin = last /\ (discarded \/ sent = queued))
===============================================================================
