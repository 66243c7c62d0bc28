----------------------------- MODULE SciExchange -----------------------------
(***************************************************************************)
(* What the SCI engine promises a host that waits for its answers.  The    *)
(* vehicle echoes every byte of a request, and the whole echo is reported  *)
(* to the host as one message, once; every byte that the vehicle sends on  *)
(* its own is reported as a message of one byte.                           *)
(***************************************************************************)
EXTENDS Integers, Sequences

CONSTANTS
    Messages,   \* what the host may ask to send
    Replies     \* the bytes the vehicle may send on its own

VARIABLES
    request,    \* the message under way, <<>> when there is none
    reports     \* what was reported to the host so far

vars == <<request, reports>>

Init == request = <<>> /\ reports = <<>>

Ask(m) ==
    /\ request = <<>>
    /\ request' = m
    /\ UNCHANGED reports

Complete ==
    /\ request # <<>>
    /\ reports' = Append(reports, request)
    /\ request' = <<>>

Reply(b) ==
    /\ request = <<>>
    /\ reports' = Append(reports, <<b>>)
    /\ UNCHANGED request

Next == (\E m \in Messages : Ask(m)) \/ Complete \/ (\E b \in Replies : Reply(b))

Spec == Init /\ [][Next]_vars /\ WF_vars(Complete)
==============================================================================
