------------------------------- MODULE BtQueue -------------------------------
(***************************************************************************)
(* What the queue between the adapter's protocol handlers and its          *)
(* Bluetooth UART promises: bytes leave in the order in which they were    *)
(* queued, a frame is queued whole, and the only loss is that a frame may  *)
(* be queued in place of the entire backlog.  Two kinds of damage are part *)
(* of the promise: one byte of a report frame is never written, so it      *)
(* holds whatever was there, and the byte that is stored behind the array  *)
(* is also the variable of somebody else, who may change it.               *)
(***************************************************************************)
EXTENDS Integers, Sequences

CONSTANTS
    Byte,       \* the values of a byte
    Payloads,   \* the messages that protocol handlers report
    Protocols,  \* the protocol numbers they report them under
    Codes,      \* the result codes of commands
    Foreign     \* the values that the variable behind the array takes

VARIABLE queue  \* the bytes not yet handed to the UART

\* bt_queue_cmd: '+', 'B', a length of one, the code and a newline
CmdFrame(c) == <<43, 66, 1, c, 10>>

\* bt_queue_rx: '+', 'B', the message flag, the protocol, a byte that is
\* skipped, the payload and a newline
RxFrame(m, p, stale) == <<43, 66, 128, p, stale>> \o m \o <<10>>

Frames == {CmdFrame(c) : c \in Codes}
          \cup {RxFrame(m, p, s) : m \in Payloads, p \in Protocols, s \in Byte}

Init == queue = <<>>

Put == \E f \in Frames : queue' = queue \o f

\* the loss: the backlog goes, the frame stays
PutAlone == \E f \in Frames : queue' = f

Take == queue # <<>> /\ queue' = Tail(queue)

Smudge == \E i \in DOMAIN queue, b \in Foreign : queue' = [queue EXCEPT ![i] = b]

Next == Put \/ PutAlone \/ Take \/ Smudge

Spec == Init /\ [][Next]_queue
==============================================================================
