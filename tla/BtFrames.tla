------------------------------- MODULE BtFrames -------------------------------
(***************************************************************************)
(* How main.c assembles the host's bytes to frames, and what it does with  *)
(* a frame: it forwards a message to the handler of a bus, or it runs a    *)
(* command.  A frame that the code can accept is                           *)
(*     '+' 'B' n rest...                                                   *)
(* where n counts itself and the rest; the host may end it with a newline. *)
(*                                                                         *)
(* The main loop looks for the newline in the slot behind the last byte,   *)
(* where it finds what an earlier frame, or the uninitialised stack, left. *)
(***************************************************************************)
EXTENDS Integers, Sequences

CONSTANTS
    BuffLen,    \* slots of pendingRxBt.bytes (127)
    Residue,    \* what the stack may hold in a slot at the start
    Data,       \* the payloads of the host's messages
    Buses,      \* the protocols the host sends messages for
    Commands,   \* the commands the host sends
    Ends,       \* what the host sends behind a frame
    MaxFrames   \* bound on the frames the host sends

Protocols == {1, 53, 60, 155}       \* J1850, CCD, SCI, ISO 9141
MuxCommands == {1, 2, 5}            \* CMD_SET_MUX_SCI_A, _SCI_B, _9141
SpeedCommands == {6, 7}             \* CMD_SET_SCI_HISPEED, _LOSPEED
FiveBaudInit == 8                   \* CMD_ISO9141_5BAUDINIT

CommandFrame(c) == <<43, 66, 2, c>>
MessageFrame(p, d) == <<43, 66, Len(d) + 3, 128, p>> \o d

Frames == {CommandFrame(c) : c \in Commands}
          \cup {MessageFrame(p, d) : p \in Buses, d \in Data}

ASSUME FrameAssumption ==
    /\ BuffLen \in Nat \ {0} /\ MaxFrames \in Nat
    /\ \A d \in Data : d \in Seq(0 .. 255) /\ Len(d) + 3 <= 255
    /\ \A e \in Ends : e \in Seq(0 .. 255)
    /\ Buses \subseteq 0 .. 255
    /\ Commands \subseteq 0 .. 255 \ {128} /\ Residue \subseteq 0 .. 255

VARIABLES
    asked,      \* the frames the host has begun to send
    stream,     \* the bytes of the last one, and its end, still to come
    bytes,      \* pendingRxBt.bytes
    idxLast,    \* pendingRxBt.idxLast
    pc,         \* the part of the loop that comes next
    done,       \* what was forwarded or run, from the third byte on
    mux,        \* the output pins that are high, per port
    selected,   \* the last command given to set_mux_config
    success     \* how many RC_SUCCESS were queued

vars == <<asked, stream, bytes, idxLast, pc, done, mux, selected, success>>

Received == [i \in 1 .. idxLast |-> bytes[i - 1]]

\* the newline is looked for behind the last byte
AtNewline == idxLast # 0 /\ bytes[idxLast] = 10

\* mutant: the length byte is not compared
WellFormedAnyLength ==
    /\ AtNewline
    /\ idxLast > 3
    /\ bytes[0] = 43 /\ bytes[1] = 66

WellFormed ==
    /\ AtNewline
    /\ idxLast > 3
    /\ bytes[0] = 43 /\ bytes[1] = 66
    /\ idxLast = bytes[2] + 2

IsMessage == WellFormed /\ bytes[3] = 128 /\ bytes[4] \in Protocols
IsCommand == WellFormed /\ bytes[3] \in MuxCommands \cup SpeedCommands \cup {FiveBaudInit}

\* Pins of definitions.h, by their number on the port they are used on here:
\* SCI_A_TX_EN 0, SCI_B_TX_EN 1, SCI_A_RX_EN 4, SCI_B_RX_EN 5, ISO_K_EN 5.
SetMux(m, cmd) ==
    CASE cmd = 1 -> [b |-> (m.b \cup {5}) \ {0}, c |-> (m.c \cup {1}) \ {4}, d |-> m.d \cup {5}]
      [] cmd = 2 -> [b |-> (m.b \cup {4}) \ {1}, c |-> (m.c \cup {0}) \ {5}, d |-> m.d]
      [] cmd = 5 -> [b |-> m.b \cup {4}, c |-> m.c \cup {0}, d |-> m.d \ {5}]

Init ==
    /\ asked = <<>> /\ stream = <<>> /\ done = <<>> /\ success = 0
    /\ bytes \in [0 .. BuffLen - 1 -> Residue] /\ idxLast = 0
    /\ pc = "check"
    /\ selected = 1
    /\ mux = SetMux([b |-> {}, c |-> {}, d |-> {5}], 1)

HostFrame(f, end) ==
    /\ stream = <<>> /\ Len(asked) < MaxFrames
    /\ asked' = Append(asked, f)
    /\ stream' = f \o end
    /\ UNCHANGED <<bytes, idxLast, pc, done, mux, selected, success>>

\* bt_setup_tx_buffer into the buffer of a bus
Forward ==
    /\ pc = "check" /\ IsMessage
    /\ done' = Append(done, SubSeq(Received, 3, idxLast))
    /\ UNCHANGED <<mux, selected, success>>

RunMux ==
    /\ pc = "check" /\ IsCommand /\ bytes[3] \in MuxCommands
    /\ done' = Append(done, SubSeq(Received, 3, idxLast))
    /\ mux' = SetMux(mux, bytes[3])
    /\ selected' = bytes[3]
    /\ success' = success + 1

\* mutant: the success is queued twice
RunSpeedTwice ==
    /\ pc = "check" /\ IsCommand /\ bytes[3] \in SpeedCommands
    /\ done' = Append(done, SubSeq(Received, 3, idxLast))
    /\ success' = success + 2
    /\ UNCHANGED <<mux, selected>>

\* sci_hi_speed, sci_lo_speed
RunSpeed ==
    /\ pc = "check" /\ IsCommand /\ bytes[3] \in SpeedCommands
    /\ done' = Append(done, SubSeq(Received, 3, idxLast))
    /\ success' = success + 1
    /\ UNCHANGED <<mux, selected>>

\* iso9141_start_five_baud_init; its answer comes later, from ISO9141.c
RunInit ==
    /\ pc = "check" /\ IsCommand /\ bytes[3] = FiveBaudInit
    /\ done' = Append(done, SubSeq(Received, 3, idxLast))
    /\ UNCHANGED <<mux, selected, success>>

Ignore ==
    /\ pc = "check" /\ ~IsMessage /\ ~IsCommand
    /\ UNCHANGED <<done, mux, selected, success>>

Check ==
    /\ Forward \/ RunMux \/ RunSpeed \/ RunInit \/ Ignore
    /\ idxLast' = IF AtNewline THEN 0 ELSE idxLast
    /\ pc' = "receive"
    /\ UNCHANGED <<asked, stream, bytes>>

\* The model stops where the index would leave the array.
Receive ==
    /\ pc = "receive" /\ stream # <<>> /\ idxLast < BuffLen - 1
    /\ bytes' = [bytes EXCEPT ![idxLast] = Head(stream)]
    /\ stream' = Tail(stream)
    /\ idxLast' = idxLast + 1
    /\ pc' = "check"
    /\ UNCHANGED <<asked, done, mux, selected, success>>

ReceiveNothing ==
    /\ pc = "receive"
    /\ pc' = "check"
    /\ UNCHANGED <<asked, stream, bytes, idxLast, done, mux, selected, success>>

Next == (\E f \in Frames, end \in Ends : HostFrame(f, end)) \/ Check \/ Receive \/ ReceiveNothing

Spec == Init /\ [][Next]_vars

-------------------------------------------------------------------------------
TypeOK ==
    /\ asked \in Seq(Frames) /\ stream \in Seq(0 .. 255)
    /\ bytes \in [0 .. BuffLen - 1 -> 0 .. 255] /\ idxLast \in 0 .. BuffLen - 1
    /\ pc \in {"check", "receive"}
    /\ mux \in [b : SUBSET (0 .. 5), c : SUBSET (0 .. 5), d : SUBSET {5}]
    /\ selected \in MuxCommands /\ success \in 0 .. MaxFrames

\* Although the newline is looked for in a slot that was not received yet, what
\* is forwarded or run is always one whole frame of the host, never pieces of
\* two and never what an older frame left behind; no frame is acted on twice,
\* and none before an earlier one (main.c:126-196).  It takes a host whose
\* payloads do not hold the two bytes that begin a frame.
DoneAsAsked ==
    \E at \in [DOMAIN done -> DOMAIN asked] :
        /\ \A i, j \in DOMAIN done : i < j => at[i] < at[j]
        /\ \A i \in DOMAIN done : asked[at[i]] = <<43, 66>> \o done[i]
===============================================================================
