----------------------------- MODULE CommHandler -----------------------------
(***************************************************************************)
(* ArduinoCommHandler.cs: a caller that writes a request to the serial     *)
(* port and waits for an event, and a reader thread that takes frames from *)
(* the port, keeps the last one that looks like an answer and sets the     *)
(* event.  Event, buffer and current protocol are shared without a lock,   *)
(* so both threads are taken apart into the accesses to them.              *)
(*                                                                         *)
(* The caller is the query thread, which asks for a value as               *)
(* VehicleLinkManager.cs:129-135 does: on SCI the first frame of an answer *)
(* is the echo of the request and the value follows, a frame for a byte.   *)
(* The user interface sends commands through the same handler meanwhile.   *)
(***************************************************************************)
EXTENDS Integers, Sequences

CONSTANTS
    Protocols,      \* protocols the caller uses, of "SCI", "CCD" and "J1850"
    More,           \* frames of an SCI answer behind the echo
    MaxCalls,       \* bound on the calls
    MaxDisturbances \* bound on what others do to the handler

ASSUME HandlerAssumption ==
    /\ Protocols \subseteq {"SCI", "CCD", "J1850"} /\ More \in Nat
    /\ MaxCalls \in Nat /\ MaxDisturbances \in Nat

VARIABLES
    calm,       \* chosen once: an answer comes before the wait for it ends, a
                \*   thread that has something to do is done with it before the
                \*   next frame or call begins, and the port is left alone
    pc,         \* where the caller is
    n,          \* the number of its call
    tries,      \* how often it wrote the request
    left,       \* the frames it still asks for
    got,        \* the frames it has
    protocol,   \* currentMessageProtocol
    event,      \* responseReceived
    buffer,     \* ResponseBuffer: empty, or the one frame it holds
    reader,     \* where the reader is, "gone" when its thread has ended
    hand,       \* the frame the reader handles
    line,       \* frames on their way from the adapter
    open,       \* arduino.IsOpen
    ui,         \* where the user interface is in SendCommand
    answered,   \* the calls that the vehicle answered
    results,    \* what the calls returned
    disturbed   \* how often somebody disturbed the handler

caller == <<pc, n, tries, left, got, answered, results>>
readers == <<reader, hand>>
shared == <<protocol, event, buffer>>
rest == <<calm, open, ui, disturbed>>
vars == <<caller, readers, shared, line, rest>>

Nothing == [proto |-> "none", req |-> 0, part |-> 0]
Frame(p, r, i) == [proto |-> p, req |-> r, part |-> i]
Answer(r, p) == [i \in 1 .. (IF p = "SCI" THEN 1 + More ELSE 1) |-> Frame(p, r, i)]

\* What ProcessMessage asks of a frame on the buses where everybody talks:
\* only answers begin with the identifier of an answer.
LooksLikeAnswer(f, p) == f.proto = p /\ f.req # 0

AnswerComing ==
    \/ \E i \in DOMAIN line : line[i].req = n
    \/ reader \notin {"read", "gone"} /\ hand.req = n

Init ==
    /\ pc = "idle" /\ n = 0 /\ tries = 0 /\ left = 0 /\ got = <<>>
    /\ answered = {} /\ results = <<>>
    /\ protocol = "none" /\ event = FALSE /\ buffer = <<>>
    /\ reader = "read" /\ hand = Nothing /\ line = <<>> /\ open = TRUE
    /\ ui = "idle" /\ disturbed = 0 /\ calm \in BOOLEAN

-------------------------------------------------------------------------------
(* SendMessageAndGetResponse *)

Call(p) ==
    /\ pc = "idle" /\ n < MaxCalls
    /\ calm => reader = "read"
    /\ n' = n + 1 /\ tries' = 0 /\ got' = <<>>
    /\ left' = IF p = "SCI" THEN More ELSE 0
    /\ protocol' = p
    /\ pc' = "reset"
    /\ UNCHANGED <<answered, results, readers, event, buffer, line, rest>>

ResetEvent ==
    /\ pc = "reset"
    /\ event' = FALSE
    /\ pc' = "clear"
    /\ UNCHANGED <<n, tries, left, got, answered, results, readers, protocol, buffer>>
    /\ UNCHANGED <<line, rest>>

ClearBuffer ==
    /\ pc = "clear"
    /\ buffer' = <<>>
    /\ pc' = "write"
    /\ UNCHANGED <<n, tries, left, got, answered, results, readers, protocol, event>>
    /\ UNCHANGED <<line, rest>>

\* The call ends with what it got, or by an exception.  The history of the
\* results is kept where a property asks for it.
Return(outcome, frames) ==
    /\ results' = IF calm THEN Append(results, [req |-> n, proto |-> protocol,
                                                outcome |-> outcome, got |-> frames])
                          ELSE results
    /\ pc' = "idle"

\* mutant: the tries are not counted
WriteUncounted ==
    /\ pc = "write" /\ open
    /\ line' = line /\ pc' = "wait"
    /\ UNCHANGED <<n, tries, left, got, answered, results, readers, shared, rest>>

\* the request goes out; the vehicle answers, or not
Write ==
    /\ pc = "write" /\ open
    /\ tries' = tries + 1
    /\ \/ line' = line \o Answer(n, protocol) /\ answered' = answered \cup {n}
       \/ UNCHANGED <<line, answered>>
    /\ pc' = "wait"
    /\ UNCHANGED <<n, left, got, results, readers, shared, rest>>

\* three attempts to open a closed port
Reopen ==
    /\ pc = "write" /\ ~open
    /\ \/ open' = TRUE /\ UNCHANGED <<pc, results>>
       \/ UNCHANGED open /\ Return("exception", <<>>)
    /\ UNCHANGED <<n, tries, left, got, answered, readers, shared, line, calm, ui, disturbed>>

Response ==
    /\ pc = "wait" /\ event
    /\ pc' = "copy"
    /\ UNCHANGED <<n, tries, left, got, answered, results, readers, shared>>
    /\ UNCHANGED <<line, rest>>

\* Behind an SCI answer follow the bytes of the value.  Some callers ask for
\* them even if nothing came.
GoOn(frames) ==
    /\ got' = frames
    /\ \/ left > 0 /\ pc' = "more" /\ UNCHANGED results
       \/ (left = 0 \/ frames = <<>>) /\ Return("ok", frames)

Copy ==
    /\ pc = "copy"
    /\ GoOn(buffer)
    /\ UNCHANGED <<n, tries, left, answered, readers, shared, line, rest>>

\* mutant: one try too many
TimeoutOnceMore ==
    /\ pc = "wait" /\ ~event
    /\ calm => ~AnswerComing
    /\ IF tries <= 3 THEN pc' = "write" /\ UNCHANGED <<got, results>> ELSE GoOn(<<>>)
    /\ UNCHANGED <<n, tries, left, answered, readers, shared, line, rest>>

Timeout ==
    /\ pc = "wait" /\ ~event
    /\ calm => ~AnswerComing
    /\ IF tries < 3 THEN pc' = "write" /\ UNCHANGED <<got, results>> ELSE GoOn(<<>>)
    /\ UNCHANGED <<n, tries, left, answered, readers, shared, line, rest>>

-------------------------------------------------------------------------------
(* GetSCIByte, GetSCIResp and GetSCIBytes *)

ResetAgain ==
    /\ pc = "more"
    /\ event' = FALSE
    /\ pc' = "await"
    /\ UNCHANGED <<n, tries, left, got, answered, results, readers, protocol, buffer>>
    /\ UNCHANGED <<line, rest>>

NextFrame ==
    /\ pc = "await" /\ event
    /\ pc' = "take"
    /\ UNCHANGED <<n, tries, left, got, answered, results, readers, shared>>
    /\ UNCHANGED <<line, rest>>

\* GetSCIByte throws when there is not exactly one byte; GetSCIBytes takes
\* whatever is there.
OneByte == buffer # <<>> /\ buffer[1].part > 1

TakeFrame ==
    /\ pc = "take"
    /\ left' = left - 1
    /\ got' = got \o buffer
    /\ \/ ~OneByte /\ Return("exception", got)
       \/ left > 1 /\ pc' = "more" /\ UNCHANGED results
       \/ left = 1 /\ Return("ok", got')
    /\ UNCHANGED <<n, tries, answered, readers, shared, line, rest>>

NoMore ==
    /\ pc = "await" /\ ~event
    /\ calm => ~AnswerComing
    /\ Return("ok", got)
    /\ UNCHANGED <<n, tries, left, got, answered, readers, shared, line, rest>>

CallerStep ==
    \/ ResetEvent \/ ClearBuffer \/ Write \/ Reopen \/ Response \/ Copy \/ Timeout
    \/ ResetAgain \/ NextFrame \/ TakeFrame \/ NoMore

-------------------------------------------------------------------------------
(* ReadThread and ProcessMessage *)

ReadFrame ==
    /\ reader = "read" /\ open /\ line # <<>>
    /\ calm => pc = "idle" \/ (pc \in {"wait", "await"} /\ ~event)
    /\ hand' = Head(line) /\ line' = Tail(line)
    /\ reader' = "match"
    /\ UNCHANGED <<caller, shared, rest>>

\* mutant: frames of any protocol are taken
MatchAny ==
    /\ reader = "match"
    /\ reader' = "ccd"
    /\ UNCHANGED <<caller, hand, shared, line, rest>>

Match ==
    /\ reader = "match"
    /\ reader' = IF hand.proto = protocol THEN "ccd" ELSE "read"
    /\ UNCHANGED <<caller, hand, shared, line, rest>>

\* The protocol is read once more for every comparison.
ClassifyCCD ==
    /\ reader = "ccd"
    /\ reader' = IF protocol # "CCD" THEN "j1850"
                 ELSE IF LooksLikeAnswer(hand, "CCD") THEN "store" ELSE "read"
    /\ UNCHANGED <<caller, hand, shared, line, rest>>

ClassifyJ1850 ==
    /\ reader = "j1850"
    /\ reader' = IF protocol = "J1850" /\ ~LooksLikeAnswer(hand, "J1850")
                 THEN "read" ELSE "store"
    /\ UNCHANGED <<caller, hand, shared, line, rest>>

Store ==
    /\ reader = "store"
    /\ buffer' = <<hand>>
    /\ reader' = "set"
    /\ UNCHANGED <<caller, hand, protocol, event, line, rest>>

SetEvent ==
    /\ reader = "set"
    /\ event' = TRUE
    /\ reader' = "read"
    /\ UNCHANGED <<caller, hand, protocol, buffer, line, rest>>

\* A closed port ends the thread, and nobody starts it again.
ReaderEnds ==
    /\ reader = "read" /\ ~open
    /\ reader' = "gone"
    /\ UNCHANGED <<caller, hand, shared, line, rest>>

ReaderStep == ReadFrame \/ Match \/ ClassifyCCD \/ ClassifyJ1850 \/ Store \/ SetEvent \/ ReaderEnds

-------------------------------------------------------------------------------
(* The rest of the world. *)

\* SendCommand: the adapter answers it with a byte that ProcessMessage drops,
\* so all that others notice of it is that the event is reset.
SendCommand ==
    /\ ui = "idle" /\ ~calm /\ disturbed < MaxDisturbances
    /\ ui' = "reset" /\ disturbed' = disturbed + 1
    /\ UNCHANGED <<caller, readers, shared, line, calm, open>>

CommandReset ==
    /\ ui = "reset"
    /\ event' = FALSE
    /\ ui' = "idle"
    /\ UNCHANGED <<caller, readers, protocol, buffer, line, calm, open, disturbed>>

\* somebody else's message on CCD or J1850
Talk(p) ==
    /\ disturbed < MaxDisturbances
    /\ line' = Append(line, Frame(p, 0, 0))
    /\ disturbed' = disturbed + 1
    /\ UNCHANGED <<caller, readers, shared, calm, open, ui>>

\* the port is closed, under a blocked ReadByte or not
PortCloses ==
    /\ open /\ ~calm /\ disturbed < MaxDisturbances
    /\ open' = FALSE /\ disturbed' = disturbed + 1
    /\ reader' = IF reader = "read" THEN "gone" ELSE reader
    /\ UNCHANGED <<caller, hand, shared, line, calm, ui>>

Next ==
    \/ \E p \in Protocols : Call(p)
    \/ CallerStep
    \/ ReaderStep
    \/ SendCommand \/ CommandReset
    \/ \E p \in Protocols \ {"SCI"} : Talk(p)
    \/ PortCloses

\* Every wait has a time limit, and the threads are scheduled.
Spec == Init /\ [][Next]_vars /\ WF_vars(CallerStep) /\ WF_vars(ReaderStep)

-------------------------------------------------------------------------------
Frames == [proto : Protocols, req : 0 .. MaxCalls, part : 0 .. 1 + More]

TypeOK ==
    /\ pc \in {"idle", "reset", "clear", "write", "wait", "copy", "more", "await", "take"}
    /\ n \in 0 .. MaxCalls /\ tries \in 0 .. 3 /\ left \in 0 .. More
    /\ got \in Seq(Frames) /\ Len(got) <= 1 + More
    /\ protocol \in Protocols \cup {"none"} /\ {event, open} \subseteq BOOLEAN
    /\ buffer \in {<<>>} \cup {<<f>> : f \in Frames} /\ hand \in Frames \cup {Nothing}
    /\ reader \in {"read", "match", "ccd", "j1850", "store", "set", "gone"}
    /\ line \in Seq(Frames) /\ ui \in {"idle", "reset"} /\ answered \subseteq 1 .. n

\* With one caller, answers in time and threads that are prompt, every call returns the
\* whole answer to its own request, frame by frame, or nothing, and nothing
\* only if none of its three tries was answered; and no call throws
\* (ArduinoCommHandler.cs:51-117 against 119-151).
AnswersItsRequest ==
    calm => \A i \in DOMAIN results :
        LET r == results[i]
        IN  /\ r.outcome = "ok"
            /\ \/ r.got = Answer(r.req, r.proto)
               \/ r.got = <<>> /\ r.req \notin answered

\* Whatever is late, lost or closed, and whoever resets the event, every call
\* returns (ArduinoCommHandler.cs:51-117).
EveryCallReturns == pc # "idle" ~> pc = "idle"
===============================================================================
