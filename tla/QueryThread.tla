----------------------------- MODULE QueryThread -----------------------------
(***************************************************************************)
(* VehicleLinkManager.cs: the thread that asks the vehicle for the items   *)
(* on the screen, round after round, against the user interface, which     *)
(* changes the list of items, shows what arrived and may dispose of the    *)
(* manager.  Items that only answer at high speed make the thread switch   *)
(* the engine controller and the adapter between two speeds.               *)
(*                                                                         *)
(* A request through ArduinoCommHandler is one step here: CommHandler has  *)
(* its steps.  After Dispose its reader is gone and answers nothing; a     *)
(* request then opens the port again, or throws.  Every item has bytes to  *)
(* send and a method; items without one are skipped by the code.           *)
(***************************************************************************)
EXTENDS DataDisplay

CONSTANTS
    High,   \* the items that are asked for at high speed (SCI, 0xF0 and above)
    Lists   \* lists of items that a menu of the module has

ASSUME QueryAssumption == High \subseteq Items /\ Lists \subseteq SUBSET Items

VARIABLES
    pc,         \* where the query thread is: "gone" at its end, "dead" after an exception
    temp, high, \* txTemp, sciHighSpeedParams
    left,       \* items of the loop under way that are still to come
    fast,       \* isHighSpeedSciMode
    stop,       \* queryTaskStopSignal
    visible,    \* visibleTxItems
    touched,    \* the list changed since the thread began to enumerate it
    adapter, ecu,   \* the speeds of adapter and engine controller
    lost,       \* a change of the controller's speed went unanswered or unheard
    port,       \* the serial port: "open", "closed", or "reopened" with no reader
    ui,         \* where the user interface is
    screen,     \* the items it shows
    todo        \* those it has yet to look at

list == <<visible, touched>>
link == <<adapter, ecu, lost, port>>
uiVars == <<ui, screen, todo>>
round == <<temp, high, left, fast>>
vars == <<displayVars, pc, round, stop, list, link, uiVars>>

Init ==
    /\ DisplayInit
    /\ pc = "start" /\ temp = {} /\ high = {} /\ left = {} /\ fast = FALSE /\ stop = FALSE
    /\ visible = {} /\ touched = FALSE
    /\ adapter = "low" /\ ecu = "low" /\ lost = FALSE /\ port = "open"
    /\ ui = "free" /\ screen = {} /\ todo = {}

-------------------------------------------------------------------------------
(* What the thread asks of the adapter and the vehicle *)

At(p) == pc = p /\ setter = Idle

Command(speed) == port # "closed" /\ adapter' = speed /\ UNCHANGED <<ecu, lost, port>>

\* SendCommand writes to a closed port: nobody catches the exception.
CommandFails ==
    /\ pc \in {"slow", "fast", "leave", "leaveAtEnd"} /\ port = "closed"
    /\ pc' = "dead"
    /\ UNCHANGED <<displayVars, round, stop, list, link, uiVars>>

\* A request finds the port closed.
Reopen ==
    /\ pc \in {"ask", "high", "lower", "items", "lowerAtEnd"} /\ port = "closed"
    /\ \/ port' = "reopened" /\ UNCHANGED pc
       \/ pc' = "dead" /\ UNCHANGED port
    /\ UNCHANGED <<displayVars, round, stop, list, adapter, ecu, lost, uiVars>>

\* 0x12 and 0xFE: heard by a controller that listens at the adapter's speed
ControllerTurns(speed) ==
    /\ ecu' = speed
    /\ adapter = ecu /\ port # "closed"
    /\ UNCHANGED <<adapter, port>>
ControllerStays ==
    /\ port # "closed"
    /\ UNCHANGED <<adapter, ecu, port>>

(* QueryThread *)

Start ==
    /\ pc = "start"
    /\ stop' = FALSE /\ fast' = FALSE
    /\ pc' = "wait"
    /\ UNCHANGED <<displayVars, temp, high, left, list, link, uiVars>>

\* mutant: the signal is not looked at while there is something to ask for
WaitIfBusy ==
    /\ pc = "wait"
    /\ pc' = IF stop /\ visible = {} THEN (IF fast THEN "lowerAtEnd" ELSE "gone") ELSE "copy"
    /\ UNCHANGED <<displayVars, round, stop, list, link, uiVars>>

Wait ==
    /\ pc = "wait"
    /\ pc' = IF ~stop THEN "copy" ELSE IF fast THEN "lowerAtEnd" ELSE "gone"
    /\ UNCHANGED <<displayVars, round, stop, list, link, uiVars>>

\* mutant: the filter forgets the test for 0xF0
CopyAllHigh ==
    /\ pc = "copy" /\ ui # "add"
    /\ temp' = visible /\ high' = visible
    /\ IF high' = {} THEN pc' = "items" /\ left' = temp'
                     ELSE pc' = "except" /\ UNCHANGED left
    /\ UNCHANGED <<displayVars, fast, stop, list, link, uiVars>>

\* under the lock, which the user interface holds between Clear and AddRange
Copy ==
    /\ pc = "copy" /\ ui # "add"
    /\ temp' = visible /\ high' = visible \cap High
    /\ IF high' = {} THEN pc' = "items" /\ left' = temp'
                     ELSE pc' = "except" /\ UNCHANGED left
    /\ UNCHANGED <<displayVars, fast, stop, list, link, uiVars>>

\* visibleTxItems.Except(...).ToList(), without the lock
BeginExcept ==
    /\ pc = "except"
    /\ touched' = FALSE
    /\ pc' = "enumerate"
    /\ UNCHANGED <<displayVars, round, stop, visible, link, uiVars>>

\* An enumerator throws when its list was changed under it.
EndExcept ==
    /\ pc = "enumerate"
    /\ IF touched THEN pc' = "dead" /\ UNCHANGED temp
                  ELSE pc' = (IF fast THEN "high" ELSE "slow") /\ temp' = visible \ high
    /\ UNCHANGED <<displayVars, high, left, fast, stop, list, link, uiVars>>

SetLoSpeed ==
    /\ pc = "slow"
    /\ Command("low")
    /\ pc' = "ask"
    /\ UNCHANGED <<displayVars, round, stop, list, uiVars>>

\* mutant: the way back to low speed is forgotten
StayHigh == left' = temp /\ pc' = "items"

\* what follows the items of high speed
AfterHigh == left' = {} /\ pc' = IF temp = {} THEN "items" ELSE "lower"

\* mutant: the answer to 0x12 is not looked at
AskAnyway ==
    /\ pc = "ask"
    /\ ControllerTurns("high") \/ ControllerStays
    /\ pc' = "fast"
    /\ UNCHANGED <<displayVars, lost, left, temp, high, fast, stop, list, uiVars>>

\* 0x12: the controller turns and the echo comes back; or it is lost; or the
\* controller does not hear the request or does not know it
AskHighSpeed ==
    /\ pc = "ask"
    /\ \/ ControllerTurns("high") /\ port = "open" /\ pc' = "fast" /\ UNCHANGED <<lost, left>>
       \/ ControllerTurns("high") /\ lost' = TRUE /\ AfterHigh
       \/ ControllerStays /\ AfterHigh /\ UNCHANGED lost
    /\ UNCHANGED <<displayVars, temp, high, fast, stop, list, uiVars>>

SetHiSpeed ==
    /\ pc = "fast"
    /\ Command("high")
    /\ fast' = TRUE
    /\ pc' = "high"
    /\ UNCHANGED <<displayVars, temp, high, left, stop, list, uiVars>>

\* SCIHiSpeedQuery: one request for all items, answered in full or not
SCIHiSpeedQuery ==
    /\ pc = "high" /\ port # "closed"
    /\ \/ adapter = ecu /\ port = "open" /\ pc' = "take" /\ left' = high
       \/ (AfterHigh)
    /\ UNCHANGED <<displayVars, temp, high, fast, stop, list, link, uiVars>>

\* its loop over the items: their values are cut out of the request (:75), not
\* out of the answer, so for one request they are always the same
TakeHigh ==
    /\ At("take")
    /\ IF left = {} THEN AfterHigh /\ UNCHANGED displayVars
       ELSE \E i \in left : \E v \in Readings[i] :
                BeginSet(i, v) /\ left' = left \ {i} /\ UNCHANGED pc
    /\ UNCHANGED <<temp, high, fast, stop, list, link, uiVars>>

\* 0xFE, whose answer nobody looks at
Lower(here, next) ==
    /\ pc = here
    /\ \/ ControllerTurns("low") /\ UNCHANGED lost
       \/ ControllerStays /\ lost' = (lost \/ ecu = "high")
    /\ pc' = next
    /\ UNCHANGED <<displayVars, round, stop, list, uiVars>>

Leave ==
    /\ pc = "leave"
    /\ Command("low")
    /\ fast' = FALSE /\ left' = temp
    /\ pc' = "items"
    /\ UNCHANGED <<displayVars, temp, high, stop, list, uiVars>>

\* The loop over txTemp: a value is stored if the answer has its length.
AskItem ==
    /\ At("items") /\ port # "closed"
    /\ \E i \in left :
        /\ left' = left \ {i}
        /\ \/ adapter = ecu /\ port = "open" /\ (\E v \in Readings[i] : BeginSet(i, v))
           \/ UNCHANGED displayVars
    /\ UNCHANGED <<pc, temp, high, fast, stop, list, link, uiVars>>

RoundOver ==
    /\ At("items") /\ left = {}
    /\ temp' = {} /\ high' = {}
    /\ pc' = "wait"
    /\ UNCHANGED <<displayVars, left, fast, stop, list, link, uiVars>>

LeaveAtEnd ==
    /\ pc = "leaveAtEnd"
    /\ Command("low")
    /\ pc' = "gone"
    /\ UNCHANGED <<displayVars, round, stop, list, uiVars>>

InSetter == SetterStep /\ UNCHANGED <<pc, round, stop, list, link, uiVars>>

ThreadStep ==
    \/ Start \/ Wait \/ Copy \/ BeginExcept \/ EndExcept
    \/ SetLoSpeed \/ AskHighSpeed \/ SetHiSpeed \/ SCIHiSpeedQuery \/ TakeHigh
    \/ Lower("lower", "leave") \/ Leave
    \/ AskItem \/ RoundOver \/ InSetter
    \/ Lower("lowerAtEnd", "leaveAtEnd") \/ LeaveAtEnd
    \/ CommandFails \/ Reopen

-------------------------------------------------------------------------------
(* The user interface *)

Ready == todo = {} /\ getter = Idle

\* ListBoxUpdater_Tick, ten times a second
Tick ==
    /\ ui = "free" /\ Ready
    /\ todo' = screen
    /\ UNCHANGED <<displayVars, pc, round, stop, list, link, ui, screen>>

\* one row: its text changes if the flag is up
Visit ==
    /\ getter = Idle
    /\ \E i \in todo :
        /\ todo' = todo \ {i}
        /\ BeginGet(i) \/ (~flag[i] /\ UNCHANGED displayVars)
    /\ UNCHANGED <<pc, round, stop, list, link, ui, screen>>

InGetter == GetterStep /\ UNCHANGED <<pc, round, stop, list, link, uiVars>>

\* lstDataMenus_SelectedIndexChanged: a row for each item, then the list
Select(items) ==
    /\ ui = "free" /\ Ready
    /\ screen' = items /\ todo' = items
    /\ ui' = "fill"
    /\ UNCHANGED <<displayVars, pc, round, stop, list, link>>

\* Whoever changes the list counts up its version.
Touch == touched' = (pc = "enumerate")

\* SetQueriedTXItems: Clear and AddRange, under the lock
ClearList ==
    /\ ui = "fill" /\ Ready
    /\ visible' = {} /\ Touch
    /\ ui' = "add"
    /\ UNCHANGED <<displayVars, pc, round, stop, link, screen, todo>>

AddRange ==
    /\ ui = "add"
    /\ visible' = screen /\ Touch
    /\ ui' = "free"
    /\ UNCHANGED <<displayVars, pc, round, stop, link, screen, todo>>

\* tabControl1_SelectedIndexChanged
ChangeTab ==
    /\ ui = "free" /\ Ready
    /\ visible' = {} /\ Touch /\ screen' = {}
    /\ UNCHANGED <<displayVars, pc, round, stop, link, ui, todo>>

\* Dispose: the port is closed first, then the thread is told to stop.
Dispose ==
    /\ ui = "free" /\ Ready
    /\ port' = "closed"
    /\ ui' = "signal"
    /\ UNCHANGED <<displayVars, pc, round, stop, list, adapter, ecu, lost, screen, todo>>

SetStopSignal ==
    /\ ui = "signal"
    /\ stop' = TRUE
    /\ ui' = "waiting"
    /\ UNCHANGED <<displayVars, pc, round, list, link, screen, todo>>

WaitEnds ==
    /\ ui = "waiting" /\ pc \in {"gone", "dead"}
    /\ ui' = "disposed"
    /\ UNCHANGED <<displayVars, pc, round, stop, list, link, screen, todo>>

UserStep == (\E items \in Lists : Select(items)) \/ ChangeTab \/ Dispose
UiStep == Tick \/ Visit \/ InGetter \/ ClearList \/ AddRange \/ SetStopSignal \/ WaitEnds

Next == ThreadStep \/ UiStep \/ UserStep

\* Neither thread stops while it has something to do; users need do nothing.
Fairness == WF_vars(ThreadStep) /\ WF_vars(UiStep)

Spec == Init /\ [][Next]_vars /\ Fairness

-------------------------------------------------------------------------------
\* The places of the two threads, and that what the thread works on are items.
TypeOK ==
    /\ DisplayTypeOK
    /\ pc \in {"start", "wait", "copy", "except", "enumerate", "slow", "ask", "fast", "high",
              "take", "lower", "leave", "items", "lowerAtEnd", "leaveAtEnd", "gone", "dead"}
    /\ ui \in {"free", "fill", "add", "signal", "waiting", "disposed"}
    /\ temp \subseteq Items /\ high \subseteq High /\ left \subseteq temp \cup high
    /\ visible \subseteq Items /\ screen \subseteq Items /\ todo \subseteq screen
    /\ {fast, stop, touched, lost} \subseteq BOOLEAN
    /\ adapter \in {"low", "high"} /\ ecu \in {"low", "high"}
    /\ port \in {"open", "closed", "reopened"}

\* As long as every change of speed was heard and answered, adapter and
\* controller have the same speed whenever a request goes out, wherever the
\* user changed the list (:98-120, :143-148).
SpeedsAgree == ~lost /\ pc \in {"ask", "high", "lower", "items", "lowerAtEnd"} => adapter = ecu

\* In a round with items of high speed the others are asked for at low speed
\* (:114-120).  In a round without them they may be asked for at high speed,
\* left over from the round before.  A thread that ended without an exception
\* leaves adapter and controller at low speed, whenever it was stopped (:143-148).
LowAtLow ==
    ~lost => /\ pc = "items" /\ high # {} /\ left # {} => ecu = "low"
             /\ pc = "gone" => ecu = "low" /\ adapter = "low"

\* Once an item on the screen has a value, one is shown (DataDisplay.cs:79,
\* Form1.cs:47), unless the user leaves the menu or the manager is disposed.
FirstShown ==
    \A i \in Items :
        raw[i] # None /\ i \in screen
            ~> formatted[i] # None \/ i \notin screen \/ port # "open"

\* Dispose comes back if the thread had begun when it was told to stop (:52-53).
\* If not, the thread takes the signal back (:88) and Dispose waits for ever.
Stops == (ui = "waiting" /\ stop /\ pc # "start") ~> ui = "disposed"
===============================================================================
