------------------------------ MODULE ScanProofs ------------------------------
(***************************************************************************)
(* Theorems about ModuleScan for every database file, every vehicle and    *)
(* every number of tasks.                                                  *)
(***************************************************************************)
EXTENDS ModuleScan, DatabaseFile, SequenceTheorems, WellFoundedInduction, TLAPS

-------------------------------------------------------------------------------
(* The loader comes to an end and then leaves the database alone. *)

\* what the methods that fill a dictionary have in common
Fills(name) == stage = name /\ DOMAIN db' = DOMAIN db /\ UNCHANGED <<rawDB, tables>>

LEMMA LoaderFills ==
    LoaderNext => \/ checkStarScan \/ ReadTableAttributes
                  \/ \E name \in Dictionaries : Fills(name)
  <1>1. ReadModules => Fills("Modules")
    BY DEF ReadModules, Read, Fills
  <1>2. ReadModuleMenuItems => Fills("ModuleMenuItems")
    BY DEF ReadModuleMenuItems, Read, Fills
  <1>3. ReadBinaryFormatters => Fills("BinaryFormatters")
    BY DEF ReadBinaryFormatters, Read, Fills
  <1>4. ReadFunctions => Fills("Functions")
    BY DEF ReadFunctions, Read, Fills
  <1>5. ReadStateScalers => Fills("StateScalers")
    BY DEF ReadStateScalers, Read, Fills
  <1>6. ReadNumericScalers => Fills("NumericScalers")
    BY DEF ReadNumericScalers, Read, Fills
  <1>7. ReadModuleTypes => Fills("ModuleTypes")
    BY DEF ReadModuleTypes, Read, Fills
  <1>8. ReadTXGroups => Fills("TXGroups")
    BY DEF ReadTXGroups, Read, Fills
  <1>9. ReadDataAcquisitions => Fills("DataAcquireMethods")
    BY DEF ReadDataAcquisitions, Read, Fills
  <1>10. ReadMainMenuItems => Fills("MainMenuItems")
    BY DEF ReadMainMenuItems, Read, Fills
  <1>11. ReadStateFormatters => Fills("StateFormatters")
    BY DEF ReadStateFormatters, Read, Fills
  <1>12. ReadStrings => Fills("Resources")
    BY DEF ReadStrings, Read, Fills
  <1>13. ReadNumericFormatters => Fills("NumericFormatters")
    BY DEF ReadNumericFormatters, Read, Fills
  <1>14. ReadDataMenus => Fills("DataMenuItems")
    BY DEF ReadDataMenus, Read, Fills
  <1>15. ReadTXItems => Fills("TXItems")
    BY DEF ReadTXItems, Read, Fills
  <1> QED
    BY <1>1, <1>2, <1>3, <1>4, <1>5, <1>6, <1>7, <1>8,
       <1>9, <1>10, <1>11, <1>12, <1>13, <1>14, <1>15 DEF LoaderNext, Dictionaries

LEMMA LoaderEnds == ~(Loaded /\ LoaderNext)
  BY LoaderFills DEF Loaded, Dictionaries, Fills, checkStarScan, ReadTableAttributes

LEMMA UInt16Stays == rawDB' = rawDB => UInt16(6)' = UInt16(6)
  BY Zenon DEF UInt16, Bytes

LEMMA LoaderType ==
    ASSUME LoaderNext, DOMAIN db = Dictionaries,
           stage \notin {"check", "tables"} => Len(tables) = UInt16(6)
    PROVE  /\ DOMAIN db' = Dictionaries
           /\ stage' \notin {"check", "tables"} => Len(tables') = UInt16(6)'
  <1>1. CASE checkStarScan
    BY <1>1 DEF checkStarScan
  <1>2. CASE ReadTableAttributes
    <2>1. UInt16(6)' = UInt16(6) /\ db' = db
      BY <1>2, UInt16Stays DEF ReadTableAttributes
    <2>2. stage' = IF Len(tables') = UInt16(6) THEN "Modules" ELSE "tables"
      BY <1>2 DEF ReadTableAttributes
    <2> QED BY <2>1, <2>2
  <1>3. ASSUME NEW name \in Dictionaries, Fills(name)
        PROVE  DOMAIN db' = Dictionaries /\ Len(tables') = UInt16(6)'
    <2>1. stage \notin {"check", "tables"}
      BY <1>3 DEF Dictionaries, Fills
    <2> QED BY <1>3, <2>1, UInt16Stays DEF Fills
  <1> QED BY <1>1, <1>2, <1>3, LoaderFills

-------------------------------------------------------------------------------
(* The inductive invariant *)

\* the steps of the three sorts of task, and those that all have
EngineSteps == {"mux", "81", "82", "0B", "0C", "0F", "10"}
BodySteps == {"bcm", "pci style", "pci year", "level", "theft", "climate"}
RadioSteps == {"radio", "second", "third", "pci radio"}
OtherSteps == {"none", "failed", "done", "lookup", "load"}
AllSteps == EngineSteps \cup BodySteps \cup RadioSteps \cup OtherSteps

\* A task has its fields, and is at a step of its own kind.
Shape ==
    /\ DOMAIN task = Tasks
    /\ \A t \in Tasks :
        /\ DOMAIN task[t] = DOMAIN NoTask /\ DOMAIN Heard(t) = DOMAIN Nothing
        /\ task[t].at \in AllSteps
        /\ task[t].at \in EngineSteps => task[t].kind = "Engine"
        /\ task[t].at \in BodySteps => task[t].kind \in BodyKinds
        /\ task[t].at \in RadioSteps => task[t].kind = "AudioSystems"

\* Nothing happens before the database is there.
Quiet ==
    ~Loaded => task = [t \in Tasks |-> NoTask] /\ shown = {} /\ selectedModule = Null

\* What a task has heard when it comes to a step: m is the multiplexer's
\* position, which a task of an engine does not move once it has an answer.
Sourced(at, kind, heard, m) ==
    /\ at \in {"82", "0C", "0F", "10"} => heard.year.from = m
    /\ at \in {"82", "0F", "10"} => heard.size.from = m
    /\ at \in {"82", "10"} => heard.type.from = m
    /\ kind = "Engine" /\ at \in {"lookup", "load"} =>
            {heard.year.from, heard.size.from, heard.style.from, heard.type.from} = {m}
    /\ at = "pci year" => heard.style.from = "J1850"
    /\ kind \in BodyKinds /\ at \in {"level", "theft", "climate", "lookup", "load"} =>
            heard.style.from # Null /\ heard.year.from = heard.style.from

\* Only a module that is there is shown, and only by a task that is done.
OneByOne ==
    /\ \A t, u \in Tasks : Busy(t) /\ Busy(u) => t = u
    /\ \A t \in Tasks : Sourced(task[t].at, task[t].kind, Heard(t), mux)
    /\ \A t \in Tasks : task[t].kind = "Engine" /\ task[t].at = "done" =>
            \/ GetValueOrNull("Modules", task[t].id) = Null
            \/ shown # {} /\ mux = Heard(t).size.from
    /\ shown # {} => /\ ~listBox1 /\ shown = {selectedModule}
                     /\ \A t \in Tasks : ~Busy(t)

ScanInv ==
    /\ TypeOK /\ Shape /\ Quiet
    /\ \A i \in shown : GetValueOrNull("Modules", i) # Null
    /\ single => OneByOne

LEMMA ScanInvInit == Init => ScanInv
  <1> SUFFICES ASSUME Init PROVE ScanInv
    OBVIOUS
  <1>1. task = [t \in Tasks |-> NoTask] /\ NoTask.at = "none" /\ NoTask.kind = Null
        /\ NoTask.try = "A" /\ NoTask.heard = Nothing
    BY DEF Init, NoTask
  <1>2. \A t \in Tasks : task[t] = NoTask /\ ~Busy(t) /\ Heard(t) = Nothing
    BY <1>1 DEF Busy, Heard
  <1>3. DOMAIN db = Dictionaries /\ stage = "check"
    BY DEF Init, LoaderInit
  <1>4. TypeOK
    BY <1>1, <1>2, <1>3 DEF Init, TypeOK
  <1>5. Shape
    BY <1>1, <1>2 DEF Shape, AllSteps, EngineSteps, BodySteps, RadioSteps, OtherSteps
  <1>6. OneByOne
    BY <1>1, <1>2 DEF OneByOne, Sourced, Init
  <1> QED BY <1>4, <1>5, <1>6 DEF ScanInv, Quiet, Init

\* What a step of a task does to the tasks.
LEMMA GoesOn ==
    ASSUME Shape, NEW t \in Tasks, NEW at, NEW heard, at # "failed",
           DOMAIN heard = DOMAIN Nothing, Goes(t, at, heard)
    PROVE  /\ DOMAIN task' = Tasks
           /\ \A u \in Tasks \ {t} : task'[u] = task[u]
           /\ DOMAIN task'[t] = DOMAIN NoTask
           /\ task'[t].at = at /\ task'[t].heard = heard
           /\ task'[t].kind = task[t].kind /\ task'[t].try = task[t].try
           /\ task'[t].id = task[t].id
  <1>1. task' = [task EXCEPT ![t].at = at, ![t].heard = heard]
    BY DEF Goes
  <1>2. DOMAIN task[t] = {"at", "try", "kind", "heard", "id"} /\ DOMAIN task = Tasks
    BY DEF Shape, NoTask
  <1>3. \A u \in Tasks \ {t} : task'[u] = task[u]
    BY <1>1, <1>2
  <1>4. task'[t] = [task[t] EXCEPT !.at = at, !.heard = heard]
    BY <1>1, <1>2
  <1> QED BY <1>1, <1>2, <1>3, <1>4 DEF NoTask

LEMMA GivesUp ==
    ASSUME Shape, NEW t \in Tasks, NEW heard, Goes(t, "failed", heard)
    PROVE  /\ DOMAIN task' = Tasks
           /\ \A u \in Tasks \ {t} : task'[u] = task[u]
           /\ DOMAIN task'[t] = DOMAIN NoTask
           /\ task'[t].at = "failed" /\ task'[t].heard = Nothing
           /\ task'[t].kind = Null /\ task'[t].try = "A"
  <1>1. task' = [task EXCEPT ![t] = [NoTask EXCEPT !.at = "failed"]]
    BY DEF Goes
  <1>2. \A u \in Tasks \ {t} : task'[u] = task[u]
    BY <1>1 DEF Shape
  <1>3. task'[t] = [NoTask EXCEPT !.at = "failed"]
    BY <1>1 DEF Shape
  <1> QED BY <1>1, <1>2, <1>3 DEF Shape, NoTask

\* where a step may take a task of a kind
Fits(at, kind) ==
    /\ at \in AllSteps
    /\ at \in EngineSteps => kind = "Engine"
    /\ at \in BodySteps => kind \in BodyKinds
    /\ at \in RadioSteps => kind = "AudioSystems"

\* A step changes one task, which was busy; what it has now fits.
LEMMA OneTaskMoves ==
    ASSUME ScanInv, UNCHANGED <<loader, car, single>>, NEW t \in Tasks, Busy(t),
           DOMAIN task' = Tasks, \A u \in Tasks \ {t} : task'[u] = task[u],
           DOMAIN task'[t] = DOMAIN NoTask, DOMAIN task'[t].heard = DOMAIN Nothing,
           Fits(task'[t].at, task'[t].kind),
           task'[t].kind \in Kinds \cup {Null}, task'[t].try \in {"A", "B"},
           mux' \in {"A", "B"},
           task'[t].at = "load" => task'[t].id \notin {0, Undecimal},
           UNCHANGED form,
           single => Sourced(task'[t].at, task'[t].kind, task'[t].heard, mux'),
           task'[t].at = "done" => GetValueOrNull("Modules", task'[t].id) = Null
    PROVE  ScanInv'
  <1>1. Loaded /\ UNCHANGED <<db, tables, stage, rawDB, listBox1, selectedModule, shown>>
    BY DEF ScanInv, TypeOK, form, loader
  <1>2. UInt16(6)' = UInt16(6)
    BY <1>1, UInt16Stays
  <1>3. \A u \in Tasks : Busy(u)' => Busy(u)
    BY DEF Busy
  <1>4. TypeOK'
    <2>1. \A u \in Tasks : /\ task'[u].kind \in Kinds \cup {Null} /\ task'[u].try \in {"A", "B"}
                           /\ task'[u].at = "load" => task'[u].id \notin {0, Undecimal}
      BY DEF ScanInv, TypeOK
    <2> QED BY <1>1, <1>2, <2>1 DEF ScanInv, TypeOK, Loaded
  <1>5. Shape'
    <2>1. \A u \in Tasks : /\ DOMAIN task'[u] = DOMAIN NoTask
                           /\ DOMAIN task'[u].heard = DOMAIN Nothing
                           /\ Fits(task'[u].at, task'[u].kind)
      BY DEF ScanInv, Shape, Fits, Heard
    <2> QED BY <2>1 DEF Shape, Fits, Heard
  <1>6. Quiet' /\ \A i \in shown' : GetValueOrNull("Modules", i)' # Null
    BY <1>1 DEF Quiet, Loaded, ScanInv, GetValueOrNull
  <1>7. ASSUME single' PROVE OneByOne'
    <2>1. OneByOne /\ shown' = {} /\ shown = {} /\ single
      BY <1>1, <1>7 DEF ScanInv, OneByOne
    <2>2. \A u \in Tasks \ {t} : ~Busy(u) /\ task'[u] = task[u]
      BY <2>1 DEF OneByOne
    <2>3. \A u, v \in Tasks : Busy(u)' /\ Busy(v)' => u = v
      BY <1>3, <2>1 DEF OneByOne
    <2>4. \A u \in Tasks : Sourced(task'[u].at, task'[u].kind, task'[u].heard, mux')
      <3>1. ASSUME NEW u \in Tasks \ {t}
            PROVE  Sourced(task[u].at, task[u].kind, task[u].heard, mux')
        BY <2>2, <3>1 DEF Busy, Sourced
      <3> QED BY <2>1, <2>2, <3>1
    <2>5. ASSUME NEW u \in Tasks, task'[u].kind = "Engine", task'[u].at = "done"
          PROVE  GetValueOrNull("Modules", task[u].id)' = Null
      <3>1. GetValueOrNull("Modules", task'[u].id) = Null
        BY <2>1, <2>2, <2>5 DEF OneByOne
      <3> QED BY <1>1, <3>1 DEF GetValueOrNull
    <2> QED BY <2>1, <2>3, <2>4, <2>5 DEF OneByOne, Heard
  <1> QED BY <1>4, <1>5, <1>6, <1>7 DEF ScanInv

LEMMA Moves ==
    ASSUME ScanInv, Unchanged, NEW t \in Tasks, Busy(t), NEW at, NEW heard,
           Goes(t, at, heard), at \notin {"failed", "load", "done"},
           DOMAIN heard = DOMAIN Nothing, Fits(at, task[t].kind),
           single => Sourced(at, task[t].kind, heard, mux)
    PROVE  ScanInv'
  <1>1. /\ DOMAIN task' = Tasks /\ DOMAIN task'[t] = DOMAIN NoTask
        /\ \A u \in Tasks \ {t} : task'[u] = task[u]
        /\ task'[t].at = at /\ task'[t].heard = heard
        /\ task'[t].kind = task[t].kind /\ task'[t].try = task[t].try
    BY GoesOn DEF ScanInv
  <1>2. UNCHANGED <<loader, car, single>> /\ mux' = mux /\ UNCHANGED form
    BY DEF Unchanged
  <1>3. /\ task[t].kind \in Kinds \cup {Null} /\ task[t].try \in {"A", "B"} /\ mux \in {"A", "B"}
    BY DEF ScanInv, TypeOK
  <1> QED BY <1>1, <1>2, <1>3, OneTaskMoves

LEMMA Fails ==
    ASSUME ScanInv, Unchanged, NEW t \in Tasks, Busy(t), NEW heard, Goes(t, "failed", heard)
    PROVE  ScanInv'
  <1>1. /\ DOMAIN task' = Tasks /\ DOMAIN task'[t] = DOMAIN NoTask
        /\ \A u \in Tasks \ {t} : task'[u] = task[u]
        /\ task'[t].at = "failed" /\ task'[t].heard = Nothing
        /\ task'[t].kind = Null /\ task'[t].try = "A"
    BY GivesUp DEF ScanInv
  <1>2. UNCHANGED <<loader, car, single>> /\ mux' = mux /\ UNCHANGED form /\ mux \in {"A", "B"}
    BY DEF Unchanged, ScanInv, TypeOK
  <1>3. Fits("failed", Null) /\ Sourced("failed", Null, Nothing, mux)
    BY DEF Fits, AllSteps, EngineSteps, BodySteps, RadioSteps, OtherSteps, Sourced
  <1> QED BY <1>1, <1>2, <1>3, OneTaskMoves

LEMMA TriesAgain ==
    ASSUME ScanInv, Unchanged, NEW t \in Tasks, task[t].at \in EngineSteps, TryFails(t)
    PROVE  ScanInv'
  <1>1. Busy(t) /\ task[t].kind = "Engine"
    BY DEF Busy, EngineSteps, ScanInv, Shape
  <1>2. CASE task[t].try = "A"
    <2>1. /\ DOMAIN task[t] = {"at", "try", "kind", "heard", "id"} /\ DOMAIN task = Tasks
          /\ DOMAIN task[t].heard = DOMAIN Nothing
      BY DEF ScanInv, Shape, NoTask, Heard
    <2>2. task' = [task EXCEPT ![t].at = "mux", ![t].try = "B"]
      BY <1>2 DEF TryFails
    <2>3. \A u \in Tasks \ {t} : task'[u] = task[u]
      BY <2>1, <2>2
    <2>4. task'[t] = [task[t] EXCEPT !.at = "mux", !.try = "B"]
      BY <2>1, <2>2
    <2>5. /\ DOMAIN task' = Tasks /\ DOMAIN task'[t] = DOMAIN NoTask
          /\ task'[t].at = "mux" /\ task'[t].try = "B"
          /\ task'[t].kind = "Engine" /\ task'[t].heard = task[t].heard
      BY <1>1, <2>1, <2>2, <2>4 DEF NoTask
    <2>6. UNCHANGED <<loader, car, single>> /\ mux' = mux /\ UNCHANGED form /\ mux \in {"A", "B"}
      BY DEF Unchanged, ScanInv, TypeOK
    <2>7. Fits("mux", "Engine") /\ \A h : Sourced("mux", "Engine", h, mux)
      BY DEF Fits, AllSteps, EngineSteps, BodySteps, RadioSteps, OtherSteps, Sourced
    <2> QED BY <1>1, <2>1, <2>3, <2>5, <2>6, <2>7, OneTaskMoves DEF Kinds
  <1>3. CASE task[t].try # "A"
    BY <1>1, <1>3, Fails DEF TryFails, Skips
  <1> QED BY <1>2, <1>3

LEMMA ThrowsKeeps == ASSUME ScanInv, NEW t \in Tasks, Throws(t) PROVE ScanInv'
  BY Fails DEF Throws, Skips

LEMMA SetMuxKeeps == ASSUME ScanInv, NEW t \in Tasks, SetMux(t) PROVE ScanInv'
  <1>1. Busy(t) /\ task[t].kind = "Engine" /\ DOMAIN Heard(t) = DOMAIN Nothing
    BY DEF Busy, EngineSteps, ScanInv, Shape, SetMux
  <1>2. /\ DOMAIN task' = Tasks /\ DOMAIN task'[t] = DOMAIN NoTask
        /\ \A u \in Tasks \ {t} : task'[u] = task[u]
        /\ task'[t].at = "81" /\ task'[t].heard = Heard(t)
        /\ task'[t].kind = task[t].kind /\ task'[t].try = task[t].try
    BY <1>1, GoesOn DEF ScanInv, SetMux, Skips
  <1>3. UNCHANGED <<loader, car, single>> /\ UNCHANGED form
    BY DEF SetMux
  <1>4. task[t].try \in {"A", "B"} /\ mux' \in {"A", "B"}
    BY DEF ScanInv, TypeOK, SetMux
  <1>5. Fits("81", "Engine") /\ \A h, m : Sourced("81", "Engine", h, m)
    BY DEF Fits, AllSteps, EngineSteps, BodySteps, RadioSteps, OtherSteps, Sourced
  <1> QED BY <1>1, <1>2, <1>3, <1>4, <1>5, OneTaskMoves DEF Kinds

LEMMA HeardSoFar ==
    ASSUME ScanInv, NEW t \in Tasks
    PROVE  /\ DOMAIN Heard(t) = DOMAIN Nothing
           /\ Fits(task[t].at, task[t].kind)
           /\ single => Sourced(task[t].at, task[t].kind, Heard(t), mux)
  BY DEF ScanInv, Shape, Fits, OneByOne

LEMMA Ask81Keeps == ASSUME ScanInv, NEW t \in Tasks, Ask81(t) PROVE ScanInv'
  <1>1. Busy(t) /\ task[t].kind = "Engine" /\ DOMAIN Heard(t) = DOMAIN Nothing
    BY DEF Busy, EngineSteps, ScanInv, Shape, Ask81
  <1>2. Fits("82", "Engine") /\ Fits("0B", "Engine") /\ \A h : Sourced("0B", "Engine", h, mux)
    BY DEF Fits, AllSteps, EngineSteps, BodySteps, RadioSteps, OtherSteps, Sourced
  <1>3. CASE ~Skips(t, "0B")
    <2> DEFINE size == RunConversionAndGetResult(EngineSize_SBECII, NoSize, ECU.size)
               full == IF size # <<59, "">> THEN size
                       ELSE <<59, IF ECU.manufacturer = 6 THEN "I6" ELSE "V8">>
               heard == [Heard(t) EXCEPT !.year = Says(1990 + (ECU.year % 16), mux),
                                         !.size = Says(full, mux),
                                         !.type = Says("SBEC/SBECII", mux)]
    <2>1. Goes(t, "82", heard)
      BY <1>3 DEF Ask81
    <2> HIDE DEF size, full
    <2>2. /\ DOMAIN heard = DOMAIN Nothing /\ heard.year = Says(1990 + (ECU.year % 16), mux)
          /\ heard.size = Says(full, mux) /\ heard.type = Says("SBEC/SBECII", mux)
      BY <1>1 DEF Nothing
    <2>3. Sourced("82", "Engine", heard, mux)
      BY <2>2 DEF Sourced, Says
    <2> HIDE DEF heard
    <2> QED BY <1>1, <1>2, <2>1, <2>2, <2>3, Moves DEF Ask81
  <1>4. CASE Skips(t, "0B")
    BY <1>1, <1>2, <1>4, Moves DEF Ask81, Skips
  <1> QED BY <1>3, <1>4

LEMMA Ask82Keeps == ASSUME ScanInv, NEW t \in Tasks, Ask82(t) PROVE ScanInv'
  <1>1. Busy(t) /\ task[t].kind = "Engine" /\ task[t].at \in EngineSteps
    BY DEF Busy, EngineSteps, ScanInv, Shape, Ask82
  <1>2. CASE TryFails(t)
    BY <1>1, <1>2, TriesAgain DEF Ask82
  <1>3. CASE ~TryFails(t)
    <2> DEFINE style == BodyStyle_SBECII(ECU.style)
               heard == [Heard(t) EXCEPT !.style = Says(style, mux)]
    <2>1. Goes(t, "lookup", heard) /\ Unchanged /\ task[t].at = "82"
      BY <1>3 DEF Ask82
    <2> HIDE DEF style
    <2>2. /\ DOMAIN heard = DOMAIN Nothing /\ heard.style = Says(style, mux)
          /\ heard.year = Heard(t).year /\ heard.size = Heard(t).size
          /\ heard.type = Heard(t).type
      BY HeardSoFar DEF Nothing
    <2>3. Fits("lookup", "Engine")
      BY DEF Fits, AllSteps, EngineSteps, BodySteps, RadioSteps, OtherSteps
    <2>4. single => Sourced("82", "Engine", Heard(t), mux)
      BY <1>1, <2>1, HeardSoFar
    <2>5. single => Sourced("lookup", "Engine", heard, mux)
      BY <2>2, <2>4 DEF Sourced, Says, BodyKinds
    <2> HIDE DEF heard
    <2> QED BY <1>1, <2>1, <2>2, <2>3, <2>5, Moves
  <1> QED BY <1>2, <1>3

LEMMA Ask2AKeeps ==
    ASSUME ScanInv, NEW t \in Tasks, NEW parameter \in EngineSteps, NEW next, NEW heard,
           Ask2A(t, parameter, next, heard), next \in {"0C", "0F", "10", "lookup"},
           DOMAIN heard = DOMAIN Nothing, single => Sourced(next, "Engine", heard, mux)
    PROVE  ScanInv'
  <1>1. Busy(t) /\ task[t].kind = "Engine" /\ task[t].at \in EngineSteps
    BY DEF Busy, EngineSteps, ScanInv, Shape, Ask2A
  <1>2. CASE TryFails(t)
    BY <1>1, <1>2, TriesAgain DEF Ask2A
  <1>3. CASE Goes(t, next, heard)
    <2>1. Fits(next, "Engine") /\ next \notin {"failed", "load", "done"}
      BY DEF Fits, AllSteps, EngineSteps, BodySteps, RadioSteps, OtherSteps
    <2> QED BY <1>1, <1>3, <2>1, Moves DEF Ask2A
  <1> QED BY <1>2, <1>3 DEF Ask2A

LEMMA AskYearKeeps == ASSUME ScanInv, NEW t \in Tasks, AskYear(t) PROVE ScanInv'
  <1> DEFINE year == 1990 + ECU.year
             heard == [Heard(t) EXCEPT !.year = Says(year, mux)]
  <1>1. Ask2A(t, "0B", "0C", heard)
    BY DEF AskYear
  <1> HIDE DEF year
  <1>2. DOMAIN heard = DOMAIN Nothing /\ heard.year = Says(year, mux)
    BY HeardSoFar DEF Nothing
  <1>3. Sourced("0C", "Engine", heard, mux)
    BY <1>2 DEF Sourced, Says
  <1> HIDE DEF heard
  <1> QED BY <1>1, <1>2, <1>3, Ask2AKeeps DEF EngineSteps

LEMMA AskSizeKeeps == ASSUME ScanInv, NEW t \in Tasks, AskSize(t) PROVE ScanInv'
  <1> DEFINE size == RunConversionAndGetResult(EngineSize_SBECIII_JTEC, NoSize, ECU.size)
             heard == [Heard(t) EXCEPT !.size = Says(size, mux)]
  <1>1. Ask2A(t, "0C", "0F", heard) /\ task[t].at = "0C"
    BY DEF AskSize, Ask2A
  <1> HIDE DEF size
  <1>2. /\ DOMAIN heard = DOMAIN Nothing /\ heard.size = Says(size, mux)
        /\ heard.year = Heard(t).year
    BY HeardSoFar DEF Nothing
  <1>3. single => Sourced("0C", task[t].kind, Heard(t), mux)
    BY <1>1, HeardSoFar
  <1>4. single => Sourced("0F", "Engine", heard, mux)
    BY <1>2, <1>3 DEF Sourced, Says
  <1> HIDE DEF heard
  <1> QED BY <1>1, <1>2, <1>4, Ask2AKeeps DEF EngineSteps

LEMMA AskTypeKeeps == ASSUME ScanInv, NEW t \in Tasks, AskType(t) PROVE ScanInv'
  <1> DEFINE type == RunConversionAndGetResult(EngineControllerType_SBECIII_JTEC, Barf, ECU.type)
             heard == [Heard(t) EXCEPT !.type = Says(type, mux)]
  <1>1. Ask2A(t, "0F", "10", heard) /\ task[t].at = "0F"
    BY DEF AskType, Ask2A
  <1> HIDE DEF type
  <1>2. /\ DOMAIN heard = DOMAIN Nothing /\ heard.type = Says(type, mux)
        /\ heard.year = Heard(t).year /\ heard.size = Heard(t).size
    BY HeardSoFar DEF Nothing
  <1>3. single => Sourced("0F", task[t].kind, Heard(t), mux)
    BY <1>1, HeardSoFar
  <1>4. single => Sourced("10", "Engine", heard, mux)
    BY <1>2, <1>3 DEF Sourced, Says
  <1> HIDE DEF heard
  <1> QED BY <1>1, <1>2, <1>4, Ask2AKeeps DEF EngineSteps

LEMMA AskStyleKeeps == ASSUME ScanInv, NEW t \in Tasks, AskStyle(t) PROVE ScanInv'
  <1> DEFINE style == RunConversionAndGetResult(BodyStyle_SBECIII_JTEC, Barf, ECU.style)
             heard == [Heard(t) EXCEPT !.style = Says(style, mux)]
  <1>1. Ask2A(t, "10", "lookup", heard) /\ task[t].at = "10"
    BY DEF AskStyle, Ask2A
  <1> HIDE DEF style
  <1>2. /\ DOMAIN heard = DOMAIN Nothing /\ heard.style = Says(style, mux)
        /\ heard.year = Heard(t).year /\ heard.size = Heard(t).size
        /\ heard.type = Heard(t).type
    BY HeardSoFar DEF Nothing
  <1>3. single => Sourced("10", task[t].kind, Heard(t), mux)
    BY <1>1, HeardSoFar
  <1>4. single => Sourced("lookup", "Engine", heard, mux)
    BY <1>2, <1>3 DEF Sourced, Says, BodyKinds
  <1> HIDE DEF heard
  <1> QED BY <1>1, <1>2, <1>4, Ask2AKeeps DEF EngineSteps

LEMMA BodyMoves ==
    ASSUME ScanInv, Unchanged, NEW t \in Tasks, task[t].at \in BodySteps,
           NEW next \in {"level", "theft", "climate", "lookup"}, NEW heard,
           Goes(t, next, heard), DOMAIN heard = DOMAIN Nothing,
           single => heard.style.from # Null /\ heard.year.from = heard.style.from
    PROVE  ScanInv'
  <1>1. Busy(t) /\ task[t].kind \in BodyKinds
    BY DEF Busy, BodySteps, ScanInv, Shape
  <1>2. Fits(next, task[t].kind) /\ next \notin {"failed", "load", "done"}
    BY <1>1 DEF Fits, AllSteps, EngineSteps, BodySteps, RadioSteps, OtherSteps
  <1>3. single => Sourced(next, task[t].kind, heard, mux)
    BY <1>1 DEF Sourced, BodyKinds
  <1> QED BY <1>1, <1>2, <1>3, Moves

LEMMA BodyFails ==
    ASSUME ScanInv, Unchanged, NEW t \in Tasks, task[t].at \in BodySteps, Skips(t, "failed")
    PROVE  ScanInv'
  BY Fails DEF Skips, Busy, BodySteps

LEMMA AskBCM_CCDKeeps == ASSUME ScanInv, NEW t \in Tasks, AskBCM_CCD(t) PROVE ScanInv'
  <1>1. Unchanged /\ task[t].at \in BodySteps /\ Busy(t) /\ task[t].kind \in BodyKinds
    BY DEF AskBCM_CCD, BodySteps, Busy, ScanInv, Shape
  <1>2. CASE Skips(t, "pci style")
    <2>1. Fits("pci style", task[t].kind) /\ Sourced("pci style", task[t].kind, Heard(t), mux)
      BY <1>1 DEF Fits, AllSteps, EngineSteps, BodySteps, RadioSteps, OtherSteps, Sourced
    <2> QED BY <1>1, <1>2, <2>1, HeardSoFar, Moves DEF Skips
  <1>3. CASE ~Skips(t, "pci style")
    <2> DEFINE year == <<25, car.ccd.year>>
               style == RunConversionAndGetResult(BodyStyle_BCM_CCD, Barf, car.ccd.style)
               heard == [Heard(t) EXCEPT !.year = Says(year, "CCD"), !.style = Says(style, "CCD")]
    <2>1. Goes(t, AfterBCM(t), heard)
      BY <1>3 DEF AskBCM_CCD
    <2> HIDE DEF year, style
    <2>2. /\ DOMAIN heard = DOMAIN Nothing /\ heard.year = Says(year, "CCD")
          /\ heard.style = Says(style, "CCD")
      BY HeardSoFar DEF Nothing
    <2>3. heard.style.from # Null /\ heard.year.from = heard.style.from
      BY <2>2, NullAssumption DEF Says
    <2> HIDE DEF heard
    <2>4. AfterBCM(t) \in {"level", "theft", "climate", "lookup"}
      BY DEF AfterBCM
    <2> QED BY <1>1, <2>1, <2>2, <2>3, <2>4, BodyMoves
  <1> QED BY <1>2, <1>3

LEMMA AskStyle_J1850Keeps == ASSUME ScanInv, NEW t \in Tasks, AskStyle_J1850(t) PROVE ScanInv'
  <1>1. Unchanged /\ task[t].at \in BodySteps /\ Busy(t) /\ task[t].kind \in BodyKinds
    BY DEF AskStyle_J1850, BodySteps, Busy, ScanInv, Shape
  <1>2. CASE Skips(t, "failed")
    BY <1>1, <1>2, BodyFails
  <1>3. CASE ~Skips(t, "failed")
    <2> DEFINE style == RunConversionAndGetResult(BodyStyle_BCM_PCI, Barf, car.pci.style)
               heard == [Heard(t) EXCEPT !.style = Says(style, "J1850")]
    <2>1. Goes(t, "pci year", heard)
      BY <1>3 DEF AskStyle_J1850
    <2> HIDE DEF style
    <2>2. DOMAIN heard = DOMAIN Nothing /\ heard.style = Says(style, "J1850")
      BY HeardSoFar DEF Nothing
    <2>3. Fits("pci year", task[t].kind)
      BY <1>1 DEF Fits, AllSteps, EngineSteps, BodySteps, RadioSteps, OtherSteps
    <2>4. Sourced("pci year", task[t].kind, heard, mux)
      BY <2>2 DEF Sourced, Says
    <2> HIDE DEF heard
    <2> QED BY <1>1, <2>1, <2>2, <2>3, <2>4, Moves
  <1> QED BY <1>2, <1>3

LEMMA AskYear_J1850Keeps == ASSUME ScanInv, NEW t \in Tasks, AskYear_J1850(t) PROVE ScanInv'
  <1>1. Unchanged /\ task[t].at = "pci year" /\ task[t].at \in BodySteps
    BY DEF AskYear_J1850, BodySteps
  <1>2. CASE Skips(t, "failed")
    BY <1>1, <1>2, BodyFails
  <1>3. CASE ~Skips(t, "failed")
    <2> DEFINE heard == [Heard(t) EXCEPT !.year = Says(car.pci.year, "J1850")]
    <2>1. Goes(t, AfterBCM(t), heard)
      BY <1>3 DEF AskYear_J1850
    <2>2. /\ DOMAIN heard = DOMAIN Nothing /\ heard.year = Says(car.pci.year, "J1850")
          /\ heard.style = Heard(t).style
      BY HeardSoFar DEF Nothing
    <2>3. single => Sourced("pci year", task[t].kind, Heard(t), mux)
      BY <1>1, HeardSoFar
    <2>4. single => heard.style.from # Null /\ heard.year.from = heard.style.from
      BY <2>2, <2>3, NullAssumption DEF Sourced, Says
    <2>5. AfterBCM(t) \in {"level", "theft", "climate", "lookup"}
      BY DEF AfterBCM
    <2> HIDE DEF heard
    <2> QED BY <1>1, <2>1, <2>2, <2>4, <2>5, BodyMoves
  <1> QED BY <1>2, <1>3

\* The requests after the style and the year leave both alone.
LEMMA SameSource ==
    ASSUME ScanInv, NEW t \in Tasks, task[t].at \in {"level", "theft", "climate"},
           NEW heard, heard.style = Heard(t).style, heard.year = Heard(t).year
    PROVE  /\ task[t].at \in BodySteps
           /\ single => heard.style.from # Null /\ heard.year.from = heard.style.from
  <1>1. task[t].at \in BodySteps /\ task[t].kind \in BodyKinds
    BY DEF BodySteps, ScanInv, Shape
  <1> QED BY <1>1, HeardSoFar DEF Sourced

LEMMA AskLevelKeeps == ASSUME ScanInv, NEW t \in Tasks, AskLevel(t) PROVE ScanInv'
  <1> DEFINE next(level) == IF AsksTheft(Heard(t).style.value, level) THEN "theft" ELSE "lookup"
             level == RunConversionAndGetResult(BodyControllerType, Barf, car.ccd.level % 4)
             heard == [Heard(t) EXCEPT !.level = level]
  <1>1. Unchanged /\ task[t].at = "level"
    BY DEF AskLevel
  <1>2. Goes(t, next(level), heard) \/ Goes(t, next("Base"), Heard(t))
    BY DEF AskLevel, Skips
  <1>3. \A x : next(x) \in {"level", "theft", "climate", "lookup"}
    OBVIOUS
  <1> HIDE DEF next, level
  <1>4. /\ DOMAIN heard = DOMAIN Nothing /\ heard.style = Heard(t).style
        /\ heard.year = Heard(t).year
    BY HeardSoFar DEF Nothing
  <1> HIDE DEF heard
  <1>5. CASE Goes(t, next(level), heard)
    BY <1>1, <1>3, <1>4, <1>5, SameSource, BodyMoves
  <1>6. CASE Goes(t, next("Base"), Heard(t))
    BY <1>1, <1>3, <1>6, HeardSoFar, SameSource, BodyMoves
  <1> QED BY <1>2, <1>5, <1>6

LEMMA AskTheftKeeps == ASSUME ScanInv, NEW t \in Tasks, AskTheft(t) PROVE ScanInv'
  <1>1. Unchanged /\ task[t].at = "theft"
    BY DEF AskTheft
  <1> DEFINE next == IF AsksClimate(Heard(t).style.value) THEN "climate" ELSE "lookup"
  <1>2. PICK theft : Goes(t, next, [Heard(t) EXCEPT !.theft = theft])
    BY DEF AskTheft
  <1>3. next \in {"level", "theft", "climate", "lookup"}
    OBVIOUS
  <1> HIDE DEF next
  <1> DEFINE heard == [Heard(t) EXCEPT !.theft = theft]
  <1>4. /\ DOMAIN heard = DOMAIN Nothing /\ heard.style = Heard(t).style
        /\ heard.year = Heard(t).year /\ Goes(t, next, heard)
    BY <1>2, HeardSoFar DEF Nothing
  <1> HIDE DEF heard
  <1> QED BY <1>1, <1>3, <1>4, SameSource, BodyMoves

LEMMA AskClimateKeeps == ASSUME ScanInv, NEW t \in Tasks, AskClimate(t) PROVE ScanInv'
  <1>1. Unchanged /\ task[t].at = "climate"
    BY DEF AskClimate
  <1>2. PICK climate : Goes(t, "lookup", [Heard(t) EXCEPT !.climate = climate])
    BY DEF AskClimate
  <1> DEFINE heard == [Heard(t) EXCEPT !.climate = climate]
  <1>3. /\ DOMAIN heard = DOMAIN Nothing /\ heard.style = Heard(t).style
        /\ heard.year = Heard(t).year /\ Goes(t, "lookup", heard)
    BY <1>2, HeardSoFar DEF Nothing
  <1> HIDE DEF heard
  <1> QED BY <1>1, <1>3, SameSource, BodyMoves

\* A radio's task hears nothing that its module is looked up by.
LEMMA AskModelKeeps == ASSUME ScanInv, NEW t \in Tasks, AskModel(t) PROVE ScanInv'
  <1>1. PICK next \in RadioSteps \cup {"lookup", "failed"} :
            Unchanged /\ task[t].at \in RadioSteps /\ Skips(t, next)
    BY DEF AskModel, Letter, AskModel_J1850, RadioSteps
  <1>2. Busy(t) /\ task[t].kind = "AudioSystems"
    BY <1>1 DEF Busy, RadioSteps, ScanInv, Shape
  <1>3. CASE next = "failed"
    BY <1>1, <1>2, <1>3, Fails DEF Skips
  <1>4. CASE next # "failed"
    <2>1. Fits(next, task[t].kind)
      BY <1>1, <1>2, <1>4 DEF Fits, AllSteps, EngineSteps, BodySteps, RadioSteps, OtherSteps
    <2>2. Sourced(next, task[t].kind, Heard(t), mux)
      BY <1>1, <1>2, <1>4 DEF Sourced, RadioSteps, BodyKinds
    <2> QED BY <1>1, <1>2, <1>4, <2>1, <2>2, HeardSoFar, Moves DEF Skips, RadioSteps
  <1> QED BY <1>3, <1>4

\* A task goes on to load a module with the values that it was looked up by.
LEMMA LookupKeeps == ASSUME ScanInv, NEW t \in Tasks, Lookup(t) PROVE ScanInv'
  <1> DEFINE id == TableID(task[t].kind, Heard(t))
  <1>1. Unchanged /\ task[t].at = "lookup" /\ Busy(t)
    BY DEF Lookup, Busy
  <1>2. CASE id \in {0, Undecimal}
    BY <1>1, <1>2, Fails DEF Lookup, Skips
  <1>3. CASE id \notin {0, Undecimal}
    <2>1. task' = [task EXCEPT ![t].id = id, ![t].at = "load"]
      BY <1>3 DEF Lookup
    <2> HIDE DEF id
    <2>2. /\ DOMAIN task[t] = {"at", "try", "kind", "heard", "id"} /\ DOMAIN task = Tasks
          /\ DOMAIN task[t].heard = DOMAIN Nothing
      BY DEF ScanInv, Shape, NoTask, Heard
    <2>3. \A u \in Tasks \ {t} : task'[u] = task[u]
      BY <2>1, <2>2
    <2>4. task'[t] = [task[t] EXCEPT !.id = id, !.at = "load"]
      BY <2>1, <2>2
    <2>5. /\ DOMAIN task' = Tasks /\ DOMAIN task'[t] = DOMAIN NoTask
          /\ task'[t].at = "load" /\ task'[t].id = id /\ task'[t].heard = task[t].heard
          /\ task'[t].kind = task[t].kind /\ task'[t].try = task[t].try
      BY <2>1, <2>2, <2>4 DEF NoTask
    <2>6. UNCHANGED <<loader, car, single>> /\ mux' = mux /\ UNCHANGED form
      BY <1>1 DEF Unchanged
    <2>7. task[t].kind \in Kinds \cup {Null} /\ task[t].try \in {"A", "B"} /\ mux \in {"A", "B"}
      BY DEF ScanInv, TypeOK
    <2>8. Fits("load", task[t].kind)
      BY DEF Fits, AllSteps, EngineSteps, BodySteps, RadioSteps, OtherSteps
    <2>9. single => Sourced("load", task[t].kind, task[t].heard, mux)
      <3>1. single => Sourced("lookup", task[t].kind, task[t].heard, mux)
        BY <1>1, HeardSoFar DEF Heard
      <3> QED BY <3>1 DEF Sourced
    <2> QED BY <1>1, <1>3, <2>2, <2>3, <2>5, <2>6, <2>7, <2>8, <2>9, OneTaskMoves
  <1> QED BY <1>2, <1>3

\* The first module on the screen is the last: its task is the only one that is
\* busy, and it takes the list away that a click needs.
LEMMA ShowsModule ==
    ASSUME ScanInv, NEW t \in Tasks, task[t].at = "load", NEW at \in {"failed", "done"},
           Skips(t, at), UNCHANGED <<loader, car, single, mux>>,
           GetValueOrNull("Modules", task[t].id) # Null, selectedModule' = task[t].id,
           \/ at = "failed" /\ UNCHANGED <<listBox1, shown>>
           \/ listBox1' = FALSE /\ shown' = shown \cup {task[t].id}
    PROVE  ScanInv'
  <1>1. Busy(t) /\ Loaded /\ UNCHANGED <<db, tables, stage, rawDB>> /\ DOMAIN Heard(t) = DOMAIN Nothing
    BY DEF Busy, ScanInv, TypeOK, loader, Shape
  <1>2. /\ DOMAIN task' = Tasks /\ DOMAIN task'[t] = DOMAIN NoTask
        /\ \A u \in Tasks \ {t} : task'[u] = task[u]
        /\ task'[t].at = at /\ DOMAIN task'[t].heard = DOMAIN Nothing
    BY <1>1, GoesOn, GivesUp DEF ScanInv, Skips
  <1>3. at = "failed" => task'[t].kind = Null /\ task'[t].try = "A"
    BY GivesUp DEF ScanInv, Skips
  <1>4. at = "done" => /\ task'[t].kind = task[t].kind /\ task'[t].try = task[t].try
                       /\ task'[t].heard = Heard(t)
    BY <1>1, GoesOn DEF ScanInv, Skips
  <1>5. \A u \in Tasks : ~Busy(u) \/ u = t => ~Busy(u)'
    BY <1>2 DEF Busy
  <1>6. task[t].id \in DOMAIN db["Modules"] /\ UInt16(6)' = UInt16(6)
    BY <1>1, UInt16Stays DEF GetValueOrNull
  <1>7. TypeOK'
    <2>1. \A u \in Tasks : /\ task'[u].kind \in Kinds \cup {Null} /\ task'[u].try \in {"A", "B"}
                           /\ task'[u].at = "load" => task'[u].id \notin {0, Undecimal}
      BY <1>2, <1>3, <1>4 DEF ScanInv, TypeOK
    <2>2. shown' \subseteq DOMAIN db["Modules"] /\ listBox1' \in BOOLEAN
      BY <1>6 DEF ScanInv, TypeOK
    <2> QED BY <1>1, <1>6, <2>1, <2>2 DEF ScanInv, TypeOK, Loaded
  <1>8. Shape'
    <2>1. \A u \in Tasks : /\ DOMAIN task'[u] = DOMAIN NoTask
                           /\ DOMAIN task'[u].heard = DOMAIN Nothing
      BY <1>2 DEF ScanInv, Shape, Heard
    <2>2. Fits(at, task'[t].kind)
      BY DEF Fits, AllSteps, EngineSteps, BodySteps, RadioSteps, OtherSteps
    <2>3. \A u \in Tasks : Fits(task'[u].at, task'[u].kind)
      BY <1>2, <2>2, HeardSoFar
    <2> QED BY <1>2, <2>1, <2>3 DEF Shape, Fits, Heard
  <1>9. Quiet' /\ \A i \in shown' : GetValueOrNull("Modules", i)' # Null
    BY <1>1 DEF Quiet, Loaded, ScanInv, GetValueOrNull
  <1>10. ASSUME single' PROVE OneByOne'
    <2>1. OneByOne /\ shown = {} /\ single /\ mux' = mux
      BY <1>1, <1>10 DEF ScanInv, OneByOne
    <2>2. \A u \in Tasks : ~Busy(u)'
      BY <1>1, <1>5, <2>1 DEF OneByOne
    <2>3. \A u \in Tasks : task'[u].at \in {"none", "failed", "done"}
      BY <2>2 DEF Busy
    <2>4. \A u \in Tasks : Sourced(task'[u].at, task'[u].kind, task'[u].heard, mux')
      BY <2>3 DEF Sourced
    <2>5. shown' # {} => ~listBox1' /\ shown' = {selectedModule'}
      BY <2>1
    <2>6. ASSUME NEW u \in Tasks, task'[u].kind = "Engine", task'[u].at = "done"
          PROVE  \/ GetValueOrNull("Modules", task[u].id)' = Null
                 \/ shown' # {} /\ mux' = task'[u].heard.size.from
      <3>1. CASE u # t
        BY <1>1, <1>2, <2>1, <2>6, <3>1 DEF OneByOne, GetValueOrNull
      <3>2. CASE u = t
        <4>1. task[t].kind = "Engine" /\ task'[t].heard = Heard(t) /\ at = "done"
          BY <1>2, <1>4, <2>6, <3>2
        <4>2. Sourced("load", "Engine", Heard(t), mux)
          BY <2>1, <4>1 DEF OneByOne
        <4> QED BY <2>1, <3>2, <4>1, <4>2 DEF Sourced
      <3> QED BY <3>1, <3>2
    <2> QED BY <2>1, <2>2, <2>4, <2>5, <2>6 DEF OneByOne, Heard
  <1> QED BY <1>7, <1>8, <1>9, <1>10 DEF ScanInv

LEMMA LoadModuleKeeps == ASSUME ScanInv, NEW t \in Tasks, LoadModule(t) PROVE ScanInv'
  <1> DEFINE id == task[t].id
             module == GetValueOrNull("Modules", id)
  <1>1. task[t].at = "load" /\ Busy(t) /\ UNCHANGED <<loader, car, single, mux>>
    BY DEF LoadModule, Busy
  <1>2. CASE module = Null
    <2>1. Goes(t, "done", Heard(t)) /\ UNCHANGED form
      BY <1>2 DEF LoadModule, Skips
    <2>2. /\ DOMAIN task' = Tasks /\ DOMAIN task'[t] = DOMAIN NoTask
          /\ \A u \in Tasks \ {t} : task'[u] = task[u]
          /\ task'[t].at = "done" /\ task'[t].heard = Heard(t) /\ task'[t].id = task[t].id
          /\ task'[t].kind = task[t].kind /\ task'[t].try = task[t].try
      BY <2>1, GoesOn, HeardSoFar DEF ScanInv
    <2>3. task[t].kind \in Kinds \cup {Null} /\ task[t].try \in {"A", "B"} /\ mux \in {"A", "B"}
      BY DEF ScanInv, TypeOK
    <2>4. Fits("done", task[t].kind) /\ Sourced("done", task[t].kind, Heard(t), mux)
      BY DEF Fits, AllSteps, EngineSteps, BodySteps, RadioSteps, OtherSteps, Sourced
    <2> QED BY <1>1, <1>2, <2>1, <2>2, <2>3, <2>4, HeardSoFar, OneTaskMoves
  <1>3. CASE module # Null
    <2>1. /\ selectedModule' = id
          /\ \/ Skips(t, "failed") /\ UNCHANGED <<listBox1, shown>>
             \/ /\ listBox1' = FALSE /\ shown' = shown \cup {id}
                /\ \E at \in {"failed", "done"} : Skips(t, at)
      BY <1>3 DEF LoadModule
    <2> QED BY <1>1, <1>3, <2>1, ShowsModule
  <1> QED BY <1>2, <1>3

LEMMA ClickKeeps == ASSUME ScanInv, NEW t \in Tasks, NEW kind \in Kinds, Click(t, kind) PROVE ScanInv'
  <1> DEFINE first == CASE kind = "Engine" -> "mux" [] kind = "AudioSystems" -> "radio"
                        [] kind \in BodyKinds -> "bcm" [] kind = "Transmission" -> "failed"
                        [] OTHER -> "done"
  <1>1. task' = [task EXCEPT ![t] = [NoTask EXCEPT !.at = first, !.kind = kind]]
    BY DEF Click
  <1>2. /\ first \in {"mux", "radio", "bcm", "failed", "done"}
        /\ first = "mux" => kind = "Engine"
        /\ first = "radio" => kind = "AudioSystems"
        /\ first = "bcm" => kind \in BodyKinds
        /\ first = "done" => kind # "Engine"
    BY DEF Kinds, BodyKinds
  <1> HIDE DEF first
  <1>3. Loaded /\ listBox1 /\ (single => \A u \in Tasks : ~Busy(u)) /\ Unchanged
    BY DEF Click
  <1>4. UNCHANGED <<db, tables, stage, rawDB, single, mux, listBox1, selectedModule, shown>>
    BY <1>3 DEF Unchanged, loader, form
  <1>5. /\ DOMAIN task' = Tasks /\ DOMAIN task'[t] = DOMAIN NoTask
        /\ \A u \in Tasks \ {t} : task'[u] = task[u]
        /\ task'[t].at = first /\ task'[t].kind = kind
        /\ task'[t].try = "A" /\ task'[t].heard = Nothing
    BY <1>1 DEF ScanInv, Shape, NoTask
  <1>6. Fits(first, kind) /\ Sourced(first, kind, Nothing, mux)
    BY <1>2 DEF Fits, AllSteps, EngineSteps, BodySteps, RadioSteps, OtherSteps, Sourced
  <1>7. TypeOK'
    <2>1. UInt16(6)' = UInt16(6)
      BY <1>4, UInt16Stays
    <2>2. \A u \in Tasks : /\ task'[u].kind \in Kinds \cup {Null} /\ task'[u].try \in {"A", "B"}
                           /\ task'[u].at = "load" => task'[u].id \notin {0, Undecimal}
      BY <1>2, <1>5 DEF ScanInv, TypeOK
    <2> QED BY <1>3, <1>4, <2>1, <2>2 DEF ScanInv, TypeOK, Loaded
  <1>8. Shape'
    <2>1. \A u \in Tasks : /\ DOMAIN task'[u] = DOMAIN NoTask
                           /\ DOMAIN task'[u].heard = DOMAIN Nothing
                           /\ Fits(task'[u].at, task'[u].kind)
      BY <1>5, <1>6, HeardSoFar DEF ScanInv, Shape, Heard
    <2> QED BY <1>5, <2>1 DEF Shape, Fits, Heard
  <1>9. Quiet' /\ \A i \in shown' : GetValueOrNull("Modules", i)' # Null
    BY <1>3, <1>4 DEF Quiet, Loaded, ScanInv, GetValueOrNull
  <1>10. ASSUME single' PROVE OneByOne'
    <2>1. OneByOne /\ single /\ shown = {} /\ shown' = {} /\ \A u \in Tasks : ~Busy(u)
      BY <1>3, <1>4, <1>10 DEF ScanInv, OneByOne
    <2>2. \A u \in Tasks \ {t} : ~Busy(u)'
      BY <1>5, <2>1 DEF Busy
    <2>3. \A u \in Tasks : Sourced(task'[u].at, task'[u].kind, task'[u].heard, mux')
      BY <1>4, <1>5, <1>6, <2>1 DEF OneByOne, Heard
    <2>4. ASSUME NEW u \in Tasks, task'[u].kind = "Engine", task'[u].at = "done"
          PROVE  GetValueOrNull("Modules", task[u].id)' = Null
      <3>1. u # t
        BY <1>2, <1>5, <2>4
      <3> QED BY <1>4, <1>5, <2>1, <2>4, <3>1 DEF OneByOne, GetValueOrNull
    <2> QED BY <2>1, <2>2, <2>3, <2>4 DEF OneByOne, Heard
  <1> QED BY <1>7, <1>8, <1>9, <1>10 DEF ScanInv

LEMMA LoadKeeps == ASSUME ScanInv, Load PROVE ScanInv'
  <1>1. LoaderNext /\ ~Loaded /\ UNCHANGED <<car, single, mux, task, form>>
    BY LoaderEnds DEF Load
  <1>2. /\ task = [t \in Tasks |-> NoTask] /\ shown = {} /\ selectedModule = Null
        /\ task' = task /\ shown' = {} /\ selectedModule' = Null /\ listBox1' = listBox1
        /\ mux' = mux /\ single' = single
    BY <1>1 DEF ScanInv, Quiet, form
  <1>3. \A t \in Tasks : task'[t] = NoTask /\ NoTask.at = "none" /\ NoTask.kind = Null
    BY <1>2 DEF NoTask
  <1>4. \A t \in Tasks : ~Busy(t)'
    BY <1>3 DEF Busy
  <1>5. TypeOK'
    <2>1. /\ DOMAIN db' = Dictionaries
          /\ stage' \notin {"check", "tables"} => Len(tables') = UInt16(6)'
      BY <1>1, LoaderType DEF ScanInv, TypeOK
    <2> QED BY <1>2, <1>3, <1>4, <2>1 DEF ScanInv, TypeOK
  <1>6. Shape'
    BY <1>2 DEF ScanInv, Shape, Heard
  <1>7. OneByOne'
    BY <1>2, <1>3, <1>4 DEF OneByOne, Sourced
  <1> QED BY <1>2, <1>5, <1>6, <1>7 DEF ScanInv, Quiet

LEMMA ScanInvStep == ScanInv /\ [Next]_vars => ScanInv'
  <1> SUFFICES ASSUME ScanInv, [Next]_vars PROVE ScanInv'
    OBVIOUS
  <1>1. CASE Load
    BY <1>1, LoadKeeps
  <1>2. ASSUME NEW t \in Tasks, TaskStep(t) PROVE ScanInv'
    <2>1. CASE SetMux(t) \/ Ask81(t) \/ Ask82(t)
      BY <2>1, SetMuxKeeps, Ask81Keeps, Ask82Keeps
    <2>2. CASE AskYear(t) \/ AskSize(t) \/ AskType(t) \/ AskStyle(t)
      BY <2>2, AskYearKeeps, AskSizeKeeps, AskTypeKeeps, AskStyleKeeps
    <2>3. CASE AskBCM_CCD(t) \/ AskStyle_J1850(t) \/ AskYear_J1850(t)
      BY <2>3, AskBCM_CCDKeeps, AskStyle_J1850Keeps, AskYear_J1850Keeps
    <2>4. CASE AskLevel(t) \/ AskTheft(t) \/ AskClimate(t) \/ AskModel(t)
      BY <2>4, AskLevelKeeps, AskTheftKeeps, AskClimateKeeps, AskModelKeeps
    <2>5. CASE Throws(t) \/ Lookup(t) \/ LoadModule(t)
      BY <2>5, ThrowsKeeps, LookupKeeps, LoadModuleKeeps
    <2> QED BY <1>2, <2>1, <2>2, <2>3, <2>4, <2>5 DEF TaskStep
  <1>3. ASSUME NEW t \in Tasks, NEW kind \in Kinds, Click(t, kind) PROVE ScanInv'
    BY <1>3, ClickKeeps
  <1>4. CASE UNCHANGED vars
    <2>1. /\ UNCHANGED <<db, tables, stage, rawDB, single, mux, task, listBox1, shown>>
          /\ selectedModule' = selectedModule /\ UInt16(6)' = UInt16(6)
      BY <1>4, UInt16Stays DEF vars, loader, form
    <2>2. TypeOK' /\ Shape' /\ Quiet'
      BY <2>1 DEF ScanInv, TypeOK, Shape, Quiet, Loaded, Heard, Busy
    <2>3. \A i \in shown' : GetValueOrNull("Modules", i)' # Null
      BY <2>1 DEF ScanInv, GetValueOrNull
    <2>4. OneByOne => OneByOne'
      BY <2>1 DEF OneByOne, Busy, Heard, GetValueOrNull
    <2> QED BY <2>1, <2>2, <2>3, <2>4 DEF ScanInv
  <1> QED BY <1>1, <1>2, <1>3, <1>4 DEF Next

LEMMA ScanInvAlways == Spec => []ScanInv
  BY ScanInvInit, ScanInvStep, PTL DEF Spec

\* Tasks, form and database keep their types, for every file and every vehicle.
THEOREM ScanTypes == Spec => []TypeOK
  <1>1. ScanInv => TypeOK
    BY DEF ScanInv
  <1> QED BY <1>1, ScanInvAlways, PTL

\* What a module is looked up by was said by one controller: by one position of
\* the multiplexer for an engine, on one bus for a body (VehicleLinkManager.cs:
\* 179-187, 351-396, 458-480), if a task ends before the next click.
THEOREM ScanOneController == Spec => []OneController
  <1>1. ScanInv => OneController
    <2> SUFFICES ASSUME ScanInv, single, NEW t \in Tasks, task[t].at = "lookup"
                 PROVE  LET h == Heard(t)
                        IN CASE task[t].kind = "Engine" ->
                                    /\ h.size.from # Null
                                    /\ {h.year.from, h.style.from, h.type.from} = {h.size.from}
                             [] task[t].kind \in BodyKinds ->
                                    h.style.from # Null /\ h.year.from = h.style.from
                             [] OTHER -> TRUE
      BY DEF OneController
    <2>1. Sourced("lookup", task[t].kind, Heard(t), mux) /\ mux # Null
      BY NullAssumption DEF ScanInv, OneByOne, TypeOK
    <2>2. CASE task[t].kind = "Engine"
      <3>1. /\ Heard(t).year.from = mux /\ Heard(t).size.from = mux
            /\ Heard(t).style.from = mux /\ Heard(t).type.from = mux
        BY <2>1, <2>2 DEF Sourced
      <3> QED BY <2>1, <2>2, <3>1 DEF BodyKinds
    <2>3. CASE task[t].kind \in BodyKinds
      BY <2>1, <2>3 DEF Sourced, BodyKinds
    <2>4. CASE task[t].kind # "Engine" /\ task[t].kind \notin BodyKinds
      BY <2>4
    <2> QED BY <2>2, <2>3, <2>4
  <1> QED BY <1>1, ScanInvAlways, PTL

\* The engine on the screen is polled where it was found (VehicleLinkManager.cs:
\* 179-199, 129), if a task ends before the next click.
THEOREM ScanPolledWhereFound == Spec => []PolledWhereFound
  <1>1. ScanInv => PolledWhereFound
    BY DEF ScanInv, OneByOne, PolledWhereFound
  <1> QED BY <1>1, ScanInvAlways, PTL

\* The lists show the items of one module, the selected one (Form1.cs:58-88), if
\* a task ends before the next click.
THEOREM ScanOneModuleShown == Spec => []OneModuleShown
  <1>1. ScanInv => OneModuleShown
    BY DEF ScanInv, OneByOne, OneModuleShown
  <1> QED BY <1>1, ScanInvAlways, PTL

-------------------------------------------------------------------------------
(* The database as it is stored.  Where columns begin, and what is reversed *)
(* twice.                                                                    *)

LEMMA LeastNat ==
    ASSUME NEW T \in SUBSET Nat, T # {}
    PROVE  \E n \in T : \A m \in T : n <= m
  <1> DEFINE R == {p \in Nat \X Nat : p[1] < p[2]}
  <1>1. IsWellFoundedOn(R, Nat)
    BY NatLessThanWellFounded, Zenon DEF OpToRel
  <1>2. PICK n \in T : \A m \in T : <<m, n>> \notin R
    <2> HIDE DEF R
    <2> QED BY <1>1, WFMin, Zenon
  <1>3. \A m \in T : ~(m < n)
    BY <1>2
  <1> QED BY <1>3

\* The file's columns without bytes are those that the reader leaves out.
LEMMA KeptIsFilled == ASSUME NEW sizes PROVE Kept(sizes) = Filled(sizes)
  BY DEF Kept, Filled

\* f tells where columns of these sizes begin
Begins(f, sizes) == f = [c \in DOMAIN sizes |-> IF c = 1 THEN 0 ELSE f[c - 1] + sizes[c - 1]]

LEMMA BeginsAt ==
    ASSUME NEW sizes, NEW f, Begins(f, sizes)
    PROVE  /\ DOMAIN f = DOMAIN sizes /\ f = [c \in DOMAIN sizes |-> f[c]]
           /\ \A c \in DOMAIN sizes : f[c] = IF c = 1 THEN 0 ELSE f[c - 1] + sizes[c - 1]
  BY Zenon DEF Begins

\* There is one way for the columns to follow each other.
LEMMA OneBeginning ==
    ASSUME NEW sizes, NEW n \in Nat, DOMAIN sizes = 1 .. n,
           NEW f, NEW g, Begins(f, sizes), Begins(g, sizes)
    PROVE  f = g
  <1> DEFINE Bad == {c \in 1 .. n : f[c] # g[c]}
  <1>1. ASSUME Bad # {} PROVE FALSE
    <2>1. Bad \in SUBSET Nat
      <3> 1 .. n \subseteq Nat
        OBVIOUS
      <3> QED BY Zenon
    <2>2. PICK c \in Bad : \A b \in Bad : c <= b
      <3> HIDE DEF Bad
      <3> QED BY <1>1, <2>1, LeastNat
    <2>3. c \in 1 .. n /\ f[c] # g[c]
      BY <2>2, Zenon
    <2>4. f[c] = (IF c = 1 THEN 0 ELSE f[c - 1] + sizes[c - 1])
      <3>1. \A b \in DOMAIN sizes : f[b] = (IF b = 1 THEN 0 ELSE f[b - 1] + sizes[b - 1])
        BY BeginsAt, Zenon
      <3> QED BY <2>3, <3>1
    <2>5. g[c] = (IF c = 1 THEN 0 ELSE g[c - 1] + sizes[c - 1])
      <3>1. \A b \in DOMAIN sizes : g[b] = (IF b = 1 THEN 0 ELSE g[b - 1] + sizes[b - 1])
        BY BeginsAt, Zenon
      <3> QED BY <2>3, <3>1
    <2>6. c # 1
      BY <2>3, <2>4, <2>5, Zenon
    <2>7. c - 1 \in 1 .. n /\ ~(c <= c - 1)
      BY <2>3, <2>6
    <2>8. c - 1 \notin Bad
      <3> HIDE DEF Bad
      <3> QED BY <2>2, <2>7, Zenon
    <2>9. f[c - 1] = g[c - 1]
      BY <2>7, <2>8, Zenon
    <2> QED BY <2>3, <2>4, <2>5, <2>6, <2>9, Zenon
  <1>2. \A c \in 1 .. n : f[c] = g[c]
    BY <1>1, Zenon
  <1>3. f = [c \in DOMAIN sizes |-> f[c]] /\ g = [c \in DOMAIN sizes |-> g[c]]
    <2>1. f = [c \in DOMAIN sizes |-> f[c]]
      BY BeginsAt, ZenonT(30)
    <2>2. g = [c \in DOMAIN sizes |-> g[c]]
      BY BeginsAt, ZenonT(30)
    <2> QED BY <2>1, <2>2
  <1> QED BY <1>2, <1>3, Zenon

\* The reader's recursion gives the places that the layout has.
LEMMA OffsetsAre ==
    ASSUME NEW sizes, NEW starts \in Seq(Nat), Begins(starts, sizes)
    PROVE  ColOffsets(sizes) = starts
  <1>1. ColOffsets(sizes) = CHOOSE g : Begins(g, sizes)
    BY Zenon DEF ColOffsets, Begins
  <1>2. Begins(ColOffsets(sizes), sizes)
    BY <1>1, Zenon
  <1>3. DOMAIN sizes = 1 .. Len(starts) /\ Len(starts) \in Nat
    <2>1. DOMAIN starts = DOMAIN sizes
      BY BeginsAt, Zenon
    <2> QED BY <2>1, LenProperties
  <1> QED BY <1>2, <1>3, OneBeginning, Zenon

\* What one format turns round the reader turns back: a number, and the two ids
\* of a conversion.
LEMMA ReverseTwice == ASSUME NEW s \in Seq(0 .. 255) PROVE Reverse(Reverse(s)) = s
  <1>1. Len(s) \in Nat /\ DOMAIN s = 1 .. Len(s) /\ s = [i \in 1 .. Len(s) |-> s[i]]
    BY LenProperties
  <1> DEFINE r == [i \in 1 .. Len(s) |-> s[(Len(s) - i) + 1]]
  <1>2. Reverse(s) = r
    BY DEF Reverse
  <1>3. Len(r) = Len(s)
    BY <1>1
  <1>4. Reverse(r) = [i \in 1 .. Len(r) |-> r[(Len(r) - i) + 1]]
    <2> HIDE DEF r
    <2> QED BY DEF Reverse
  <1>5. ASSUME NEW i \in 1 .. Len(s) PROVE r[(Len(s) - i) + 1] = s[i]
    BY <1>1
  <1> HIDE DEF r
  <1> QED BY <1>1, <1>2, <1>3, <1>4, <1>5, Zenon

LEMMA SwapTwice ==
    ASSUME NEW s \in Seq(0 .. 255), Len(s) = 6,
           NEW t, t = [s EXCEPT ![3] = s[4], ![4] = s[3], ![5] = s[6], ![6] = s[5]]
    PROVE  [t EXCEPT ![3] = t[4], ![4] = t[3], ![5] = t[6], ![6] = t[5]] = s
  <1>1. DOMAIN s = 1 .. 6 /\ s = [i \in 1 .. 6 |-> s[i]]
    BY LenProperties
  <1>2. /\ DOMAIN t = 1 .. 6 /\ t[3] = s[4] /\ t[4] = s[3] /\ t[5] = s[6] /\ t[6] = s[5]
        /\ \A i \in 1 .. 2 : t[i] = s[i]
    BY <1>1
  <1> DEFINE u == [t EXCEPT ![3] = t[4], ![4] = t[3], ![5] = t[6], ![6] = t[5]]
  <1>3. DOMAIN u = 1 .. 6 /\ u = [i \in 1 .. 6 |-> u[i]]
    BY <1>2
  <1>4. \A i \in 1 .. 6 : u[i] = s[i]
    BY <1>2
  <1> QED BY <1>1, <1>3, <1>4, Zenon
-------------------------------------------------------------------------------
(* What was read so far is what is stored: the inductive invariant *)

\* what the reader makes of a table's header
Attributes(table) ==
    [offset |-> table.offset, rowCount |-> table.rowCount, rowSize |-> table.rowSize,
     colSizes |-> Filled(table.sizes), colOffsets |-> table.starts]

\* Which method comes when
Place ==
    [check |-> 0, tables |-> 1, Modules |-> 2, ModuleMenuItems |-> 3, BinaryFormatters |-> 4,
     Functions |-> 5, StateScalers |-> 6, NumericScalers |-> 7, ModuleTypes |-> 8, TXGroups |-> 9,
     DataAcquireMethods |-> 10, MainMenuItems |-> 11, StateFormatters |-> 12, Resources |-> 13,
     NumericFormatters |-> 14, DataMenuItems |-> 15, TXItems |-> 16, loaded |-> 17]

\* What the methods make of what is stored: its content, but for the groups,
\* whose items are not those that are stored.
Made(d, stored) ==
    IF d = "TXGroups" THEN TXGroups(stored.tables[7])
    ELSE ContentOf(stored)[IF d = "Resources" /\ isStarScanDB THEN "Texts" ELSE d]

AsStored(d, stored) == db[d] = Made(d, stored)

\* What was read so far of a file with this layout is what it holds.
ReadSoFar(layout, stored) ==
    /\ HoldsAs(rawDB, layout, stored)
    /\ stage \in DOMAIN Place /\ DOMAIN db = Dictionaries
    /\ \E n \in 0 .. Len(layout) :
        /\ tables = [k \in 1 .. n |-> Attributes(layout[k])]
        /\ stage = "check" => n = 0
        /\ stage = "tables" => n < Len(layout)
        /\ stage \notin {"check", "tables"} => n = Len(layout)
    /\ stage # "check" => isStarScanDB = IsStarScan(rawDB)
    /\ \A d \in Dictionaries : Place[d] < Place[stage] => AsStored(d, stored)

LEMMA PlacesDiffer ==
    /\ \A d \in DOMAIN Place : Place[d] \in Nat
    /\ Dictionaries \subseteq DOMAIN Place
    /\ \A d \in Dictionaries : Place[d] > 1 /\ Place[d] < Place["loaded"]
    /\ \A d, e \in Dictionaries : Place[d] = Place[e] => d = e
  BY DEF Place, Dictionaries

LEMMA ReadSoFarInit ==
    ASSUME LoaderInit, NEW layout, NEW stored, HoldsAs(rawDB, layout, stored)
    PROVE  ReadSoFar(layout, stored)
  <1>1. tables = [k \in 1 .. 0 |-> Attributes(layout[k])]
    BY DEF LoaderInit
  <1>2. stage = "check" /\ DOMAIN db = Dictionaries
    BY DEF LoaderInit
  <1>3. \A d \in Dictionaries : ~(Place[d] < Place["check"])
    BY DEF Place, Dictionaries
  <1>4. 0 \in 0 .. Len(layout)
    BY DEF HoldsAs, HasHeader
  <1> QED BY <1>1, <1>2, <1>3, <1>4 DEF ReadSoFar, Place

LEMMA checkStarScanReads ==
    ASSUME NEW layout, NEW stored, ReadSoFar(layout, stored), checkStarScan
    PROVE  ReadSoFar(layout, stored)'
  <1>1. stage = "check" /\ stage' = "tables" /\ UNCHANGED <<rawDB, tables, db>>
    BY DEF checkStarScan
  <1>2. isStarScanDB' = IsStarScan(rawDB)
    BY DEF checkStarScan, IsStarScan, Part, Bytes
  <1>3. tables = [k \in 1 .. 0 |-> Attributes(layout[k])] /\ 0 \in 0 .. Len(layout) /\ 0 < Len(layout)
    <2>1. PICK n \in 0 .. Len(layout) : tables = [k \in 1 .. n |-> Attributes(layout[k])] /\ n = 0
      BY <1>1, Zenon DEF ReadSoFar
    <2>2. Len(layout) \in Nat /\ Len(layout) >= 28
      BY <2>1 DEF ReadSoFar, HoldsAs, HasHeader
    <2> QED BY <2>1, <2>2
  <1>4. \A d \in Dictionaries : ~(Place[d] < Place["tables"])
    BY DEF Place, Dictionaries
  <1> QED BY <1>1, <1>2, <1>3, <1>4 DEF ReadSoFar, Place

\* The attributes that are read at the place of a header are those of its table.
LEMMA HeaderIs ==
    ASSUME NEW layout, NEW stored, HoldsAs(rawDB, layout, stored), NEW k \in 1 .. Len(layout),
           NEW at, at = 8 + 36 * (k - 1)
    PROVE  LET sizes == Kept(Bytes(at + 9, rawDB[at + 9]))
           IN [offset |-> UInt32(at), rowCount |-> UInt16(at + 4), rowSize |-> UInt16(at + 6),
               colSizes |-> sizes, colOffsets |-> ColOffsets(sizes)] = Attributes(layout[k])
  <1>1. /\ LittleEndian(Part(rawDB, at, 4)) = layout[k].offset
        /\ LittleEndian(Part(rawDB, at + 4, 2)) = layout[k].rowCount
        /\ LittleEndian(Part(rawDB, at + 6, 2)) = layout[k].rowSize
        /\ rawDB[at + 9] = Len(layout[k].sizes)
        /\ Part(rawDB, at + 9, Len(layout[k].sizes)) = layout[k].sizes
        /\ layout[k].starts \in Seq(Nat)
        /\ layout[k].starts = [c \in DOMAIN Filled(layout[k].sizes) |->
                IF c = 1 THEN 0 ELSE layout[k].starts[c - 1] + Filled(layout[k].sizes)[c - 1]]
    BY Zenon DEF HoldsAs, HasHeader
  <1>2. Bytes(at + 9, rawDB[at + 9]) = layout[k].sizes
    BY <1>1, Zenon DEF Bytes, Part
  <1>3. Kept(Bytes(at + 9, rawDB[at + 9])) = Filled(layout[k].sizes)
    BY <1>2, KeptIsFilled, Zenon
  <1>4. ColOffsets(Filled(layout[k].sizes)) = layout[k].starts
    BY <1>1, OffsetsAre, Zenon DEF Begins
  <1>5. UInt32(at) = layout[k].offset
    BY <1>1, Zenon DEF UInt32, Bytes, Part
  <1>6. UInt16(at + 4) = layout[k].rowCount /\ UInt16(at + 6) = layout[k].rowSize
    BY <1>1, Zenon DEF UInt16, Bytes, Part
  <1> QED BY <1>3, <1>4, <1>5, <1>6, Zenon DEF Attributes

LEMMA ReadTableAttributesReads ==
    ASSUME NEW layout, NEW stored, ReadSoFar(layout, stored), ReadTableAttributes
    PROVE  ReadSoFar(layout, stored)'
  <1>1. stage = "tables" /\ UNCHANGED <<rawDB, isStarScanDB, db>>
    BY DEF ReadTableAttributes
  <1>2. PICK n \in 0 .. Len(layout) : n < Len(layout) /\ tables = [k \in 1 .. n |-> Attributes(layout[k])]
    BY <1>1, Zenon DEF ReadSoFar
  <1>3. Len(layout) \in Nat /\ n \in Nat
    <2>1. Len(layout) >= 28 /\ LittleEndian(Part(rawDB, 6, 2)) = Len(layout)
      BY DEF ReadSoFar, HoldsAs, HasHeader
    <2> QED BY <1>2
  <1> DEFINE table == LET at == 8 + 36 * Len(tables)
                          sizes == Kept(Bytes(at + 9, rawDB[at + 9]))
                      IN [offset |-> UInt32(at), rowCount |-> UInt16(at + 4), rowSize |-> UInt16(at + 6),
                          colSizes |-> sizes, colOffsets |-> ColOffsets(sizes)]
  <1>4. Len(tables) = n
    <2> DEFINE f(k) == Attributes(layout[k])
    <2>1. tables = [k \in 1 .. n |-> f(k)]
      BY <1>2
    <2> HIDE DEF f
    <2> QED BY <1>3, <2>1
  <1>5. table = Attributes(layout[n + 1])
    <2>1. 8 + 36 * Len(tables) = 8 + 36 * ((n + 1) - 1) /\ n + 1 \in 1 .. Len(layout)
      BY <1>2, <1>3, <1>4
    <2>2. HoldsAs(rawDB, layout, stored)
      BY Zenon DEF ReadSoFar
    <2> QED BY <2>1, <2>2, HeaderIs, Zenon
  <1>6. tables' = Append(tables, table)
    BY Zenon DEF ReadTableAttributes
  <1>7. tables' = [k \in 1 .. n + 1 |-> Attributes(layout[k])] /\ Len(tables') = n + 1
    <2> DEFINE f(k) == Attributes(layout[k])
    <2>1. tables = [k \in 1 .. n |-> f(k)] /\ tables' = Append(tables, f(n + 1))
      BY <1>2, <1>5, <1>6, Zenon
    <2> HIDE DEF f
    <2>2. tables' = [k \in 1 .. n + 1 |-> f(k)] /\ Len(tables') = n + 1
      BY <1>3, <2>1
    <2> QED BY <2>2 DEF f
  <1>8. stage' = IF n + 1 = Len(layout) THEN "Modules" ELSE "tables"
    <2>1. LittleEndian(Part(rawDB, 6, 2)) = Len(layout)
      BY Zenon DEF ReadSoFar, HoldsAs, HasHeader
    <2>2. UInt16(6) = Len(layout)
      BY <2>1, Zenon DEF UInt16, Bytes, Part
    <2> QED BY <1>7, <2>2, Zenon DEF ReadTableAttributes
  <1>9. HoldsAs(rawDB', layout, stored)
    BY <1>1 DEF ReadSoFar
  <1>10. \A d \in Dictionaries : ~(Place[d] < Place[stage'])
    BY <1>8 DEF Place, Dictionaries
  <1>11. n + 1 \in 0 .. Len(layout) /\ (stage' = "tables" => n + 1 < Len(layout))
         /\ (stage' # "tables" => n + 1 = Len(layout)) /\ stage' \in {"tables", "Modules"}
    BY <1>2, <1>3, <1>8
  <1>12. stage' \in DOMAIN Place /\ DOMAIN db' = Dictionaries /\ isStarScanDB' = IsStarScan(rawDB')
    BY <1>1, <1>11 DEF ReadSoFar, Place
  <1> QED BY <1>7, <1>9, <1>10, <1>11, <1>12 DEF ReadSoFar

-------------------------------------------------------------------------------
(* The cells of a table *)

LEMMA TablePlaces == \A t \in 0 .. 23 : t + 1 \in 1 .. 28
  OBVIOUS

LEMMA TablesAre ==
    ASSUME NEW layout, NEW stored, ReadSoFar(layout, stored), stage \notin {"check", "tables"},
           NEW k \in 1 .. 28
    PROVE  tables[k] = Attributes(layout[k])
  <1>1. tables = [j \in 1 .. Len(layout) |-> Attributes(layout[j])]
    BY DEF ReadSoFar
  <1>2. k \in 1 .. Len(layout)
    <2>1. Len(layout) >= 28
      BY Zenon DEF ReadSoFar, HoldsAs, HasHeader
    <2> QED BY <2>1
  <1> QED BY <1>1, <1>2, Zenon

\* The table's cells are those of the stored rows.
CellsAre(layout, rows, t) ==
    \A row \in 0 .. layout[t + 1].rowCount - 1, col \in 0 .. Len(Filled(layout[t + 1].sizes)) - 1 :
        Cell(t, row, col) = rows[row][col]

LEMMA CellsAsStored ==
    ASSUME NEW layout, NEW stored, ReadSoFar(layout, stored), stage \notin {"check", "tables"},
           NEW t \in 0 .. 23
    PROVE  CellsAre(layout, stored.tables[t], t)
  <1> SUFFICES ASSUME NEW row \in 0 .. layout[t + 1].rowCount - 1,
                      NEW col \in 0 .. Len(Filled(layout[t + 1].sizes)) - 1
               PROVE  Cell(t, row, col) = stored.tables[t][row][col]
    BY DEF CellsAre
  <1> DEFINE table == layout[t + 1]
             size == Filled(table.sizes)[col + 1]
             cell == stored.tables[t][row][col]
             star == IsStarScan(rawDB)
  <1>1. HoldsRows(rawDB, table, t, stored.tables[t]) /\ isStarScanDB = star
    BY Zenon DEF ReadSoFar, HoldsAs
  <1>2. /\ cell \in Seq(0 .. 255) /\ Len(cell) = size
        /\ Part(rawDB, table.offset + row * table.rowSize + table.starts[col + 1], size)
                = Encoded(t, col, cell, star)
    BY <1>1, Zenon DEF HoldsRows
  <1>3. t = 23 /\ col = 1 => Len(cell) = 6
    <2>1. Readable(t, stored.tables[t][row])
      BY <1>1, Zenon DEF HoldsRows
    <2> QED BY <2>1 DEF Readable
  <1>4. ReadFieldRaw(t, row, col) = Encoded(t, col, cell, star)
    <2>1. tables[t + 1] = Attributes(table)
      BY TablePlaces, TablesAre, Zenon
    <2>2. /\ tables[t + 1].offset = table.offset /\ tables[t + 1].rowSize = table.rowSize
          /\ tables[t + 1].colOffsets = table.starts /\ tables[t + 1].colSizes = Filled(table.sizes)
      BY <2>1 DEF Attributes
    <2> QED BY <1>2, <2>2, Zenon DEF ReadFieldRaw, Bytes, Part
  <1> HIDE DEF cell, star
  <1>5. CASE <<t, col>> \in RawColumns
    <2>0. <<t, col>> # <<23, 1>>
      BY <1>5 DEF RawColumns
    <2>1. Cell(t, row, col) = ReadFieldRaw(t, row, col)
      BY <1>5, <2>0, Zenon DEF Cell
    <2>2. Encoded(t, col, cell, star) = cell
      BY <1>5, <2>0, Zenon DEF Encoded
    <2> QED BY <1>4, <2>1, <2>2, Zenon DEF cell
  <1>6. CASE <<t, col>> \notin RawColumns /\ <<t, col>> = <<23, 1>>
    <2>1. Cell(t, row, col) = Conversion(ReadFieldRaw(t, row, col))
      BY <1>6, Zenon DEF Cell
    <2>2. Encoded(t, col, cell, star) =
            IF star THEN cell
            ELSE [cell EXCEPT ![3] = cell[4], ![4] = cell[3], ![5] = cell[6], ![6] = cell[5]]
      BY <1>6, Zenon DEF Encoded
    <2>3. Len(cell) = 6
      BY <1>3, <1>6
    <2>4. CASE star
      BY <1>1, <1>4, <2>1, <2>2, <2>4, Zenon DEF Conversion, cell
    <2>5. CASE ~star
      <3>1. ~isStarScanDB
        BY <1>1, <2>5, Zenon
      <3>2. Conversion(ReadFieldRaw(t, row, col)) = cell
        BY <1>2, <1>4, <2>2, <2>3, <2>5, <3>1, SwapTwice, Zenon DEF Conversion
      <3> QED BY <2>1, <3>2, Zenon DEF cell
    <2> QED BY <2>4, <2>5
  <1>7. CASE <<t, col>> \notin RawColumns /\ <<t, col>> # <<23, 1>>
    <2>1. Cell(t, row, col) = ReadField(t, row, col)
      BY <1>7, Zenon DEF Cell
    <2>2. Encoded(t, col, cell, star) = IF star THEN Reverse(cell) ELSE cell
      BY <1>7, Zenon DEF Encoded
    <2>3. ReadField(t, row, col) = cell
      BY <1>1, <1>2, <1>4, <2>2, ReverseTwice, Zenon DEF ReadField
    <2> QED BY <2>1, <2>3, Zenon DEF cell
  <1> QED BY <1>5, <1>6, <1>7

LEMMA RowsAsStored ==
    ASSUME NEW layout, NEW stored, ReadSoFar(layout, stored), stage \notin {"check", "tables"},
           NEW t \in 0 .. 23
    PROVE  Rows(t) = stored.tables[t]
  <1> DEFINE table == layout[t + 1]
             rows == stored.tables[t]
             last == Len(Filled(table.sizes)) - 1
  <1>1. rows = [r \in 0 .. table.rowCount - 1 |-> [c \in 0 .. last |-> rows[r][c]]]
    BY Zenon DEF ReadSoFar, HoldsAs, HoldsRows
  <1>2. tables[t + 1].rowCount = table.rowCount /\ tables[t + 1].colSizes = Filled(table.sizes)
    <2>1. tables[t + 1] = Attributes(table)
      BY TablePlaces, TablesAre, Zenon
    <2> QED BY <2>1 DEF Attributes
  <1>3. Rows(t) = [r \in 0 .. table.rowCount - 1 |-> [c \in 0 .. last |-> Cell(t, r, c)]]
    BY <1>2, Zenon DEF Rows
  <1>4. ASSUME NEW r \in 0 .. table.rowCount - 1
        PROVE  [c \in 0 .. last |-> Cell(t, r, c)] = [c \in 0 .. last |-> rows[r][c]]
    <2>1. CellsAre(layout, rows, t)
      BY CellsAsStored, Zenon
    <2>2. \A c \in 0 .. last : Cell(t, r, c) = rows[r][c]
      BY <2>1, Zenon DEF CellsAre
    <2> QED BY <2>2, Zenon
  <1> QED BY <1>1, <1>3, <1>4, Zenon
-------------------------------------------------------------------------------
(* The texts *)

\* The reader stops at the first zero, which is the one behind the text.
LEMMA ReadTextIs ==
    ASSUME NEW layout, NEW stored, ReadSoFar(layout, stored), stage \notin {"check", "tables"},
           NEW location, NEW text, HoldsText(rawDB, layout, location, text)
    PROVE  ReadText(location) = text
  <1> DEFINE first == layout[IF location \div 2^24 = 1 THEN 28 ELSE 27].offset + (location % 2^24)
             length == Min({n \in 0 .. Len(rawDB) - first - 1 : rawDB[first + n + 1] = 0})
  <1>1. ReadText(location) = Bytes(first, length)
    <2>1. tables[27].offset = layout[27].offset /\ tables[28].offset = layout[28].offset
      <3>1. 27 \in 1 .. 28 /\ 28 \in 1 .. 28
        OBVIOUS
      <3>2. tables[27] = Attributes(layout[27]) /\ tables[28] = Attributes(layout[28])
        BY <3>1, TablesAre, Zenon
      <3> QED BY <3>2 DEF Attributes
    <2>2. tables[IF location \div 2^24 = 1 THEN 28 ELSE 27].offset
            = layout[IF location \div 2^24 = 1 THEN 28 ELSE 27].offset
      BY <2>1, Zenon
    <2> QED BY <2>2, Zenon DEF ReadText
  <1>2. /\ first \in Nat /\ first + Len(text) < Len(rawDB) /\ text \in Seq(1 .. 255)
        /\ Part(rawDB, first, Len(text)) = text
        /\ rawDB[first + Len(text) + 1] = 0
    BY Zenon DEF HoldsText
  <1> HIDE DEF first
  <1>3. rawDB \in Seq(0 .. 255)
    BY Zenon DEF ReadSoFar, HoldsAs
  <1>4. Len(text) \in Nat /\ Len(rawDB) \in Nat
    BY <1>2, <1>3, LenProperties
  <1>5. ASSUME NEW n \in 0 .. Len(text) - 1 PROVE rawDB[first + n + 1] # 0
    <2>1. n + 1 \in 1 .. Len(text)
      BY <1>4
    <2>2. text[n + 1] \in 1 .. 255
      BY <1>2, <2>1, ElementOfSeq
    <2>3. text = SubSeq(rawDB, first + 1, first + Len(text))
      BY <1>2, Zenon DEF Part
    <2>4. text[n + 1] = rawDB[(first + 1) + (n + 1) - 1]
      <3>1. 1 <= first + 1 /\ first + Len(text) <= Len(rawDB) /\ first + 1 \in Int /\ first + Len(text) \in Int
        BY <1>2, <1>4
      <3>2. SubSeq(rawDB, first + 1, first + Len(text))[n + 1] = rawDB[(first + 1) + (n + 1) - 1]
        BY <1>2, <1>3, <1>4, <2>1, <3>1
      <3> QED BY <2>3, <3>2, Zenon
    <2>5. (first + 1) + (n + 1) - 1 = first + n + 1
      BY <1>2
    <2>6. text[n + 1] # 0
      <3>1. 0 \notin 1 .. 255
        OBVIOUS
      <3> QED BY <2>2, <3>1, Zenon
    <2> QED BY <2>4, <2>5, <2>6, Zenon
  <1> DEFINE Ends == {n \in 0 .. Len(rawDB) - first - 1 : rawDB[first + n + 1] = 0}
  <1>6. Len(text) \in Ends /\ \A n \in Ends : Len(text) <= n
    <2>1. Len(text) \in 0 .. Len(rawDB) - first - 1
      BY <1>2, <1>4
    <2>2. ASSUME NEW n \in Ends PROVE Len(text) <= n
      <3>1. n \notin 0 .. Len(text) - 1 /\ n \in 0 .. Len(rawDB) - first - 1
        BY <1>5, Zenon
      <3> QED BY <1>2, <1>4, <3>1
    <2> QED BY <1>2, <2>1, <2>2, Zenon
  <1>7. Ends \subseteq Int
    BY <1>2, <1>4
  <1>8. Min(Ends) = Len(text)
    <2> HIDE DEF Ends
    <2>1. \A n \in Ends : (\A m \in Ends : n <= m) => n = Len(text)
      BY <1>4, <1>6, <1>7
    <2> QED BY <1>6, <2>1, Zenon DEF Min
  <1>9. Bytes(first, Len(text)) = text
    BY <1>2, Zenon DEF Bytes, Part
  <1> QED BY <1>1, <1>8, <1>9, Zenon

LEMMA TextsAsStored ==
    ASSUME NEW layout, NEW stored, ReadSoFar(layout, stored), stage \notin {"check", "tables"}
    PROVE  Texts = stored.texts
  <1>1. Rows(16) = stored.tables[16]
    <2>1. 16 \in 0 .. 23
      OBVIOUS
    <2> QED BY <2>1, RowsAsStored, Zenon
  <1>2. Texts = [r \in DOMAIN stored.tables[16] |-> ReadText(AsNumber(stored.tables[16][r][1]))]
    BY <1>1, Zenon DEF Texts
  <1>3. /\ stored.texts = [r \in DOMAIN stored.tables[16] |-> stored.texts[r]]
        /\ \A r \in DOMAIN stored.tables[16] :
                HoldsText(rawDB, layout, AsNumber(stored.tables[16][r][1]), stored.texts[r])
    BY Zenon DEF ReadSoFar, HoldsAs
  <1>4. ASSUME NEW r \in DOMAIN stored.tables[16]
        PROVE  ReadText(AsNumber(stored.tables[16][r][1])) = stored.texts[r]
    BY <1>3, ReadTextIs, Zenon
  <1> QED BY <1>2, <1>3, <1>4, Zenon

-------------------------------------------------------------------------------
(* The methods of makeTables *)

\* A method that makes its dictionary from what is stored keeps the invariant.
LEMMA ReadReads ==
    ASSUME NEW layout, NEW stored, ReadSoFar(layout, stored),
           NEW name \in Dictionaries, NEW dictionary, NEW next \in DOMAIN Place,
           Read(name, dictionary, next), Place[next] = Place[name] + 1,
           dictionary = Made(name, stored)
    PROVE  ReadSoFar(layout, stored)'
  <1>1. /\ stage = name /\ stage' = next /\ UNCHANGED <<rawDB, isStarScanDB, tables>>
        /\ db' = [db EXCEPT ![name] = dictionary]
    BY DEF Read
  <1>2. name \notin {"check", "tables"} /\ next \notin {"check", "tables"}
    <2>1. Place["check"] = 0 /\ Place["tables"] = 1
      BY DEF Place
    <2>2. Place[name] > 1 /\ Place[name] \in Nat
      BY PlacesDiffer
    <2> QED BY <2>1, <2>2
  <1>3. DOMAIN db' = Dictionaries /\ db'[name] = dictionary
        /\ \A d \in Dictionaries \ {name} : db'[d] = db[d]
    BY <1>1 DEF ReadSoFar
  <1>4. ASSUME NEW d \in Dictionaries, Place[d] < Place[next] PROVE AsStored(d, stored)'
    <2>1. CASE d = name
      BY <1>1, <1>3, <2>1, Zenon DEF AsStored, Made
    <2>2. CASE d # name
      <3>1. Place[d] # Place[name] /\ Place[d] \in Nat /\ Place[name] \in Nat
        BY <2>2, PlacesDiffer, Zenon
      <3>2. Place[d] < Place[name]
        BY <1>4, <3>1
      <3>3. AsStored(d, stored)
        BY <1>1, <3>2, Zenon DEF ReadSoFar
      <3> QED BY <1>1, <1>3, <2>2, <3>3, Zenon DEF AsStored, Made
    <2> QED BY <2>1, <2>2
  <1>5. HoldsAs(rawDB', layout, stored) /\ isStarScanDB' = IsStarScan(rawDB')
    BY <1>1, <1>2, Zenon DEF ReadSoFar
  <1>6. PICK n \in 0 .. Len(layout) : tables' = [k \in 1 .. n |-> Attributes(layout[k])] /\ n = Len(layout)
    BY <1>1, <1>2, Zenon DEF ReadSoFar
  <1> QED BY <1>1, <1>2, <1>3, <1>4, <1>5, <1>6, Zenon DEF ReadSoFar

LEMMA PlacesFollow ==
    /\ Place["ModuleMenuItems"] = Place["Modules"] + 1
    /\ Place["BinaryFormatters"] = Place["ModuleMenuItems"] + 1
    /\ Place["Functions"] = Place["BinaryFormatters"] + 1
    /\ Place["StateScalers"] = Place["Functions"] + 1
    /\ Place["NumericScalers"] = Place["StateScalers"] + 1
    /\ Place["ModuleTypes"] = Place["NumericScalers"] + 1
    /\ Place["TXGroups"] = Place["ModuleTypes"] + 1
    /\ Place["DataAcquireMethods"] = Place["TXGroups"] + 1
    /\ Place["MainMenuItems"] = Place["DataAcquireMethods"] + 1
    /\ Place["StateFormatters"] = Place["MainMenuItems"] + 1
    /\ Place["Resources"] = Place["StateFormatters"] + 1
    /\ Place["NumericFormatters"] = Place["Resources"] + 1
    /\ Place["DataMenuItems"] = Place["NumericFormatters"] + 1
    /\ Place["TXItems"] = Place["DataMenuItems"] + 1
    /\ Place["loaded"] = Place["TXItems"] + 1
  BY DEF Place

LEMMA LoaderReads ==
    ASSUME NEW layout, NEW stored, ReadSoFar(layout, stored), LoaderNext
    PROVE  ReadSoFar(layout, stored)'
  <1> DEFINE t == stored.tables
  <1>1. stage \in Dictionaries => /\ \A k \in 0 .. 23 : Rows(k) = t[k]
                                  /\ Texts = stored.texts
    <2> "check" \notin Dictionaries /\ "tables" \notin Dictionaries
      BY DEF Dictionaries
    <2> QED BY RowsAsStored, TextsAsStored, Zenon
  <1>2. stage \in Dictionaries =>
            /\ Rows(0) = t[0] /\ Rows(1) = t[1] /\ Rows(2) = t[2] /\ Rows(3) = t[3] /\ Rows(4) = t[4]
            /\ Rows(5) = t[5] /\ Rows(6) = t[6] /\ Rows(7) = t[7] /\ Rows(8) = t[8] /\ Rows(9) = t[9]
            /\ Rows(10) = t[10] /\ Rows(11) = t[11] /\ Rows(15) = t[15] /\ Rows(16) = t[16]
            /\ Rows(17) = t[17] /\ Rows(19) = t[19] /\ Rows(20) = t[20] /\ Rows(21) = t[21]
            /\ Rows(22) = t[22] /\ Rows(23) = t[23]
    BY <1>1
  <1>3. \A d \in Dictionaries : d \in DOMAIN Place
    BY PlacesDiffer
  <1>4. "loaded" \in DOMAIN Place
    BY DEF Place
  <1>5. CASE ReadModules
    <2>1. stage = "Modules" /\ "Modules" \in Dictionaries /\ "ModuleMenuItems" \in Dictionaries
      BY <1>5, Zenon DEF ReadModules, Read, Dictionaries
    <2>2. Modules(Rows(0), Rows(10), Rows(19)) = Made("Modules", stored)
      BY <1>2, <2>1, Zenon DEF ContentOf, Made
    <2> QED BY <1>5, <1>3, <2>1, <2>2, PlacesFollow, ReadReads, Zenon DEF ReadModules
  <1>6. CASE ReadModuleMenuItems
    <2>1. stage = "ModuleMenuItems" /\ "ModuleMenuItems" \in Dictionaries /\ "BinaryFormatters" \in Dictionaries
      BY <1>6, Zenon DEF ReadModuleMenuItems, Read, Dictionaries
    <2>2. ModuleMenuItems(Rows(1)) = Made("ModuleMenuItems", stored)
      BY <1>2, <2>1, Zenon DEF ContentOf, Made
    <2> QED BY <1>6, <1>3, <2>1, <2>2, PlacesFollow, ReadReads, Zenon DEF ReadModuleMenuItems
  <1>7. CASE ReadBinaryFormatters
    <2>1. stage = "BinaryFormatters" /\ "BinaryFormatters" \in Dictionaries /\ "Functions" \in Dictionaries
      BY <1>7, Zenon DEF ReadBinaryFormatters, Read, Dictionaries
    <2>2. BinaryFormatters(Rows(2)) = Made("BinaryFormatters", stored)
      BY <1>2, <2>1, Zenon DEF ContentOf, Made
    <2> QED BY <1>7, <1>3, <2>1, <2>2, PlacesFollow, ReadReads, Zenon DEF ReadBinaryFormatters
  <1>8. CASE ReadFunctions
    <2>1. stage = "Functions" /\ "Functions" \in Dictionaries /\ "StateScalers" \in Dictionaries
      BY <1>8, Zenon DEF ReadFunctions, Read, Dictionaries
    <2>2. Functions(Rows(3), Rows(11)) = Made("Functions", stored)
      BY <1>2, <2>1, Zenon DEF ContentOf, Made
    <2> QED BY <1>8, <1>3, <2>1, <2>2, PlacesFollow, ReadReads, Zenon DEF ReadFunctions
  <1>9. CASE ReadStateScalers
    <2>1. stage = "StateScalers" /\ "StateScalers" \in Dictionaries /\ "NumericScalers" \in Dictionaries
      BY <1>9, Zenon DEF ReadStateScalers, Read, Dictionaries
    <2>2. StateScalers(Rows(4)) = Made("StateScalers", stored)
      BY <1>2, <2>1, Zenon DEF ContentOf, Made
    <2> QED BY <1>9, <1>3, <2>1, <2>2, PlacesFollow, ReadReads, Zenon DEF ReadStateScalers
  <1>10. CASE ReadNumericScalers
    <2>1. stage = "NumericScalers" /\ "NumericScalers" \in Dictionaries /\ "ModuleTypes" \in Dictionaries
      BY <1>10, Zenon DEF ReadNumericScalers, Read, Dictionaries
    <2>2. NumericScalers(Rows(5)) = Made("NumericScalers", stored)
      BY <1>2, <2>1, Zenon DEF ContentOf, Made
    <2> QED BY <1>10, <1>3, <2>1, <2>2, PlacesFollow, ReadReads, Zenon DEF ReadNumericScalers
  <1>11. CASE ReadModuleTypes
    <2>1. stage = "ModuleTypes" /\ "ModuleTypes" \in Dictionaries /\ "TXGroups" \in Dictionaries
      BY <1>11, Zenon DEF ReadModuleTypes, Read, Dictionaries
    <2>2. ModuleTypes(Rows(6)) = Made("ModuleTypes", stored)
      BY <1>2, <2>1, Zenon DEF ContentOf, Made
    <2> QED BY <1>11, <1>3, <2>1, <2>2, PlacesFollow, ReadReads, Zenon DEF ReadModuleTypes
  <1>12. CASE ReadTXGroups
    <2>1. stage = "TXGroups" /\ "TXGroups" \in Dictionaries /\ "DataAcquireMethods" \in Dictionaries
      BY <1>12, Zenon DEF ReadTXGroups, Read, Dictionaries
    <2>2. TXGroups(Rows(7)) = Made("TXGroups", stored)
      BY <1>2, <2>1, Zenon DEF ContentOf, Made
    <2> QED BY <1>12, <1>3, <2>1, <2>2, PlacesFollow, ReadReads, Zenon DEF ReadTXGroups
  <1>13. CASE ReadDataAcquisitions
    <2>1. stage = "DataAcquireMethods" /\ "DataAcquireMethods" \in Dictionaries /\ "MainMenuItems" \in Dictionaries
      BY <1>13, Zenon DEF ReadDataAcquisitions, Read, Dictionaries
    <2>2. DataAcquireMethods(Rows(8)) = Made("DataAcquireMethods", stored)
      BY <1>2, <2>1, Zenon DEF ContentOf, Made
    <2> QED BY <1>13, <1>3, <2>1, <2>2, PlacesFollow, ReadReads, Zenon DEF ReadDataAcquisitions
  <1>14. CASE ReadMainMenuItems
    <2>1. stage = "MainMenuItems" /\ "MainMenuItems" \in Dictionaries /\ "StateFormatters" \in Dictionaries
      BY <1>14, Zenon DEF ReadMainMenuItems, Read, Dictionaries
    <2>2. MainMenuItems(Rows(9)) = Made("MainMenuItems", stored)
      BY <1>2, <2>1, Zenon DEF ContentOf, Made
    <2> QED BY <1>14, <1>3, <2>1, <2>2, PlacesFollow, ReadReads, Zenon DEF ReadMainMenuItems
  <1>15. CASE ReadStateFormatters
    <2>1. stage = "StateFormatters" /\ "StateFormatters" \in Dictionaries /\ "Resources" \in Dictionaries
      BY <1>15, Zenon DEF ReadStateFormatters, Read, Dictionaries
    <2>2. StateFormatters(Rows(15)) = Made("StateFormatters", stored)
      BY <1>2, <2>1, Zenon DEF ContentOf, Made
    <2> QED BY <1>15, <1>3, <2>1, <2>2, PlacesFollow, ReadReads, Zenon DEF ReadStateFormatters
  <1>16. CASE ReadStrings
    <2>1. stage = "Resources" /\ "Resources" \in Dictionaries /\ "NumericFormatters" \in Dictionaries
      BY <1>16, Zenon DEF ReadStrings, Read, Dictionaries
    <2>2. Resources(Rows(16), Texts, isStarScanDB) = Made("Resources", stored)
      <3>1. Rows(16) = t[16] /\ Texts = stored.texts
        BY <1>1, <1>2, <2>1, Zenon
      <3>2. isStarScanDB \in BOOLEAN
        BY <2>1 DEF ReadSoFar, IsStarScan
      <3>3. CASE isStarScanDB
        <4>1. isStarScanDB = TRUE
          BY <3>2, <3>3, Zenon
        <4> QED BY <3>1, <4>1, Zenon DEF ContentOf, Made
      <3>4. CASE ~isStarScanDB
        <4>1. isStarScanDB = FALSE
          BY <3>2, <3>4, Zenon
        <4> QED BY <3>1, <4>1, Zenon DEF ContentOf, Made
      <3> QED BY <3>3, <3>4, Zenon
    <2> QED BY <1>16, <1>3, <2>1, <2>2, PlacesFollow, ReadReads, Zenon DEF ReadStrings
  <1>17. CASE ReadNumericFormatters
    <2>1. stage = "NumericFormatters" /\ "NumericFormatters" \in Dictionaries /\ "DataMenuItems" \in Dictionaries
      BY <1>17, Zenon DEF ReadNumericFormatters, Read, Dictionaries
    <2>2. NumericFormatters(Rows(17)) = Made("NumericFormatters", stored)
      BY <1>2, <2>1, Zenon DEF ContentOf, Made
    <2> QED BY <1>17, <1>3, <2>1, <2>2, PlacesFollow, ReadReads, Zenon DEF ReadNumericFormatters
  <1>18. CASE ReadDataMenus
    <2>1. stage = "DataMenuItems" /\ "DataMenuItems" \in Dictionaries /\ "TXItems" \in Dictionaries
      BY <1>18, Zenon DEF ReadDataMenus, Read, Dictionaries
    <2>2. DataMenuItems(Rows(21), Rows(20), Rows(22)) = Made("DataMenuItems", stored)
      BY <1>2, <2>1, Zenon DEF ContentOf, Made
    <2> QED BY <1>18, <1>3, <2>1, <2>2, PlacesFollow, ReadReads, Zenon DEF ReadDataMenus
  <1>19. CASE ReadTXItems
    <2>1. stage = "TXItems" /\ "TXItems" \in Dictionaries
      BY <1>19, Zenon DEF ReadTXItems, Read, Dictionaries
    <2>2. TXItems(Rows(23)) = Made("TXItems", stored)
      BY <1>2, <2>1, Zenon DEF ContentOf, Made
    <2> QED BY <1>19, <1>3, <1>4, <2>1, <2>2, PlacesFollow, ReadReads, Zenon DEF ReadTXItems
  <1> QED BY <1>5, <1>6, <1>7, <1>8, <1>9, <1>10, <1>11, <1>12, <1>13, <1>14, <1>15, <1>16, <1>17, <1>18, <1>19,
             checkStarScanReads, ReadTableAttributesReads, Zenon DEF LoaderNext

\* Only the loader touches the database.
LEMMA TasksLeaveLoader ==
    ASSUME NEW t \in Tasks, TaskStep(t) \/ \E kind \in Kinds : Click(t, kind)
    PROVE  UNCHANGED loader
  BY DEF TaskStep, Click, Unchanged, SetMux, Ask81, Ask82, Ask2A, AskYear, AskSize, AskType, AskStyle,
         AskBCM_CCD, AskStyle_J1850, AskYear_J1850, AskLevel, AskTheft, AskClimate, Letter,
         AskModel_J1850, AskModel, Throws, Lookup, LoadModule

LEMMA ReadSoFarStays ==
    ASSUME NEW layout, NEW stored, ReadSoFar(layout, stored), UNCHANGED loader
    PROVE  ReadSoFar(layout, stored)'
  BY DEF loader, ReadSoFar, AsStored, Made

IsReadAs(stored) == \E layout : ReadSoFar(layout, stored)

\* Whatever the items, the rest of the groups is what is stored.
LEMMA GroupsWithoutItems ==
    ASSUME NEW groups, NEW items
    PROVE  WithoutItems(TXGroups(groups)) = WithoutItems(StoredGroups(groups, items))
  BY Zenon DEF WithoutItems, StoredGroups

\* For every database that all the files hold, in either format, the loader fills
\* the dictionaries with it, but for the items of groups: the order of the bytes,
\* columns that were left out, the places of rows, columns and texts, while tasks
\* do what they do (Database.cs:219-568, Table.cs:16-106).
THEOREM ScanLoadedAsStored ==
    ASSUME NEW stored, \A file \in Files : Holds(file, stored), Content = ContentOf(stored)
    PROVE  Spec => []LoadedAsStored
  <1>1. Init => IsReadAs(stored)
    <2> SUFFICES ASSUME Init PROVE IsReadAs(stored)
      OBVIOUS
    <2>1. LoaderInit /\ rawDB \in Files
      BY DEF Init, LoaderInit
    <2>2. PICK layout : HoldsAs(rawDB, layout, stored)
      BY <2>1, Zenon DEF Holds
    <2> QED BY <2>1, <2>2, ReadSoFarInit, Zenon DEF IsReadAs
  <1>2. IsReadAs(stored) /\ [Next]_vars => IsReadAs(stored)'
    <2> SUFFICES ASSUME NEW layout, ReadSoFar(layout, stored), [Next]_vars
                 PROVE  ReadSoFar(layout, stored)'
      BY Zenon DEF IsReadAs
    <2>1. LoaderNext \/ UNCHANGED loader
      BY TasksLeaveLoader DEF Next, Load, vars
    <2> QED BY <2>1, LoaderReads, ReadSoFarStays
  <1>3. IsReadAs(stored) => LoadedAsStored
    <2> SUFFICES ASSUME NEW layout, ReadSoFar(layout, stored), Loaded
                 PROVE  LoadedAsStored
      BY Zenon DEF IsReadAs, LoadedAsStored
    <2>1. ASSUME NEW d \in Dictionaries PROVE db[d] = Made(d, stored)
      <3>1. Place[d] < Place[stage]
        BY PlacesDiffer DEF Loaded
      <3> QED BY <3>1, Zenon DEF ReadSoFar, AsStored
    <2>2. ASSUME NEW d \in Dictionaries \ {"TXGroups"}
          PROVE  db[d] = Content[IF d = "Resources" /\ isStarScanDB THEN "Texts" ELSE d]
      BY <2>1, Zenon DEF Made
    <2>3. WithoutItems(db["TXGroups"]) = WithoutItems(Content["TXGroups"])
      <3>1. db["TXGroups"] = TXGroups(stored.tables[7])
        BY <2>1, Zenon DEF Made, Dictionaries
      <3>2. Content["TXGroups"] = StoredGroups(stored.tables[7], stored.tables[18])
        BY Zenon DEF ContentOf
      <3> QED BY <3>1, <3>2, GroupsWithoutItems, Zenon
    <2> QED BY <2>2, <2>3, Zenon DEF LoadedAsStored
  <1> QED BY <1>1, <1>2, <1>3, PTL DEF Spec
===============================================================================
