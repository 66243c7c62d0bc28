------------------------------ MODULE ModuleScan ------------------------------
(***************************************************************************)
(* VehicleLinkManager.ScanModuleType and the form that calls it: the user  *)
(* clicks on a kind of module, a task asks the vehicle what it is, looks   *)
(* the module's id up, and puts the module on the screen.  Nothing keeps a *)
(* user from clicking again while a task is under way.                     *)
(*                                                                         *)
(* One step of a task is one request, with the values behind its echo on   *)
(* SCI: CommHandler has its steps.  Any request may go unanswered, and may *)
(* throw: the adapter was never connected, or its port is gone, or a value *)
(* had not one byte.                                                       *)
(***************************************************************************)
EXTENDS TableIds, DrbDatabase

CONSTANTS
    Cars,       \* vehicles, records of what their modules answer
    Names,      \* what the names of engine modules mention, see TableIds
    Tasks       \* the tasks that clicks may start

ASSUME NullAssumption == Null \notin {"A", "B", "CCD", "J1850"}

VARIABLES
    car,        \* chosen once: the vehicle
    single,     \* chosen once: a task ends before the next click
    mux,        \* the SCI position of the adapter's multiplexer
    task,       \* the tasks, and what each has heard so far
    listBox1,   \* the list of choices has the kinds of modules
    selectedModule,
    shown       \* the modules whose items the other lists show

form == <<listBox1, selectedModule, shown>>
vars == <<loader, car, single, mux, task, form>>

\* kinds that are identified by the body controller's style and year
BodyKinds == {"Body", "VehicleTheftSecurity", "AirTempControl", "CompassMiniTrip", "MemorySeat",
              "InstrumentCluster", "VehicleInfoCenter", "Otis"}
Kinds == BodyKinds \cup {"Engine", "AudioSystems", "Transmission", "AirBag"}

ModuleTypeID ==
    [Engine |-> 0, Transmission |-> 1, Body |-> 2, VehicleTheftSecurity |-> 4, AirTempControl |-> 6,
     InstrumentCluster |-> 7, AirBag |-> 8, Otis |-> 9, CompassMiniTrip |-> 10, AudioSystems |-> 12,
     MemorySeat |-> 14, VehicleInfoCenter |-> 17]

Unheard == [value |-> Null, from |-> Null]
Nothing == [size |-> Unheard, year |-> Unheard, style |-> Unheard, type |-> Unheard,
            level |-> "Base", theft |-> FALSE, climate |-> FALSE]
NoTask == [at |-> "none", try |-> "A", kind |-> Null, heard |-> Nothing, id |-> 0]

Init ==
    /\ LoaderInit
    /\ car \in Cars /\ single \in BOOLEAN
    /\ mux = "A" /\ task = [t \in Tasks |-> NoTask]
    /\ listBox1 = TRUE /\ selectedModule = Null /\ shown = {}

-------------------------------------------------------------------------------
(* Tasks.  t is at one of its steps and goes on to the next. *)

Busy(t) == task[t].at \notin {"none", "failed", "done"}
Heard(t) == task[t].heard
Says(value, from) == [value |-> value, from |-> from]

\* What a failed task has heard is gone.
Goes(t, at, heard) ==
    IF at = "failed" THEN task' = [task EXCEPT ![t] = [NoTask EXCEPT !.at = "failed"]]
    ELSE task' = [task EXCEPT ![t].at = at, ![t].heard = heard]
Skips(t, at) == Goes(t, at, Heard(t))
Unchanged == UNCHANGED <<loader, car, single, mux, form>>

\* listBox1_SelectedIndexChanged and the switch of ScanModuleType
Click(t, kind) ==
    /\ Loaded /\ listBox1 /\ ~Busy(t)
    /\ single => \A u \in Tasks : ~Busy(u)
    /\ ModuleTypeID[kind] \in DOMAIN db["ModuleTypes"]
    /\ LET first == CASE kind = "Engine" -> "mux" [] kind = "AudioSystems" -> "radio"
                      [] kind \in BodyKinds -> "bcm" [] kind = "Transmission" -> "failed"
                      [] OTHER -> "done"
       IN task' = [task EXCEPT ![t] = [NoTask EXCEPT !.at = first, !.kind = kind]]
    /\ Unchanged

\* an exception in a request, which TryConnect shows
Throws(t) ==
    /\ Busy(t) /\ task[t].at \notin {"lookup", "load"}
    /\ Skips(t, "failed")
    /\ Unchanged

(* GetEngineConfigSCI, for the controller at the multiplexer's position *)

\* mutant: after the switch only the style is asked for, if the rest was heard
SetMuxKeepsRest(t) ==
    /\ task[t].at = "mux"
    /\ mux' \in {task[t].try, mux}
    /\ Skips(t, IF Heard(t).type.from = Null THEN "81" ELSE "82")
    /\ UNCHANGED <<loader, car, single, form>>

\* The command may get lost.
SetMux(t) ==
    /\ task[t].at = "mux"
    /\ mux' \in {task[t].try, mux}
    /\ Skips(t, "81")
    /\ UNCHANGED <<loader, car, single, form>>

TryFails(t) ==
    IF task[t].try = "A" THEN task' = [task EXCEPT ![t].at = "mux", ![t].try = "B"]
    ELSE Skips(t, "failed")

Answers(generation) == car.sci[mux] # Null /\ car.sci[mux].generation = generation
ECU == car.sci[mux]

\* 0x16 0x81; without an answer the newer controllers' requests are tried
Ask81(t) ==
    /\ task[t].at = "81"
    /\ \/ /\ Answers("SBECII")
          /\ LET size == RunConversionAndGetResult(EngineSize_SBECII, NoSize, ECU.size)
                 full == IF size # <<59, "">> THEN size
                         ELSE <<59, IF ECU.manufacturer = 6 THEN "I6" ELSE "V8">>
             IN Goes(t, "82", [Heard(t) EXCEPT !.year = Says(1990 + (ECU.year % 16), mux),
                                               !.size = Says(full, mux),
                                               !.type = Says("SBEC/SBECII", mux)])
       \/ Skips(t, "0B")
    /\ Unchanged

Ask82(t) ==
    /\ task[t].at = "82"
    /\ \/ /\ Answers("SBECII")
          /\ Goes(t, "lookup", [Heard(t) EXCEPT !.style = Says(BodyStyle_SBECII(ECU.style), mux)])
       \/ TryFails(t)
    /\ Unchanged

\* one of the four requests 0x2A
Ask2A(t, parameter, next, heard) ==
    /\ task[t].at = parameter
    /\ (Answers("SBECIII") /\ Goes(t, next, heard)) \/ TryFails(t)
    /\ Unchanged

AskYear(t) == Ask2A(t, "0B", "0C", [Heard(t) EXCEPT !.year = Says(1990 + ECU.year, mux)])
AskSize(t) ==
    Ask2A(t, "0C", "0F", [Heard(t) EXCEPT
        !.size = Says(RunConversionAndGetResult(EngineSize_SBECIII_JTEC, NoSize, ECU.size), mux)])
AskType(t) ==
    Ask2A(t, "0F", "10", [Heard(t) EXCEPT
        !.type = Says(RunConversionAndGetResult(EngineControllerType_SBECIII_JTEC, Barf, ECU.type), mux)])

AskStyle(t) ==
    Ask2A(t, "10", "lookup", [Heard(t) EXCEPT
        !.style = Says(RunConversionAndGetResult(BodyStyle_SBECIII_JTEC, Barf, ECU.style), mux)])

(* GetBodyStyleAndYearFromBCM *)

AfterBCM(t) == IF task[t].kind = "Body" THEN "level" ELSE "lookup"

AskBCM_CCD(t) ==
    /\ task[t].at = "bcm"
    /\ \/ /\ car.ccd # Null
          /\ LET style == RunConversionAndGetResult(BodyStyle_BCM_CCD, Barf, car.ccd.style)
             IN Goes(t, AfterBCM(t), [Heard(t) EXCEPT !.year = Says(<<25, car.ccd.year>>, "CCD"),
                                                      !.style = Says(style, "CCD")])
       \/ Skips(t, "pci style")
    /\ Unchanged

\* Without a style, and without a year, the task gives up.
AskStyle_J1850(t) ==
    /\ task[t].at = "pci style"
    /\ \/ /\ car.pci # Null
          /\ LET style == RunConversionAndGetResult(BodyStyle_BCM_PCI, Barf, car.pci.style)
             IN Goes(t, "pci year", [Heard(t) EXCEPT !.style = Says(style, "J1850")])
       \/ Skips(t, "failed")
    /\ Unchanged

AskYear_J1850(t) ==
    /\ task[t].at = "pci year"
    /\ \/ /\ car.pci # Null
          /\ Goes(t, AfterBCM(t), [Heard(t) EXCEPT !.year = Says(car.pci.year, "J1850")])
       \/ Skips(t, "failed")
    /\ Unchanged

\* GetBCMModuleLevel_CCD, on CCD whatever the bus; "Base" without an answer
AskLevel(t) ==
    /\ task[t].at = "level"
    /\ LET style == Heard(t).style.value
           next(level) == IF AsksTheft(style, level) THEN "theft" ELSE "lookup"
       IN \/ /\ car.ccd # Null
             /\ LET level == RunConversionAndGetResult(BodyControllerType, Barf, car.ccd.level % 4)
                IN Goes(t, next(level), [Heard(t) EXCEPT !.level = level])
          \/ Skips(t, next("Base"))
    /\ Unchanged

\* a module that may answer on the body controller's bus, or on CCD
Communicates(buses, t) == "CCD" \in buses \/ ("J1850" \in buses /\ Heard(t).style.from = "J1850")

AskTheft(t) ==
    /\ task[t].at = "theft"
    /\ \E theft \in {FALSE, Communicates(car.theft, t)} :
        Goes(t, IF AsksClimate(Heard(t).style.value) THEN "climate" ELSE "lookup",
             [Heard(t) EXCEPT !.theft = theft])
    /\ Unchanged

AskClimate(t) ==
    /\ task[t].at = "climate"
    /\ \E climate \in {FALSE, Communicates(car.climate, t)} :
        Goes(t, "lookup", [Heard(t) EXCEPT !.climate = climate])
    /\ Unchanged

(* GetRadioModel: three letters, asked for one by one on CCD, at once on J1850 *)

Letter(t, here, next, otherwise) ==
    /\ task[t].at = here
    /\ \/ car.radio.bus = "CCD" /\ Skips(t, next)
       \/ Skips(t, otherwise)
    /\ Unchanged

AskModel_J1850(t) ==
    /\ task[t].at = "pci radio"
    /\ \/ car.radio.bus = "J1850" /\ Skips(t, "lookup")
       \/ Skips(t, "failed")
    /\ Unchanged

AskModel(t) ==
    \/ Letter(t, "radio", "second", "pci radio") \/ Letter(t, "second", "third", "failed")
    \/ Letter(t, "third", "lookup", "failed") \/ AskModel_J1850(t)

(* The tables.  GetRadioModel never sets the bus it returns. *)

EngineModules == SelectSeq(GetModules, LAMBDA i : db["Modules"][i].ModuleTypeID = 0)
Unnamed == [sizes |-> {}, styles |-> {}, years |-> {}, types |-> {}, marks |-> {}]
NameOf(i) ==
    LET name == Text(db["Modules"][i].NameID) IN IF name = NoText THEN Unnamed ELSE Names[name]

TableID(kind, heard) ==
    LET year == heard.year.value  style == heard.style.value  bus == heard.style.from
    IN CASE kind = "Engine" -> Engine_Table_ID(EngineModules, [i \in ToSet(EngineModules) |-> NameOf(i)],
                                               heard.size.value, year, style, heard.type.value)
         [] kind = "Body" -> Body_Table_ID(year, style, heard.level, heard.theft, heard.climate)
         [] kind = "VehicleTheftSecurity" -> VTSS_Table_ID(year, style, TRUE)
         [] kind = "AirTempControl" -> AirTempControl_Table_ID(style)
         [] kind = "CompassMiniTrip" -> CompassMiniTrip_Table_ID(style, bus)
         [] kind = "MemorySeat" -> MemorySeat_Table_ID(style, year)
         [] kind = "InstrumentCluster" -> MIC_Table_ID(style, year, bus)
         [] kind = "VehicleInfoCenter" -> VehicleInfoCenter_Table_ID(style, year)
         [] kind = "Otis" -> OTIS_Table_ID(style)
         [] kind = "AudioSystems" -> Radio_Table_ID(car.radio.model, "Invalid")

\* mutant: a vehicle that no table has is looked up in the database all the same
LookupAnyway(t) ==
    /\ task[t].at = "lookup"
    /\ task' = [task EXCEPT ![t].id = TableID(task[t].kind, Heard(t)), ![t].at = "load"]
    /\ Unchanged

\* mutant: the multiplexer goes back to A when the engine was identified
LookupAtA(t) ==
    /\ task[t].at = "lookup"
    /\ LET id == TableID(task[t].kind, Heard(t))
       IN IF id \in {0, Undecimal} THEN Skips(t, "failed")
          ELSE task' = [task EXCEPT ![t].id = id, ![t].at = "load"]
    /\ mux' = "A"
    /\ UNCHANGED <<loader, car, single, form>>

Lookup(t) ==
    /\ task[t].at = "lookup"
    /\ LET id == TableID(task[t].kind, Heard(t))
       IN IF id \in {0, Undecimal} THEN Skips(t, "failed")
          ELSE task' = [task EXCEPT ![t].id = id, ![t].at = "load"]
    /\ Unchanged

\* mutant: the kinds stay on the list
LoadModuleKeepsKinds(t) ==
    /\ task[t].at = "load"
    /\ shown' = shown \cup {task[t].id} /\ selectedModule' = task[t].id
    /\ Skips(t, "done")
    /\ UNCHANGED <<loader, car, single, mux, listBox1>>

\* TryConnect and LoadModule.  A missing item stops it before it touches the
\* lists, a missing function half way through them.
LoadModule(t) ==
    /\ task[t].at = "load"
    /\ LET id == task[t].id
           module == GetValueOrNull("Modules", id)
           halts == Null \in TXItemsOf(module)
           menus == DOMAIN db["ModuleMenuItems"]
       IN \/ module = Null /\ Skips(t, "done") /\ UNCHANGED form
          \/ /\ module # Null /\ selectedModule' = id
             /\ IF halts THEN UNCHANGED <<listBox1, shown>> /\ Skips(t, "failed")
                ELSE /\ listBox1' = FALSE /\ shown' = shown \cup {id}
                     /\ Skips(t, IF Null \in GetModuleFunctionsWithoutTX(module) /\ menus \cap {1, 4} # {}
                                 THEN "failed" ELSE "done")
    /\ UNCHANGED <<loader, car, single, mux>>

TaskStep(t) ==
    \/ SetMux(t) \/ Ask81(t) \/ Ask82(t) \/ AskYear(t) \/ AskSize(t) \/ AskType(t) \/ AskStyle(t)
    \/ AskBCM_CCD(t) \/ AskStyle_J1850(t) \/ AskYear_J1850(t)
    \/ AskLevel(t) \/ AskTheft(t) \/ AskClimate(t) \/ AskModel(t)
    \/ Throws(t) \/ Lookup(t) \/ LoadModule(t)

Load == LoaderNext /\ UNCHANGED <<car, single, mux, task, form>>

Next == Load \/ \E t \in Tasks : TaskStep(t) \/ \E kind \in Kinds : Click(t, kind)

Spec == Init /\ [][Next]_vars
-------------------------------------------------------------------------------
\* Tasks, form and database have the values their code gives them.
TypeOK ==
    /\ single \in BOOLEAN /\ mux \in {"A", "B"} /\ listBox1 \in BOOLEAN
    /\ DOMAIN db = Dictionaries /\ (stage \notin {"check", "tables"} => Len(tables) = UInt16(6))
    /\ \A t \in Tasks :
        /\ task[t].kind \in Kinds \cup {Null} /\ task[t].try \in {"A", "B"}
        /\ task[t].at = "load" => task[t].id \notin {0, Undecimal}
        /\ Busy(t) => Loaded
    /\ selectedModule \in DOMAIN db["Modules"] \cup {Null} /\ shown \subseteq DOMAIN db["Modules"]

\* With one task at a time a module is looked up by what one controller said:
\* an engine's four values come from one position of the multiplexer, whichever
\* of the requests at positions A and B failed (VehicleLinkManager.cs:179-187,
\* :351-396), and a style and its year from one bus (:458-480).
OneController ==
    single => \A t \in Tasks :
        task[t].at = "lookup" =>
            LET h == Heard(t)
            IN CASE task[t].kind = "Engine" ->
                        h.size.from # Null /\ {h.year.from, h.style.from, h.type.from} = {h.size.from}
                 [] task[t].kind \in BodyKinds -> h.style.from # Null /\ h.year.from = h.style.from
                 [] OTHER -> TRUE

\* With one task at a time the engine on the screen is polled at the position
\* of the multiplexer where it was found (VehicleLinkManager.cs:179-199, :129).
PolledWhereFound ==
    single => \A t \in Tasks :
        task[t].kind = "Engine" /\ task[t].at = "done" /\ task[t].id \in shown => mux = Heard(t).size.from

\* With one task at a time the lists show the items of one module, the selected
\* one, although they are never cleared (Form1.cs:58-88).
OneModuleShown == single /\ shown # {} => shown = {selectedModule}
===============================================================================
