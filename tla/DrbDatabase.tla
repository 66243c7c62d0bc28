----------------------------- MODULE DrbDatabase -----------------------------
(***************************************************************************)
(* DRBDBReader: the database file, taken apart into tables and read into   *)
(* dictionaries, one method of makeTables after the other.  The file comes *)
(* in two formats: the numbers of a row are big-endian in the DRB's and    *)
(* little-endian in StarSCAN's; the header is little-endian in both.       *)
(*                                                                         *)
(* A dictionary is a function from ids.  Links between objects are ids,    *)
(* resolved when they are asked for.  A float is its four bytes, most      *)
(* significant first; a text is the bytes before its zero.  Columns have   *)
(* 1, 2 or 4 bytes; the reader also takes 8 and throws at others.          *)
(***************************************************************************)
EXTENDS Integers, Sequences, SequencesExt, FiniteSetsExt

CONSTANTS
    Files,      \* files, sequences of bytes, in either format
    Content,    \* what was written into the files
    Null        \* GetValueOrNull found nothing

VARIABLES
    rawDB,      \* the bytes of the file
    isStarScanDB,
    tables,     \* the tables whose attributes were read
    stage,      \* the method of makeTables that comes next
    db          \* the dictionaries

loader == <<rawDB, isStarScanDB, tables, stage, db>>

Dictionaries == {"Modules", "ModuleMenuItems", "BinaryFormatters", "Functions", "StateScalers",
    "NumericScalers", "ModuleTypes", "TXGroups", "DataAcquireMethods", "MainMenuItems",
    "StateFormatters", "Resources", "NumericFormatters", "DataMenuItems", "TXItems"}

LoaderInit ==
    /\ rawDB \in Files
    /\ isStarScanDB = FALSE /\ tables = <<>> /\ stage = "check"
    /\ db = [d \in Dictionaries |-> <<>>]

-------------------------------------------------------------------------------
(* Bytes of the file *)

Bytes(offset, n) == SubSeq(rawDB, offset + 1, offset + n)
LittleEndian(b) == FoldLeft(LAMBDA sum, x : 256 * sum + x, 0, Reverse(b))
UInt16(offset) == LittleEndian(Bytes(offset, 2))
UInt32(offset) == LittleEndian(Bytes(offset, 4))

\* the 'STARSCAN' that StarSCAN's file has near its end
checkStarScan ==
    /\ stage = "check"
    /\ isStarScanDB' = (Bytes(Len(rawDB) - 23, 8) = <<83, 84, 65, 82, 83, 67, 65, 78>>)
    /\ stage' = "tables"
    /\ UNCHANGED <<rawDB, tables, db>>

\* mutant: columns without bytes count
KeptAll(sizes) == sizes

\* Columns without bytes are left out and the others move up.
Kept(sizes) == SelectSeq(sizes, LAMBDA size : size # 0)

\* A column begins where the one before it ends.
ColOffsets(sizes) ==
    LET offset[c \in DOMAIN sizes] == IF c = 1 THEN 0 ELSE offset[c - 1] + sizes[c - 1] IN offset

\* The attributes of a table: 36 bytes, of which the stated sizes fill as many
\* as there are columns.
ReadTableAttributes ==
    /\ stage = "tables"
    /\ LET at == 8 + 36 * Len(tables)
           sizes == Kept(Bytes(at + 9, rawDB[at + 9]))
       IN tables' = Append(tables, [offset |-> UInt32(at), rowCount |-> UInt16(at + 4),
                                    rowSize |-> UInt16(at + 6), colSizes |-> sizes,
                                    colOffsets |-> ColOffsets(sizes)])
    /\ stage' = IF Len(tables') = UInt16(6) THEN "Modules" ELSE "tables"
    /\ UNCHANGED <<rawDB, isStarScanDB, db>>

-------------------------------------------------------------------------------
(* Table: rows and columns are counted from 0 *)

ReadFieldRaw(t, row, col) ==
    LET table == tables[t + 1]
    IN Bytes(table.offset + row * table.rowSize + table.colOffsets[col + 1], table.colSizes[col + 1])

\* ReadField and ReadFloatField put the bytes into one order, here the most
\* significant first.
ReadField(t, row, col) ==
    LET raw == ReadFieldRaw(t, row, col) IN IF isStarScanDB THEN Reverse(raw) ELSE raw

\* The columns that are read as they are
RawColumns == {<<16, 3>>, <<23, 6>>}

\* Two ids in the middle of the conversion have the file's order of bytes.
Conversion(raw) ==
    IF isStarScanDB THEN raw
    ELSE [raw EXCEPT ![3] = raw[4], ![4] = raw[3], ![5] = raw[6], ![6] = raw[5]]

Cell(t, row, col) ==
    CASE <<t, col>> \in RawColumns -> ReadFieldRaw(t, row, col)
      [] <<t, col>> = <<23, 1>> -> Conversion(ReadFieldRaw(t, row, col))
      [] OTHER -> ReadField(t, row, col)

\* A table for the methods below, row by row
Rows(t) ==
    [row \in 0 .. tables[t + 1].rowCount - 1 |->
        [col \in 0 .. Len(tables[t + 1].colSizes) - 1 |-> Cell(t, row, col)]]

-------------------------------------------------------------------------------
(* What the methods of makeTables make of the rows of their tables.  A cell *)
(* is a number, a float, or bytes, as its method has it.                    *)

AsNumber(cell) == LittleEndian(Reverse(cell))

\* An object of a row for each id in a column; a later row replaces an earlier one.
Keyed(rows, col, objects) ==
    LET id(row) == AsNumber(rows[row][col])
    IN [i \in {id(row) : row \in DOMAIN rows} |-> objects[Max({row \in DOMAIN rows : id(row) = i})]]

\* The right hand sides of a table of associations, for one left hand side
Linked(rows, col, i, right) ==
    LET places == SelectSeq([k \in 1 .. Cardinality(DOMAIN rows) |-> k - 1],
                            LAMBDA row : AsNumber(rows[row][col]) = i)
    IN [k \in DOMAIN places |-> AsNumber(rows[places[k]][right])]

Modules(modules, items, menus) ==
    Keyed(modules, 0, [r \in DOMAIN modules |->
        LET id == AsNumber(modules[r][0])
        IN [ID |-> id, ModuleTypeID |-> AsNumber(modules[r][1]), NameID |-> AsNumber(modules[r][3]),
            TXItemIDs |-> Linked(items, 0, id, 1), DataMenuItemIDs |-> Linked(menus, 0, id, 1)]])

ModuleMenuItems(rows) ==
    Keyed(rows, 0, [r \in DOMAIN rows |-> [ID |-> AsNumber(rows[r][0]), NameID |-> AsNumber(rows[r][1])]])

BinaryFormatters(rows) ==
    Keyed(rows, 0, [r \in DOMAIN rows |->
        [TrueStringID |-> AsNumber(rows[r][1]), FalseStringID |-> AsNumber(rows[r][2])]])

\* A link is noted at both of its functions.
LinkedFunctionIDs(links, i) ==
    LET left(l) == AsNumber(links[l][0])
        right(l) == AsNumber(links[l][1])
    IN FlattenSeq([k \in 1 .. Cardinality(DOMAIN links) |->
            (IF left(k - 1) = i THEN <<right(k - 1)>> ELSE <<>>) \o
            (IF right(k - 1) = i THEN <<left(k - 1)>> ELSE <<>>)])

Functions(functions, links) ==
    Keyed(functions, 0, [r \in DOMAIN functions |->
        LET row == functions[r]
        IN [ID |-> AsNumber(row[0]), NameID |-> AsNumber(row[2]), Order |-> AsNumber(row[3]),
            ModuleMenuID |-> AsNumber(row[4]), LinkedFunctionIDs |-> LinkedFunctionIDs(links, AsNumber(row[0]))]])

\* an operator that the enumeration does not have stays UNKNOWN, 0
StateOperators == {61, 33, 62, 60, 48, 57}

StateScalers(rows) ==
    Keyed(rows, 0, [r \in DOMAIN rows |->
        LET op == AsNumber(rows[r][2])
        IN [Mask |-> AsNumber(rows[r][1]), Operator |-> IF op \in StateOperators THEN op ELSE 0]])

NumericScalers(rows) ==
    Keyed(rows, 0, [r \in DOMAIN rows |-> [Slope |-> rows[r][1], Offset |-> rows[r][2]]])

\* keyed by the type's number, not by the row's id
ModuleTypes(rows) ==
    Keyed(rows, 3, [r \in DOMAIN rows |->
        [ID |-> AsNumber(rows[r][0]), TypeID |-> AsNumber(rows[r][3]), NameID |-> AsNumber(rows[r][1])]])

\* The associations of table 18 are not read: the second loop goes over table
\* 7 again, so a group's items are the module type of its own row.
TXGroups(rows) ==
    Keyed(rows, 0, [r \in DOMAIN rows |->
        [ModuleTypeID |-> AsNumber(rows[r][1]), Order |-> AsNumber(rows[r][2]),
         TXItemIDs |-> Linked(rows, 0, AsNumber(rows[r][0]), 1)]])

DataAcquireMethods(rows) ==
    Keyed(rows, 0, [r \in DOMAIN rows |->
        [RequestLen |-> AsNumber(rows[r][1]), ResponseLen |-> AsNumber(rows[r][3]),
         ExtractOffset |-> AsNumber(rows[r][5]), ExtractLen |-> AsNumber(rows[r][6]),
         Protocol |-> AsNumber(rows[r][10])]])

MainMenuItems(rows) ==
    Keyed(rows, 0, [r \in DOMAIN rows |->
        [ParentID |-> AsNumber(rows[r][1]), NameID |-> AsNumber(rows[r][2]), Order |-> AsNumber(rows[r][3]),
         ScreenYPosition |-> AsNumber(rows[r][4])]])

\* The definitions of table 13 are not read.
StateFormatters(rows) ==
    Keyed(rows, 3, [r \in DOMAIN rows |->
        LET id == AsNumber(rows[r][3])
        IN [StateIDs |-> Zip(Linked(rows, 3, id, 1), Linked(rows, 3, id, 0))]])

\* texts has the text of each row's location
Resources(rows, texts, star) ==
    Keyed(rows, 0, [r \in DOMAIN rows |->
        [ResourceString |-> texts[r], OBDCode |-> IF star THEN <<>> ELSE rows[r][3]]])

NumericFormatters(rows) ==
    Keyed(rows, 0, [r \in DOMAIN rows |->
        [EnglishUnitNameID |-> AsNumber(rows[r][6]), MetricUnitNameID |-> AsNumber(rows[r][3]),
         MetricConversionSlope |-> rows[r][2], MetricConversionOffset |-> rows[r][4]]])

DataMenuItems(menus, groups, functions) ==
    Keyed(menus, 0, [r \in DOMAIN menus |->
        LET id == AsNumber(menus[r][0])
        IN [ModuleTypeID |-> AsNumber(menus[r][1]), NameID |-> AsNumber(menus[r][2]), Order |-> AsNumber(menus[r][3]),
            TXGroupIDs |-> Linked(groups, 0, id, 1), FunctionIDs |-> Linked(functions, 0, id, 1)]])

DataDisplay(conversion) ==
    [ConversionScalingType |-> conversion[1] % 16, ConversionFormatterType |-> conversion[1] \div 16,
     ConversionFormatterID |-> LittleEndian(SubSeq(conversion, 3, 4)),
     ConversionScalingID |-> LittleEndian(SubSeq(conversion, 5, 6))]

\* What is transmitted is as long as the first byte of its column says.
TXItems(rows) ==
    Keyed(rows, 0, [r \in DOMAIN rows |->
        LET row == rows[r]
        IN [ID |-> AsNumber(row[0]), DataAcquisitionID |-> AsNumber(row[2]), FunctionID |-> AsNumber(row[3]),
            ModuleMenuID |-> AsNumber(row[4]), NameID |-> AsNumber(row[8]), ModuleTypeID |-> AsNumber(row[14]),
            TransmitBytes |-> SubSeq(row[6], 2, 1 + row[6][1]), DataDisplay |-> DataDisplay(row[1])]])

-------------------------------------------------------------------------------
(* makeTables *)

\* A location's first byte chooses the table of texts.
ReadText(location) ==
    LET first == tables[IF location \div 2^24 = 1 THEN 28 ELSE 27].offset + (location % 2^24)
        length == Min({n \in 0 .. Len(rawDB) - first - 1 : rawDB[first + n + 1] = 0})
    IN Bytes(first, length)

Texts == [r \in DOMAIN Rows(16) |-> ReadText(AsNumber(Rows(16)[r][1]))]

\* A method fills one dictionary.
Read(name, dictionary, next) ==
    /\ stage = name
    /\ db' = [db EXCEPT ![name] = dictionary]
    /\ stage' = next
    /\ UNCHANGED <<rawDB, isStarScanDB, tables>>

ReadModules == Read("Modules", Modules(Rows(0), Rows(10), Rows(19)), "ModuleMenuItems")
ReadModuleMenuItems == Read("ModuleMenuItems", ModuleMenuItems(Rows(1)), "BinaryFormatters")
ReadBinaryFormatters == Read("BinaryFormatters", BinaryFormatters(Rows(2)), "Functions")
ReadFunctions == Read("Functions", Functions(Rows(3), Rows(11)), "StateScalers")
ReadStateScalers == Read("StateScalers", StateScalers(Rows(4)), "NumericScalers")
ReadNumericScalers == Read("NumericScalers", NumericScalers(Rows(5)), "ModuleTypes")
ReadModuleTypes == Read("ModuleTypes", ModuleTypes(Rows(6)), "TXGroups")
ReadTXGroups == Read("TXGroups", TXGroups(Rows(7)), "DataAcquireMethods")
ReadDataAcquisitions == Read("DataAcquireMethods", DataAcquireMethods(Rows(8)), "MainMenuItems")
ReadMainMenuItems == Read("MainMenuItems", MainMenuItems(Rows(9)), "StateFormatters")
ReadStateFormatters == Read("StateFormatters", StateFormatters(Rows(15)), "Resources")
ReadStrings == Read("Resources", Resources(Rows(16), Texts, isStarScanDB), "NumericFormatters")
ReadNumericFormatters == Read("NumericFormatters", NumericFormatters(Rows(17)), "DataMenuItems")
ReadDataMenus == Read("DataMenuItems", DataMenuItems(Rows(21), Rows(20), Rows(22)), "TXItems")
ReadTXItems == Read("TXItems", TXItems(Rows(23)), "loaded")

LoaderNext ==
    \/ checkStarScan \/ ReadTableAttributes
    \/ ReadModules \/ ReadModuleMenuItems \/ ReadBinaryFormatters \/ ReadFunctions
    \/ ReadStateScalers \/ ReadNumericScalers \/ ReadModuleTypes \/ ReadTXGroups
    \/ ReadDataAcquisitions \/ ReadMainMenuItems \/ ReadStateFormatters \/ ReadStrings
    \/ ReadNumericFormatters \/ ReadDataMenus \/ ReadTXItems

Loaded == stage = "loaded"

-------------------------------------------------------------------------------
(* What the rest of the program asks of the database *)

GetValueOrNull(name, i) == IF i \in DOMAIN db[name] THEN db[name][i] ELSE Null

NoText == Null      \* shown as "(BARF)"

Text(i) ==
    LET resource == GetValueOrNull("Resources", i)
    IN IF resource = Null THEN NoText ELSE resource.ResourceString

\* the ids of GetModules, in the order in which they were put in
GetModules ==
    [k \in 1 .. tables[1].rowCount |-> AsNumber(Cell(0, k - 1, 0))]

\* Module.TXItems, TXItem.Function, Function.LinkedFunctions; any may be Null
TXItemsOf(module) == {GetValueOrNull("TXItems", i) : i \in ToSet(module.TXItemIDs)}
FunctionOf(item) == GetValueOrNull("Functions", item.FunctionID)
LinkedFunctions(function) == {GetValueOrNull("Functions", i) : i \in ToSet(function.LinkedFunctionIDs)}

\* for a module without a missing item
GetModuleFunctionsWithoutTX(module) ==
    LET own == {FunctionOf(item) : item \in TXItemsOf(module)} \ {Null}
    IN UNION {LinkedFunctions(f) : f \in own} \ own

-------------------------------------------------------------------------------
WithoutItems(groups) ==
    [i \in DOMAIN groups |-> [ModuleTypeID |-> groups[i].ModuleTypeID, Order |-> groups[i].Order]]

\* What was written is read, from both formats: order of bytes, columns left
\* out and moved up, links and texts (Database.cs:219-568, Table.cs:16-106).
\* The exception are the items of the groups, which are not read at all:
\* ReadTXGroups goes over the table of the groups where it should go over that
\* of their items (Database.cs:445).
LoadedAsStored ==
    Loaded =>
        /\ \A d \in Dictionaries \ {"TXGroups"} :
            db[d] = Content[IF d = "Resources" /\ isStarScanDB THEN "Texts" ELSE d]
        /\ WithoutItems(db["TXGroups"]) = WithoutItems(Content["TXGroups"])
===============================================================================
