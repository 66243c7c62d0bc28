---------------------------- MODULE MCModuleScan ----------------------------
(* Instances of ModuleScan for TLC: a database, written out as a file in    *)
(* both formats, and vehicles.                                              *)
EXTENDS ModuleScan, Formatting, DatabaseFile

\* clicks are alike
Clicks == Permutations(Tasks)

-------------------------------------------------------------------------------
(* Columns of 1, 2 and 4 bytes and of none; floats, texts, conversions *)

Z == [size |-> 0, as |-> "number"]
N1 == [size |-> 1, as |-> "number"]
N2 == [size |-> 2, as |-> "number"]
N4 == [size |-> 4, as |-> "number"]
F == [size |-> 4, as |-> "float"]
C == [size |-> 6, as |-> "conversion"]
R(n) == [size |-> n, as |-> "raw"]
Table(cols, rows) == [cols |-> cols, rows |-> rows]
NoRows == Table(<<N1>>, <<>>)

\* the text of a resource
Word(i) == <<64 + i, 65>>

Kind == <<0, 1, 2, 4, 6, 7, 8, 9, 10, 12, 14, 17>>

MCTables == <<
    \* 0-3: modules, menus, binary formatters, functions
    Table(<<N2, Z, N1, N1, Z, N2>>, <<<<101, 0, 9, 1>>, <<4131, 4, 9, 3>>, <<102, 0, 9, 2>>,
        <<4014, 7, 9, 3>>, <<4054, 10, 9, 9>>, <<4106, 2, 9, 3>>, <<103, 0, 9, 9>>, <<4106, 2, 8, 4>>>>),
    Table(<<N1, N2>>, <<<<1, 3>>, <<2, 4>>, <<4, 5>>>>),
    Table(<<N2, N2, Z, N2>>, <<<<300, 4, 3>>, <<301, 4, 99>>>>),
    Table(<<N2, N1, N2, N1, N1>>, <<<<500, 0, 3, 1, 1>>, <<501, 0, 4, 2, 4>>, <<502, 0, 5, 3, 1>>>>),
    \* 4-7: scalers, kinds of modules, groups
    Table(<<N2, N2, N1>>, <<<<20, 6, 48>>, <<21, 6, 57>>, <<22, 513, 62>>, <<23, 5, 61>>, <<24, 5, 7>>>>),
    Table(<<N2, F, F>>, <<<<258, <<1, 2, 3, 4>>, <<5, 6, 7, 8>>>>>>),
    Table(<<N1, N2, Z, N1, N1>>, [k \in DOMAIN Kind |-> <<k, 3, 7, Kind[k]>>]),
    Table(<<N2, N1, N2>>, <<<<600, 2, 513>>>>),
    \* 8-11: methods, main menu, items of modules, links of functions
    Table(<<N2, N1, N1, N1, N1, N1, N1, N1, N1, N1, N1>>, <<<<700, 2, 0, 3, 0, 1, 1, 0, 0, 0, 60>>>>),
    Table(<<N2, N2, N2, N1, N1>>, <<<<800, 0, 3, 1, 5>>, <<801, 800, 4, 2, 6>>>>),
    Table(<<N2, Z, N2>>, <<<<101, 900>>, <<4131, 901>>, <<4131, 999>>, <<4014, 902>>, <<101, 901>>,
                           <<4106, 900>>, <<7, 900>>>>),
    Table(<<N2, N2>>, <<<<500, 501>>, <<502, 599>>, <<501, 500>>, <<502, 502>>>>),
    \* 12-18: states, texts, numeric formatters, items of groups
    NoRows, NoRows, NoRows,
    Table(<<N2, N2, N1, N2>>, <<<<3, 0, 1, 400>>, <<4, 1, 1, 400>>, <<5, 1, 1, 401>>>>),
    Table(<<N2, N4, Z, N1, R(3)>>, <<<<1, 0, 7, <<80, 49, 50>>>>, <<2, 3, 7, <<0, 0, 0>>>>,
        <<3, 6, 7, <<0, 0, 0>>>>, <<4, 2^24, 7, <<0, 0, 0>>>>, <<5, 2^24 + 3, 7, <<80, 49, 51>>>>>>),
    Table(<<N2, N1, F, N2, F, N1, N2>>, <<<<450, 0, <<1, 1, 1, 1>>, 4, <<2, 2, 2, 2>>, 0, 5>>,
        <<451, 0, <<0, 0, 0, 0>>, 99, <<0, 0, 0, 1>>, 0, 99>>>>),
    Table(<<N2, N2>>, <<<<600, 900>>, <<600, 901>>>>),
    \* 19-23: data menus, items
    Table(<<N2, N2>>, <<<<101, 650>>>>),
    Table(<<N2, N2>>, <<<<650, 600>>>>),
    Table(<<N2, N1, N2, N1>>, <<<<650, 2, 5, 1>>>>),
    Table(<<N2, N2>>, <<<<650, 501>>, <<650, 500>>>>),
    Table(<<N2, C, N2, N2, N1, N1, R(4), N1, N2, N1, N1, N1, N1, N2, N1>>, <<
        <<900, <<0, 300, 20>>, 700, 500, 1, 0, <<2, 20, 240, 0>>, 0, 3, 0, 0, 0, 0, 5, 2>>,
        <<901, <<17, 450, 258>>, 700, 599, 2, 0, <<0, 1, 1, 1>>, 0, 4, 0, 0, 0, 0, 5, 2>>,
        <<902, <<32, 400, 21>>, 700, 502, 4, 0, <<3, 1, 2, 3>>, 0, 5, 0, 0, 0, 0, 5, 2>>,
        <<903, <<18, 451, 0>>, 700, 0, 4, 0, <<3, 1, 2, 3>>, 0, 5, 0, 0, 0, 0, 5, 2>>,
        <<904, <<32, 401, 24>>, 700, 0, 4, 0, <<3, 1, 2, 3>>, 0, 5, 0, 0, 0, 0, 5, 2>>,
        <<905, <<0, 301, 23>>, 700, 0, 4, 0, <<3, 1, 2, 3>>, 0, 5, 0, 0, 0, 0, 5, 2>>>>),
    \* 24-27: the texts
    NoRows, NoRows,
    Table(<<R(9)>>, <<<<Word(1) \o <<0>> \o Word(2) \o <<0>> \o Word(3) \o <<0>>>>>>),
    Table(<<R(6)>>, <<<<Word(4) \o <<0>> \o Word(5) \o <<0>>>>>>)>>

-------------------------------------------------------------------------------
(* The file *)

Little(v, n) == [k \in 1 .. n |-> (v \div 256^(k - 1)) % 256]
Big(v, n) == Reverse(Little(v, n))
Num(f, v, n) == IF f = "DRB" THEN Big(v, n) ELSE Little(v, n)

Encode(f, col, v) ==
    CASE col.as = "number" -> Num(f, v, col.size)
      [] col.as = "float" -> IF f = "DRB" THEN v ELSE Reverse(v)
      [] col.as = "conversion" -> <<v[1], 0>> \o Num(f, v[2], 2) \o Num(f, v[3], 2)
      [] OTHER -> v

Full(cols) == SelectSeq(cols, LAMBDA col : col.size > 0)
RowBytes(f, cols, row) == FlattenSeq([c \in DOMAIN row |-> Encode(f, Full(cols)[c], row[c])])
TableBytes(f) ==
    [k \in DOMAIN MCTables |->
        FlattenSeq([r \in DOMAIN MCTables[k].rows |-> RowBytes(f, MCTables[k].cols, MCTables[k].rows[r])])]
Total(s) == FoldLeft(LAMBDA sum, x : sum + x, 0, s)

Header(f) ==
    LET bytes == TableBytes(f)
        lengths == [k \in DOMAIN bytes |-> Len(bytes[k])]
        entry(k) ==
            LET cols == MCTables[k].cols
                sizes == [c \in DOMAIN cols |-> cols[c].size]
            IN Little(8 + 36 * Len(MCTables) + Total(SubSeq(lengths, 1, k - 1)), 4)
               \o Little(Len(MCTables[k].rows), 2) \o Little(Total(sizes), 2)
               \o <<Len(cols)>> \o sizes \o [c \in 1 .. 27 - Len(cols) |-> 255]
    IN Little(4711, 4) \o <<0, 0>> \o Little(Len(MCTables), 2)
       \o FlattenSeq([k \in DOMAIN MCTables |-> entry(k)])

Trailer(f) ==
    (IF f = "DRB" THEN <<0, 0, 0, 0, 0, 0, 0, 0>> ELSE <<83, 84, 65, 82, 83, 67, 65, 78>>)
    \o [k \in 1 .. 15 |-> 0]

File(f) == Header(f) \o FlattenSeq(TableBytes(f)) \o Trailer(f)
MCFiles == {File("DRB"), File("STARSCAN")}

-------------------------------------------------------------------------------
(* What was written, by name *)

NoObd == <<0, 0, 0>>
Resource(i, obd) == [ResourceString |-> Word(i), OBDCode |-> obd]
Display(type, formatter, scaler) ==
    [ConversionScalingType |-> type % 16, ConversionFormatterType |-> type \div 16,
     ConversionFormatterID |-> formatter, ConversionScalingID |-> scaler]
Item(i, function, menu, name, bytes, display) ==
    [ID |-> i, DataAcquisitionID |-> 700, FunctionID |-> function, ModuleMenuID |-> menu,
     NameID |-> name, ModuleTypeID |-> 2, TransmitBytes |-> bytes, DataDisplay |-> display]
Mod(i, kind, name, items, menus) ==
    [ID |-> i, ModuleTypeID |-> kind, NameID |-> name, TXItemIDs |-> items, DataMenuItemIDs |-> menus]
Func(i, name, order, menu, links) ==
    [ID |-> i, NameID |-> name, Order |-> order, ModuleMenuID |-> menu, LinkedFunctionIDs |-> links]

MCContent == [
    Modules |-> 101 :> Mod(101, 0, 1, <<900, 901>>, <<650>>) @@ 4131 :> Mod(4131, 4, 3, <<901, 999>>, <<>>)
        @@ 102 :> Mod(102, 0, 2, <<>>, <<>>) @@ 4014 :> Mod(4014, 7, 3, <<902>>, <<>>)
        @@ 4054 :> Mod(4054, 10, 9, <<>>, <<>>) @@ 4106 :> Mod(4106, 2, 4, <<900>>, <<>>)
        @@ 103 :> Mod(103, 0, 9, <<>>, <<>>),
    ModuleMenuItems |-> 1 :> [ID |-> 1, NameID |-> 3] @@ 2 :> [ID |-> 2, NameID |-> 4]
        @@ 4 :> [ID |-> 4, NameID |-> 5],
    BinaryFormatters |-> 300 :> [TrueStringID |-> 4, FalseStringID |-> 3]
        @@ 301 :> [TrueStringID |-> 4, FalseStringID |-> 99],
    Functions |-> 500 :> Func(500, 3, 1, 1, <<501, 501>>) @@ 501 :> Func(501, 4, 2, 4, <<500, 500>>)
        @@ 502 :> Func(502, 5, 3, 1, <<599, 502, 502>>),
    StateScalers |-> 20 :> [Mask |-> 6, Operator |-> 48] @@ 21 :> [Mask |-> 6, Operator |-> 57]
        @@ 22 :> [Mask |-> 513, Operator |-> 62] @@ 23 :> [Mask |-> 5, Operator |-> 61]
        @@ 24 :> [Mask |-> 5, Operator |-> 0],
    NumericScalers |-> 258 :> [Slope |-> <<1, 2, 3, 4>>, Offset |-> <<5, 6, 7, 8>>],
    ModuleTypes |-> [k \in ToSet(Kind) |->
        [ID |-> CHOOSE i \in DOMAIN Kind : Kind[i] = k, TypeID |-> k, NameID |-> 3]],
    TXGroups |-> 600 :> [ModuleTypeID |-> 2, Order |-> 513, TXItemIDs |-> <<900, 901>>],
    DataAcquireMethods |-> 700 :> [RequestLen |-> 2, ResponseLen |-> 3, ExtractOffset |-> 1,
                                   ExtractLen |-> 1, Protocol |-> 60],
    MainMenuItems |->
        800 :> [ParentID |-> 0, NameID |-> 3, Order |-> 1, ScreenYPosition |-> 5]
        @@ 801 :> [ParentID |-> 800, NameID |-> 4, Order |-> 2, ScreenYPosition |-> 6],
    StateFormatters |-> 400 :> [StateIDs |-> <<<<0, 3>>, <<1, 4>>>>] @@ 401 :> [StateIDs |-> <<<<1, 5>>>>],
    Resources |-> 1 :> Resource(1, <<80, 49, 50>>) @@ 2 :> Resource(2, NoObd) @@ 3 :> Resource(3, NoObd)
        @@ 4 :> Resource(4, NoObd) @@ 5 :> Resource(5, <<80, 49, 51>>),
    Texts |-> [i \in 1 .. 5 |-> Resource(i, <<>>)],
    NumericFormatters |->
        450 :> [EnglishUnitNameID |-> 5, MetricUnitNameID |-> 4, MetricConversionSlope |-> <<1, 1, 1, 1>>,
                MetricConversionOffset |-> <<2, 2, 2, 2>>]
        @@ 451 :> [EnglishUnitNameID |-> 99, MetricUnitNameID |-> 99,
                   MetricConversionSlope |-> <<0, 0, 0, 0>>, MetricConversionOffset |-> <<0, 0, 0, 1>>],
    DataMenuItems |-> 650 :> [ModuleTypeID |-> 2, NameID |-> 5, Order |-> 1, TXGroupIDs |-> <<600>>,
                              FunctionIDs |-> <<501, 500>>],
    TXItems |-> 900 :> Item(900, 500, 1, 3, <<20, 240>>, Display(0, 300, 20))
        @@ 901 :> Item(901, 599, 2, 4, <<>>, Display(17, 450, 258))
        @@ 902 :> Item(902, 502, 4, 5, <<1, 2, 3>>, Display(32, 400, 21))
        @@ 903 :> Item(903, 0, 4, 5, <<1, 2, 3>>, Display(18, 451, 0))
        @@ 904 :> Item(904, 0, 4, 5, <<1, 2, 3>>, Display(32, 401, 24))
        @@ 905 :> Item(905, 0, 4, 5, <<1, 2, 3>>, Display(0, 301, 23))]

\* two of three bits, none of them; a unit; no scaler; no state; no text
MCExpected ==
    LET shows(i, byte, text, number) == [item |-> i, raw |-> <<byte>>, shows |-> Shows(text, number)]
        float == Float(7, <<1, 2, 3, 4>>, <<5, 6, 7, 8>>)
    IN {shows(900, 1, Word(4), <<>>), shows(900, 3, Word(3), <<>>), shows(902, 2, Word(4), <<>>),
        shows(902, 8, Word(3), <<>>), shows(901, 7, Word(5), <<float>>),
        shows(903, 7, <<>>, <<Integer(0)>>), shows(904, 5, <<>>, <<>>), shows(905, 5, NoText, <<>>)}

\* The stored database and the layout of both files, for DatabaseFile
Cells(cols, row) ==
    LET full == Full(cols)
        bytes(c) == IF full[c].as = "conversion" THEN Encode("STARSCAN", full[c], row[c])
                    ELSE Encode("DRB", full[c], row[c])
    IN [c \in 0 .. Len(row) - 1 |-> bytes(c + 1)]
MCStored ==
    [tables |-> [t \in 0 .. Len(MCTables) - 1 |->
        LET table == MCTables[t + 1]
        IN [r \in 0 .. Len(table.rows) - 1 |-> Cells(table.cols, table.rows[r + 1])]],
     texts |-> [r \in 0 .. 4 |-> Word(r + 1)]]
MCLayout ==
    LET sizes(cols) == [c \in DOMAIN cols |-> cols[c].size]
        lengths == [k \in DOMAIN MCTables |-> Len(MCTables[k].rows) * Total(sizes(MCTables[k].cols))]
        begin(cols, c) == Total(SubSeq(sizes(Full(cols)), 1, c - 1))
    IN [k \in DOMAIN MCTables |->
        LET cols == MCTables[k].cols
        IN [offset |-> 8 + 36 * Len(MCTables) + Total(SubSeq(lengths, 1, k - 1)),
            rowCount |-> Len(MCTables[k].rows), rowSize |-> Total(sizes(cols)), sizes |-> sizes(cols),
            starts |-> [c \in DOMAIN Full(cols) |-> begin(cols, c)]]]

\* What the theorem about loading assumes is so here: both files hold one
\* database, and the content that was written out by hand is its content.
ASSUME MCFilesHold ==
    /\ \A file \in MCFiles : HoldsAs(file, MCLayout, MCStored)
    /\ MCContent = ContentOf(MCStored)

-------------------------------------------------------------------------------
(* Vehicles: old engine controllers at either position, or a new one; body  *)
(* controllers on CCD, on J1850, with a theft module, with a premium level  *)

Name(sizes, styles, years, types, marks) ==
    [sizes |-> sizes, styles |-> styles, years |-> years, types |-> types, marks |-> marks]
MCNames == [w \in {Word(i) : i \in 1 .. 5} |->
    IF w = Word(1) THEN Name({39, 52}, {"AN"}, {96}, {"JTEC"}, {})
    ELSE IF w = Word(2) THEN Name({59}, {}, {}, {}, {"DIESEL"}) ELSE Name({}, {}, {}, {}, {})]

Old(year, size, style) ==
    [generation |-> "SBECII", year |-> year, size |-> size, manufacturer |-> 6, style |-> style]
New(year, size, type, style) ==
    [generation |-> "SBECIII", year |-> year, size |-> size, type |-> type, style |-> style]
Vehicle(a, b, ccd, pci, theft, climate, bus, model) ==
    [sci |-> [A |-> a, B |-> b], ccd |-> ccd, pci |-> pci, theft |-> theft, climate |-> climate,
     radio |-> [bus |-> bus, model |-> model]]
Body(style, year, level) == [style |-> style, year |-> year, level |-> level]

MCCars == {
    Vehicle(New(6, 5, 6, 13), Old(2, 6, 1), Body(8, 150, 0), Null, {}, {}, "CCD", "RAZ"),
    Vehicle(Null, New(6, 5, 6, 13), Body(1, 155, 2), Body(8, <<32, 1>>, 0), {"CCD"}, {}, "J1850", "RBN"),
    Vehicle(Old(3, 6, 0), Null, Null, Body(13, <<32, 2>>, 0), {"J1850"}, {"J1850"}, "CCD", "XXX")}
=============================================================================
