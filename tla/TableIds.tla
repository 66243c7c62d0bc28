------------------------------- MODULE TableIds -------------------------------
(***************************************************************************)
(* TableIDUtility.cs and StaticConverters.cs: the codes that a vehicle     *)
(* answers with, turned into names, and the names of a vehicle turned into *)
(* the database's id of its module; 0 if there is none.                    *)
(*                                                                         *)
(* A year is the pair of bytes that its four digits are printed from; they *)
(* are hexadecimal digits.  An engine size is a pair of its tenths of a    *)
(* litre and its shape.                                                    *)
(***************************************************************************)
EXTENDS Integers, Sequences, FiniteSets, FiniteSetsExt

Barf == "(BARF)"    \* what the converters make of an unknown code
Undecimal == -1     \* int.Parse throws

-------------------------------------------------------------------------------
(* StaticConverters *)

\* enumerations whose items have the values from first onwards
Enumeration(first, names) ==
    [v \in first .. first + Len(names) - 1 |-> names[v - first + 1]]

RunConversionAndGetResult(enumeration, unknown, value) ==
    IF value \in DOMAIN enumeration THEN enumeration[value] ELSE unknown

BodyStyle_SBECIII_JTEC == Enumeration(1,
    <<"YJ", "XJ", "ZJ", "FJ", "PL", "JA", "AA", "AC", "AS", "LH", "NS", "AB", "AN", "BR", "SR",
      "AN", "AN", "JX", "PR", "TJ", "DN", "WJ", "SJ", "JR", "PT", "RS", "KJ", "DR", "AN84", "ZB">>)

EngineSize_SBECIII_JTEC == Enumeration(1,
    <<<<22, "I4">>, <<25, "I4">>, <<30, "V6">>, <<33, "V6">>, <<39, "V6">>, <<52, "V8">>,
      <<59, "V8">>, <<38, "V6">>, <<40, "I6">>, <<20, "I4">>, <<35, "V6">>, <<80, "V10">>,
      <<24, "I4">>, <<25, "I4">>, <<25, "V6">>, <<20, "I4">>, <<25, "V6">>, <<59, "I6">>,
      <<33, "V6">>, <<27, "V6">>, <<32, "V6">>, <<18, "I4">>, <<37, "V6">>, <<47, "V8">>,
      <<19, "I4">>, <<31, "I5">>, <<16, "I4">>, <<27, "V6">>, <<57, "V8">>, <<83, "V10">>,
      <<27, "I5">>, <<28, "I4">>>>)

EngineControllerType_SBECIII_JTEC == Enumeration(1,
    <<"FCC", "SBEC/SBECII", "SBEC/SBECII", "SBEC/SBECII", "SBECIII", "JTEC", "SBECIIIA", "SBECIII+",
      "CM551", "Bosch", "Northrop", "JTEC+", "JTEC", "JTEC+", "Bosch", "Bosch", "Siemens",
      "SBECIIIA+", "SBECIIIB", "JTEC", "CM845", "CM846", "Cummins", "CM848", "Bosch">>)

EngineSize_SBECII == Enumeration(0,
    <<<<22, "I4">>, <<25, "I4">>, <<30, "V6">>, <<33, "V6">>, <<39, "V6">>, <<52, "V8">>,
      <<59, "">>, <<38, "V8">>, <<40, "I6">>, <<20, "I4">>, <<35, "V6">>, <<80, "V10">>,
      <<24, "I4">>, <<20, "I4">>>>)

\* an engine size that no item of a converter has
NoSize == <<0, "">>

BodyStyle_BCM_CCD == Enumeration(1,
    <<"NS", "S Diesel", "GS", "YJ", "ZJ", "T300", "XJ", "AN", "LH", "JA", "LX", "JX">>)

BodyStyle_BCM_PCI == Enumeration(1,
    <<"RS", Barf, "RG", "TJ", "ZJ", "DR", "KJ", "AN", "LH", "JR", "LX", "JX", "WJ", "DN", "ANS4",
      "PL41", "PL44", "PT", "RS EV", Barf, "AB">>)

BodyControllerType == Enumeration(0, <<"Base", "Mid", "Premium">>)

\* BodyStyle_SBECII: items that have a bit and no value.  IsMatch compares the
\* masked code with the bit's number, not with the mask.
BodyStyle_SBECII(code) ==
    LET items == <<<<0, "YJ">>, <<1, "XJ">>, <<2, "ZJ">>, <<9, "FJ">>, <<10, "PL">>, <<11, "JA">>,
                   <<12, "AA">>, <<13, "AC">>, <<14, "AS">>, <<15, "LH">>, <<16, "AB">>,
                   <<17, "AN">>, <<18, "BR">>, <<19, "SR">>>>
        masked(bit) == ((code \div 2^bit) % 2) * 2^bit
        matches == {k \in DOMAIN items : masked(items[k][1]) = items[k][1]}
    IN IF matches = {} THEN Barf ELSE items[Min(matches)][2]

-------------------------------------------------------------------------------
(* Years *)

Digits(byte) ==
    IF byte % 16 <= 9 /\ byte \div 16 <= 9 THEN 10 * (byte \div 16) + (byte % 16) ELSE Undecimal

Number(year) ==
    IF Digits(year[1]) = Undecimal \/ Digits(year[2]) = Undecimal THEN Undecimal
    ELSE 100 * Digits(year[1]) + Digits(year[2])

\* int.Parse(year) >= first ? new : old
Since(year, first, new, old) ==
    IF Number(year) = Undecimal THEN Undecimal ELSE IF Number(year) >= first THEN new ELSE old

\* year.StartsWith("200")
In200x(year) == year[1] = 32 /\ year[2] < 16

-------------------------------------------------------------------------------
(* Get_..._Table_ID, a row of a table for each case *)

Row(table, key) == IF key \in DOMAIN table THEN table[key] ELSE 0

VTSS_Table_ID(year, style, isImmob) ==
    LET ja == IF isImmob THEN 4128 ELSE 4126
    IN Row([JA |-> ja, JX |-> ja, ZJ |-> 4127, TJ |-> 4128, ZG |-> 4129, VIPER |-> 4130,
            AN |-> 4131, AB |-> 4131, DN |-> 4131, BR |-> 4131, BE |-> 4131,
            XJ |-> IF isImmob THEN 4132 ELSE 4136,
            PROWLER |-> IF In200x(year) THEN 4134 ELSE 4133,
            LH |-> 4135, NS |-> 4137, GS |-> 4138, WJ |-> 4139, PL |-> 4140, PT |-> 4140,
            ITM |-> 4273, THATC |-> 4306], style)

AirTempControl_Table_ID(style) ==
    Row([ZJ |-> 4155, LH |-> 4156, WJ |-> 4157, RS |-> 4158, JR |-> 4288, CS |-> 4329], style)

MIC_Table_ID(style, year, bus) ==
    LET byBus(pci, other) == IF bus = "J1850" THEN pci ELSE other
    IN Row([JA |-> 1495, JX |-> 1495, NS |-> 1496, GS |-> 1496, ZJ |-> 1497,
            TJ |-> byBus(4212, 1498), AN |-> byBus(4014, 1499), XJ |-> 1500, PR |-> 1501,
            WJ |-> Since(year, 2002, 4301, 4007), LH |-> 4008, DN |-> byBus(4014, 4009),
            AB |-> 4010, BR |-> 4011, BE |-> 4012, PL |-> Since(year, 2002, 4298, 4013),
            JR |-> 4016, RS |-> 4017, RG |-> 4017, PT |-> Since(year, 2002, 4298, 4018),
            KJ |-> 4259, DR |-> 4271, WG |-> 4301, ZB |-> 4314, CS |-> 4331], style)

OTIS_Table_ID(style) == IF style = "LH" THEN 4055 ELSE 0

CompassMiniTrip_Table_ID(style, bus) ==
    LET an == IF bus = "J1850" THEN 4054 ELSE 4050
    IN Row([ZJ |-> 4047, PR |-> 4048, NS |-> 4049, GS |-> 4049, AN |-> an, DN |-> an, XJ |-> 4051,
            TJ |-> 4052, BR |-> 4052, BE |-> 4052, DR |-> 4285, KJ |-> 4285, LH |-> 4285,
            RS |-> 4308, RG |-> 4308], style)

\* The two callbacks are requests to the vehicle; these cases make them.
AsksTheft(style, level) ==
    style \in {"LH", "WJ", "ZJ"} \/ (level = "Premium" /\ style \in {"JA", "JX", "NS", "GS", "RS", "RG"})
AsksClimate(style) == style = "WJ"

Body_Table_ID(year, style, level, theft, climate) ==
    LET ns == CASE level = "Premium" -> IF theft THEN 4122 ELSE 4121
                [] level = "Mid" -> 4120
                [] OTHER -> 4119
        rs == CASE level = "Premium" -> IF theft THEN 4210 ELSE 4209
                [] level = "Mid" -> 4208
                [] OTHER -> 4207
        ja(base, plain, alarmed) == IF level # "Premium" THEN base ELSE IF theft THEN alarmed ELSE plain
    IN Row([LH |-> IF theft THEN 4098 ELSE 4101,
            WJ |-> IF theft THEN (IF climate THEN 4104 ELSE 4105) ELSE (IF climate THEN 4103 ELSE 4102),
            AN |-> Since(year, 2001, 4125, 4106), AB |-> 4107, BR |-> 4108, BE |-> 4108,
            DN |-> Since(year, 2001, 4125, 4109), ZJ |-> IF theft THEN 4111 ELSE 4110,
            JA |-> ja(4112, 4113, 4114), JX |-> ja(4116, 4117, 4118),
            PROWLER |-> IF In200x(year) THEN 4115 ELSE 4123,
            NS |-> ns, GS |-> ns, RS |-> rs, RG |-> rs,
            JR |-> CASE level = "Premium" -> 4206 [] level = "Mid" -> 4205 [] OTHER -> 4204,
            KJ |-> 4272, ZB |-> IF year = <<32, 8>> THEN 4397 ELSE 4313, CS |-> 4328], style)

Radio_Table_ID(model, bus) ==
    LET byBus(pci, other) == IF bus = "J1850" THEN pci ELSE other
    IN Row([RBC |-> 4032, RBR |-> 4032, RAD |-> 4033, RAZ |-> byBus(4035, 4034),
            RBN |-> byBus(4037, 4036), RBL |-> 4038, RBJ |-> 4039, RBA |-> 4041, RBT |-> 4042,
            RBY |-> 4043, RBB |-> 4044, RBP |-> 4045, RAS |-> 4046, RBU |-> 4292, RBK |-> 4293,
            RB1 |-> 4343, RB3 |-> 4351, REV |-> 4363, RAH |-> 4364, RBQ |-> 4368], model)

MemorySeat_Table_ID(style, year) ==
    Row([ZJ |-> 4174, LH |-> 4175, WJ |-> 4176, RS |-> Since(year, 2005, 4354, 4177),
         CS |-> Since(year, 2005, 4354, 4333), R2 |-> 4403], style)

VehicleInfoCenter_Table_ID(style, year) ==
    Row([ZJ |-> 4056, WJ |-> Since(year, 2001, 4243, 4057), RS |-> 4241, RG |-> 4241, LH |-> 4242,
         AN |-> 4304, DN |-> 4304, DR |-> 4304, CS |-> Since(year, 2007, 4370, 4319), KJ |-> 4324],
        style)

-------------------------------------------------------------------------------
(* Engines: the modules of the database are told apart by what their names  *)
(* mention.  A name is the sizes, the styles, the years (two digits) and    *)
(* the controllers among its words, and the marks found anywhere in it.     *)

TestEngineModuleQualifiers(name, size, year, style, type) ==
    LET pl == "18PL" \in name.marks
        sizes == name.sizes \cup (IF pl THEN {18} ELSE {})
        styles == name.styles \cup (IF pl THEN {"PL"} ELSE {})
        shape == IF "V6" \in name.marks THEN "V6" ELSE IF "V10" \in name.marks THEN "V10" ELSE size[2]
        fits(s) == IF s = 59 THEN size = <<59, IF "DIESEL" \in name.marks THEN "I6" ELSE "V8">>
                             ELSE size = <<s, shape>>
        points == {w \in {"V6", "V10"} : sizes = {} /\ w \in name.marks /\ w = size[2]}
                  \cup {w \in {"size"} : sizes # {}} \cup {w \in {"style"} : styles # {}}
                  \cup {w \in {"type"} : type \in name.types}
                  \cup {w \in {"year"} : year % 100 \in name.years}
    IN IF (sizes # {} /\ \A s \in sizes : ~fits(s)) \/ (styles # {} /\ style \notin styles)
       THEN 0 ELSE Cardinality(points)

\* the first of the best; modules is a sequence of ids, names their names
Engine_Table_ID(modules, names, size, year, style, type) ==
    LET score(k) == TestEngineModuleQualifiers(names[modules[k]], size, year, style, type)
        best == {k \in DOMAIN modules : score(k) > 0 /\ \A j \in DOMAIN modules : score(j) <= score(k)}
    IN IF best = {} THEN 0 ELSE modules[Min(best)]
===============================================================================
