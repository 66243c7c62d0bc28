------------------------------ MODULE Formatting ------------------------------
(***************************************************************************)
(* What DataDisplay makes of the bytes of a reading, with the scalers and  *)
(* formatters of the loaded database.  A scaled value is an integer, or a  *)
(* product and sum with floats, kept as it is written down; what is shown  *)
(* is a text of the database or such a value with its unit.                *)
(***************************************************************************)
EXTENDS DrbDatabase, Bitwise

CONSTANT
    Expected    \* readings of items of the content, and what they mean

Shows(text, number) == [text |-> text, number |-> number]
NotAvailable == Shows(<<>>, <<>>)

Integer(n) == [data |-> n, slope |-> <<>>, offset |-> <<>>]
Float(n, slope, offset) == [data |-> n, slope |-> slope, offset |-> offset]

\* DRB: the first byte is the lowest.  StarSCAN: the last is, and the first is
\* never looked at.
RawIntData(raw) ==
    CASE Len(raw) = 1 -> raw[1]
      [] Len(raw) # 1 /\ isStarScanDB -> LittleEndian(Reverse(Tail(raw)))
      [] OTHER -> LittleEndian(raw)

\* mutant: the mask may be met in part or not at all
EvaluateAnyMask(scaler, data) == scaler.Operator \in {48, 57}

EvaluateMask(scaler, data) ==
    LET mask == scaler.Mask
    IN \/ scaler.Operator = 61 /\ data = mask
       \/ scaler.Operator = 33 /\ data # mask
       \/ scaler.Operator = 62 /\ data > mask
       \/ scaler.Operator = 60 /\ data < mask
       \/ scaler.Operator = 48 /\ (data & mask) = 0
       \/ scaler.Operator = 57 /\ (data & mask) # 0

\* DataScaler.ScaleData; without a scaler the value is 0
ScaleData(display, raw) ==
    LET type == display.ConversionScalingType
        scaler == GetValueOrNull(IF type = 0 THEN "StateScalers" ELSE "NumericScalers",
                                 display.ConversionScalingID)
    IN CASE type \notin {0, 1} \/ scaler = Null -> Integer(0)
         [] type = 0 /\ scaler # Null -> Integer(IF EvaluateMask(scaler, RawIntData(raw)) THEN 1 ELSE 0)
         [] OTHER -> Float(RawIntData(raw), scaler.Slope, scaler.Offset)

\* A float does not touch the integer beside it, which stays 0.
IntOf(value) == IF value.slope = <<>> THEN value.data ELSE 0

FormatBinary(formatter, value) ==
    IF NoText \in {Text(formatter.TrueStringID), Text(formatter.FalseStringID)} THEN Shows(NoText, <<>>)
    ELSE Shows(Text(IF IntOf(value) # 0 THEN formatter.TrueStringID ELSE formatter.FalseStringID), <<>>)

FormatNumeric(formatter, value) ==
    LET unit == Text(formatter.EnglishUnitNameID)
    IN Shows(IF unit = NoText THEN <<>> ELSE unit, <<value>>)

\* the first state with that value
FormatState(formatter, value) ==
    LET states == formatter.StateIDs
        hits == {k \in DOMAIN states : states[k][1] = IntOf(value)}
    IN IF hits = {} THEN NotAvailable ELSE Shows(Text(states[Min(hits)][2]), <<>>)

FormatData(display, raw) ==
    LET type == display.ConversionFormatterType
        name == CASE type = 0 -> "BinaryFormatters" [] type = 1 -> "NumericFormatters"
                  [] OTHER -> "StateFormatters"
        formatter == GetValueOrNull(name, display.ConversionFormatterID)
        value == ScaleData(display, raw)
    IN CASE type \notin 0 .. 2 \/ formatter = Null -> Shows(<<>>, <<value>>)
         [] type = 0 /\ formatter # Null -> FormatBinary(formatter, value)
         [] type = 1 /\ formatter # Null -> FormatNumeric(formatter, value)
         [] OTHER -> FormatState(formatter, value)

-------------------------------------------------------------------------------
\* A reading of one byte is shown as the scaler and the formatter stored for its
\* item have it, in both formats (DataDisplay.cs:104-149, Objects/*.cs).
ShownAsStored ==
    Loaded => \A x \in Expected :
        FormatData(GetValueOrNull("TXItems", x.item).DataDisplay, x.raw) = x.shows
===============================================================================
