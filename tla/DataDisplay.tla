----------------------------- MODULE DataDisplay -----------------------------
(***************************************************************************)
(* DataDisplay.cs: the value of an item on its way from the query thread   *)
(* to the screen.  The query thread sets RawData; the user interface gets  *)
(* FormattedData when the flag says that there is something new.  Neither  *)
(* takes a lock, so both are taken apart into their accesses.  What is     *)
(* formatted is told by the bytes that RawIntData read, one by one, from a *)
(* field that may be replaced meanwhile.                                   *)
(***************************************************************************)
EXTENDS Integers, Sequences

CONSTANTS
    Items,      \* items on display
    Readings,   \* for each item the values it may have, sequences of bytes
    None        \* no value yet: null, and "N/A" on the screen

\* All values of an item have its ExtractLen bytes.
ASSUME DisplayAssumption ==
    /\ None \notin Seq(0 .. 255)
    /\ \A i \in Items : \A v, w \in Readings[i] :
        v \in Seq(0 .. 255) /\ v # <<>> /\ Len(v) = Len(w)

VARIABLES
    prompt,     \* chosen once: a getter is done before the next setter begins
    raw,        \* rawData of each item
    flag,       \* isRawDataUpdated of each item
    formatted,  \* formattedData of each item, by the bytes it was made of
    prev,       \* history, kept if prompt: the last different value of rawData
    setter,     \* where the query thread is in the setter, of which item
    getter      \* where the user interface is in the getter, of which item

fields == <<raw, flag, formatted, prev>>
displayVars == <<prompt, fields, setter, getter>>

Idle == [at |-> "idle"]
Setting(i) == setter.at # "idle" /\ setter.item = i
Getting(i) == getter.at # "idle" /\ getter.item = i

DisplayInit ==
    /\ prompt \in BOOLEAN
    /\ raw = [i \in Items |-> None] /\ prev = raw /\ formatted = raw
    /\ flag = [i \in Items |-> FALSE]
    /\ setter = Idle /\ getter = Idle

-------------------------------------------------------------------------------
(* The setter.  Nobody else writes rawData, so the comparison byte by byte  *)
(* is one step with the write of the flag that it decides on.               *)

\* mutant: the first value raises no flag
FirstValueSilent(i, v) ==
    /\ raw[i] = None
    /\ raw' = [raw EXCEPT ![i] = v]
    /\ UNCHANGED <<flag, setter>>

FirstValue(i, v) ==
    /\ raw[i] = None
    /\ raw' = [raw EXCEPT ![i] = v]
    /\ setter' = [at |-> "flag", item |-> i]
    /\ UNCHANGED flag

\* mutant: an equal value takes the flag down
CompareLowers(i, v) ==
    /\ raw[i] # None
    /\ flag' = [flag EXCEPT ![i] = v # raw[i]]
    /\ setter' = [at |-> "recheck", item |-> i, value |-> v]
    /\ UNCHANGED raw

Compare(i, v) ==
    /\ raw[i] # None
    /\ flag' = [flag EXCEPT ![i] = @ \/ v # raw[i]]
    /\ setter' = [at |-> "recheck", item |-> i, value |-> v]
    /\ UNCHANGED raw

BeginSet(i, v) ==
    /\ setter = Idle /\ (prompt => getter = Idle)
    /\ FirstValue(i, v) \/ Compare(i, v)
    /\ UNCHANGED <<prompt, formatted, prev, getter>>

RaiseFlag ==
    /\ setter.at = "flag"
    /\ flag' = [flag EXCEPT ![setter.item] = TRUE]
    /\ setter' = Idle
    /\ UNCHANGED <<prompt, raw, formatted, prev, getter>>

Recheck ==
    /\ setter.at = "recheck"
    /\ setter' = IF flag[setter.item] THEN [setter EXCEPT !.at = "store"] ELSE Idle
    /\ UNCHANGED <<prompt, fields, getter>>

Store ==
    /\ setter.at = "store"
    /\ LET i == setter.item  v == setter.value
       IN /\ raw' = [raw EXCEPT ![i] = v]
          /\ prev' = IF prompt /\ v # raw[i] THEN [prev EXCEPT ![i] = raw[i]] ELSE prev
    /\ setter' = Idle
    /\ UNCHANGED <<prompt, flag, formatted, getter>>

SetterStep == RaiseFlag \/ Recheck \/ Store

(* The getter: when the flag is down nothing changes. *)

BeginGet(i) ==
    /\ getter = Idle /\ flag[i]
    /\ getter' = [at |-> "read", item |-> i, seen |-> <<>>]
    /\ UNCHANGED <<prompt, fields, setter>>

\* the next byte, from whatever rawData is by now
ReadByte ==
    /\ getter.at = "read" /\ Len(getter.seen) < Len(raw[getter.item])
    /\ getter' = [getter EXCEPT !.seen = Append(@, raw[getter.item][Len(@) + 1])]
    /\ UNCHANGED <<prompt, fields, setter>>

Show ==
    /\ getter.at = "read" /\ Len(getter.seen) = Len(raw[getter.item])
    /\ formatted' = [formatted EXCEPT ![getter.item] = getter.seen]
    /\ getter' = [getter EXCEPT !.at = "clear"]
    /\ UNCHANGED <<prompt, raw, flag, prev, setter>>

ClearFlag ==
    /\ getter.at = "clear"
    /\ flag' = [flag EXCEPT ![getter.item] = FALSE]
    /\ getter' = Idle
    /\ UNCHANGED <<prompt, raw, formatted, prev, setter>>

GetterStep == ReadByte \/ Show \/ ClearFlag

DisplayNext ==
    \/ \E i \in Items : BeginGet(i) \/ \E v \in Readings[i] : BeginSet(i, v)
    \/ SetterStep \/ GetterStep

DisplaySpec == DisplayInit /\ [][DisplayNext]_displayVars

-------------------------------------------------------------------------------
\* Every field has its type (DataDisplay.cs:65, :102, :155).
DisplayTypeOK ==
    /\ prompt \in BOOLEAN
    /\ flag \in [Items -> BOOLEAN]
    /\ DOMAIN raw = Items /\ DOMAIN prev = Items /\ DOMAIN formatted = Items
    /\ \A i \in Items :
        /\ {raw[i], prev[i]} \subseteq Readings[i] \cup {None}
        /\ formatted[i] = None \/ formatted[i] \in Seq(0 .. 255)
    /\ \/ setter = Idle
       \/ setter \in [at : {"flag"}, item : Items] /\ raw[setter.item] # None
       \/ /\ setter \in UNION {[at : {"recheck", "store"}, item : {i}, value : Readings[i]] : i \in Items}
          /\ raw[setter.item] # None
    /\ \/ getter = Idle
       \/ /\ getter \in [at : {"read", "clear"}, item : Items, seen : Seq(0 .. 255)]
          /\ raw[getter.item] # None /\ Len(getter.seen) <= Len(raw[getter.item])

\* When the flag of an item is down and nobody is at work on it, each byte on
\* display is that of the latest value or of the one before it.  More does not
\* hold: the setter raises the flag before it stores the value (:86, :94), so
\* a getter in between shows the old value, or parts of both, and takes the flag
\* down (:162-163).
AtMostOneBehind ==
    prompt => \A i \in Items :
        ~flag[i] /\ raw[i] # None /\ ~Setting(i) /\ ~Getting(i) =>
            /\ formatted[i] # None /\ Len(formatted[i]) = Len(raw[i])
            /\ \A k \in 1 .. Len(raw[i]) :
                formatted[i][k] \in {raw[i][k], IF prev[i] = None THEN raw[i][k] ELSE prev[i][k]}
===============================================================================
