----------------------------- MODULE QueryProofs -----------------------------
(***************************************************************************)
(* Theorems about DataDisplay and QueryThread for any items, values and    *)
(* lists.  The displayed values alone: the fields keep their types, and    *)
(* what is on display is at most one value behind if a getter is done      *)
(* before the next setter begins.  The query thread: its steps on the      *)
(* items on display are those of DataDisplay, the variables keep their     *)
(* types, adapter and controller agree about their speed, and each round   *)
(* comes to its end.                                                       *)
(***************************************************************************)
EXTENDS QueryThread, FiniteSetTheorems, TLAPS

-------------------------------------------------------------------------------
(* The displayed values *)

Values(i) == Readings[i] \cup {None}

LEMMA ReadingType ==
    ASSUME NEW i \in Items, NEW v \in Readings[i]
    PROVE  /\ v # None /\ v \in Seq(0 .. 255) /\ Len(v) \in Nat \ {0}
           /\ \A w \in Readings[i] : Len(w) = Len(v)
  <1>1. v \in Seq(0 .. 255) /\ v # <<>> /\ v # None /\ \A w \in Readings[i] : Len(w) = Len(v)
    BY DisplayAssumption
  <1>2. Len(v) \in Nat /\ Len(v) # 0
    BY <1>1
  <1> QED BY <1>1, <1>2

LEMMA NextByte ==
    ASSUME NEW S, NEW s \in Seq(S), NEW t \in Seq(S), Len(t) < Len(s)
    PROVE  s[Len(t) + 1] \in S
  <1>1. Len(t) + 1 \in 1 .. Len(s)
    OBVIOUS
  <1> QED BY <1>1

\* where the setter is, without records
SetterType ==
    \/ setter = Idle
    \/ setter.at = "flag" /\ setter = [at |-> "flag", item |-> setter.item]
       /\ setter.item \in Items /\ raw[setter.item] # None
    \/ /\ setter.at \in {"recheck", "store"}
       /\ setter = [at |-> setter.at, item |-> setter.item, value |-> setter.value]
       /\ setter.item \in Items /\ setter.value \in Readings[setter.item]
       /\ raw[setter.item] # None

GetterType ==
    \/ getter = Idle
    \/ /\ getter.at \in {"read", "clear"}
       /\ getter = [at |-> getter.at, item |-> getter.item, seen |-> getter.seen]
       /\ getter.item \in Items /\ getter.seen \in Seq(0 .. 255)
       /\ raw[getter.item] # None /\ Len(getter.seen) <= Len(raw[getter.item])

FieldType ==
    /\ prompt \in BOOLEAN
    /\ flag \in [Items -> BOOLEAN]
    /\ raw = [i \in Items |-> raw[i]] /\ prev = [i \in Items |-> prev[i]]
    /\ formatted = [i \in Items |-> formatted[i]]
    /\ \A i \in Items :
        /\ raw[i] \in Values(i) /\ prev[i] \in Values(i)
        /\ formatted[i] = None \/ formatted[i] \in Seq(0 .. 255)
        /\ flag[i] => raw[i] # None

TypeInv == FieldType /\ SetterType /\ GetterType

LEMMA TypeInvTypes == TypeInv => DisplayTypeOK
  <1> SUFFICES ASSUME TypeInv PROVE DisplayTypeOK
    OBVIOUS
  <1>1. \/ setter = Idle
        \/ setter \in [at : {"flag"}, item : Items] /\ raw[setter.item] # None
        \/ /\ setter \in UNION {[at : {"recheck", "store"}, item : {i}, value : Readings[i]] : i \in Items}
           /\ raw[setter.item] # None
    <2>1. ASSUME setter.at \in {"recheck", "store"}, setter.item \in Items, raw[setter.item] # None,
                 setter = [at |-> setter.at, item |-> setter.item, value |-> setter.value],
                 setter.value \in Readings[setter.item]
          PROVE  setter \in UNION {[at : {"recheck", "store"}, item : {i}, value : Readings[i]] : i \in Items}
      <3>1. setter \in [at : {"recheck", "store"}, item : {setter.item}, value : Readings[setter.item]]
        BY <2>1
      <3> QED BY <2>1, <3>1
    <2> QED BY <2>1 DEF TypeInv, SetterType
  <1>2. \/ getter = Idle
        \/ /\ getter \in [at : {"read", "clear"}, item : Items, seen : Seq(0 .. 255)]
           /\ raw[getter.item] # None /\ Len(getter.seen) <= Len(raw[getter.item])
    BY DEF TypeInv, GetterType
  <1>3. DOMAIN raw = Items /\ DOMAIN prev = Items /\ DOMAIN formatted = Items
    BY DEF TypeInv, FieldType
  <1> QED BY <1>1, <1>2, <1>3 DEF TypeInv, FieldType, DisplayTypeOK, Values

LEMMA TypeInvInit == DisplayInit => TypeInv
  BY DEF DisplayInit, TypeInv, FieldType, SetterType, GetterType, Values

LEMMA TypeInvNext == TypeInv /\ [DisplayNext]_displayVars => TypeInv'
  <1> SUFFICES ASSUME TypeInv, [DisplayNext]_displayVars PROVE TypeInv'
    OBVIOUS
  <1> USE DEF TypeInv
  <1>1. ASSUME NEW i \in Items, NEW v \in Readings[i], BeginSet(i, v) PROVE TypeInv'
    <2>1. CASE FirstValue(i, v)
      <3>1. FieldType'
        <4>1. /\ v # None /\ v \in Values(i)
              /\ UNCHANGED <<prompt, flag, formatted, prev>> /\ raw' = [raw EXCEPT ![i] = v]
          BY <1>1, <2>1, ReadingType DEF BeginSet, FirstValue, Values
        <4> QED BY <4>1 DEF FieldType
      <3>2. SetterType'
        BY <1>1, <2>1, ReadingType DEF BeginSet, FirstValue, FieldType, SetterType
      <3>3. GetterType'
        BY <1>1, <2>1 DEF BeginSet, FirstValue, FieldType, GetterType
      <3> QED BY <3>1, <3>2, <3>3
    <2>2. CASE Compare(i, v)
      <3>1. FieldType'
        BY <1>1, <2>2 DEF BeginSet, Compare, FieldType
      <3>2. SetterType'
        BY <1>1, <2>2 DEF BeginSet, Compare, SetterType
      <3>3. GetterType'
        BY <1>1, <2>2 DEF BeginSet, Compare, GetterType
      <3> QED BY <3>1, <3>2, <3>3
    <2> QED BY <1>1, <2>1, <2>2 DEF BeginSet
  <1>2. CASE RaiseFlag
    BY <1>2 DEF RaiseFlag, FieldType, SetterType, GetterType, Idle
  <1>3. CASE Recheck
    <2>1. FieldType' /\ GetterType'
      BY <1>3 DEF Recheck, fields, FieldType, GetterType
    <2>2. SetterType'
      BY <1>3 DEF Recheck, fields, SetterType, Idle
    <2> QED BY <2>1, <2>2
  <1>4. CASE Store
    <2>1. setter.item \in Items /\ setter.value \in Readings[setter.item] /\ raw[setter.item] # None
      BY <1>4 DEF Store, SetterType, Idle
    <2>2. FieldType'
      <3>1. /\ raw' = [raw EXCEPT ![setter.item] = setter.value]
            /\ prev' \in {prev, [prev EXCEPT ![setter.item] = raw[setter.item]]}
            /\ prompt' = prompt /\ flag' = flag /\ formatted' = formatted
        BY <1>4 DEF Store
      <3>2. setter.value # None
        BY <2>1, ReadingType
      <3> QED BY <2>1, <3>1, <3>2 DEF FieldType, Values
    <2>3. SetterType'
      BY <1>4 DEF Store, SetterType
    <2>4. GetterType'
      <3>1. CASE getter = Idle
        BY <1>4, <3>1 DEF Store, GetterType
      <3>2. CASE getter # Idle
        <4>1. raw'[getter.item] \in Readings[getter.item] /\ raw[getter.item] \in Readings[getter.item]
              /\ getter.item \in Items
          BY <1>4, <2>1, <3>2 DEF Store, FieldType, GetterType, Values
        <4>2. Len(raw'[getter.item]) = Len(raw[getter.item]) /\ raw'[getter.item] # None
          BY <4>1, ReadingType
        <4> QED BY <1>4, <3>2, <4>2 DEF Store, GetterType
      <3> QED BY <3>1, <3>2
    <2> QED BY <2>2, <2>3, <2>4
  <1>5. ASSUME NEW i \in Items, BeginGet(i) PROVE TypeInv'
    <2>1. raw[i] # None /\ Len(raw[i]) \in Nat
      BY <1>5, ReadingType DEF BeginGet, FieldType, Values
    <2>2. FieldType' /\ SetterType'
      BY <1>5 DEF BeginGet, fields, FieldType, SetterType
    <2>3. <<>> \in Seq(0 .. 255) /\ Len(<<>>) = 0
      OBVIOUS
    <2>4. GetterType'
      <3>1. getter' = [at |-> "read", item |-> i, seen |-> <<>>] /\ raw' = raw
        BY <1>5 DEF BeginGet, fields
      <3> QED BY <2>1, <2>3, <3>1 DEF GetterType
    <2> QED BY <2>2, <2>4
  <1>6. CASE ReadByte
    <2> DEFINE byte == raw[getter.item][Len(getter.seen) + 1]
    <2>1. /\ getter.item \in Items /\ getter.seen \in Seq(0 .. 255)
          /\ raw[getter.item] \in Seq(0 .. 255) /\ raw[getter.item] # None
          /\ getter = [at |-> "read", item |-> getter.item, seen |-> getter.seen]
      BY <1>6, ReadingType DEF ReadByte, GetterType, FieldType, Values, Idle
    <2>2. byte \in 0 .. 255 /\ Len(getter.seen) < Len(raw[getter.item])
      BY <1>6, <2>1, NextByte DEF ReadByte
    <2>3. getter' = [at |-> "read", item |-> getter.item, seen |-> Append(getter.seen, byte)]
      BY <1>6, <2>1 DEF ReadByte
    <2>4. Append(getter.seen, byte) \in Seq(0 .. 255) /\ Len(Append(getter.seen, byte)) = Len(getter.seen) + 1
          /\ Len(getter.seen) \in Nat /\ Len(raw[getter.item]) \in Nat
      <3> HIDE DEF byte
      <3>1. ASSUME NEW s \in Seq(0 .. 255), NEW b \in 0 .. 255
            PROVE  Append(s, b) \in Seq(0 .. 255) /\ Len(Append(s, b)) = Len(s) + 1 /\ Len(s) \in Nat
        OBVIOUS
      <3> QED BY <2>1, <2>2, <3>1, Zenon
    <2>5. GetterType'
      <3> HIDE DEF byte
      <3>1. getter'.at = "read" /\ getter'.item = getter.item /\ getter'.seen = Append(getter.seen, byte)
            /\ raw' = raw
        BY <1>6, <2>3 DEF ReadByte, fields
      <3> QED BY <2>1, <2>2, <2>3, <2>4, <3>1 DEF GetterType
    <2> QED BY <1>6, <2>5 DEF ReadByte, fields, FieldType, SetterType
  <1>7. CASE Show
    <2>1. /\ getter.item \in Items /\ getter.seen \in Seq(0 .. 255)
          /\ getter = [at |-> "read", item |-> getter.item, seen |-> getter.seen]
      BY <1>7 DEF Show, GetterType, Idle
    <2>2. getter' = [at |-> "clear", item |-> getter.item, seen |-> getter.seen]
      BY <1>7, <2>1 DEF Show
    <2>3. GetterType'
      BY <1>7, <2>1, <2>2 DEF Show, GetterType, Idle
    <2>4. FieldType' /\ SetterType'
      BY <1>7, <2>1 DEF Show, FieldType, SetterType
    <2> QED BY <2>3, <2>4
  <1>8. CASE ClearFlag
    BY <1>8 DEF ClearFlag, FieldType, SetterType, GetterType, Idle
  <1>9. CASE UNCHANGED displayVars
    BY <1>9 DEF displayVars, fields, FieldType, SetterType, GetterType
  <1> QED BY <1>1, <1>2, <1>3, <1>4, <1>5, <1>6, <1>7, <1>8, <1>9 DEF DisplayNext, SetterStep, GetterStep

\* DataDisplay keeps the types of its fields (DataDisplay.cs:65, :102, :155).
THEOREM DisplayTypes == DisplaySpec => []DisplayTypeOK
  <1> QED BY TypeInvInit, TypeInvNext, TypeInvTypes, PTL DEF DisplaySpec

-------------------------------------------------------------------------------
(* What is on display *)

\* s is made of bytes of the value of i, or of that value and the one before
Same(s, i) == \A k \in 1 .. Len(s) : s[k] = raw[i][k]
Near(s, i) ==
    \A k \in 1 .. Len(s) :
        s[k] \in {raw[i][k], IF prev[i] = None THEN raw[i][k] ELSE prev[i][k]}
Whole(s, i) == s # None /\ Len(s) = Len(raw[i]) /\ Near(s, i)

SetterAt(places, i) == setter.at \in places /\ setter.item = i
GetterAt(place, i) == getter.at = place /\ getter.item = i

\* While a setter has yet to store, only the present value can be read, for the
\* getter began after the setter.
Reading(i) ==
    GetterAt("read", i) =>
        Near(getter.seen, i) /\ (SetterAt({"recheck", "store"}, i) => Same(getter.seen, i))

Clearing(i) ==
    GetterAt("clear", i) =>
        Whole(formatted[i], i) /\ (SetterAt({"recheck", "store"}, i) => Same(formatted[i], i))

FirstSet(i) ==
    SetterAt({"flag"}, i) => ~flag[i] /\ ~GetterAt("read", i) /\ ~GetterAt("clear", i)

Settled(i) ==
    ~flag[i] /\ raw[i] # None /\ ~SetterAt({"flag"}, i) /\ ~GetterAt("read", i) /\ ~GetterAt("clear", i) =>
        Whole(formatted[i], i) /\ (SetterAt({"store"}, i) => Same(formatted[i], i))

DisplayInv == prompt => \A i \in Items : Reading(i) /\ Clearing(i) /\ FirstSet(i) /\ Settled(i)

LEMMA DisplayInvImplies == TypeInv /\ DisplayInv => AtMostOneBehind
  BY DEF TypeInv, SetterType, GetterType, FieldType, DisplayInv, Settled, Whole, Near, AtMostOneBehind,
         Setting, Getting, SetterAt, GetterAt, Idle

LEMMA DisplayInvInit == DisplayInit => DisplayInv
  <1> SUFFICES ASSUME DisplayInit, NEW i \in Items
               PROVE  Reading(i) /\ Clearing(i) /\ FirstSet(i) /\ Settled(i)
    BY DEF DisplayInv
  <1>1. raw[i] = None /\ setter.at = "idle" /\ getter.at = "idle"
    BY DEF DisplayInit, Idle
  <1> QED BY <1>1 DEF DisplayInit, DisplayInv, Reading, Clearing, FirstSet, Settled, SetterAt, GetterAt, Idle

LEMMA DisplayInvNext ==
    TypeInv /\ DisplayInv /\ [DisplayNext]_displayVars => DisplayInv'
  <1> SUFFICES ASSUME TypeInv, DisplayInv, [DisplayNext]_displayVars, prompt',
                      NEW j \in Items
               PROVE  (Reading(j) /\ Clearing(j) /\ FirstSet(j) /\ Settled(j))'
    BY DEF DisplayInv
  <1>0. prompt /\ Reading(j) /\ Clearing(j) /\ FirstSet(j) /\ Settled(j)
    BY DEF DisplayInv, DisplayNext, BeginGet, BeginSet, SetterStep, GetterStep, RaiseFlag, Recheck, Store,
           ReadByte, Show, ClearFlag, displayVars
  <1> DEFINE Kept == Reading(j)' /\ Clearing(j)' /\ FirstSet(j)' /\ Settled(j)'
  <1> SUFFICES Kept
    OBVIOUS
  <1>1. ASSUME NEW i \in Items, NEW v \in Readings[i], BeginSet(i, v) PROVE Kept
    <2>1. getter = Idle /\ getter' = Idle /\ prev' = prev /\ formatted' = formatted /\ setter = Idle
      BY <1>0, <1>1 DEF BeginSet
    <2>2. Reading(j)' /\ Clearing(j)'
      BY <2>1 DEF Reading, Clearing, GetterAt, Idle
    <2>3. CASE FirstValue(i, v)
      BY <1>0, <2>1, <2>2, <2>3 DEF FirstValue, FirstSet, Settled, SetterAt, GetterAt, Whole, Near, Idle,
         TypeInv, FieldType
    <2>4. CASE Compare(i, v)
      BY <1>0, <2>1, <2>2, <2>4 DEF Compare, FirstSet, Settled, SetterAt, GetterAt, Whole, Near, Idle,
         TypeInv, FieldType
    <2> QED BY <1>1, <2>3, <2>4 DEF BeginSet
  <1>2. CASE RaiseFlag
    BY <1>0, <1>2 DEF RaiseFlag, Reading, Clearing, FirstSet, Settled, SetterAt, GetterAt, Whole, Near, Same,
       Idle, TypeInv, FieldType
  <1>3. CASE Recheck
    <2>1. /\ setter.at = "recheck" /\ setter.item \in Items
          /\ setter = [at |-> "recheck", item |-> setter.item, value |-> setter.value]
          /\ raw' = raw /\ flag' = flag /\ formatted' = formatted /\ prev' = prev /\ getter' = getter
      BY <1>3 DEF Recheck, fields, TypeInv, SetterType, Idle
    <2>2. CASE flag[setter.item]
      <3>1. setter' = [at |-> "store", item |-> setter.item, value |-> setter.value]
        BY <1>3, <2>1, <2>2 DEF Recheck
      <3>2. setter'.at = "store" /\ setter'.item = setter.item
        BY <3>1
      <3> QED BY <1>0, <2>1, <2>2, <3>2 DEF Reading, Clearing, FirstSet, Settled, SetterAt, GetterAt,
                 Whole, Near, Same
    <2>3. CASE ~flag[setter.item]
      <3>1. setter'.at = "idle"
        BY <1>3, <2>3 DEF Recheck, Idle
      <3> QED BY <1>0, <2>1, <3>1 DEF Reading, Clearing, FirstSet, Settled, SetterAt, GetterAt,
                 Whole, Near, Same
    <2> QED BY <2>2, <2>3
  <1>4. CASE Store
    <2>1. /\ setter.at = "store" /\ setter'.at = "idle" /\ flag' = flag /\ formatted' = formatted
          /\ getter' = getter /\ setter.item \in Items /\ setter.value \in Readings[setter.item]
          /\ raw' = [raw EXCEPT ![setter.item] = setter.value]
      BY <1>4 DEF Store, TypeInv, SetterType, Idle
    <2>2. CASE setter.item # j
      <3>1. raw'[j] = raw[j] /\ prev'[j] = prev[j]
        BY <1>4, <2>1, <2>2 DEF Store, TypeInv, FieldType
      <3> QED BY <1>0, <2>1, <2>2, <3>1 DEF Reading, Clearing, FirstSet, Settled, SetterAt, GetterAt,
                 Whole, Near, Same
    <2>3. CASE setter.item = j
      <3>1. raw'[j] = setter.value /\ raw[j] \in Readings[j] /\ raw[j] # None
        BY <2>1, <2>3 DEF TypeInv, FieldType, SetterType, Values, Idle
      <3>2. Len(raw'[j]) = Len(raw[j])
        BY <2>1, <2>3, <3>1, ReadingType
      <3>3. raw'[j] = raw[j] \/ prev'[j] = raw[j]
        BY <1>0, <1>4, <2>3, <3>1 DEF Store, TypeInv, FieldType
      <3>4. ASSUME NEW s, Same(s, j) PROVE Near(s, j)'
        BY <3>1, <3>3, <3>4 DEF Same, Near
      <3>5. SetterAt({"recheck", "store"}, j) /\ SetterAt({"store"}, j) /\ ~SetterAt({"flag"}, j)
        BY <2>1, <2>3 DEF SetterAt
      <3>6. ~SetterAt({"recheck", "store"}, j)' /\ ~SetterAt({"store"}, j)' /\ ~SetterAt({"flag"}, j)'
            /\ GetterAt("read", j)' = GetterAt("read", j) /\ GetterAt("clear", j)' = GetterAt("clear", j)
        BY <2>1 DEF SetterAt, GetterAt
      <3>7. Reading(j)'
        BY <1>0, <2>1, <3>4, <3>5, <3>6 DEF Reading
      <3>8. Clearing(j)'
        BY <1>0, <2>1, <3>2, <3>4, <3>5, <3>6 DEF Clearing, Whole
      <3>9. Settled(j)'
        BY <1>0, <2>1, <3>1, <3>2, <3>4, <3>5, <3>6 DEF Settled, Whole
      <3> QED BY <3>6, <3>7, <3>8, <3>9 DEF FirstSet
    <2> QED BY <2>2, <2>3
  <1>5. ASSUME NEW i \in Items, BeginGet(i) PROVE Kept
    <2>1. /\ getter'.at = "read" /\ getter'.item = i /\ getter'.seen = <<>> /\ flag[i]
          /\ getter.at = "idle"
          /\ raw' = raw /\ flag' = flag /\ formatted' = formatted /\ prev' = prev /\ setter' = setter
      BY <1>5 DEF BeginGet, fields, Idle
    <2>2. Len(<<>>) = 0
      OBVIOUS
    <2>3. Reading(j)'
      BY <2>1, <2>2 DEF Reading, GetterAt, Near, Same
    <2> QED BY <1>0, <2>1, <2>3 DEF Clearing, FirstSet, Settled, SetterAt, GetterAt, Whole, Near, Same
  <1>6. CASE ReadByte
    <2> DEFINE byte == raw[getter.item][Len(getter.seen) + 1]
    <2>1. /\ getter.at = "read" /\ getter.seen \in Seq(0 .. 255)
          /\ getter = [at |-> "read", item |-> getter.item, seen |-> getter.seen]
          /\ raw' = raw /\ flag' = flag /\ formatted' = formatted /\ prev' = prev /\ setter' = setter
      BY <1>6 DEF ReadByte, fields, TypeInv, GetterType, Idle
    <2>2. getter' = [at |-> "read", item |-> getter.item, seen |-> Append(getter.seen, byte)]
      BY <1>6, <2>1 DEF ReadByte
    <2>3. getter'.at = "read" /\ getter'.item = getter.item /\ getter'.seen = Append(getter.seen, byte)
      BY <2>2
    <2>4. raw[getter.item] \in Seq(0 .. 255) /\ Len(getter.seen) < Len(raw[getter.item])
      BY <1>6, <2>1, ReadingType DEF ReadByte, TypeInv, GetterType, FieldType, Values, Idle
    <2>5. byte \in 0 .. 255
      BY <2>1, <2>4, NextByte
    <2>6. /\ Len(Append(getter.seen, byte)) = Len(getter.seen) + 1
          /\ \A k \in 1 .. Len(getter.seen) + 1 :
                Append(getter.seen, byte)[k] = IF k = Len(getter.seen) + 1 THEN byte ELSE getter.seen[k]
          /\ Len(getter.seen) \in Nat
      <3> HIDE DEF byte
      <3> QED BY <2>1, <2>5
    <2>7. CASE getter.item = j
      <3>1. Same(getter.seen, j) => Same(Append(getter.seen, byte), j)
        BY <2>6, <2>7 DEF Same
      <3>2. Near(getter.seen, j) => Near(Append(getter.seen, byte), j)
        BY <2>6, <2>7 DEF Near
      <3> HIDE DEF byte
      <3>3. Reading(j)'
        BY <1>0, <2>1, <2>3, <2>7, <3>1, <3>2 DEF Reading, SetterAt, GetterAt, Near, Same
      <3> QED BY <1>0, <2>1, <2>3, <3>3 DEF Clearing, FirstSet, Settled, SetterAt, GetterAt,
                 Whole, Near, Same
    <2>8. CASE getter.item # j
      <3> HIDE DEF byte
      <3> QED BY <1>0, <2>1, <2>3, <2>8 DEF Reading, Clearing, FirstSet, Settled, SetterAt, GetterAt,
                 Whole, Near, Same
    <2> QED BY <2>7, <2>8
  <1>7. CASE Show
    <2>1. /\ getter.at = "read" /\ getter.item \in Items /\ getter.seen \in Seq(0 .. 255)
          /\ Len(getter.seen) = Len(raw[getter.item])
          /\ getter = [at |-> "read", item |-> getter.item, seen |-> getter.seen]
          /\ raw' = raw /\ flag' = flag /\ prev' = prev /\ setter' = setter
          /\ formatted' = [formatted EXCEPT ![getter.item] = getter.seen]
      BY <1>7 DEF Show, TypeInv, GetterType, Idle
    <2>2. getter' = [at |-> "clear", item |-> getter.item, seen |-> getter.seen]
      BY <1>7, <2>1 DEF Show
    <2>3. getter'.at = "clear" /\ getter'.item = getter.item
      BY <2>2
    <2>4. CASE getter.item = j
      <3>1. formatted'[j] = getter.seen /\ getter.seen # None
        BY <2>1, <2>4, DisplayAssumption DEF TypeInv, FieldType
      <3>2. Clearing(j)'
        BY <1>0, <2>1, <2>3, <2>4, <3>1 DEF Reading, Clearing, Whole, Near, Same, GetterAt, SetterAt
      <3> QED BY <1>0, <2>1, <2>3, <2>4, <3>2 DEF Reading, FirstSet, Settled, GetterAt, SetterAt
    <2>5. CASE getter.item # j
      <3>1. formatted'[j] = formatted[j]
        BY <2>1, <2>5 DEF TypeInv, FieldType
      <3> QED BY <1>0, <2>1, <2>3, <2>5, <3>1 DEF Reading, Clearing, FirstSet, Settled, SetterAt,
                 GetterAt, Whole, Near, Same
    <2> QED BY <2>4, <2>5
  <1>8. CASE ClearFlag
    <2>1. /\ getter.at = "clear" /\ getter.item \in Items /\ getter'.at = "idle"
          /\ raw' = raw /\ formatted' = formatted /\ prev' = prev /\ setter' = setter
          /\ flag' = [flag EXCEPT ![getter.item] = FALSE]
      BY <1>8 DEF ClearFlag, TypeInv, GetterType, Idle
    <2>2. CASE getter.item = j
      BY <1>0, <2>1, <2>2 DEF Reading, Clearing, FirstSet, Settled, SetterAt, GetterAt, Whole, Near, Same,
         TypeInv, FieldType
    <2>3. CASE getter.item # j
      <3>1. flag'[j] = flag[j]
        BY <2>1, <2>3 DEF TypeInv, FieldType
      <3> QED BY <1>0, <2>1, <2>3, <3>1 DEF Reading, Clearing, FirstSet, Settled, SetterAt, GetterAt,
                 Whole, Near, Same
    <2> QED BY <2>2, <2>3
  <1>9. CASE UNCHANGED displayVars
    BY <1>0, <1>9 DEF displayVars, fields, Reading, Clearing, FirstSet, Settled, SetterAt, GetterAt, Whole,
       Near, Same
  <1> QED BY <1>1, <1>2, <1>3, <1>4, <1>5, <1>6, <1>7, <1>8, <1>9 DEF DisplayNext, SetterStep, GetterStep

\* For a getter that is done before the next setter begins, what is on display
\* when the flag is down is the latest value or the one before it
\* (DataDisplay.cs:71-100, :157-167).
THEOREM DisplayBehind == DisplaySpec => []AtMostOneBehind
  <1> QED BY TypeInvInit, TypeInvNext, DisplayInvInit, DisplayInvNext, DisplayInvImplies, PTL DEF DisplaySpec

-------------------------------------------------------------------------------
(* The query thread *)

\* Nothing is left of a loop when the next round begins.
LoopOver ==
    pc \in {"start", "wait", "copy", "except", "enumerate", "slow", "ask", "fast", "high"} => left = {}

QueryType ==
    /\ pc \in {"start", "wait", "copy", "except", "enumerate", "slow", "ask", "fast", "high",
              "take", "lower", "leave", "items", "lowerAtEnd", "leaveAtEnd", "gone", "dead"}
    /\ ui \in {"free", "fill", "add", "signal", "waiting", "disposed"}
    /\ temp \subseteq Items /\ high \subseteq High /\ left \subseteq temp \cup high /\ LoopOver
    /\ visible \subseteq Items /\ screen \subseteq Items /\ todo \subseteq screen
    /\ fast \in BOOLEAN /\ stop \in BOOLEAN /\ touched \in BOOLEAN /\ lost \in BOOLEAN
    /\ adapter \in {"low", "high"} /\ ecu \in {"low", "high"}
    /\ port \in {"open", "closed", "reopened"}

LEMMA QueryTypeInit == Init => QueryType
  BY DEF Init, QueryType, LoopOver

LEMMA QueryTypeNext == QueryType /\ [Next]_vars => QueryType'
  <1> SUFFICES ASSUME QueryType, [Next]_vars PROVE QueryType'
    OBVIOUS
  <1> USE QueryAssumption DEF QueryType, LoopOver, list, link, uiVars, round
  <1>1. CASE Start
    BY <1>1 DEF Start
  <1>2. CASE Wait
    BY <1>2 DEF Wait
  <1>3. CASE Copy
    BY <1>3 DEF Copy
  <1>4. CASE BeginExcept
    BY <1>4 DEF BeginExcept
  <1>5. CASE EndExcept
    BY <1>5 DEF EndExcept
  <1>6. CASE SetLoSpeed
    BY <1>6 DEF SetLoSpeed, Command
  <1>7. CASE AskHighSpeed
    <2>1. pc' \in {"fast", "items", "lower"} /\ left' = {}
      BY <1>7 DEF AskHighSpeed, AfterHigh
    <2>2. /\ ecu' \in {ecu, "high"} /\ lost' \in {lost, TRUE}
          /\ UNCHANGED <<adapter, port, temp, high, fast, stop, visible, screen, todo, ui, touched>>
      BY <1>7 DEF AskHighSpeed, ControllerTurns, ControllerStays
    <2>3. ecu' \in {"low", "high"} /\ lost' \in BOOLEAN
      BY <2>2
    <2>4. left' \subseteq temp' \cup high' /\ LoopOver'
      BY <2>1
    <2>5. pc' \in {"start", "wait", "copy", "except", "enumerate", "slow", "ask", "fast", "high",
                   "take", "lower", "leave", "items", "lowerAtEnd", "leaveAtEnd", "gone", "dead"}
      BY <2>1
    <2>6. temp' = temp /\ high' = high /\ fast' = fast /\ stop' = stop /\ adapter' = adapter
          /\ port' = port /\ visible' = visible /\ screen' = screen /\ todo' = todo
          /\ ui' = ui /\ touched' = touched
      BY <2>2
    <2> QED BY <2>3, <2>4, <2>5, <2>6
  <1>8. CASE SetHiSpeed
    BY <1>8 DEF SetHiSpeed, Command
  <1>9. CASE SCIHiSpeedQuery
    BY <1>9 DEF SCIHiSpeedQuery, AfterHigh
  <1>10. CASE TakeHigh
    BY <1>10 DEF TakeHigh, AfterHigh, At
  <1>11. CASE Lower("lower", "leave")
    BY <1>11 DEF Lower, ControllerTurns, ControllerStays
  <1>12. CASE Leave
    BY <1>12 DEF Leave, Command
  <1>13. CASE AskItem
    BY <1>13 DEF AskItem, At
  <1>14. CASE RoundOver
    BY <1>14 DEF RoundOver, At
  <1>15. CASE InSetter
    BY <1>15 DEF InSetter
  <1>16. CASE Lower("lowerAtEnd", "leaveAtEnd")
    BY <1>16 DEF Lower, ControllerTurns, ControllerStays
  <1>17. CASE LeaveAtEnd
    BY <1>17 DEF LeaveAtEnd, Command
  <1>18. CASE CommandFails
    BY <1>18 DEF CommandFails
  <1>19. CASE Reopen
    BY <1>19 DEF Reopen
  <1>20. CASE Tick
    BY <1>20 DEF Tick
  <1>21. CASE Visit
    BY <1>21 DEF Visit
  <1>22. CASE InGetter
    BY <1>22 DEF InGetter
  <1>23. CASE ClearList
    BY <1>23 DEF ClearList, Touch
  <1>24. CASE AddRange
    BY <1>24 DEF AddRange, Touch
  <1>25. CASE SetStopSignal
    BY <1>25 DEF SetStopSignal
  <1>26. CASE WaitEnds
    BY <1>26 DEF WaitEnds
  <1>27. CASE ChangeTab
    BY <1>27 DEF ChangeTab, Touch, Ready
  <1>28. CASE Dispose
    BY <1>28 DEF Dispose
  <1>29. ASSUME NEW items \in Lists, Select(items) PROVE QueryType'
    BY <1>29 DEF Select
  <1>30. CASE UNCHANGED vars
    BY <1>30 DEF vars
  <1> HIDE DEF QueryType
  <1> QED BY <1>1, <1>2, <1>3, <1>4, <1>5, <1>6, <1>7, <1>8, <1>9, <1>10, <1>11, <1>12, <1>13,
             <1>14, <1>15, <1>16, <1>17, <1>18, <1>19, <1>20, <1>21, <1>22, <1>23, <1>24,
             <1>25, <1>26, <1>27, <1>28, <1>29, <1>30
         DEF Next, ThreadStep, UiStep, UserStep

-------------------------------------------------------------------------------
(* Items on display *)

\* The thread touches an item through its setter, the user interface through
\* its getter, and neither in another way.
LEMMA QueryDisplays == QueryType /\ [Next]_vars => [DisplayNext]_displayVars
  <1> SUFFICES ASSUME QueryType, [Next]_vars PROVE DisplayNext \/ UNCHANGED displayVars
    OBVIOUS
  <1>1. CASE \/ Start \/ Wait \/ Copy \/ BeginExcept \/ EndExcept \/ SetLoSpeed \/ AskHighSpeed
             \/ SetHiSpeed \/ SCIHiSpeedQuery \/ Leave \/ RoundOver \/ LeaveAtEnd
             \/ CommandFails \/ Reopen
    BY <1>1 DEF Start, Wait, Copy, BeginExcept, EndExcept, SetLoSpeed, AskHighSpeed, SetHiSpeed,
       SCIHiSpeedQuery, Leave, RoundOver, LeaveAtEnd, CommandFails, Reopen
  <1>2. CASE Lower("lower", "leave") \/ Lower("lowerAtEnd", "leaveAtEnd")
    BY <1>2 DEF Lower
  <1>3. left \subseteq Items /\ todo \subseteq Items
    BY QueryAssumption DEF QueryType
  <1>4. CASE TakeHigh \/ AskItem
    BY <1>3, <1>4 DEF TakeHigh, AskItem, DisplayNext
  <1>5. CASE InSetter \/ InGetter
    BY <1>5 DEF InSetter, InGetter, DisplayNext
  <1>6. CASE Visit
    BY <1>3, <1>6 DEF Visit, DisplayNext
  <1>7. CASE Tick \/ ClearList \/ AddRange \/ SetStopSignal \/ WaitEnds \/ ChangeTab \/ Dispose
             \/ (\E items \in Lists : Select(items))
    BY <1>7 DEF Tick, ClearList, AddRange, SetStopSignal, WaitEnds, ChangeTab, Dispose, Select
  <1>8. CASE UNCHANGED vars
    BY <1>8 DEF vars
  <1> QED BY <1>1, <1>2, <1>4, <1>5, <1>6, <1>7, <1>8 DEF Next, ThreadStep, UiStep, UserStep

LEMMA QueryTypeImplies == QueryType /\ DisplayTypeOK => TypeOK
  BY DEF QueryType, TypeOK

\* The two threads keep the types of everything they share (VehicleLinkManager.cs
\* :47-159), as they take steps of DataDisplay with the items.
THEOREM QueryTypes == Spec => []TypeOK
  <1>1. Init => DisplayInit
    BY DEF Init
  <1> QED BY <1>1, QueryTypeInit, QueryTypeNext, QueryDisplays, TypeInvInit, TypeInvNext, TypeInvTypes,
             QueryTypeImplies, PTL DEF Spec

\* With the query thread and the user interface on their two sides, too, what is
\* on display is the latest value or the one before (DataDisplay.cs:71-100, :157-167).
THEOREM QueryBehind == Spec => []AtMostOneBehind
  <1>1. Init => DisplayInit
    BY DEF Init
  <1> QED BY <1>1, QueryTypeInit, QueryTypeNext, QueryDisplays, TypeInvInit, TypeInvNext,
             DisplayInvInit, DisplayInvNext, DisplayInvImplies, PTL DEF Spec

-------------------------------------------------------------------------------
(* Speeds *)

\* Between two changes of speed all three agree; "fast" is after the change of
\* the controller and before that of the adapter, "leave" the other way round.
SpeedInv ==
    ~lost =>
        /\ pc \notin {"fast", "leave", "leaveAtEnd", "gone", "dead"} => adapter = ecu /\ (fast <=> ecu = "high")
        /\ pc \in {"start", "slow", "ask", "leave", "leaveAtEnd", "gone"} => ecu = "low"
        /\ pc = "fast" => ecu = "high"
        /\ pc = "gone" => adapter = "low"
        /\ pc = "items" /\ high # {} /\ left # {} => ecu = "low"

LEMMA SpeedInvInit == Init => SpeedInv
  BY DEF Init, SpeedInv

LEMMA SpeedInvNext == QueryType /\ SpeedInv /\ [Next]_vars => SpeedInv'
  <1> SUFFICES ASSUME QueryType, SpeedInv, [Next]_vars PROVE SpeedInv'
    OBVIOUS
  <1> USE DEF QueryType, SpeedInv, list, link, uiVars, round
  <1>1. CASE Start
    BY <1>1 DEF Start
  <1>2. CASE Wait
    BY <1>2 DEF Wait
  <1>3. CASE Copy
    BY <1>3 DEF Copy
  <1>4. CASE BeginExcept
    BY <1>4 DEF BeginExcept
  <1>5. CASE EndExcept
    BY <1>5 DEF EndExcept
  <1>6. CASE SetLoSpeed
    BY <1>6 DEF SetLoSpeed, Command
  <1>7. CASE AskHighSpeed
    BY <1>7 DEF AskHighSpeed, ControllerTurns, ControllerStays, AfterHigh
  <1>8. CASE SetHiSpeed
    BY <1>8 DEF SetHiSpeed, Command
  <1>9. CASE SCIHiSpeedQuery
    BY <1>9 DEF SCIHiSpeedQuery, AfterHigh
  <1>10. CASE TakeHigh
    BY <1>10 DEF TakeHigh, AfterHigh, At
  <1>11. CASE Lower("lower", "leave")
    BY <1>11 DEF Lower, ControllerTurns, ControllerStays
  <1>12. CASE Leave
    BY <1>12 DEF Leave, Command
  <1>13. CASE AskItem
    BY <1>13 DEF AskItem, At
  <1>14. CASE RoundOver
    BY <1>14 DEF RoundOver, At
  <1>15. CASE InSetter
    BY <1>15 DEF InSetter
  <1>16. CASE Lower("lowerAtEnd", "leaveAtEnd")
    BY <1>16 DEF Lower, ControllerTurns, ControllerStays
  <1>17. CASE LeaveAtEnd
    BY <1>17 DEF LeaveAtEnd, Command
  <1>18. CASE CommandFails
    BY <1>18 DEF CommandFails
  <1>19. CASE Reopen
    BY <1>19 DEF Reopen
  <1>20. CASE UiStep \/ UserStep
    <2>1. UNCHANGED <<pc, round, adapter, ecu, lost>>
      BY <1>20 DEF UiStep, UserStep, Tick, Visit, InGetter, ClearList, AddRange, SetStopSignal, WaitEnds,
         ChangeTab, Dispose, Select
    <2> QED BY <2>1
  <1>21. CASE UNCHANGED vars
    BY <1>21 DEF vars
  <1> HIDE DEF SpeedInv
  <1> QED BY <1>1, <1>2, <1>3, <1>4, <1>5, <1>6, <1>7, <1>8, <1>9, <1>10, <1>11, <1>12, <1>13,
             <1>14, <1>15, <1>16, <1>17, <1>18, <1>19, <1>20, <1>21
         DEF Next, ThreadStep

LEMMA SpeedInvImplies == SpeedInv => SpeedsAgree /\ LowAtLow
  BY DEF SpeedInv, SpeedsAgree, LowAtLow

\* Wherever the user changes the list, and whether or not the port is reopened,
\* a request finds adapter and controller at one speed (:98-120, :143-148).
THEOREM QuerySpeeds == Spec => []SpeedsAgree
  <1> QED BY QueryTypeInit, QueryTypeNext, SpeedInvInit, SpeedInvNext, SpeedInvImplies, PTL DEF Spec

\* In a round with items of high speed the others are asked for at low speed
\* (:114-120), and a thread that ends leaves both at low speed, whenever it was
\* stopped (:143-148).
THEOREM QueryLow == Spec => []LowAtLow
  <1> QED BY QueryTypeInit, QueryTypeNext, SpeedInvInit, SpeedInvNext, SpeedInvImplies, PTL DEF Spec

-------------------------------------------------------------------------------
(* The thread comes to its end.  That its steps are taken is fairness and left *)
(* to TLC; here is what Stops rests on beside it: a round takes only so many   *)
(* steps, whatever the user does to the list meanwhile, and the signal to stop *)
(* is not lost once the thread has begun.                                      *)

Count == Cardinality(Items)

SetterRank == IF setter.at = "recheck" THEN 2 ELSE IF setter.at \in {"flag", "store"} THEN 1 ELSE 0

\* the steps to the end of the round, and of the thread if it is told to stop
PlaceRank ==
    CASE pc \in {"gone", "dead"} -> 0
      [] pc = "leaveAtEnd" -> 1
      [] pc = "lowerAtEnd" -> 2
      [] pc = "wait" -> 3
      [] pc = "items" -> 4 + 4 * Cardinality(left)
      [] pc = "leave" -> 4 * Count + 5
      [] pc = "lower" -> 4 * Count + 6
      [] pc = "take" -> 4 * Count + 7 + 4 * Cardinality(left)
      [] pc = "high" -> 8 * Count + 8
      [] pc = "fast" -> 8 * Count + 9
      [] pc = "ask" -> 8 * Count + 10
      [] pc = "slow" -> 8 * Count + 11
      [] pc = "enumerate" -> 8 * Count + 12
      [] pc = "except" -> 8 * Count + 13
      [] pc = "copy" -> 8 * Count + 14
      [] pc = "start" -> 8 * Count + 15

PortRank == IF port = "closed" THEN 1 ELSE 0

Rank == PlaceRank + SetterRank + PortRank

LEMMA Counted ==
    ASSUME IsFiniteSet(Items)
    PROVE  /\ Count \in Nat
           /\ \A S \in SUBSET Items :
                 /\ Cardinality(S) \in Nat /\ Cardinality(S) <= Count
                 /\ \A i \in S : Cardinality(S \ {i}) = Cardinality(S) - 1
           /\ Cardinality({}) = 0
  <1>1. Count \in Nat
    BY FS_CardinalityType DEF Count
  <1>2. ASSUME NEW S \in SUBSET Items
        PROVE  /\ Cardinality(S) \in Nat /\ Cardinality(S) <= Count
               /\ \A i \in S : Cardinality(S \ {i}) = Cardinality(S) - 1
    <2>1. IsFiniteSet(S) /\ Cardinality(S) <= Count
      BY FS_Subset DEF Count
    <2> QED BY <2>1, FS_CardinalityType, FS_RemoveElement
  <1> QED BY <1>1, <1>2, FS_EmptySet

LEMMA RankIsNumber ==
    IsFiniteSet(Items) /\ QueryType
    => PlaceRank \in Nat /\ SetterRank \in 0 .. 2 /\ PortRank \in 0 .. 1 /\ Rank \in Nat
  <1> SUFFICES ASSUME IsFiniteSet(Items), QueryType
               PROVE  PlaceRank \in Nat /\ SetterRank \in 0 .. 2 /\ PortRank \in 0 .. 1 /\ Rank \in Nat
    OBVIOUS
  <1>1. left \in SUBSET Items
    BY QueryAssumption DEF QueryType
  <1>2. Cardinality(left) \in Nat /\ Count \in Nat
    BY <1>1, Counted
  <1>3. PlaceRank \in Nat
    BY <1>2 DEF QueryType, PlaceRank
  <1>4. SetterRank \in 0 .. 2 /\ PortRank \in 0 .. 1
    BY DEF SetterRank, PortRank
  <1> QED BY <1>3, <1>4 DEF Rank

\* A step that is in no setter and takes no item.
LEMMA PlainStep ==
    ASSUME IsFiniteSet(Items), QueryType, QueryType', ThreadStep, ~(pc = "wait" /\ ~stop),
           UNCHANGED <<displayVars, port>>, pc' # pc
    PROVE  PlaceRank' < PlaceRank
  <1>1. /\ left \in SUBSET Items /\ left' \in SUBSET Items
        /\ temp \in SUBSET Items /\ high \in SUBSET Items
    BY QueryAssumption DEF QueryType
  <1>2. /\ Cardinality(left) \in Nat /\ Cardinality(left') \in Nat /\ Count \in Nat
        /\ Cardinality(left') <= Count /\ (left' = {} => Cardinality(left') = 0)
    BY <1>1, Counted
  <1> USE DEF PlaceRank, list, link, uiVars, round
  <1>3. CASE Start
    BY <1>2, <1>3 DEF Start
  <1>4. CASE Wait
    BY <1>2, <1>4 DEF Wait
  <1>5. CASE Copy
    BY <1>2, <1>5 DEF Copy
  <1>6. CASE BeginExcept
    BY <1>2, <1>6 DEF BeginExcept
  <1>7. CASE EndExcept
    BY <1>2, <1>7 DEF EndExcept
  <1>8. CASE SetLoSpeed
    BY <1>2, <1>8 DEF SetLoSpeed
  <1>9. CASE AskHighSpeed
    BY <1>2, <1>9 DEF AskHighSpeed, AfterHigh
  <1>10. CASE SetHiSpeed
    BY <1>2, <1>10 DEF SetHiSpeed
  <1>11. CASE SCIHiSpeedQuery
    BY <1>2, <1>11 DEF SCIHiSpeedQuery, AfterHigh
  <1>12. CASE TakeHigh
    BY <1>2, <1>12 DEF TakeHigh, AfterHigh, At
  <1>13. CASE Lower("lower", "leave")
    BY <1>2, <1>13 DEF Lower
  <1>14. CASE Leave
    BY <1>2, <1>14 DEF Leave
  <1>15. CASE RoundOver
    BY <1>2, <1>15 DEF RoundOver, At
  <1>16. CASE Lower("lowerAtEnd", "leaveAtEnd")
    BY <1>2, <1>16 DEF Lower
  <1>17. CASE LeaveAtEnd
    BY <1>2, <1>17 DEF LeaveAtEnd
  <1>18. CASE CommandFails
    BY <1>2, <1>18 DEF CommandFails
  <1>19. CASE Reopen
    BY <1>2, <1>19 DEF Reopen
  <1>20. CASE AskItem \/ InSetter
    BY <1>20 DEF AskItem, InSetter
  <1> QED BY <1>3, <1>4, <1>5, <1>6, <1>7, <1>8, <1>9, <1>10, <1>11, <1>12, <1>13, <1>14, <1>15,
             <1>16, <1>17, <1>18, <1>19, <1>20 DEF ThreadStep

LEMMA ItemStep ==
    ASSUME IsFiniteSet(Items), QueryType, NEW i \in left, left' = left \ {i}, UNCHANGED <<pc, port>>,
           pc \in {"items", "take"}, setter = Idle
    PROVE  Rank' < Rank
  <1>1. left \in SUBSET Items
    BY QueryAssumption DEF QueryType
  <1>2. Cardinality(left) \in Nat /\ Cardinality(left') = Cardinality(left) - 1 /\ Count \in Nat
    BY <1>1, Counted
  <1>3. PlaceRank' = PlaceRank - 4 /\ PlaceRank \in Int
    BY <1>2 DEF PlaceRank
  <1>4. SetterRank = 0 /\ SetterRank' \in {0, 1, 2}
    BY DEF SetterRank, Idle
  <1>5. PortRank' = PortRank /\ PortRank \in {0, 1}
    BY DEF PortRank
  <1>6. \A p \in Int, k \in {0, 1, 2}, q \in {0, 1} : (p - 4) + k + q < p + 0 + q
    OBVIOUS
  <1>7. (PlaceRank - 4) + SetterRank' + PortRank < PlaceRank + 0 + PortRank
    BY <1>3, <1>4, <1>5, <1>6, Zenon
  <1> QED BY <1>3, <1>4, <1>5, <1>7 DEF Rank

\* Neither the setter nor the port moves the thread.
LEMMA OtherStep ==
    ASSUME IsFiniteSet(Items), QueryType, TypeInv, UNCHANGED <<pc, left>>,
           InSetter \/ (Reopen /\ pc' = pc)
    PROVE  Rank' < Rank
  <1>1. PlaceRank' = PlaceRank /\ PlaceRank \in Nat
    BY RankIsNumber DEF PlaceRank
  <1>2. CASE InSetter
    <2>1. SetterRank' < SetterRank /\ SetterRank \in {0, 1, 2} /\ SetterRank' \in {0, 1, 2}
      BY <1>2 DEF InSetter, SetterStep, RaiseFlag, Recheck, Store, TypeInv, SetterType, SetterRank, Idle
    <2>2. PortRank' = PortRank /\ PortRank \in {0, 1}
      BY <1>2 DEF InSetter, link, PortRank
    <2>3. \A p \in Nat, j, k \in {0, 1, 2}, q \in {0, 1} : j < k => p + j + q < p + k + q
      OBVIOUS
    <2>4. PlaceRank + SetterRank' + PortRank < PlaceRank + SetterRank + PortRank
      BY <1>1, <2>1, <2>2, <2>3, Zenon
    <2> QED BY <1>1, <2>2, <2>4 DEF Rank
  <1>3. CASE Reopen /\ pc' = pc
    <2>1. PortRank = 1 /\ PortRank' = 0
      BY <1>3 DEF Reopen, PortRank, QueryType
    <2>2. SetterRank' = SetterRank /\ SetterRank \in {0, 1, 2}
      BY <1>3 DEF Reopen, displayVars, SetterRank
    <2> QED BY <1>1, <2>1, <2>2 DEF Rank
  <1> QED BY <1>2, <1>3

LEMMA ThreadRunsOut ==
    ASSUME IsFiniteSet(Items), QueryType, QueryType', TypeInv, TypeInv', ThreadStep, ~(pc = "wait" /\ ~stop)
    PROVE  Rank' < Rank
  <1> USE DEF list, link, uiVars, round
  <1>1. CASE UNCHANGED <<displayVars, port>> /\ pc' # pc
    <2>1. PlaceRank' < PlaceRank
      BY <1>1, PlainStep
    <2>2. PlaceRank' \in Nat /\ PlaceRank \in Nat
      <3>1. (IsFiniteSet(Items) /\ QueryType
             => PlaceRank \in Nat /\ SetterRank \in 0 .. 2 /\ PortRank \in 0 .. 1 /\ Rank \in Nat)'
        BY RankIsNumber, PTL
      <3> QED BY <3>1, RankIsNumber
    <2>3. SetterRank' = SetterRank /\ PortRank' = PortRank /\ SetterRank \in {0, 1, 2} /\ PortRank \in {0, 1}
      BY <1>1 DEF displayVars, SetterRank, PortRank
    <2>4. \A j, p \in Nat, k \in {0, 1, 2}, q \in {0, 1} : j < p => j + k + q < p + k + q
      OBVIOUS
    <2>5. PlaceRank' + SetterRank + PortRank < PlaceRank + SetterRank + PortRank
      BY <2>1, <2>2, <2>3, <2>4, Zenon
    <2> QED BY <2>3, <2>5 DEF Rank
  <1>2. CASE TakeHigh /\ left # {}
    <2>1. PICK i \in left : left' = left \ {i} /\ UNCHANGED <<pc, port>>
      BY <1>2 DEF TakeHigh
    <2> QED BY <1>2, <2>1, ItemStep DEF TakeHigh, At
  <1>3. CASE AskItem
    <2>1. PICK i \in left : left' = left \ {i} /\ UNCHANGED <<pc, port>>
      BY <1>3 DEF AskItem
    <2> QED BY <1>3, <2>1, ItemStep DEF AskItem, At
  <1>4. CASE InSetter \/ (Reopen /\ pc' = pc)
    BY <1>4, OtherStep DEF InSetter, Reopen
  <1>5. CASE Reopen /\ pc' # pc
    BY <1>1, <1>5 DEF Reopen
  <1>6. CASE \/ Start \/ Wait \/ Copy \/ BeginExcept \/ EndExcept \/ Leave \/ RoundOver \/ LeaveAtEnd
             \/ SetLoSpeed \/ SetHiSpeed \/ SCIHiSpeedQuery \/ CommandFails \/ (TakeHigh /\ left = {})
    <2>1. UNCHANGED <<displayVars, port>>
      BY <1>6 DEF Start, Wait, Copy, BeginExcept, EndExcept, Leave, RoundOver, LeaveAtEnd, SetLoSpeed,
         SetHiSpeed, SCIHiSpeedQuery, CommandFails, TakeHigh, Command
    <2>2. pc' # pc
      BY <1>6 DEF Start, Wait, Copy, BeginExcept, EndExcept, Leave, RoundOver, LeaveAtEnd, SetLoSpeed,
         SetHiSpeed, SCIHiSpeedQuery, CommandFails, TakeHigh, At, AfterHigh
    <2> QED BY <1>1, <2>1, <2>2
  <1>7. CASE AskHighSpeed \/ Lower("lower", "leave") \/ Lower("lowerAtEnd", "leaveAtEnd")
    BY <1>1, <1>7 DEF AskHighSpeed, AfterHigh, Lower, ControllerTurns, ControllerStays
  <1> QED BY <1>2, <1>3, <1>4, <1>5, <1>6, <1>7 DEF ThreadStep

\* Every step of the thread uses up a number, but for the one that begins another
\* round because nobody has told it to stop; the user interface does not add to it,
\* unless it closes the port; and the signal to stop stays once the thread has begun
\* (VehicleLinkManager.cs:50-55, :84-155).
THEOREM QueryRunsOut ==
    ASSUME IsFiniteSet(Items)
    PROVE  Spec => [][/\ ThreadStep => (pc = "wait" /\ ~stop) \/ (Rank \in Nat /\ Rank' < Rank)
                      /\ (UiStep \/ UserStep) /\ ~Dispose => Rank' = Rank
                      /\ pc # "start" /\ stop => pc' # "start" /\ stop']_vars
  <1> DEFINE Runs ==
          /\ ThreadStep => (pc = "wait" /\ ~stop) \/ (Rank \in Nat /\ Rank' < Rank)
          /\ (UiStep \/ UserStep) /\ ~Dispose => Rank' = Rank
          /\ pc # "start" /\ stop => pc' # "start" /\ stop'
  <1>1. ASSUME QueryType, QueryType', TypeInv, TypeInv', [Next]_vars, ~(UNCHANGED vars) PROVE Runs
    <2>1. ThreadStep => (pc = "wait" /\ ~stop) \/ (Rank \in Nat /\ Rank' < Rank)
      BY <1>1, RankIsNumber, ThreadRunsOut
    <2>2. (UiStep \/ UserStep) /\ ~Dispose => Rank' = Rank
      <3> SUFFICES ASSUME UiStep \/ UserStep, ~Dispose PROVE Rank' = Rank
        OBVIOUS
      <3>1. UNCHANGED <<pc, left, setter, port>>
        BY DEF UiStep, UserStep, Tick, Visit, BeginGet, InGetter, GetterStep, ReadByte, Show, ClearFlag,
           ClearList, AddRange, SetStopSignal, WaitEnds, ChangeTab, Select, round, link, displayVars, list
      <3> QED BY <3>1 DEF Rank, PlaceRank, SetterRank, PortRank
    <2>3. pc # "start" /\ stop => pc' # "start" /\ stop'
      <3> SUFFICES ASSUME pc # "start", stop PROVE pc' # "start" /\ stop'
        OBVIOUS
      <3>1. CASE UiStep \/ UserStep
        BY <3>1 DEF UiStep, UserStep, Tick, Visit, InGetter, ClearList, AddRange, SetStopSignal, WaitEnds,
           ChangeTab, Select, Dispose
      <3>2. CASE ThreadStep
        BY <3>2 DEF ThreadStep, Start, Wait, Copy, BeginExcept, EndExcept, SetLoSpeed, AskHighSpeed, SetHiSpeed,
           SCIHiSpeedQuery, TakeHigh, AfterHigh, Lower, Leave, AskItem, RoundOver, InSetter, LeaveAtEnd,
           CommandFails, Reopen
      <3> QED BY <1>1, <3>1, <3>2 DEF Next
    <2> QED BY <2>1, <2>2, <2>3
  <1>2. QueryType /\ QueryType' /\ TypeInv /\ TypeInv' /\ [Next]_vars => [Runs]_vars
    BY <1>1
  <1>3. Init => DisplayInit
    BY DEF Init
  <1> QED BY <1>2, <1>3, QueryTypeInit, QueryTypeNext, QueryDisplays, TypeInvInit, TypeInvNext, PTL DEF Spec
===============================================================================
