------------------------------- MODULE MCBtRing -------------------------------
(* Instances of BtRing for TLC. *)
EXTENDS BtRing

\* the bytes that occur
MCByte == {0, 1, 7, 10, 43, 60, 64, 66, 99, 128}
ShortPayload == {<<7>>}
\* a lone zero on the CCD bus is reported without a payload
EmptyOrShort == {<<>>, <<7>>}
\* one SCI report number; RC_SUCCESS
SciOnly == {60}
Success == {64}
NoBytes == {}
OneForeign == {99}
\* No step asks what the array holds, and turning the whole ring by a cell turns
\* every step with it: TLC keeps one state of all that differ in these only.
Counts == <<Live, fill, bare>>
===============================================================================
