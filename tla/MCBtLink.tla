------------------------------- MODULE MCBtLink -------------------------------
(* Instances of BtLink for TLC. *)
EXTENDS BtLink

MCByte == {0, 1, 8, 10, 43, 60, 66, 128}
\* a lone zero on the CCD bus is reported without a payload
TwoReports == {<<>>, <<8>>}
SciOnly == {60}
NoBytes == {}
===============================================================================
