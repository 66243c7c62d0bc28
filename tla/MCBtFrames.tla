------------------------------ MODULE MCBtFrames ------------------------------
(* Instances of BtFrames for TLC. *)
EXTENDS BtFrames

\* a stack slot that looks like a newline, and one that does not
NewlineOrZero == {0, 10}
\* the payload byte is a newline too
OneByte == {<<10>>}
SomeCommands == {5, 6, 8}
MaybeNewline == {<<>>, <<10>>}
SciOnly == {60}
===============================================================================
