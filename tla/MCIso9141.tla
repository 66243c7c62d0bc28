------------------------------ MODULE MCIso9141 ------------------------------
(* Instances of Iso9141 for TLC. *)
EXTENDS Iso9141

MCMessages == {<<1>>, <<250, 10>>}
MCAnswer == <<85, 8, 8>>
MCChatter == {9}
===============================================================================
