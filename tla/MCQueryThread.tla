---------------------------- MODULE MCQueryThread ----------------------------
(* Instances of QueryThread for TLC. *)
EXTENDS QueryThread

CONSTANTS h, l      \* an item of high speed, whose value never changes, and one of low

MCItems == {h, l}
MCReadings == [i \in MCItems |-> IF i = h THEN {<<7>>} ELSE {<<1, 1>>, <<2, 2>>}]
MCLists == {{h}, {l}, {h, l}}
===============================================================================
