----------------------------- MODULE MCCcdEngine -----------------------------
(* Instances of CcdEngine for TLC. *)
EXTENDS CcdEngine

\* right sums, a lone zero, and a wrong sum
MCMessages == {<<{0}, {1}, {0, 1}>>, <<{1}, {1}>>, <<{}>>, <<{0, 1}, {0}>>}
===============================================================================
