---------------------------- MODULE MCSciEngine ----------------------------
(* Instances of SciEngine for TLC. *)
EXTENDS SciEngine

\* distinct bytes, so that two messages can be told apart
MCMessages == {<<1>>, <<2, 3>>, <<4, 5, 6, 7, 8>>}
MCReplies == {9}
=============================================================================
