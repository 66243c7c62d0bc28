---------------------------- MODULE MCCommHandler ----------------------------
(* Instances of CommHandler for TLC. *)
EXTENDS CommHandler

AllProtocols == {"SCI", "CCD", "J1850"}
===============================================================================
