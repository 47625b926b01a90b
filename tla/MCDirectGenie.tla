----------------------------- MODULE MCDirectGenie -----------------------------
(* DirectGenie for TLC: its constants are numbers, given in the .cfg files. *)
EXTENDS DirectGenie
==============================================================================
