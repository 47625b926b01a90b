----------------------------- MODULE MCCommandLine -----------------------------
(* CommandLine for TLC. The processes are interchangeable. *)
EXTENDS CommandLine, TLC

Symmetric == Permutations(Process)
==============================================================================
