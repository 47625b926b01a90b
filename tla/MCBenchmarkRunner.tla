--------------------------- MODULE MCBenchmarkRunner ---------------------------
(* Small instances of BenchmarkRunner for TLC. *)
EXTENDS BenchmarkRunner

(* Two questions, the second a follow-up of the first, and one that stands  *)
(* alone beyond them.                                                       *)
MCQuestions  == <<"q1", "q2", "q3">>
MCFollowUpTo == [q1 |-> "none", q2 |-> "q1", q3 |-> "none"]

(* An answered call keeps its conversation, a timeout drops it, and a       *)
(* failure can carry several guardrail signals.                             *)
Answered(s)    == [status |-> s, keeps |-> TRUE, signals |-> {}]
Unkept(s)      == [status |-> s, keeps |-> FALSE, signals |-> {}]
Signalled(set) == [status |-> "FAILED", keeps |-> FALSE, signals |-> set]

ThreeVariants == <<"direct_genie", "supervisor_mcp", "supervisor">>
OneVariant    == <<"direct_genie">>

Alarmed        == [Answered("COMPLETED") EXCEPT !.signals = {"auth"}]
GenieOutcomes  == {Answered("COMPLETED"), Unkept("TIMEOUT"), Signalled({"auth", "budget"}), Alarmed}

EvidenceOutcomes ==
  [direct_genie |-> GenieOutcomes, supervisor_mcp |-> {}, supervisor |-> {Answered("COMPLETED")}]
ShortOutcomes == [direct_genie |-> {Answered("COMPLETED"), Alarmed}]
==============================================================================
