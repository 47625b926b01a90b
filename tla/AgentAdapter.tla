----------------------------- MODULE AgentAdapter -----------------------------
(***************************************************************************)
(* The contract every invocation path implements                           *)
(* (src/src/genie_benchmark/adapters/base.py:38-56): one question gets one *)
(* row, whatever goes wrong, and the request that creates state at the     *)
(* agent is sent once at most. DirectGenie implements it.                  *)
(***************************************************************************)
EXTENDS Integers, Sequences

VARIABLES
  asked,    (* questions handed to the adapter                             *)
  posts,    (* state-creating requests sent for the latest of them         *)
  answers   (* statuses of the rows returned                               *)

contract == <<asked, posts, answers>>

AnswerStatus == {"COMPLETED", "FAILED", "TIMEOUT", "NOT_CONFIGURED"}

Busy == asked = Len(answers) + 1

Init ==
  /\ asked = 0
  /\ posts = 0
  /\ answers = <<>>

Ask ==
  /\ ~Busy
  /\ asked' = asked + 1
  /\ posts' = 0
  /\ UNCHANGED answers

Post ==
  /\ Busy
  /\ posts = 0
  /\ posts' = 1
  /\ UNCHANGED <<asked, answers>>

Return(status) ==
  /\ Busy
  /\ answers' = Append(answers, status)
  /\ UNCHANGED <<asked, posts>>

Next == Ask \/ Post \/ \E status \in AnswerStatus : Return(status)

(* What an adapter may do; and that it answers, once it is asked. *)
Safety == Init /\ [][Next]_contract

Spec == Safety /\ WF_contract(\E status \in AnswerStatus : Return(status))
==============================================================================
