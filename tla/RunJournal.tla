------------------------------ MODULE RunJournal ------------------------------
(***************************************************************************)
(* What runner.py promises of the evidence it keeps                        *)
(* (src/src/genie_benchmark/runner.py:3-8 and 77-78), free of how it does  *)
(* it: one file holds the rows of the latest run that opened it.           *)
(*   - Whoever opens the file at any moment finds a whole document.        *)
(*   - An agent is called only when every earlier call has its row in the  *)
(*     file, so one call at most is ever unaccounted for.                  *)
(*   - Rows are only added at the end, one at a time.                      *)
(*   - A document is closed once; a closed document takes no more rows and *)
(*     no more calls are made for it.                                      *)
(* BenchmarkRunner implements this specification.                          *)
(***************************************************************************)
EXTENDS Integers, Sequences

VARIABLES
  run,      (* number of the latest run started, 0 before the first        *)
  made,     (* agent calls that run has made                               *)
  file      (* [run, rows, status]: run 0 is "no file yet"                 *)

journal == <<run, made, file>>

ClosedStatus == {"completed", "stopped", "interrupted"}

Current == file.run = run
Open    == Current /\ file.status = "running"

(* new holds the rows of old and one more. *)
ExtendsByOne(old, new) ==
  /\ Len(new) = Len(old) + 1
  /\ \A i \in 1..Len(old) : new[i] = old[i]

Init ==
  /\ run = 1
  /\ made = 0
  /\ file = [run |-> 0, rows |-> <<>>, status |-> "absent"]

(* Another run of the harness on the same output directory. The document of *)
(* the run before it stays until Create.                                    *)
Restart ==
  /\ run' = run + 1
  /\ made' = 0
  /\ UNCHANGED file

(* The new run's empty document takes the place of whatever was there. *)
Create ==
  /\ ~Current
  /\ file' = [run |-> run, rows |-> <<>>, status |-> "running"]
  /\ UNCHANGED <<run, made>>

Call ==
  /\ Open
  /\ made = Len(file.rows)
  /\ made' = made + 1
  /\ UNCHANGED <<run, file>>

Record ==
  /\ Open
  /\ made = Len(file.rows) + 1
  /\ ExtendsByOne(file.rows, file'.rows)
  /\ file' = [run |-> run, rows |-> file'.rows, status |-> "running"]
  /\ UNCHANGED <<run, made>>

(* Closing may bring the last call's row along with it. *)
Close ==
  /\ Open
  /\ \/ file'.rows = file.rows
     \/ made = Len(file.rows) + 1 /\ ExtendsByOne(file.rows, file'.rows)
  /\ file'.status \in ClosedStatus
  /\ file' = [run |-> run, rows |-> file'.rows, status |-> file'.status]
  /\ UNCHANGED <<run, made>>

Next == Restart \/ Create \/ Call \/ Record \/ Close

Spec == Init /\ [][Next]_journal
==============================================================================
