---------------------------- MODULE BenchmarkRunner ----------------------------
(***************************************************************************)
(* runner.py: the serial orchestrator (run_benchmark) and the ResultStore  *)
(* it persists every row with, from construction to finalize.              *)
(*                                                                         *)
(* One process runs the plan. Three things happen to it at any step: time  *)
(* passes, the user presses Ctrl-C (KeyboardInterrupt, caught only inside  *)
(* the try of runner.py:196-251), or the process ends without finalize (a  *)
(* kill, or an exception run_benchmark does not catch: an OSError of a     *)
(* flush, a Ctrl-C outside the try). A run can then be started again on    *)
(* the same output directory.                                              *)
(*                                                                         *)
(* The data is abstracted: a row keeps its plan slot, status, conversation,*)
(* the families of guardrail signals found in its error and warnings, and  *)
(* its completion time. A conversation is named by the plan slot whose     *)
(* call opened it.                                                         *)
(*                                                                         *)
(* An operator X_Y is X with a plausible mistake, Y, in it: no definition  *)
(* uses one, they show that the properties notice.                         *)
(***************************************************************************)
EXTENDS Integers, Sequences, FiniteSets

CONSTANTS
  Questions,     (* the loaded ids, in file order; questions.py:58-59      *)
                 (* rejects a file that repeats one                        *)
  FollowUpTo,    (* each id's follow_up_to, or NoQuestion                  *)
  NoQuestion,
  Variants,      (* config.variants, a sequence                            *)
  Adapters,      (* the variants the caller passes an adapter for          *)
  Repetitions,   (* config.repetitions                                     *)
  MaxQuestions,  (* config.max_questions                                   *)
  MaxRuntime,    (* config.max_runtime_seconds in ticks, or NoLimit        *)
  NoLimit,
  Outcomes,      (* each variant's possible answers                        *)
  SpanFaults,    (* reasons mlflow.start_span can fail for                 *)
  MaxTime,       (* bound: the clock stops here                            *)
  MaxRuns        (* bound: runs on one output directory                    *)

RunStatus == {"COMPLETED", "FAILED", "TIMEOUT", "SKIPPED", "NOT_CONFIGURED"}
Signals   == {"auth", "budget", "loop"}

(* What an adapter can answer: a status, whether conversation_id is set,   *)
(* and the signal families its error and warnings contain.                 *)
Outcome == [status: RunStatus, keeps: BOOLEAN, signals: SUBSET Signals]

SeqRange(s) == {s[i] : i \in DOMAIN s}

ASSUME PlanAssumption ==
  /\ Questions \in Seq(SeqRange(Questions))
  /\ Variants \in Seq(SeqRange(Variants))
  /\ FollowUpTo \in [SeqRange(Questions) -> SeqRange(Questions) \cup {NoQuestion}]
  /\ NoQuestion \notin SeqRange(Questions)
  /\ \A i, j \in DOMAIN Questions : Questions[i] = Questions[j] => i = j
  /\ Repetitions \in Nat \ {0}
  /\ MaxQuestions \in Nat \ {0}
  /\ Adapters \subseteq SeqRange(Variants)
ASSUME OutcomeAssumption == Outcomes \in [SeqRange(Variants) -> SUBSET Outcome]
ASSUME TimeAssumption ==
  /\ MaxRuntime \in Nat \cup {NoLimit}
  /\ NoLimit \notin Nat
  /\ MaxTime \in Nat
  /\ MaxRuns \in Nat \ {0}

VARIABLES
  pc,            (* where run_benchmark is                                 *)
  flushFor,      (* who called _flush: "init", "add" or "final"            *)
  run,           (* run_id, numbered in the order the runs start           *)
  cursor,        (* the loop's position in the plan                        *)
  result,        (* the local the adapter's answer is bound to             *)
  conversations, (* (question, variant) -> conversation, for follow-ups    *)
  verdict,       (* the locals status and stop_reason                      *)
  metadata,      (* RunMetadata                                            *)
  results,       (* ResultStore.results                                    *)
  clock,         (* monotonic time since the deadline was computed         *)
  tmp,           (* benchmark_results.json.tmp                             *)
  disk,          (* benchmark_results.json                                 *)
  calls          (* the agents' own ledger of this run's calls             *)

memory == <<run, cursor, result, conversations, verdict, metadata, results>>
files  == <<tmp, disk>>
vars   == <<pc, flushFor, memory, clock, files, calls>>

-----------------------------------------------------------------------------
(* The plan: questions[:max_questions] x variants x repetitions, with the  *)
(* question varying slowest.                                               *)

Selected == IF MaxQuestions < Len(Questions) THEN MaxQuestions ELSE Len(Questions)

PlanLength == Selected * Len(Variants) * Repetitions
Slots      == 1..PlanLength

Plan ==
  [k \in Slots |->
    [question |-> Questions[((k - 1) \div (Len(Variants) * Repetitions)) + 1],
     variant  |-> Variants[(((k - 1) \div Repetitions) % Len(Variants)) + 1]]]

Key(k) == <<Plan[k].question, Plan[k].variant>>

NoConversation == 0
Conversation   == Slots \cup {NoConversation}

Row == [slot: Slots, status: RunStatus, conversation: Conversation,
        signals: SUBSET Signals, done: Nat]

NoRow == [slot |-> 0, status |-> "SKIPPED", conversation |-> NoConversation,
          signals |-> {}, done |-> 0]

(* classify_guardrail: authorization before budget before loop. *)
StopReason == {"none", "deadline", "user", "authorization", "budget", "loop"}

ClassifyGuardrail_FailedOnly(row) ==
  IF row.status = "FAILED" /\ "auth" \in row.signals THEN "authorization"
  ELSE IF "budget" \in row.signals THEN "budget"
  ELSE IF "loop" \in row.signals THEN "loop"
  ELSE "none"

ClassifyGuardrail(row) ==
  IF "auth" \in row.signals THEN "authorization"
  ELSE IF "budget" \in row.signals THEN "budget"
  ELSE IF "loop" \in row.signals THEN "loop"
  ELSE "none"

-----------------------------------------------------------------------------
(* The store. A document is what _flush serializes; Absent and Torn stand  *)
(* for no file and for one write_text has opened and not finished.         *)

RunState == {"running", "completed", "stopped", "interrupted"}
Tally(rows) ==
  [s \in RunStatus |-> Cardinality({i \in 1..Len(rows) : rows[i].status = s})]
NoCounts == [s \in RunStatus |-> 0]

Document(r, m, rows) ==
  [run |-> r, status |-> m.status, reason |-> m.reason, counts |-> m.counts,
   warnings |-> m.warnings, rows |-> rows]

OpenMetadata == [status |-> "running", reason |-> "none", counts |-> NoCounts,
                 warnings |-> <<>>]

Absent == [Document(0, OpenMetadata, <<>>) EXCEPT !.status = "absent"]
Torn   == [Document(0, OpenMetadata, <<>>) EXCEPT !.status = "torn"]

Payload == Document(run, metadata, results)

-----------------------------------------------------------------------------
Init ==
  /\ pc = "boot"
  /\ flushFor = "init"
  /\ run = 1
  /\ cursor = 1
  /\ result = NoRow
  /\ conversations = [key \in SeqRange(Questions) \X SeqRange(Variants) |-> NoConversation]
  /\ verdict = [status |-> "completed", reason |-> "none"]
  /\ metadata = OpenMetadata
  /\ results = <<>>
  /\ clock = 0
  /\ tmp = Absent
  /\ disk = Absent
  /\ calls = <<>>

(* The ResultStore is constructed, which flushes the empty document. *)
Construct ==
  /\ pc = "boot"
  /\ pc' = "flush"
  /\ flushFor' = "init"
  /\ UNCHANGED <<memory, clock, files, calls>>

(* _flush, one action per change another process could see: write_text     *)
(* truncates the temporary file, fills it, and replace() renames it over   *)
(* the results file.                                                       *)
OpenTmp_InPlace ==
  /\ pc = "flush"
  /\ disk' = Torn
  /\ pc' = "write"
  /\ UNCHANGED <<flushFor, memory, clock, tmp, calls>>

OpenTmp ==
  /\ pc = "flush"
  /\ tmp' = Torn
  /\ pc' = "write"
  /\ UNCHANGED <<flushFor, memory, clock, disk, calls>>

FillTmp ==
  /\ pc = "write"
  /\ tmp' = Payload
  /\ pc' = "replace"
  /\ UNCHANGED <<flushFor, memory, clock, disk, calls>>

(* After the rename the caller goes on: after __init__ with the deadline,  *)
(* after add with the row's conversation, after finalize with the return.  *)
AfterFlush ==
  CASE flushFor = "init"  -> "loop"
    [] flushFor = "add"   -> "classify"
    [] flushFor = "final" -> "done"

ReplaceFile ==
  /\ pc = "replace"
  /\ disk' = tmp
  /\ tmp' = Absent
  /\ pc' = AfterFlush
  /\ UNCHANGED <<flushFor, memory, clock, calls>>

-----------------------------------------------------------------------------
(* The loop of run_benchmark. *)

MoreToRun == cursor <= PlanLength

DeadlinePassed_Late == MaxRuntime # NoLimit /\ clock > MaxRuntime
DeadlinePassed == MaxRuntime # NoLimit /\ clock >= MaxRuntime

EndOfPlan ==
  /\ pc = "loop"
  /\ ~MoreToRun
  /\ pc' = "finalize"
  /\ UNCHANGED <<flushFor, memory, clock, files, calls>>

StopAtDeadline ==
  /\ pc = "loop"
  /\ MoreToRun /\ DeadlinePassed
  /\ verdict' = [status |-> "stopped", reason |-> "deadline"]
  /\ pc' = "finalize"
  /\ UNCHANGED <<flushFor, run, cursor, result, conversations, metadata, results,
                 clock, files, calls>>

SkipVariant_Stuck ==
  /\ pc = "loop"
  /\ MoreToRun /\ ~DeadlinePassed
  /\ Plan[cursor].variant \notin Adapters
  /\ UNCHANGED vars

SkipVariant_Break ==
  /\ pc = "loop"
  /\ MoreToRun /\ ~DeadlinePassed
  /\ Plan[cursor].variant \notin Adapters
  /\ pc' = "finalize"
  /\ UNCHANGED <<flushFor, memory, clock, files, calls>>

SkipVariant ==
  /\ pc = "loop"
  /\ MoreToRun /\ ~DeadlinePassed
  /\ Plan[cursor].variant \notin Adapters
  /\ cursor' = cursor + 1
  /\ UNCHANGED <<pc, flushFor, run, result, conversations, verdict, metadata, results,
                 clock, files, calls>>

(* conversations.get((follow_up_to, variant)) for a follow-up, else None. *)
ReuseId(k) ==
  LET parent == FollowUpTo[Plan[k].question]
  IN IF parent = NoQuestion THEN NoConversation
     ELSE conversations[<<parent, Plan[k].variant>>]

RecordSpanDegraded(reason) ==
  /\ reason \notin SeqRange(metadata.warnings)
  /\ metadata' = [metadata EXCEPT !.warnings = Append(@, reason)]

(* Opening the span may record a degradation, once per reason; the call    *)
(* goes out in the conversation to reuse or opens one of its own.          *)
Invoke ==
  /\ pc = "loop"
  /\ MoreToRun /\ ~DeadlinePassed
  /\ Plan[cursor].variant \in Adapters
  /\ UNCHANGED metadata \/ \E reason \in SpanFaults : RecordSpanDegraded(reason)
  /\ calls' = Append(calls,
       [slot |-> cursor, answered |-> FALSE,
        conversation |-> IF ReuseId(cursor) = NoConversation THEN cursor ELSE ReuseId(cursor)])
  /\ pc' = "invoke"
  /\ UNCHANGED <<flushFor, run, cursor, result, conversations, verdict, results,
                 clock, files>>

(* adapter.invoke returns. An adapter answers with a row for every error   *)
(* (adapters/base.py:50-54), so there is no action for one that raises.    *)
Answer ==
  /\ pc = "invoke"
  /\ \E o \in Outcomes[Plan[cursor].variant] :
       result' = [slot |-> cursor, status |-> o.status, signals |-> o.signals, done |-> clock,
                  conversation |-> IF o.keeps THEN calls[Len(calls)].conversation
                                   ELSE NoConversation]
  /\ calls' = [calls EXCEPT ![Len(calls)].answered = TRUE]
  /\ pc' = "returned"
  /\ UNCHANGED <<flushFor, run, cursor, conversations, verdict, metadata, results,
                 clock, files>>

(* store.add: the row joins results, and then the flush. *)
Add_NoFlush ==
  /\ pc = "returned"
  /\ results' = Append(results, result)
  /\ pc' = "classify"
  /\ flushFor' = "add"
  /\ UNCHANGED <<run, cursor, result, conversations, verdict, metadata, clock, files, calls>>

Add ==
  /\ pc = "returned"
  /\ results' = Append(results, result)
  /\ pc' = "flush"
  /\ flushFor' = "add"
  /\ UNCHANGED <<run, cursor, result, conversations, verdict, metadata, clock, files, calls>>

(* The row's conversation is remembered if it has one, then a guardrail    *)
(* breaks out of the loop.                                                 *)
Remember_FailuresToo(row) ==
  conversations' = [conversations EXCEPT ![Key(row.slot)] = row.conversation]

Remember(row) ==
  conversations' = IF row.conversation = NoConversation THEN conversations
                   ELSE [conversations EXCEPT ![Key(row.slot)] = row.conversation]

Classify ==
  /\ pc = "classify"
  /\ Remember(result)
  /\ \/ /\ ClassifyGuardrail(result) = "none"
        /\ cursor' = cursor + 1
        /\ pc' = "loop"
        /\ UNCHANGED verdict
     \/ /\ ClassifyGuardrail(result) # "none"
        /\ verdict' = [status |-> "stopped", reason |-> ClassifyGuardrail(result)]
        /\ pc' = "finalize"
        /\ UNCHANGED cursor
  /\ UNCHANGED <<flushFor, run, result, metadata, results, clock, files, calls>>

(* ResultStore.finalize, after the loop and outside its try. *)
Finalize_StaleCounts ==
  /\ pc = "finalize"
  /\ metadata' = [metadata EXCEPT !.status = verdict.status, !.reason = verdict.reason,
                                  !.counts = Tally(disk.rows)]
  /\ pc' = "flush"
  /\ flushFor' = "final"
  /\ UNCHANGED <<run, cursor, result, conversations, verdict, results, clock, files, calls>>

Finalize_SwappedArguments ==
  /\ pc = "finalize"
  /\ metadata' = [metadata EXCEPT !.status = verdict.reason, !.reason = verdict.status,
                                  !.counts = Tally(results)]
  /\ pc' = "flush"
  /\ flushFor' = "final"
  /\ UNCHANGED <<run, cursor, result, conversations, verdict, results, clock, files, calls>>

Finalize ==
  /\ pc = "finalize"
  /\ metadata' = [metadata EXCEPT !.status = verdict.status, !.reason = verdict.reason,
                                  !.counts = Tally(results)]
  /\ pc' = "flush"
  /\ flushFor' = "final"
  /\ UNCHANGED <<run, cursor, result, conversations, verdict, results, clock, files, calls>>

-----------------------------------------------------------------------------
(* What happens to the process. *)

Flushing == pc \in {"flush", "write", "replace"}
InTry ==
  \/ pc \in {"loop", "invoke", "returned", "classify"}
  \/ Flushing /\ flushFor = "add"

Interrupt_NextQuestion ==
  /\ InTry
  /\ MoreToRun
  /\ cursor' = cursor + 1
  /\ pc' = "loop"
  /\ UNCHANGED <<flushFor, run, result, conversations, verdict, metadata, results,
                 clock, files, calls>>

Interrupt ==
  /\ InTry
  /\ verdict' = [status |-> "interrupted", reason |-> "user"]
  /\ pc' = "finalize"
  /\ UNCHANGED <<flushFor, run, cursor, result, conversations, metadata, results,
                 clock, files, calls>>

Die ==
  /\ pc \notin {"done", "dead"}
  /\ pc' = "dead"
  /\ UNCHANGED <<flushFor, memory, clock, files, calls>>

Tick ==
  /\ InTry
  /\ clock < MaxTime
  /\ clock' = clock + 1
  /\ UNCHANGED <<pc, flushFor, memory, files, calls>>

(* `benchmark run` again: a new process, the same output directory. *)
Rerun ==
  /\ pc \in {"done", "dead"}
  /\ run < MaxRuns
  /\ run' = run + 1
  /\ pc' = "boot"
  /\ flushFor' = "init"
  /\ cursor' = 1
  /\ result' = NoRow
  /\ conversations' = [key \in SeqRange(Questions) \X SeqRange(Variants) |-> NoConversation]
  /\ verdict' = [status |-> "completed", reason |-> "none"]
  /\ metadata' = OpenMetadata
  /\ results' = <<>>
  /\ clock' = 0
  /\ calls' = <<>>
  /\ UNCHANGED files

Program ==
  \/ Construct \/ OpenTmp \/ FillTmp \/ ReplaceFile
  \/ EndOfPlan \/ StopAtDeadline \/ SkipVariant \/ Invoke \/ Answer \/ Add \/ Classify
  \/ Finalize

Next == Program \/ Interrupt \/ Die \/ Tick \/ Rerun

Spec == Init /\ [][Next]_vars

(* The process keeps running and its agents answer; nobody has to press    *)
(* Ctrl-C, kill it or start another run.                                   *)
FairSpec == Spec /\ WF_vars(Program)

-----------------------------------------------------------------------------
CallType == [slot: Slots, answered: BOOLEAN, conversation: Slots]

MetadataType ==
  [status: RunState, reason: StopReason, counts: [RunStatus -> Nat], warnings: Seq(SpanFaults)]

DocumentType ==
  [run: Nat, status: RunState \cup {"absent", "torn"}, reason: StopReason,
   counts: [RunStatus -> Nat], warnings: Seq(SpanFaults), rows: Seq(Row)]

(* The type invariant of run_benchmark's locals, the store and its files. *)
TypeOK ==
  /\ pc \in {"boot", "flush", "write", "replace", "loop", "invoke", "returned",
             "classify", "finalize", "done", "dead"}
  /\ flushFor \in {"init", "add", "final"}
  /\ run \in Nat \ {0}
  /\ cursor \in 1..(PlanLength + 1)
  /\ result \in Row \cup {NoRow}
  /\ conversations \in [SeqRange(Questions) \X SeqRange(Variants) -> Conversation]
  /\ verdict \in [status: RunState \ {"running"}, reason: StopReason]
  /\ metadata \in MetadataType
  /\ results \in Seq(Row)
  /\ clock \in Nat
  /\ tmp \in DocumentType
  /\ disk \in DocumentType
  /\ calls \in Seq(CallType)

(* The results file holds this run's document. *)
Current == disk.run = run
Closed  == Current /\ disk.status # "running"

(* Whenever anyone opens the results file - a report, or a reader after a  *)
(* kill between any two steps of a flush - it is a whole document          *)
(* (runner.py:77-78), and once the store of a run is constructed it is     *)
(* that run's.                                                             *)
WholeDocument ==
  /\ disk.status # "torn"
  /\ pc \in {"loop", "invoke", "returned", "classify", "finalize", "done"} => Current

(* The agents' ledger and the file agree: the rows of the file are the     *)
(* calls made, in order, but for the last call at most, whatever step the  *)
(* run is killed at; and no call is outstanding while an earlier answer is *)
(* only in memory (runner.py:236 persists before the next iteration).      *)
CallsAccountedFor ==
  Current =>
    /\ Len(calls) - Len(disk.rows) \in {0, 1}
    /\ \A i \in 1..Len(disk.rows) : disk.rows[i].slot = calls[i].slot
    /\ pc = "invoke" => Len(calls) = Len(disk.rows) + 1

(* A closed document is everything the run's memory held, its counts are   *)
(* those of the rows it carries, and nothing of it changes after; also     *)
(* when Ctrl-C struck between a row's append and its flush.                *)
ClosedDocumentComplete ==
  Closed => /\ disk.rows = results
            /\ disk.counts = Tally(disk.rows)
            /\ disk.warnings = metadata.warnings
            /\ (disk.status = "completed") <=> (disk.reason = "none")

(* "completed" is said only of a run that made every call of the plan      *)
(* (runner.py:133-143): for each selected question and each variant with   *)
(* an adapter, as many rows as the config asks for, none with a guardrail  *)
(* signal.                                                                 *)
RowsOf(doc, question, variant) ==
  {i \in DOMAIN doc.rows : Key(doc.rows[i].slot) = <<question, variant>>}

CompletedMeansWholePlan ==
  Closed /\ disk.status = "completed" =>
    /\ \A q \in 1..Selected, v \in Adapters :
         Cardinality(RowsOf(disk, Questions[q], v)) =
           Repetitions * Cardinality({i \in DOMAIN Variants : Variants[i] = v})
    /\ \A i \in DOMAIN disk.rows : disk.rows[i].signals = {}

(* A guardrail trip is the end of the run: no call goes out after an       *)
(* answer that carries an authorization, budget or loop signal, and a      *)
(* "stopped" document ends with the row that names its reason, unless the  *)
(* deadline stopped it (runner.py:115-130, 241-245).                       *)
GuardrailEndsRun ==
  /\ \A i \in DOMAIN results : results[i].signals # {} => i = Len(calls)
  /\ Closed /\ disk.status = "stopped" /\ disk.reason # "deadline" =>
       /\ disk.rows # <<>>
       /\ ClassifyGuardrail(disk.rows[Len(disk.rows)]) = disk.reason

(* The run overruns max_runtime_seconds by one call at most: two rows      *)
(* never both complete at or after the deadline (runner.py:198-201).       *)
OneCallOverDeadline ==
  MaxRuntime # NoLimit =>
    \A i, j \in DOMAIN results :
      results[i].done >= MaxRuntime /\ results[j].done >= MaxRuntime => i = j

(* An independent question is asked in a conversation of its own. A        *)
(* follow-up is asked in the one that its parent's latest row of the same  *)
(* variant kept, and in one of its own only when no such row exists        *)
(* (runner.py:3-5, 207-209, 238-239).                                      *)
ParentRows(k) ==
  {i \in DOMAIN results :
     /\ results[i].slot < k
     /\ results[i].conversation # NoConversation
     /\ Key(results[i].slot) = <<FollowUpTo[Plan[k].question], Plan[k].variant>>}

FollowUpContext ==
  \A c \in DOMAIN calls :
    LET k == calls[c].slot
    IN \/ ParentRows(k) = {} /\ calls[c].conversation = k
       \/ \E i \in ParentRows(k) : /\ \A j \in ParentRows(k) : j <= i
                                   /\ calls[c].conversation = results[i].conversation

(* Every run that constructs its store closes its document or dies: the    *)
(* plan is finite and every way out of the loop passes finalize.           *)
RunCloses == (pc = "loop") ~> (Closed \/ pc = "dead")

(* The store implements the journal runner.py promises. *)
Journal ==
  INSTANCE RunJournal WITH
    made <- Len(calls),
    file <- [run |-> disk.run, rows |-> disk.rows, status |-> disk.status]
JournalSpec == Journal!Spec

-----------------------------------------------------------------------------
(* The inductive invariant behind the safety properties: what each phase   *)
(* of a run knows of the file, the store and the agents' ledger.           *)
Starting  == pc = "boot" \/ (Flushing /\ flushFor = "init")
InLoop    == pc \in {"loop", "invoke", "returned", "classify"}
Adding    == Flushing /\ flushFor = "add"
Ending    == pc = "finalize" \/ (Flushing /\ flushFor = "final")
Finalized == pc = "done" \/ (Flushing /\ flushFor = "final")

(* The file is the previous run's until the first flush, then this run's   *)
(* and open, and closed once the last flush is over.                       *)
StoreInv ==
  /\ disk.run <= run /\ disk.status # "torn"
  /\ Starting => disk.run < run /\ metadata.status = "running"
  /\ InLoop \/ Adding \/ Ending => Current /\ disk.status = "running"
  /\ InLoop \/ Adding \/ pc = "finalize" => metadata.status = "running"
  /\ pc = "replace" => tmp = Payload
  /\ pc = "done" => disk = Payload
  /\ pc = "dead" /\ Current => disk.status = "running"
  /\ verdict.status = "completed" <=> verdict.reason = "none"
  /\ Finalized => /\ metadata.status = verdict.status
                  /\ metadata.reason = verdict.reason
                  /\ metadata.counts = Tally(results)

(* The store follows the ledger, and the file follows the store, each at   *)
(* most one behind and never both.                                         *)
LedgerInv ==
  /\ Starting => results = <<>> /\ calls = <<>>
  /\ Len(results) <= Len(calls)
  /\ \A i \in 1..Len(results) : results[i].slot = calls[i].slot
  /\ pc \in {"loop", "classify"} \/ Adding => Len(calls) = Len(results)
  /\ pc \in {"invoke", "returned"} =>
       Len(calls) = Len(results) + 1 /\ calls[Len(calls)].slot = cursor
  /\ pc = "returned" => result.slot = cursor
  /\ Current => /\ Len(disk.rows) <= Len(results)
                /\ Len(calls) <= Len(disk.rows) + 1
                /\ \A i \in 1..Len(disk.rows) : disk.rows[i] = results[i]
  /\ InLoop => disk.rows = results
  /\ Adding => Len(results) = Len(disk.rows) + 1

(* Rows are clean until the last, and the verdict is the last row's.       *)
Tripped == verdict.reason \in {"authorization", "budget", "loop"}

GuardrailInv ==
  /\ Starting \/ InLoop \/ Adding => verdict.status = "completed"
  /\ verdict.status = "stopped" => verdict.reason = "deadline" \/ Tripped
  /\ Tripped => results # <<>> /\ ClassifyGuardrail(results[Len(results)]) = verdict.reason
  /\ pc = "classify" \/ Adding => results # <<>> /\ results[Len(results)] = result
  /\ pc \in {"loop", "invoke", "returned"} =>
       \A i \in 1..Len(results) : results[i].signals = {}
  /\ \A i \in 1..Len(results) : results[i].signals # {} => i = Len(calls)

IInv == StoreInv /\ LedgerInv /\ GuardrailInv

(* The calls go through the plan in order and leave out no variant that    *)
(* has an adapter; a run that ends as completed has reached its end, with  *)
(* clean rows only.                                                        *)
ProgressInv ==
  /\ \A c \in 1..Len(calls) : /\ calls[c].slot <= cursor
                              /\ pc = "loop" => calls[c].slot < cursor
                              /\ Plan[calls[c].slot].variant \in Adapters
  /\ \A c, d \in 1..Len(calls) : c < d => calls[c].slot < calls[d].slot
  /\ pc = "classify" \/ Adding => calls # <<>> /\ calls[Len(calls)].slot = cursor
  /\ \A k \in 1..(cursor - 1) :
       Plan[k].variant \in Adapters => \E i \in 1..Len(results) : results[i].slot = k
  /\ (Ending \/ pc = "done") /\ verdict.status = "completed" =>
       cursor = PlanLength + 1 /\ \A i \in 1..Len(results) : results[i].signals = {}

(* The conversations remembered are those of the latest rows that kept     *)
(* one; a row just added is remembered after its flush.                    *)
Kept(row, key) == row.conversation # NoConversation /\ Key(row.slot) = key

Recalls(rows, n, key, conversation) ==
  \/ /\ conversation = NoConversation
     /\ \A i \in 1..n : ~Kept(rows[i], key)
  \/ \E i \in 1..n : /\ Kept(rows[i], key)
                     /\ conversation = rows[i].conversation
                     /\ \A j \in 1..n : Kept(rows[j], key) => j <= i

Remembered == IF pc = "classify" \/ Adding THEN Len(results) - 1 ELSE Len(results)

MemoryInv ==
  /\ Starting => \A key \in SeqRange(Questions) \X SeqRange(Variants) :
                   conversations[key] = NoConversation
  /\ InLoop \/ Adding =>
       \A key \in SeqRange(Questions) \X SeqRange(Variants) :
         Recalls(results, Remembered, key, conversations[key])

-----------------------------------------------------------------------------
(* runner.py:248 says of a run the user interrupts that "completed results *)
(* were preserved": every call that was answered has its row.              *)
InterruptPreservesAnswers ==
  Closed /\ disk.status = "interrupted" =>
    \A i \in DOMAIN calls : calls[i].answered => i \in DOMAIN disk.rows
==============================================================================
