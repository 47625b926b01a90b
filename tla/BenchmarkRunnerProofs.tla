------------------------- MODULE BenchmarkRunnerProofs -------------------------
(***************************************************************************)
(* Theorems about BenchmarkRunner, for every plan, every set of outcomes,  *)
(* and any number of runs, kills and interrupts.                           *)
(***************************************************************************)
EXTENDS BenchmarkRunner, FiniteSetTheorems, TLAPS

LEMMA DivBound ==
  ASSUME NEW a \in Nat, NEW m \in Nat \ {0}, NEW s \in Nat, a < s * m
  PROVE  a \div m \in 0..(s - 1)
<1>1. a \div m \in Nat /\ a = m * (a \div m) + (a % m) /\ a % m \in 0..(m - 1)
  OBVIOUS
<1>2. SUFFICES ASSUME a \div m >= s PROVE FALSE
  BY <1>1
<1>3. m * (a \div m) >= m * s
  BY <1>1, <1>2
<1>4. QED
  BY <1>1, <1>3

LEMMA PlanType ==
  ASSUME NEW k \in Slots
  PROVE  /\ Plan[k].question \in SeqRange(Questions)
         /\ Plan[k].variant \in SeqRange(Variants)
         /\ Key(k) \in SeqRange(Questions) \X SeqRange(Variants)
<1> DEFINE V == Len(Variants)
           M == V * Repetitions
<1>1. V \in Nat /\ Len(Questions) \in Nat /\ Repetitions \in Nat \ {0} /\ MaxQuestions \in Nat
  BY PlanAssumption
<1>2. Selected \in Nat /\ Selected <= Len(Questions)
  BY <1>1 DEF Selected
<1>3. M \in Nat /\ PlanLength = Selected * M /\ PlanLength \in Nat
  BY <1>1, <1>2 DEF PlanLength
<1>4. k - 1 \in Nat /\ k - 1 < Selected * M
  BY <1>3 DEF Slots
<1>5. M # 0 /\ V # 0
  BY <1>1, <1>2, <1>3, <1>4
<1>6. (k - 1) \div M \in 0..(Selected - 1)
  BY <1>2, <1>3, <1>4, <1>5, DivBound
<1>7. ((k - 1) \div Repetitions) % V \in 0..(V - 1)
  BY <1>1, <1>4, <1>5
<1>8. Plan[k].question = Questions[((k - 1) \div M) + 1]
  BY DEF Plan
<1>9. Plan[k].variant = Variants[(((k - 1) \div Repetitions) % V) + 1]
  BY DEF Plan
<1>10. ((k - 1) \div M) + 1 \in DOMAIN Questions
  BY <1>1, <1>2, <1>6, PlanAssumption
<1>11. (((k - 1) \div Repetitions) % V) + 1 \in DOMAIN Variants
  BY <1>1, <1>7, PlanAssumption
<1>12. QED
  BY <1>8, <1>9, <1>10, <1>11 DEF Key, SeqRange

(* Counting the rows of a status gives a number. *)
LEMMA TallyType ==
  ASSUME NEW rows \in Seq(Row)
  PROVE  Tally(rows) \in [RunStatus -> Nat]
<1>1. ASSUME NEW s \in RunStatus
      PROVE  Cardinality({i \in 1..Len(rows) : rows[i].status = s}) \in Nat
  <2>1. IsFiniteSet(1..Len(rows))
    BY FS_Interval
  <2>2. IsFiniteSet({i \in 1..Len(rows) : rows[i].status = s})
    BY <2>1, FS_Subset
  <2>3. QED
    BY <2>2, FS_CardinalityType
<1>2. QED
  BY <1>1 DEF Tally

-----------------------------------------------------------------------------
(* Type correctness needs to know, beside TypeOK, what the program counter *)
(* says of the call in progress.                                           *)
CallInProgress ==
  \/ pc \in {"invoke", "returned", "classify"}
  \/ Flushing /\ flushFor = "add"

LocalInv ==
  /\ CallInProgress => cursor \in Slots
  /\ pc = "invoke" => calls # <<>>
  /\ pc = "returned" => result \in Row

TypeInv == TypeOK /\ LocalInv

LEMMA EmptyDocuments ==
  /\ Absent \in DocumentType
  /\ Torn \in DocumentType
  /\ OpenMetadata \in MetadataType
<1>1. NoCounts \in [RunStatus -> Nat] /\ <<>> \in Seq(SpanFaults) /\ <<>> \in Seq(Row)
  BY DEF NoCounts
<1>2. OpenMetadata \in MetadataType
  BY <1>1 DEF OpenMetadata, MetadataType, RunState, StopReason
<1>3. \A r \in Nat, state \in {"absent", "torn"} :
        [run |-> r, status |-> state, reason |-> "none", counts |-> NoCounts,
         warnings |-> <<>>, rows |-> <<>>] \in DocumentType
  BY <1>1 DEF DocumentType, StopReason
<1>4. \A state \in {"absent", "torn"} :
        [Document(0, OpenMetadata, <<>>) EXCEPT !.status = state]
          = [run |-> 0, status |-> state, reason |-> "none", counts |-> NoCounts,
             warnings |-> <<>>, rows |-> <<>>]
  BY DEF Document, OpenMetadata
<1>5. QED
  BY <1>2, <1>3, <1>4 DEF Absent, Torn

LEMMA PayloadType == TypeOK => Payload \in DocumentType
BY DEF TypeOK, Payload, Document, DocumentType, MetadataType

LEMMA InitType == Init => TypeInv
<1> SUFFICES ASSUME Init PROVE TypeInv
  OBVIOUS
<1>1. PlanLength \in Nat
  BY PlanAssumption DEF PlanLength, Selected
<1>2. TypeOK
  BY <1>1, EmptyDocuments DEF Init, TypeOK, RunState, StopReason, Conversation
<1>3. LocalInv
  BY DEF Init, LocalInv, CallInProgress, Flushing
<1>4. QED
  BY <1>2, <1>3 DEF TypeInv

LEMMA ReuseType ==
  ASSUME TypeOK, NEW k \in Slots
  PROVE  ReuseId(k) \in Conversation
<1>1. CASE FollowUpTo[Plan[k].question] = NoQuestion
  BY <1>1 DEF ReuseId, Conversation
<1>2. CASE FollowUpTo[Plan[k].question] # NoQuestion
  <2>1. FollowUpTo[Plan[k].question] \in SeqRange(Questions)
    BY <1>2, PlanType, PlanAssumption
  <2>2. <<FollowUpTo[Plan[k].question], Plan[k].variant>>
          \in SeqRange(Questions) \X SeqRange(Variants)
    BY <2>1, PlanType
  <2>3. QED
    BY <1>2, <2>2 DEF ReuseId, TypeOK
<1>3. QED
  BY <1>1, <1>2

LEMMA StepType == TypeInv /\ [Next]_vars => TypeInv'
<1> SUFFICES ASSUME TypeInv, [Next]_vars PROVE TypeInv'
  OBVIOUS
<1> USE DEF TypeInv
<1>0. PlanLength \in Nat
  BY PlanAssumption DEF PlanLength, Selected
<1>1. CASE Construct
  BY <1>1 DEF Construct, memory, files, TypeOK, LocalInv, CallInProgress, Flushing
<1>2. CASE OpenTmp
  BY <1>2, EmptyDocuments DEF OpenTmp, memory, TypeOK, LocalInv, CallInProgress, Flushing
<1>3. CASE FillTmp
  BY <1>3, PayloadType DEF FillTmp, memory, TypeOK, LocalInv, CallInProgress, Flushing
<1>4. CASE ReplaceFile
  <2>1. TypeOK'
    BY <1>4, EmptyDocuments DEF ReplaceFile, AfterFlush, memory, TypeOK
  <2>2. LocalInv'
    BY <1>4 DEF ReplaceFile, AfterFlush, memory, TypeOK, LocalInv, CallInProgress, Flushing
  <2>3. QED
    BY <2>1, <2>2
<1>5. CASE EndOfPlan
  BY <1>5 DEF EndOfPlan, memory, files, TypeOK, LocalInv, CallInProgress, Flushing
<1>6. CASE StopAtDeadline
  BY <1>6 DEF StopAtDeadline, files, TypeOK, RunState, StopReason, LocalInv, CallInProgress,
              Flushing
<1>7. CASE SkipVariant
  BY <1>0, <1>7 DEF SkipVariant, MoreToRun, files, TypeOK, LocalInv, CallInProgress, Flushing
<1>8. CASE Invoke
  <2>1. cursor \in Slots
    BY <1>0, <1>8 DEF Invoke, MoreToRun, TypeOK, Slots
  <2>2. metadata' \in MetadataType
    <3>1. metadata \in MetadataType
      BY DEF TypeOK
    <3>2. ASSUME NEW reason \in SpanFaults, RecordSpanDegraded(reason)
          PROVE  metadata' \in MetadataType
      <4>1. Append(metadata.warnings, reason) \in Seq(SpanFaults)
        BY <3>1 DEF MetadataType
      <4>2. metadata' = [metadata EXCEPT !.warnings = Append(metadata.warnings, reason)]
        BY <3>2 DEF RecordSpanDegraded
      <4>3. QED
        BY <3>1, <4>1, <4>2 DEF MetadataType
    <3>3. QED
      BY <1>8, <3>1, <3>2 DEF Invoke
  <2>3. calls' \in Seq(CallType) /\ calls' # <<>>
    BY <1>8, <2>1, ReuseType DEF Invoke, TypeOK, CallType, Conversation, NoConversation
  <2>4. QED
    BY <1>8, <2>1, <2>2, <2>3 DEF Invoke, files, TypeOK, LocalInv, CallInProgress, Flushing
<1>9. CASE Answer
  <2>1. cursor \in Slots /\ Len(calls) \in 1..Len(calls) /\ calls[Len(calls)] \in CallType
    <3>1. calls \in Seq(CallType) /\ calls # <<>> /\ cursor \in Slots
      BY <1>9 DEF Answer, LocalInv, CallInProgress, TypeOK
    <3>2. Len(calls) \in Nat \ {0}
      BY <3>1
    <3>3. QED
      BY <3>1, <3>2
  <2>2. PICK o \in Outcomes[Plan[cursor].variant] :
          result' = [slot |-> cursor, status |-> o.status, signals |-> o.signals, done |-> clock,
                     conversation |-> IF o.keeps THEN calls[Len(calls)].conversation
                                      ELSE NoConversation]
    BY <1>9 DEF Answer
  <2>3. o \in Outcome
    BY <2>1, PlanType, OutcomeAssumption
  <2>4. result' \in Row
    <3>1. calls[Len(calls)].conversation \in Slots
      BY <2>1 DEF CallType
    <3>2. (IF o.keeps THEN calls[Len(calls)].conversation ELSE NoConversation) \in Conversation
      BY <3>1 DEF Conversation
    <3>3. clock \in Nat
      BY DEF TypeOK
    <3>4. QED
      BY <2>1, <2>2, <2>3, <3>2, <3>3 DEF Row, Outcome
  <2>5. calls' \in Seq(CallType)
    <3>1. calls \in Seq(CallType)
      BY DEF TypeOK
    <3>2. [calls[Len(calls)] EXCEPT !.answered = TRUE] \in CallType
      BY <2>1 DEF CallType
    <3>3. calls' = [calls EXCEPT ![Len(calls)] = [calls[Len(calls)] EXCEPT !.answered = TRUE]]
      BY <1>9 DEF Answer
    <3>4. QED
      BY <2>1, <3>1, <3>2, <3>3
  <2>6. QED
    BY <1>9, <2>1, <2>4, <2>5 DEF Answer, files, TypeOK, LocalInv, CallInProgress, Flushing
<1>10. CASE Add
  BY <1>10 DEF Add, files, TypeOK, LocalInv, CallInProgress, Flushing
<1>11. CASE Classify
  <2>1. cursor \in Slots /\ result \in Row \cup {NoRow}
    BY <1>11 DEF Classify, LocalInv, CallInProgress, TypeOK
  <2>2. conversations' \in [SeqRange(Questions) \X SeqRange(Variants) -> Conversation]
    <3>1. result.conversation \in Conversation
      BY <2>1 DEF Row, NoRow, Conversation
    <3>2. conversations \in [SeqRange(Questions) \X SeqRange(Variants) -> Conversation]
      BY DEF TypeOK
    <3>3. Remember(result)
      BY <1>11 DEF Classify
    <3>4. QED
      BY <3>1, <3>2, <3>3 DEF Remember
  <2>3. ClassifyGuardrail(result) \in StopReason
    BY DEF ClassifyGuardrail, StopReason
  <2>4. cursor' \in 1..(PlanLength + 1) /\ pc' \in {"loop", "finalize"}
    BY <1>0, <1>11, <2>1 DEF Classify, Slots
  <2>5. verdict' \in [status: RunState \ {"running"}, reason: StopReason]
    BY <1>11, <2>3 DEF Classify, TypeOK, RunState
  <2>6. QED
    BY <1>11, <2>2, <2>4, <2>5 DEF Classify, files, TypeOK, LocalInv, CallInProgress, Flushing
<1>12. CASE Finalize
  <2>1. Tally(results) \in [RunStatus -> Nat]
    BY TallyType DEF TypeOK
  <2>2. metadata' \in MetadataType
    BY <1>12, <2>1 DEF Finalize, TypeOK, MetadataType
  <2>3. QED
    BY <1>12, <2>2 DEF Finalize, files, TypeOK, LocalInv, CallInProgress, Flushing
<1>13. CASE Interrupt
  BY <1>13 DEF Interrupt, files, TypeOK, RunState, StopReason, LocalInv, CallInProgress, Flushing
<1>14. CASE Die
  BY <1>14 DEF Die, memory, files, TypeOK, LocalInv, CallInProgress, Flushing
<1>15. CASE Tick
  BY <1>15, TimeAssumption DEF Tick, memory, files, TypeOK, LocalInv, CallInProgress, Flushing
<1>16. CASE Rerun
  <2>1. TypeOK'
    BY <1>0, <1>16, EmptyDocuments DEF Rerun, files, TypeOK, RunState, StopReason, Conversation,
                                     NoConversation
  <2>2. LocalInv'
    BY <1>16 DEF Rerun, LocalInv, CallInProgress, Flushing
  <2>3. QED
    BY <2>1, <2>2
<1>17. CASE UNCHANGED vars
  BY <1>17 DEF vars, memory, files, TypeOK, LocalInv, CallInProgress, Flushing
<1>18. QED
  BY <1>1, <1>2, <1>3, <1>4, <1>5, <1>6, <1>7, <1>8, <1>9, <1>10, <1>11, <1>12, <1>13, <1>14,
     <1>15, <1>16, <1>17 DEF Next, Program

(* Every variable of the runner keeps its type, in every run of every plan *)
(* (runner.py:146-254).                                                    *)
THEOREM TypeCorrect == Spec => []TypeInv
<1>1. QED
  BY InitType, StepType, PTL DEF Spec

-----------------------------------------------------------------------------
(* The file: which run's it is and whether it is open. *)

LEMMA InitStore == Init => StoreInv
BY DEF Init, StoreInv, Starting, InLoop, Adding, Ending, Finalized, Flushing, Current,
       Absent, Document, OpenMetadata

LEMMA StepStore == TypeInv /\ StoreInv /\ [Next]_vars => StoreInv'
<1> SUFFICES ASSUME TypeInv, StoreInv, [Next]_vars PROVE StoreInv'
  OBVIOUS
<1>0. /\ run \in Nat /\ disk.run \in Nat /\ flushFor \in {"init", "add", "final"}
      /\ verdict \in [status: RunState \ {"running"}, reason: StopReason]
      /\ metadata \in MetadataType
      /\ pc \in {"boot", "flush", "write", "replace", "loop", "invoke", "returned",
                "classify", "finalize", "done", "dead"}
  BY DEF TypeInv, TypeOK, DocumentType
<1> USE DEF StoreInv, Starting, InLoop, Adding, Ending, Finalized, Flushing, Current
<1>1. CASE Construct
  BY <1>0, <1>1 DEF Construct, memory, files
<1>2. CASE OpenTmp
  BY <1>0, <1>2 DEF OpenTmp, memory
<1>3. CASE FillTmp
  BY <1>0, <1>3 DEF FillTmp, memory, Payload, Document
<1>4. CASE ReplaceFile
  <2>1. disk' = Payload /\ UNCHANGED <<memory, flushFor>> /\ pc = "replace" /\ pc' = AfterFlush
    BY <1>4 DEF ReplaceFile
  <2>2. disk'.run = run /\ disk'.status = metadata.status /\ disk' = Payload'
    BY <2>1 DEF Payload, Document, memory
  <2>3. CASE flushFor = "final"
    <3>1. pc' = "done" /\ metadata.status # "running"
      BY <1>0, <2>1, <2>3 DEF AfterFlush, RunState
    <3>2. QED
      BY <1>0, <2>1, <2>2, <2>3, <3>1 DEF memory, RunState
  <2>4. CASE flushFor # "final"
    <3>1. pc' \in {"loop", "classify"} /\ metadata.status = "running"
      BY <1>0, <2>1, <2>4 DEF AfterFlush
    <3>2. QED
      BY <1>0, <2>1, <2>2, <2>4, <3>1 DEF memory
  <2>5. QED
    BY <2>3, <2>4
<1>5. CASE EndOfPlan
  BY <1>0, <1>5 DEF EndOfPlan, memory, files
<1>6. CASE StopAtDeadline
  BY <1>0, <1>6 DEF StopAtDeadline, files
<1>7. CASE SkipVariant
  BY <1>0, <1>7 DEF SkipVariant, files
<1>8. CASE Invoke
  <2>1. metadata'.status = metadata.status
    BY <1>0, <1>8 DEF Invoke, RecordSpanDegraded, MetadataType
  <2>2. QED
    BY <1>0, <1>8, <2>1 DEF Invoke, files
<1>9. CASE Answer
  BY <1>0, <1>9 DEF Answer, files
<1>10. CASE Add
  BY <1>0, <1>10 DEF Add, files
<1>11. CASE Classify
  BY <1>0, <1>11 DEF Classify, files
<1>12. CASE Finalize
  BY <1>0, <1>12 DEF Finalize, files, MetadataType
<1>13. CASE Interrupt
  BY <1>0, <1>13 DEF Interrupt, InTry, files
<1>14. CASE Die
  BY <1>0, <1>14 DEF Die, memory, files
<1>15. CASE Tick
  BY <1>0, <1>15 DEF Tick, memory, files, Payload, Document
<1>16. CASE Rerun
  BY <1>0, <1>16 DEF Rerun, files, OpenMetadata
<1>17. CASE UNCHANGED vars
  BY <1>0, <1>17 DEF vars, memory, files, Payload, Document
<1>18. QED
  BY <1>1, <1>2, <1>3, <1>4, <1>5, <1>6, <1>7, <1>8, <1>9, <1>10, <1>11, <1>12, <1>13, <1>14,
     <1>15, <1>16, <1>17 DEF Next, Program

THEOREM StoreCorrect == Spec => []StoreInv
<1>1. QED
  BY InitStore, StepStore, TypeCorrect, PTL DEF Spec

-----------------------------------------------------------------------------
(* The ledger, the store and the file follow one another. *)

LEMMA InitLedger == Init => LedgerInv
BY DEF Init, LedgerInv, Starting, InLoop, Adding, Flushing, Current, Absent, Document,
       OpenMetadata

(* What the types say of the three sequences. *)
LEMMA SequenceTypes ==
  TypeInv => /\ calls \in Seq(CallType) /\ results \in Seq(Row) /\ disk.rows \in Seq(Row)
             /\ Len(calls) \in Nat /\ Len(results) \in Nat /\ Len(disk.rows) \in Nat
             /\ run \in Nat /\ disk.run \in Nat
             /\ pc \in {"boot", "flush", "write", "replace", "loop", "invoke", "returned",
                        "classify", "finalize", "done", "dead"}
             /\ flushFor \in {"init", "add", "final"}
BY DEF TypeInv, TypeOK, DocumentType

LEMMA StepLedger == TypeInv /\ StoreInv /\ LedgerInv /\ [Next]_vars => LedgerInv'
<1> SUFFICES ASSUME TypeInv, StoreInv, LedgerInv, [Next]_vars PROVE LedgerInv'
  OBVIOUS
<1>0. /\ calls \in Seq(CallType) /\ results \in Seq(Row) /\ disk.rows \in Seq(Row)
      /\ Len(calls) \in Nat /\ Len(results) \in Nat /\ Len(disk.rows) \in Nat
      /\ run \in Nat /\ disk.run \in Nat
      /\ pc \in {"boot", "flush", "write", "replace", "loop", "invoke", "returned",
                "classify", "finalize", "done", "dead"}
      /\ flushFor \in {"init", "add", "final"}
  BY SequenceTypes
<1> USE DEF LedgerInv, Starting, InLoop, Adding, Flushing, Current
<1>1. CASE Construct
  BY <1>0, <1>1 DEF Construct, memory, files
<1>2. CASE OpenTmp
  BY <1>0, <1>2 DEF OpenTmp, memory
<1>3. CASE FillTmp
  BY <1>0, <1>3 DEF FillTmp, memory
<1>4. CASE ReplaceFile
  <2>1. /\ disk'.rows = results /\ disk'.run = run /\ UNCHANGED <<memory, flushFor, calls>>
        /\ pc = "replace" /\ pc' = AfterFlush
    BY <1>4 DEF ReplaceFile, StoreInv, Payload, Document
  <2>2. CASE flushFor = "init"
    BY <1>0, <2>1, <2>2 DEF AfterFlush, memory
  <2>3. CASE flushFor = "add"
    BY <1>0, <2>1, <2>3 DEF AfterFlush, memory
  <2>4. CASE flushFor = "final"
    BY <1>0, <2>1, <2>4 DEF AfterFlush, memory, StoreInv, Ending
  <2>5. QED
    BY <1>0, <2>2, <2>3, <2>4
<1>5. CASE EndOfPlan
  BY <1>0, <1>5 DEF EndOfPlan, memory, files
<1>6. CASE StopAtDeadline
  BY <1>0, <1>6 DEF StopAtDeadline, files
<1>7. CASE SkipVariant
  BY <1>0, <1>7 DEF SkipVariant, files
<1>8. CASE Invoke
  <2>1. PICK call : calls' = Append(calls, call) /\ call.slot = cursor
    BY <1>8 DEF Invoke
  <2>2. /\ Len(calls') = Len(calls) + 1 /\ calls'[Len(calls')].slot = cursor
        /\ \A i \in 1..Len(calls) : calls'[i] = calls[i]
    BY <1>0, <2>1
  <2>3. /\ pc = "loop" /\ pc' = "invoke"
        /\ UNCHANGED <<run, cursor, result, results, disk>>
    BY <1>8 DEF Invoke, files
  <2>4. QED
    BY <1>0, <2>2, <2>3
<1>9. CASE Answer
  <2>1. Len(calls) \in DOMAIN calls /\ result'.slot = cursor
    BY <1>0, <1>9 DEF Answer
  <2>2. /\ Len(calls') = Len(calls)
        /\ \A i \in 1..Len(calls) : calls'[i].slot = calls[i].slot
    BY <1>0, <1>9, <2>1 DEF Answer, CallType
  <2>3. /\ pc = "invoke" /\ pc' = "returned"
        /\ UNCHANGED <<run, cursor, results, disk, flushFor>>
    BY <1>9 DEF Answer, files
  <2>4. /\ Len(calls') = Len(results') + 1
        /\ calls'[Len(calls')].slot = cursor'
    BY <1>0, <2>2, <2>3
  <2>5. \A i \in 1..Len(results') : results'[i].slot = calls'[i].slot
    BY <1>0, <2>2, <2>3
  <2>6. QED
    BY <1>0, <2>1, <2>2, <2>3, <2>4, <2>5
<1>10. CASE Add
  <2>1. /\ Len(results') = Len(results) + 1 /\ results'[Len(results')] = result
        /\ \A i \in 1..Len(results) : results'[i] = results[i]
    BY <1>0, <1>10 DEF Add
  <2>2. QED
    BY <1>0, <1>10, <2>1 DEF Add, files
<1>11. CASE Classify
  BY <1>0, <1>11 DEF Classify, files
<1>12. CASE Finalize
  BY <1>0, <1>12 DEF Finalize, files
<1>13. CASE Interrupt
  BY <1>0, <1>13 DEF Interrupt, files
<1>14. CASE Die
  BY <1>0, <1>14 DEF Die, memory, files
<1>15. CASE Tick
  BY <1>0, <1>15 DEF Tick, memory, files
<1>16. CASE Rerun
  BY <1>0, <1>16 DEF Rerun, files, StoreInv
<1>17. CASE UNCHANGED vars
  BY <1>0, <1>17 DEF vars, memory, files
<1>18. QED
  BY <1>1, <1>2, <1>3, <1>4, <1>5, <1>6, <1>7, <1>8, <1>9, <1>10, <1>11, <1>12, <1>13, <1>14,
     <1>15, <1>16, <1>17 DEF Next, Program

-----------------------------------------------------------------------------
(* A row with a guardrail signal is the last. *)

LEMMA InitGuardrail == Init => GuardrailInv
BY DEF Init, GuardrailInv, Starting, InLoop, Adding, Flushing, Tripped

(* A row the guardrails let through carries no signal, and what they call  *)
(* a trip is one.                                                          *)
LEMMA ClassifyClean ==
  ASSUME NEW row \in Row
  PROVE  /\ ClassifyGuardrail(row) = "none" <=> row.signals = {}
         /\ ClassifyGuardrail(row) \in {"none", "authorization", "budget", "loop"}
<1>1. \A s \in row.signals : s \in {"auth", "budget", "loop"}
  BY DEF Row, Signals
<1>2. QED
  BY <1>1 DEF ClassifyGuardrail

LEMMA StepGuardrail ==
  TypeInv /\ StoreInv /\ LedgerInv /\ GuardrailInv /\ [Next]_vars => GuardrailInv'
<1> SUFFICES ASSUME TypeInv, StoreInv, LedgerInv, GuardrailInv, [Next]_vars
             PROVE  GuardrailInv'
  OBVIOUS
<1>0. /\ calls \in Seq(CallType) /\ results \in Seq(Row)
      /\ Len(calls) \in Nat /\ Len(results) \in Nat
      /\ pc \in {"boot", "flush", "write", "replace", "loop", "invoke", "returned",
                "classify", "finalize", "done", "dead"}
      /\ flushFor \in {"init", "add", "final"}
  BY SequenceTypes
<1> USE DEF GuardrailInv, Starting, InLoop, Adding, Flushing, Tripped
<1>1. CASE Construct
  BY <1>0, <1>1 DEF Construct, memory, files
<1>2. CASE OpenTmp
  BY <1>0, <1>2 DEF OpenTmp, memory
<1>3. CASE FillTmp
  BY <1>0, <1>3 DEF FillTmp, memory
<1>4. CASE ReplaceFile
  <2>1. UNCHANGED <<memory, flushFor, calls>> /\ pc = "replace" /\ pc' = AfterFlush
    BY <1>4 DEF ReplaceFile
  <2>2. flushFor = "init" => results = <<>>
    BY <2>1 DEF LedgerInv
  <2>3. QED
    BY <1>0, <2>1, <2>2 DEF AfterFlush, memory
<1>5. CASE EndOfPlan
  BY <1>0, <1>5 DEF EndOfPlan, memory, files
<1>6. CASE StopAtDeadline
  BY <1>0, <1>6 DEF StopAtDeadline, files
<1>7. CASE SkipVariant
  BY <1>0, <1>7 DEF SkipVariant, files
<1>8. CASE Invoke
  BY <1>0, <1>8 DEF Invoke, files
<1>9. CASE Answer
  <2>1. Len(calls') = Len(calls)
    BY <1>0, <1>9 DEF Answer
  <2>2. QED
    BY <1>0, <1>9, <2>1 DEF Answer, files
<1>10. CASE Add
  <2>1. /\ Len(results') = Len(results) + 1 /\ results'[Len(results')] = result
        /\ \A i \in 1..Len(results) : results'[i] = results[i]
    BY <1>0, <1>10 DEF Add
  <2>2. Len(results') = Len(calls) /\ verdict.reason = "none"
    BY <1>10, <2>1 DEF Add, LedgerInv, StoreInv
  <2>3. \A i \in 1..Len(results') : results'[i].signals # {} => i = Len(calls)
    BY <1>0, <1>10, <2>1, <2>2 DEF Add
  <2>4. results' # <<>>
    BY <1>0, <2>1
  <2>5. QED
    BY <1>10, <2>1, <2>2, <2>3, <2>4 DEF Add, files
<1>11. CASE Classify
  <2>1. /\ pc = "classify" /\ UNCHANGED <<results, calls, result>>
        /\ Len(calls) = Len(results) /\ result = results[Len(results)] /\ results # <<>>
    BY <1>11 DEF Classify, LedgerInv
  <2>2. result \in Row
    BY <1>0, <2>1
  <2>3. CASE ClassifyGuardrail(result) = "none"
    <3>1. result.signals = {}
      BY <2>2, <2>3, ClassifyClean
    <3>2. \A i \in 1..Len(results) : results[i].signals = {}
      BY <1>0, <2>1, <3>1
    <3>3. pc' = "loop" /\ UNCHANGED verdict
      BY <1>11, <2>3 DEF Classify
    <3>4. QED
      BY <2>1, <3>2, <3>3
  <2>4. CASE ClassifyGuardrail(result) # "none"
    <3>1. pc' = "finalize" /\ verdict' = [status |-> "stopped", reason |-> ClassifyGuardrail(result)]
      BY <1>11, <2>4 DEF Classify
    <3>2. ClassifyGuardrail(result) \in {"authorization", "budget", "loop"}
      BY <2>2, <2>4, ClassifyClean
    <3>3. QED
      BY <2>1, <3>1, <3>2
  <2>5. QED
    BY <2>3, <2>4
<1>12. CASE Finalize
  BY <1>0, <1>12 DEF Finalize, files
<1>13. CASE Interrupt
  BY <1>0, <1>13 DEF Interrupt, files
<1>14. CASE Die
  BY <1>0, <1>14 DEF Die, memory, files
<1>15. CASE Tick
  BY <1>0, <1>15 DEF Tick, memory, files
<1>16. CASE Rerun
  BY <1>0, <1>16 DEF Rerun, files
<1>17. CASE UNCHANGED vars
  BY <1>0, <1>17 DEF vars, memory, files
<1>18. QED
  BY <1>1, <1>2, <1>3, <1>4, <1>5, <1>6, <1>7, <1>8, <1>9, <1>10, <1>11, <1>12, <1>13, <1>14,
     <1>15, <1>16, <1>17 DEF Next, Program

(* The three parts together are inductive.                                 *)
THEOREM Inductive == Spec => [](TypeInv /\ IInv)
<1>1. Init => TypeInv /\ IInv
  BY InitType, InitStore, InitLedger, InitGuardrail DEF IInv
<1>2. TypeInv /\ IInv /\ [Next]_vars => (TypeInv /\ IInv)'
  BY StepType, StepStore, StepLedger, StepGuardrail DEF IInv
<1>3. QED
  BY <1>1, <1>2, PTL DEF Spec

-----------------------------------------------------------------------------
(* What follows from the invariant. *)

LEMMA ClosedMeansDone == TypeInv /\ IInv /\ Closed => pc = "done" /\ disk = Payload
BY SequenceTypes DEF IInv, StoreInv, Closed, Current, Starting, InLoop, Adding, Ending, Flushing

(* TypeOK of every reachable state.                                        *)
THEOREM TypesHold == Spec => []TypeOK
<1>1. TypeInv => TypeOK
  BY DEF TypeInv
<1>2. QED
  BY <1>1, TypeCorrect, PTL

(* The atomic replacement of _flush (runner.py:105-112): no reader, and no *)
(* kill between two steps of a flush, ever meets a torn results file, and  *)
(* from the constructed store on the file is this run's.                   *)
THEOREM FileIsWhole == Spec => []WholeDocument
<1>1. TypeInv /\ IInv => WholeDocument
  BY SequenceTypes DEF IInv, StoreInv, WholeDocument, Starting, InLoop, Adding, Ending, Flushing,
                       Payload, Document, Current
<1>2. QED
  BY <1>1, Inductive, PTL

(* Persist-before-continue (runner.py:88-90, 236): whenever the run is     *)
(* killed, at most its last call is missing from the file.                 *)
THEOREM EveryCallAccounted == Spec => []CallsAccountedFor
<1>1. ASSUME TypeInv, IInv, Current PROVE Len(calls) - Len(disk.rows) \in {0, 1}
  BY <1>1, SequenceTypes DEF IInv, LedgerInv
<1>2. ASSUME TypeInv, IInv, Current, NEW i \in 1..Len(disk.rows)
      PROVE  disk.rows[i].slot = calls[i].slot
  <2>1. i \in 1..Len(results) /\ disk.rows[i] = results[i]
    BY <1>2, SequenceTypes DEF IInv, LedgerInv
  <2>2. QED
    BY <1>2, <2>1 DEF IInv, LedgerInv
<1>3. ASSUME TypeInv, IInv, pc = "invoke" PROVE Len(calls) = Len(disk.rows) + 1
  BY <1>3 DEF IInv, LedgerInv, InLoop
<1>4. TypeInv /\ IInv => CallsAccountedFor
  BY <1>1, <1>2, <1>3 DEF CallsAccountedFor
<1>5. QED
  BY <1>4, Inductive, PTL

(* ResultStore.finalize (runner.py:92-97) writes everything the run holds  *)
(* with counts of exactly those rows, whichever way the loop was left.     *)
THEOREM ClosedIsComplete == Spec => []ClosedDocumentComplete
<1>1. ASSUME TypeInv, IInv, Closed
      PROVE  /\ disk.rows = results /\ disk.counts = Tally(disk.rows)
             /\ disk.warnings = metadata.warnings
             /\ disk.status = "completed" <=> disk.reason = "none"
  <2>1. pc = "done" /\ disk = Payload
    BY <1>1, ClosedMeansDone
  <2>2. /\ disk.rows = results /\ disk.counts = metadata.counts
        /\ disk.warnings = metadata.warnings
        /\ disk.status = metadata.status /\ disk.reason = metadata.reason
    BY <2>1 DEF Payload, Document
  <2>3. QED
    BY <1>1, <2>1, <2>2 DEF IInv, StoreInv, Finalized
<1>2. TypeInv /\ IInv => ClosedDocumentComplete
  BY <1>1 DEF ClosedDocumentComplete
<1>3. QED
  BY <1>2, Inductive, PTL

(* classify_guardrail stops the run (runner.py:241-245): no call follows a *)
(* row with a guardrail signal, and the stop reason is that row's.         *)
THEOREM GuardrailIsFinal == Spec => []GuardrailEndsRun
<1>1. ASSUME TypeInv, IInv, NEW i \in DOMAIN results, results[i].signals # {}
      PROVE  i = Len(calls)
  BY <1>1, SequenceTypes DEF IInv, GuardrailInv
<1>2. ASSUME TypeInv, IInv, Closed, disk.status = "stopped", disk.reason # "deadline"
      PROVE  /\ disk.rows # <<>>
             /\ ClassifyGuardrail(disk.rows[Len(disk.rows)]) = disk.reason
  <2>1. pc = "done" /\ disk = Payload
    BY <1>2, ClosedMeansDone
  <2>2. /\ disk.rows = results /\ disk.status = metadata.status /\ disk.reason = metadata.reason
    BY <2>1 DEF Payload, Document
  <2>3. verdict.status = "stopped" /\ verdict.reason = disk.reason
    BY <1>2, <2>1, <2>2 DEF IInv, StoreInv, Finalized
  <2>4. QED
    BY <1>2, <2>2, <2>3 DEF IInv, GuardrailInv
<1>3. TypeInv /\ IInv => GuardrailEndsRun
  BY <1>1, <1>2 DEF GuardrailEndsRun
<1>4. QED
  BY <1>3, Inductive, PTL

-----------------------------------------------------------------------------
(* The runner implements the journal: the flush that follows __init__ is   *)
(* Create, the one that follows add is Record, the one that follows        *)
(* finalize is Close, and nothing else touches the file.                   *)

LEMMA JournalInit == Init => Journal!Init
BY DEF Init, Journal!Init, Absent, Document, OpenMetadata

LEMMA JournalStep == TypeInv /\ IInv /\ [Next]_vars => [Journal!Next]_(Journal!journal)
<1> SUFFICES ASSUME TypeInv, IInv, [Next]_vars
             PROVE  Journal!Next \/ UNCHANGED Journal!journal
  OBVIOUS
<1> USE DEF Journal!Next
<1>0. /\ calls \in Seq(CallType) /\ results \in Seq(Row) /\ disk.rows \in Seq(Row)
      /\ Len(calls) \in Nat /\ Len(results) \in Nat /\ Len(disk.rows) \in Nat
      /\ run \in Nat /\ disk.run \in Nat /\ flushFor \in {"init", "add", "final"}
  BY SequenceTypes
<1>1. CASE UNCHANGED <<run, disk>> /\ Len(calls') = Len(calls)
  BY <1>1 DEF Journal!journal
<1>2. CASE ReplaceFile
  <2>1. /\ disk' = Payload /\ pc = "replace" /\ UNCHANGED <<run, calls>>
    BY <1>2 DEF ReplaceFile, memory, IInv, StoreInv
  <2>2. disk'.run = run /\ disk'.rows = results /\ disk'.status = metadata.status
    BY <2>1 DEF Payload, Document
  <2>3. \A i \in 1..Len(disk.rows) : Current => results[i] = disk.rows[i]
    BY DEF IInv, LedgerInv
  <2>4. CASE flushFor = "init"
    <3>1. disk.run < run /\ metadata.status = "running" /\ results = <<>>
      BY <2>1, <2>4 DEF IInv, StoreInv, LedgerInv, Starting, Flushing
    <3>2. Journal!Create
      BY <1>0, <2>1, <2>2, <3>1 DEF Journal!Create, Journal!Current
    <3>3. QED
      BY <3>2
  <2>5. CASE flushFor = "add"
    <3>1. /\ Current /\ disk.status = "running" /\ metadata.status = "running"
          /\ Len(calls) = Len(results) /\ Len(results) = Len(disk.rows) + 1
      BY <2>1, <2>5 DEF IInv, StoreInv, LedgerInv, Adding, Flushing
    <3>2. Journal!Record
      BY <1>0, <2>1, <2>2, <2>3, <3>1
      DEF Journal!Record, Journal!Open, Journal!Current, Journal!ExtendsByOne, Current
    <3>3. QED
      BY <3>2
  <2>6. CASE flushFor = "final"
    <3>1. /\ Current /\ disk.status = "running"
          /\ Len(disk.rows) <= Len(results) /\ Len(results) <= Len(calls)
          /\ Len(calls) <= Len(disk.rows) + 1
      BY <2>1, <2>6 DEF IInv, StoreInv, LedgerInv, Ending, Flushing
    <3>2. metadata.status \in {"completed", "stopped", "interrupted"}
      BY <2>1, <2>6 DEF IInv, StoreInv, Finalized, Flushing, TypeInv, TypeOK, RunState
    <3>3. \/ results = disk.rows
          \/ Len(calls) = Len(disk.rows) + 1 /\ Len(results) = Len(disk.rows) + 1
      <4>1. CASE Len(results) = Len(disk.rows)
        BY <1>0, <2>3, <3>1, <4>1
      <4>2. QED
        BY <1>0, <3>1, <4>1
    <3>4. Journal!Close
      BY <1>0, <2>1, <2>2, <2>3, <3>1, <3>2, <3>3
      DEF Journal!Close, Journal!Open, Journal!Current, Journal!ExtendsByOne,
          Journal!ClosedStatus, Current
    <3>5. QED
      BY <3>4
  <2>7. QED
    BY <1>0, <2>4, <2>5, <2>6
<1>3. CASE Invoke
  <2>1. /\ Current /\ disk.status = "running" /\ disk.rows = results
        /\ Len(calls) = Len(results)
    BY <1>3 DEF Invoke, IInv, StoreInv, LedgerInv, InLoop
  <2>2. Len(calls') = Len(calls) + 1 /\ UNCHANGED <<run, disk>>
    BY <1>0, <1>3 DEF Invoke, files
  <2>3. Journal!Call
    BY <1>0, <2>1, <2>2 DEF Journal!Call, Journal!Open, Journal!Current, Current
  <2>4. QED
    BY <2>3
<1>4. CASE Rerun
  <2>1. Journal!Restart
    BY <1>4 DEF Rerun, files, Journal!Restart
  <2>2. QED
    BY <2>1
<1>5. CASE Answer
  <2>1. Len(calls') = Len(calls) /\ UNCHANGED <<run, disk>>
    BY <1>0, <1>5 DEF Answer, files
  <2>2. QED
    BY <1>1, <2>1
<1>6. ASSUME \/ Construct \/ OpenTmp \/ FillTmp \/ EndOfPlan \/ StopAtDeadline \/ SkipVariant
             \/ Add \/ Classify \/ Finalize \/ Interrupt \/ Die \/ Tick \/ UNCHANGED vars
      PROVE  UNCHANGED <<run, disk, calls>>
  BY <1>6 DEF Construct, OpenTmp, FillTmp, EndOfPlan, StopAtDeadline, SkipVariant, Add,
              Classify, Finalize, Interrupt, Die, Tick, vars, memory, files
<1>7. QED
  BY <1>1, <1>2, <1>3, <1>4, <1>5, <1>6 DEF Next, Program

(* BenchmarkRunner implements RunJournal (runner.py:3-8, 77-78).           *)
THEOREM JournalImplemented == Spec => JournalSpec
<1>1. QED
  BY JournalInit, JournalStep, Inductive, PTL DEF Spec, JournalSpec, Journal!Spec

-----------------------------------------------------------------------------
(* The runtime limit: completion times never run ahead of the clock, and a *)
(* call goes out only when every row so far is within the limit.           *)
DeadlineInv ==
  /\ \A i \in 1..Len(results) : results[i].done <= clock
  /\ pc = "returned" => result.done <= clock
  /\ MaxRuntime # NoLimit =>
       /\ \A i \in 1..Len(results) : i < Len(results) => results[i].done < MaxRuntime
       /\ pc \in {"invoke", "returned"} =>
            \A i \in 1..Len(results) : results[i].done < MaxRuntime

LEMMA CompletionTimes ==
  ASSUME NEW rows \in Seq(Row), NEW i \in 1..Len(rows)
  PROVE  rows[i].done \in Nat
<1>1. rows[i] \in Row
  OBVIOUS
<1>2. QED
  BY <1>1 DEF Row

LEMMA InitDeadline == Init => DeadlineInv
BY DEF Init, DeadlineInv

LEMMA StepDeadline == TypeInv /\ DeadlineInv /\ [Next]_vars => DeadlineInv'
<1> SUFFICES ASSUME TypeInv, DeadlineInv, [Next]_vars PROVE DeadlineInv'
  OBVIOUS
<1>0. results \in Seq(Row) /\ Len(results) \in Nat /\ clock \in Nat
  BY SequenceTypes DEF TypeInv, TypeOK
<1>1. \A i \in 1..Len(results) : results[i].done \in Nat
  BY <1>0, CompletionTimes
<1> USE DEF DeadlineInv
<1>2. CASE Invoke
  <2>1. MaxRuntime # NoLimit => clock < MaxRuntime /\ MaxRuntime \in Nat
    BY <1>0, <1>2, TimeAssumption DEF Invoke, DeadlinePassed
  <2>2. /\ pc' = "invoke" /\ UNCHANGED <<results, result, clock>>
    BY <1>2 DEF Invoke
  <2>3. QED
    BY <1>0, <1>1, <2>1, <2>2
<1>3. CASE Answer
  <2>1. result'.done = clock /\ pc = "invoke" /\ UNCHANGED <<results, clock>>
    BY <1>3 DEF Answer
  <2>2. QED
    BY <1>0, <2>1
<1>4. CASE Add
  <2>1. /\ Len(results') = Len(results) + 1 /\ results'[Len(results')] = result
        /\ \A i \in 1..Len(results) : results'[i] = results[i]
        /\ pc = "returned" /\ pc' = "flush" /\ UNCHANGED clock
    BY <1>0, <1>4 DEF Add
  <2>2. \A i \in 1..Len(results') : results'[i].done <= clock
    BY <1>0, <2>1
  <2>3. MaxRuntime # NoLimit =>
          \A i \in 1..Len(results') : i < Len(results') => results'[i].done < MaxRuntime
    BY <1>0, <2>1
  <2>4. QED
    BY <2>1, <2>2, <2>3
<1>5. CASE Tick
  BY <1>0, <1>1, <1>5 DEF Tick, memory, TypeInv, LocalInv, TypeOK, Row
<1>6. CASE Rerun
  BY <1>6 DEF Rerun
<1>7. ASSUME \/ Construct \/ OpenTmp \/ FillTmp \/ ReplaceFile \/ EndOfPlan \/ StopAtDeadline
             \/ SkipVariant \/ Classify \/ Finalize \/ Interrupt \/ Die
      PROVE  UNCHANGED <<results, clock>> /\ pc' \notin {"invoke", "returned"}
  BY <1>7 DEF Construct, OpenTmp, FillTmp, ReplaceFile, AfterFlush, EndOfPlan, StopAtDeadline,
              SkipVariant, Classify, Finalize, Interrupt, Die, memory, TypeInv, TypeOK
<1>8. ASSUME UNCHANGED <<results, clock>>, pc' \notin {"invoke", "returned"} PROVE DeadlineInv'
  BY <1>8
<1>9. CASE UNCHANGED vars
  BY <1>9 DEF vars, memory
<1>10. QED
  BY <1>2, <1>3, <1>4, <1>5, <1>6, <1>7, <1>8, <1>9 DEF Next, Program

(* The deadline check at the head of the loop (runner.py:198-201): at most *)
(* one row completes at or after the limit, however long a call takes.     *)
THEOREM OverrunIsOneCall == Spec => []OneCallOverDeadline
<1>1. TypeInv /\ DeadlineInv => OneCallOverDeadline
  <2>1. SUFFICES ASSUME TypeInv, DeadlineInv, MaxRuntime # NoLimit,
                        NEW i \in DOMAIN results, NEW j \in DOMAIN results,
                        results[i].done >= MaxRuntime, results[j].done >= MaxRuntime
                 PROVE  i = j
    BY DEF OneCallOverDeadline
  <2>2. /\ i \in 1..Len(results) /\ j \in 1..Len(results) /\ Len(results) \in Nat
        /\ results[i].done \in Nat /\ results[j].done \in Nat /\ MaxRuntime \in Nat
    BY <2>1, SequenceTypes, CompletionTimes, TimeAssumption
  <2>3. ~(i < Len(results)) /\ ~(j < Len(results))
    BY <2>1, <2>2 DEF DeadlineInv
  <2>4. QED
    BY <2>2, <2>3
<1>2. QED
  BY <1>1, InitDeadline, StepDeadline, TypeCorrect, PTL DEF Spec
==============================================================================
