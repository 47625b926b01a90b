-------------------------- MODULE BenchmarkPlanProofs --------------------------
(***************************************************************************)
(* What BenchmarkRunner does with its plan, for every plan, every set of   *)
(* outcomes and any number of runs, kills and interrupts: the calls follow *)
(* the plan, a follow-up finds its parent's conversation, and a completed  *)
(* document holds the whole plan.                                          *)
(***************************************************************************)
EXTENDS BenchmarkRunnerProofs, FunctionTheorems

Known == TypeInv /\ IInv

(* The types of the sequences and of their elements' slots. *)
LEMMA KnownTypes ==
  ASSUME Known
  PROVE  /\ calls \in Seq(CallType) /\ results \in Seq(Row)
         /\ Len(calls) \in Nat /\ Len(results) \in Nat
         /\ cursor \in 1..(PlanLength + 1) /\ PlanLength \in Nat
         /\ \A c \in 1..Len(calls) : calls[c].slot \in Slots
         /\ \A i \in 1..Len(results) : results[i].slot \in Slots
         /\ pc \in {"boot", "flush", "write", "replace", "loop", "invoke", "returned",
                    "classify", "finalize", "done", "dead"}
         /\ flushFor \in {"init", "add", "final"}
<1>1. calls \in Seq(CallType) /\ results \in Seq(Row) /\ cursor \in 1..(PlanLength + 1)
  BY DEF Known, TypeInv, TypeOK
<1>2. \A c \in 1..Len(calls) : calls[c].slot \in Slots
  <2>1. \A c \in 1..Len(calls) : calls[c] \in CallType
    BY <1>1
  <2>2. QED
    BY <2>1 DEF CallType
<1>3. \A i \in 1..Len(results) : results[i].slot \in Slots
  <2>1. \A i \in 1..Len(results) : results[i] \in Row
    BY <1>1
  <2>2. QED
    BY <2>1 DEF Row
<1>4. PlanLength \in Nat
  BY PlanAssumption DEF PlanLength, Selected
<1>5. QED
  BY <1>1, <1>2, <1>3, <1>4, SequenceTypes DEF Known

LEMMA InitProgress == Init => ProgressInv
BY DEF Init, ProgressInv, Adding, Ending, Flushing

(* The slots of the calls and of the rows, and where the cursor is, are    *)
(* all that matters to progress.                                           *)
LEMMA SameProgress ==
  ASSUME Known, ProgressInv, UNCHANGED <<calls, results, cursor, verdict>>,
         pc' = "loop" => pc = "loop",
         (pc = "classify" \/ Adding)' => pc = "classify" \/ Adding,
         (Ending \/ pc = "done")' => Ending \/ pc = "done"
  PROVE  ProgressInv'
BY DEF ProgressInv

LEMMA StepProgress == Known /\ ProgressInv /\ [Next]_vars => ProgressInv'
<1> SUFFICES ASSUME Known, ProgressInv, [Next]_vars PROVE ProgressInv'
  OBVIOUS
<1>0. /\ calls \in Seq(CallType) /\ results \in Seq(Row)
      /\ Len(calls) \in Nat /\ Len(results) \in Nat
      /\ cursor \in 1..(PlanLength + 1) /\ PlanLength \in Nat
      /\ \A c \in 1..Len(calls) : calls[c].slot \in Slots
      /\ \A i \in 1..Len(results) : results[i].slot \in Slots
      /\ pc \in {"boot", "flush", "write", "replace", "loop", "invoke", "returned",
                 "classify", "finalize", "done", "dead"}
      /\ flushFor \in {"init", "add", "final"}
  BY KnownTypes
<1>1. CASE Construct \/ OpenTmp \/ FillTmp \/ ReplaceFile \/ Finalize \/ Die \/ Tick
           \/ UNCHANGED vars
  <2>1. \/ Construct \/ OpenTmp \/ FillTmp \/ Finalize \/ Die \/ Tick \/ UNCHANGED vars
        \/ ReplaceFile /\ flushFor = "init"
        \/ ReplaceFile /\ flushFor \in {"add", "final"}
    BY <1>0, <1>1
  <2>2. CASE ReplaceFile /\ flushFor = "init"
    <3>1. Starting /\ pc' = "loop" /\ UNCHANGED <<calls, results, cursor, verdict, flushFor>>
      BY <2>2 DEF ReplaceFile, AfterFlush, memory, Starting, Flushing
    <3>2. calls = <<>>
      BY <3>1 DEF Known, IInv, LedgerInv
    <3>3. QED
      BY <2>2, <3>1, <3>2 DEF ProgressInv, Adding, Ending, Flushing
  <2>3. UNCHANGED <<calls, results, cursor, verdict>>
    BY <1>1 DEF Construct, OpenTmp, FillTmp, ReplaceFile, Finalize, Die, Tick, vars, memory
  <2>4. CASE Construct \/ OpenTmp \/ FillTmp \/ Finalize \/ Die \/ Tick \/ UNCHANGED vars
    <3>1. /\ pc' = "loop" => pc = "loop"
          /\ (pc = "classify" \/ Adding)' => pc = "classify" \/ Adding
          /\ (Ending \/ pc = "done")' => Ending \/ pc = "done"
      BY <2>4 DEF Construct, OpenTmp, FillTmp, Finalize, Die, Tick, vars, Adding, Ending, Flushing
    <3>2. QED
      BY <2>3, <3>1, SameProgress
  <2>5. CASE ReplaceFile /\ flushFor \in {"add", "final"}
    <3>1. /\ pc' = "loop" => pc = "loop"
          /\ (pc = "classify" \/ Adding)' => pc = "classify" \/ Adding
          /\ (Ending \/ pc = "done")' => Ending \/ pc = "done"
      BY <2>5 DEF ReplaceFile, AfterFlush, Adding, Ending, Flushing
    <3>2. QED
      BY <2>3, <3>1, SameProgress
  <2>6. QED
    BY <2>1, <2>2, <2>4, <2>5
<1>2. CASE EndOfPlan
  <2>1. /\ pc = "loop" /\ pc' = "finalize" /\ cursor = PlanLength + 1
        /\ UNCHANGED <<calls, results, cursor, verdict>>
        /\ \A i \in 1..Len(results) : results[i].signals = {}
    BY <1>0, <1>2 DEF EndOfPlan, MoreToRun, memory, Known, IInv, GuardrailInv
  <2>2. QED
    BY <2>1 DEF ProgressInv, Adding, Ending, Flushing
<1>3. CASE StopAtDeadline \/ Interrupt
  <2>1. /\ pc' = "finalize" /\ verdict'.status # "completed"
        /\ UNCHANGED <<calls, results, cursor>>
    BY <1>3 DEF StopAtDeadline, Interrupt
  <2>2. QED
    BY <2>1 DEF ProgressInv, Adding, Ending, Flushing
<1>4. CASE SkipVariant
  <2>1. /\ pc = "loop" /\ pc' = "loop" /\ cursor' = cursor + 1
        /\ Plan[cursor].variant \notin Adapters
        /\ UNCHANGED <<calls, results>>
    BY <1>4 DEF SkipVariant
  <2>2. \A k \in 1..(cursor' - 1) : k \in 1..(cursor - 1) \/ k = cursor
    BY <1>0, <2>1
  <2>3. \A c \in 1..Len(calls) : calls[c].slot < cursor + 1
    BY <1>0, <2>1 DEF ProgressInv, Slots
  <2>4. QED
    BY <1>0, <2>1, <2>2, <2>3 DEF ProgressInv, Adding, Ending, Flushing, Slots
<1>5. CASE Invoke
  <2>1. PICK call : calls' = Append(calls, call) /\ call.slot = cursor
    BY <1>5 DEF Invoke
  <2>2. /\ Len(calls') = Len(calls) + 1 /\ calls'[Len(calls) + 1].slot = cursor
        /\ \A c \in 1..Len(calls) : calls'[c] = calls[c]
    BY <1>0, <2>1
  <2>3. /\ pc = "loop" /\ pc' = "invoke" /\ Plan[cursor].variant \in Adapters
        /\ UNCHANGED <<results, cursor>>
    BY <1>5 DEF Invoke
  <2>4. \A c \in 1..Len(calls) : calls'[c].slot < cursor /\ Plan[calls'[c].slot].variant \in Adapters
    BY <2>2, <2>3 DEF ProgressInv
  <2>5. \A c, d \in 1..Len(calls') : c < d => calls'[c].slot < calls'[d].slot
    <3>1. SUFFICES ASSUME NEW c \in 1..Len(calls'), NEW d \in 1..Len(calls'), c < d
                   PROVE  calls'[c].slot < calls'[d].slot
      OBVIOUS
    <3>2. c \in 1..Len(calls)
      BY <1>0, <2>2, <3>1
    <3>3. CASE d \in 1..Len(calls)
      BY <2>2, <3>1, <3>2, <3>3 DEF ProgressInv
    <3>4. CASE d = Len(calls) + 1
      BY <2>2, <2>4, <3>2, <3>4
    <3>5. QED
      BY <1>0, <2>2, <3>3, <3>4
  <2>6. QED
    BY <1>0, <2>2, <2>3, <2>4, <2>5 DEF ProgressInv, Adding, Ending, Flushing
<1>6. CASE Answer
  <2>1. Len(calls) \in DOMAIN calls
    BY <1>0, <1>6 DEF Answer, Known, IInv, LedgerInv
  <2>2. /\ Len(calls') = Len(calls)
        /\ \A c \in 1..Len(calls) : calls'[c].slot = calls[c].slot
    BY <1>0, <1>6, <2>1 DEF Answer, CallType
  <2>3. /\ pc' = "returned" /\ UNCHANGED <<results, cursor>>
    BY <1>6 DEF Answer
  <2>4. QED
    BY <2>2, <2>3 DEF ProgressInv, Adding, Ending, Flushing
<1>7. CASE Add
  <2>1. /\ pc = "returned" /\ pc' = "flush" /\ flushFor' = "add"
        /\ UNCHANGED <<calls, cursor>>
        /\ Len(results') = Len(results) + 1
        /\ \A i \in 1..Len(results) : results'[i] = results[i]
    BY <1>0, <1>7 DEF Add
  <2>2. calls # <<>> /\ calls[Len(calls)].slot = cursor
    BY <1>0, <2>1 DEF Known, IInv, LedgerInv
  <2>3. \A k \in 1..(cursor - 1) :
          Plan[k].variant \in Adapters => \E i \in 1..Len(results') : results'[i].slot = k
    BY <1>0, <2>1 DEF ProgressInv
  <2>4. QED
    BY <2>1, <2>2, <2>3 DEF ProgressInv, Adding, Ending, Flushing
<1>8. CASE Classify
  <2>1. /\ pc = "classify" /\ UNCHANGED <<calls, results>>
        /\ \/ pc' = "loop" /\ cursor' = cursor + 1
           \/ pc' = "finalize" /\ cursor' = cursor /\ verdict'.status = "stopped"
    BY <1>8 DEF Classify
  <2>2. CASE pc' = "loop" /\ cursor' = cursor + 1
    <3>1. \E i \in 1..Len(results) : results[i].slot = cursor
      <4>1. Len(calls) = Len(results) /\ calls # <<>> /\ calls[Len(calls)].slot = cursor
        BY <2>1 DEF ProgressInv, Known, IInv, LedgerInv
      <4>2. Len(calls) \in 1..Len(results) /\ results[Len(calls)].slot = calls[Len(calls)].slot
        BY <1>0, <4>1 DEF Known, IInv, LedgerInv
      <4>3. QED
        BY <4>1, <4>2
    <3>2. \A k \in 1..(cursor' - 1) : k \in 1..(cursor - 1) \/ k = cursor
      BY <1>0, <2>2
    <3>3. \A c \in 1..Len(calls) : calls[c].slot < cursor + 1
      BY <1>0, <2>1 DEF ProgressInv, Slots
    <3>4. \A k \in 1..(cursor' - 1) :
            Plan[k].variant \in Adapters => \E i \in 1..Len(results) : results[i].slot = k
      BY <3>1, <3>2 DEF ProgressInv
    <3>5. \A c \in 1..Len(calls) : calls[c].slot <= cursor + 1
      BY <1>0, <3>3 DEF Slots
    <3>6. QED
      BY <2>1, <2>2, <3>3, <3>4, <3>5 DEF ProgressInv, Adding, Ending, Flushing
  <2>3. CASE pc' = "finalize" /\ cursor' = cursor /\ verdict'.status = "stopped"
    BY <2>1, <2>3 DEF ProgressInv, Adding, Ending, Flushing
  <2>4. QED
    BY <2>1, <2>2, <2>3
<1>9. CASE Rerun
  <2>1. pc' = "boot" /\ calls' = <<>> /\ cursor' = 1
    BY <1>9 DEF Rerun
  <2>2. QED
    BY <2>1 DEF ProgressInv, Adding, Ending, Flushing
<1>10. QED
  BY <1>1, <1>2, <1>3, <1>4, <1>5, <1>6, <1>7, <1>8, <1>9 DEF Next, Program

(* The calls go through the plan in order, and no slot whose variant has   *)
(* an adapter is left out (runner.py:196-204).                             *)
THEOREM PlanFollowed == Spec => []ProgressInv
<1>1. Init => ProgressInv
  BY InitProgress
<1>2. Known /\ ProgressInv /\ [Next]_vars => ProgressInv'
  BY StepProgress
<1>3. QED
  BY <1>1, <1>2, Inductive, PTL DEF Spec, Known

-----------------------------------------------------------------------------
(* Follow-ups: the dictionary holds what the rows say. *)
Keys == SeqRange(Questions) \X SeqRange(Variants)

LEMMA InitMemory == Init => MemoryInv
BY DEF Init, MemoryInv, InLoop, Adding, Flushing

(* Remembering the last row that kept a conversation, or passing over one  *)
(* that kept none, recalls the rows up to it.                              *)
LEMMA RecallsNext ==
  ASSUME NEW rows, NEW n \in Nat, NEW key, NEW before, NEW after,
         Recalls(rows, n, key, before),
         IF Kept(rows[n + 1], key) THEN after = rows[n + 1].conversation ELSE after = before
  PROVE  Recalls(rows, n + 1, key, after)
<1>1. CASE Kept(rows[n + 1], key)
  BY <1>1 DEF Recalls
<1>2. CASE ~Kept(rows[n + 1], key)
  <2>1. \A i \in 1..(n + 1) : i \in 1..n \/ i = n + 1
    OBVIOUS
  <2>2. CASE before = NoConversation /\ \A i \in 1..n : ~Kept(rows[i], key)
    BY <1>2, <2>1, <2>2 DEF Recalls
  <2>3. CASE \E i \in 1..n : /\ Kept(rows[i], key)
                           /\ before = rows[i].conversation
                           /\ \A j \in 1..n : Kept(rows[j], key) => j <= i
    BY <1>2, <2>1, <2>3 DEF Recalls
  <2>4. QED
    BY <2>2, <2>3 DEF Recalls
<1>3. QED
  BY <1>1, <1>2

(* Only the rows up to n matter. *)
LEMMA RecallsSame ==
  ASSUME NEW rows, NEW more, NEW n \in Nat, NEW key, NEW conversation,
         \A i \in 1..n : more[i] = rows[i],
         Recalls(rows, n, key, conversation)
  PROVE  Recalls(more, n, key, conversation)
BY DEF Recalls

LEMMA StepMemory == Known /\ ProgressInv /\ MemoryInv /\ [Next]_vars => MemoryInv'
<1> SUFFICES ASSUME Known, ProgressInv, MemoryInv, [Next]_vars PROVE MemoryInv'
  OBVIOUS
<1>0. /\ calls \in Seq(CallType) /\ results \in Seq(Row)
      /\ Len(calls) \in Nat /\ Len(results) \in Nat
      /\ \A i \in 1..Len(results) : results[i].slot \in Slots
      /\ pc \in {"boot", "flush", "write", "replace", "loop", "invoke", "returned",
                 "classify", "finalize", "done", "dead"}
      /\ flushFor \in {"init", "add", "final"}
      /\ conversations \in [Keys -> Conversation]
  BY KnownTypes DEF Known, TypeInv, TypeOK, Keys
<1> USE DEF Starting, InLoop, Adding, Flushing
(* The rows and the dictionary stay, and so does what is remembered.       *)
<1>a. ASSUME UNCHANGED <<results, conversations>>, Starting' => Starting,
             (InLoop \/ Adding)' => (InLoop \/ Adding) /\ Remembered' = Remembered
      PROVE  MemoryInv'
  BY <1>a DEF MemoryInv
(* Nothing is claimed of a run that leaves its loop.                       *)
<1>b. ASSUME ~Starting', ~(InLoop \/ Adding)' PROVE MemoryInv'
  BY <1>b DEF MemoryInv
<1>1. CASE Construct \/ OpenTmp \/ FillTmp \/ Invoke \/ Answer \/ SkipVariant \/ Tick
           \/ UNCHANGED vars
  <2>1. UNCHANGED <<results, conversations>>
    BY <1>1 DEF Construct, OpenTmp, FillTmp, Invoke, Answer, SkipVariant, Tick, vars, memory
  <2>2. /\ Starting' => Starting
        /\ (InLoop \/ Adding)' => (InLoop \/ Adding) /\ Remembered' = Remembered
    BY <1>1, <2>1 DEF Construct, OpenTmp, FillTmp, Invoke, Answer, SkipVariant, Tick, vars,
                      Remembered
  <2>3. QED
    BY <1>a, <2>1, <2>2
<1>2. CASE EndOfPlan \/ StopAtDeadline \/ Finalize \/ Interrupt \/ Die
  <2>1. ~Starting' /\ ~(InLoop \/ Adding)'
    BY <1>2 DEF EndOfPlan, StopAtDeadline, Finalize, Interrupt, Die
  <2>2. QED
    BY <1>b, <2>1
<1>3. CASE ReplaceFile
  <2>1. /\ pc = "replace" /\ pc' = AfterFlush
        /\ UNCHANGED <<results, conversations, flushFor>>
    BY <1>3 DEF ReplaceFile, memory
  <2>2. CASE flushFor = "init"
    <3>1. pc' = "loop" /\ results = <<>> /\ Remembered' = 0
      BY <2>1, <2>2 DEF AfterFlush, Known, IInv, LedgerInv, Remembered
    <3>2. \A key \in Keys : conversations[key] = NoConversation
      BY <2>1, <2>2 DEF MemoryInv, Keys
    <3>3. QED
      BY <2>1, <3>1, <3>2 DEF MemoryInv, Recalls, Keys
  <2>3. CASE flushFor = "add"
    BY <1>a, <2>1, <2>3 DEF AfterFlush, Remembered
  <2>4. CASE flushFor = "final"
    BY <1>b, <2>1, <2>4 DEF AfterFlush
  <2>5. QED
    BY <1>0, <2>2, <2>3, <2>4
<1>4. CASE Add
  <2>1. /\ pc = "returned" /\ pc' = "flush" /\ flushFor' = "add"
        /\ UNCHANGED conversations /\ Len(results') = Len(results) + 1
        /\ \A i \in 1..Len(results) : results'[i] = results[i]
    BY <1>0, <1>4 DEF Add
  <2>2. Remembered = Len(results) /\ Remembered' = Len(results)
    BY <1>0, <2>1 DEF Remembered
  <2>3. \A key \in Keys : Recalls(results', Len(results), key, conversations[key])
    BY <1>0, <2>1, <2>2, RecallsSame DEF MemoryInv, Keys
  <2>4. QED
    BY <2>1, <2>2, <2>3 DEF MemoryInv, Keys
<1>5. CASE Classify
  <2> DEFINE n == Len(results) - 1
  <2>1. /\ pc = "classify" /\ results # <<>> /\ results[Len(results)] = result
        /\ n \in Nat /\ results[n + 1] = result
    BY <1>0, <1>5 DEF Classify, Known, IInv, GuardrailInv
  <2>2. Remember(result) /\ UNCHANGED results /\ pc' \in {"loop", "finalize"}
    BY <1>5 DEF Classify
  <2>3. CASE pc' = "finalize"
    BY <1>b, <2>3
  <2>4. CASE pc' = "loop"
    <3>1. Remembered = n /\ Remembered' = n + 1
      BY <1>0, <2>1, <2>2, <2>4 DEF Remembered
    <3>2. result.slot \in Slots /\ Key(result.slot) \in Keys
      <4>1. result.slot \in Slots
        BY <1>0, <2>1
      <4>2. QED
        BY <4>1, PlanType DEF Keys
    <3>3. ASSUME NEW key \in Keys
          PROVE  Recalls(results, n + 1, key, conversations'[key])
      <4>1. Recalls(results, n, key, conversations[key])
        BY <2>1, <3>1 DEF MemoryInv, Keys
      <4>2. IF Kept(results[n + 1], key) THEN conversations'[key] = results[n + 1].conversation
            ELSE conversations'[key] = conversations[key]
        BY <1>0, <2>1, <2>2, <3>2 DEF Remember, Kept
      <4>3. QED
        BY <2>1, <4>1, <4>2, RecallsNext
    <3>4. QED
      BY <2>2, <2>4, <3>1, <3>3 DEF MemoryInv, Keys
  <2>5. QED
    BY <2>2, <2>3, <2>4
<1>6. CASE Rerun
  <2>1. pc' = "boot" /\ conversations' = [key \in Keys |-> NoConversation]
    BY <1>6 DEF Rerun, Keys
  <2>2. QED
    BY <2>1 DEF MemoryInv, Keys
<1>7. QED
  BY <1>1, <1>2, <1>3, <1>4, <1>5, <1>6 DEF Next, Program

(* One call's conversation, among the rows of its parent.                  *)
Parents(rows, k) ==
  {i \in 1..Len(rows) :
     rows[i].slot < k /\ Kept(rows[i], <<FollowUpTo[Plan[k].question], Plan[k].variant>>)}

InContext(call, rows) ==
  \/ Parents(rows, call.slot) = {} /\ call.conversation = call.slot
  \/ \E i \in Parents(rows, call.slot) :
       /\ \A j \in Parents(rows, call.slot) : j <= i
       /\ call.conversation = rows[i].conversation

ContextInv == \A c \in 1..Len(calls) : InContext(calls[c], results)

LEMMA ContextMeans == Known /\ ContextInv => FollowUpContext
<1> SUFFICES ASSUME Known, ContextInv, NEW c \in DOMAIN calls
             PROVE  LET k == calls[c].slot
                    IN \/ ParentRows(k) = {} /\ calls[c].conversation = k
                       \/ \E i \in ParentRows(k) :
                            /\ \A j \in ParentRows(k) : j <= i
                            /\ calls[c].conversation = results[i].conversation
  BY DEF FollowUpContext
<1>1. calls \in Seq(CallType) /\ results \in Seq(Row)
  BY KnownTypes
<1>2. InContext(calls[c], results)
  BY <1>1 DEF ContextInv
<1>3. ParentRows(calls[c].slot) = Parents(results, calls[c].slot)
  BY <1>1 DEF ParentRows, Parents, Kept
<1>4. QED
  BY <1>2, <1>3 DEF InContext

(* What the dictionary recalls at the head of the loop is the context of   *)
(* the call that goes out; an independent question has no parent.          *)
LEMMA InvokedInContext ==
  ASSUME Known, MemoryInv, pc = "loop", cursor \in Slots,
         \A i \in 1..Len(results) : results[i].slot < cursor,
         NEW call, call.slot = cursor,
         call.conversation = IF ReuseId(cursor) = NoConversation THEN cursor
                             ELSE ReuseId(cursor)
  PROVE  InContext(call, results)
<1> DEFINE parent == FollowUpTo[Plan[cursor].question]
           key    == <<parent, Plan[cursor].variant>>
<1>0. /\ results \in Seq(Row) /\ Len(results) \in Nat
      /\ \A i \in 1..Len(results) : results[i].slot \in Slots
  BY KnownTypes
<1>1. Parents(results, cursor) = {i \in 1..Len(results) : Kept(results[i], key)}
  BY DEF Parents
<1>2. CASE parent = NoQuestion
  <2>1. \A i \in 1..Len(results) : Key(results[i].slot) \in SeqRange(Questions) \X SeqRange(Variants)
    BY <1>0, PlanType
  <2>2. key \notin SeqRange(Questions) \X SeqRange(Variants)
    BY <1>2, PlanAssumption
  <2>3. Parents(results, cursor) = {}
    BY <1>1, <2>1, <2>2 DEF Kept
  <2>4. ReuseId(cursor) = NoConversation
    BY <1>2 DEF ReuseId
  <2>5. QED
    BY <2>3, <2>4 DEF InContext
<1>3. CASE parent # NoQuestion
  <2>1. parent \in SeqRange(Questions) /\ Plan[cursor].variant \in SeqRange(Variants)
    BY <1>3, PlanType, PlanAssumption
  <2>2. Recalls(results, Len(results), key, conversations[key])
    BY <2>1 DEF MemoryInv, InLoop, Remembered, Adding, Flushing
  <2>3. ReuseId(cursor) = conversations[key]
    BY <1>3 DEF ReuseId
  <2>4. CASE \A i \in 1..Len(results) : ~Kept(results[i], key)
    <3>1. Parents(results, cursor) = {} /\ conversations[key] = NoConversation
      BY <1>1, <2>2, <2>4 DEF Recalls
    <3>2. QED
      BY <2>3, <3>1 DEF InContext
  <2>5. CASE ~\A i \in 1..Len(results) : ~Kept(results[i], key)
    <3>1. PICK i \in 1..Len(results) :
            /\ Kept(results[i], key) /\ conversations[key] = results[i].conversation
            /\ \A j \in 1..Len(results) : Kept(results[j], key) => j <= i
      BY <2>2, <2>5 DEF Recalls
    <3>2. conversations[key] # NoConversation /\ call.conversation = results[i].conversation
      BY <2>3, <3>1 DEF Kept
    <3>3. i \in Parents(results, cursor) /\ \A j \in Parents(results, cursor) : j <= i
      BY <1>1, <3>1
    <3>4. QED
      BY <3>2, <3>3 DEF InContext
  <2>6. QED
    BY <2>4, <2>5
<1>4. QED
  BY <1>2, <1>3

(* A later row is no parent of an earlier call. *)
LEMMA ContextStays ==
  ASSUME NEW rows \in Seq(Row), NEW row \in Row, NEW call, call.slot \in Slots,
         call.slot <= row.slot, InContext(call, rows)
  PROVE  InContext(call, Append(rows, row))
<1> DEFINE more == Append(rows, row)
<1>1. /\ Len(more) = Len(rows) + 1 /\ more[Len(rows) + 1] = row /\ Len(rows) \in Nat
      /\ \A i \in 1..Len(rows) : more[i] = rows[i]
  OBVIOUS
<1>2. ~(row.slot < call.slot)
  BY DEF Row, Slots
<1> HIDE DEF more
<1>3. Parents(more, call.slot) = Parents(rows, call.slot)
  BY <1>1, <1>2 DEF Parents
<1>4. \A i \in Parents(rows, call.slot) : more[i].conversation = rows[i].conversation
  BY <1>1 DEF Parents
<1>5. InContext(call, more)
  BY <1>3, <1>4 DEF InContext
<1>6. QED
  BY <1>5 DEF more

LEMMA StepContext ==
  Known /\ ProgressInv /\ MemoryInv /\ ContextInv /\ [Next]_vars => ContextInv'
<1> SUFFICES ASSUME Known, ProgressInv, MemoryInv, ContextInv, [Next]_vars PROVE ContextInv'
  OBVIOUS
<1>0. /\ calls \in Seq(CallType) /\ results \in Seq(Row)
      /\ Len(calls) \in Nat /\ Len(results) \in Nat
      /\ cursor \in 1..(PlanLength + 1) /\ PlanLength \in Nat
      /\ \A c \in 1..Len(calls) : calls[c].slot \in Slots
      /\ \A i \in 1..Len(results) : results[i].slot \in Slots
  BY KnownTypes
<1>1. CASE Invoke
  <2> DEFINE call == [slot |-> cursor, answered |-> FALSE,
                      conversation |-> IF ReuseId(cursor) = NoConversation THEN cursor
                                       ELSE ReuseId(cursor)]
  <2>1. /\ calls' = Append(calls, call) /\ pc = "loop" /\ UNCHANGED results
        /\ cursor \in Slots
    BY <1>0, <1>1 DEF Invoke, MoreToRun, Slots
  <2>2. \A i \in 1..Len(results) : results[i].slot < cursor
    <3>1. Len(calls) = Len(results) /\ \A i \in 1..Len(results) : results[i].slot = calls[i].slot
      BY <2>1 DEF Known, IInv, LedgerInv
    <3>2. QED
      BY <2>1, <3>1 DEF ProgressInv
  <2>3. InContext(call, results)
    BY <2>1, <2>2, InvokedInContext
  <2> HIDE DEF call
  <2>4. /\ Len(calls') = Len(calls) + 1 /\ calls'[Len(calls) + 1] = call
        /\ \A c \in 1..Len(calls) : calls'[c] = calls[c]
    BY <1>0, <2>1
  <2>5. \A c \in 1..Len(calls') : InContext(calls'[c], results)
    BY <1>0, <2>3, <2>4 DEF ContextInv
  <2>6. QED
    BY <2>1, <2>5 DEF ContextInv
<1>2. CASE Answer
  <2>1. /\ Len(calls') = Len(calls) /\ UNCHANGED results
        /\ \A c \in 1..Len(calls) : /\ calls'[c].slot = calls[c].slot
                                    /\ calls'[c].conversation = calls[c].conversation
    <3>1. Len(calls) \in DOMAIN calls
      BY <1>0, <1>2 DEF Answer, Known, IInv, LedgerInv
    <3>2. QED
      BY <1>0, <1>2, <3>1 DEF Answer, CallType
  <2>2. ASSUME NEW c \in 1..Len(calls) PROVE InContext(calls'[c], results)
    <3>1. InContext(calls[c], results)
      BY <2>2 DEF ContextInv
    <3>2. QED
      BY <2>1, <3>1 DEF InContext
  <2>3. QED
    BY <2>1, <2>2 DEF ContextInv
<1>3. CASE Add
  <2>1. results' = Append(results, result) /\ pc = "returned" /\ UNCHANGED calls
    BY <1>3 DEF Add
  <2>2. result \in Row /\ result.slot = cursor
    BY <2>1 DEF Known, TypeInv, LocalInv, IInv, LedgerInv
  <2>3. ASSUME NEW c \in 1..Len(calls) PROVE InContext(calls[c], Append(results, result))
    <3>1. InContext(calls[c], results) /\ calls[c].slot <= result.slot /\ calls[c].slot \in Slots
      BY <1>0, <2>2, <2>3 DEF ContextInv, ProgressInv
    <3>2. QED
      BY <1>0, <2>2, <3>1, ContextStays
  <2>4. QED
    BY <2>1, <2>3 DEF ContextInv
<1>4. CASE Rerun
  BY <1>4 DEF Rerun, ContextInv
<1>5. ASSUME \/ Construct \/ OpenTmp \/ FillTmp \/ ReplaceFile \/ EndOfPlan \/ StopAtDeadline
             \/ SkipVariant \/ Classify \/ Finalize \/ Interrupt \/ Die \/ Tick \/ UNCHANGED vars
      PROVE  UNCHANGED <<calls, results>>
  BY <1>5 DEF Construct, OpenTmp, FillTmp, ReplaceFile, EndOfPlan, StopAtDeadline, SkipVariant,
              Classify, Finalize, Interrupt, Die, Tick, memory, vars
<1>6. ASSUME UNCHANGED <<calls, results>> PROVE ContextInv'
  BY <1>6 DEF ContextInv
<1>7. QED
  BY <1>1, <1>2, <1>3, <1>4, <1>5, <1>6 DEF Next, Program

(* run_benchmark reuses a conversation only for a follow-up, and then the  *)
(* one of its parent's latest row of the same variant that kept one        *)
(* (runner.py:206-209, 238-239), across skipped variants and rows that     *)
(* kept none, and whatever interrupts the run.                             *)
THEOREM FollowUpsInContext == Spec => []FollowUpContext
<1>1. Init => ProgressInv /\ MemoryInv /\ ContextInv
  BY InitProgress, InitMemory DEF Init, ContextInv
<1>2. Known /\ ProgressInv /\ MemoryInv /\ ContextInv /\ [Next]_vars
        => (ProgressInv /\ MemoryInv /\ ContextInv)'
  BY StepProgress, StepMemory, StepContext
<1>3. Known /\ ContextInv => FollowUpContext
  BY ContextMeans
<1>4. QED
  BY <1>1, <1>2, <1>3, Inductive, PTL DEF Spec, Known

-----------------------------------------------------------------------------
(* The plan as a product: every slot is one repetition of one variant of   *)
(* one question, and each such triple has one slot.                        *)
LEMMA DivUnique ==
  ASSUME NEW m \in Nat \ {0}, NEW x \in Nat, NEW y \in Nat,
         NEW r \in 0..(m - 1), NEW s \in 0..(m - 1), x * m + r = y * m + s
  PROVE  x = y /\ r = s
<1>1. ASSUME NEW a \in Nat, NEW b \in Nat, a < b PROVE b * m >= a * m + m
  <2>1. b - (a + 1) \in Nat /\ b = (a + 1) + (b - (a + 1))
    BY <1>1
  <2>2. b * m = (a + 1) * m + (b - (a + 1)) * m
    BY <2>1
  <2>3. (b - (a + 1)) * m >= 0 /\ (a + 1) * m = a * m + m
    BY <2>1
  <2>4. QED
    BY <2>2, <2>3
<1>2. ~(x < y)
  BY <1>1
<1>3. ~(y < x)
  BY <1>1
<1>4. x = y
  BY <1>2, <1>3
<1>5. QED
  BY <1>4

LEMMA DivMod ==
  ASSUME NEW a \in Nat, NEW m \in Nat \ {0}
  PROVE  a \div m \in Nat /\ a % m \in 0..(m - 1) /\ a = (a \div m) * m + (a % m)
OBVIOUS

LEMMA DivOf ==
  ASSUME NEW m \in Nat \ {0}, NEW x \in Nat, NEW r \in 0..(m - 1)
  PROVE  (x * m + r) \div m = x /\ (x * m + r) % m = r
<1> DEFINE a == x * m + r
<1>1. a \in Nat
  OBVIOUS
<1> HIDE DEF a
<1>2. a \div m \in Nat /\ a % m \in 0..(m - 1) /\ (a \div m) * m + (a % m) = a
  BY <1>1
<1>3. x * m + r = (a \div m) * m + (a % m)
  BY <1>2 DEF a
<1>4. a \div m = x /\ a % m = r
  BY <1>2, <1>3, DivUnique
<1>5. QED
  BY <1>4 DEF a

Widths == Len(Variants) \in Nat /\ Repetitions \in Nat \ {0} /\ Selected \in Nat
          /\ Len(Questions) \in Nat /\ Selected <= Len(Questions)

LEMMA WidthTypes == Widths
BY PlanAssumption DEF Widths, Selected

SlotOf(q, i, r) == ((q - 1) * Len(Variants) + (i - 1)) * Repetitions + r

LEMMA SlotParts ==
  ASSUME NEW k \in Slots
  PROVE  \E q \in 1..Selected, i \in 1..Len(Variants), r \in 1..Repetitions : k = SlotOf(q, i, r)
<1> DEFINE V == Len(Variants)
           R == Repetitions
           a == k - 1
           b == a \div R
           c == a % R
           d == b \div V
           e == b % V
<1>1. V \in Nat /\ R \in Nat \ {0} /\ Selected \in Nat
  BY WidthTypes DEF Widths
<1>2. PlanLength = (Selected * V) * R /\ Selected * V \in Nat /\ PlanLength \in Nat
  BY <1>1 DEF PlanLength
<1>3. a \in Nat /\ a < (Selected * V) * R /\ k = a + 1
  BY <1>2 DEF Slots
<1>4. V # 0
  BY <1>1, <1>2, <1>3
<1>5. c \in 0..(R - 1) /\ a = b * R + c
  BY <1>1, <1>3, DivMod
<1>6. b \in 0..(Selected * V - 1)
  BY <1>1, <1>2, <1>3, DivBound
<1>7. b \in Nat /\ b < Selected * V
  BY <1>2, <1>6
<1>8. e \in 0..(V - 1) /\ b = d * V + e
  BY <1>1, <1>4, <1>7, DivMod
<1>9. d \in 0..(Selected - 1)
  BY <1>1, <1>4, <1>7, DivBound
<1> HIDE DEF a, b, c, d, e
<1>10. d + 1 \in 1..Selected /\ e + 1 \in 1..V /\ c + 1 \in 1..R
  BY <1>1, <1>5, <1>8, <1>9
<1>11. SlotOf(d + 1, e + 1, c + 1) = (d * V + e) * R + (c + 1)
  <2>1. (d + 1) - 1 = d /\ (e + 1) - 1 = e
    BY <1>1, <1>8, <1>9
  <2>2. QED
    BY <2>1 DEF SlotOf
<1>12. k = SlotOf(d + 1, e + 1, c + 1)
  <2>1. b * R = (d * V + e) * R
    BY <1>8
  <2>2. k = (b * R + c) + 1 /\ b * R \in Int /\ c \in Int
    BY <1>1, <1>3, <1>5, <1>7
  <2>3. k = b * R + (c + 1)
    BY <2>2
  <2>4. QED
    BY <1>11, <2>1, <2>3
<1>13. QED
  BY <1>10, <1>12

LEMMA PlanAt ==
  ASSUME NEW q \in 1..Selected, NEW i \in 1..Len(Variants), NEW r \in 1..Repetitions
  PROVE  /\ SlotOf(q, i, r) \in Slots
         /\ Key(SlotOf(q, i, r)) = <<Questions[q], Variants[i]>>
<1> DEFINE V == Len(Variants)
           R == Repetitions
           k == SlotOf(q, i, r)
           b == (q - 1) * V + (i - 1)
<1>1. V \in Nat \ {0} /\ R \in Nat \ {0} /\ Selected \in Nat
  BY WidthTypes DEF Widths
<1>2. q - 1 \in Nat /\ i - 1 \in 0..(V - 1) /\ r - 1 \in 0..(R - 1) /\ b \in Nat
  BY <1>1
<1>3. k - 1 = b * R + (r - 1)
  BY <1>1, <1>2 DEF SlotOf
<1>4. (k - 1) \div R = b
  <2> HIDE DEF b, k
  <2>1. (b * R + (r - 1)) \div R = b
    BY <1>1, <1>2, DivOf
  <2>2. QED
    BY <1>3, <2>1
<1>5. b % V = i - 1
  BY <1>1, <1>2, DivOf
<1>6. (k - 1) \div (V * R) = q - 1
  <2> DEFINE t == (i - 1) * R + (r - 1)
  <2>1. V * R \in Nat \ {0} /\ t \in Nat
    BY <1>1, <1>2
  <2>2. t <= V * R - 1
    <3>1. V - 1 - (i - 1) \in Nat
      BY <1>1, <1>2
    <3>2. (V - 1 - (i - 1)) * R >= 0
      BY <1>1, <3>1
    <3>3. (V - 1 - (i - 1)) * R = V * R - R - (i - 1) * R
      BY <1>1, <1>2
    <3>4. QED
      BY <1>1, <1>2, <3>2, <3>3
  <2>3. b * R + (r - 1) = (q - 1) * (V * R) + t
    <3>1. b * R = ((q - 1) * V) * R + (i - 1) * R
      BY <1>1, <1>2
    <3>2. ((q - 1) * V) * R = (q - 1) * (V * R)
      BY <1>1, <1>2
    <3>3. QED
      BY <1>1, <1>2, <3>1, <3>2
  <2>4. t \in 0..(V * R - 1)
    BY <1>1, <2>1, <2>2
  <2> HIDE DEF t, b, k
  <2>5. ((q - 1) * (V * R) + t) \div (V * R) = q - 1
    BY <1>2, <2>1, <2>4, DivOf
  <2>6. QED
    BY <1>3, <2>3, <2>5
<1>7. k \in Slots
  <2>1. PlanLength = (Selected * V) * R
    BY <1>1 DEF PlanLength
  <2>2. b + 1 <= Selected * V
    <3>1. Selected - q \in Nat
      BY <1>1
    <3>2. (Selected - q) * V >= 0 /\ (Selected - q) * V = Selected * V - q * V
      BY <1>1, <3>1
    <3>3. (q - 1) * V = q * V - V
      BY <1>1
    <3>4. QED
      BY <1>1, <1>2, <3>2, <3>3
  <2>3. (b + 1) * R <= (Selected * V) * R /\ (b + 1) * R = b * R + R
    <3>1. Selected * V - (b + 1) \in Nat
      BY <1>1, <1>2, <2>2
    <3>2. (Selected * V - (b + 1)) * R >= 0
      BY <1>1, <3>1
    <3>3. QED
      BY <1>1, <1>2, <3>1, <3>2
  <2>4. b * R \in Nat /\ k = b * R + r
    BY <1>1, <1>2 DEF SlotOf
  <2> HIDE DEF k, b
  <2>5. QED
    BY <1>1, <2>1, <2>3, <2>4 DEF Slots
<1>8. Plan[k].question = Questions[q] /\ Plan[k].variant = Variants[i]
  <2>1. Plan[k].question = Questions[((k - 1) \div (V * R)) + 1]
    BY <1>7 DEF Plan
  <2>2. Plan[k].variant = Variants[(((k - 1) \div R) % V) + 1]
    BY <1>7 DEF Plan
  <2> HIDE DEF k, b
  <2>3. QED
    BY <1>2, <1>4, <1>5, <1>6, <2>1, <2>2
<1>9. QED
  BY <1>7, <1>8 DEF Key

LEMMA SlotInjective ==
  ASSUME NEW q \in 1..Selected, NEW i \in 1..Len(Variants), NEW j \in 1..Len(Variants),
         NEW r \in 1..Repetitions, NEW s \in 1..Repetitions,
         SlotOf(q, i, r) = SlotOf(q, j, s)
  PROVE  i = j /\ r = s
<1> DEFINE b == (q - 1) * Len(Variants) + (i - 1)
           d == (q - 1) * Len(Variants) + (j - 1)
<1>1. b \in Nat /\ d \in Nat /\ Repetitions \in Nat \ {0}
  BY WidthTypes DEF Widths
<1>2. r - 1 \in 0..(Repetitions - 1) /\ s - 1 \in 0..(Repetitions - 1)
  BY <1>1
<1>3. b * Repetitions + (r - 1) = d * Repetitions + (s - 1)
  BY <1>1 DEF SlotOf
<1> HIDE DEF b, d
<1>4. b = d /\ r - 1 = s - 1
  BY <1>1, <1>2, <1>3, DivUnique
<1>5. (q - 1) * Len(Variants) + (i - 1) = (q - 1) * Len(Variants) + (j - 1)
  BY <1>4 DEF b, d
<1>6. QED
  BY <1>1, <1>4, <1>5, WidthTypes DEF Widths

(* The slots of one question and variant: as many as repetitions, for each *)
(* time the variant is configured.                                         *)
SlotsOf(q, v)   == {k \in Slots : Key(k) = <<Questions[q], v>>}
Configured(v)   == {i \in DOMAIN Variants : Variants[i] = v}

LEMMA SlotsCounted ==
  ASSUME NEW q \in 1..Selected, NEW v
  PROVE  /\ IsFiniteSet(SlotsOf(q, v))
         /\ Cardinality(SlotsOf(q, v)) = Repetitions * Cardinality(Configured(v))
<1> DEFINE C == Configured(v)
           R == 1..Repetitions
           f == [p \in C \X R |-> SlotOf(q, p[1], p[2])]
<1>1. /\ DOMAIN Variants = 1..Len(Variants) /\ DOMAIN Questions = 1..Len(Questions)
      /\ Len(Variants) \in Nat /\ Repetitions \in Nat \ {0} /\ q \in DOMAIN Questions
      /\ 1..Selected \subseteq DOMAIN Questions
  BY WidthTypes, PlanAssumption DEF Widths
<1>2. IsFiniteSet(C) /\ IsFiniteSet(R) /\ Cardinality(R) = Repetitions
  <2>1. C \in SUBSET (1..Len(Variants))
    BY <1>1 DEF Configured
  <2>2. IsFiniteSet(1..Len(Variants))
    BY <1>1, FS_Interval
  <2>3. IsFiniteSet(1..Repetitions) /\ Cardinality(1..Repetitions) = Repetitions
    <3>1. 1 \in Int /\ Repetitions \in Int /\ ~(1 > Repetitions) /\ Repetitions - 1 + 1 = Repetitions
      BY <1>1
    <3>2. QED
      BY <3>1, FS_Interval, Zenon
  <2>4. QED
    BY <2>1, <2>2, <2>3, FS_Subset
<1>3. IsFiniteSet(C \X R) /\ Cardinality(C \X R) = Cardinality(C) * Repetitions
  BY <1>2, FS_Product
<1>4. f \in Bijection(C \X R, SlotsOf(q, v))
  <2>1. \A p \in C \X R : f[p] \in SlotsOf(q, v)
    <3>1. SUFFICES ASSUME NEW i \in C, NEW r \in R PROVE SlotOf(q, i, r) \in SlotsOf(q, v)
      OBVIOUS
    <3>2. i \in 1..Len(Variants) /\ Variants[i] = v
      BY <1>1 DEF Configured
    <3>3. QED
      BY <3>2, PlanAt DEF SlotsOf
  <2>2. \A p, o \in C \X R : f[p] = f[o] => p = o
    <3>1. SUFFICES ASSUME NEW i \in C, NEW r \in R, NEW j \in C, NEW s \in R,
                          SlotOf(q, i, r) = SlotOf(q, j, s)
                   PROVE  i = j /\ r = s
      OBVIOUS
    <3>2. i \in 1..Len(Variants) /\ j \in 1..Len(Variants)
      BY <1>1 DEF Configured
    <3>3. QED
      BY <3>1, <3>2, SlotInjective
  <2>3. \A k \in SlotsOf(q, v) : \E p \in C \X R : f[p] = k
    <3>1. TAKE k \in SlotsOf(q, v)
    <3>2. k \in Slots /\ Key(k) = <<Questions[q], v>>
      BY DEF SlotsOf
    <3>3. PICK d \in 1..Selected, i \in 1..Len(Variants), r \in R : k = SlotOf(d, i, r)
      BY <3>2, SlotParts
    <3>4. Questions[d] = Questions[q] /\ Variants[i] = v
      BY <3>2, <3>3, PlanAt
    <3>5. d = q
      BY <1>1, <3>4, PlanAssumption
    <3>6. i \in C
      BY <1>1, <3>4 DEF Configured
    <3>7. <<i, r>> \in C \X R /\ f[<<i, r>>] = k
      BY <3>3, <3>5, <3>6
    <3>8. QED
      BY <3>7
  <2> HIDE DEF C, R
  <2>4. f \in [C \X R -> SlotsOf(q, v)]
    BY <2>1
  <2> HIDE DEF f
  <2>5. QED
    BY <2>2, <2>3, <2>4, Fun_IsBij
<1>5. ExistsBijection(C \X R, SlotsOf(q, v))
  BY <1>4 DEF ExistsBijection
<1>6. Cardinality(C) \in Nat
  BY <1>2, FS_CardinalityType
<1>7. QED
  BY <1>1, <1>3, <1>5, <1>6, FS_Bijection

(* Once the plan is over, the rows of a question and of a variant with an  *)
(* adapter stand one to one for their slots.                               *)
LEMMA RowsAreSlots ==
  ASSUME Known, ProgressInv, cursor = PlanLength + 1, NEW doc, doc.rows = results,
         NEW q \in 1..Selected, NEW v \in Adapters
  PROVE  Cardinality(RowsOf(doc, Questions[q], v)) = Cardinality(SlotsOf(q, v))
<1> DEFINE T == RowsOf(doc, Questions[q], v)
           g == [i \in T |-> results[i].slot]
<1>0. /\ results \in Seq(Row) /\ Len(results) \in Nat /\ Len(calls) \in Nat
      /\ PlanLength \in Nat
      /\ \A i \in 1..Len(results) : results[i].slot \in Slots
  BY KnownTypes
<1>1. T = {i \in 1..Len(results) : Key(results[i].slot) = <<Questions[q], v>>}
  BY <1>0 DEF RowsOf
<1>2. \A i \in T : results[i].slot \in SlotsOf(q, v)
  BY <1>0, <1>1 DEF SlotsOf
<1>3. \A i, j \in 1..Len(results) : results[i].slot = results[j].slot => i = j
  <2>1. SUFFICES ASSUME NEW i \in 1..Len(results), NEW j \in 1..Len(results), i < j
                 PROVE  results[i].slot # results[j].slot
    BY <1>0
  <2>2. /\ i \in 1..Len(calls) /\ j \in 1..Len(calls)
        /\ results[i].slot = calls[i].slot /\ results[j].slot = calls[j].slot
    BY <1>0 DEF Known, IInv, LedgerInv
  <2>3. calls[i].slot < calls[j].slot /\ calls[i].slot \in Slots
    BY <2>1, <2>2, KnownTypes DEF ProgressInv
  <2>4. QED
    BY <1>0, <2>1, <2>2, <2>3 DEF Slots
<1>4. \A k \in SlotsOf(q, v) : \E i \in T : results[i].slot = k
  <2>1. TAKE k \in SlotsOf(q, v)
  <2>2. k \in 1..(cursor - 1) /\ Plan[k].variant = v /\ Key(k) = <<Questions[q], v>>
    BY <1>0 DEF SlotsOf, Slots, Key
  <2>3. PICK i \in 1..Len(results) : results[i].slot = k
    BY <2>2 DEF ProgressInv
  <2>4. QED
    BY <1>1, <2>2, <2>3
<1> HIDE DEF T
<1>5. g \in [T -> SlotsOf(q, v)]
  BY <1>2
<1>6. g \in Bijection(T, SlotsOf(q, v))
  <2>1. \A i, j \in T : g[i] = g[j] => i = j
    BY <1>1, <1>3
  <2>2. \A k \in SlotsOf(q, v) : \E i \in T : g[i] = k
    BY <1>4
  <2> HIDE DEF g
  <2>3. QED
    BY <1>5, <2>1, <2>2, Fun_IsBij
<1>7. IsFiniteSet(T)
  <2>1. IsFiniteSet(1..Len(results)) /\ T \in SUBSET (1..Len(results))
    BY <1>0, <1>1, FS_Interval
  <2>2. QED
    BY <2>1, FS_Subset
<1>8. ExistsBijection(T, SlotsOf(q, v))
  BY <1>6 DEF ExistsBijection
<1>9. Cardinality(T) = Cardinality(SlotsOf(q, v))
  BY <1>7, <1>8, FS_Bijection
<1>10. QED
  BY <1>9 DEF T

(* run_benchmark says "completed" only at the end of the loop              *)
(* (runner.py:193-251): every question has its rows of every variant with  *)
(* an adapter, one for each repetition and no other, and none tripped.     *)
THEOREM CompletedIsWhole == Spec => []CompletedMeansWholePlan
<1>1. ASSUME Known, ProgressInv, Closed, disk.status = "completed"
      PROVE  /\ \A q \in 1..Selected, v \in Adapters :
                  Cardinality(RowsOf(disk, Questions[q], v)) =
                    Repetitions * Cardinality({i \in DOMAIN Variants : Variants[i] = v})
             /\ \A i \in DOMAIN disk.rows : disk.rows[i].signals = {}
  <2>1. pc = "done" /\ disk = Payload
    BY <1>1, ClosedMeansDone DEF Known
  <2>2. disk.rows = results /\ disk.status = metadata.status
    BY <2>1 DEF Payload, Document
  <2>3. verdict.status = "completed" /\ verdict.reason = "none"
    BY <1>1, <2>1, <2>2 DEF Known, IInv, StoreInv, Finalized
  <2>4. cursor = PlanLength + 1
    BY <1>1, <2>1, <2>3 DEF ProgressInv
  <2>5. ASSUME NEW q \in 1..Selected, NEW v \in Adapters
        PROVE  Cardinality(RowsOf(disk, Questions[q], v)) =
                 Repetitions * Cardinality({i \in DOMAIN Variants : Variants[i] = v})
    BY <1>1, <2>2, <2>4, RowsAreSlots, SlotsCounted DEF Configured
  <2>6. ASSUME NEW i \in DOMAIN disk.rows PROVE disk.rows[i].signals = {}
    <3>1. i \in 1..Len(results)
      BY <1>1, <2>2, <2>6, KnownTypes
    <3>2. QED
      BY <1>1, <2>1, <2>2, <2>3, <3>1 DEF ProgressInv
  <2>7. QED
    BY <2>5, <2>6
<1>2. Known /\ ProgressInv => CompletedMeansWholePlan
  BY <1>1 DEF CompletedMeansWholePlan
<1>3. QED
  BY <1>2, Inductive, PlanFollowed, PTL DEF Known
==============================================================================
