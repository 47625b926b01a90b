------------------------ MODULE SupervisorAdaptersProofs ------------------------
(***************************************************************************)
(* The two supervisor adapters, for any number of questions and whatever   *)
(* the endpoint and the MCP server answer.                                 *)
(***************************************************************************)
EXTENDS SupervisorAdapters, TokenUsageProofs

(* One element of a sequence is replaced, or one is added.                 *)
LEMMA EntryReplaced ==
  ASSUME NEW T, NEW s \in Seq(T), NEW i \in 1..Len(s), NEW v \in T
  PROVE  /\ [s EXCEPT ![i] = v] \in Seq(T)
         /\ Len([s EXCEPT ![i] = v]) = Len(s)
         /\ \A j \in 1..Len(s) : [s EXCEPT ![i] = v][j] = IF j = i THEN v ELSE s[j]
OBVIOUS

LEMMA EntryAdded ==
  ASSUME NEW T, NEW s \in Seq(T), NEW v \in T
  PROVE  /\ Append(s, v) \in Seq(T)
         /\ Len(Append(s, v)) = Len(s) + 1
         /\ Append(s, v)[Len(s) + 1] = v
         /\ \A j \in 1..Len(s) : Append(s, v)[j] = s[j]
OBVIOUS

LEMMA AppendIsTable ==
  ASSUME NEW T, NEW s \in Seq(T), NEW v \in T
  PROVE  Append(s, v) = [i \in 1..(Len(s) + 1) |-> IF i = Len(s) + 1 THEN v ELSE s[i]]
<1> DEFINE t == Append(s, v)
<1>1. /\ t \in Seq(T) /\ Len(t) = Len(s) + 1 /\ Len(s) \in Nat
      /\ t[Len(s) + 1] = v /\ \A j \in 1..Len(s) : t[j] = s[j]
  BY EntryAdded
<1> HIDE DEF t
<1>2. t \in [1..(Len(s) + 1) -> T]
  BY <1>1
<1>3. \A i \in 1..(Len(s) + 1) : t[i] = IF i = Len(s) + 1 THEN v ELSE s[i]
  BY <1>1
<1>4. QED
  BY <1>2, <1>3 DEF t

-----------------------------------------------------------------------------
(* What the two normalisers make of an answer.                             *)
FieldType == [usage: Usage, source: TokenSource, warnings: SUBSET Warning,
              counts: [llm: Nat, tool: Nat, mcp: Nat]]

LEMMA NoUsageType == NoUsage \in Usage /\ NoUsage.total = Unknown
BY DEF NoUsage, Usage, Count, Unknown

LEMMA CountsType ==
  ASSUME NEW trace \in Trace
  PROVE  CountCalls(trace) \in [llm: Nat, tool: Nat, mcp: Nat]
<1>1. LlmSpans(trace) \in SUBSET DOMAIN trace.spans
  BY DEF LlmSpans
<1>2. \A S \in SUBSET DOMAIN trace.spans : Cardinality(S) \in Nat
  BY SpansAreFinite
<1>3. QED
  BY <1>1, <1>2 DEF CountCalls

LEMMA SupervisorFieldsType ==
  ASSUME NEW p \in Payload
  PROVE  LET f == SupervisorFields(p)
         IN /\ f \in FieldType /\ Sourced(f)
            /\ f.source = "unavailable" => "token_usage_unavailable" \in f.warnings
            /\ p.trace = NoTrace =>
                 "trace_unavailable" \in f.warnings /\ f.source \in {"provider_reported", "unavailable"}
            /\ p.trace # NoTrace /\ f.source # "provider_reported" =>
                 LET r == NormalizeTokenUsage(p.trace)
                 IN f.usage = r.usage /\ f.source = r.source /\ f.warnings = r.warnings
<1> DEFINE reported == UsageFromMapping(p.usage)
           r        == NormalizeTokenUsage(p.trace)
           missing  == IF p.trace = NoTrace THEN {"trace_unavailable"} ELSE {}
           counts   == IF p.trace = NoTrace THEN NoCounts ELSE CountCalls(p.trace)
           given    == [usage |-> reported, source |-> "provider_reported", warnings |-> {}]
           nothing  == [usage |-> NoUsage, source |-> "unavailable",
                        warnings |-> {"token_usage_unavailable"}]
           tokens   == IF reported # NoUsage THEN given
                       ELSE IF p.trace # NoTrace THEN r ELSE nothing
<1>1. p.usage \in Usage /\ p.trace \in Trace \cup {NoTrace}
  BY DEF Payload
<1>2. reported \in Usage /\ (reported # NoUsage => reported.total \in Nat)
  BY <1>1, NoUsageType, UsageIsRead
<1>3. p.trace # NoTrace =>
        /\ r.usage \in Usage /\ r.source \in TokenSource /\ r.warnings \subseteq TokenWarning
        /\ Sourced(r) /\ r.source # "provider_reported"
        /\ r.source = "unavailable" => "token_usage_unavailable" \in r.warnings
  BY <1>1, TokensNormalized DEF Sourced
<1>4. counts \in [llm: Nat, tool: Nat, mcp: Nat]
  BY <1>1, CountsType DEF NoCounts
<1>5. SupervisorFields(p) = [usage |-> tokens.usage, source |-> tokens.source,
                             warnings |-> tokens.warnings \cup missing, counts |-> counts]
  BY DEF SupervisorFields
<1>6. \A n \in Nat : n # Unknown
  BY DEF Unknown
<1> HIDE DEF reported, r, counts
<1>7. CASE reported # NoUsage
  BY <1>2, <1>4, <1>5, <1>6, <1>7 DEF FieldType, Sourced, TokenSource, Warning
<1>8. CASE reported = NoUsage /\ p.trace # NoTrace
  BY <1>3, <1>4, <1>5, <1>8 DEF FieldType, Sourced, TokenWarning, Warning, r
<1>9. CASE reported = NoUsage /\ p.trace = NoTrace
  BY <1>4, <1>5, <1>9, NoUsageType DEF FieldType, Sourced, TokenSource, Warning
<1>10. QED
  BY <1>7, <1>8, <1>9

LEMMA McpFieldsType ==
  ASSUME NEW p \in McpPayload
  PROVE  LET f == McpFields(p)
         IN /\ f \in FieldType /\ Sourced(f) /\ "token_usage_unavailable" \in f.warnings
            /\ p.isError => "mcp_tool_status" \in f.warnings
BY NoUsageType DEF McpFields, FieldType, Sourced, NoCounts, TokenSource, Warning, McpPayload

LEMMA NoFieldsType ==
  ASSUME NEW w \in SUBSET Warning
  PROVE  NoFields(w) \in FieldType /\ Sourced(NoFields(w))
BY NoUsageType DEF NoFields, FieldType, Sourced, NoCounts, TokenSource

-----------------------------------------------------------------------------
(* What _result appends: a row, which says what the question's answer      *)
(* gives it, and which closes the question.                                *)
Returned(status) ==
  LET row == rows'[Len(rows) + 1]
  IN /\ pc # "idle" /\ pc' = "idle" /\ UNCHANGED <<setup, posted>>
     /\ rows' \in Seq(RowType) /\ Len(rows') = Len(rows) + 1
     /\ \A i \in 1..Len(rows) : rows'[i] = rows[i]
     /\ row.status = status /\ Says(row, posted[Here])

Status == {"COMPLETED", "FAILED", "TIMEOUT", "NOT_CONFIGURED"}

LEMMA OpenQuestion ==
  ASSUME LedgerInv, pc # "idle"
  PROVE  /\ Here \in 1..Len(posted) /\ Here = Len(rows) + 1 /\ Len(posted) = Len(rows) + 1
         /\ posted # <<>> /\ posted[Here] \in EntryType
BY DEF LedgerInv, Here

LEMMA ResultReturns ==
  ASSUME LedgerInv, pc # "idle", UNCHANGED <<setup, posted>>,
         NEW status \in Status, NEW traceId \in BOOLEAN, NEW f \in FieldType, Sourced(f),
         Result(status, traceId, f),
         status = "COMPLETED" =>
           posted[Here].answer # Pending /\ f = FieldsOf(posted[Here])
             /\ (Asked = "supervisor" => traceId = posted[Here].answer.traceId)
  PROVE  Returned(status)
<1> DEFINE more == IF Asked = "supervisor" /\ status = "COMPLETED" /\ ~traceId
                   THEN {"trace_id_unavailable"} ELSE {}
           row  == [status |-> status, traceId |-> traceId, usage |-> f.usage, source |-> f.source,
                    counts |-> f.counts, warnings |-> f.warnings \cup more]
<1>1. row \in RowType
  BY DEF RowType, FieldType, Warning, Status
<1>2. rows' = Append(rows, row) /\ pc' = "idle"
  BY DEF Result
<1>3. row.status = status /\ Says(row, posted[Here])
  BY DEF Says, Sourced, Asked
<1>4. rows \in Seq(RowType)
  BY DEF LedgerInv
<1> HIDE DEF row
<1>5. QED
  BY <1>1, <1>2, <1>3, <1>4, EntryAdded DEF Returned

(* The four steps with which invoke returns.                               *)
LEMMA ReturnStep ==
  ASSUME LedgerInv, NotConfigured \/ PrepareFails \/ CallReturns \/ CallRaises
  PROVE  \E status \in Status : Returned(status)
<1>1. ASSUME NEW status \in Status \ {"COMPLETED"}, NEW w \in SUBSET Warning, pc # "idle",
             UNCHANGED <<setup, posted>>, Result(status, FALSE, NoFields(w))
      PROVE  Returned(status)
  BY <1>1, NoFieldsType, ResultReturns
<1>2. CASE NotConfigured
  BY <1>1, <1>2 DEF NotConfigured, Status, Warning
<1>3. CASE PrepareFails
  <2>1. PICK status \in {"FAILED", "TIMEOUT"} : Result(status, FALSE, NoFields({}))
    BY <1>3 DEF PrepareFails
  <2>2. status \in Status \ {"COMPLETED"} /\ {} \in SUBSET Warning
    BY DEF Status
  <2>3. pc # "idle" /\ UNCHANGED <<setup, posted>>
    BY <1>3 DEF PrepareFails
  <2>4. Returned(status)
    BY <1>1, <2>1, <2>2, <2>3
  <2>5. QED
    BY <2>2, <2>4
<1>4. CASE CallRaises
  <2>1. PICK status \in {"FAILED", "TIMEOUT"} : Result(status, FALSE, NoFields({}))
    BY <1>4 DEF CallRaises
  <2>2. status \in Status \ {"COMPLETED"} /\ {} \in SUBSET Warning
    BY DEF Status
  <2>3. pc # "idle" /\ UNCHANGED <<setup, posted>>
    BY <1>4 DEF CallRaises
  <2>4. Returned(status)
    BY <1>1, <2>1, <2>2, <2>3
  <2>5. QED
    BY <2>2, <2>4
<1>5. CASE CallReturns
  <2> DEFINE answer == posted[Here].answer
  <2>1. pc # "idle" /\ answer # Pending /\ UNCHANGED <<setup, posted>>
    BY <1>5 DEF CallReturns
  <2>2. Here \in 1..Len(posted) /\ posted[Here] \in EntryType
    BY <2>1, OpenQuestion
  <2>3. answer \in IF Asked = "supervisor" THEN Payloads ELSE McpPayload
    BY <2>1, <2>2 DEF LedgerInv, Asked
  <2>4. CASE Asked = "supervisor_mcp"
    <3>1. answer \in McpPayload /\ Result("COMPLETED", FALSE, McpFields(answer))
      BY <1>5, <2>3, <2>4 DEF CallReturns
    <3>2. McpFields(answer) = FieldsOf(posted[Here])
      BY <2>4 DEF FieldsOf, Asked
    <3>3. QED
      BY <2>1, <2>4, <3>1, <3>2, McpFieldsType, ResultReturns DEF Status
  <2>5. CASE Asked # "supervisor_mcp"
    <3>1. Asked = "supervisor"
      BY <2>2, <2>5 DEF EntryType, Variant, Asked
    <3>2. /\ answer \in Payload /\ answer.traceId \in BOOLEAN
          /\ Result("COMPLETED", answer.traceId, SupervisorFields(answer))
      BY <1>5, <2>3, <2>5, <3>1, SupervisorAssumption DEF CallReturns, Payload
    <3>3. SupervisorFields(answer) = FieldsOf(posted[Here])
      BY <3>1 DEF FieldsOf, Asked
    <3>4. QED
      BY <2>1, <3>2, <3>3, SupervisorFieldsType, ResultReturns DEF Status
  <2>6. QED
    BY <2>4, <2>5
<1>6. QED
  BY <1>2, <1>3, <1>4, <1>5

-----------------------------------------------------------------------------
(* The invariant.                                                          *)
LEMMA InitHolds == Init => IInv
BY DEF Init, IInv, LedgerInv, RowInv

(* The entry of question i is replaced by v.                               *)
LEMMA EntryStep ==
  ASSUME LedgerInv, NEW i \in 1..Len(posted), NEW v \in EntryType,
         posted' = [posted EXCEPT ![i] = v], v.variant = posted[i].variant,
         v.answer \in (IF v.variant = "supervisor" THEN Payloads ELSE McpPayload) \cup {Pending}
  PROVE  /\ posted' \in Seq(EntryType) /\ Len(posted') = Len(posted) /\ posted'[i] = v
         /\ \A j \in 1..Len(posted) : j # i => posted'[j] = posted[j]
         /\ \A j \in DOMAIN posted' :
              posted'[j].answer \in (IF posted'[j].variant = "supervisor" THEN Payloads
                                     ELSE McpPayload) \cup {Pending}
<1>1. posted \in Seq(EntryType)
  BY DEF LedgerInv
<1>2. /\ posted' \in Seq(EntryType) /\ Len(posted') = Len(posted)
      /\ \A j \in 1..Len(posted) : posted'[j] = IF j = i THEN v ELSE posted[j]
  BY <1>1, EntryReplaced
<1>3. DOMAIN posted' = 1..Len(posted) /\ DOMAIN posted = 1..Len(posted)
  BY <1>1, <1>2
<1>4. QED
  BY <1>2, <1>3 DEF LedgerInv

LEMMA AnswerStep ==
  ASSUME LedgerInv, NEW i \in DOMAIN posted, Answer(i)
  PROVE  \E v \in EntryType :
           /\ posted' = [posted EXCEPT ![i] = v]
           /\ v.variant = posted[i].variant /\ v.sent = posted[i].sent
           /\ v.answer \in (IF v.variant = "supervisor" THEN Payloads ELSE McpPayload) \cup {Pending}
<1>1. posted[i] \in EntryType
  BY DEF LedgerInv
<1>2. PICK p \in IF posted[i].variant = "supervisor" THEN Payloads ELSE McpPayload :
        posted' = [posted EXCEPT ![i] = [posted[i] EXCEPT !.answer = p]]
  BY DEF Answer
<1> DEFINE v == [posted[i] EXCEPT !.answer = p]
<1>3. v \in EntryType /\ v.variant = posted[i].variant /\ v.sent = posted[i].sent /\ v.answer = p
  BY <1>1 DEF EntryType
<1> HIDE DEF v
<1>4. QED
  BY <1>2, <1>3 DEF v

LEMMA StepLedger == LedgerInv /\ [Next]_vars => LedgerInv'
<1> SUFFICES ASSUME LedgerInv, [Next]_vars PROVE LedgerInv'
  OBVIOUS
<1>0. /\ posted \in Seq(EntryType) /\ rows \in Seq(RowType)
      /\ Len(posted) \in Nat /\ Len(rows) \in Nat
  BY DEF LedgerInv
<1>1. CASE Invoke
  <2>1. PICK v \in Variant : posted' = Append(posted, [variant |-> v, sent |-> 0, answer |-> Pending])
    BY <1>1 DEF Invoke
  <2> DEFINE e == [variant |-> v, sent |-> 0, answer |-> Pending]
  <2>2. e \in EntryType /\ e.sent = 0 /\ e.answer = Pending
    BY DEF EntryType
  <2>3. posted' = Append(posted, e)
    BY <2>1
  <2> HIDE DEF e
  <2>4. /\ posted' \in Seq(EntryType) /\ Len(posted') = Len(posted) + 1
        /\ posted'[Len(posted) + 1] = e /\ \A j \in 1..Len(posted) : posted'[j] = posted[j]
    BY <1>0, <2>2, <2>3, EntryAdded
  <2>5. pc = "idle" /\ pc' = "prepare" /\ UNCHANGED <<setup, rows>>
    BY <1>1 DEF Invoke
  <2>6. DOMAIN posted' = 1..(Len(posted) + 1) /\ DOMAIN posted = 1..Len(posted)
    BY <1>0, <2>4
  <2>7. QED
    BY <1>0, <2>2, <2>4, <2>5, <2>6 DEF LedgerInv, Here
<1>2. CASE Post
  <2> DEFINE e == [posted[Here] EXCEPT !.sent = posted[Here].sent + 1]
  <2>1. /\ pc = "prepare" /\ pc' = "calling" /\ UNCHANGED <<setup, rows>>
        /\ posted' = [posted EXCEPT ![Here] = e]
    BY <1>2 DEF Post
  <2>2. Here \in 1..Len(posted) /\ posted[Here] \in EntryType /\ posted[Here].sent = 0
    BY <2>1, OpenQuestion DEF LedgerInv
  <2>3. e \in EntryType /\ e.variant = posted[Here].variant /\ e.answer = posted[Here].answer
    BY <2>2 DEF EntryType
  <2>4. e.answer \in (IF e.variant = "supervisor" THEN Payloads ELSE McpPayload) \cup {Pending}
    BY <1>0, <2>2, <2>3 DEF LedgerInv
  <2> HIDE DEF e
  <2>5. QED
    BY <2>1, <2>2, <2>3, <2>4, EntryStep DEF LedgerInv
<1>3. CASE NotConfigured \/ PrepareFails \/ CallReturns \/ CallRaises
  <2>1. PICK status \in Status : Returned(status)
    BY <1>3, ReturnStep
  <2>2. QED
    BY <1>0, <2>1, OpenQuestion DEF Returned, LedgerInv
<1>4. ASSUME NEW i \in DOMAIN posted, Answer(i) PROVE LedgerInv'
  <2>1. PICK v \in EntryType :
           /\ posted' = [posted EXCEPT ![i] = v]
           /\ v.variant = posted[i].variant /\ v.sent = posted[i].sent
           /\ v.answer \in (IF v.variant = "supervisor" THEN Payloads ELSE McpPayload) \cup {Pending}
    BY <1>4, AnswerStep
  <2>2. i \in 1..Len(posted) /\ UNCHANGED <<pc, setup, rows>>
    BY <1>0, <1>4 DEF Answer
  <2>3. /\ posted' \in Seq(EntryType) /\ Len(posted') = Len(posted) /\ posted'[i] = v
        /\ \A j \in 1..Len(posted) : j # i => posted'[j] = posted[j]
        /\ \A j \in DOMAIN posted' :
              posted'[j].answer \in (IF posted'[j].variant = "supervisor" THEN Payloads
                                     ELSE McpPayload) \cup {Pending}
    BY <2>1, <2>2, EntryStep
  <2>4. pc = "prepare" => posted'[Here].sent = 0
    BY <2>1, <2>3, OpenQuestion DEF LedgerInv
  <2>5. QED
    BY <2>2, <2>3, <2>4 DEF LedgerInv, Here
<1>5. CASE UNCHANGED vars
  BY <1>5 DEF vars, LedgerInv, Here
<1>6. QED
  BY <1>1, <1>2, <1>3, <1>4, <1>5 DEF Next, Adapter

(* A row says what it said: its entry keeps its variant and, once there,   *)
(* its answer.                                                             *)
LEMMA StepRows == IInv /\ [Next]_vars => RowInv'
<1> SUFFICES ASSUME LedgerInv, RowInv, [Next]_vars PROVE RowInv'
  BY DEF IInv
<1>0. /\ posted \in Seq(EntryType) /\ rows \in Seq(RowType)
      /\ Len(posted) \in Nat /\ Len(rows) \in Nat /\ Len(rows) <= Len(posted)
  BY DEF LedgerInv
<1>1. CASE Invoke
  <2>1. \A i \in 1..Len(posted) : posted'[i] = posted[i]
    BY <1>0, <1>1 DEF Invoke
  <2>2. UNCHANGED rows
    BY <1>1 DEF Invoke
  <2>3. QED
    BY <1>0, <2>1, <2>2 DEF RowInv
<1>2. CASE Post
  <2>1. pc # "idle" /\ UNCHANGED rows
        /\ posted' = [posted EXCEPT ![Here] = [posted[Here] EXCEPT !.sent = posted[Here].sent + 1]]
    BY <1>2 DEF Post
  <2>2. \A i \in 1..Len(rows) : posted'[i] = posted[i]
    BY <1>0, <2>1, OpenQuestion
  <2>3. QED
    BY <1>0, <2>1, <2>2 DEF RowInv
<1>3. CASE NotConfigured \/ PrepareFails \/ CallReturns \/ CallRaises
  <2>1. PICK status \in Status : Returned(status)
    BY <1>3, ReturnStep
  <2>2. /\ UNCHANGED posted /\ Len(rows') = Len(rows) + 1 /\ rows' \in Seq(RowType)
        /\ \A i \in 1..Len(rows) : rows'[i] = rows[i]
        /\ Here = Len(rows) + 1 /\ Says(rows'[Len(rows) + 1], posted[Here])
    BY <2>1, OpenQuestion DEF Returned
  <2>3. DOMAIN rows' = 1..(Len(rows) + 1) /\ DOMAIN rows = 1..Len(rows)
    BY <1>0, <2>2
  <2>4. ASSUME NEW i \in DOMAIN rows' PROVE Says(rows'[i], posted'[i])
    <3>1. CASE i \in 1..Len(rows)
      BY <2>2, <2>3, <3>1 DEF RowInv
    <3>2. CASE i = Len(rows) + 1
      BY <2>2, <3>2
    <3>3. QED
      BY <1>0, <2>3, <3>1, <3>2
  <2>5. QED
    BY <2>4 DEF RowInv
<1>4. ASSUME NEW i \in DOMAIN posted, Answer(i) PROVE RowInv'
  <2>1. /\ UNCHANGED rows /\ posted[i].answer = Pending
        /\ \E v : posted' = [posted EXCEPT ![i] = v]
    BY <1>4 DEF Answer
  <2>2. PICK v \in EntryType : posted' = [posted EXCEPT ![i] = v]
    BY <1>4, AnswerStep
  <2>3. ASSUME NEW j \in DOMAIN rows PROVE Says(rows[j], posted'[j])
    <3>1. Says(rows[j], posted[j]) /\ j \in 1..Len(posted)
      BY <1>0 DEF RowInv
    <3>2. CASE j = i
      BY <2>1, <3>1, <3>2 DEF Says
    <3>3. CASE j # i
      BY <1>0, <2>2, <3>1, <3>3
    <3>4. QED
      BY <3>2, <3>3
  <2>4. QED
    BY <2>1, <2>3 DEF RowInv
<1>5. CASE UNCHANGED vars
  BY <1>5 DEF vars, RowInv
<1>6. QED
  BY <1>1, <1>2, <1>3, <1>4, <1>5 DEF Next, Adapter

(* What is asked, sent and answered agrees, always.                        *)
THEOREM Inductive == Spec => []IInv
<1>1. LedgerInv /\ [Next]_vars => LedgerInv'
  BY StepLedger
<1>2. IInv /\ [Next]_vars => IInv'
  BY <1>1, StepRows DEF IInv
<1>3. QED
  BY <1>2, InitHolds, PTL DEF Spec

(* TypeOK: at most one call per question, and a row has a total exactly    *)
(* when it names a source for it (supervisor.py:103-143).                  *)
THEOREM TypesHold == Spec => []TypeOK
<1>1. IInv => TypeOK
  <2> SUFFICES ASSUME IInv PROVE TypeOK
    OBVIOUS
  <2>1. posted \in Seq(EntryType) /\ rows \in Seq(RowType)
    BY DEF IInv, LedgerInv
  <2>2. \A i \in DOMAIN posted : posted[i] \in EntryType
    BY <2>1
  <2>3. \A i \in DOMAIN rows : rows[i] \in RowType /\ Sourced(rows[i])
    BY <2>1 DEF IInv, RowInv, Says
  <2>4. QED
    BY <2>2, <2>3 DEF IInv, LedgerInv, TypeOK, EntryType, RowType, Sourced
<1>2. QED
  BY <1>1, Inductive, PTL

-----------------------------------------------------------------------------
(* What a span's usage adds: its total, or what it says of its two halves. *)
LEMMA UsageAdds ==
  ASSUME NEW u \in Usage, u # NoUsage
  PROVE  SpanTotal(UsageFromMapping(u))
           = IF u.total > 0 THEN u.total ELSE OrZero(u.input) + OrZero(u.output)
<1> DEFINE By == IF u.total > 0 THEN u.total ELSE OrZero(u.input) + OrZero(u.output)
           s  == OrZero(u.input) + OrZero(u.output)
           r  == UsageFromMapping(u)
<1>1. /\ u.input \in Count /\ u.output \in Count /\ u.total \in Count
      /\ OrZero(u.input) \in Nat /\ OrZero(u.output) \in Nat
  BY DEF Usage, Count, OrZero, Unknown
<1>2. CASE u.total = Unknown
  <2>1. r = [u EXCEPT !.total = s]
    BY <1>2 DEF UsageFromMapping
  <2>2. r.total = s /\ r.input = u.input /\ r.output = u.output
    BY <2>1 DEF Usage
  <2>3. By = s
    BY <1>2 DEF Unknown
  <2> HIDE DEF r
  <2>4. SpanTotal(r) = s
    BY <2>2 DEF SpanTotal
  <2>5. QED
    BY <2>3, <2>4 DEF r
<1>3. CASE u.total # Unknown
  <2>1. UsageFromMapping(u) = u /\ u.total \in Nat
    BY <1>1, <1>3 DEF UsageFromMapping, Count
  <2>2. QED
    BY <2>1 DEF SpanTotal
<1>4. QED
  BY <1>2, <1>3

(* Where spans have plain types, what is counted is what the LLM spans     *)
(* tell, and it adds up to what they spent.                                *)
LEMMA CountedIsTold ==
  ASSUME NEW trace \in Trace, trace.shape = "native",
         \A k \in DOMAIN trace.spans : trace.spans[k].type # ""
  PROVE  /\ Counted(trace) = Telling(trace) /\ LlmSpans(trace) = Llm(trace)
         /\ TotalOf(trace) = Spent(trace)
<1>1. \A i \in DOMAIN trace.spans : trace.spans[i].usage \in Usage
  BY SpanIsRead DEF ChildSpan
<1>2. \A i \in DOMAIN trace.spans :
        /\ SpanType(trace, i) = trace.spans[i].type
        /\ SpanUsage(trace, i) = UsageFromMapping(trace.spans[i].usage)
        /\ trace.spans[i].type # ""
  BY DEF SpanType, SpanUsage
<1>3. LlmSpans(trace) = Llm(trace)
  BY <1>2 DEF LlmSpans, Llm
<1>4. Counted(trace) = Telling(trace)
  BY <1>1, <1>2, UsageIsRead DEF Counted, Telling, Llm
<1> DEFINE By(u) == IF u.total > 0 THEN u.total ELSE OrZero(u.input) + OrZero(u.output)
<1>5. ASSUME NEW u \in Usage, u # NoUsage PROVE SpanTotal(UsageFromMapping(u)) = By(u)
  BY <1>5, UsageAdds
<1>6. \A i \in Telling(trace) :
        SpanTotal(SpanUsage(trace, i)) = By(trace.spans[i].usage)
  BY <1>1, <1>2, <1>5 DEF Telling, Llm
<1>7. [i \in Counted(trace) |-> SpanTotal(SpanUsage(trace, i))]
        = [i \in Telling(trace) |-> By(trace.spans[i].usage)]
  BY <1>4, <1>6
<1>8. Spent(trace) = SumFunction([i \in Telling(trace) |-> By(trace.spans[i].usage)])
  BY DEF Spent
<1>9. QED
  BY <1>3, <1>4, <1>7, <1>8 DEF TotalOf

LEMMA SerializedIsUnread ==
  ASSUME NEW trace \in Trace, trace.shape = "serialized"
  PROVE  TraceLevel(trace) = NoUsage /\ Counted(trace) = {}
BY DEF TraceLevel, Counted, SpanUsage

(* No trace of Payloads hides its spans' types among their attributes, and *)
(* the plain ones give every span a type.                                  *)
TypesAreRead ==
  \A p \in Payloads :
    /\ p.trace.shape # "attributes"
    /\ p.trace.shape = "native" => \A k \in DOMAIN p.trace.spans : p.trace.spans[k].type # ""

LEMMA TraceIsReadable ==
  ASSUME TypesAreRead, NEW p \in Payloads, p.trace # NoTrace
  PROVE  /\ p.trace \in Trace /\ p.trace.shape \in {"native", "serialized"}
         /\ p.trace.shape = "native" =>
              \A k \in DOMAIN p.trace.spans : p.trace.spans[k].type # ""
BY SupervisorAssumption DEF TypesAreRead, Payload, Trace, Shape

(* What a completed supervisor row says of its trace.                      *)
LEMMA RowOfTrace ==
  ASSUME IInv, TypesAreRead, NEW i \in Completed("supervisor"),
         rows[i].source \in {"trace_attribute", "child_span_sum"}
  PROVE  LET trace == posted[i].answer.trace
         IN /\ trace \in Trace /\ trace.shape = "native"
            /\ rows[i].source = "trace_attribute" =>
                 (Telling(trace) # {} /\ Spent(trace) # rows[i].usage.total =>
                    "token_usage_conflict" \in rows[i].warnings)
            /\ rows[i].source = "child_span_sum" =>
                 /\ rows[i].usage.total = Spent(trace)
                 /\ "token_usage_partial" \notin rows[i].warnings =>
                      ~(Cardinality(Llm(trace)) > Cardinality(Telling(trace)))
<1> DEFINE p     == posted[i].answer
           trace == p.trace
           f     == SupervisorFields(p)
<1>1. /\ i \in DOMAIN rows /\ i \in DOMAIN posted
      /\ posted[i].variant = "supervisor" /\ rows[i].status = "COMPLETED"
  BY DEF Completed, IInv, LedgerInv
<1>2. p \in Payloads
  BY <1>1 DEF IInv, LedgerInv, RowInv, Says
<1>3. /\ rows[i].usage = f.usage /\ rows[i].source = f.source
      /\ f.warnings \subseteq rows[i].warnings
  BY <1>1 DEF IInv, RowInv, Says, FieldsOf
<1>4. p \in Payload
  BY <1>2, SupervisorAssumption
<1>5. trace # NoTrace /\ f.source # "provider_reported"
  BY <1>3, <1>4, SupervisorFieldsType
<1> DEFINE r == NormalizeTokenUsage(trace)
<1>6. f.usage = r.usage /\ f.source = r.source /\ f.warnings = r.warnings
  BY <1>4, <1>5, SupervisorFieldsType
<1>7. /\ trace \in Trace /\ trace.shape \in {"native", "serialized"}
      /\ trace.shape = "native" => \A k \in DOMAIN trace.spans : trace.spans[k].type # ""
  BY <1>2, <1>5, TraceIsReadable
<1> HIDE DEF f, trace
<1>8. /\ r.source = "trace_attribute" =>
                 /\ TraceLevel(trace) # NoUsage
                 /\ Counted(trace) # {} /\ TotalOf(trace) # r.usage.total =>
                      "token_usage_conflict" \in r.warnings
      /\ r.source = "child_span_sum" =>
                 /\ Counted(trace) # {} /\ r.usage.total = TotalOf(trace)
                 /\ "token_usage_partial" \notin r.warnings =>
                      ~(Cardinality(LlmSpans(trace)) > Cardinality(Counted(trace)))
  BY <1>7, TokensNormalized
<1> HIDE DEF r
<1>9. trace.shape = "native"
  BY <1>3, <1>6, <1>7, <1>8, SerializedIsUnread
<1>10. Counted(trace) = Telling(trace) /\ LlmSpans(trace) = Llm(trace)
       /\ TotalOf(trace) = Spent(trace)
  BY <1>7, <1>9, CountedIsTold
<1>11. QED
  BY <1>3, <1>6, <1>7, <1>8, <1>9, <1>10 DEF trace

(* The gaps the code has a warning for are in the warnings of every        *)
(* completed row, whatever the endpoint, its trace and the MCP server gave *)
(* (supervisor.py:103-113, 193-194, supervisor_mcp.py:54-62,               *)
(* tracing.py:207-241), as long as the types of the spans can be read.     *)
THEOREM NamedGapsWarned ==
  ASSUME TypesAreRead
  PROVE  Spec => []NamedGapsAreWarned
<1>1. ASSUME IInv, NEW i \in Completed("supervisor")
      PROVE  LET got == posted[i].answer
                 Warned(w) == w \in rows[i].warnings
             IN /\ rows[i].usage.total = Unknown => Warned("token_usage_unavailable")
                /\ ~got.traceId => Warned("trace_id_unavailable")
                /\ got.trace = NoTrace => Warned("trace_unavailable")
                /\ rows[i].source = "trace_attribute" =>
                     (Spent(got.trace) \notin {0, rows[i].usage.total}
                        => Warned("token_usage_conflict"))
  <2> DEFINE p == posted[i].answer
             f == SupervisorFields(p)
  <2>1. /\ i \in DOMAIN rows /\ i \in DOMAIN posted
        /\ posted[i].variant = "supervisor" /\ rows[i].status = "COMPLETED"
    BY <1>1 DEF Completed, IInv, LedgerInv
  <2>2. p \in Payload
    BY <1>1, <2>1, SupervisorAssumption DEF IInv, LedgerInv, RowInv, Says
  <2>3. /\ Sourced(rows[i]) /\ rows[i].source = f.source /\ f.warnings \subseteq rows[i].warnings
        /\ ~p.traceId => "trace_id_unavailable" \in rows[i].warnings
    BY <1>1, <2>1 DEF IInv, RowInv, Says, FieldsOf
  <2>4. /\ rows[i].source = "unavailable" => "token_usage_unavailable" \in rows[i].warnings
        /\ p.trace = NoTrace => "trace_unavailable" \in rows[i].warnings
    BY <2>2, <2>3, SupervisorFieldsType
  <2>5. ASSUME rows[i].source = "trace_attribute", Spent(p.trace) \notin {0, rows[i].usage.total}
        PROVE  "token_usage_conflict" \in rows[i].warnings
    <3>1. Telling(p.trace) # {}
      BY <2>5, SumOfNothing DEF Spent
    <3>2. QED
      BY <1>1, <2>5, <3>1, RowOfTrace
  <2>6. QED
    BY <2>3, <2>4, <2>5 DEF Sourced
<1>2. ASSUME IInv, NEW i \in Completed("supervisor_mcp")
      PROVE  /\ "token_usage_unavailable" \in rows[i].warnings
             /\ posted[i].answer.isError => "mcp_tool_status" \in rows[i].warnings
  <2>1. /\ i \in DOMAIN rows /\ i \in DOMAIN posted
        /\ posted[i].variant = "supervisor_mcp" /\ rows[i].status = "COMPLETED"
    BY <1>2 DEF Completed, IInv, LedgerInv
  <2>2. posted[i].answer \in McpPayload
    BY <1>2, <2>1 DEF IInv, LedgerInv, RowInv, Says
  <2>3. McpFields(posted[i].answer).warnings \subseteq rows[i].warnings
    BY <1>2, <2>1 DEF IInv, RowInv, Says, FieldsOf
  <2>4. QED
    BY <2>2, <2>3, McpFieldsType
<1>3. IInv => NamedGapsAreWarned
  BY <1>1, <1>2 DEF NamedGapsAreWarned
<1>4. QED
  BY <1>3, Inductive, PTL

(* A total summed over spans, without a warning, is what all the LLM calls *)
(* spent (tracing.py:160-189, 226-238), as long as types can be read.      *)
THEOREM UnwarnedIsWhole ==
  ASSUME TypesAreRead
  PROVE  Spec => []UnwarnedTotalIsWhole
<1>1. ASSUME IInv, NEW i \in Completed("supervisor"),
             rows[i].source = "child_span_sum", "token_usage_partial" \notin rows[i].warnings
      PROVE  LET trace == posted[i].answer.trace
             IN Telling(trace) = Llm(trace) /\ rows[i].usage.total = Spent(trace)
  <2> DEFINE trace == posted[i].answer.trace
  <2>1. /\ trace \in Trace /\ rows[i].usage.total = Spent(trace)
        /\ ~(Cardinality(Llm(trace)) > Cardinality(Telling(trace)))
    BY <1>1, RowOfTrace
  <2> HIDE DEF trace
  <2>2. Telling(trace) \subseteq Llm(trace) /\ Llm(trace) \subseteq DOMAIN trace.spans
    BY DEF Telling, Llm
  <2>3. /\ IsFiniteSet(Llm(trace)) /\ Cardinality(Llm(trace)) \in Nat
        /\ Cardinality(Telling(trace)) \in Nat
    BY <2>1, <2>2, SpansAreFinite
  <2>4. ASSUME Telling(trace) # Llm(trace) PROVE FALSE
    <3>1. Cardinality(Telling(trace)) < Cardinality(Llm(trace))
      BY <2>2, <2>3, <2>4, FS_Subset
    <3>2. QED
      BY <2>1, <2>3, <3>1
  <2>5. QED
    BY <2>1, <2>4 DEF trace
<1>2. IInv => UnwarnedTotalIsWhole
  BY <1>1 DEF UnwarnedTotalIsWhole
<1>3. QED
  BY <1>2, Inductive, PTL

-----------------------------------------------------------------------------
(* The contract of adapters/base.py: each step of invoke is a step of the  *)
(* abstract adapter or leaves what the contract sees alone.                *)
Questions == Len(posted)
Posts     == IF posted = <<>> THEN 0 ELSE posted[Here].sent
Answers   == [i \in DOMAIN rows |-> rows[i].status]

LEMMA AnswersGrow ==
  ASSUME LedgerInv, NEW status \in Status, Returned(status)
  PROVE  Answers' = Append(Answers, status) /\ Len(Answers) = Len(rows)
<1>0. /\ rows \in Seq(RowType) /\ rows' \in Seq(RowType) /\ Len(rows) \in Nat
      /\ Len(rows') = Len(rows) + 1 /\ rows'[Len(rows) + 1].status = status
      /\ \A i \in 1..Len(rows) : rows'[i] = rows[i]
  BY DEF LedgerInv, Returned
<1>1. Answers = [i \in 1..Len(rows) |-> rows[i].status]
  BY <1>0 DEF Answers
<1>2. Answers' = [i \in 1..(Len(rows) + 1) |-> rows'[i].status]
  BY <1>0 DEF Answers
<1>3. Answers \in Seq(Status) /\ Len(Answers) = Len(rows)
  <2>1. \A i \in 1..Len(rows) : rows[i] \in RowType
    BY <1>0
  <2>2. \A i \in 1..Len(rows) : rows[i].status \in Status
    BY <2>1 DEF RowType, Status
  <2>3. QED
    BY <1>0, <1>1, <2>2
<1>4. Append(Answers, status) = [i \in 1..(Len(rows) + 1) |->
                                   IF i = Len(rows) + 1 THEN status ELSE Answers[i]]
  BY <1>3, AppendIsTable
<1>5. QED
  BY <1>0, <1>1, <1>2, <1>3, <1>4

LEMMA ContractStep == IInv /\ [Next]_vars => [Contract!Next]_(Contract!contract)
<1> SUFFICES ASSUME LedgerInv, [Next]_vars
             PROVE  Contract!Next \/ UNCHANGED Contract!contract
  BY DEF IInv
<1>0. /\ posted \in Seq(EntryType) /\ rows \in Seq(RowType)
      /\ Len(posted) \in Nat /\ Len(rows) \in Nat
  BY DEF LedgerInv
<1>n. Len(Answers) = Len(rows)
  <2>1. Answers = [i \in 1..Len(rows) |-> rows[i].status]
    BY <1>0 DEF Answers
  <2>2. Answers \in Seq({rows[i].status : i \in 1..Len(rows)})
    BY <1>0, <2>1
  <2>3. QED
    BY <1>0, <2>1, <2>2
<1>1. CASE Invoke
  <2>1. PICK v : posted' = Append(posted, [variant |-> v, sent |-> 0, answer |-> Pending])
    BY <1>1 DEF Invoke
  <2>2. Len(posted') = Len(posted) + 1 /\ posted' # <<>> /\ posted'[Len(posted')].sent = 0
    BY <1>0, <2>1
  <2>3. Len(posted) = Len(rows) /\ UNCHANGED rows
    BY <1>1 DEF Invoke, LedgerInv
  <2>4. Questions' = Questions + 1 /\ Posts' = 0 /\ Answers' = Answers
    BY <2>2, <2>3 DEF Questions, Posts, Answers, Here
  <2>5. Contract!Ask
    BY <1>n, <2>3, <2>4 DEF Contract!Ask, Contract!Busy, Questions, Posts, Answers
  <2>6. QED
    BY <2>5 DEF Contract!Next
<1>2. CASE Post
  <2> DEFINE v == [posted[Here] EXCEPT !.sent = posted[Here].sent + 1]
  <2>1. pc = "prepare" /\ UNCHANGED rows /\ posted' = [posted EXCEPT ![Here] = v]
    BY <1>2 DEF Post
  <2>2. /\ Here \in 1..Len(posted) /\ Len(posted) = Len(rows) + 1 /\ posted # <<>>
        /\ posted[Here] \in EntryType /\ posted[Here].sent = 0
    BY <2>1, OpenQuestion DEF LedgerInv
  <2>3. v \in EntryType /\ v.sent = 1
    BY <2>2 DEF EntryType
  <2> HIDE DEF v
  <2>4. Len(posted') = Len(posted) /\ posted'[Here] = v /\ posted' # <<>>
    BY <1>0, <2>1, <2>2, <2>3, EntryReplaced
  <2>5. Questions' = Questions /\ Posts = 0 /\ Posts' = 1 /\ Answers' = Answers
    BY <2>1, <2>2, <2>3, <2>4 DEF Questions, Posts, Answers, Here
  <2>6. Contract!Post
    BY <1>n, <2>2, <2>5 DEF Contract!Post, Contract!Busy, Questions, Posts, Answers
  <2>7. QED
    BY <2>6 DEF Contract!Next
<1>3. CASE NotConfigured \/ PrepareFails \/ CallReturns \/ CallRaises
  <2>1. PICK status \in Status : Returned(status)
    BY <1>3, ReturnStep
  <2>2. Answers' = Append(Answers, status) /\ status \in Contract!AnswerStatus
    BY <2>1, AnswersGrow DEF Status, Contract!AnswerStatus
  <2>3. /\ Len(posted) = Len(rows) + 1 /\ UNCHANGED posted
        /\ Questions' = Questions /\ Posts' = Posts
    BY <2>1, OpenQuestion DEF Returned, Questions, Posts, Here
  <2>4. Contract!Return(status)
    BY <1>n, <2>2, <2>3 DEF Contract!Return, Contract!Busy, Questions, Posts, Answers
  <2>5. QED
    BY <2>2, <2>4 DEF Contract!Next
<1>4. ASSUME NEW i \in DOMAIN posted, Answer(i) PROVE UNCHANGED Contract!contract
  <2>1. PICK v \in EntryType : posted' = [posted EXCEPT ![i] = v] /\ v.sent = posted[i].sent
    BY <1>4, AnswerStep
  <2>2. i \in 1..Len(posted) /\ UNCHANGED rows
    BY <1>0, <1>4 DEF Answer
  <2>3. /\ Len(posted') = Len(posted)
        /\ \A j \in 1..Len(posted) : posted'[j] = IF j = i THEN v ELSE posted[j]
    BY <1>0, <2>1, <2>2, EntryReplaced
  <2>4. posted # <<>> /\ posted' # <<>> /\ Len(posted) \in 1..Len(posted)
    BY <1>0, <2>2, <2>3
  <2>5. Questions' = Questions /\ Posts' = Posts /\ Answers' = Answers
    BY <2>1, <2>2, <2>3, <2>4 DEF Questions, Posts, Answers, Here
  <2>6. QED
    BY <2>5 DEF Contract!contract, Questions, Posts, Answers
<1>5. CASE UNCHANGED vars
  <2>1. Questions' = Questions /\ Posts' = Posts /\ Answers' = Answers
    BY <1>5 DEF vars, Questions, Posts, Answers, Here
  <2>2. QED
    BY <2>1 DEF Contract!contract, Questions, Posts, Answers
<1>6. QED
  BY <1>1, <1>2, <1>3, <1>4, <1>5 DEF Next, Adapter

(* Both adapters do what the contract allows: one row per question, and    *)
(* one call at most, whatever fails (adapters/base.py:38-56,               *)
(* supervisor.py:146-213). That each question gets its row is liveness,    *)
(* and checked by TLC.                                                     *)
THEOREM ContractKept == Spec => Contract!Safety
<1>1. Init => Contract!Init
  BY DEF Init, Contract!Init
<1>2. QED
  BY <1>1, ContractStep, Inductive, PTL DEF Spec, Contract!Safety
==============================================================================
