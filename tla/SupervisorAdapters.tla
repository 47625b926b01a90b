-------------------------- MODULE SupervisorAdapters --------------------------
(***************************************************************************)
(* adapters/supervisor.py and adapters/supervisor_mcp.py: invoke of both,  *)
(* for a sequence of questions, against the supervisor endpoint and the    *)
(* managed Genie MCP server (external).                                    *)
(*                                                                         *)
(* Both prepare a client (the MCP one also discovers the server's tools),  *)
(* send one blocking call and turn what comes back into a row. The call    *)
(* can raise before the agent took it, while the agent works, or after it  *)
(* answered: the agent goes on with a question given up on. The timeout    *)
(* handed to the caller is not used, so when a call ends is the client's   *)
(* affair. Texts, sizes, ids and latencies are left out; errors are one.   *)
(* An operator X_Y is X with a plausible mistake, Y, in it; no definition  *)
(* uses one.                                                               *)
(***************************************************************************)
EXTENDS TokenUsage

CONSTANTS
  Payloads,      (* what the supervisor endpoint can answer                *)
  MaxInvokes     (* bound: questions asked                                 *)

Variant     == {"supervisor", "supervisor_mcp"}
NoTrace     == [shape |-> "none", level |-> NoUsage, spans |-> <<>>]

(* A payload: usage reported by the provider, the trace, and whether an id *)
(* of it is given.                                                         *)
Payload     == [usage: Usage, trace: Trace \cup {NoTrace}, traceId: BOOLEAN]

(* An MCP tool result: the flag isError.                                   *)
McpPayload  == [isError: BOOLEAN]

ASSUME SupervisorAssumption ==
  /\ MaxInvokes \in Nat \ {0}
  /\ Payloads \subseteq Payload

Warning == {"token_usage_conflict", "token_usage_partial", "token_usage_unavailable",
            "trace_unavailable", "trace_id_unavailable", "mcp_tool_status", "not_configured"}

VARIABLES
  pc,         (* where invoke is; "idle" between questions                 *)
  setup,      (* targets in the config; is the MCP client installed        *)
  posted,     (* per question: the variant, calls sent, the agent's answer *)
  rows        (* InvocationResults returned                                *)

vars == <<pc, setup, posted, rows>>

Pending == [pending |-> TRUE]
Here    == Len(posted)
Asked   == posted[Here].variant     (* of the question being answered *)

Init ==
  /\ pc = "idle"
  /\ setup \in [targets: SUBSET Variant, client: BOOLEAN]
  /\ posted = <<>>
  /\ rows = <<>>

-----------------------------------------------------------------------------
(* normalize_supervisor_payload: the provider's usage first, then the      *)
(* trace's, and a warning for what is missing.                             *)
NoCounts == [llm |-> 0, tool |-> 0, mcp |-> 0]

SupervisorFields(p) ==
  LET reported == UsageFromMapping(p.usage)
      tokens == IF reported # NoUsage
                THEN [usage |-> reported, source |-> "provider_reported", warnings |-> {}]
                ELSE IF p.trace # NoTrace THEN NormalizeTokenUsage(p.trace)
                ELSE [usage |-> NoUsage, source |-> "unavailable",
                      warnings |-> {"token_usage_unavailable"}]
  IN [usage |-> tokens.usage, source |-> tokens.source,
      warnings |-> tokens.warnings
                   \cup (IF p.trace = NoTrace THEN {"trace_unavailable"} ELSE {}),
      counts |-> IF p.trace = NoTrace THEN NoCounts ELSE CountCalls(p.trace)]

(* normalize_mcp_payload: one call of one tool, and never any tokens.      *)
McpFields(p) ==
  [usage |-> NoUsage, source |-> "unavailable",
   warnings |-> {"token_usage_unavailable"} \cup (IF p.isError THEN {"mcp_tool_status"} ELSE {}),
   counts |-> [NoCounts EXCEPT !.tool = 1, !.mcp = 1]]

(* _result of the two adapters: only the supervisor's warns of an answer   *)
(* without a trace id.                                                     *)
Result_SilentTraceId(status, traceId, fields) ==
  /\ rows' = Append(rows,
       [status |-> status, traceId |-> traceId, usage |-> fields.usage, source |-> fields.source,
        counts |-> fields.counts, warnings |-> fields.warnings])
  /\ pc' = "idle"

Result(status, traceId, fields) ==
  /\ rows' = Append(rows,
       [status |-> status, traceId |-> traceId, usage |-> fields.usage, source |-> fields.source,
        counts |-> fields.counts,
        warnings |-> fields.warnings
          \cup (IF Asked = "supervisor" /\ status = "COMPLETED" /\ ~traceId
                THEN {"trace_id_unavailable"} ELSE {})])
  /\ pc' = "idle"

NoFields(warnings) ==
  [usage |-> NoUsage, source |-> "unavailable", counts |-> NoCounts, warnings |-> warnings]

-----------------------------------------------------------------------------
Invoke ==
  /\ pc = "idle"
  /\ Len(posted) < MaxInvokes
  /\ \E v \in Variant : posted' = Append(posted, [variant |-> v, sent |-> 0, answer |-> Pending])
  /\ pc' = "prepare"
  /\ UNCHANGED <<setup, rows>>

(* _default_caller: a target in the config and, over MCP, its client.      *)
Usable(v) == v \in setup.targets /\ (v = "supervisor_mcp" => setup.client)

NotConfigured ==
  /\ pc = "prepare"
  /\ ~Usable(Asked)
  /\ Result("NOT_CONFIGURED", FALSE, NoFields({"not_configured"}))
  /\ UNCHANGED <<setup, posted>>

(* The clients cannot be built; over MCP, list_tools raises or lists none. *)
PrepareFails ==
  /\ pc = "prepare"
  /\ Usable(Asked)
  /\ \E status \in {"FAILED", "TIMEOUT"} : Result(status, FALSE, NoFields({}))
  /\ UNCHANGED <<setup, posted>>

Post ==
  /\ pc = "prepare"
  /\ Usable(Asked)
  /\ pc' = "calling"
  /\ posted' = [posted EXCEPT ![Here].sent = @ + 1]
  /\ UNCHANGED <<setup, rows>>

(* The call returns, and what it returns is normalised.                    *)
CallReturns ==
  LET answer == posted[Here].answer
  IN /\ pc = "calling"
     /\ answer # Pending
     /\ IF Asked = "supervisor_mcp" THEN Result("COMPLETED", FALSE, McpFields(answer))
        ELSE Result("COMPLETED", answer.traceId, SupervisorFields(answer))
     /\ UNCHANGED <<setup, posted>>

(* It raises TimeoutError or anything else, whatever the agent did; or the *)
(* code trips over what it returned.                                       *)
CallRaises_Retried ==
  /\ pc = "calling"
  /\ \/ posted[Here].sent < 2 /\ pc' = "prepare" /\ UNCHANGED rows
     \/ \E status \in {"FAILED", "TIMEOUT"} : Result(status, FALSE, NoFields({}))
  /\ UNCHANGED <<setup, posted>>

CallRaises ==
  /\ pc = "calling"
  /\ \E status \in {"FAILED", "TIMEOUT"} : Result(status, FALSE, NoFields({}))
  /\ UNCHANGED <<setup, posted>>

(* The agent answers a question it was sent, be it given up on or not.     *)
Answer(i) ==
  /\ posted[i].sent > 0
  /\ posted[i].answer = Pending
  /\ \E p \in IF posted[i].variant = "supervisor" THEN Payloads ELSE McpPayload :
       posted' = [posted EXCEPT ![i].answer = p]
  /\ UNCHANGED <<pc, setup, rows>>

Adapter == NotConfigured \/ PrepareFails \/ Post \/ CallReturns \/ CallRaises

Next == Invoke \/ Adapter \/ \E i \in DOMAIN posted : Answer(i)

(* A call returns or raises: the HTTP client below has a timeout of its    *)
(* own. The agent may never answer.                                        *)
Spec == Init /\ [][Next]_vars /\ WF_vars(Adapter)

-----------------------------------------------------------------------------
(* The type invariant of invoke, its rows and the agents' side; a row has  *)
(* a total exactly when it names a source for it.                          *)
TypeOK ==
  /\ pc \in {"idle", "prepare", "calling"}
  /\ setup \in [targets: SUBSET Variant, client: BOOLEAN]
  /\ \A i \in DOMAIN posted :
       posted[i].variant \in Variant /\ posted[i].sent \in 0..1
  /\ \A i \in DOMAIN rows :
       /\ rows[i].usage \in Usage /\ rows[i].source \in TokenSource
       /\ rows[i].warnings \subseteq Warning
       /\ rows[i].usage.total = Unknown <=> rows[i].source = "unavailable"

(* The inductive invariant. Types first; then each question asked has its  *)
(* row but the one that is open, whose call is sent as its last step       *)
(* before waiting; and a completed row says what its question's answer     *)
(* gives it, an answer that is there and stays.                            *)
EntryType == [variant: Variant, sent: 0..1, answer: Payloads \cup McpPayload \cup {Pending}]
RowType   == [status: {"COMPLETED", "FAILED", "TIMEOUT", "NOT_CONFIGURED"}, traceId: BOOLEAN,
              usage: Usage, source: TokenSource, counts: [llm: Nat, tool: Nat, mcp: Nat],
              warnings: SUBSET Warning]

Sourced(row) == row.usage.total = Unknown <=> row.source = "unavailable"

LedgerInv ==
  /\ posted \in Seq(EntryType) /\ rows \in Seq(RowType)
  /\ pc \in {"idle", "prepare", "calling"}
  /\ setup \in [targets: SUBSET Variant, client: BOOLEAN]
  /\ Len(posted) = IF pc = "idle" THEN Len(rows) ELSE Len(rows) + 1
  /\ pc = "prepare" => posted[Here].sent = 0
  /\ \A i \in DOMAIN posted :
       posted[i].answer \in (IF posted[i].variant = "supervisor" THEN Payloads ELSE McpPayload)
                            \cup {Pending}

FieldsOf(entry) ==
  IF entry.variant = "supervisor" THEN SupervisorFields(entry.answer) ELSE McpFields(entry.answer)

Says(row, entry) ==
  /\ Sourced(row)
  /\ row.status = "COMPLETED" =>
       /\ entry.answer # Pending
       /\ row.usage = FieldsOf(entry).usage /\ row.source = FieldsOf(entry).source
       /\ FieldsOf(entry).warnings \subseteq row.warnings
       /\ entry.variant = "supervisor" =>
            (~entry.answer.traceId => "trace_id_unavailable" \in row.warnings)

RowInv == \A i \in DOMAIN rows : Says(rows[i], posted[i])

IInv == LedgerInv /\ RowInv

(* Both adapters implement the contract of adapters/base.py: every         *)
(* question gets one row, after at most one call to the agent.             *)
Contract ==
  INSTANCE AgentAdapter WITH
    asked   <- Len(posted),
    posts   <- IF posted = <<>> THEN 0 ELSE posted[Here].sent,
    answers <- [i \in DOMAIN rows |-> rows[i].status]
ContractSpec == Contract!Spec

(* The LLM spans of an answer and what they spent, told by each span's own *)
(* fields: its total, or its input and output.                             *)
Llm(trace)     == {k \in DOMAIN trace.spans : trace.spans[k].type = "LLM"}
Telling(trace) == {k \in Llm(trace) : trace.spans[k].usage # NoUsage}
Spent(trace)   ==
  LET By(u) == IF u.total > 0 THEN u.total ELSE OrZero(u.input) + OrZero(u.output)
  IN SumFunction([k \in Telling(trace) |-> By(trace.spans[k].usage)])

Completed(v) == {i \in DOMAIN rows : rows[i].status = "COMPLETED" /\ posted[i].variant = v}

(* The gaps an adapter has a warning for are warned of on every completed  *)
(* row: no total, on either path; on the supervisor's no trace, no id of   *)
(* it, and a total the LLM spans contradict; over MCP a tool call that the *)
(* server reports as failed (supervisor.py:103-113, 193-194,               *)
(* supervisor_mcp.py:54-62, tracing.py:207-241). They have none for a      *)
(* trace id over MCP, nor for one of two counts, though adapters/base.py:  *)
(* 53-54 asks for warnings "when fields are unavailable".                  *)
NamedGapsAreWarned ==
  LET Warned(i, w) == w \in rows[i].warnings
  IN /\ \A i \in Completed("supervisor") \cup Completed("supervisor_mcp") :
          rows[i].usage.total = Unknown => Warned(i, "token_usage_unavailable")
     /\ \A i \in Completed("supervisor") :
          LET got == posted[i].answer
          IN /\ ~got.traceId => Warned(i, "trace_id_unavailable")
             /\ got.trace = NoTrace => Warned(i, "trace_unavailable")
             /\ rows[i].source = "trace_attribute" =>
                  (Spent(got.trace) \notin {0, rows[i].usage.total} => Warned(i, "token_usage_conflict"))
     /\ \A i \in Completed("supervisor_mcp") :
          posted[i].answer.isError => Warned(i, "mcp_tool_status")

(* A total summed over spans that carries no warning is the whole of what  *)
(* the LLM calls spent: each of them told its usage, and no wrapper or     *)
(* tool span was counted beside them (tracing.py:160-189, 226-238).        *)
UnwarnedTotalIsWhole ==
  \A i \in Completed("supervisor") :
    rows[i].source = "child_span_sum" /\ "token_usage_partial" \notin rows[i].warnings =>
      LET trace == posted[i].answer.trace
      IN Telling(trace) = Llm(trace) /\ rows[i].usage.total = Spent(trace)

(* tracing.py:9-10 "sums child LLM/Chat-model span usage", 168 "to avoid   *)
(* double counting wrapper spans", and 52-56 says of the JSON text real    *)
(* traces carry and of plain objects: "Accept both". So LLM spans that all *)
(* tell their usage give their sum, when there is no value above them.     *)
LlmUsageIsSummed ==
  \A i \in Completed("supervisor") :
    LET got == posted[i].answer
    IN got.usage = NoUsage /\ got.trace.level = NoUsage
         /\ Llm(got.trace) # {} /\ Telling(got.trace) = Llm(got.trace)
       => rows[i].source = "child_span_sum" /\ rows[i].usage.total = Spent(got.trace)
==============================================================================
