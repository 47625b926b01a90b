------------------------------ MODULE TokenUsage ------------------------------
(***************************************************************************)
(* tracing.py: how the tokens of one answer are read out of its trace.     *)
(*                                                                         *)
(* A trace arrives in one of three shapes. "native": types and usage are   *)
(* plain fields (the test fixtures). "attributes": a span's type is among  *)
(* its attributes, its usage is a mapping (OpenInference). "serialized":   *)
(* both are JSON text, and the trace-level usage is trace metadata (what   *)
(* MLflow writes). Type "LLM" stands for the four of _LLM_SPAN_TYPES, "" is *)
(* no type; a name is the markers "tool" and "mcp" that occur in it. The several keys *)
(* a count is looked up under are one. An operator X_Y is X with a         *)
(* plausible mistake, Y, in it; no definition uses one.                    *)
(***************************************************************************)
EXTENDS Integers, Sequences, FiniteSets, Functions

Unknown == -1                     (* None in a token count *)
NoUsage == [input |-> Unknown, output |-> Unknown, total |-> Unknown]
Count   == Nat \cup {Unknown}
Usage   == [input: Count, output: Count, total: Count]

TokenSource == {"provider_reported", "trace_attribute", "child_span_sum", "unavailable"}
SpanKind    == {"LLM", "AGENT", "TOOL", "MCP", ""}
Shape       == {"native", "attributes", "serialized"}
ChildSpan   == [type: SpanKind, usage: Usage, name: SUBSET {"tool", "mcp"}]
Trace       == [shape: Shape, level: Usage, spans: Seq(ChildSpan)]

OrZero(n) == IF n = Unknown THEN 0 ELSE n

(* _usage_from_mapping: a mapping without counts is no usage, and a total  *)
(* that is not given is what the given counts add up to.                   *)
UsageFromMapping_KeepsUnknown(u) == u
UsageFromMapping(u) ==
  IF u # NoUsage /\ u.total = Unknown
  THEN [u EXCEPT !.total = OrZero(u.input) + OrZero(u.output)]
  ELSE u

(* The type as sum_child_span_tokens and count_calls read it, and the      *)
(* usage as _span_usage does: neither decodes what _span_type and          *)
(* _decode_maybe_json, which nothing calls, would.                         *)
SpanType(trace, i)  == IF trace.shape = "native" THEN trace.spans[i].type ELSE ""
SpanUsage(trace, i) ==
  IF trace.shape = "serialized" THEN NoUsage ELSE UsageFromMapping(trace.spans[i].usage)
TraceLevel(trace) ==
  IF trace.shape = "serialized" THEN NoUsage ELSE UsageFromMapping(trace.level)

LlmSpans(trace) == {i \in DOMAIN trace.spans : SpanType(trace, i) = "LLM"}

(* Spans without a type are counted beside the LLM spans. *)
Counted_AllSpans(trace) == {i \in DOMAIN trace.spans : SpanUsage(trace, i) # NoUsage}
Counted(trace) ==
  {i \in DOMAIN trace.spans :
     SpanUsage(trace, i) # NoUsage /\ SpanType(trace, i) \in {"LLM", ""}}

(* A span whose total is 0 is taken for one that gave no total. *)
SpanTotal(u) == IF u.total = 0 THEN OrZero(u.input) + OrZero(u.output) ELSE u.total

(* sum_child_span_tokens *)
ChildSum(trace) ==
  LET Sum(Told(_)) == SumFunction([i \in Counted(trace) |-> Told(SpanUsage(trace, i))])
  IN IF Counted(trace) = {} THEN NoUsage
     ELSE [input  |-> Sum(LAMBDA u : OrZero(u.input)),
           output |-> Sum(LAMBDA u : OrZero(u.output)),
           total  |-> Sum(SpanTotal)]

(* normalize_token_usage: the trace-level value before the sum, and what   *)
(* is doubtful about either.                                               *)
NormalizeTokenUsage(trace) ==
  LET level == TraceLevel(trace)
      sum   == ChildSum(trace)
  IN IF level # NoUsage
     THEN [usage |-> level, source |-> "trace_attribute",
           warnings |-> IF sum # NoUsage /\ sum.total # level.total
                        THEN {"token_usage_conflict"} ELSE {}]
     ELSE IF sum # NoUsage
     THEN [usage |-> sum, source |-> "child_span_sum",
           warnings |-> IF Cardinality(LlmSpans(trace)) > Cardinality(Counted(trace))
                        THEN {"token_usage_partial"} ELSE {}]
     ELSE [usage |-> NoUsage, source |-> "unavailable", warnings |-> {"token_usage_unavailable"}]

(* count_calls *)
CountCalls(trace) ==
  LET Spans(type, marker) ==
        {i \in DOMAIN trace.spans :
           SpanType(trace, i) = type \/ marker \in trace.spans[i].name}
  IN [llm  |-> Cardinality(LlmSpans(trace)),
      tool |-> Cardinality(Spans("TOOL", "tool")),
      mcp  |-> Cardinality(Spans("MCP", "mcp"))]
==============================================================================
