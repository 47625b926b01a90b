------------------------- MODULE MCSupervisorAdapters -------------------------
(* Small sets of traces and answers for SupervisorAdapters. *)
EXTENDS SupervisorAdapters

Tokens(i, o, t) == [input |-> i, output |-> o, total |-> t]
Span(type, usage, name) == [type |-> type, usage |-> usage, name |-> name]

(* One LLM call without a total, one without its usage, one with all three, *)
(* the agent span around them, and tools reached directly and over MCP.     *)
Llms   == {Span("LLM", Tokens(2, 1, Unknown), {}), Span("LLM", NoUsage, {}),
           Span("LLM", Tokens(1, 1, 2), {})}
Agent  == Span("AGENT", Tokens(4, 2, 6), {})
Tools  == {Span("TOOL", NoUsage, {"tool"}), Span("MCP", Tokens(1, 0, Unknown), {"tool", "mcp"})}

SpanLists == {<<>>, <<Agent>>} \cup {<<l>> : l \in Llms} \cup {<<Agent, l>> : l \in Llms}
             \cup {<<l, m>> : l \in Llms, m \in Llms}
             \cup {<<Agent, l, t>> : l \in Llms, t \in Tools}

Traces(shape, level, lists) == [shape: {shape}, level: {level}, spans: lists]
Some == {<<>>} \cup {<<Agent, l>> : l \in Llms}

(* Typed native traces, some with a trace-level or provider usage beside,   *)
(* or serialized; and no trace at all.                                      *)
MCPayloads ==
  [usage: {NoUsage}, traceId: {TRUE},
   trace: Traces("native", NoUsage, SpanLists)
          \cup Traces("native", Tokens(3, Unknown, Unknown), Some)
          \cup Traces("serialized", Tokens(3, 1, 4), Some)]
  \cup [usage: {NoUsage, Tokens(5, Unknown, Unknown)}, traceId: BOOLEAN, trace: {NoTrace}]
  \cup [usage: {Tokens(3, 2, 5)}, traceId: {FALSE}, trace: Traces("native", NoUsage, Some)]

(* The shapes of tracing.py:35-57, and plain ones whose wrapper has no type. *)
RealPayloads ==
  [usage: {NoUsage}, traceId: {TRUE},
   trace: Traces("attributes", NoUsage, SpanLists) \cup Traces("serialized", NoUsage, SpanLists)
          \cup Traces("native", NoUsage, {<<Span("", Agent.usage, {}), l>> : l \in Llms})]
==============================================================================
