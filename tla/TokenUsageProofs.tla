---------------------------- MODULE TokenUsageProofs ----------------------------
(***************************************************************************)
(* What tracing.py reads out of a trace, for traces of any length. A sum   *)
(* over the spans is a recursion over the set of them: the first lemmas    *)
(* say that it has a value and that the value is a count. There is no      *)
(* induction rule to cite, so they pick a least counterexample.            *)
(***************************************************************************)
EXTENDS TokenUsage, FiniteSetTheorems, WellFoundedInduction, TLAPS

(* Every set of naturals that is not empty has a least member.             *)
LEMMA Least ==
  ASSUME NEW T, T \subseteq Nat, T # {}
  PROVE  \E n \in T : \A m \in T : n <= m
<1>1. PICK n \in T : \A m \in T : ~(<<m, n>> \in OpToRel(<, Nat))
  BY WFMin, NatLessThanWellFounded, Zenon
<1>2. \A m \in T : ~(m < n)
  BY <1>1, Zenon DEF OpToRel
<1>3. QED
  BY <1>2

(* SumFunction as the table of its recursion: the sums over the subsets.   *)
Picked(s)      == CHOOSE x \in s : TRUE
Row(f, s, g)   == IF s = {} THEN 0 ELSE f[Picked(s)] + g[s \ {Picked(s)}]
Table(f, S, g) == [s \in SUBSET S |-> Row(f, s, g)]
Sums(f, S)     == CHOOSE g : g = Table(f, S, g)

LEMMA SumIsTable ==
  ASSUME NEW f
  PROVE  SumFunction(f) = Sums(f, DOMAIN f)[DOMAIN f]
BY DEF SumFunction, SumFunctionOnSet, FoldFunctionOnSet, MapThenFoldSet, Sums, Table, Row, Picked

LEMMA PickedIn ==
  ASSUME NEW s, s # {}
  PROVE  Picked(s) \in s
BY DEF Picked

LEMMA PickedRest ==
  ASSUME NEW s, IsFiniteSet(s), s # {}
  PROVE  /\ IsFiniteSet(s \ {Picked(s)}) /\ Cardinality(s) \in Nat \ {0}
         /\ Cardinality(s \ {Picked(s)}) = Cardinality(s) - 1
<1>1. Cardinality(s) \in Nat /\ Cardinality(s) # 0
  BY FS_CardinalityType, FS_EmptySet
<1>2. QED
  BY <1>1, PickedIn, FS_RemoveElement

(* The table exists, one size of subsets after the other.                  *)
Small(S, n)      == {s \in SUBSET S : Cardinality(s) <= n}
Part(f, S, n, g) == [s \in Small(S, n) |-> Row(f, s, g)]
NoPart(f, S)     == {n \in Nat : ~\E g : g = Part(f, S, n, g)}

LEMMA TableExists ==
  ASSUME NEW f, NEW S, IsFiniteSet(S)
  PROVE  \E g : g = Table(f, S, g)
<1>1. NoPart(f, S) = {}
  <2>1. SUFFICES ASSUME NoPart(f, S) # {} PROVE FALSE
    OBVIOUS
  <2>2. PICK n \in NoPart(f, S) : \A m \in NoPart(f, S) : n <= m
    BY <2>1, Least DEF NoPart
  <2>3. n \in Nat /\ ~\E g : g = Part(f, S, n, g)
    BY DEF NoPart
  <2>4. \A s \in SUBSET S : IsFiniteSet(s) /\ Cardinality(s) \in Nat
    BY FS_Subset, FS_CardinalityType
  <2>5. CASE n = 0
    <3> DEFINE g == [s \in Small(S, n) |-> 0]
    <3>1. \A s \in Small(S, n) : s = {}
      BY <2>4, <2>5, FS_EmptySet DEF Small
    <3>2. g = Part(f, S, n, g)
      BY <3>1 DEF Part, Row
    <3>3. QED
      BY <2>3, <3>2
  <2>6. CASE n # 0
    <3>1. n - 1 \in Nat /\ n - 1 \notin NoPart(f, S)
      BY <2>2, <2>3, <2>6
    <3>2. PICK g : g = Part(f, S, n - 1, g)
      BY <3>1 DEF NoPart
    <3> DEFINE h == Part(f, S, n, g)
    <3>3. \A r \in Small(S, n - 1) : h[r] = g[r]
      <4>1. \A r \in Small(S, n - 1) : r \in Small(S, n)
        BY <2>3, <2>4 DEF Small
      <4>2. \A r \in Small(S, n - 1) : g[r] = Row(f, r, g)
        BY <3>2 DEF Part
      <4>3. QED
        BY <4>1, <4>2 DEF Part
    <3>4. \A s \in Small(S, n) : s # {} => s \ {Picked(s)} \in Small(S, n - 1)
      BY <2>3, <2>4, PickedRest DEF Small
    <3>5. \A s \in Small(S, n) : Row(f, s, g) = Row(f, s, h)
      BY <3>3, <3>4 DEF Row
    <3>6. h = Part(f, S, n, h)
      BY <3>5 DEF Part
    <3>7. QED
      BY <2>3, <3>6
  <2>7. QED
    BY <2>5, <2>6
<1>2. Cardinality(S) \in Nat
  BY FS_CardinalityType
<1>3. PICK g : g = Part(f, S, Cardinality(S), g)
  BY <1>1, <1>2 DEF NoPart
<1>4. Small(S, Cardinality(S)) = SUBSET S
  BY FS_Subset DEF Small
<1>5. QED
  BY <1>3, <1>4 DEF Part, Table

LEMMA TableRow ==
  ASSUME NEW f, NEW S, IsFiniteSet(S), NEW s \in SUBSET S
  PROVE  Sums(f, S)[s] = Row(f, s, Sums(f, S))
<1>1. Sums(f, S) = Table(f, S, Sums(f, S))
  BY TableExists DEF Sums
<1>2. QED
  BY <1>1 DEF Table

(* A finite sum of counts is a count.                                      *)
LEMMA SumIsCount ==
  ASSUME NEW S, IsFiniteSet(S), NEW f \in [S -> Nat]
  PROVE  SumFunction(f) \in Nat
<1> DEFINE g   == Sums(f, S)
           Bad == {n \in Nat : \E s \in SUBSET S : Cardinality(s) = n /\ g[s] \notin Nat}
<1>1. \A s \in SUBSET S : /\ IsFiniteSet(s) /\ Cardinality(s) \in Nat
                          /\ g[s] = Row(f, s, g)
  BY FS_Subset, FS_CardinalityType, TableRow
<1> HIDE DEF g
<1>2. Bad = {}
  <2>1. SUFFICES ASSUME Bad # {} PROVE FALSE
    OBVIOUS
  <2>2. PICK n \in Bad : \A m \in Bad : n <= m
    BY <2>1, Least
  <2>3. PICK s \in SUBSET S : Cardinality(s) = n /\ g[s] \notin Nat
    OBVIOUS
  <2>4. s # {}
    BY <1>1, <2>3 DEF Row
  <2> DEFINE r == s \ {Picked(s)}
  <2>5. r \in SUBSET S /\ Cardinality(r) = n - 1 /\ n \in Nat \ {0}
    BY <1>1, <2>3, <2>4, PickedRest
  <2>6. g[r] \in Nat
    BY <2>2, <2>5
  <2>7. f[Picked(s)] \in Nat
    BY <2>3, <2>4, PickedIn
  <2>8. g[s] = f[Picked(s)] + g[r]
    BY <1>1, <2>4 DEF Row
  <2>9. QED
    BY <2>3, <2>6, <2>7, <2>8
<1>3. g[S] \in Nat
  BY <1>1, <1>2
<1>4. QED
  BY <1>3, SumIsTable DEF g

(* Nothing to add up is zero.                                              *)
LEMMA SumOfNothing ==
  ASSUME NEW f, DOMAIN f = {}
  PROVE  SumFunction(f) = 0
<1>1. Sums(f, {})[{}] = Row(f, {}, Sums(f, {}))
  BY TableRow, FS_EmptySet
<1>2. QED
  BY <1>1, SumIsTable DEF Row

-----------------------------------------------------------------------------
(* Reading a mapping: a usage is known, total included, or it is none.     *)
LEMMA UsageIsRead ==
  ASSUME NEW u \in Usage
  PROVE  LET r == UsageFromMapping(u)
         IN /\ r \in Usage
            /\ u = NoUsage => r = NoUsage
            /\ u # NoUsage => r # NoUsage /\ r.total \in Nat
<1>1. /\ u.input \in Count /\ u.output \in Count /\ u.total \in Count
      /\ OrZero(u.input) \in Nat /\ OrZero(u.output) \in Nat
  BY DEF Usage, Count, OrZero, Unknown
<1>2. CASE u # NoUsage /\ u.total = Unknown
  <2>1. UsageFromMapping(u) = [u EXCEPT !.total = OrZero(u.input) + OrZero(u.output)]
    BY <1>2 DEF UsageFromMapping
  <2>2. OrZero(u.input) + OrZero(u.output) \in Nat
    BY <1>1
  <2>3. UsageFromMapping(u) \in Usage /\ UsageFromMapping(u).total \in Nat
    BY <2>1, <2>2 DEF Usage, Count
  <2>4. QED
    BY <1>2, <2>3 DEF NoUsage, Unknown
<1>3. CASE u = NoUsage \/ u.total # Unknown
  <2>1. UsageFromMapping(u) = u
    BY <1>3 DEF UsageFromMapping
  <2>2. QED
    BY <1>1, <1>3, <2>1 DEF NoUsage, Unknown, Count
<1>4. QED
  BY <1>2, <1>3

LEMMA SpanIsRead ==
  ASSUME NEW trace \in Trace, NEW i \in DOMAIN trace.spans
  PROVE  /\ trace.spans[i] \in ChildSpan
         /\ SpanUsage(trace, i) \in Usage
         /\ OrZero(SpanUsage(trace, i).input) \in Nat
         /\ OrZero(SpanUsage(trace, i).output) \in Nat
         /\ SpanTotal(SpanUsage(trace, i)) \in Nat \cup {Unknown}
         /\ SpanUsage(trace, i) # NoUsage => SpanTotal(SpanUsage(trace, i)) \in Nat
<1>1. trace.spans[i] \in ChildSpan
  BY DEF Trace
<1>2. trace.spans[i].usage \in Usage
  BY <1>1 DEF ChildSpan
<1>3. NoUsage \in Usage
  BY DEF NoUsage, Usage, Count
<1> DEFINE u == SpanUsage(trace, i)
<1>4. u \in Usage /\ (u # NoUsage => u.total \in Nat)
  BY <1>2, <1>3, UsageIsRead DEF SpanUsage
<1> HIDE DEF u
<1>5. OrZero(u.input) \in Nat /\ OrZero(u.output) \in Nat /\ u.total \in Count
  BY <1>4 DEF Usage, Count, OrZero, Unknown
<1>6. SpanTotal(u) \in Nat \cup {Unknown} /\ (u # NoUsage => SpanTotal(u) \in Nat)
  BY <1>4, <1>5 DEF SpanTotal, Count
<1>7. QED
  BY <1>1, <1>4, <1>5, <1>6 DEF u

LEMMA SpansAreFinite ==
  ASSUME NEW trace \in Trace, NEW S \in SUBSET DOMAIN trace.spans
  PROVE  IsFiniteSet(S) /\ Cardinality(S) \in Nat
<1>1. trace.spans \in Seq(ChildSpan)
  BY DEF Trace
<1>2. DOMAIN trace.spans = 1..Len(trace.spans) /\ Len(trace.spans) \in Int /\ 1 \in Int
  BY <1>1
<1>3. IsFiniteSet(DOMAIN trace.spans)
  BY <1>2, FS_Interval, Zenon
<1>4. QED
  BY <1>3, FS_Subset, FS_CardinalityType

(* sum_child_span_tokens gives nothing, or three counts.                   *)
TotalOf(trace) == SumFunction([i \in Counted(trace) |-> SpanTotal(SpanUsage(trace, i))])

LEMMA ChildSumIsUsage ==
  ASSUME NEW trace \in Trace
  PROVE  /\ Counted(trace) = {} => ChildSum(trace) = NoUsage
         /\ Counted(trace) # {} => /\ ChildSum(trace) \in [input: Nat, output: Nat, total: Nat]
                                   /\ ChildSum(trace).total = TotalOf(trace)
<1> DEFINE In  == [i \in Counted(trace) |-> OrZero(SpanUsage(trace, i).input)]
           Out == [i \in Counted(trace) |-> OrZero(SpanUsage(trace, i).output)]
           All == [i \in Counted(trace) |-> SpanTotal(SpanUsage(trace, i))]
<1>1. /\ Counted(trace) \subseteq DOMAIN trace.spans /\ IsFiniteSet(Counted(trace))
      /\ \A i \in Counted(trace) : SpanUsage(trace, i) # NoUsage
  BY SpansAreFinite DEF Counted
<1>2. /\ In \in [Counted(trace) -> Nat] /\ Out \in [Counted(trace) -> Nat]
      /\ All \in [Counted(trace) -> Nat]
  BY <1>1, SpanIsRead
<1>3. SumFunction(In) \in Nat /\ SumFunction(Out) \in Nat /\ SumFunction(All) \in Nat
  BY <1>1, <1>2, SumIsCount
<1>4. ChildSum(trace) = IF Counted(trace) = {} THEN NoUsage
                        ELSE [input |-> SumFunction(In), output |-> SumFunction(Out),
                              total |-> SumFunction(All)]
  BY DEF ChildSum
<1>5. QED
  BY <1>3, <1>4 DEF TotalOf

(* normalize_token_usage: a source, and the total it gives. Where it comes *)
(* from the trace itself a sum that says otherwise is warned of; where it  *)
(* is the sum, LLM spans that outnumber those counted are.                 *)
TokenWarning == {"token_usage_conflict", "token_usage_partial", "token_usage_unavailable"}

LEMMA TokensNormalized ==
  ASSUME NEW trace \in Trace
  PROVE  LET r == NormalizeTokenUsage(trace)
         IN /\ r.usage \in Usage /\ r.source \in TokenSource /\ r.warnings \subseteq TokenWarning
            /\ r.usage.total = Unknown <=> r.source = "unavailable"
            /\ r.source = "unavailable" => "token_usage_unavailable" \in r.warnings
            /\ r.source # "provider_reported"
            /\ r.source = "trace_attribute" =>
                 /\ TraceLevel(trace) # NoUsage
                 /\ Counted(trace) # {} /\ TotalOf(trace) # r.usage.total =>
                      "token_usage_conflict" \in r.warnings
            /\ r.source = "child_span_sum" =>
                 /\ Counted(trace) # {} /\ r.usage.total = TotalOf(trace)
                 /\ "token_usage_partial" \notin r.warnings =>
                      ~(Cardinality(LlmSpans(trace)) > Cardinality(Counted(trace)))
<1> DEFINE level == TraceLevel(trace)
           sum   == ChildSum(trace)
<1>1. level \in Usage /\ (level # NoUsage => level.total \in Nat)
  <2>1. NoUsage \in Usage
    BY DEF NoUsage, Usage, Count
  <2>2. trace.level \in Usage
    BY DEF Trace
  <2>3. QED
    BY <2>1, <2>2, UsageIsRead DEF TraceLevel
<1>2. /\ NoUsage \in Usage /\ NoUsage.total = Unknown
      /\ \A u \in [input: Nat, output: Nat, total: Nat] :
           u \in Usage /\ u # NoUsage /\ u.total \in Nat
  BY DEF NoUsage, Usage, Count, Unknown
<1>3. /\ Counted(trace) = {} => sum = NoUsage
      /\ Counted(trace) # {} => /\ sum \in Usage /\ sum # NoUsage /\ sum.total \in Nat
                                /\ sum.total = TotalOf(trace)
  BY <1>2, ChildSumIsUsage
<1>4. NormalizeTokenUsage(trace) =
        IF level # NoUsage
        THEN [usage |-> level, source |-> "trace_attribute",
              warnings |-> IF sum # NoUsage /\ sum.total # level.total
                           THEN {"token_usage_conflict"} ELSE {}]
        ELSE IF sum # NoUsage
        THEN [usage |-> sum, source |-> "child_span_sum",
              warnings |-> IF Cardinality(LlmSpans(trace)) > Cardinality(Counted(trace))
                           THEN {"token_usage_partial"} ELSE {}]
        ELSE [usage |-> NoUsage, source |-> "unavailable",
              warnings |-> {"token_usage_unavailable"}]
  BY DEF NormalizeTokenUsage
<1>5. \A n \in Nat : n # Unknown
  BY DEF Unknown
<1> HIDE DEF level, sum
<1>6. CASE level # NoUsage
  BY <1>1, <1>3, <1>4, <1>5, <1>6 DEF TokenSource, TokenWarning, level
<1>7. CASE level = NoUsage /\ sum # NoUsage
  BY <1>2, <1>3, <1>4, <1>5, <1>7 DEF TokenSource, TokenWarning
<1>8. CASE level = NoUsage /\ sum = NoUsage
  BY <1>2, <1>4, <1>8 DEF TokenSource, TokenWarning
<1>9. QED
  BY <1>6, <1>7, <1>8
==============================================================================
