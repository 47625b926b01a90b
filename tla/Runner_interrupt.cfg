\* Ctrl-C between the answer and store.add.
SPECIFICATION Spec
CONSTANTS
  Questions <- MCQuestions
  FollowUpTo <- MCFollowUpTo
  NoQuestion = "none"
  Variants <- OneVariant
  Adapters = {"direct_genie"}
  Repetitions = 1
  MaxQuestions = 2
  MaxRuntime = NoLimit
  NoLimit = NoLimit
  Outcomes <- ShortOutcomes
  SpanFaults = {"span_skipped"}
  MaxTime = 0
  MaxRuns = 1
INVARIANT InterruptPreservesAnswers
CHECK_DEADLOCK FALSE
