\* Kills and Ctrl-C at every step of a run with repetitions, a follow-up, a variant without
\* adapter and a runtime limit, and a second run on the same output directory.
SPECIFICATION FairSpec
CONSTANTS
  Questions <- MCQuestions
  FollowUpTo <- MCFollowUpTo
  NoQuestion = "none"
  Variants <- ThreeVariants
  Adapters = {"direct_genie", "supervisor"}
  Repetitions = 2
  MaxQuestions = 2
  MaxRuntime = 1
  NoLimit = NoLimit
  Outcomes <- EvidenceOutcomes
  SpanFaults = {"span_skipped"}
  MaxTime = 2
  MaxRuns = 2
INVARIANTS
  TypeOK
  WholeDocument
  CallsAccountedFor
  ClosedDocumentComplete
  GuardrailEndsRun
  FollowUpContext
  CompletedMeansWholePlan
  OneCallOverDeadline
PROPERTIES
  JournalSpec
  RunCloses
\* The harness really stops when its last run is over.
CHECK_DEADLOCK FALSE
