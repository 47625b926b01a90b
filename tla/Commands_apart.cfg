\* Reports, preflights, edits and kills around two runs, one command on the results file at a time.
SPECIFICATION Spec
CONSTANTS
  Process = {p1, p2}
  Targets = {"prod", "test"}
  Settings = {"short"}
  Interactive = TRUE
  Overlap = FALSE
  KillWriting = TRUE
  MaxRows = 2
  MaxRuns = 2
SYMMETRY Symmetric
INVARIANTS
  TypeOK
  UnforcedRunWasPreflighted
  ReadersFindLatest
PROPERTY JournalSpec
