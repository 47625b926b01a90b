\* A report while a run goes on.
SPECIFICATION Spec
CONSTANTS
  Process = {p1, p2}
  Targets = {"prod", "test"}
  Settings = {"short"}
  Interactive = TRUE
  Overlap = TRUE
  KillWriting = FALSE
  MaxRows = 1
  MaxRuns = 1
SYMMETRY Symmetric
INVARIANT FileKeepsRows
