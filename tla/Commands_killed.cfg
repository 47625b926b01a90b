\* A command killed while it writes a report, with no other on the file.
SPECIFICATION Spec
CONSTANTS
  Process = {p1, p2}
  Targets = {"prod", "test"}
  Settings = {"short"}
  Interactive = TRUE
  Overlap = FALSE
  KillWriting = TRUE
  MaxRows = 1
  MaxRuns = 1
SYMMETRY Symmetric
INVARIANT ReadableFileLeft
