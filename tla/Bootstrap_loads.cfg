\* A bootstrap that dies while its INSERT runs, and one after it.
SPECIFICATION Spec
CONSTANTS
  Inputs <- SmallInputs
  Profiles = {7}
  Envs <- NoEnv
  UserKeys <- MCKeys
  Workspaces <- OwnOnly
  Adopts = FALSE
  Tables <- OneTable
  MaxRuns = 2
  MaxFaults = 1
  MaxPolls = 1
INVARIANT TablesLoadOnce
\* Nothing happens after the last command.
CHECK_DEADLOCK FALSE
