\* A catalog that was there before the first bootstrap.
SPECIFICATION Spec
CONSTANTS
  Inputs <- SmallInputs
  Profiles = {7}
  Envs <- NoEnv
  UserKeys <- MCKeys
  Workspaces <- OwnOnly
  Adopts = TRUE
  Tables <- OneTable
  MaxRuns = 2
  MaxFaults = 0
  MaxPolls = 1
INVARIANT SharedUntouched
\* Nothing happens after the last command.
CHECK_DEADLOCK FALSE
