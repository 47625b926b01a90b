\* Provisions and teardowns, dying and failing at every step, with users in between.
SPECIFICATION Spec
CONSTANTS
  Inputs <- MCInputs
  Profiles = {7}
  Envs <- MCEnvs
  UserKeys <- MCKeys
  Workspaces <- MCWorkspaces
  Adopts = FALSE
  Tables <- TwoTables
  MaxRuns = 3
  MaxFaults = 1
  MaxPolls = 1
INVARIANTS
  TypeOK
  SharedUntouched
  TeardownRemovesEverything
  ConfigIsThisRuns
  EmittedConfigLoads
  LoadsAreAccounted
PROPERTY BootstrapEnds
\* Nothing happens after the last command.
CHECK_DEADLOCK FALSE
