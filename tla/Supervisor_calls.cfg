\* Two questions of either variant, with and without targets and the MCP client.
SPECIFICATION Spec
CONSTANTS
  Payloads <- MCPayloads
  MaxInvokes = 2
INVARIANTS
  TypeOK
  NamedGapsAreWarned
  UnwarnedTotalIsWhole
PROPERTY ContractSpec
\* Nothing happens after the last row and the agents' last answers.
CHECK_DEADLOCK FALSE
