\* Two requests, the second maybe a follow-up of the first.
SPECIFICATION Spec
CONSTANTS
  Timeout = 3
  PollInterval = 1
  MaxRetries = 1
  MaxCallTime = 1
  MaxTime = 5
  MaxInvokes = 2
INVARIANTS
  TypeOK
  AnswerIsItsOwn
  RetryBudget
  PollsBounded
PROPERTIES
  InvokeReturns
  ContractSpec
\* Nothing happens after the last question's row and expiry.
CHECK_DEADLOCK FALSE
