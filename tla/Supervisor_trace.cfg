\* Traces as OpenInference and MLflow write them.
SPECIFICATION Spec
CONSTANTS
  Payloads <- RealPayloads
  MaxInvokes = 1
INVARIANT LlmUsageIsSummed
CHECK_DEADLOCK FALSE
