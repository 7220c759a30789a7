\* One request, finished before its first store.
SPECIFICATION Spec
CONSTANTS
  NumRequests = 1
  PromptCap = 2
  MaxUses = 1
  MaxSteps = 4
  RetrySteps = 2
  CaptureServed = FALSE
  Materializes = TRUE
  Registers = TRUE
INVARIANTS
  RegisteredHasRecord
CHECK_DEADLOCK FALSE
