\* Two requests, so that one can serve the other, and steps enough for two
\* budgets.
SPECIFICATION Spec
CONSTANTS
  NumRequests = 2
  PromptCap = 2
  MaxUses = 1
  MaxSteps = 5
  RetrySteps = 2
  CaptureServed = FALSE
  Materializes = TRUE
  Registers = TRUE
INVARIANTS
  TypeOK
  RegisteredAfterRecord
  FinishAnswered
  HeldWithinBudget
PROPERTIES
  StoredIsOwn
  DeclinedAfterBudget
CHECK_DEADLOCK FALSE
