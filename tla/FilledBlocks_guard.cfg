\* Two requests, one of them staged, in a pool short of both prompts.
SPECIFICATION Spec
CONSTANTS
  Requests = {r1, r2}
  Blocks = {b1, b2, b3}
  PromptBlocks = 3
  StepBlocks = 1
  MaxPreempts = 2
  MaxUses = 1
  Segmented = TRUE
  EvictFilled = TRUE
  StageRequests = {r2}
  EvictRaises = TRUE
SYMMETRY BlockSymmetry
INVARIANT TypeOK
INVARIANT CleanAfterStep
INVARIANT NothingSkipped
PROPERTY OnlyFillsEvicted
PROPERTY LedgerKept
