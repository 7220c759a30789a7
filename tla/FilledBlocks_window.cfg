\* Three requests on a prompt of three blocks: one fills, one computes, one hits.
SPECIFICATION Spec
CONSTANTS
  Requests = {r1, r2, r3}
  Blocks = {b1, b2, b3, b4}
  PromptBlocks = 3
  StepBlocks = 1
  MaxPreempts = 0
  MaxUses = 1
  Segmented = FALSE
  EvictFilled = TRUE
  StageRequests = {}
  EvictRaises = FALSE
SYMMETRY FullSymmetry
PROPERTY NoApproxHit
