\* One id, two chunks, one layer, used twice.
CONSTANTS
  NumRequests = 1
  NumLayers = 1
  PromptCap = 2
  MaxUses = 2
  Backend = "disk"
  MaxDonors = 1
  MidStepShutdown = FALSE
SPECIFICATION Spec
INVARIANTS
  OneUse
