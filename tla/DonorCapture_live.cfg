\* Two donors over a memory tier with room for one, and a shutdown at any point
\* of a step, so that a donor is evicted while its own record is queued.
SPECIFICATION FairSpec
CONSTANTS
  NumRequests = 2
  NumLayers = 1
  PromptCap = 1
  MaxUses = 1
  Backend = "memory"
  MaxDonors = 1
  MidStepShutdown = TRUE
PROPERTIES
  HooksReturn
