\* Two donors of two layers and two chunks over a memory tier with room for
\* one (a configured 0 is raised to 1): every donor evicts the other, between
\* the layers of a capture and between its chunks.
SPECIFICATION Spec
CONSTANTS
  NumRequests = 2
  NumLayers = 2
  PromptCap = 2
  MaxUses = 1
  Backend = "memory"
  MaxDonors = 0
  MidStepShutdown = FALSE
INVARIANTS
  RecordBacked
