\* One chunk, two layers, and a shutdown between the hooks of a step.
CONSTANTS
  NumRequests = 1
  NumLayers = 2
  PromptCap = 1
  MaxUses = 1
  Backend = "disk"
  MaxDonors = 1
  MidStepShutdown = TRUE
SPECIFICATION Spec
PROPERTIES
  PublishedComplete
