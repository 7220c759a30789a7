\* One request id used twice, over two layers and three chunks.
CONSTANTS
  NumRequests = 1
  NumLayers = 2
  PromptCap = 3
  MaxUses = 2
  Backend = "disk"
  MaxDonors = 1
  MidStepShutdown = FALSE
SPECIFICATION FairSpec
INVARIANTS
  TypeOK
  ChunksContiguous
  NoOrphans
  RecordBacked
PROPERTIES
  PublishedComplete
  MarkedIsSettled
