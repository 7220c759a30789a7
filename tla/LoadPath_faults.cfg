\* One request, both tiers and every mode, with lost donors and retries.
SPECIFICATION FairSpec
CONSTANTS
  Donors = {d1}
  NoDonor = NoDonor
  Requests = {r1}
  NumLayers = 2
  BlockSize = 2
  PromptTokens = 6
  Aligns <- MCAligns
  Hits = {0, 2, 4}
  SkipAt = 4
  MinBoundary = 0
  MinSpan = 2
  MaxTokens = 4
  Lengths = {3, 5}
  Chunk = 2
  MaxPieces = 3
  MaxPreempts = 1
  MaxGiveUps = 1
  Uses <- MCUses
INVARIANT TypeOK
INVARIANT CreditedIsReal
INVARIANT LoadFillsTheGap
PROPERTY SharedUntouched
PROPERTY PrefillEnds
