\* Every hook over overlapping runs of two donors and over position maps.
SPECIFICATION Spec
CONSTANTS
  d1 = d1
  d2 = d2
  Donors = {d1, d2}
  BlockSize = 2
  PromptTokens = 10
  Lookups <- MCLookups
  Given <- MCGiven
  Configs <- MCConfigs
  StoredCounts <- MCStoredCounts
  Boundaries = {0, 2, 3, 4}
INVARIANT TypeOK
INVARIANT SegmentsExact
INVARIANT SpanServable
INVARIANT CountExact
INVARIANT LimitPaysOff
