SPECIFICATION FairSpec
CONSTANTS
  origin = origin
  viewer = viewer
  Origin = origin
  Viewers = {viewer}
  BlockSize = 2
  MaxBlock = 1
  Window = 4
  PieceLens = {1, 2}
  Rewinds = {1}
  MaxNet = 3
INVARIANTS
  SignedPrefixHeld
  GapsOnlyInsideBlocks
PROPERTIES
  WholeStaysServable
  BrowserCatchesUp
