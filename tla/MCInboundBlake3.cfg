SPECIFICATION Spec
CONSTANTS
  sha = sha
  b3 = b3
  tree = tree
  Ids = {b3, tree}
  Kind <- B3Kind
  TreeOf <- B3Tree
  LeafBlock <- B3LeafSplit
  BlockSize = 2
  MaxBlock = 2
  TrueEof <- B3EofSplit
  Eofs <- B3TreeDisputed
  Faults = {"corrupt", "renameFails", "mmapFails", "crash", "tornWrite"}
CONSTRAINT FewUnderWay
INVARIANTS
  BytesAccounted
  ServedBlocksVerified
  BitsHaveData
  PublishedIsContent
PROPERTIES
  ImplementsContentStore
