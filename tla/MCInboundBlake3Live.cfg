SPECIFICATION FairSpec
CONSTANTS
  sha = sha
  b3 = b3
  tree = tree
  Ids = {b3, tree}
  Kind <- B3Kind
  TreeOf <- B3Tree
  LeafBlock <- B3Leaf
  BlockSize = 2
  MaxBlock = 2
  TrueEof <- B3Eof
  Eofs <- B3Agreed
  Faults = {"short"}
PROPERTY
  HonestPeersComplete
