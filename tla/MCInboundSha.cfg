SPECIFICATION FairSpec
CONSTANTS
  sha = sha
  b3 = b3
  tree = tree
  Ids = {sha}
  Kind <- ShaKind
  TreeOf <- NoTrees
  LeafBlock <- NoTrees
  BlockSize = 2
  MaxBlock = 2
  TrueEof <- ShaEof
  Eofs <- ShaAgreed
  Faults = {"corrupt", "unasked", "crash", "tornWrite", "tornRename", "mmapFails", "hashDies"}
INVARIANTS
  VerdictNotStale
  PublishedWasHashed
PROPERTIES
  
  ImplementsContentStore
