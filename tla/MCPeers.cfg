SPECIFICATION FairSpec
CONSTANTS
  boot = boot
  mover = mover
  None = None
  Node = {boot, mover}
  Addr = {1, 2, 3}
  Home <- HomeOf
  Start <- StartOf
  Wants <- WantsOf
  Unstable = {mover}
  SuggestMax = 1
  Take = 2
  Keep = 1
  Ask = 3
  AskSpoof = 1
  MaxNet = 1
  MaxFaults = 1
INVARIANTS
  PubsHaveEntry
  BoundWhereItWas
  CookiesFit
  SignedIsVerified
PROPERTIES
  Rebound
