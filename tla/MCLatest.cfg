SPECIFICATION FairSpec
CONSTANTS
  owner = owner
  reader = reader
  Nodes = {owner, reader}
  Owner = owner
  MaxVersion = 2
  MaxTime = 2
  Faults = {"saveRace", "publishFails", "crash", "tornWrite"}
INVARIANTS
  NoEditMissed
  NotBeforeCached
PROPERTY
  BrowsersServed
