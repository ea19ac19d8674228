SPECIFICATION Spec
CONSTANTS
  Leaves = {2, 3, 5}
  DamagedLeaves = {2, 3, 5}
  SlotsPerBlock = 4
  MaxDamage = 3
  Ways <- MCWays
  Garble <- MCGarble
INVARIANT
  EmptyIsAllGood
