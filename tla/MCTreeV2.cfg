SPECIFICATION Spec
CONSTANTS
  Leaves = {1, 2, 3, 4, 5, 6, 7, 8, 9, 10, 11, 12, 13, 14, 15, 16, 17, 18, 19, 20, 21, 22, 23, 24, 25, 26, 27, 28, 29, 30, 31, 32, 33, 34, 35, 40, 41, 43, 63, 64, 65, 127, 128}
  DamagedLeaves = {2, 3, 5, 6, 7}
  SlotsPerBlock = 4
  MaxDamage = 3
  Ways <- MCWays
  Garble <- MCGarble
INVARIANTS
  TypeOK
  LeavesFound
  RootIsBlake3
  IntactAccepted
  RetriesFetchDamage
  RightParentsVouch
  DamageRepaired
