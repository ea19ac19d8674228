SPECIFICATION Spec
CONSTANTS
  None = None
  Thread = {1, 2, 3, 4}
  Teams <- Teams4
  Leaves = 3
  MaxCrashes = 1
INVARIANTS
  TypeOK
  AnsweredIsKept
  QuietIsWhole
CHECK_DEADLOCK FALSE
