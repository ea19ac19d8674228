SPECIFICATION FairSpec
CONSTANTS
  a = a
  b = b
  c = c
  r0 = r0
  r1 = r1
  r2 = r2
  v = v
  None = None
  Proc = {a, b, c}
  Ref = {r0, r1, r2}
  Version = {v}
  Odd = {r0}
  First <- Odd0
  Specs <- OneEach
  Tags <- Both
  MaxFaults = 1
INVARIANTS
  UsesTheAnswer
  PushesAdd
PROPERTIES
  SessionsEnd
CHECK_DEADLOCK FALSE
