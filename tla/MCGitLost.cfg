SPECIFICATION Spec
CONSTANTS
  a = a
  b = b
  c = c
  r0 = r0
  r1 = r1
  r2 = r2
  v = v
  None = None
  Proc = {a, b, c}
  Ref = {r0, r1, r2}
  Version = {v}
  Odd = {r0}
  First <- Odd0
  Specs <- OneEach
  Tags = {FALSE}
  MaxFaults = 1
INVARIANTS
  PushesAddWithoutFaults
CHECK_DEADLOCK FALSE
