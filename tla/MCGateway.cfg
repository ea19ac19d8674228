SPECIFICATION Spec
CONSTANTS
  a = a
  b = b
  x = x
  Conns = {a, b}
  Remote = {b}
  Contents = {x}
  Size <- SizeOf
  BlockSize = 2
  Ranges <- SomeRanges
  RangeMax = 2
  Room = 3
  MaxRequests = 3
INVARIANTS
  TypeOK
  AnnouncedIsSent
PROPERTIES
  ConnectionsKept
  FirstBrowserServed
