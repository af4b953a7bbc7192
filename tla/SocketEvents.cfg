CONSTANTS
  Fns = {f, g}
  MaxEntries = 2
  MaxArrays = 2
  MaxPackets = 2
  MaxDepth = 3
  MaxAcks = 1
SPECIFICATION FairSpec
INVARIANTS
  EmitReaches
  CatchAllReaches
  OnceRunsOnce
PROPERTIES
  DisconnectIsLast
  AckEnds
CHECK_DEADLOCK FALSE
