CONSTANTS
  Payloads <- MCPayloads
  Rooms <- MCRooms
  MaxWritten = 2
SPECIFICATION Spec
INVARIANTS
  
  IgnoredReachesNobody

  
CHECK_DEADLOCK FALSE
