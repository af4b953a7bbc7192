CONSTANTS
  Sids = {s1, s2, s3}
  RoomNames = {r1}
  All = all
SPECIFICATION Spec
INVARIANTS
  
  
  AtMostOnce
PROPERTIES
  NoneMissed
SYMMETRY Symmetry
