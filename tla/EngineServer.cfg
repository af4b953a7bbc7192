CONSTANTS
  Sids = {s1, s2}
  Requests = {r1, r2, r3}
  NoSid = noSid
  NoRequest = noRequest
SPECIFICATION FairSpec
INVARIANTS
  Registered
  
  ConnectionFirst
PROPERTIES
  RequestsEnd
CHECK_DEADLOCK FALSE
