CONSTANTS
  WS = {w1, w2}
  Polling = polling
  MaxSent = 2
  MaxReceived = 0
  MaxBuffer = 2
  MaxStray = 1
  MaxFast = 1
SPECIFICATION Spec
INVARIANTS
  
  OneDriver
  OneCandidate
  PollHeld
  Heartbeat
PROPERTIES
  KeepsPromise
SYMMETRY Symmetry
CHECK_DEADLOCK FALSE
