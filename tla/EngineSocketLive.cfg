CONSTANTS
  WS = {w1}
  Polling = polling
  MaxSent = 1
  MaxReceived = 1
  MaxBuffer = 2
  MaxStray = 1
  MaxFast = 2
SPECIFICATION FairSpec
PROPERTIES
  PollAnswered
  ClosingEnds
  CandidateResolved
CHECK_DEADLOCK FALSE
