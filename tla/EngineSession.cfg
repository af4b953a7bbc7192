CONSTANTS
  WS = {w1}
  Polling = polling
  MaxSent = 2
  MaxReceived = 2
  MaxClient = 2
  MaxBuffer = 1
  MaxStray = 1
  MaxFast = 1
SPECIFICATION SFairSpec
INVARIANTS
  Fifo
PROPERTIES
  UpgradeProceeds
  Delivered
CHECK_DEADLOCK FALSE
