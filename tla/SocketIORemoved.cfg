CONSTANTS
  Nsps = {main, dynamic}
  Static = {main}
  MaxSockets = 2
  MaxEmits = 0
SPECIFICATION Spec
INVARIANTS
  RemovedFromClient
CHECK_DEADLOCK FALSE
