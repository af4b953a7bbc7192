CONSTANTS
  Nsps = {main, dynamic}
  Static = {main}
  MaxSockets = 3
  MaxEmits = 1
SPECIFICATION FairSpec
INVARIANTS
  
  
  
  NamespaceOnce
PROPERTIES
  ConnectTimeoutCloses
CHECK_DEADLOCK FALSE
