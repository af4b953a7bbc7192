CONSTANTS
  Servers = {s1, s2, s3}
  Clients = {c1, c2}
  Rooms = {r1}
  All = all
  Scenarios <- MCScenarios
SPECIFICATION Spec
INVARIANTS
  InOrderOnce
  ResponsesExact
  AckedMeansAnswered
  ClusterCompletes
  EndsOnce
CHECK_DEADLOCK FALSE
SYMMETRY Symmetry
