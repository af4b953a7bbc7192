-------------------------- MODULE MCClusterAdapter --------------------------
EXTENDS ClusterAdapter, TLC

Scenario(kinds, events, members) == [calls |-> kinds, changes |-> events, size |-> members]

Plain == {"broadcast", "join", "leave", "tell"}
Asking == {"fetch", "emit"}

MCScenarios == {
  Scenario(<<Plain, Plain>>, 0, 2),
  Scenario(<<{"broadcast"}>>, 2, 2),
  Scenario(<<Asking, Asking \union {"tell"}>>, 0, 2),
  Scenario(<<Asking>>, 2, 3),
  Scenario(<<{"ack"}>>, 2, 2),
  Scenario(<<{"ack"}>>, 0, 3),
  Scenario(<<{"broadcast", "disconnect"}, {"ack"}>>, 0, 2),
  Scenario(<<{"ack"}, {"disconnect"}>>, 0, 2)}

\* Servers and clients are interchangeable; no property here is a liveness one.
Symmetry == Permutations(Servers) \union Permutations(Clients)
=============================================================================
