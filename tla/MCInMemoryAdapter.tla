------------------------- MODULE MCInMemoryAdapter --------------------------
EXTENDS InMemoryAdapter, TLC

\* Socket ids and rooms are interchangeable; no property here is a liveness one.
Symmetry == Permutations(Sids) \union Permutations(RoomNames)
=============================================================================
