--------------------------- MODULE MCEngineSocket ---------------------------
(* A session and two WebSockets: enough for a second upgrade request to race *)
(* the first, and for a handshake over either transport.                     *)
EXTENDS EngineConnection, TLC

\* WebSockets are interchangeable, and no property here, the steps of
\* KeepsPromise included, tells them apart.
Symmetry == Permutations(WS)
=============================================================================
