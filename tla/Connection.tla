----------------------------- MODULE Connection -----------------------------
(***************************************************************************)
(* What an Engine.IO session promises the layer above, whatever transport  *)
(* carries it: the events and calls of Socket (engine.io/lib/socket.ts)    *)
(* without transports, requests, timers and the upgrade.  EngineSocket     *)
(* implements it (EngineConnection).                                       *)
(*                                                                         *)
(* A message that send() accepts goes from the queue to the transport, in  *)
(* one batch with all that waits, and from there to the client, once; or   *)
(* the transport loses the batch.  It never returns to the queue.          *)
(***************************************************************************)
EXTENDS Naturals, Sequences

VARIABLES
  state,     \* "open", "closing" (close() waits for the queue) or "closed"
  reason,    \* why it closed
  accepted,  \* messages that send() accepted: 1..accepted, in this order
  queue,     \* those that wait for the transport
  inHand,    \* a batch that the transport has and has not written yet
  left       \* those that left, in this order

vars == <<state, reason, accepted, queue, inHand, left>>

Failures == {"transport error", "transport close", "ping timeout", "parse error"}

\* The transport takes the whole batch: it writes, keeps or loses it.
Takes(batch) ==
  /\ queue' = <<>>
  /\ \/ left' = left \o batch /\ UNCHANGED inHand
     \/ inHand = <<>> /\ inHand' = batch /\ UNCHANGED left
     \/ UNCHANGED <<inHand, left>>

\* send(): only while open.  What waited goes first.
Send ==
  LET batch == Append(queue, accepted + 1)
  IN  /\ state = "open" /\ accepted' = accepted + 1
      /\ Takes(batch) \/ (queue' = batch /\ UNCHANGED <<inHand, left>>)
      /\ UNCHANGED <<state, reason>>

\* The transport becomes able to take what waits.
Drain ==
  /\ state = "open" /\ UNCHANGED <<state, reason, accepted>>
  /\ queue # <<>> /\ Takes(queue)

\* The transport writes the batch it kept, or drops it.
Written ==
  /\ inHand # <<>> /\ inHand' = <<>> /\ left' \in {left, left \o inHand}
  /\ UNCHANGED <<state, reason, accepted, queue>>

\* close() with something to write first: no message is accepted from here on.
CloseWaits == state = "open" /\ state' = "closing" /\ UNCHANGED <<reason, accepted, queue, inHand, left>>

\* close() comes to its end: everything accepted was given to the transport.
CloseEnds ==
  /\ \/ state = "open" /\ queue = <<>> /\ UNCHANGED <<queue, inHand, left>>
     \/ state = "closing" /\ Takes(queue)
  /\ state' = "closed" /\ reason' = "forced close" /\ UNCHANGED accepted

\* The session fails: what still waits is never written.
Fails ==
  /\ state # "closed" /\ state' = "closed" /\ reason' \in Failures
  /\ UNCHANGED <<accepted, queue, inHand, left>>

Init ==
  /\ state = "open" /\ reason = "none" /\ accepted = 0
  /\ queue = <<>> /\ inHand = <<>> /\ left = <<>>

Next == Send \/ Drain \/ Written \/ CloseWaits \/ CloseEnds \/ Fails

Spec == Init /\ [][Next]_vars
=============================================================================
