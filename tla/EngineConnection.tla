-------------------------- MODULE EngineConnection --------------------------
(***************************************************************************)
(* EngineSocket implements Connection: the refinement mapping.             *)
(***************************************************************************)
EXTENDS EngineSocket

\* The message that a packet carries, by its place in the order of acceptance.
MessageIn(packet) == IF IsMessage(packet) THEN <<packet.id>> ELSE <<>>

\* The messages among packets.
MessagesOf(packets) ==
  LET upTo[i \in 0..Len(packets)] ==
        IF i = 0 THEN <<>> ELSE upTo[i - 1] \o MessageIn(packets[i])
  IN  upTo[Len(packets)]

\* The messages in the payloads of the wire.
MessagesLeft(payloads) ==
  LET upTo[i \in 0..Len(payloads)] ==
        IF i = 0 THEN <<>> ELSE upTo[i - 1] \o MessagesOf(payloads[i].packets)
  IN  upTo[Len(payloads)]

\* writeBuffer is the queue, the payload that encodePayload works on is in the
\* transport's hand, and the payloads on the wire have left.
Promise == INSTANCE Connection WITH
  state <- readyState, reason <- closeReason, accepted <- sent,
  queue <- MessagesOf(writeBuffer), inHand <- MessagesOf(polling.encoding),
  left <- MessagesLeft(wire)

\* Over any upgrade, error, overlap of requests and close, a session behaves as
\* a Connection: send() is accepted while it is open only, a message is handed
\* to a transport once, together with all that was accepted before it, close()
\* ends in the step that hands over the last, and nothing moves after the end
\* but a payload whose encoding had begun.
KeepsPromise == Promise!Spec
=============================================================================
