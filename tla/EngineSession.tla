---------------------------- MODULE EngineSession ---------------------------
(***************************************************************************)
(* An Engine.IO session with the client it is made for.  EngineSocket lets *)
(* the client do anything; here the client follows the protocol: one GET   *)
(* and one POST at a time, and an upgrade that first probes the WebSocket, *)
(* then pauses polling until no request is outstanding, then sends the     *)
(* "upgrade" packet.  The network delays requests, responses and frames,   *)
(* and orders frames of one WebSocket only.                                *)
(*                                                                         *)
(* The question is the comment at socket.ts:213-214: no packet gets lost   *)
(* during the upgrade, in either direction, nor overtakes another.         *)
(***************************************************************************)
EXTENDS EngineConnection

CONSTANT MaxClient   \* bound: messages the client sends

ASSUME MaxClientAssumption == MaxClient \in Nat

VARIABLES
  phase,     \* the client: polling, probing, pausing, upgraded, or gone
  candidate, \* the WebSocket the client opened, or Polling
  get,       \* the client's GET: none, sent, or answered
  body,      \* the messages of the answer on its way to the client
  post,      \* the message of the client's POST on its way, or 0
  frames,    \* frames from the client on the WebSocket
  probed,    \* is the answer to the probe on its way to the client?
  arriving,  \* messages on the WebSocket on their way to the client
  toClient,  \* history: messages the client received
  fromClient,\* history: messages the client sent
  toServer   \* history: the client's messages emitted to the application

client == <<phase, candidate, get, body, post, frames, probed, arriving, toClient, fromClient>>
allVars == <<vars, client, toServer>>

\* The messages of the payload that a step of the server wrote, if it wrote
\* one, to one of the transports to.
Wrote(to) ==
  LET e == wire'[Len(wire')]
  IN  IF Len(wire') > Len(wire) /\ e.via \in to THEN MessagesOf(e.packets) ELSE <<>>

\* The outcome for the client of a step of the server: is its request answered,
\* with which messages, and which does the WebSocket send it, in a frame each?
Answers(hadRequest) ==
  /\ IF hadRequest /\ ~polling'.pending
     THEN get' = "answered" /\ body' = Wrote({Polling})
     ELSE UNCHANGED <<get, body>>
  /\ arriving' = arriving \o Wrote(WS)

\* A step of the server that no request of the client causes.
Server(A) ==
  /\ A /\ Answers(polling.pending)
  /\ UNCHANGED <<phase, candidate, post, frames, probed, toClient, fromClient, toServer>>

-----------------------------------------------------------------------------
ClientPolls ==
  /\ phase \in {"polling", "probing"} /\ get = "none"
  /\ get' = "sent"
  /\ UNCHANGED <<vars, phase, candidate, body, post, frames, probed, arriving, toClient, fromClient, toServer>>

\* The GET reaches the server; a session it does not know answers 400.
ServerPolled ==
  /\ get = "sent" /\ ~polling.pending
  /\ \/ PollRequest /\ Answers(TRUE) /\ UNCHANGED phase
     \/ /\ readyState = "closed" \/ transport # Polling
        /\ get' = "none" /\ phase' = "gone" /\ UNCHANGED <<vars, body, arriving>>
  /\ UNCHANGED <<candidate, post, frames, probed, toClient, fromClient, toServer>>

ClientPolled ==
  /\ get = "answered"
  /\ get' = "none" /\ toClient' = toClient \o body /\ body' = <<>>
  /\ UNCHANGED <<vars, phase, candidate, post, frames, probed, arriving, fromClient, toServer>>

\* A message of the client: a POST, or a frame once it upgraded.
ClientSends ==
  /\ fromClient < MaxClient
  /\ \/ phase \in {"polling", "probing"} /\ post = 0
        /\ post' = fromClient + 1 /\ UNCHANGED frames
     \/ phase = "upgraded"
        /\ frames' = Append(frames, [type |-> "message", id |-> fromClient + 1]) /\ UNCHANGED post
  /\ fromClient' = fromClient + 1
  /\ UNCHANGED <<vars, phase, candidate, get, body, probed, arriving, toClient, toServer>>

Emit(id) == toServer' = IF received' > received THEN Append(toServer, id) ELSE toServer

\* The POST reaches the server; its answer lets the client send the next.
ServerPosted ==
  /\ post # 0 /\ post' = 0
  /\ \/ DataRequest("message") /\ Emit(post)
     \/ polling.listeners # "socket" /\ UNCHANGED <<vars, toServer>>
  /\ UNCHANGED <<phase, candidate, get, body, frames, probed, arriving, toClient, fromClient>>

-----------------------------------------------------------------------------
\* The client opens a WebSocket for its session and probes it.
ClientUpgrades(w) ==
  /\ phase = "polling" /\ candidate = Polling
  /\ MaybeUpgrade(w)
  /\ candidate' = w /\ phase' = "probing" /\ frames' = <<[type |-> "probe", id |-> 0]>>
  /\ UNCHANGED <<get, body, post, probed, arriving, toClient, fromClient, toServer>>

\* The next frame of the client reaches the server.
ServerFramed ==
  /\ frames # <<>> /\ frames' = Tail(frames)
  /\ LET f == Head(frames)
     IN  WsPacket(candidate, f.type) /\ Emit(f.id) /\ (probed' = (probed \/ f.type = "probe"))
  /\ Answers(polling.pending)
  /\ UNCHANGED <<phase, candidate, post, toClient, fromClient>>

ClientPauses ==
  /\ phase = "probing" /\ probed
  /\ phase' = "pausing" /\ probed' = FALSE
  /\ UNCHANGED <<vars, candidate, get, body, post, frames, arriving, toClient, fromClient, toServer>>

\* No request is outstanding any more: the client upgrades.
ClientUpgraded ==
  /\ phase = "pausing" /\ get = "none" /\ post = 0 /\ ws[candidate].socket = "open"
  /\ phase' = "upgraded" /\ frames' = Append(frames, [type |-> "upgrade", id |-> 0])
  /\ UNCHANGED <<vars, candidate, get, body, post, probed, arriving, toClient, fromClient, toServer>>

ClientFramed ==
  /\ arriving # <<>> /\ arriving' = Tail(arriving)
  /\ toClient' = Append(toClient, Head(arriving))
  /\ UNCHANGED <<vars, phase, candidate, get, body, post, frames, probed, fromClient, toServer>>

\* The WebSocket closed: the end of the session for a client that upgraded,
\* and back to polling for one that had not.
ClientLostWs ==
  /\ candidate # Polling /\ ws[candidate].socket = "closed" /\ phase \notin {"polling", "gone"}
  /\ phase' = IF phase = "upgraded" THEN "gone" ELSE "polling"
  /\ frames' = <<>> /\ probed' = FALSE
  /\ UNCHANGED <<vars, candidate, get, body, post, arriving, toClient, fromClient, toServer>>

-----------------------------------------------------------------------------
SInit ==
  /\ Init /\ transport = Polling
  /\ phase = "polling" /\ candidate = Polling /\ get = "none" /\ body = <<>> /\ post = 0
  /\ frames = <<>> /\ probed = FALSE /\ arriving = <<>>
  /\ toClient = <<>> /\ fromClient = 0 /\ toServer = <<>>

ClientNext ==
  \/ ClientPolls \/ ServerPolled \/ ClientPolled \/ ClientSends \/ ServerPosted
  \/ \E w \in WS : ClientUpgrades(w)
  \/ ServerFramed \/ ClientPauses \/ ClientUpgraded \/ ClientFramed \/ ClientLostWs

ServerNext ==
  \/ Server(BlobEncoded) \/ Server(PingIntervalFires) \/ Server(PingTimeoutFires)
  \/ \E w \in WS : Server(WsOpen(w)) \/ Server(WsClosed(w)) \/ Server(Timers(w))
  \/ \E type \in {"message", "blob"} : Server(Send(type))
  \/ Server(Close)

SNext == ClientNext \/ ServerNext
SSpec == SInit /\ [][SNext]_allVars

\* A network that delivers, a client that goes on, and the server's timers
\* that the delivery rests on; the heartbeat is not among them.
SFairness ==
  /\ WF_allVars(ClientPolls) /\ WF_allVars(ServerPolled) /\ WF_allVars(ClientPolled)
  /\ WF_allVars(ServerPosted) /\ WF_allVars(ServerFramed) /\ WF_allVars(ClientPauses)
  /\ WF_allVars(ClientUpgraded) /\ WF_allVars(ClientFramed) /\ WF_allVars(ClientLostWs)
  /\ WF_allVars(Server(BlobEncoded))
  /\ \A w \in WS : /\ WF_allVars(Server(WsOpen(w))) /\ WF_allVars(Server(FastUpgradeTick(w)))
                   /\ WF_allVars(ws[w].socket = "closing" /\ Server(WsClosed(w)))

SFairSpec == SSpec /\ SFairness

-----------------------------------------------------------------------------
Prefix(s, n) == Len(s) <= n /\ \A i \in DOMAIN s : s[i] = i

\* The client receives the application's messages in the order they were sent,
\* each once and with none left out, on whichever transport each travels; and so
\* does the application the client's.
Fifo == Prefix(toClient, sent) /\ Prefix(toServer, fromClient)

\* A client that paused polling to upgrade is not left with a request that
\* nothing answers: it gets to upgrade, or the candidate or the session ends.
UpgradeProceeds == phase = "pausing" ~> phase # "pausing" \/ readyState = "closed"

\* A message the session accepted reaches the client, unless the session ends.
Delivered ==
  \A i \in 1..MaxSent :
    sent >= i ~> Len(toClient) >= i \/ readyState = "closed" \/ phase = "gone"
=============================================================================
