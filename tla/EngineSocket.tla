---------------------------- MODULE EngineSocket ----------------------------
(***************************************************************************)
(* One Engine.IO session as the server keeps it: the Socket of             *)
(* engine.io/lib/socket.ts together with the transports it drives, the     *)
(* HTTP long-polling transport (transports/polling.ts) and the WebSocket   *)
(* transports of its upgrade requests (transports/websocket.ts).           *)
(*                                                                         *)
(* JavaScript runs one handler at a time, so an action is a whole event    *)
(* handler with every call it makes: an HTTP request, a WebSocket event, a *)
(* timer, or a call of the application.  The client is arbitrary: any      *)
(* packet, at any time, on any transport.                                  *)
(***************************************************************************)
EXTENDS Integers, Sequences

CONSTANTS
  WS,           \* the WebSocket transports that requests may open
  Polling,      \* the HTTP long-polling transport
  MaxSent,      \* bound: messages the application sends
  MaxReceived,  \* bound: messages the client sends
  MaxBuffer,    \* bound: length of writeBuffer at which no ping is modelled
  MaxStray,     \* bound: interval timers the session has lost track of
  MaxFast       \* bound: fast-upgrade intervals of one candidate

ASSUME PollingAssumption == Polling \notin WS
ASSUME BoundsAssumption ==
  /\ MaxSent \in Nat /\ MaxReceived \in Nat /\ MaxBuffer \in Nat
  /\ MaxStray \in Nat /\ MaxFast \in Nat

VARIABLES
  readyState,    \* Socket.readyState ("opening" ends inside the constructor)
  closeReason,   \* the reason of the "close" event, "none" before it
  upgradeState,  \* Socket.upgradeState
  transport,     \* Socket.transport: the transport that drives the session
  writeBuffer,   \* Socket.writeBuffer: packets waiting for the transport
  drainClose,    \* is close() waiting, with once("drain", close)?
  pingInterval,  \* is the timer of pingIntervalTimerId armed?
  strayPings,    \* armed interval timers whose id schedulePing overwrote
  pingTimeout,   \* is the timer of pingTimeoutTimerId armed?
  polling,       \* the polling transport
  ws,            \* the WebSocket transports
  wire,          \* history: the payloads with messages that left the server
  sent,          \* history: messages accepted by send()
  received       \* history: messages emitted to the application

timers == <<pingInterval, strayPings, pingTimeout>>
net == <<polling, ws, wire>>
session == <<readyState, closeReason, upgradeState, transport, writeBuffer, drainClose>>
vars == <<session, timers, net, sent, received>>

Transports == WS \union {Polling}
CloseReasons == {"transport error", "transport close", "forced close", "ping timeout", "parse error"}

\* A packet; a "blob" is a message whose payload polling encodes asynchronously.
PacketTypes == {"open", "close", "ping", "noop", "message", "blob"}
Packet == [type : PacketTypes, id : Nat]
Control(type) == [type |-> type, id |-> 0]
IsMessage(p) == p.type \in {"message", "blob"}
Has(pkts, Test(_)) == \E i \in DOMAIN pkts : Test(pkts[i])

-----------------------------------------------------------------------------
(* The transports.  A step computes the new transports as a record n, then *)
(* Becomes(n) makes them the next state.                                   *)

Net == [polling |-> polling, ws |-> ws, wire |-> wire]
Becomes(n) == polling' = n.polling /\ ws' = n.ws /\ wire' = n.wire

Emitted(w, t, pkts) ==
  IF Has(pkts, IsMessage) THEN Append(w, [via |-> t, packets |-> pkts]) ELSE w

\* Polling.write: the payload answers the pending poll, or is dropped.
WritePoll(n, pkts) ==
  IF n.polling.pending
  THEN [n EXCEPT !.polling.pending = FALSE, !.wire = Emitted(@, Polling, pkts)]
  ELSE n

\* A polling send that leaves the transport writable.
SendPollKeepsWritable(n, pkts) == WritePoll(n, pkts)

\* Polling.send: a Blob is encoded by a FileReader, which writes later.
SendPoll(n, pkts) ==
  IF Has(pkts, LAMBDA p : p.type = "blob")
  THEN [n EXCEPT !.polling.writable = FALSE, !.polling.encoding = pkts]
  ELSE WritePoll([n EXCEPT !.polling.writable = FALSE], pkts)

\* WS.send: dropped unless the transport is writable and the socket is open.
SendWs(n, w, pkts) ==
  IF n.ws[w].writable /\ n.ws[w].socket = "open"
  THEN [n EXCEPT !.wire = Emitted(@, w, pkts)]
  ELSE n

SendOn(n, t, pkts) == IF t = Polling THEN SendPoll(n, pkts) ELSE SendWs(n, t, pkts)

Writable(n, t) == IF t = Polling THEN n.polling.writable ELSE n.ws[t].writable

Listen(n, t, who) ==
  IF t = Polling THEN [n EXCEPT !.polling.listeners = who]
                 ELSE [n EXCEPT !.ws[t].listeners = who]

Listeners(t) == IF t = Polling THEN polling.listeners ELSE ws[t].listeners

\* A polling doClose that forgets the request it holds.
DoClosePollHangs(n, pkt) == [n EXCEPT !.polling.readyState = "closed", !.polling.writable = FALSE]

\* Polling.doClose, then Transport.onClose (whose event the callers handle).
DoClosePoll(n, pkt) ==
  LET answered == IF n.polling.writable THEN SendPoll(n, <<Control(pkt)>>) ELSE n
  IN  [answered EXCEPT !.polling.readyState = "closed"]

\* WS.doClose: WebSocket.close() on a socket not yet closing.
DoCloseWs(n, w) ==
  IF n.ws[w].socket \in {"connecting", "open"} THEN [n EXCEPT !.ws[w].socket = "closing"] ELSE n

\* Transport.close
CloseOf(n, t) ==
  IF t = Polling
  THEN IF n.polling.readyState = "open" THEN DoClosePoll(n, "close") ELSE n
  ELSE IF n.ws[t].readyState = "open"
       THEN DoCloseWs([n EXCEPT !.ws[t].readyState = "closing"], t)
       ELSE n

\* Socket.closeTransport
CloseTransport(n, t) == CloseOf(Listen(n, t, "none"), t)

-----------------------------------------------------------------------------
(* The session.                                                            *)

\* Socket.onClose, on transports n
OnClose(n, reason) ==
  IF readyState = "closed"
  THEN Becomes(n) /\ UNCHANGED <<session, timers>>
  ELSE /\ readyState' = "closed" /\ closeReason' = reason
       /\ pingInterval' = FALSE /\ pingTimeout' = FALSE
       /\ Becomes(CloseTransport(n, transport))
       /\ UNCHANGED <<upgradeState, transport, writeBuffer, drainClose, strayPings>>

\* A flush that forgets the close() waiting for the drain event.
FlushNoDrain(n, t, buf) ==
  /\ UNCHANGED <<readyState, closeReason, drainClose, timers>>
  /\ IF readyState # "closed" /\ Writable(n, t) /\ buf # <<>>
     THEN writeBuffer' = <<>> /\ Becomes(SendOn(n, t, buf))
     ELSE writeBuffer' = buf /\ Becomes(n)

\* A flush that does not ask whether the transport is writable.
FlushAnyway(n, t, buf) ==
  /\ UNCHANGED <<readyState, closeReason, drainClose, timers>>
  /\ IF readyState # "closed" /\ buf # <<>>
     THEN writeBuffer' = <<>> /\ Becomes(SendOn(n, t, buf))
     ELSE writeBuffer' = buf /\ Becomes(n)

\* Socket.flush of the packets buf to t; its "drain" event runs the close()
\* that waits for it: closeTransport, then onClose("forced close").
Flush(n, t, buf) ==
  LET canFlush == readyState # "closed" /\ Writable(n, t) /\ buf # <<>>
  IN  \/ /\ ~canFlush
         /\ writeBuffer' = buf /\ Becomes(n)
         /\ UNCHANGED <<readyState, closeReason, drainClose, timers>>
      \/ /\ canFlush /\ ~drainClose
         /\ writeBuffer' = <<>> /\ Becomes(SendOn(n, t, buf))
         /\ UNCHANGED <<readyState, closeReason, drainClose, timers>>
      \/ /\ canFlush /\ drainClose
         /\ writeBuffer' = <<>> /\ drainClose' = FALSE
         /\ readyState' = "closed" /\ closeReason' = "forced close"
         /\ pingInterval' = FALSE /\ pingTimeout' = FALSE /\ UNCHANGED strayPings
         /\ Becomes(CloseTransport(SendOn(n, t, buf), t))

\* Socket.sendPacket
SendPacket(p) ==
  IF readyState = "open"
  THEN Flush(Net, transport, Append(writeBuffer, p)) /\ UNCHANGED <<upgradeState, transport>>
  ELSE UNCHANGED <<session, timers, net>>

\* Socket.onPacket: a pong, a message, or anything else ("parse error").
OnPacket(type) ==
  IF readyState # "open"
  THEN UNCHANGED <<session, timers, net, received>>
  ELSE \/ /\ type = "pong"
          /\ pingInterval => strayPings < MaxStray
          /\ pingTimeout' = FALSE /\ pingInterval' = TRUE
          /\ strayPings' = IF pingInterval THEN strayPings + 1 ELSE strayPings
          /\ UNCHANGED <<session, net, received>>
       \/ /\ type = "message" /\ received < MaxReceived
          /\ received' = received + 1
          /\ UNCHANGED <<session, timers, net>>
       \/ /\ type = "other"
          /\ OnClose(Net, "parse error") /\ UNCHANGED received

-----------------------------------------------------------------------------
(* HTTP long-polling requests.                                             *)

\* Polling.onPollRequest: a GET, which the server hands to the transport of a
\* session it still knows.  A second one while one is pending is an error.
PollRequest ==
  /\ readyState # "closed" /\ transport = Polling
  /\ IF polling.pending
     THEN OnClose(Net, "transport error")
     ELSE /\ Flush([Net EXCEPT !.polling.pending = TRUE, !.polling.writable = TRUE],
                   Polling, writeBuffer)
          /\ UNCHANGED <<upgradeState, transport>>
  /\ UNCHANGED <<sent, received>>

\* Polling.onDataRequest: one packet of a POST whose body has been read.  The
\* await on the body lets it arrive after the transport was closed or replaced.
DataRequest(type) ==
  /\ polling.readyState # "absent"
  /\ \/ /\ type = "close" /\ UNCHANGED received
        /\ LET n == DoClosePoll(Net, "noop")
           IN  IF polling.listeners = "socket" THEN OnClose(n, "transport close")
               ELSE Becomes(n) /\ UNCHANGED <<session, timers>>
     \/ /\ type = "oversized" /\ polling.listeners = "socket"
        /\ OnClose(Net, "transport error") /\ UNCHANGED received
     \/ /\ type \in {"pong", "message", "other"} /\ polling.listeners = "socket"
        /\ OnPacket(type)
  /\ UNCHANGED sent

\* The FileReader of encodeBlobAsBase64 has loaded: encodePayload calls write.
BlobEncoded ==
  /\ polling.encoding # <<>>
  /\ Becomes(WritePoll([Net EXCEPT !.polling.encoding = <<>>], polling.encoding))
  /\ UNCHANGED <<session, timers, sent, received>>

-----------------------------------------------------------------------------
(* WebSocket transports and the upgrade.                                   *)

\* A _maybeUpgrade that takes any number of candidates.
MaybeUpgradeAny(w) ==
  /\ readyState # "closed" /\ polling.readyState # "absent" /\ ws[w].readyState = "absent"
  /\ upgradeState' = "upgrading"
  /\ Becomes([Net EXCEPT !.ws[w] = [@ EXCEPT !.readyState = "open", !.socket = "connecting",
                                             !.listeners = "candidate", !.upgradeTimer = TRUE]])
  /\ UNCHANGED <<readyState, closeReason, transport, writeBuffer, drainClose, timers, sent, received>>

\* A _maybeUpgrade that gives the client all the time it wants.
MaybeUpgradeUntimed(w) ==
  /\ readyState # "closed" /\ polling.readyState # "absent" /\ ws[w].readyState = "absent"
  /\ upgradeState = "not_upgraded" /\ upgradeState' = "upgrading"
  /\ Becomes([Net EXCEPT !.ws[w] = [@ EXCEPT !.readyState = "open", !.socket = "connecting",
                                             !.listeners = "candidate"]])
  /\ UNCHANGED <<readyState, closeReason, transport, writeBuffer, drainClose, timers, sent, received>>

\* Server.handleRequest opens the WebSocket, then Socket._maybeUpgrade: one
\* candidate per session, ever; any other is closed at once.
MaybeUpgrade(w) ==
  /\ readyState # "closed" /\ polling.readyState # "absent" /\ ws[w].readyState = "absent"
  /\ LET n == [Net EXCEPT !.ws[w].readyState = "open", !.ws[w].socket = "connecting"]
     IN  IF upgradeState # "not_upgraded"
         THEN Becomes(CloseOf(n, w)) /\ UNCHANGED upgradeState
         ELSE /\ upgradeState' = "upgrading"
              /\ Becomes([n EXCEPT !.ws[w].listeners = "candidate", !.ws[w].upgradeTimer = TRUE])
  /\ UNCHANGED <<readyState, closeReason, transport, writeBuffer, drainClose, timers, sent, received>>

\* WS onopen
WsOpen(w) ==
  /\ ws[w].socket = "connecting"
  /\ LET n == [Net EXCEPT !.ws[w].socket = "open", !.ws[w].writable = TRUE]
     IN  IF ws[w].listeners = "socket"
         THEN Flush(n, w, writeBuffer) /\ UNCHANGED <<upgradeState, transport>>
         ELSE Becomes(n) /\ UNCHANGED <<session, timers>>
  /\ UNCHANGED <<sent, received>>

\* sendNoopPacket: ends the pending poll, so that the client may upgrade.
SendNoop(n) ==
  IF transport = Polling /\ n.polling.writable THEN SendPoll(n, <<Control("noop")>>) ELSE n

\* A clearInterval that counts an interval never started.
ClearFastTwice(n, w) == [n EXCEPT !.ws[w].fastTimers = @ - 1]

\* clearInterval(fastUpgradeTimerId) stops the last interval of the candidate.
ClearFast(n, w) ==
  [n EXCEPT !.ws[w].fastTimers = IF @ > 0 THEN @ - 1 ELSE 0]

\* A probe that is answered with a single noop.
ProbeOnce(w) ==
  /\ ws[w].fastTimers < MaxFast
  /\ Becomes(SendNoop(Net)) /\ UNCHANGED <<session, timers>>

\* The candidate's "packet" listener on a probe: pong, noop, and an interval
\* of noops, which overwrites the id of an earlier one.
Probe(w) ==
  /\ ws[w].fastTimers < MaxFast
  /\ Becomes([SendNoop(Net) EXCEPT !.ws[w].fastTimers = @ + 1])
  /\ UNCHANGED <<session, timers>>

\* An upgrade that leaves the old transport bound.
UpgradeKeepsOld(w) ==
  LET n == [ClearFast(Listen(Net, w, "socket"), w) EXCEPT !.ws[w].upgradeTimer = FALSE]
  IN  /\ upgradeState' = "upgraded" /\ transport' = w
      /\ Flush(n, w, writeBuffer)

\* An upgrade that does not flush.
UpgradeNoFlush(w) ==
  LET freed == [ClearFast(Listen(Net, w, "none"), w) EXCEPT !.ws[w].upgradeTimer = FALSE]
  IN  /\ upgradeState' = "upgraded" /\ transport' = w
      /\ Becomes(Listen(CloseTransport(freed, transport), w, "socket"))
      /\ UNCHANGED <<readyState, closeReason, writeBuffer, drainClose, timers>>

\* The candidate's "packet" listener on an upgrade: the old transport is
\* unbound and closed, the candidate bound, and the buffer flushed to it.
Upgrade(w) ==
  LET freed == [ClearFast(Listen(Net, w, "none"), w) EXCEPT !.ws[w].upgradeTimer = FALSE]
      n == Listen(CloseTransport(freed, transport), w, "socket")
  IN  /\ upgradeState' = "upgraded" /\ transport' = w
      /\ Flush(n, w, writeBuffer)

\* The candidate's "packet" listener on anything else.
InvalidUpgrade(w) ==
  /\ Becomes(CloseOf([Net EXCEPT !.ws[w].upgradeTimer = FALSE], w))
  /\ UNCHANGED <<session, timers>>

\* WS onmessage and Transport.onPacket, by the listeners of the transport.
WsPacket(w, type) ==
  /\ ws[w].socket = "open"
  /\ \/ /\ type = "close" /\ UNCHANGED received
        /\ Becomes(DoCloseWs(Net, w)) /\ UNCHANGED <<session, timers>>
     \/ /\ type = "oversized" /\ ws[w].listeners = "socket"
        /\ OnClose(Net, "transport error") /\ UNCHANGED received
     \/ /\ type \in {"pong", "message", "other"} /\ ws[w].listeners = "socket"
        /\ OnPacket(type)
     \/ /\ type = "probe" /\ ws[w].listeners = "candidate"
        /\ Probe(w) /\ UNCHANGED received
     \/ /\ type = "upgrade" /\ ws[w].listeners = "candidate" /\ readyState # "closed"
        /\ Upgrade(w) /\ UNCHANGED received
     \/ /\ ws[w].listeners = "candidate"
        /\ type \in {"pong", "message", "other"} \/ (type = "upgrade" /\ readyState = "closed")
        /\ InvalidUpgrade(w) /\ UNCHANGED received
  /\ UNCHANGED sent

\* WS onclose, on the server's close() or the client's going away; a candidate
\* stops its interval and its listeners but not its upgrade timer.
WsClosed(w) ==
  /\ ws[w].socket \in {"connecting", "open", "closing"}
  /\ LET n == [Net EXCEPT !.ws[w].socket = "closed", !.ws[w].writable = FALSE,
                          !.ws[w].readyState = "closed"]
     IN  CASE ws[w].listeners = "socket" -> OnClose(n, "transport close")
           [] ws[w].listeners = "candidate" ->
                Becomes(Listen(ClearFast(n, w), w, "none")) /\ UNCHANGED <<session, timers>>
           [] OTHER -> Becomes(n) /\ UNCHANGED <<session, timers>>
  /\ UNCHANGED <<sent, received>>

\* The upgradeTimeout timer of a candidate: closes whatever is left of it.
UpgradeTimeout(w) ==
  /\ ws[w].upgradeTimer
  /\ Becomes(CloseOf([Net EXCEPT !.ws[w].upgradeTimer = FALSE], w))
  /\ UNCHANGED <<session, timers, sent, received>>

\* An interval of the candidate, every FAST_UPGRADE_INTERVAL_MS.
FastUpgradeTick(w) ==
  /\ ws[w].fastTimers > 0
  /\ Becomes(SendNoop(Net))
  /\ UNCHANGED <<session, timers, sent, received>>

-----------------------------------------------------------------------------
(* The heartbeat and the application.                                      *)

\* A ping that arms no timeout.
PingUnguarded ==
  /\ pingInterval' = FALSE /\ UNCHANGED <<strayPings, pingTimeout>>

\* The callback of schedulePing after sendPacket: resetPingTimeout.
ResetPingTimeout ==
  \/ pingInterval /\ pingInterval' = FALSE /\ pingTimeout' = TRUE /\ UNCHANGED strayPings
  \/ strayPings > 0 /\ strayPings' = strayPings - 1 /\ pingTimeout' = TRUE /\ UNCHANGED pingInterval

\* schedulePing's timer.  A stray one fires even after the session is closed.
PingIntervalFires ==
  /\ readyState = "open" => Len(writeBuffer) < MaxBuffer
  /\ LET buf == Append(writeBuffer, Control("ping"))
         canFlush == readyState = "open" /\ Writable(Net, transport)
     IN  /\ writeBuffer' = IF canFlush THEN <<>>
                           ELSE IF readyState = "open" THEN buf ELSE writeBuffer
         /\ Becomes(IF canFlush THEN SendOn(Net, transport, buf) ELSE Net)
  /\ ResetPingTimeout
  /\ UNCHANGED <<readyState, closeReason, upgradeState, transport, drainClose, sent, received>>

\* resetPingTimeout's timer.
PingTimeoutFires ==
  /\ pingTimeout
  /\ IF readyState # "closed" THEN OnClose(Net, "ping timeout")
     ELSE pingTimeout' = FALSE /\ UNCHANGED <<session, net, pingInterval, strayPings>>
  /\ UNCHANGED <<sent, received>>

\* Socket.send: accepted while open, dropped once closing.
Send(type) ==
  /\ sent < MaxSent /\ readyState = "open"
  /\ SendPacket([type |-> type, id |-> sent + 1])
  /\ sent' = sent + 1 /\ UNCHANGED received

\* Socket.close
Close ==
  /\ readyState = "open"
  /\ IF writeBuffer # <<>>
     THEN /\ readyState' = "closing" /\ drainClose' = TRUE
          /\ UNCHANGED <<closeReason, upgradeState, transport, writeBuffer, timers, net>>
     ELSE OnClose(Net, "forced close")
  /\ UNCHANGED <<sent, received>>

-----------------------------------------------------------------------------
Absent == [readyState |-> "absent", writable |-> FALSE, listeners |-> "none",
           socket |-> "none", upgradeTimer |-> FALSE, fastTimers |-> 0]

\* The constructor and onOpen, over the transport of the handshake request.
Init ==
  /\ readyState = "open" /\ closeReason = "none" /\ upgradeState = "not_upgraded"
  /\ writeBuffer = <<Control("open")>> /\ drainClose = FALSE
  /\ pingInterval = TRUE /\ strayPings = 0 /\ pingTimeout = FALSE
  /\ transport \in Transports
  /\ polling = [readyState |-> IF transport = Polling THEN "open" ELSE "absent",
                writable |-> FALSE, pending |-> FALSE, encoding |-> <<>>,
                listeners |-> IF transport = Polling THEN "socket" ELSE "none"]
  /\ ws = [w \in WS |->
             IF w = transport
             THEN [Absent EXCEPT !.readyState = "open", !.socket = "connecting", !.listeners = "socket"]
             ELSE Absent]
  /\ wire = <<>> /\ sent = 0 /\ received = 0

Timers(w) == UpgradeTimeout(w) \/ FastUpgradeTick(w)

Next ==
  \/ PollRequest
  \/ \E type \in {"close", "oversized", "pong", "message", "other"} : DataRequest(type)
  \/ BlobEncoded
  \/ \E w \in WS :
       \/ MaybeUpgrade(w) \/ WsOpen(w) \/ WsClosed(w) \/ Timers(w)
       \/ \E type \in {"close", "oversized", "pong", "message", "other", "probe", "upgrade"} :
            WsPacket(w, type)
  \/ PingIntervalFires \/ PingTimeoutFires
  \/ \E type \in {"message", "blob"} : Send(type)
  \/ Close

\* JavaScript timers fire, a FileReader loads, and a WebSocket that the server
\* closes ends: the runtime's promises.  Nothing is assumed of the client.
Fairness ==
  /\ WF_vars(PingIntervalFires) /\ WF_vars(PingTimeoutFires) /\ WF_vars(BlobEncoded)
  /\ \A w \in WS :
       WF_vars(UpgradeTimeout(w)) /\ WF_vars(ws[w].socket = "closing" /\ WsClosed(w))

Spec == Init /\ [][Next]_vars
FairSpec == Spec /\ Fairness

-----------------------------------------------------------------------------
PollingType ==
  [readyState : {"absent", "open", "closed"}, writable : BOOLEAN, pending : BOOLEAN,
   encoding : Seq(Packet), listeners : {"none", "socket"}]
WsType ==
  [readyState : {"absent", "open", "closing", "closed"}, writable : BOOLEAN,
   listeners : {"none", "candidate", "socket"},
   socket : {"none", "connecting", "open", "closing", "closed"},
   upgradeTimer : BOOLEAN, fastTimers : Nat]

\* The types of the variables.
TypeOK ==
  /\ readyState \in {"open", "closing", "closed"}
  /\ closeReason \in CloseReasons \union {"none"}
  /\ upgradeState \in {"not_upgraded", "upgrading", "upgraded"}
  /\ transport \in Transports
  /\ writeBuffer \in Seq(Packet)
  /\ drainClose \in BOOLEAN /\ pingInterval \in BOOLEAN /\ pingTimeout \in BOOLEAN
  /\ strayPings \in Nat
  /\ polling \in PollingType
  /\ ws \in [WS -> WsType]
  /\ wire \in Seq([via : Transports, packets : Seq(Packet)])
  /\ sent \in Nat /\ received \in Nat

\* The session listens to exactly one transport, its current one, and to none
\* once it is closed: bindTransport, closeTransport and the off() of the
\* candidate must pair up over every order of upgrade, error and close.
OneDriver ==
  \A t \in Transports : Listeners(t) = "socket" <=> (t = transport /\ readyState # "closed")

\* At most one WebSocket is a candidate, and none once the session upgraded:
\* _maybeUpgrade refuses every other request, whatever became of the first.
OneCandidate ==
  /\ \A v, w \in WS : ws[v].listeners = "candidate" /\ ws[w].listeners = "candidate" => v = w
  /\ upgradeState = "upgraded" => \A w \in WS : ws[w].listeners # "candidate"

\* A long-polling request the server holds has someone to answer it: either an
\* encoder is at work on its answer, or it belongs to the open session that is
\* driven by polling.  A writable transport holds a request, so that no flush
\* reaches Polling.write without one, which would drop its packets.
PollHeld ==
  /\ polling.writable => polling.pending
  /\ polling.pending =>
       \/ polling.encoding # <<>>
       \/ polling.writable /\ transport = Polling /\ readyState = "open"

\* Until it is closed, a session has a heartbeat timer armed: whatever mix of
\* pongs, pings, stray timers and close() happens, it cannot outlive a client
\* that went silent.
Heartbeat == readyState # "closed" => pingInterval \/ pingTimeout

\* close() delivers what was sent before it: a session closed by the server's
\* own close() leaves nothing in its buffer, and one that waits has a waiter.
GracefulClose ==
  /\ closeReason = "forced close" => writeBuffer = <<>>
  /\ readyState = "closing" => drainClose /\ writeBuffer # <<>>

\* Every long-polling request is answered, whatever the client does next: the
\* next ping, message, noop or close ends it.
PollAnswered == polling.pending ~> ~polling.pending

\* A session that waits in close() for a client to fetch its buffer closes
\* even if the client never does.
ClosingEnds == readyState = "closing" ~> readyState = "closed"

\* A candidate becomes the session's transport or is dropped.
CandidateResolved ==
  \A w \in WS : ws[w].listeners = "candidate" ~> ws[w].listeners # "candidate"
=============================================================================
