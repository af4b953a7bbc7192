---------------------------- MODULE EngineServer ----------------------------
(***************************************************************************)
(* The Engine.IO Server of engine.io/lib/server.ts: the map of sessions,   *)
(* and the HTTP requests, each of which passes three awaits on code of the *)
(* application (editResponseHeaders, allowRequest, editHandshakeHeaders)   *)
(* while other requests, timers and closes go on.                          *)
(*                                                                         *)
(* A session is EngineSocket reduced to what decides the fate of requests: *)
(* its state, the transport that drives it, whether packets wait, and the  *)
(* long-polling request it holds.  The client is arbitrary.                *)
(***************************************************************************)
EXTENDS Integers, FiniteSets

CONSTANTS
  Sids,      \* the ids that generateId() may return
  Requests   \* the HTTP requests

CONSTANTS NoSid, NoRequest

ASSUME NoneAssumption == NoSid \notin Sids /\ NoRequest \notin Requests

VARIABLES
  clients,  \* Server.clients: the sessions the server knows
  sess,     \* the sessions
  req       \* the requests, each somewhere in handleRequest

vars == <<clients, sess, req>>

(* A request: what it is ("handshake" and "wsHandshake" have no sid); its  *)
(* step, where handleRequest is: idle, in an await (headers, allow,        *)
(* handshaking), held by a transport, reading its body, or answered; and   *)
(* its answer: ok, refused, or failed if handleRequest threw.              *)
Kinds == {"handshake", "wsHandshake", "poll", "data", "upgrade", "invalid"}
Idle == [kind |-> "invalid", sid |-> NoSid, step |-> "idle", answer |-> "none"]

(* A session: announced and missed are histories: was "connection" emitted *)
(* for it, and was a message emitted before, to no listener?               *)
Absent == [readyState |-> "absent", via |-> "polling", wsOpen |-> FALSE,
           upgradeState |-> "not_upgraded", buffered |-> FALSE, poll |-> NoRequest,
           announced |-> FALSE, missed |-> FALSE]

-----------------------------------------------------------------------------
(* A step computes the new state as a record st, call by call.             *)

State == [clients |-> clients, sess |-> sess, req |-> req]
Becomes(st) == clients' = st.clients /\ sess' = st.sess /\ req' = st.req

Answer(st, r, how) == [st EXCEPT !.req[r].step = "answered", !.req[r].answer = how]

\* Polling.write answers the pending request.
Reply(st, s) ==
  LET r == st.sess[s].poll
  IN  IF r = NoRequest THEN st ELSE [Answer(st, r, "ok") EXCEPT !.sess[s].poll = NoRequest]

\* A session whose end is listened to only once its handshake is done.
CloseUnheard(st, s) ==
  IF st.sess[s].readyState = "closed" THEN st
  ELSE [Reply(st, s) EXCEPT !.sess[s].readyState = "closed",
          !.clients = IF st.sess[s].announced THEN @ \ {s} ELSE @]

\* A close that leaves the pending request alone.
CloseHolds(st, s) ==
  IF st.sess[s].readyState = "closed" THEN st
  ELSE [st EXCEPT !.sess[s].readyState = "closed", !.clients = @ \ {s}]

\* Socket.onClose: its transport is closed, which answers the request it
\* holds, and the "close" listener of handshake forgets the session.
CloseSession(st, s) ==
  IF st.sess[s].readyState = "closed" THEN st
  ELSE [Reply(st, s) EXCEPT !.sess[s].readyState = "closed", !.clients = @ \ {s}]

Writable(x) == IF x.via = "polling" THEN x.poll # NoRequest ELSE x.wsOpen

\* Socket.flush, and its "drain" event, which ends a close() that waits for it.
Flush(st, s) ==
  LET x == st.sess[s]
      sent == [Reply(st, s) EXCEPT !.sess[s].buffered = FALSE]
  IN  IF x.readyState = "closed" \/ ~x.buffered \/ ~Writable(x) THEN st
      ELSE IF x.readyState = "closing" THEN CloseSession(sent, s) ELSE sent

\* Socket.close
CloseCalled(st, s) ==
  IF st.sess[s].readyState # "open" THEN st
  ELSE IF st.sess[s].buffered THEN [st EXCEPT !.sess[s].readyState = "closing"]
  ELSE CloseSession(st, s)

\* "message" of a session that listens; nobody hears it before "connection".
Message(st, s) ==
  IF st.sess[s].readyState = "open"
  THEN [st EXCEPT !.sess[s].missed = @ \/ ~st.sess[s].announced] ELSE st

\* A poll request that takes the place of the one the transport holds.
PollOverwrites(st, r, s) ==
  Flush([st EXCEPT !.sess[s].poll = r, !.req[r].step = "held"], s)

\* Polling.onPollRequest: an overlap is an error; otherwise "drain" flushes,
\* which nothing listens to any more once the session is closed.
PollRequest(st, r, s) ==
  IF st.sess[s].poll # NoRequest
  THEN Answer(CloseSession(st, s), r, "refused")
  ELSE Flush([st EXCEPT !.sess[s].poll = r, !.req[r].step = "held"], s)

-----------------------------------------------------------------------------
(* handleRequest.                                                          *)

\* Was the sid given to the client, in the answer to a handshake?
Told(s) ==
  \E r \in Requests :
    req[r].sid = s /\ req[r].kind \in {"handshake", "wsHandshake"} /\ req[r].answer = "ok"

\* The request arrives; editResponseHeaders is awaited.
Arrive(r) ==
  /\ req[r].step = "idle"
  /\ \E kind \in Kinds, s \in Sids \union {NoSid} :
       /\ kind \in {"handshake", "wsHandshake", "invalid"} => s = NoSid
       /\ s # NoSid => Told(s)
       /\ req' = [req EXCEPT ![r] = [Idle EXCEPT !.kind = kind, !.sid = s, !.step = "headers"]]
  /\ UNCHANGED <<clients, sess>>

\* Server.verify, on the state of that moment: a known transport, and either a
\* session driven by polling or a correct handshake.
Verify(r) ==
  \/ req[r].kind \in {"handshake", "wsHandshake"}
  \/ req[r].kind # "invalid" /\ req[r].sid \in clients /\ sess[req[r].sid].via = "polling"

\* editResponseHeaders is done: verify, then allowRequest is awaited.
HeadersEdited(r) ==
  /\ req[r].step = "headers"
  /\ IF Verify(r) THEN Becomes([State EXCEPT !.req[r].step = "allow"])
                  ELSE Becomes(Answer(State, r, "refused"))

\* allowRequest rejects.
Forbidden(r) == req[r].step = "allow" /\ Becomes(Answer(State, r, "refused"))

\* Server.handshake: the session is open and known, its "open" packet waits,
\* its heartbeat runs, and editHandshakeHeaders is awaited.
Handshake(r) ==
  \E s \in Sids :
    /\ sess[s].readyState = "absent"
    /\ clients' = clients \union {s}
    /\ req' = [req EXCEPT ![r].sid = s, ![r].step = "handshaking"]
    /\ sess' = [sess EXCEPT ![s] = [Absent EXCEPT !.readyState = "open", !.buffered = TRUE,
                   !.via = IF req[r].kind = "handshake" THEN "polling" ELSE "websocket"]]

\* _maybeUpgrade: the first candidate is kept, any other is closed.
MaybeUpgrade(st, s) ==
  IF st.sess[s].upgradeState = "not_upgraded"
  THEN [st EXCEPT !.sess[s].upgradeState = "upgrading"] ELSE st

\* allowRequest resolved: the session is looked up again.  "the client must
\* exist since we have checked it in the verify method", but it may be gone by
\* now, or driven by a WebSocket, which only takes upgrades: handleRequest throws.
Dispatch(r) ==
  LET s == req[r].sid
  IN  /\ req[r].step = "allow"
      /\ \/ s = NoSid /\ Handshake(r)
         \/ /\ s # NoSid
            /\ s \notin clients \/ (req[r].kind # "upgrade" /\ sess[s].via = "websocket")
            /\ Becomes(Answer(State, r, "failed"))
         \/ /\ s \in clients /\ req[r].kind = "upgrade"
            /\ Becomes(Answer(MaybeUpgrade(State, s), r, "ok"))
         \/ /\ s \in clients /\ req[r].kind = "poll" /\ sess[s].via = "polling"
            /\ Becomes(PollRequest(State, r, s))
         \/ /\ s \in clients /\ req[r].kind = "data" /\ sess[s].via = "polling"
            /\ Becomes([State EXCEPT !.req[r].step = "reading"])

\* A handshake that emits no "connection" when its transport waits.
HandshakeSilent(r) ==
  LET s == req[r].sid
  IN  /\ req[r].step = "handshaking"
      /\ IF req[r].kind = "handshake" THEN Becomes(PollRequest(State, r, s))
         ELSE Becomes(Answer([State EXCEPT !.sess[s].announced = TRUE], r, "ok"))

\* editHandshakeHeaders is done: the transport takes the request, whatever
\* became of the session, and "connection" is emitted in the same step.
HandshakeEdited(r) ==
  LET s == req[r].sid
      n == [State EXCEPT !.sess[s].announced = TRUE]
  IN  /\ req[r].step = "handshaking"
      /\ Becomes(IF req[r].kind = "handshake" THEN PollRequest(n, r, s) ELSE Answer(n, r, "ok"))

\* Polling.onDataRequest after its await: a message, a body too large or a
\* close packet, heeded if polling still drives the session.
BodyRead(r) ==
  LET s == req[r].sid
      n == Answer(State, r, "ok")
  IN  /\ req[r].step = "reading"
      /\ \/ sess[s].via = "polling" /\ Becomes(Message(n, s))
         \/ sess[s].via = "polling" /\ Becomes(CloseSession(n, s))
         \/ sess[s].via = "websocket" /\ Becomes(n)

-----------------------------------------------------------------------------
(* The sessions go on by themselves.                                       *)

\* A packet for the client: the application's, or the ping of the heartbeat.
Send(s) ==
  /\ sess[s].readyState = "open"
  /\ Becomes(Flush([State EXCEPT !.sess[s].buffered = TRUE], s))

\* The upgrade packet of the candidate: polling is closed, which answers the
\* request it holds, and the buffer flushed to the WebSocket.
Upgrade(s) ==
  /\ sess[s].upgradeState = "upgrading" /\ sess[s].readyState \in {"open", "closing"}
  /\ Becomes(Flush([Reply(State, s) EXCEPT !.sess[s].upgradeState = "upgraded",
                      !.sess[s].via = "websocket", !.sess[s].wsOpen = TRUE], s))

\* The WebSocket of a handshake opens, once its request was answered.
WsOpen(s) ==
  /\ sess[s].via = "websocket" /\ ~sess[s].wsOpen /\ Told(s)
  /\ Becomes(Flush([State EXCEPT !.sess[s].wsOpen = TRUE], s))

WsMessage(s) == sess[s].wsOpen /\ Becomes(Message(State, s))

\* The session ends by itself: ping timeout, transport error, transport close.
Lost(s) == sess[s].readyState \in {"open", "closing"} /\ Becomes(CloseSession(State, s))

\* The application closes one session.
CloseOne(s) == sess[s].announced /\ Becomes(CloseCalled(State, s))

\* Server.close: every session the server knows.  None of these calls touches
\* another session, so that they come to one change of each.
CloseAll ==
  LET open == {s \in clients : sess[s].readyState = "open"}
      ends == {s \in open : ~sess[s].buffered}
      polls == {sess[s].poll : s \in ends}
  IN  /\ sess' = [s \in Sids |->
                   IF s \in ends THEN [sess[s] EXCEPT !.readyState = "closed", !.poll = NoRequest]
                   ELSE IF s \in open THEN [sess[s] EXCEPT !.readyState = "closing"] ELSE sess[s]]
      /\ req' = [r \in Requests |->
                   IF r \in polls THEN [req[r] EXCEPT !.step = "answered", !.answer = "ok"] ELSE req[r]]
      /\ clients' = clients \ ends

-----------------------------------------------------------------------------
Init ==
  /\ clients = {} /\ sess = [s \in Sids |-> Absent] /\ req = [r \in Requests |-> Idle]

\* The continuation of an await of handleRequest, whichever it is at.
Continue(r) == HeadersEdited(r) \/ Forbidden(r) \/ Dispatch(r) \/ HandshakeEdited(r) \/ BodyRead(r)

Next ==
  \/ \E r \in Requests : Arrive(r) \/ Continue(r)
  \/ \E s \in Sids :
       Send(s) \/ Upgrade(s) \/ WsOpen(s) \/ WsMessage(s) \/ Lost(s) \/ CloseOne(s)
  \/ CloseAll

Spec == Init /\ [][Next]_vars

\* The promises of the application's functions settle, bodies arrive, and the
\* heartbeat of a session with a pending request sends a ping or ends it.
FairSpec ==
  /\ Spec
  /\ \A r \in Requests : WF_vars(Continue(r))
  /\ \A s \in Sids : WF_vars(sess[s].poll # NoRequest /\ (Send(s) \/ Lost(s)))

-----------------------------------------------------------------------------
\* The server knows exactly the sessions that have not closed, those in the
\* middle of their handshake included: none is leaked, and none that still
\* holds a request is refused.
Registered == \A s \in Sids : s \in clients <=> sess[s].readyState \in {"open", "closing"}

\* The session closed while its handshake was edited: its transport takes the
\* request all the same, and nobody is left to answer it.
Overtaken(r) ==
  req[r].kind = "handshake" /\ req[r].step = "held" /\ sess[req[r].sid].readyState = "closed"

\* A request the server holds is the one pending at the transport of its own
\* session, which has not closed (except for Overtaken): no overlap, upgrade
\* or close lets go of a promise unresolved.
HeldIsPending ==
  \A r \in Requests : req[r].step = "held" =>
    LET s == req[r].sid
    IN  sess[s].poll = r /\ sess[s].via = "polling" /\ (s \in clients \/ Overtaken(r))

\* No message of a client is emitted before "connection" gave the application
\* the occasion to listen: the transport takes the handshake request, which
\* may open it, and the event is emitted without an await in between.
ConnectionFirst == \A s \in Sids : ~sess[s].missed

\* Every request is answered, however its awaits interleave with the end or
\* the upgrade of its session.
RequestsEnd ==
  \A r \in Requests : req[r].step # "idle" ~> req[r].step = "answered" \/ Overtaken(r)
=============================================================================
