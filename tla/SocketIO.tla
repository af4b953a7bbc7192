------------------------------ MODULE SocketIO ------------------------------
(***************************************************************************)
(* One Socket.IO client and its sockets: the Client of                     *)
(* socket.io/lib/client.ts, which multiplexes the namespaces over one      *)
(* Engine.IO connection, with Namespace._add (namespace.ts), the life of   *)
(* the Socket (socket.ts) and Server._checkNamespace (server.ts).          *)
(*                                                                         *)
(* The connection itself is EngineSocket, reduced to what the Client sees: *)
(* whether packets wait in its buffer, and a close() that then waits for   *)
(* the drain event.  Checks of dynamic namespaces and middlewares are      *)
(* asynchronous: packets, timers and closes happen while they run.         *)
(***************************************************************************)
EXTENDS Integers, Sequences

CONSTANTS
  Nsps,        \* names of namespaces
  Static,      \* those that exist from the start; a check may create others
  MaxSockets,  \* bound: CONNECT attempts that get to construct a Socket
  MaxEmits     \* bound: events the application emits to one socket

ASSUME NspsAssumption == Static \subseteq Nsps
ASSUME SocketsAssumption == MaxSockets \in Nat /\ MaxEmits \in Nat

VARIABLES
  patient,       \* does the client await the outcome of a CONNECT before it repeats
                 \* it, and send only packets the decoder accepts?
  readyState,    \* conn.readyState
  buffered,      \* do packets wait in conn.writeBuffer?
  drainClose,    \* does conn.close() wait, with once("drain", close)?
  bound,         \* are the listeners of conn there (the Client's, and the Engine.IO server's)?
  registered,    \* is conn in the clients map of the Engine.IO server?
  clientSockets, \* Client.sockets: Map<name, Socket>
  connectTimer,  \* is the timer of connectTimerId armed?
  nsps,          \* the keys of Server._nsps
  created,       \* history: how often each namespace was created
  checking,      \* _checkNamespace calls in progress, per name
  sock           \* the sockets, by order of construction

conn == <<readyState, buffered, drainClose, registered>>
server == <<nsps, created, checking>>
vars == <<patient, conn, bound, clientSockets, connectTimer, server, sock>>

Ids == 1..MaxSockets
NoNsp == "none"

(* A socket: its namespace; its stage (unused, middleware, over); connected; *)
(* the length of preConnectBuffer; the packets written for it; how often     *)
(* "connection" and "disconnect" were emitted; and whether an outgoing       *)
(* listener disconnected it while a packet was about to be written.          *)
Unused == [nsp |-> NoNsp, stage |-> "unused", connected |-> FALSE, pre |-> 0, emits |-> 0,
           told |-> <<>>, connections |-> 0, disconnections |-> 0, cut |-> FALSE]

-----------------------------------------------------------------------------
(* Writing packets, and closing.                                           *)

\* What the transport cannot take at once waits in the buffer.
Buffers == buffered' \in IF buffered THEN {TRUE} ELSE BOOLEAN

\* Client._packet: ignored unless conn is open.
Tell(s, k) == IF readyState = "open" THEN [s EXCEPT !.told = Append(@, k)] ELSE s

Written(s, kinds) == IF readyState = "open" THEN [s EXCEPT !.told = @ \o kinds] ELSE s
EventList(k) == [j \in 1..k |-> "event"]

\* What becomes of a connected socket as k events are written, each after
\* _notifyOutgoingListeners: one of these listeners may call disconnect(), and
\* the rest, beginning with its own event, follows the DISCONNECT packet.
WithEvents(s, k) ==
  {Written(s, EventList(k))} \union
  {[Written(s, EventList(c - 1) \o <<"disconnect">> \o EventList(k - c + 1))
     EXCEPT !.connected = FALSE, !.disconnections = @ + 1, !.cut = TRUE] : c \in 1..k}

\* Socket._onclose, once per connected socket
Closed(s) ==
  IF s.connected THEN [s EXCEPT !.connected = FALSE, !.disconnections = @ + 1] ELSE s

Held == {clientSockets[n] : n \in DOMAIN clientSockets}

\* A Client.onclose that tells no socket.
OnCloseSilent(told) ==
  /\ bound' = FALSE /\ drainClose' = FALSE /\ connectTimer' = FALSE
  /\ clientSockets' = [n \in {} |-> 0] /\ sock' = told

\* Client.onclose: conn.off() removes every listener of conn, the waiting
\* close() and the Engine.IO server's included; then each socket is closed.
OnClose(told) ==
  /\ bound' = FALSE /\ drainClose' = FALSE /\ connectTimer' = FALSE
  /\ clientSockets' = [n \in {} |-> 0]
  /\ sock' = [i \in Ids |-> IF i \in Held THEN Closed(told[i]) ELSE told[i]]

\* conn.onClose: its "close" event deletes the session from the server's map
\* and calls Client.onclose, if they still listen.
ConnCloses ==
  /\ readyState' = "closed" /\ registered' = (registered /\ ~bound)
  /\ IF bound THEN OnClose(sock) ELSE UNCHANGED <<bound, drainClose, connectTimer, clientSockets, sock>>

\* Client.close, with the sockets already told what they are told: conn.close()
\* closes at once or waits for the buffer, and Client.onclose follows.
Close(told, waits) ==
  IF readyState = "open"
  THEN /\ readyState' = IF waits THEN "closing" ELSE "closed"
       /\ registered' = (registered /\ (waits \/ ~bound))
       /\ buffered' = waits
       /\ OnClose(told)
  ELSE /\ UNCHANGED <<readyState, registered, buffered, drainClose, bound, connectTimer>>
       /\ UNCHANGED clientSockets /\ sock' = told

-----------------------------------------------------------------------------
(* Packets of the client, through the decoder, while conn is open.         *)

Receives == bound /\ readyState = "open"
Fresh == {i \in Ids : sock[i].stage = "unused"}
Pending(n) == checking[n] > 0 \/ \E i \in Ids : sock[i].stage = "middleware" /\ sock[i].nsp = n

\* Client.doConnect and Namespace._add up to the middlewares.
Construct(n) ==
  \E i \in Fresh :
    /\ \A j \in Fresh : i <= j
    /\ sock' = [sock EXCEPT ![i] = [Unused EXCEPT !.nsp = n, !.stage = "middleware"]]

\* Client.onPacket on CONNECT, and Client.connect.
RecvConnect(n) ==
  /\ Receives /\ (patient => ~Pending(n))
  /\ IF n \in DOMAIN clientSockets
     THEN Close(sock, buffered) /\ UNCHANGED server
     ELSE /\ UNCHANGED <<conn, bound, clientSockets, connectTimer, nsps, created>>
          /\ \/ n \in nsps /\ Construct(n) /\ UNCHANGED checking
             \/ /\ n \notin nsps /\ Fresh # {} /\ checking[n] < MaxSockets
                /\ checking' = [checking EXCEPT ![n] = @ + 1] /\ UNCHANGED sock

\* A check that looks for the namespace before it awaits, not after.
CheckCreates(n) ==
  /\ nsps' = nsps \union {n} /\ created' = [created EXCEPT ![n] = @ + 1]

\* _checkNamespace after its await, and ParentNamespace._createChild
CheckedNamespace(n) ==
  IF n \in nsps THEN UNCHANGED <<nsps, created>>
  ELSE nsps' = nsps \union {n} /\ created' = [created EXCEPT ![n] = @ + 1]

\* The check of Client.connect ends: a parent namespace matches, or none does
\* and a CONNECT_ERROR is written.
CheckDone(n) ==
  /\ checking[n] > 0 /\ checking' = [checking EXCEPT ![n] = @ - 1]
  /\ UNCHANGED <<readyState, drainClose, registered, bound, clientSockets, connectTimer>>
  /\ \/ CheckedNamespace(n) /\ Construct(n) /\ UNCHANGED buffered
     \/ UNCHANGED <<nsps, created, sock>>
        /\ IF readyState = "open" THEN Buffers ELSE UNCHANGED buffered

\* Client.onPacket on a CONNECT_ERROR, or on anything but a CONNECT for a
\* namespace without a socket.
RecvStray == Receives /\ Close(sock, buffered) /\ UNCHANGED server

\* Client.onPacket on DISCONNECT: Socket.ondisconnect.  Client._remove deletes
\* by the id of the socket a map keyed by namespace: nothing.
RecvDisconnect(n) ==
  /\ Receives
  /\ n \in DOMAIN clientSockets
  /\ sock' = [sock EXCEPT ![clientSockets[n]] = Closed(@)]
  /\ UNCHANGED <<conn, bound, clientSockets, connectTimer, server>>

\* The decoder refuses a packet: Client.onclose("parse error").
RecvInvalid ==
  /\ Receives /\ ~patient
  /\ OnClose(sock) /\ UNCHANGED <<readyState, buffered, registered, server>>

-----------------------------------------------------------------------------
(* The end of the middlewares: the rest of Namespace._add.                 *)

\* An _add that does not ask whether the connection is still there.
AcceptBlindly(i) ==
  /\ sock' = [sock EXCEPT ![i] = [@ EXCEPT !.stage = "over", !.connected = TRUE, !.connections = 1]]
  /\ clientSockets' = [n \in DOMAIN clientSockets \union {sock[i].nsp} |->
                         IF n = sock[i].nsp THEN i ELSE clientSockets[n]]
  /\ connectTimer' = FALSE /\ UNCHANGED buffered

\* An _onconnect that writes what was emitted before the CONNECT packet.
AcceptEarly(i) ==
  IF readyState # "open"
  THEN /\ sock' = [sock EXCEPT ![i].stage = "over"]
       /\ UNCHANGED <<clientSockets, connectTimer, buffered>>
  ELSE /\ LET events == [k \in 1..sock[i].pre |-> "event"]
          IN  sock' = [sock EXCEPT ![i] = [@ EXCEPT !.stage = "over", !.connected = TRUE,
                         !.pre = 0, !.told = @ \o events \o <<"connect">>, !.connections = 1]]
       /\ clientSockets' = [n \in DOMAIN clientSockets \union {sock[i].nsp} |->
                              IF n = sock[i].nsp THEN i ELSE clientSockets[n]]
       /\ connectTimer' = FALSE /\ Buffers

\* The middlewares passed: unless conn closed meanwhile, Socket._onconnect
\* writes CONNECT and then the events emitted before, the callback of
\* doConnect enters the socket in the map, and "connection" is emitted.
Accept(i) ==
  IF readyState # "open"
  THEN /\ sock' = [sock EXCEPT ![i].stage = "over"]
       /\ UNCHANGED <<clientSockets, connectTimer, buffered>>
  ELSE /\ LET s == [Tell(sock[i], "connect") EXCEPT !.stage = "over", !.connected = TRUE, !.pre = 0,
                                                   !.connections = 1]
          IN  \E x \in WithEvents(s, sock[i].pre) : sock' = [sock EXCEPT ![i] = x]
       /\ clientSockets' = [n \in DOMAIN clientSockets \union {sock[i].nsp} |->
                              IF n = sock[i].nsp THEN i ELSE clientSockets[n]]
       /\ connectTimer' = FALSE /\ Buffers

\* A middleware failed: a CONNECT_ERROR is written.
Refuse(i) ==
  /\ sock' = [sock EXCEPT ![i].stage = "over"]
  /\ IF readyState = "open" THEN Buffers ELSE UNCHANGED buffered
  /\ UNCHANGED <<clientSockets, connectTimer>>

MiddlewareDone(i) ==
  /\ sock[i].stage = "middleware"
  /\ Accept(i) \/ Refuse(i)
  /\ UNCHANGED <<readyState, drainClose, registered, bound, server>>

-----------------------------------------------------------------------------
(* The application.                                                        *)

\* Socket.emit: kept in preConnectBuffer unless connected.
Emit(i) ==
  /\ sock[i].stage # "unused" /\ sock[i].emits < MaxEmits
  /\ LET s == [sock[i] EXCEPT !.emits = @ + 1]
     IN  IF s.connected
         THEN /\ \E x \in WithEvents(s, 1) : sock' = [sock EXCEPT ![i] = x]
              /\ IF readyState = "open" THEN Buffers ELSE UNCHANGED buffered
         ELSE sock' = [sock EXCEPT ![i] = [s EXCEPT !.pre = @ + 1]] /\ UNCHANGED buffered
  /\ UNCHANGED <<readyState, drainClose, registered, bound, clientSockets, connectTimer, server>>

\* Socket.disconnect()
Disconnect(i) ==
  /\ sock[i].connected
  /\ sock' = [sock EXCEPT ![i] = Closed(Tell(@, "disconnect"))]
  /\ IF readyState = "open" THEN Buffers ELSE UNCHANGED buffered
  /\ UNCHANGED <<readyState, drainClose, registered, bound, clientSockets, connectTimer, server>>

\* Socket.disconnect(true): Client._disconnect
DisconnectAll(i) ==
  /\ sock[i].connected
  /\ LET reached == {k \in Held : sock[k].connected}
         told == [k \in Ids |-> IF k \in reached THEN Closed(Tell(sock[k], "disconnect"))
                                 ELSE sock[k]]
     IN  IF readyState = "open"
         THEN \E waits \in BOOLEAN :
                /\ buffered => waits
                /\ reached = {} => waits = buffered
                /\ Close(told, waits)
         ELSE /\ sock' = told /\ clientSockets' = [n \in {} |-> 0]
              /\ UNCHANGED <<conn, bound, connectTimer>>
  /\ UNCHANGED server

\* Server.close: conn.close() by the Engine.IO server
ServerClose ==
  /\ readyState = "open" /\ UNCHANGED <<buffered, server>>
  /\ IF buffered
     THEN /\ readyState' = "closing" /\ drainClose' = TRUE
          /\ UNCHANGED <<registered, bound, clientSockets, connectTimer, sock>>
     ELSE ConnCloses

-----------------------------------------------------------------------------
(* Timers and the connection.                                              *)

\* A connect timer that has no effect.
ConnectTimeoutIdle ==
  /\ connectTimer /\ connectTimer' = FALSE
  /\ UNCHANGED <<conn, bound, clientSockets, server, sock>>

\* The connectTimeout timer: no namespace joined yet.
ConnectTimeout ==
  /\ connectTimer
  /\ IF DOMAIN clientSockets = {} /\ readyState = "open" THEN Close(sock, buffered)
     ELSE connectTimer' = FALSE /\ UNCHANGED <<conn, bound, clientSockets, sock>>
  /\ UNCHANGED server

\* The transport takes the buffer: a close() that waits for it ends.
Drain ==
  /\ buffered /\ readyState # "closed" /\ buffered' = FALSE /\ UNCHANGED server
  /\ IF drainClose THEN ConnCloses
     ELSE UNCHANGED <<readyState, registered, drainClose, bound, clientSockets, connectTimer, sock>>

\* The transport fails or closes, or the ping times out.
ConnLost ==
  /\ readyState # "closed" /\ ConnCloses /\ UNCHANGED <<buffered, server>>

-----------------------------------------------------------------------------
\* The constructor of Client, on the "connection" event of the Engine.IO server.
Init ==
  /\ patient \in BOOLEAN
  /\ readyState = "open" /\ buffered \in BOOLEAN /\ drainClose = FALSE
  /\ bound = TRUE /\ registered = TRUE
  /\ clientSockets = [n \in {} |-> 0] /\ connectTimer = TRUE
  /\ nsps = Static /\ created = [n \in Nsps |-> IF n \in Static THEN 1 ELSE 0]
  /\ checking = [n \in Nsps |-> 0] /\ sock = [i \in Ids |-> Unused]

Step ==
  \/ \E n \in Nsps : RecvConnect(n) \/ CheckDone(n) \/ RecvDisconnect(n)
  \/ RecvStray \/ RecvInvalid
  \/ \E i \in Ids : MiddlewareDone(i) \/ Emit(i) \/ Disconnect(i) \/ DisconnectAll(i)
  \/ ServerClose \/ ConnectTimeout \/ Drain \/ ConnLost

Next == Step /\ UNCHANGED patient

Spec == Init /\ [][Next]_vars

\* The connect timer fires; nothing is assumed of the client or of the
\* application's middlewares.
FairSpec == Spec /\ WF_vars(ConnectTimeout /\ UNCHANGED patient)

-----------------------------------------------------------------------------
\* "Whether the socket is currently connected or not" (socket.ts:171): the
\* connection of a connected socket is not closed, and its Client holds it,
\* so that the end of the connection will reach it.
ConnectedIsHeld ==
  \A i \in Ids : sock[i].connected =>
    /\ readyState # "closed" /\ bound
    /\ sock[i].nsp \in DOMAIN clientSockets /\ clientSockets[sock[i].nsp] = i

\* The sockets of a client that awaits its CONNECTs are held until they end:
\* the connection, the Client and each socket agree, over every order of
\* middlewares, checks, disconnections and closes.
PatientIsHeld == patient => ConnectedIsHeld

\* Once the connection of such a client is closed, "connection" and
\* "disconnect" were emitted in pairs, also for a socket whose middlewares
\* ended afterwards.
ConnectionsEnd ==
  patient => \A i \in Ids :
    /\ sock[i].disconnections <= sock[i].connections
    /\ readyState = "closed" => sock[i].disconnections = sock[i].connections

\* For its client a socket begins with the CONNECT packet, whatever was
\* emitted before, and ends with the DISCONNECT packet: it is told nothing
\* after it, unless an outgoing listener disconnected the socket.
ToldInOrder ==
  \A i \in Ids : \A k \in DOMAIN sock[i].told :
    /\ sock[i].told[k] = "connect" <=> k = 1
    /\ sock[i].told[k] = "disconnect" => sock[i].cut \/ k = Len(sock[i].told)

\* A dynamic namespace is created once, however many checks for it overlap.
NamespaceOnce == \A n \in Nsps : created[n] = IF n \in nsps THEN 1 ELSE 0

\* A client that joins no namespace is closed, or has sent a packet that the
\* decoder refuses, on which the Client gives it up.
ConnectTimeoutCloses ==
  readyState = "open" /\ DOMAIN clientSockets = {}
    ~> readyState # "open" \/ DOMAIN clientSockets # {} \/ ~bound

-----------------------------------------------------------------------------
(* What the code says of itself and does not do.                           *)

\* "Removes a socket. Called by each Socket" (client.ts:167): a socket that
\* disconnected is not held by its Client any more.
RemovedFromClient == \A n \in DOMAIN clientSockets : sock[clientSockets[n]].connected
=============================================================================
