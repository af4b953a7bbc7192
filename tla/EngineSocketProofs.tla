------------------------- MODULE EngineSocketProofs -------------------------
(***************************************************************************)
(* Proofs about a session, for any set of WebSockets and any bounds: the   *)
(* session is bound to its current transport and to no other, has at most  *)
(* one candidate for an upgrade, keeps a heartbeat timer armed until it is *)
(* closed, its close() never drops what waits in its buffer, and no        *)
(* long-polling request is left with nobody to answer it.                  *)
(***************************************************************************)
EXTENDS EngineSocket, TLAPS

-----------------------------------------------------------------------------
(* The inductive invariant.  What concerns the transports is stated of a   *)
(* record n, as the steps compute one.                                     *)

NetType ==
  [polling : PollingType, ws : [WS -> WsType],
   wire : Seq([via : Transports, packets : Seq(Packet)])]

ListenersOf(n, t) == IF t = Polling THEN n.polling.listeners ELSE n.ws[t].listeners

\* The listeners are those of a session driven by tr, if it is open, whose
\* upgradeState is up.  A WebSocket no request opened has none.
Wired(n, tr, open, up) ==
  /\ \A t \in Transports : ListenersOf(n, t) = "socket" <=> (t = tr /\ open)
  /\ \A v, w \in WS : n.ws[v].listeners = "candidate" /\ n.ws[w].listeners = "candidate" => v = w
  /\ up # "upgrading" => \A w \in WS : n.ws[w].listeners # "candidate"
  /\ \A w \in WS : n.ws[w].readyState = "absent" => n.ws[w].listeners = "none"

\* Steps of the transports that bind and unbind nothing.
SameListeners(m, n) ==
  /\ n.polling.listeners = m.polling.listeners
  /\ \A w \in WS : /\ n.ws[w].listeners = m.ws[w].listeners
                   /\ n.ws[w].readyState = "absent" => m.ws[w].readyState = "absent"

StateInv ==
  /\ readyState \in {"open", "closing", "closed"}
  /\ closeReason \in CloseReasons \union {"none"}
  /\ writeBuffer \in Seq(Packet) /\ drainClose \in BOOLEAN
  /\ closeReason # "none" <=> readyState = "closed"
  /\ readyState = "open" => ~drainClose
  /\ GracefulClose

TimersInv ==
  /\ pingInterval \in BOOLEAN /\ pingTimeout \in BOOLEAN /\ strayPings \in Nat
  /\ Heartbeat

NetInv ==
  /\ Net \in NetType
  /\ upgradeState \in {"not_upgraded", "upgrading", "upgraded"} /\ transport \in Transports
  /\ Wired(Net, transport, readyState # "closed", upgradeState)

SessionInv == StateInv /\ TimersInv /\ NetInv
IInv == SessionInv /\ sent \in Nat /\ received \in Nat
-----------------------------------------------------------------------------
(* The transports.                                                         *)

LEMMA ControlPacket == \A type \in PacketTypes : <<Control(type)>> \in Seq(Packet)
BY DEF Control, Packet

LEMMA WsTyped ==
  ASSUME NEW n \in NetType, NEW w \in WS
  PROVE  n.ws[w] \in WsType
BY DEF NetType

LEMMA WsUpdates ==
  ASSUME NEW s \in WsType
  PROVE  /\ [s EXCEPT !.upgradeTimer = FALSE] \in WsType
         /\ [s EXCEPT !.readyState = "open", !.socket = "connecting"] \in WsType
         /\ [s EXCEPT !.listeners = "candidate", !.upgradeTimer = TRUE] \in WsType
<1>1. [s EXCEPT !.upgradeTimer = FALSE] \in WsType
  BY DEF WsType
<1>2. [s EXCEPT !.readyState = "open", !.socket = "connecting"] \in WsType
  BY DEF WsType
<1>3. [s EXCEPT !.listeners = "candidate", !.upgradeTimer = TRUE] \in WsType
  BY DEF WsType
<1> QED BY <1>1, <1>2, <1>3

LEMMA PollingTyped ==
  ASSUME NEW n \in NetType
  PROVE  n.polling \in PollingType
BY DEF NetType

\* A new record for one WebSocket, and one for polling.
LEMMA SetWsNet ==
  ASSUME NEW n \in NetType, NEW w \in WS, NEW r \in WsType
  PROVE  LET m == [n EXCEPT !.ws = [n.ws EXCEPT ![w] = r]]
         IN  /\ m \in NetType /\ m.polling = n.polling
             /\ \A v \in WS : m.ws[v] = IF v = w THEN r ELSE n.ws[v]
BY DEF NetType

LEMMA SetPollingNet ==
  ASSUME NEW n \in NetType, NEW r \in PollingType, r.listeners = n.polling.listeners
  PROVE  LET m == [n EXCEPT !.polling = r] IN m \in NetType /\ SameListeners(n, m)
BY DEF NetType, SameListeners

LEMMA EmittedType ==
  ASSUME NEW n \in NetType, NEW t \in Transports, NEW pkts \in Seq(Packet)
  PROVE  Emitted(n.wire, t, pkts) \in Seq([via : Transports, packets : Seq(Packet)])
<1> DEFINE Payload == [via : Transports, packets : Seq(Packet)]
           e == [via |-> t, packets |-> pkts]
<1>1. e \in Payload /\ n.wire \in Seq(Payload)
  BY DEF NetType
<1> HIDE DEF Payload, e
<1>2. Append(n.wire, e) \in Seq(Payload)
  BY <1>1
<1>3. Emitted(n.wire, t, pkts) \in {Append(n.wire, e), n.wire}
  BY DEF Emitted, e, Has, IsMessage
<1> QED BY <1>1, <1>2, <1>3 DEF Payload

LEMMA WritePollNet ==
  ASSUME NEW n \in NetType, NEW pkts \in Seq(Packet)
  PROVE  WritePoll(n, pkts) \in NetType /\ SameListeners(n, WritePoll(n, pkts))
<1>1. Emitted(n.wire, Polling, pkts) \in Seq([via : Transports, packets : Seq(Packet)])
  BY EmittedType DEF Transports
<1> QED BY <1>1 DEF WritePoll, NetType, PollingType, SameListeners

LEMMA SendPollNet ==
  ASSUME NEW n \in NetType, NEW pkts \in Seq(Packet)
  PROVE  SendPoll(n, pkts) \in NetType /\ SameListeners(n, SendPoll(n, pkts))
<1> DEFINE m == [n EXCEPT !.polling.writable = FALSE]
           e == [n EXCEPT !.polling.writable = FALSE, !.polling.encoding = pkts]
           rm == [n.polling EXCEPT !.writable = FALSE]
           re == [n.polling EXCEPT !.writable = FALSE, !.encoding = pkts]
<1>1. m \in NetType /\ SameListeners(n, m) /\ e \in NetType /\ SameListeners(n, e)
  <2>1. /\ rm \in PollingType /\ rm.listeners = n.polling.listeners
        /\ re \in PollingType /\ re.listeners = n.polling.listeners
    BY PollingTyped DEF PollingType
  <2>2. m = [n EXCEPT !.polling = rm] /\ e = [n EXCEPT !.polling = re]
    BY DEF NetType
  <2> HIDE DEF m, e, rm, re
  <2> QED BY <2>1, <2>2, SetPollingNet
<1> HIDE DEF m
<1>2. WritePoll(m, pkts) \in NetType /\ SameListeners(n, WritePoll(m, pkts))
  BY <1>1, WritePollNet DEF SameListeners
<1>3. SendPoll(n, pkts) \in {e, WritePoll(m, pkts)}
  BY DEF SendPoll, m
<1> QED BY <1>1, <1>2, <1>3

LEMMA SendOnNet ==
  ASSUME NEW n \in NetType, NEW t \in Transports, NEW pkts \in Seq(Packet)
  PROVE  SendOn(n, t, pkts) \in NetType /\ SameListeners(n, SendOn(n, t, pkts))
<1>1. CASE t = Polling
  BY <1>1, SendPollNet DEF SendOn
<1>2. CASE t # Polling
  <2>1. Emitted(n.wire, t, pkts) \in Seq([via : Transports, packets : Seq(Packet)])
    BY EmittedType
  <2> QED BY <1>2, <2>1 DEF SendOn, SendWs, NetType, SameListeners
<1> QED BY <1>1, <1>2

LEMMA DoClosePollNet ==
  ASSUME NEW n \in NetType, NEW type \in PacketTypes
  PROVE  DoClosePoll(n, type) \in NetType /\ SameListeners(n, DoClosePoll(n, type))
<1> DEFINE a == IF n.polling.writable THEN SendPoll(n, <<Control(type)>>) ELSE n
<1>1. a \in NetType /\ SameListeners(n, a)
  BY ControlPacket, SendPollNet DEF SameListeners
<1> HIDE DEF a
<1>2. [a EXCEPT !.polling.readyState = "closed"] \in NetType
      /\ SameListeners(n, [a EXCEPT !.polling.readyState = "closed"])
  BY <1>1 DEF NetType, PollingType, SameListeners
<1> QED BY <1>2 DEF DoClosePoll, a

LEMMA DoCloseWsNet ==
  ASSUME NEW n \in NetType, NEW w \in WS
  PROVE  DoCloseWs(n, w) \in NetType /\ SameListeners(n, DoCloseWs(n, w))
<1> DEFINE r == [n.ws[w] EXCEPT !.socket = "closing"]
           m == [n EXCEPT !.ws[w].socket = "closing"]
<1>1. r \in WsType
  BY WsTyped DEF WsType
<1>2. r.listeners = n.ws[w].listeners /\ r.readyState = n.ws[w].readyState
  BY WsTyped DEF WsType
<1>3. m = [n EXCEPT !.ws = [n.ws EXCEPT ![w] = r]]
  BY DEF NetType
<1>4. DoCloseWs(n, w) \in {m, n}
  BY DEF DoCloseWs
<1> HIDE DEF r, m
<1>5. m \in NetType /\ SameListeners(n, m)
  BY <1>1, <1>2, <1>3, SetWsNet DEF SameListeners
<1> QED BY <1>4, <1>5 DEF SameListeners

LEMMA CloseOfNet ==
  ASSUME NEW n \in NetType, NEW t \in Transports
  PROVE  CloseOf(n, t) \in NetType /\ SameListeners(n, CloseOf(n, t))
<1>1. CASE t = Polling
  BY <1>1, DoClosePollNet DEF CloseOf, SameListeners, PacketTypes
<1>2. CASE t # Polling
  <2> DEFINE m == [n EXCEPT !.ws[t].readyState = "closing"]
  <2>1. t \in WS
    BY <1>2 DEF Transports
  <2>2. n.ws[t].readyState = "open" => m \in NetType /\ SameListeners(n, m)
    <3> DEFINE r == [n.ws[t] EXCEPT !.readyState = "closing"]
    <3>1. r \in WsType /\ r.listeners = n.ws[t].listeners /\ r.readyState = "closing"
      BY <2>1, WsTyped DEF WsType
    <3>2. m = [n EXCEPT !.ws = [n.ws EXCEPT ![t] = r]]
      BY <2>1 DEF NetType
    <3> HIDE DEF r, m
    <3> QED BY <2>1, <3>1, <3>2, SetWsNet DEF SameListeners
  <2> HIDE DEF m
  <2>3. n.ws[t].readyState = "open"
          => DoCloseWs(m, t) \in NetType /\ SameListeners(n, DoCloseWs(m, t))
    BY <2>1, <2>2, DoCloseWsNet DEF SameListeners
  <2> QED BY <1>2, <2>3 DEF CloseOf, SameListeners, m
<1> QED BY <1>1, <1>2

\* A step that binds nothing keeps the session wired.
LEMMA WiredSame ==
  ASSUME NEW m, NEW n, NEW tr, NEW open, NEW up, Wired(m, tr, open, up), SameListeners(m, n)
  PROVE  Wired(n, tr, open, up)
<1>1. \A t \in Transports : ListenersOf(n, t) = ListenersOf(m, t)
  BY DEF ListenersOf, SameListeners, Transports
<1> QED BY <1>1 DEF Wired, SameListeners

LEMMA ListenNet ==
  ASSUME NEW n \in NetType, NEW t \in Transports, NEW who \in {"none", "socket"}
  PROVE  /\ Listen(n, t, who) \in NetType
         /\ \A x \in Transports :
              ListenersOf(Listen(n, t, who), x) = IF x = t THEN who ELSE ListenersOf(n, x)
         /\ \A w \in WS : Listen(n, t, who).ws[w].readyState = n.ws[w].readyState
<1>1. CASE t = Polling
  BY <1>1, PollingAssumption DEF Listen, ListenersOf, Transports, NetType, PollingType
<1>2. CASE t # Polling
  <2>1. t \in WS
    BY <1>2 DEF Transports
  <2> DEFINE m == [n EXCEPT !.ws[t].listeners = who]
  <2>2. Listen(n, t, who) = m
    BY <1>2 DEF Listen
  <2> DEFINE r == [n.ws[t] EXCEPT !.listeners = who]
  <2>3. r \in WsType /\ r.listeners = who /\ r.readyState = n.ws[t].readyState
    BY <2>1, WsTyped DEF WsType
  <2>4. m = [n EXCEPT !.ws = [n.ws EXCEPT ![t] = r]]
    BY <2>1 DEF NetType
  <2> HIDE DEF m, r
  <2>5. /\ m \in NetType /\ m.polling = n.polling
        /\ \A w \in WS : m.ws[w] = IF w = t THEN r ELSE n.ws[w]
    BY <2>1, <2>3, <2>4, SetWsNet
  <2> QED BY <1>2, <2>1, <2>2, <2>3, <2>5, PollingAssumption DEF ListenersOf, Transports
<1> QED BY <1>1, <1>2

LEMMA WsListeners ==
  ASSUME NEW n, NEW w \in WS
  PROVE  ListenersOf(n, w) = n.ws[w].listeners /\ w \in Transports
BY PollingAssumption DEF ListenersOf, Transports

\* closeTransport unbinds the session.
LEMMA CloseTransportNet ==
  ASSUME NEW n \in NetType, NEW tr \in Transports, NEW open, NEW up, Wired(n, tr, open, up)
  PROVE  /\ CloseTransport(n, tr) \in NetType
         /\ Wired(CloseTransport(n, tr), tr, FALSE, up)
         /\ \A w \in WS : CloseTransport(n, tr).ws[w].readyState = "absent"
                            => n.ws[w].readyState = "absent"
<1> DEFINE m == Listen(n, tr, "none")
<1>1. /\ m \in NetType
      /\ \A x \in Transports : ListenersOf(m, x) = IF x = tr THEN "none" ELSE ListenersOf(n, x)
      /\ \A w \in WS : m.ws[w].readyState = n.ws[w].readyState
  BY ListenNet
<1> HIDE DEF m
<1>2. \A w \in WS : m.ws[w].listeners = IF w = tr THEN "none" ELSE n.ws[w].listeners
  BY <1>1, WsListeners
<1>3. Wired(m, tr, FALSE, up)
  BY <1>1, <1>2 DEF Wired
<1>4. CloseOf(m, tr) \in NetType /\ SameListeners(m, CloseOf(m, tr))
  BY <1>1, CloseOfNet
<1>5. Wired(CloseOf(m, tr), tr, FALSE, up)
  BY <1>3, <1>4, WiredSame
<1>6. \A w \in WS : CloseOf(m, tr).ws[w].readyState = "absent" => n.ws[w].readyState = "absent"
  BY <1>1, <1>4 DEF SameListeners
<1> QED BY <1>4, <1>5, <1>6 DEF CloseTransport, m
-----------------------------------------------------------------------------
(* The session.                                                            *)

LEMMA BecomesNet ==
  ASSUME NEW n \in NetType, Becomes(n)
  PROVE  Net' = n
BY DEF Becomes, Net, NetType

\* The transports change, and bind and unbind nothing.
LEMMA NetSession ==
  ASSUME SessionInv, NEW n \in NetType, SameListeners(Net, n), Becomes(n),
         UNCHANGED <<session, timers>>
  PROVE  SessionInv'
<1>1. Net' = n
  BY BecomesNet
<1>2. Wired(n, transport, readyState # "closed", upgradeState)
  BY WiredSame DEF SessionInv, NetInv
<1>3. NetInv'
  BY <1>1, <1>2 DEF SessionInv, NetInv, session
<1>4. StateInv' /\ TimersInv'
  BY DEF SessionInv, StateInv, TimersInv, GracefulClose, Heartbeat, session, timers
<1> QED BY <1>3, <1>4 DEF SessionInv

LEMMA TimersSession ==
  ASSUME SessionInv, UNCHANGED <<session, net>>, TimersInv'
  PROVE  SessionInv'
BY DEF SessionInv, StateInv, NetInv, GracefulClose, Net, session, net

LEMMA OnCloseSession ==
  ASSUME SessionInv, NEW n \in NetType, SameListeners(Net, n), NEW reason \in CloseReasons,
         reason = "forced close" => writeBuffer = <<>>, OnClose(n, reason)
  PROVE  SessionInv'
<1>1. CASE readyState = "closed"
  BY <1>1, NetSession DEF OnClose
<1>2. CASE readyState # "closed"
  <2> DEFINE m == CloseTransport(n, transport)
  <2>1. /\ readyState' = "closed" /\ closeReason' = reason
        /\ pingInterval' = FALSE /\ pingTimeout' = FALSE /\ Becomes(m)
        /\ UNCHANGED <<upgradeState, transport, writeBuffer, drainClose, strayPings>>
    BY <1>2 DEF OnClose
  <2>2. m \in NetType /\ Wired(m, transport, FALSE, upgradeState)
    BY WiredSame, CloseTransportNet DEF SessionInv, NetInv
  <2>3. Net' = m
    BY <2>1, <2>2, BecomesNet
  <2> HIDE DEF m
  <2>4. NetInv'
    BY <2>1, <2>2, <2>3 DEF SessionInv, NetInv
  <2>5. StateInv' /\ TimersInv'
    BY <2>1 DEF SessionInv, StateInv, TimersInv, GracefulClose, Heartbeat, CloseReasons
  <2> QED BY <2>4, <2>5 DEF SessionInv
<1> QED BY <1>1, <1>2

\* A flush of buf to t, which drives the session from now on.
LEMMA FlushSession ==
  ASSUME SessionInv, readyState # "closed", NEW n \in NetType, NEW t \in Transports,
         NEW up \in {"not_upgraded", "upgrading", "upgraded"}, Wired(n, t, TRUE, up),
         NEW buf \in Seq(Packet), readyState = "closing" => buf # <<>>,
         Flush(n, t, buf), transport' = t, upgradeState' = up
  PROVE  SessionInv'
<1> DEFINE canFlush == readyState # "closed" /\ Writable(n, t) /\ buf # <<>>
<1> HIDE DEF canFlush
<1>1. CASE /\ ~canFlush /\ writeBuffer' = buf /\ Becomes(n)
           /\ UNCHANGED <<readyState, closeReason, drainClose, timers>>
  <2>1. NetInv'
    BY <1>1, BecomesNet DEF NetInv
  <2>2. StateInv' /\ TimersInv'
    BY <1>1 DEF SessionInv, StateInv, TimersInv, GracefulClose, Heartbeat, timers
  <2> QED BY <2>1, <2>2 DEF SessionInv
<1>2. CASE /\ canFlush /\ ~drainClose /\ writeBuffer' = <<>> /\ Becomes(SendOn(n, t, buf))
           /\ UNCHANGED <<readyState, closeReason, drainClose, timers>>
  <2>1. NetInv'
    BY <1>2, BecomesNet, SendOnNet, WiredSame DEF NetInv
  <2>2. readyState = "open"
    BY <1>2 DEF SessionInv, StateInv, GracefulClose
  <2>3. StateInv' /\ TimersInv'
    BY <1>2, <2>2 DEF SessionInv, StateInv, TimersInv, GracefulClose, Heartbeat, timers
  <2> QED BY <2>1, <2>3 DEF SessionInv
<1>3. CASE /\ canFlush /\ drainClose /\ writeBuffer' = <<>> /\ drainClose' = FALSE
           /\ readyState' = "closed" /\ closeReason' = "forced close"
           /\ pingInterval' = FALSE /\ pingTimeout' = FALSE /\ UNCHANGED strayPings
           /\ Becomes(CloseTransport(SendOn(n, t, buf), t))
  <2> DEFINE m == CloseTransport(SendOn(n, t, buf), t)
  <2>1. m \in NetType /\ Wired(m, t, FALSE, up)
    BY SendOnNet, WiredSame, CloseTransportNet
  <2>2. Net' = m
    BY <1>3, <2>1, BecomesNet
  <2> HIDE DEF m
  <2>3. NetInv'
    BY <1>3, <2>1, <2>2 DEF NetInv
  <2>4. GracefulClose'
    BY <1>3 DEF GracefulClose
  <2>5. StateInv'
    <3>1. writeBuffer' = <<>> /\ <<>> \in Seq(Packet)
      <4>1. writeBuffer' = <<>>
        BY <1>3
      <4>2. <<>> \in Seq(Packet)
        OBVIOUS
      <4> QED BY <4>1, <4>2
    <3>2. drainClose' \in BOOLEAN /\ (readyState = "open" => ~drainClose)'
      BY <1>3, Zenon
    <3>3. readyState' = "closed" /\ closeReason' = "forced close"
      BY <1>3
    <3> QED BY <2>4, <3>1, <3>2, <3>3 DEF StateInv, CloseReasons
  <2>6. TimersInv'
    BY <1>3 DEF SessionInv, TimersInv, Heartbeat
  <2> QED BY <2>3, <2>5, <2>6 DEF SessionInv
<1> QED BY <1>1, <1>2, <1>3 DEF Flush, canFlush

LEMMA OnPacketSession ==
  ASSUME SessionInv, NEW type, OnPacket(type), received \in Nat
  PROVE  SessionInv' /\ received' \in Nat
<1>1. CASE UNCHANGED <<session, timers, net, received>>
  BY <1>1, TimersSession DEF SessionInv, TimersInv, Heartbeat, session, timers
<1>2. CASE /\ pingTimeout' = FALSE /\ pingInterval' = TRUE
           /\ strayPings' = IF pingInterval THEN strayPings + 1 ELSE strayPings
           /\ UNCHANGED <<session, net, received>>
  <2>1. strayPings' \in Nat
    BY <1>2 DEF SessionInv, TimersInv
  <2>2. TimersInv'
    BY <1>2, <2>1 DEF TimersInv, Heartbeat
  <2> QED BY <1>2, <2>2, TimersSession
<1>3. CASE received' = received + 1 /\ UNCHANGED <<session, timers, net>>
  BY <1>3, TimersSession DEF SessionInv, TimersInv, Heartbeat, session, timers
<1>4. CASE OnClose(Net, "parse error") /\ UNCHANGED received
  BY <1>4, OnCloseSession DEF SessionInv, NetInv, SameListeners, CloseReasons
<1> QED BY <1>1, <1>2, <1>3, <1>4 DEF OnPacket
-----------------------------------------------------------------------------
(* The upgrade.                                                            *)

\* Changes of one WebSocket that bind and unbind nothing.
LEMMA FastTimersNet ==
  ASSUME NEW n \in NetType, NEW w \in WS, NEW k \in Nat
  PROVE  LET m == [n EXCEPT !.ws[w].fastTimers = k]
         IN  m \in NetType /\ SameListeners(n, m)
<1> DEFINE r == [n.ws[w] EXCEPT !.fastTimers = k]
           m == [n EXCEPT !.ws[w].fastTimers = k]
<1>1. r \in WsType
  BY WsTyped DEF WsType
<1>2. r.listeners = n.ws[w].listeners /\ r.readyState = n.ws[w].readyState
  BY WsTyped DEF WsType
<1>3. m = [n EXCEPT !.ws = [n.ws EXCEPT ![w] = r]]
  BY DEF NetType
<1> HIDE DEF r, m
<1>4. /\ m \in NetType /\ m.polling = n.polling
      /\ \A v \in WS : m.ws[v] = IF v = w THEN r ELSE n.ws[v]
  BY <1>1, <1>3, SetWsNet
<1> QED BY <1>2, <1>4 DEF SameListeners, m

LEMMA UpgradeTimerNet ==
  ASSUME NEW n \in NetType, NEW w \in WS
  PROVE  LET m == [n EXCEPT !.ws[w].upgradeTimer = FALSE]
         IN  m \in NetType /\ SameListeners(n, m)
<1> DEFINE r == [n.ws[w] EXCEPT !.upgradeTimer = FALSE]
           m == [n EXCEPT !.ws[w].upgradeTimer = FALSE]
<1>1. r \in WsType
  BY WsTyped, WsUpdates
<1>2. r.listeners = n.ws[w].listeners /\ r.readyState = n.ws[w].readyState
  BY WsTyped DEF WsType
<1>3. m = [n EXCEPT !.ws = [n.ws EXCEPT ![w] = r]]
  BY DEF NetType
<1> HIDE DEF r, m
<1>4. /\ m \in NetType /\ m.polling = n.polling
      /\ \A v \in WS : m.ws[v] = IF v = w THEN r ELSE n.ws[v]
  BY <1>1, <1>3, SetWsNet
<1> QED BY <1>2, <1>4 DEF SameListeners, m

LEMMA ConnectingNet ==
  ASSUME NEW n \in NetType, NEW w \in WS
  PROVE  LET m == [n EXCEPT !.ws[w].readyState = "open", !.ws[w].socket = "connecting"]
         IN  m \in NetType /\ SameListeners(n, m) /\ m.ws[w].readyState = "open"
<1> DEFINE r == [n.ws[w] EXCEPT !.readyState = "open", !.socket = "connecting"]
           m == [n EXCEPT !.ws[w].readyState = "open", !.ws[w].socket = "connecting"]
<1>1. r \in WsType
  BY WsTyped, WsUpdates
<1>2. r.listeners = n.ws[w].listeners /\ r.readyState = "open"
  BY WsTyped DEF WsType
<1>3. m = [n EXCEPT !.ws = [n.ws EXCEPT ![w] = r]]
  BY DEF NetType
<1> HIDE DEF r, m
<1>4. /\ m \in NetType /\ m.polling = n.polling
      /\ \A v \in WS : m.ws[v] = IF v = w THEN r ELSE n.ws[v]
  BY <1>1, <1>3, SetWsNet
<1> QED BY <1>2, <1>4 DEF SameListeners, m

LEMMA OpenedNet ==
  ASSUME NEW n \in NetType, NEW w \in WS
  PROVE  LET m == [n EXCEPT !.ws[w].socket = "open", !.ws[w].writable = TRUE]
         IN  m \in NetType /\ SameListeners(n, m)
<1> DEFINE r == [n.ws[w] EXCEPT !.socket = "open", !.writable = TRUE]
           m == [n EXCEPT !.ws[w].socket = "open", !.ws[w].writable = TRUE]
<1>1. r \in WsType
  <2>1. \A x \in WsType :
          [x EXCEPT !.socket = "open", !.writable = TRUE] \in WsType
    BY DEF WsType
  <2>2. n.ws[w] \in WsType
    BY DEF NetType
  <2> QED BY <2>1, <2>2
<1>2. r.listeners = n.ws[w].listeners /\ r.readyState = n.ws[w].readyState
  BY WsTyped DEF WsType
<1>3. m = [n EXCEPT !.ws = [n.ws EXCEPT ![w] = r]]
  BY DEF NetType
<1> HIDE DEF r, m
<1>4. /\ m \in NetType /\ m.polling = n.polling
      /\ \A v \in WS : m.ws[v] = IF v = w THEN r ELSE n.ws[v]
  BY <1>1, <1>3, SetWsNet
<1> QED BY <1>2, <1>4 DEF SameListeners, m

LEMMA EndedNet ==
  ASSUME NEW n \in NetType, NEW w \in WS
  PROVE  LET m == [n EXCEPT !.ws[w].socket = "closed", !.ws[w].writable = FALSE, !.ws[w].readyState = "closed"]
         IN  m \in NetType /\ SameListeners(n, m)
<1> DEFINE r == [n.ws[w] EXCEPT !.socket = "closed", !.writable = FALSE, !.readyState = "closed"]
           m == [n EXCEPT !.ws[w].socket = "closed", !.ws[w].writable = FALSE, !.ws[w].readyState = "closed"]
<1>1. r \in WsType
  <2>1. \A x \in WsType :
          [x EXCEPT !.socket = "closed", !.writable = FALSE, !.readyState = "closed"] \in WsType
    BY DEF WsType
  <2>2. n.ws[w] \in WsType
    BY DEF NetType
  <2> QED BY <2>1, <2>2
<1>2. r.listeners = n.ws[w].listeners /\ r.readyState = "closed"
  BY WsTyped DEF WsType
<1>3. m = [n EXCEPT !.ws = [n.ws EXCEPT ![w] = r]]
  BY DEF NetType
<1> HIDE DEF r, m
<1>4. /\ m \in NetType /\ m.polling = n.polling
      /\ \A v \in WS : m.ws[v] = IF v = w THEN r ELSE n.ws[v]
  BY <1>1, <1>3, SetWsNet
<1> QED BY <1>2, <1>4 DEF SameListeners, m

LEMMA ClearFastNet ==
  ASSUME NEW n \in NetType, NEW w \in WS
  PROVE  ClearFast(n, w) \in NetType /\ SameListeners(n, ClearFast(n, w))
<1> DEFINE k == IF n.ws[w].fastTimers > 0 THEN n.ws[w].fastTimers - 1 ELSE 0
<1>1. k \in Nat
  BY WsTyped DEF WsType
<1>2. ClearFast(n, w) = [n EXCEPT !.ws[w].fastTimers = k]
  BY DEF ClearFast
<1> HIDE DEF k
<1> QED BY <1>1, <1>2, FastTimersNet

LEMMA SendNoopNet ==
  ASSUME NEW n \in NetType
  PROVE  SendNoop(n) \in NetType /\ SameListeners(n, SendNoop(n))
<1>1. <<Control("noop")>> \in Seq(Packet) /\ SameListeners(n, n)
  BY ControlPacket DEF PacketTypes, SameListeners
<1> QED BY <1>1, SendPollNet DEF SendNoop

LEMMA ProbeSession ==
  ASSUME SessionInv, NEW w \in WS, Probe(w)
  PROVE  SessionInv'
<1> DEFINE m == SendNoop(Net)
           k == m.ws[w].fastTimers + 1
           n == [m EXCEPT !.ws[w].fastTimers = k]
<1>1. m \in NetType /\ SameListeners(Net, m)
  BY SendNoopNet DEF SessionInv, NetInv
<1>2. Becomes(n) /\ UNCHANGED <<session, timers>>
  BY DEF Probe
<1> HIDE DEF m
<1>3. k \in Nat
  BY <1>1, WsTyped DEF WsType
<1> HIDE DEF k
<1>4. n \in NetType /\ SameListeners(Net, n)
  BY <1>1, <1>3, FastTimersNet DEF SameListeners
<1> QED BY <1>2, <1>4, NetSession

\* The candidate takes the session over from the old transport.
LEMMA UpgradeSession ==
  ASSUME SessionInv, NEW w \in WS, ws[w].listeners = "candidate", readyState # "closed", Upgrade(w)
  PROVE  SessionInv'
<1> DEFINE a == Listen(Net, w, "none")
           freed == [ClearFast(a, w) EXCEPT !.ws[w].upgradeTimer = FALSE]
           b == CloseTransport(freed, transport)
           n == Listen(b, w, "socket")
<1>1. Net.ws[w].listeners = "candidate" /\ Net.ws[w].readyState # "absent"
  BY DEF Net, SessionInv, NetInv, Wired
<1>2. Net \in NetType /\ w \in Transports /\ w # transport
  BY <1>1, WsListeners DEF SessionInv, NetInv, Wired
<1>3. /\ a \in NetType
      /\ \A x \in Transports : ListenersOf(a, x) = IF x = w THEN "none" ELSE ListenersOf(Net, x)
      /\ \A v \in WS : a.ws[v].readyState = Net.ws[v].readyState
  BY <1>2, ListenNet
<1> HIDE DEF a
<1>4. \A v \in WS : a.ws[v].listeners = IF v = w THEN "none" ELSE Net.ws[v].listeners
  BY <1>3, WsListeners
<1>5. Wired(a, transport, TRUE, "upgraded")
  BY <1>1, <1>2, <1>3, <1>4 DEF Wired, SessionInv, NetInv
<1>6. freed \in NetType /\ SameListeners(a, freed)
  <2>1. ClearFast(a, w) \in NetType /\ SameListeners(a, ClearFast(a, w))
    BY <1>3, ClearFastNet
  <2> DEFINE c == ClearFast(a, w)
  <2>2. freed = [c EXCEPT !.ws[w].upgradeTimer = FALSE]
    OBVIOUS
  <2> HIDE DEF c, freed
  <2>3. freed \in NetType /\ SameListeners(c, freed)
    BY <2>1, <2>2, UpgradeTimerNet DEF c
  <2> QED BY <2>1, <2>3 DEF c, SameListeners
<1> HIDE DEF freed
<1>7. Wired(freed, transport, TRUE, "upgraded") /\ freed.ws[w].readyState # "absent"
  BY <1>1, <1>3, <1>5, <1>6, WiredSame DEF SameListeners
<1>8. /\ b \in NetType /\ Wired(b, transport, FALSE, "upgraded")
      /\ b.ws[w].readyState # "absent"
  BY <1>6, <1>7, CloseTransportNet DEF SessionInv, NetInv
<1> HIDE DEF b
<1>9. /\ n \in NetType
      /\ \A x \in Transports : ListenersOf(n, x) = IF x = w THEN "socket" ELSE ListenersOf(b, x)
      /\ \A v \in WS : n.ws[v].readyState = b.ws[v].readyState
  BY <1>2, <1>8, ListenNet
<1> HIDE DEF n
<1>10. \A v \in WS : n.ws[v].listeners = IF v = w THEN "socket" ELSE b.ws[v].listeners
  BY <1>9, WsListeners
<1>11. Wired(n, w, TRUE, "upgraded")
  BY <1>8, <1>9, <1>10 DEF Wired
<1>12. /\ upgradeState' = "upgraded" /\ transport' = w /\ Flush(n, w, writeBuffer)
       /\ writeBuffer \in Seq(Packet) /\ (readyState = "closing" => writeBuffer # <<>>)
  BY DEF Upgrade, n, b, freed, a, SessionInv, StateInv, GracefulClose
<1> QED BY <1>2, <1>9, <1>11, <1>12, FlushSession

\* A request opens a WebSocket: a candidate, or one that is closed at once.
LEMMA MaybeUpgradeSession ==
  ASSUME SessionInv, NEW w \in WS, MaybeUpgrade(w)
  PROVE  SessionInv'
<1> DEFINE n == [Net EXCEPT !.ws[w].readyState = "open", !.ws[w].socket = "connecting"]
<1>1. Net \in NetType /\ Net.ws[w].readyState = "absent" /\ Net.ws[w].listeners = "none"
  BY DEF MaybeUpgrade, Net, SessionInv, NetInv, Wired
<1>2. n \in NetType /\ SameListeners(Net, n) /\ n.ws[w].readyState = "open"
  BY <1>1, ConnectingNet
<1>3. CASE upgradeState # "not_upgraded"
  <2>1. Becomes(CloseOf(n, w)) /\ UNCHANGED <<session, timers>>
    BY <1>3 DEF MaybeUpgrade, session
  <2> HIDE DEF n
  <2>2. CloseOf(n, w) \in NetType /\ SameListeners(Net, CloseOf(n, w))
    BY <1>2, CloseOfNet, WsListeners DEF SameListeners
  <2> QED BY <2>1, <2>2, NetSession
<1>4. CASE upgradeState = "not_upgraded"
  <2> DEFINE m == [n EXCEPT !.ws[w].listeners = "candidate", !.ws[w].upgradeTimer = TRUE]
             r == [n.ws[w] EXCEPT !.listeners = "candidate", !.upgradeTimer = TRUE]
  <2>1. /\ upgradeState' = "upgrading" /\ Becomes(m)
        /\ UNCHANGED <<readyState, closeReason, transport, writeBuffer, drainClose, timers>>
    BY <1>4 DEF MaybeUpgrade
  <2> HIDE DEF n
  <2>2. n.ws[w] \in WsType
    BY <1>2, WsTyped
  <2>3. r \in WsType
    BY <2>2, WsUpdates
  <2>4. r.listeners = "candidate" /\ r.readyState = "open"
    BY <1>2, <2>2 DEF WsType
  <2>5. m = [n EXCEPT !.ws = [n.ws EXCEPT ![w] = r]]
    BY <1>2 DEF NetType
  <2> HIDE DEF m, r
  <2>6. /\ m \in NetType /\ m.polling = n.polling
        /\ \A v \in WS : m.ws[v] = IF v = w THEN r ELSE n.ws[v]
    BY <1>2, <2>3, <2>5, SetWsNet
  <2>7. \A t \in Transports :
          ListenersOf(m, t) = IF t = w THEN "candidate" ELSE ListenersOf(Net, t)
    BY <1>2, <2>4, <2>6, PollingAssumption DEF ListenersOf, Transports, SameListeners
  <2>8. /\ \A v \in WS \ {w} : /\ m.ws[v].listeners = Net.ws[v].listeners
                               /\ m.ws[v].readyState = "absent" => Net.ws[v].readyState = "absent"
        /\ m.ws[w].listeners = "candidate" /\ m.ws[w].readyState = "open"
    BY <1>2, <2>4, <2>6 DEF SameListeners
  <2>9. Wired(m, transport, readyState # "closed", "upgrading")
    BY <1>1, <1>4, <2>7, <2>8, WsListeners DEF Wired, SessionInv, NetInv
  <2>10. NetInv'
    BY <2>1, <2>6, <2>9, BecomesNet DEF NetInv, SessionInv
  <2>11. StateInv' /\ TimersInv'
    BY <2>1 DEF SessionInv, StateInv, TimersInv, GracefulClose, Heartbeat, timers
  <2> QED BY <2>10, <2>11 DEF SessionInv
<1> QED BY <1>3, <1>4
-----------------------------------------------------------------------------
(* The other handlers, one lemma each.                                     *)

LEMMA NetIsTyped ==
  ASSUME SessionInv
  PROVE  Net \in NetType /\ SameListeners(Net, Net)
BY DEF SessionInv, NetInv, SameListeners

\* A flush of the current transport.
LEMMA FlushCurrent ==
  ASSUME SessionInv, readyState # "closed", NEW n \in NetType, SameListeners(Net, n),
         NEW buf \in Seq(Packet), readyState = "closing" => buf # <<>>,
         Flush(n, transport, buf), UNCHANGED <<upgradeState, transport>>
  PROVE  SessionInv'
<1>1. /\ transport \in Transports /\ upgradeState \in {"not_upgraded", "upgrading", "upgraded"}
      /\ Wired(Net, transport, readyState # "closed", upgradeState)
  BY DEF SessionInv, NetInv
<1>2. (readyState # "closed") = TRUE
  OBVIOUS
<1>3. Wired(n, transport, TRUE, upgradeState)
  BY <1>1, <1>2, WiredSame
<1> QED BY <1>1, <1>3, FlushSession

LEMMA PollRequestSession ==
  ASSUME SessionInv, PollRequest
  PROVE  SessionInv'
<1> DEFINE n == [Net EXCEPT !.polling.pending = TRUE, !.polling.writable = TRUE]
<1>1. CASE polling.pending
  BY <1>1, NetIsTyped, OnCloseSession DEF PollRequest, CloseReasons
<1>2. CASE ~polling.pending
  <2>1. /\ Flush(n, transport, writeBuffer) /\ UNCHANGED <<upgradeState, transport>>
        /\ readyState # "closed"
    BY <1>2 DEF PollRequest
  <2>2. n \in NetType /\ SameListeners(Net, n)
    BY NetIsTyped DEF NetType, PollingType, SameListeners
  <2> HIDE DEF n
  <2>3. writeBuffer \in Seq(Packet) /\ (readyState = "closing" => writeBuffer # <<>>)
    BY DEF SessionInv, StateInv, GracefulClose
  <2> QED BY <2>1, <2>2, <2>3, FlushCurrent
<1> QED BY <1>1, <1>2

LEMMA DataRequestSession ==
  ASSUME IInv, NEW type, DataRequest(type)
  PROVE  SessionInv' /\ received' \in Nat
<1>1. CASE type = "close"
  <2> DEFINE n == DoClosePoll(Net, "noop")
  <2>1. n \in NetType /\ SameListeners(Net, n)
    BY NetIsTyped, DoClosePollNet DEF PacketTypes, IInv
  <2>2. UNCHANGED received /\ (\/ OnClose(n, "transport close")
                               \/ Becomes(n) /\ UNCHANGED <<session, timers>>)
    BY <1>1 DEF DataRequest
  <2> HIDE DEF n
  <2> QED BY <2>1, <2>2, OnCloseSession, NetSession DEF CloseReasons, IInv
<1>2. CASE OnClose(Net, "transport error") /\ UNCHANGED received
  BY <1>2, NetIsTyped, OnCloseSession DEF CloseReasons, IInv
<1>3. CASE OnPacket(type)
  BY <1>3, OnPacketSession DEF IInv
<1> QED BY <1>1, <1>2, <1>3 DEF DataRequest

LEMMA BlobEncodedSession ==
  ASSUME SessionInv, BlobEncoded
  PROVE  SessionInv'
<1> DEFINE m == [Net EXCEPT !.polling.encoding = <<>>]
           n == WritePoll(m, polling.encoding)
<1>1. m \in NetType /\ SameListeners(Net, m)
  <2>1. \A s \in Seq(Packet), n1 \in NetType :
          [n1 EXCEPT !.polling.encoding = s] \in NetType
          /\ SameListeners(n1, [n1 EXCEPT !.polling.encoding = s])
    BY DEF NetType, PollingType, SameListeners
  <2>2. <<>> \in Seq(Packet) /\ Net \in NetType
    BY NetIsTyped
  <2> QED BY <2>1, <2>2
<1>2. polling.encoding \in Seq(Packet)
  BY NetIsTyped DEF Net, NetType, PollingType
<1>3. Becomes(n) /\ UNCHANGED <<session, timers>>
  BY DEF BlobEncoded
<1> HIDE DEF m
<1>4. n \in NetType /\ SameListeners(Net, n)
  BY <1>1, <1>2, WritePollNet DEF SameListeners
<1> HIDE DEF n
<1> QED BY <1>3, <1>4, NetSession

LEMMA WsOpenSession ==
  ASSUME SessionInv, NEW w \in WS, WsOpen(w)
  PROVE  SessionInv'
<1> DEFINE n == [Net EXCEPT !.ws[w].socket = "open", !.ws[w].writable = TRUE]
<1>1. n \in NetType /\ SameListeners(Net, n)
  BY NetIsTyped, OpenedNet
<1>2. CASE ws[w].listeners = "socket"
  <2>1. ListenersOf(Net, w) = "socket" /\ w \in Transports
    BY <1>2, WsListeners DEF Net
  <2>2. w = transport /\ readyState # "closed"
    BY <2>1 DEF SessionInv, NetInv, Wired
  <2>3. Flush(n, transport, writeBuffer) /\ UNCHANGED <<upgradeState, transport>>
    BY <1>2, <2>2 DEF WsOpen
  <2> HIDE DEF n
  <2>4. writeBuffer \in Seq(Packet) /\ (readyState = "closing" => writeBuffer # <<>>)
    BY DEF SessionInv, StateInv, GracefulClose
  <2> QED BY <1>1, <2>2, <2>3, <2>4, FlushCurrent
<1>3. CASE ws[w].listeners # "socket"
  <2>1. Becomes(n) /\ UNCHANGED <<session, timers>>
    BY <1>3 DEF WsOpen
  <2> HIDE DEF n
  <2> QED BY <1>1, <2>1, NetSession
<1> QED BY <1>2, <1>3

\* A candidate that ends is unbound.
LEMMA WsClosedSession ==
  ASSUME SessionInv, NEW w \in WS, WsClosed(w)
  PROVE  SessionInv'
<1> DEFINE n == [Net EXCEPT !.ws[w].socket = "closed", !.ws[w].writable = FALSE,
                            !.ws[w].readyState = "closed"]
           c == ClearFast(n, w)
           m == Listen(c, w, "none")
<1>1. n \in NetType /\ SameListeners(Net, n) /\ w \in Transports
  BY NetIsTyped, EndedNet, WsListeners
<1>2. CASE ws[w].listeners = "socket"
  <2>1. OnClose(n, "transport close")
    BY <1>2 DEF WsClosed
  <2> HIDE DEF n
  <2> QED BY <1>1, <2>1, OnCloseSession DEF CloseReasons
<1>3. CASE ws[w].listeners = "candidate"
  <2>1. Becomes(m) /\ UNCHANGED <<session, timers>>
    BY <1>3 DEF WsClosed
  <2> HIDE DEF n
  <2>2. c \in NetType /\ SameListeners(Net, c)
    BY <1>1, ClearFastNet DEF SameListeners
  <2> HIDE DEF c
  <2>3. Wired(c, transport, readyState # "closed", upgradeState) /\ c.ws[w].listeners = "candidate"
    BY <1>3, <2>2, WiredSame DEF SessionInv, NetInv, SameListeners, Net
  <2>4. /\ m \in NetType
        /\ \A x \in Transports : ListenersOf(m, x) = IF x = w THEN "none" ELSE ListenersOf(c, x)
        /\ \A v \in WS : m.ws[v].readyState = c.ws[v].readyState
    BY <1>1, <2>2, ListenNet
  <2> HIDE DEF m
  <2>5. \A v \in WS : m.ws[v].listeners = IF v = w THEN "none" ELSE c.ws[v].listeners
    BY <2>4, WsListeners
  <2>6. Wired(m, transport, readyState # "closed", upgradeState)
    BY <2>3, <2>4, <2>5, WsListeners DEF Wired
  <2>7. NetInv'
    BY <2>1, <2>4, <2>6, BecomesNet DEF NetInv, SessionInv, session
  <2>8. StateInv' /\ TimersInv'
    BY <2>1 DEF SessionInv, StateInv, TimersInv, GracefulClose, Heartbeat, session, timers
  <2> QED BY <2>7, <2>8 DEF SessionInv
<1>4. CASE ws[w].listeners \notin {"socket", "candidate"}
  <2>1. Becomes(n) /\ UNCHANGED <<session, timers>>
    BY <1>4 DEF WsClosed
  <2> HIDE DEF n
  <2> QED BY <1>1, <2>1, NetSession
<1> QED BY <1>2, <1>3, <1>4

\* A candidate whose time is up, or that sends what it should not.
LEMMA TimedOutSession ==
  ASSUME SessionInv, NEW w \in WS, UNCHANGED <<session, timers>>,
         Becomes(CloseOf([Net EXCEPT !.ws[w].upgradeTimer = FALSE], w))
  PROVE  SessionInv'
<1> DEFINE m == [Net EXCEPT !.ws[w].upgradeTimer = FALSE]
<1>1. m \in NetType /\ SameListeners(Net, m) /\ w \in Transports
  BY NetIsTyped, UpgradeTimerNet, WsListeners
<1>2. Becomes(CloseOf(m, w))
  OBVIOUS
<1> HIDE DEF m
<1>3. CloseOf(m, w) \in NetType /\ SameListeners(Net, CloseOf(m, w))
  BY <1>1, CloseOfNet DEF SameListeners
<1> QED BY <1>2, <1>3, NetSession

LEMMA WsPacketSession ==
  ASSUME IInv, NEW w \in WS, NEW type, WsPacket(w, type)
  PROVE  SessionInv' /\ received' \in Nat
<1>1. CASE Becomes(DoCloseWs(Net, w)) /\ UNCHANGED <<session, timers, received>>
  BY <1>1, NetIsTyped, DoCloseWsNet, NetSession DEF IInv
<1>2. CASE OnClose(Net, "transport error") /\ UNCHANGED received
  BY <1>2, NetIsTyped, OnCloseSession DEF CloseReasons, IInv
<1>3. CASE OnPacket(type)
  BY <1>3, OnPacketSession DEF IInv
<1>4. CASE Probe(w) /\ UNCHANGED received
  BY <1>4, ProbeSession DEF IInv
<1>5. CASE /\ ws[w].listeners = "candidate" /\ readyState # "closed"
           /\ Upgrade(w) /\ UNCHANGED received
  BY <1>5, UpgradeSession DEF IInv
<1>6. CASE InvalidUpgrade(w) /\ UNCHANGED received
  BY <1>6, TimedOutSession DEF InvalidUpgrade, IInv
<1> QED BY <1>1, <1>2, <1>3, <1>4, <1>5, <1>6 DEF WsPacket

LEMMA PingSession ==
  ASSUME SessionInv, PingIntervalFires
  PROVE  SessionInv'
<1> DEFINE buf == Append(writeBuffer, Control("ping"))
           canFlush == readyState = "open" /\ Writable(Net, transport)
           n == IF canFlush THEN SendOn(Net, transport, buf) ELSE Net
<1>1. buf \in Seq(Packet) /\ transport \in Transports
  BY DEF Control, Packet, PacketTypes, SessionInv, StateInv, NetInv
<1>2. /\ writeBuffer' = IF canFlush THEN <<>> ELSE IF readyState = "open" THEN buf ELSE writeBuffer
      /\ Becomes(n) /\ ResetPingTimeout
      /\ UNCHANGED <<readyState, closeReason, upgradeState, transport, drainClose>>
  BY DEF PingIntervalFires
<1>3. n \in NetType /\ SameListeners(Net, n)
  BY <1>1, NetIsTyped, SendOnNet
<1> HIDE DEF n
<1>4. NetInv'
  BY <1>2, <1>3, BecomesNet, WiredSame DEF NetInv, SessionInv
<1>5. writeBuffer' \in Seq(Packet) /\ (readyState # "open" => writeBuffer' = writeBuffer)
  <2>1. <<>> \in Seq(Packet) /\ writeBuffer \in Seq(Packet)
    BY DEF SessionInv, StateInv
  <2>2. writeBuffer' \in {<<>>, buf, writeBuffer}
    BY <1>2
  <2>3. readyState # "open" => writeBuffer' = writeBuffer
    BY <1>2
  <2> QED BY <1>1, <2>1, <2>2, <2>3
<1>6. StateInv'
  BY <1>2, <1>5 DEF SessionInv, StateInv, GracefulClose
<1>7. TimersInv'
  <2>1. CASE /\ pingInterval /\ pingInterval' = FALSE /\ pingTimeout' = TRUE
             /\ UNCHANGED strayPings
    BY <2>1 DEF SessionInv, TimersInv, Heartbeat
  <2>2. CASE /\ strayPings > 0 /\ strayPings' = strayPings - 1 /\ pingTimeout' = TRUE
             /\ UNCHANGED pingInterval
    <3>1. strayPings' \in Nat
      BY <2>2 DEF SessionInv, TimersInv
    <3> QED BY <2>2, <3>1 DEF SessionInv, TimersInv, Heartbeat
  <2> QED BY <1>2, <2>1, <2>2 DEF ResetPingTimeout
<1> QED BY <1>4, <1>6, <1>7 DEF SessionInv

LEMMA PingTimeoutSession ==
  ASSUME SessionInv, PingTimeoutFires
  PROVE  SessionInv'
<1>1. CASE OnClose(Net, "ping timeout")
  BY <1>1, NetIsTyped, OnCloseSession DEF CloseReasons
<1>2. CASE /\ readyState = "closed" /\ pingTimeout' = FALSE
           /\ UNCHANGED <<session, net, pingInterval, strayPings>>
  <2>1. readyState' = "closed"
    BY <1>2 DEF session
  <2>2. TimersInv'
    BY <1>2, <2>1 DEF SessionInv, TimersInv, Heartbeat
  <2> QED BY <1>2, <2>2, TimersSession
<1> QED BY <1>1, <1>2 DEF PingTimeoutFires

LEMMA SendSession ==
  ASSUME IInv, NEW type \in {"message", "blob"}, Send(type)
  PROVE  SessionInv' /\ sent' \in Nat
<1> DEFINE p == [type |-> type, id |-> sent + 1]
<1>1. readyState = "open" /\ SendPacket(p) /\ sent' = sent + 1
  BY DEF Send
<1>2. p \in Packet
  BY DEF IInv, Packet, PacketTypes
<1> HIDE DEF p
<1>3. Append(writeBuffer, p) \in Seq(Packet)
  BY <1>2 DEF IInv, SessionInv, StateInv
<1>4. Flush(Net, transport, Append(writeBuffer, p)) /\ UNCHANGED <<upgradeState, transport>>
  BY <1>1 DEF SendPacket
<1>5. SessionInv'
  BY <1>1, <1>3, <1>4, NetIsTyped, FlushCurrent DEF IInv
<1> QED BY <1>1, <1>5 DEF IInv

LEMMA CloseSession ==
  ASSUME SessionInv, Close
  PROVE  SessionInv'
<1>1. CASE writeBuffer = <<>>
  BY <1>1, NetIsTyped, OnCloseSession DEF Close, CloseReasons
<1>2. CASE writeBuffer # <<>>
  <2>1. /\ readyState = "open" /\ readyState' = "closing" /\ drainClose' = TRUE
        /\ UNCHANGED <<closeReason, upgradeState, transport, writeBuffer, timers, net>>
    BY <1>2 DEF Close
  <2>2. (readyState # "closed") = TRUE /\ (readyState' # "closed") = TRUE
    BY <2>1
  <2>3. Net' = Net
    BY <2>1 DEF Net, net
  <2>4. NetInv'
    BY <2>1, <2>2, <2>3 DEF SessionInv, NetInv
  <2>5. StateInv' /\ TimersInv'
    BY <1>2, <2>1 DEF SessionInv, StateInv, TimersInv, GracefulClose, Heartbeat, timers
  <2> QED BY <2>4, <2>5 DEF SessionInv
<1> QED BY <1>1, <1>2

-----------------------------------------------------------------------------
LEMMA InvInit == Init => IInv
<1> SUFFICES ASSUME Init PROVE IInv
  OBVIOUS
<1>1. writeBuffer \in Seq(Packet)
  BY ControlPacket DEF Init, PacketTypes
<1>2. StateInv /\ TimersInv
  BY <1>1 DEF Init, StateInv, TimersInv, GracefulClose, Heartbeat
<1>3. polling \in PollingType
  BY DEF Init, PollingType
<1>4. Absent \in WsType /\ [Absent EXCEPT !.readyState = "open", !.socket = "connecting",
                                          !.listeners = "socket"] \in WsType
  BY DEF Absent, WsType
<1>5. Net \in NetType
  BY <1>3, <1>4 DEF Init, Net, NetType
<1>6. /\ \A w \in WS : /\ ws[w].listeners = IF w = transport THEN "socket" ELSE "none"
                       /\ ws[w].readyState = "absent" => w # transport
      /\ polling.listeners = IF transport = Polling THEN "socket" ELSE "none"
      /\ transport \in Transports
  BY DEF Init, Absent
<1>7. Wired(Net, transport, TRUE, "not_upgraded")
  BY <1>6, PollingAssumption DEF Wired, Net, ListenersOf, Transports
<1>8. NetInv
  BY <1>5, <1>6, <1>7 DEF NetInv, Init
<1> QED BY <1>2, <1>8 DEF IInv, SessionInv, Init

LEMMA InvNext == IInv /\ [Next]_vars => IInv'
<1> SUFFICES ASSUME IInv, [Next]_vars PROVE IInv'
  OBVIOUS
<1>1. CASE PollRequest
  BY <1>1, PollRequestSession DEF PollRequest, IInv
<1>2. ASSUME NEW type, DataRequest(type) PROVE IInv'
  BY <1>2, DataRequestSession DEF DataRequest, IInv
<1>3. CASE BlobEncoded
  BY <1>3, BlobEncodedSession DEF BlobEncoded, IInv
<1>4. ASSUME NEW w \in WS, MaybeUpgrade(w) PROVE IInv'
  BY <1>4, MaybeUpgradeSession DEF MaybeUpgrade, IInv
<1>5. ASSUME NEW w \in WS, WsOpen(w) PROVE IInv'
  BY <1>5, WsOpenSession DEF WsOpen, IInv
<1>6. ASSUME NEW w \in WS, WsClosed(w) PROVE IInv'
  BY <1>6, WsClosedSession DEF WsClosed, IInv
<1>7. ASSUME NEW w \in WS, UpgradeTimeout(w) PROVE IInv'
  BY <1>7, TimedOutSession DEF UpgradeTimeout, IInv
<1>8. ASSUME NEW w \in WS, FastUpgradeTick(w) PROVE IInv'
  BY <1>8, NetIsTyped, SendNoopNet, NetSession DEF FastUpgradeTick, IInv
<1>9. ASSUME NEW w \in WS, NEW type, WsPacket(w, type) PROVE IInv'
  BY <1>9, WsPacketSession DEF WsPacket, IInv
<1>10. CASE PingIntervalFires
  BY <1>10, PingSession DEF PingIntervalFires, IInv
<1>11. CASE PingTimeoutFires
  BY <1>11, PingTimeoutSession DEF PingTimeoutFires, IInv
<1>12. ASSUME NEW type \in {"message", "blob"}, Send(type) PROVE IInv'
  BY <1>12, SendSession DEF Send, IInv
<1>13. CASE Close
  BY <1>13, CloseSession DEF Close, IInv
<1>14. CASE UNCHANGED vars
  <2>1. SessionInv'
    BY <1>14, TimersSession DEF vars, timers, IInv, SessionInv, TimersInv, Heartbeat, session
  <2> QED BY <1>14, <2>1 DEF vars, IInv
<1> QED
  BY <1>1, <1>2, <1>3, <1>4, <1>5, <1>6, <1>7, <1>8, <1>9, <1>10, <1>11, <1>12, <1>13, <1>14
  DEF Next, Timers

LEMMA Invariance == Spec => []IInv
BY InvInit, InvNext, PTL DEF Spec

-----------------------------------------------------------------------------
(* What follows for every number of WebSockets, messages and timers.       *)

\* The variables keep their types.
THEOREM TypeCorrect == Spec => []TypeOK
<1>1. ASSUME IInv PROVE TypeOK
  <2>1. Net \in NetType
    BY <1>1, NetIsTyped DEF IInv
  <2>2. /\ polling \in PollingType /\ ws \in [WS -> WsType]
        /\ wire \in Seq([via : Transports, packets : Seq(Packet)])
    BY <2>1 DEF Net, NetType
  <2> QED BY <1>1, <2>2 DEF IInv, SessionInv, StateInv, TimersInv, NetInv, TypeOK
<1> QED BY <1>1, Invariance, PTL

\* The session listens to its current transport, and to no other, until it is
\* closed: an event of an old transport or of a refused candidate never
\* reaches it, one of the current transport always does.
THEOREM OneTransportDrives == Spec => []OneDriver
<1>1. ASSUME IInv PROVE OneDriver
  BY <1>1 DEF IInv, SessionInv, NetInv, Wired, OneDriver, Listeners, ListenersOf, Net
<1> QED BY <1>1, Invariance, PTL

\* However many upgrade requests race, one WebSocket is the candidate, and
\* there is none after the upgrade.
THEOREM OneUpgrade == Spec => []OneCandidate
<1>1. ASSUME IInv PROVE OneCandidate
  BY <1>1 DEF IInv, SessionInv, NetInv, Wired, OneCandidate, Net
<1> QED BY <1>1, Invariance, PTL

\* A session that is not closed has a heartbeat timer armed, whatever mix of
\* pongs, pings and lost timers happened; and close() leaves no packet behind.
THEOREM HeartbeatAndClose == Spec => [](Heartbeat /\ GracefulClose)
<1>1. ASSUME IInv PROVE Heartbeat /\ GracefulClose
  BY <1>1 DEF IInv, SessionInv, TimersInv, StateInv
<1> QED BY <1>1, Invariance, PTL

-----------------------------------------------------------------------------
(* No long-polling request is left with nobody to answer it.  PollHeld is  *)
(* not inductive: a transport that is writable has nothing to send, or     *)
(* close() would wait with a request in hand; and the transport of a       *)
(* session that is not closed is itself open, or its closing would not     *)
(* answer the request.  IInv says whose listeners polling has.             *)

\* The polling transport: what it may write to, or encodes for, is the request
\* it holds.
Holds(p) ==
  /\ p.pending <=> p.writable \/ p.encoding # <<>>
  /\ ~(p.writable /\ p.encoding # <<>>)

PollInv ==
  /\ Holds(polling)
  /\ polling.writable => transport = Polling /\ readyState = "open" /\ writeBuffer = <<>>
  /\ transport = Polling /\ readyState # "closed" => polling.readyState = "open"

-----------------------------------------------------------------------------
(* The transports.                                                         *)

\* A new value of one field of the polling transport.
LEMMA SetPolling ==
  ASSUME NEW n \in NetType, NEW r \in PollingType
  PROVE  [n EXCEPT !.polling = r] \in NetType /\ [n EXCEPT !.polling = r].polling = r
BY DEF NetType

LEMMA WritePollPolling ==
  ASSUME NEW n \in NetType, NEW pkts
  PROVE  LET p == WritePoll(n, pkts).polling
         IN  /\ p.writable = n.polling.writable /\ p.encoding = n.polling.encoding
             /\ p.readyState = n.polling.readyState /\ ~p.pending
<1>1. CASE n.polling.pending
  <2> DEFINE r == [n.polling EXCEPT !.pending = FALSE]
             e == Emitted(n.wire, Polling, pkts)
             m == [n EXCEPT !.polling = r]
  <2>1. WritePoll(n, pkts) = [m EXCEPT !.wire = e]
    BY <1>1 DEF WritePoll, NetType
  <2>2. WritePoll(n, pkts).polling = r
    <3> HIDE DEF r, e
    <3> QED BY <2>1 DEF NetType
  <2>3. r.writable = n.polling.writable /\ r.encoding = n.polling.encoding
        /\ r.readyState = n.polling.readyState
    BY PollingTyped DEF PollingType
  <2>4. ~r.pending
    BY PollingTyped DEF PollingType
  <2> HIDE DEF r
  <2> QED BY <2>2, <2>3, <2>4
<1>2. CASE ~n.polling.pending
  BY <1>2 DEF WritePoll
<1> QED BY <1>1, <1>2

\* A send leaves polling with nothing to write to; what it holds is encoding.
LEMMA SendPollPolling ==
  ASSUME NEW n \in NetType, NEW pkts \in Seq(Packet), Holds(n.polling), n.polling.writable
  PROVE  LET p == SendPoll(n, pkts).polling
         IN  Holds(p) /\ ~p.writable /\ p.readyState = n.polling.readyState
<1> DEFINE blob == Has(pkts, LAMBDA p : p.type = "blob")
<1>1. n.polling.pending /\ n.polling.encoding = <<>>
  BY DEF Holds
<1>2. CASE blob
  <2> DEFINE r == [n.polling EXCEPT !.writable = FALSE, !.encoding = pkts]
  <2>1. SendPoll(n, pkts) = [n EXCEPT !.polling = r]
    BY <1>2 DEF SendPoll, NetType
  <2>2. r.encoding = pkts /\ r.pending = n.polling.pending /\ r.readyState = n.polling.readyState
    BY PollingTyped DEF PollingType
  <2>3. ~r.writable
    BY PollingTyped DEF PollingType
  <2>4. r \in PollingType
    BY PollingTyped DEF PollingType
  <2>5. pkts # <<>>
    BY <1>2 DEF Has
  <2> HIDE DEF r
  <2>6. SendPoll(n, pkts).polling = r
    BY <2>1, <2>4, SetPolling
  <2> QED BY <1>1, <2>2, <2>3, <2>5, <2>6 DEF Holds
<1>3. CASE ~blob
  <2> DEFINE r == [n.polling EXCEPT !.writable = FALSE]
             m == [n EXCEPT !.polling = r]
  <2>1. SendPoll(n, pkts) = WritePoll(m, pkts)
    BY <1>3 DEF SendPoll, NetType
  <2>2. r.encoding = n.polling.encoding /\ r.readyState = n.polling.readyState /\ r \in PollingType
    BY PollingTyped DEF PollingType
  <2>3. ~r.writable
    BY PollingTyped DEF PollingType
  <2> HIDE DEF r
  <2>4. m \in NetType /\ m.polling = r
    BY <2>2, SetPolling
  <2> HIDE DEF m
  <2> QED BY <1>1, <2>1, <2>2, <2>3, <2>4, WritePollPolling DEF Holds
<1> QED BY <1>2, <1>3

LEMMA SendWsPolling ==
  ASSUME NEW n \in NetType, NEW w, NEW pkts
  PROVE  SendWs(n, w, pkts).polling = n.polling
BY DEF SendWs, NetType

LEMMA DoClosePollPolling ==
  ASSUME NEW n \in NetType, NEW type \in PacketTypes, Holds(n.polling)
  PROVE  LET p == DoClosePoll(n, type).polling
         IN  Holds(p) /\ ~p.writable
<1> DEFINE a == IF n.polling.writable THEN SendPoll(n, <<Control(type)>>) ELSE n
           r == [a.polling EXCEPT !.readyState = "closed"]
<1>1. a \in NetType /\ Holds(a.polling) /\ ~a.polling.writable
  <2>1. <<Control(type)>> \in Seq(Packet)
    BY ControlPacket
  <2>2. CASE n.polling.writable
    BY <2>1, <2>2, SendPollNet, SendPollPolling
  <2>3. CASE ~n.polling.writable
    BY <2>3
  <2> QED BY <2>2, <2>3
<1>2. DoClosePoll(n, type) = [a EXCEPT !.polling.readyState = "closed"]
  BY DEF DoClosePoll
<1> HIDE DEF a
<1>3. r \in PollingType /\ r.encoding = a.polling.encoding
  BY <1>1, PollingTyped DEF PollingType
<1>4. r.writable = a.polling.writable /\ r.pending = a.polling.pending
  BY <1>1, PollingTyped DEF PollingType
<1>5. DoClosePoll(n, type) = [a EXCEPT !.polling = r]
  BY <1>1, <1>2 DEF NetType
<1> HIDE DEF r
<1>6. DoClosePoll(n, type).polling = r
  BY <1>1, <1>3, <1>5, SetPolling
<1> QED BY <1>1, <1>3, <1>4, <1>6 DEF Holds

LEMMA DoCloseWsPolling ==
  ASSUME NEW n \in NetType, NEW w
  PROVE  DoCloseWs(n, w).polling = n.polling
BY DEF DoCloseWs, NetType

LEMMA CloseOfWsPolling ==
  ASSUME NEW n \in NetType, NEW w \in WS
  PROVE  CloseOf(n, w).polling = n.polling
<1> DEFINE m == [n EXCEPT !.ws[w].readyState = "closing"]
<1>1. w # Polling
  BY PollingAssumption
<1>2. m.polling = n.polling
  BY DEF NetType
<1>3. DoCloseWs(m, w).polling = m.polling
  BY DEF DoCloseWs, NetType
<1> HIDE DEF m
<1> QED BY <1>1, <1>2, <1>3 DEF CloseOf, m

LEMMA ListenPolling ==
  ASSUME NEW n \in NetType, NEW t \in Transports, NEW who \in {"none", "socket"}
  PROVE  LET p == Listen(n, t, who).polling
         IN  /\ p.writable = n.polling.writable /\ p.pending = n.polling.pending
             /\ p.encoding = n.polling.encoding /\ p.readyState = n.polling.readyState
<1>1. CASE t = Polling
  <2> DEFINE r == [n.polling EXCEPT !.listeners = who]
  <2>1. Listen(n, t, who) = [n EXCEPT !.polling = r]
    BY <1>1 DEF Listen, NetType
  <2>2. r \in PollingType /\ r.encoding = n.polling.encoding /\ r.readyState = n.polling.readyState
    BY PollingTyped DEF PollingType
  <2>3. r.writable = n.polling.writable /\ r.pending = n.polling.pending
    BY PollingTyped DEF PollingType
  <2> HIDE DEF r
  <2> QED BY <2>1, <2>2, <2>3, SetPolling
<1>2. CASE t # Polling
  BY <1>2 DEF Listen, NetType
<1> QED BY <1>1, <1>2

\* Closing the transport of a session answers what polling can write to.
LEMMA CloseTransportPolling ==
  ASSUME NEW n \in NetType, NEW t \in Transports, Holds(n.polling),
         n.polling.writable => t = Polling /\ n.polling.readyState = "open"
  PROVE  LET p == CloseTransport(n, t).polling
         IN  Holds(p) /\ ~p.writable
<1> DEFINE m == Listen(n, t, "none")
<1>1. /\ m \in NetType /\ Holds(m.polling)
      /\ m.polling.writable => t = Polling /\ m.polling.readyState = "open"
  BY ListenNet, ListenPolling DEF Holds
<1>2. CloseTransport(n, t) = CloseOf(m, t)
  BY DEF CloseTransport
<1> HIDE DEF m
<1>3. CASE t = Polling /\ m.polling.readyState = "open"
  <2>1. CloseOf(m, t) = DoClosePoll(m, "close") /\ "close" \in PacketTypes
    BY <1>3 DEF CloseOf, PacketTypes
  <2> QED BY <1>1, <1>2, <2>1, DoClosePollPolling
<1>4. CASE t = Polling /\ m.polling.readyState # "open"
  BY <1>1, <1>2, <1>4 DEF CloseOf
<1>5. CASE t # Polling
  <2>1. t \in WS
    BY <1>5 DEF Transports
  <2> QED BY <1>1, <1>2, <1>5, <2>1, CloseOfWsPolling
<1> QED BY <1>3, <1>4, <1>5

-----------------------------------------------------------------------------
(* The session.                                                            *)

\* A step that leaves the polling transport and the session as they were.
LEMMA PollingStays ==
  ASSUME PollInv, NEW n \in NetType, Becomes(n), n.polling = polling, UNCHANGED session
  PROVE  PollInv'
<1>1. polling' = polling
  BY DEF Becomes
<1> QED BY <1>1 DEF PollInv, session

LEMMA OnClosePoll ==
  ASSUME SessionInv, NEW n \in NetType, NEW reason, Holds(n.polling), OnClose(n, reason),
         n.polling.writable =>
           transport = Polling /\ readyState # "closed" /\ n.polling.readyState = "open"
  PROVE  PollInv'
<1>1. CASE readyState = "closed"
  <2>1. polling' = n.polling /\ ~n.polling.writable /\ readyState' = "closed"
    BY <1>1 DEF OnClose, Becomes, session
  <2> QED BY <2>1 DEF PollInv
<1>2. CASE readyState # "closed"
  <2> DEFINE m == CloseTransport(n, transport)
  <2>1. readyState' = "closed" /\ polling' = m.polling
    BY <1>2 DEF OnClose, Becomes
  <2>2. Holds(m.polling) /\ ~m.polling.writable
    BY CloseTransportPolling DEF SessionInv, NetInv
  <2> HIDE DEF m
  <2> QED BY <2>1, <2>2 DEF PollInv
<1> QED BY <1>1, <1>2

LEMMA NetPolling ==
  ASSUME IInv, PollInv
  PROVE  /\ Net \in NetType /\ Net.polling = polling /\ Holds(Net.polling)
         /\ polling \in PollingType /\ SessionInv /\ transport \in Transports
         /\ Net.polling.writable =>
              transport = Polling /\ readyState # "closed" /\ Net.polling.readyState = "open"
BY NetIsTyped, PollingTyped DEF IInv, SessionInv, NetInv, PollInv, Net

LEMMA OnCloseNet ==
  ASSUME IInv, PollInv, NEW reason, OnClose(Net, reason)
  PROVE  PollInv'
BY NetPolling, OnClosePoll

\* What a transport that can be written to has sent.
LEMMA SendOnPolling ==
  ASSUME NEW n \in NetType, NEW t \in Transports, NEW buf \in Seq(Packet),
         Holds(n.polling), n.polling.writable => t = Polling, Writable(n, t)
  PROVE  LET s == SendOn(n, t, buf)
         IN  /\ s \in NetType /\ Holds(s.polling) /\ ~s.polling.writable
             /\ s.polling.readyState = n.polling.readyState
<1>1. SendOn(n, t, buf) \in NetType
  BY SendOnNet
<1>2. CASE t = Polling
  BY <1>1, <1>2, SendPollPolling DEF SendOn, Writable
<1>3. CASE t # Polling
  BY <1>1, <1>3, SendWsPolling DEF SendOn
<1> QED BY <1>2, <1>3

\* A flush of buf to t, which drives the session from now on.
LEMMA FlushPoll ==
  ASSUME IInv, readyState # "closed", NEW n \in NetType, NEW t \in Transports, Holds(n.polling),
         n.polling.writable => t = Polling, t = Polling => n.polling.readyState = "open",
         NEW buf \in Seq(Packet), readyState = "closing" => buf # <<>>,
         Flush(n, t, buf), transport' = t
  PROVE  PollInv'
<1> DEFINE canFlush == readyState # "closed" /\ Writable(n, t) /\ buf # <<>>
           s == SendOn(n, t, buf)
<1>0. /\ readyState \in {"open", "closing"}
      /\ readyState = "closing" => drainClose
  BY DEF IInv, SessionInv, StateInv, GracefulClose
<1>1. canFlush => /\ s \in NetType /\ Holds(s.polling) /\ ~s.polling.writable
                  /\ s.polling.readyState = n.polling.readyState
  BY SendOnPolling
<1>2. ~canFlush /\ n.polling.writable => buf = <<>> /\ t = Polling /\ readyState = "open"
  BY <1>0 DEF Writable
<1>3. CASE /\ ~canFlush /\ writeBuffer' = buf /\ Becomes(n)
           /\ UNCHANGED <<readyState, closeReason, drainClose, timers>>
  <2>1. polling' = n.polling /\ readyState' = readyState /\ writeBuffer' = buf
    BY <1>3 DEF Becomes
  <2> HIDE DEF canFlush
  <2> QED BY <1>2, <1>3, <2>1 DEF PollInv
<1> HIDE DEF canFlush
<1>4. CASE /\ canFlush /\ ~drainClose /\ writeBuffer' = <<>> /\ Becomes(SendOn(n, t, buf))
           /\ UNCHANGED <<readyState, closeReason, drainClose, timers>>
  <2>1. polling' = s.polling /\ readyState' = readyState
    BY <1>4 DEF Becomes
  <2> HIDE DEF s
  <2> QED BY <1>1, <1>4, <2>1 DEF PollInv
<1>5. CASE /\ canFlush /\ drainClose /\ writeBuffer' = <<>> /\ drainClose' = FALSE
           /\ readyState' = "closed" /\ closeReason' = "forced close"
           /\ pingInterval' = FALSE /\ pingTimeout' = FALSE /\ UNCHANGED strayPings
           /\ Becomes(CloseTransport(SendOn(n, t, buf), t))
  <2> DEFINE m == CloseTransport(s, t)
  <2>1. polling' = m.polling /\ readyState' = "closed"
    BY <1>5 DEF Becomes
  <2> HIDE DEF s
  <2>2. Holds(m.polling) /\ ~m.polling.writable
    BY <1>1, <1>5, CloseTransportPolling
  <2> HIDE DEF m
  <2> QED BY <2>1, <2>2 DEF PollInv
<1> QED BY <1>3, <1>4, <1>5 DEF Flush, canFlush

LEMMA OnPacketPoll ==
  ASSUME IInv, PollInv, NEW type, OnPacket(type)
  PROVE  PollInv'
<1>1. CASE UNCHANGED <<session, net>>
  BY <1>1 DEF PollInv, session, net
<1>2. CASE OnClose(Net, "parse error")
  BY <1>2, OnCloseNet
<1> QED BY <1>1, <1>2 DEF OnPacket

-----------------------------------------------------------------------------
(* The handlers.                                                           *)

LEMMA PollRequestPoll ==
  ASSUME IInv, PollInv, PollRequest
  PROVE  PollInv'
<1> DEFINE a == [polling EXCEPT !.pending = TRUE]
           r == [a EXCEPT !.writable = TRUE]
           n == [Net EXCEPT !.polling = r]
<1>1. readyState # "closed" /\ transport = Polling
  BY DEF PollRequest
<1>2. CASE polling.pending
  BY <1>2, OnCloseNet DEF PollRequest
<1>3. CASE ~polling.pending
  <2>1. /\ Flush([Net EXCEPT !.polling.pending = TRUE, !.polling.writable = TRUE], Polling, writeBuffer)
        /\ UNCHANGED transport
    BY <1>3 DEF PollRequest
  <2>2. [Net EXCEPT !.polling.pending = TRUE, !.polling.writable = TRUE] = n
    BY DEF Net
  <2>3. polling \in PollingType /\ Net \in NetType
    BY NetPolling
  <2>4. a \in PollingType /\ a.encoding = polling.encoding /\ a.readyState = polling.readyState
    BY <2>3 DEF PollingType
  <2>5. a.pending
    BY <2>3 DEF PollingType
  <2> HIDE DEF a
  <2>6. r \in PollingType /\ r.encoding = polling.encoding /\ r.readyState = polling.readyState
    BY <2>4 DEF PollingType
  <2>7. r.pending /\ r.writable
    BY <2>4, <2>5 DEF PollingType
  <2> HIDE DEF r
  <2>8. n \in NetType /\ n.polling = r
    BY <2>3, <2>6, SetPolling
  <2> HIDE DEF n
  <2>9. polling.encoding = <<>>
    BY <1>3 DEF PollInv, Holds
  <2>10. Holds(n.polling) /\ n.polling.readyState = "open"
    BY <1>1, <2>6, <2>7, <2>8, <2>9 DEF PollInv, Holds
  <2>11. /\ writeBuffer \in Seq(Packet) /\ (readyState = "closing" => writeBuffer # <<>>)
         /\ Polling \in Transports
    BY DEF IInv, SessionInv, StateInv, GracefulClose, Transports
  <2>12. Flush(n, Polling, writeBuffer) /\ transport' = Polling
    BY <1>1, <2>1, <2>2
  <2> QED BY <1>1, <2>8, <2>10, <2>11, <2>12, FlushPoll
<1> QED BY <1>2, <1>3

LEMMA DataRequestPoll ==
  ASSUME IInv, PollInv, NEW type, DataRequest(type)
  PROVE  PollInv'
<1>1. CASE type = "close"
  <2> DEFINE n == DoClosePoll(Net, "noop")
  <2>1. n \in NetType /\ Holds(n.polling) /\ ~n.polling.writable
    BY NetPolling, DoClosePollNet, DoClosePollPolling DEF PacketTypes
  <2>2. IF polling.listeners = "socket" THEN OnClose(n, "transport close")
        ELSE Becomes(n) /\ UNCHANGED <<session, timers>>
    BY <1>1 DEF DataRequest
  <2> HIDE DEF n
  <2>3. CASE polling.listeners = "socket"
    BY <2>1, <2>2, <2>3, OnClosePoll DEF IInv
  <2>4. CASE polling.listeners # "socket"
    <3>1. ~(transport = Polling /\ readyState # "closed")
      <4>1. ListenersOf(Net, Polling) # "socket" /\ Polling \in Transports
        BY <2>4 DEF ListenersOf, Net, Transports
      <4> QED BY <4>1 DEF IInv, SessionInv, NetInv, Wired
    <3>2. polling' = n.polling /\ UNCHANGED <<transport, readyState>>
      BY <2>2, <2>4 DEF Becomes, session
    <3> QED BY <2>1, <3>1, <3>2 DEF PollInv
  <2> QED BY <2>3, <2>4
<1>2. CASE OnClose(Net, "transport error")
  BY <1>2, OnCloseNet
<1>3. CASE OnPacket(type)
  BY <1>3, OnPacketPoll
<1> QED BY <1>1, <1>2, <1>3 DEF DataRequest

\* The encoder writes to the request that it was started for.
LEMMA BlobEncodedPoll ==
  ASSUME IInv, PollInv, BlobEncoded
  PROVE  PollInv'
<1> DEFINE r == [polling EXCEPT !.encoding = <<>>]
           m == [Net EXCEPT !.polling = r]
           n == WritePoll(m, polling.encoding)
<1>1. polling \in PollingType /\ Net \in NetType /\ ~polling.writable
  BY NetPolling DEF BlobEncoded, PollInv, Holds
<1>2. [Net EXCEPT !.polling.encoding = <<>>] = m
  BY DEF Net
<1>3. Becomes(n) /\ UNCHANGED session
  BY <1>2 DEF BlobEncoded
<1>4. r \in PollingType /\ r.encoding = <<>> /\ r.readyState = polling.readyState
  <2>1. <<>> \in Seq(Packet)
    OBVIOUS
  <2> QED BY <1>1, <2>1 DEF PollingType
<1>5. r.writable = polling.writable
  BY <1>1 DEF PollingType
<1> HIDE DEF r
<1>6. m \in NetType /\ m.polling = r
  BY <1>1, <1>4, SetPolling
<1> HIDE DEF m
<1>7. /\ n.polling.writable = r.writable /\ n.polling.encoding = <<>>
      /\ n.polling.readyState = polling.readyState /\ ~n.polling.pending
  BY <1>4, <1>6, WritePollPolling
<1> HIDE DEF n
<1>8. polling' = n.polling /\ UNCHANGED <<transport, readyState, writeBuffer>>
  BY <1>3 DEF Becomes, session
<1> QED BY <1>1, <1>5, <1>7, <1>8 DEF PollInv, Holds

\* A request opens a WebSocket, which has nothing to do with polling yet.
LEMMA MaybeUpgradePoll ==
  ASSUME IInv, PollInv, NEW w \in WS, MaybeUpgrade(w)
  PROVE  PollInv'
<1> DEFINE n == [Net EXCEPT !.ws[w].readyState = "open", !.ws[w].socket = "connecting"]
           m == [n EXCEPT !.ws[w].listeners = "candidate", !.ws[w].upgradeTimer = TRUE]
<1>1. /\ Becomes(CloseOf(n, w)) \/ Becomes(m)
      /\ UNCHANGED <<readyState, transport, writeBuffer>>
  BY DEF MaybeUpgrade
<1>2. n \in NetType /\ Net \in NetType /\ Net.polling = polling
  BY NetPolling, ConnectingNet
<1>3. n.polling = polling
  BY <1>2 DEF NetType
<1> HIDE DEF n
<1>4. CloseOf(n, w).polling = polling /\ m.polling = polling
  BY <1>2, <1>3, CloseOfWsPolling DEF NetType
<1> HIDE DEF m
<1>5. polling' = polling
  BY <1>1, <1>4 DEF Becomes
<1> QED BY <1>1, <1>5 DEF PollInv

LEMMA WsOpenPoll ==
  ASSUME IInv, PollInv, NEW w \in WS, WsOpen(w)
  PROVE  PollInv'
<1> DEFINE n == [Net EXCEPT !.ws[w].socket = "open", !.ws[w].writable = TRUE]
<1>1. Net \in NetType /\ n \in NetType
  BY NetPolling, OpenedNet
<1>2. n.polling = Net.polling
  BY <1>1 DEF NetType
<1>3. CASE ws[w].listeners = "socket"
  <2>1. ListenersOf(Net, w) = "socket" /\ w \in Transports /\ w # Polling
    BY <1>3, WsListeners, PollingAssumption DEF Net
  <2>2. w = transport /\ readyState # "closed"
    BY <2>1 DEF IInv, SessionInv, NetInv, Wired
  <2>3. Flush(n, w, writeBuffer) /\ transport' = w
    BY <1>3, <2>2 DEF WsOpen
  <2> HIDE DEF n
  <2>4. writeBuffer \in Seq(Packet) /\ (readyState = "closing" => writeBuffer # <<>>)
    BY DEF IInv, SessionInv, StateInv, GracefulClose
  <2>5. Holds(n.polling) /\ (n.polling.writable => w = Polling)
    BY <1>2, <2>1, <2>2, NetPolling
  <2> QED BY <1>1, <2>1, <2>2, <2>3, <2>4, <2>5, FlushPoll
<1>4. CASE ws[w].listeners # "socket"
  <2>1. Becomes(n) /\ UNCHANGED session
    BY <1>4 DEF WsOpen
  <2> HIDE DEF n
  <2> QED BY <1>1, <1>2, <2>1, NetPolling, PollingStays
<1> QED BY <1>3, <1>4

LEMMA WsClosedPoll ==
  ASSUME IInv, PollInv, NEW w \in WS, WsClosed(w)
  PROVE  PollInv'
<1> DEFINE n == [Net EXCEPT !.ws[w].socket = "closed", !.ws[w].writable = FALSE,
                            !.ws[w].readyState = "closed"]
           c == ClearFast(n, w)
           m == Listen(c, w, "none")
<1>1. Net \in NetType /\ n \in NetType /\ w \in Transports /\ w # Polling
  BY NetPolling, EndedNet, WsListeners, PollingAssumption
<1>2. n.polling = Net.polling /\ Net.polling = polling
  BY <1>1, NetPolling DEF NetType
<1>3. CASE ws[w].listeners = "socket"
  <2>1. OnClose(n, "transport close")
    BY <1>3 DEF WsClosed
  <2> HIDE DEF n
  <2> QED BY <1>1, <1>2, <2>1, NetPolling, OnClosePoll
<1>4. CASE ws[w].listeners = "candidate"
  <2>1. Becomes(m) /\ UNCHANGED session
    BY <1>4 DEF WsClosed
  <2> HIDE DEF n
  <2>2. c \in NetType
    BY <1>1, ClearFastNet
  <2>3. c.polling = n.polling
    BY <1>1 DEF ClearFast, NetType
  <2> HIDE DEF c
  <2>4. m \in NetType
    BY <1>1, <2>2, ListenNet
  <2>5. m.polling = c.polling
    BY <1>1, <2>2 DEF Listen, NetType
  <2> HIDE DEF m
  <2> QED BY <1>2, <2>1, <2>3, <2>4, <2>5, PollingStays
<1>5. CASE ws[w].listeners \notin {"socket", "candidate"}
  <2>1. Becomes(n) /\ UNCHANGED session
    BY <1>5 DEF WsClosed
  <2> HIDE DEF n
  <2> QED BY <1>1, <1>2, <2>1, PollingStays
<1> QED BY <1>3, <1>4, <1>5

\* A candidate whose time is up, or that sends what it should not.
LEMMA TimedOutPoll ==
  ASSUME IInv, PollInv, NEW w \in WS, UNCHANGED session,
         Becomes(CloseOf([Net EXCEPT !.ws[w].upgradeTimer = FALSE], w))
  PROVE  PollInv'
<1> DEFINE m == [Net EXCEPT !.ws[w].upgradeTimer = FALSE]
<1>1. m \in NetType /\ Net \in NetType /\ Net.polling = polling
  BY NetPolling, UpgradeTimerNet
<1>2. m.polling = polling
  BY <1>1 DEF NetType
<1>3. Becomes(CloseOf(m, w))
  OBVIOUS
<1> HIDE DEF m
<1>4. CloseOf(m, w) \in NetType /\ CloseOf(m, w).polling = polling
  BY <1>1, <1>2, CloseOfNet, CloseOfWsPolling, WsListeners
<1> QED BY <1>3, <1>4, PollingStays

\* A noop answers the poll, if there is one to answer.
LEMMA NoopPoll ==
  ASSUME IInv, PollInv, NEW n, n.polling = SendNoop(Net).polling, Becomes(n), UNCHANGED session
  PROVE  PollInv'
<1>1. polling' = n.polling /\ UNCHANGED <<transport, readyState, writeBuffer>>
  BY DEF Becomes, session
<1>2. CASE transport = Polling /\ Net.polling.writable
  <2>1. <<Control("noop")>> \in Seq(Packet)
    BY ControlPacket DEF PacketTypes
  <2> DEFINE p == SendPoll(Net, <<Control("noop")>>).polling
  <2>2. Holds(p) /\ ~p.writable /\ p.readyState = Net.polling.readyState
    BY <1>2, <2>1, NetPolling, SendPollPolling
  <2>3. polling' = p
    BY <1>1, <1>2 DEF SendNoop
  <2> HIDE DEF p
  <2> QED BY <1>1, <2>2, <2>3, NetPolling DEF PollInv
<1>3. CASE ~(transport = Polling /\ Net.polling.writable)
  <2>1. polling' = polling
    BY <1>1, <1>3, NetPolling DEF SendNoop
  <2> QED BY <1>1, <2>1 DEF PollInv
<1> QED BY <1>2, <1>3

LEMMA ProbePoll ==
  ASSUME IInv, PollInv, NEW w \in WS, Probe(w)
  PROVE  PollInv'
<1> DEFINE m == SendNoop(Net)
           n == [m EXCEPT !.ws[w].fastTimers = @ + 1]
<1>1. Becomes(n) /\ UNCHANGED session
  BY DEF Probe
<1>2. m \in NetType
  BY NetPolling, SendNoopNet
<1> HIDE DEF m
<1>3. n.polling = m.polling
  BY <1>2 DEF NetType
<1> HIDE DEF n
<1> QED BY <1>1, <1>3, NoopPoll DEF m

\* The upgrade answers the poll and leaves polling without a session to drive.
LEMMA UpgradePoll ==
  ASSUME IInv, PollInv, NEW w \in WS, readyState # "closed", Upgrade(w)
  PROVE  PollInv'
<1> DEFINE a == Listen(Net, w, "none")
           c == ClearFast(a, w)
           freed == [c EXCEPT !.ws[w].upgradeTimer = FALSE]
           b == CloseTransport(freed, transport)
           n == Listen(b, w, "socket")
<1>1. /\ transport' = w /\ Flush(n, w, writeBuffer)
      /\ writeBuffer \in Seq(Packet) /\ (readyState = "closing" => writeBuffer # <<>>)
  BY DEF Upgrade, IInv, SessionInv, StateInv, GracefulClose
<1>2. w \in Transports /\ w # Polling /\ Net \in NetType /\ transport \in Transports
  BY WsListeners, PollingAssumption, NetPolling
<1>3. a \in NetType /\ a.polling = Net.polling
  <2>1. a \in NetType
    BY <1>2, ListenNet
  <2>2. a.polling = Net.polling
    BY <1>2 DEF Listen, NetType
  <2> QED BY <2>1, <2>2
<1> HIDE DEF a
<1>4. c \in NetType /\ c.polling = a.polling
  <2>1. c \in NetType
    BY <1>3, ClearFastNet
  <2>2. c.polling = a.polling
    BY <1>3 DEF ClearFast, NetType
  <2> QED BY <2>1, <2>2
<1> HIDE DEF c
<1>5. freed \in NetType /\ freed.polling = c.polling
  <2>1. freed \in NetType
    BY <1>4, UpgradeTimerNet
  <2>2. freed.polling = c.polling
    BY <1>4 DEF NetType
  <2> QED BY <2>1, <2>2
<1> HIDE DEF freed
<1>6. b \in NetType
  <2>1. Listen(freed, transport, "none") \in NetType
    BY <1>2, <1>5, ListenNet
  <2> QED BY <1>2, <2>1, CloseOfNet DEF CloseTransport
<1>7. Holds(b.polling) /\ ~b.polling.writable
  BY <1>2, <1>3, <1>4, <1>5, NetPolling, CloseTransportPolling
<1> HIDE DEF b
<1>8. n \in NetType /\ n.polling = b.polling
  <2>1. n \in NetType
    BY <1>2, <1>6, ListenNet
  <2>2. n.polling = b.polling
    BY <1>2, <1>6 DEF Listen, NetType
  <2> QED BY <2>1, <2>2
<1> HIDE DEF n
<1>9. Flush(n, w, writeBuffer)
  BY <1>1 DEF n, b, freed, c, a
<1> QED BY <1>1, <1>2, <1>7, <1>8, <1>9, FlushPoll

LEMMA WsPacketPoll ==
  ASSUME IInv, PollInv, NEW w \in WS, NEW type, WsPacket(w, type)
  PROVE  PollInv'
<1>1. CASE Becomes(DoCloseWs(Net, w)) /\ UNCHANGED session
  BY <1>1, NetPolling, DoCloseWsNet, DoCloseWsPolling, PollingStays
<1>2. CASE OnClose(Net, "transport error")
  BY <1>2, OnCloseNet
<1>3. CASE OnPacket(type)
  BY <1>3, OnPacketPoll
<1>4. CASE Probe(w)
  BY <1>4, ProbePoll
<1>5. CASE readyState # "closed" /\ Upgrade(w)
  BY <1>5, UpgradePoll
<1>6. CASE InvalidUpgrade(w)
  BY <1>6, TimedOutPoll DEF InvalidUpgrade
<1> QED BY <1>1, <1>2, <1>3, <1>4, <1>5, <1>6 DEF WsPacket

LEMMA FastUpgradePoll ==
  ASSUME IInv, PollInv, NEW w \in WS, FastUpgradeTick(w)
  PROVE  PollInv'
BY NoopPoll DEF FastUpgradeTick

\* A ping goes out at once, or waits for a transport that cannot be written to.
LEMMA PingPoll ==
  ASSUME IInv, PollInv, PingIntervalFires
  PROVE  PollInv'
<1> DEFINE buf == Append(writeBuffer, Control("ping"))
           canFlush == readyState = "open" /\ Writable(Net, transport)
           n == SendOn(Net, transport, buf)
<1>1. /\ writeBuffer' = IF canFlush THEN <<>> ELSE IF readyState = "open" THEN buf ELSE writeBuffer
      /\ Becomes(IF canFlush THEN n ELSE Net)
      /\ UNCHANGED <<readyState, transport>>
  BY DEF PingIntervalFires
<1>2. buf \in Seq(Packet) /\ transport \in Transports
  BY DEF Control, Packet, PacketTypes, IInv, SessionInv, StateInv, NetInv
<1>3. CASE canFlush
  <2>1. Holds(n.polling) /\ ~n.polling.writable /\ n.polling.readyState = Net.polling.readyState
    BY <1>2, <1>3, NetPolling, SendOnPolling
  <2>2. polling' = n.polling
    BY <1>1, <1>3 DEF Becomes
  <2> HIDE DEF n
  <2> QED BY <1>1, <2>1, <2>2, NetPolling DEF PollInv
<1>4. CASE ~canFlush
  <2>1. polling' = polling
    BY <1>1, <1>4, NetPolling DEF Becomes
  <2>2. ~polling.writable
    BY <1>4, NetPolling DEF PollInv, Writable
  <2> HIDE DEF canFlush
  <2> QED BY <1>1, <2>1, <2>2 DEF PollInv
<1> QED BY <1>3, <1>4

LEMMA PingTimeoutPoll ==
  ASSUME IInv, PollInv, PingTimeoutFires
  PROVE  PollInv'
<1>1. CASE OnClose(Net, "ping timeout")
  BY <1>1, OnCloseNet
<1>2. CASE UNCHANGED <<session, net>>
  BY <1>2 DEF PollInv, session, net
<1> QED BY <1>1, <1>2 DEF PingTimeoutFires

LEMMA SendPolls ==
  ASSUME IInv, PollInv, NEW type \in {"message", "blob"}, Send(type)
  PROVE  PollInv'
<1> DEFINE p == [type |-> type, id |-> sent + 1]
<1>1. readyState = "open" /\ SendPacket(p)
  BY DEF Send
<1>2. p \in Packet
  BY DEF IInv, Packet, PacketTypes
<1> HIDE DEF p
<1>3. Append(writeBuffer, p) \in Seq(Packet)
  BY <1>2 DEF IInv, SessionInv, StateInv
<1>4. Flush(Net, transport, Append(writeBuffer, p)) /\ transport' = transport
  BY <1>1 DEF SendPacket
<1>5. transport = Polling => Net.polling.readyState = "open"
  BY <1>1, NetPolling DEF PollInv
<1> QED BY <1>1, <1>3, <1>4, <1>5, NetPolling, FlushPoll

LEMMA ClosePoll ==
  ASSUME IInv, PollInv, Close
  PROVE  PollInv'
<1>1. CASE writeBuffer = <<>>
  BY <1>1, OnCloseNet DEF Close
<1>2. CASE writeBuffer # <<>>
  <2>1. /\ readyState = "open" /\ readyState' = "closing"
        /\ UNCHANGED <<transport, writeBuffer, net>>
    BY <1>2 DEF Close
  <2> QED BY <1>2, <2>1 DEF PollInv, net
<1> QED BY <1>1, <1>2

-----------------------------------------------------------------------------
LEMMA PollInit == Init => PollInv
BY PollingAssumption DEF Init, PollInv, Holds

LEMMA PollNext == IInv /\ PollInv /\ [Next]_vars => PollInv'
<1> SUFFICES ASSUME IInv, PollInv, [Next]_vars PROVE PollInv'
  OBVIOUS
<1>1. CASE PollRequest
  BY <1>1, PollRequestPoll
<1>2. ASSUME NEW type, DataRequest(type) PROVE PollInv'
  BY <1>2, DataRequestPoll
<1>3. CASE BlobEncoded
  BY <1>3, BlobEncodedPoll
<1>4. ASSUME NEW w \in WS, MaybeUpgrade(w) PROVE PollInv'
  BY <1>4, MaybeUpgradePoll
<1>5. ASSUME NEW w \in WS, WsOpen(w) PROVE PollInv'
  BY <1>5, WsOpenPoll
<1>6. ASSUME NEW w \in WS, WsClosed(w) PROVE PollInv'
  BY <1>6, WsClosedPoll
<1>7. ASSUME NEW w \in WS, UpgradeTimeout(w) PROVE PollInv'
  BY <1>7, TimedOutPoll DEF UpgradeTimeout
<1>8. ASSUME NEW w \in WS, FastUpgradeTick(w) PROVE PollInv'
  BY <1>8, FastUpgradePoll
<1>9. ASSUME NEW w \in WS, NEW type, WsPacket(w, type) PROVE PollInv'
  BY <1>9, WsPacketPoll
<1>10. CASE PingIntervalFires
  BY <1>10, PingPoll
<1>11. CASE PingTimeoutFires
  BY <1>11, PingTimeoutPoll
<1>12. ASSUME NEW type \in {"message", "blob"}, Send(type) PROVE PollInv'
  BY <1>12, SendPolls
<1>13. CASE Close
  BY <1>13, ClosePoll
<1>14. CASE UNCHANGED vars
  BY <1>14 DEF PollInv, vars, session, net
<1> QED
  BY <1>1, <1>2, <1>3, <1>4, <1>5, <1>6, <1>7, <1>8, <1>9, <1>10, <1>11, <1>12, <1>13, <1>14
  DEF Next, Timers

\* A long-polling request that is held has its answer under way: an encoder is
\* at work on it, or the open session that polling drives will write to it.  It
\* outlives no upgrade, close, error or second request, in whatever order they
\* come; and nothing is flushed to a polling transport that holds none.
THEOREM RequestsHaveAnAnswerer == Spec => []PollHeld
<1>1. PollInv => PollHeld
  BY DEF PollInv, Holds, PollHeld
<1>2. Spec => []PollInv
  BY PollInit, PollNext, Invariance, PTL DEF Spec
<1> QED BY <1>1, <1>2, PTL
=============================================================================
