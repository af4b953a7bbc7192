---------------------------- MODULE SocketIOProofs ----------------------------
(***************************************************************************)
(* NamespaceOnce, ToldInOrder, PatientIsHeld and ConnectionsEnd hold for   *)
(* any number of namespaces and of CONNECT attempts.                       *)
(*                                                                         *)
(* PatientIsHeld is not inductive: a second socket of a namespace would    *)
(* take the place of the first in Client.sockets.  It rests on JoinsAlone, *)
(* a patient client joins a namespace once at a time, and on Listening,    *)
(* the listeners of its connection stay until that closes.  ToldInOrder    *)
(* and ConnectionsEnd rest on SocketOK, of each socket alone.              *)
(***************************************************************************)
EXTENDS SocketIO, SequenceTheorems, TLAPS

PacketKinds == {"connect", "event", "disconnect"}

SocketType ==
  [nsp : Nsps \union {NoNsp}, stage : {"unused", "middleware", "over"}, connected : BOOLEAN,
   pre : Nat, emits : Nat, told : Seq(PacketKinds),
   connections : Nat, disconnections : Nat, cut : BOOLEAN]

TypeOK ==
  /\ patient \in BOOLEAN /\ readyState \in {"open", "closing", "closed"}
  /\ buffered \in BOOLEAN /\ drainClose \in BOOLEAN /\ bound \in BOOLEAN
  /\ registered \in BOOLEAN /\ connectTimer \in BOOLEAN
  /\ \E D \in SUBSET Nsps : clientSockets \in [D -> Ids]
  /\ nsps \in SUBSET Nsps /\ created \in [Nsps -> Nat] /\ checking \in [Nsps -> Nat]
  /\ sock \in [Ids -> SocketType]

\* What a socket knows of itself: it is told of its connection first and of
\* its end last, and its events "connection" and "disconnect" come in pairs.
SocketOK(s) ==
  /\ s.stage # "over" => ~s.connected /\ s.told = <<>> /\ s.connections = 0
  /\ s.stage = "middleware" => s.nsp \in Nsps
  /\ s.connected => s.told # <<>> /\ \A k \in DOMAIN s.told : s.told[k] # "disconnect"
  /\ s.connections = s.disconnections + (IF s.connected THEN 1 ELSE 0)
  /\ \A k \in DOMAIN s.told :
       /\ s.told[k] = "connect" <=> k = 1
       /\ s.told[k] = "disconnect" => s.cut \/ k = Len(s.told)

SocketsOK == \A i \in Ids : SocketOK(sock[i])

\* The listeners of conn are there until it closes; only a client that sends
\* what the decoder refuses is given up by an open connection.
Listening ==
  /\ readyState = "closed" => ~bound
  /\ patient => /\ readyState = "open" => bound
                /\ ~bound => DOMAIN clientSockets = {}

Joining(i, n) == sock[i].stage = "middleware" /\ sock[i].nsp = n

\* A patient client joins a namespace once at a time, and not again.
JoinsAlone ==
  patient => \A n \in Nsps :
    /\ checking[n] <= 1
    /\ checking[n] = 1 => \A i \in Ids : ~Joining(i, n)
    /\ \A i, j \in Ids : Joining(i, n) /\ Joining(j, n) => i = j
    /\ Pending(n) => n \notin DOMAIN clientSockets

IInv ==
  TypeOK /\ SocketsOK /\ Listening /\ JoinsAlone /\ PatientIsHeld /\ NamespaceOnce

-----------------------------------------------------------------------------
(* What becomes of one socket.                                             *)

\* A socket that did not begin anything: it only talked, or ended.
Continues(x, s) ==
  x.stage = s.stage /\ x.nsp = s.nsp /\ (x.connected => s.connected)

LEMMA TalkedOK ==
  ASSUME NEW s \in SocketType, SocketOK(s), s.connected,
         NEW t \in Seq(PacketKinds), NEW x \in SocketType,
         x.told = s.told \o t, x.stage = s.stage, x.nsp = s.nsp, x.connections = s.connections,
         x.connections = x.disconnections + (IF x.connected THEN 1 ELSE 0),
         \A k \in 1..Len(t) : /\ t[k] # "connect" /\ (x.connected => t[k] # "disconnect")
                              /\ t[k] = "disconnect" => x.cut \/ k = Len(t)
  PROVE  SocketOK(x)
<1> DEFINE u == s.told
<1>1. u \in Seq(PacketKinds) /\ Len(u) \in Nat /\ Len(t) \in Nat /\ DOMAIN u = 1..Len(u)
  BY LenProperties DEF SocketType
<1>2. /\ x.told \in Seq(PacketKinds) /\ Len(x.told) = Len(u) + Len(t)
      /\ DOMAIN x.told = 1..(Len(u) + Len(t))
      /\ \A k \in 1..(Len(u) + Len(t)) : x.told[k] = IF k <= Len(u) THEN u[k] ELSE t[k - Len(u)]
  BY <1>1, ConcatProperties, LenProperties
<1>3. u # <<>> /\ Len(u) > 0 /\ \A k \in 1..Len(u) : u[k] # "disconnect" /\ (u[k] = "connect" <=> k = 1)
  BY <1>1, EmptySeq DEF SocketOK
<1> HIDE DEF u
<1>4. x.told # <<>>
  BY <1>1, <1>2, <1>3, EmptySeq
<1>5. \A k \in 1..(Len(u) + Len(t)) :
        /\ x.told[k] = "connect" <=> k = 1
        /\ x.told[k] = "disconnect" => x.cut \/ k = Len(x.told)
        /\ x.connected => x.told[k] # "disconnect"
  <2> TAKE k \in 1..(Len(u) + Len(t))
  <2>1. CASE k <= Len(u)
    <3>1. /\ x.told[k] = u[k] /\ u[k] # "disconnect" /\ (u[k] = "connect" <=> k = 1)
      BY <1>1, <1>2, <1>3, <2>1
    <3> QED BY <3>1
  <2>2. CASE ~(k <= Len(u))
    <3>1. k - Len(u) \in 1..Len(t) /\ x.told[k] = t[k - Len(u)] /\ k # 1
          /\ (k - Len(u) = Len(t) => k = Len(x.told))
      BY <1>1, <1>2, <1>3, <2>2
    <3>2. /\ t[k - Len(u)] # "connect" /\ (x.connected => t[k - Len(u)] # "disconnect")
          /\ t[k - Len(u)] = "disconnect" => x.cut \/ k - Len(u) = Len(t)
      BY <3>1
    <3>3. x.told[k] # "connect" /\ (x.connected => x.told[k] # "disconnect")
      BY <3>1, <3>2
    <3>4. x.told[k] = "disconnect" => x.cut \/ k = Len(x.told)
      BY <3>1, <3>2
    <3>5. x.told[k] = "connect" <=> k = 1
      BY <3>1, <3>3
    <3>6. x.connected => x.told[k] # "disconnect"
      BY <3>3
    <3> QED BY ONLY <3>4, <3>5, <3>6
  <2> QED BY ONLY <2>1, <2>2
<1>6. s.stage = "over"
  BY DEF SocketOK
<1> QED BY <1>2, <1>4, <1>5, <1>6 DEF SocketOK

\* The fields of a socket that ends, by itself or cut by a listener.
LEMMA EndedFields ==
  ASSUME NEW s \in SocketType
  PROVE  LET x == [s EXCEPT !.connected = FALSE, !.disconnections = @ + 1]
             y == [s EXCEPT !.connected = FALSE, !.disconnections = @ + 1, !.cut = TRUE]
         IN  /\ y.cut
             /\ \A z \in {x, y} :
                  /\ z \in SocketType /\ z.stage = s.stage /\ z.nsp = s.nsp /\ ~z.connected
                  /\ z.told = s.told /\ z.connections = s.connections
                  /\ z.disconnections = s.disconnections + 1
<1> DEFINE c == [s EXCEPT !.connected = FALSE]
           d == [c EXCEPT !.disconnections = s.disconnections + 1]
<1>1. c \in SocketType /\ c.disconnections = s.disconnections /\ ~c.connected
      /\ c.stage = s.stage /\ c.nsp = s.nsp /\ c.told = s.told /\ c.connections = s.connections
  BY DEF SocketType
<1> HIDE DEF c
<1>2. d \in SocketType /\ d.disconnections = s.disconnections + 1 /\ ~d.connected
      /\ d.stage = s.stage /\ d.nsp = s.nsp /\ d.told = s.told /\ d.connections = s.connections
  BY <1>1 DEF SocketType
<1> QED BY <1>1, <1>2 DEF SocketType, c

LEMMA ClosedOK ==
  ASSUME NEW s \in SocketType, SocketOK(s)
  PROVE  /\ Closed(s) \in SocketType /\ SocketOK(Closed(s)) /\ Continues(Closed(s), s)
         /\ ~Closed(s).connected
<1>1. CASE ~s.connected
  BY <1>1 DEF Closed, Continues
<1>2. CASE s.connected
  <2> DEFINE x == [s EXCEPT !.connected = FALSE, !.disconnections = @ + 1]
  <2>1. /\ x \in SocketType /\ x.stage = s.stage /\ x.nsp = s.nsp /\ ~x.connected
        /\ x.told = s.told /\ x.connections = s.connections /\ x.cut = s.cut
        /\ x.disconnections = s.disconnections + 1
    <3>1. x.cut = s.cut
      BY DEF SocketType
    <3> QED BY <3>1, EndedFields
  <2>2. Closed(s) = x
    BY <1>2 DEF Closed
  <2> HIDE DEF x
  <2>3. s.connections \in Nat /\ s.disconnections \in Nat
    BY DEF SocketType
  <2> QED BY <1>2, <2>1, <2>2, <2>3 DEF SocketOK, Continues
<1> QED BY <1>1, <1>2

\* Socket.disconnect: the packet goes last.
LEMMA DisconnectOK ==
  ASSUME TypeOK, NEW s \in SocketType, SocketOK(s), s.connected
  PROVE  LET x == Closed(Tell(s, "disconnect"))
         IN  x \in SocketType /\ SocketOK(x) /\ Continues(x, s) /\ ~x.connected
<1> DEFINE y == [s EXCEPT !.told = Append(@, "disconnect")]
           x == [y EXCEPT !.connected = FALSE, !.disconnections = @ + 1]
<1>1. CASE readyState # "open"
  BY <1>1, ClosedOK DEF Tell
<1>2. CASE readyState = "open"
  <2>1. s.told \in Seq(PacketKinds) /\ "disconnect" \in PacketKinds
    BY DEF SocketType, PacketKinds
  <2>2. /\ Append(s.told, "disconnect") \in Seq(PacketKinds)
        /\ Append(s.told, "disconnect") = s.told \o <<"disconnect">>
    BY <2>1, AppendProperties, AppendIsConcat
  <2>3. y \in SocketType /\ y.connected /\ Tell(s, "disconnect") = y
    BY <1>2, <2>2 DEF SocketType, Tell
  <2>4. Closed(y) = x
    BY <2>3 DEF Closed
  <2>5. /\ x \in SocketType /\ x.stage = s.stage /\ x.nsp = s.nsp /\ ~x.connected
        /\ x.told = s.told \o <<"disconnect">> /\ x.connections = s.connections
        /\ x.disconnections = s.disconnections + 1
    <3>1. /\ y.stage = s.stage /\ y.nsp = s.nsp /\ y.told = s.told \o <<"disconnect">>
          /\ y.connections = s.connections /\ y.disconnections = s.disconnections
      BY <2>2 DEF SocketType
    <3> HIDE DEF y
    <3> QED BY <2>3, <3>1, EndedFields
  <2> HIDE DEF x, y
  <2>6. s.connections \in Nat /\ s.disconnections \in Nat /\ s.connections = s.disconnections + 1
    BY DEF SocketType, SocketOK
  <2>7. <<"disconnect">> \in Seq(PacketKinds) /\ Len(<<"disconnect">>) = 1
    BY DEF PacketKinds
  <2>8. SocketOK(x)
    <3> DEFINE u == <<"disconnect">>
    <3>1. \A k \in 1..Len(u) : u[k] = "disconnect" /\ k = Len(u)
      BY <2>7
    <3>2. x.connections = x.disconnections + (IF x.connected THEN 1 ELSE 0)
      BY <2>5, <2>6
    <3> HIDE DEF u
    <3> QED BY <2>5, <2>7, <3>1, <3>2, TalkedOK DEF u
  <2> QED BY <2>3, <2>4, <2>5, <2>8 DEF Continues
<1> QED BY <1>1, <1>2

LEMMA EventsSeq ==
  ASSUME NEW k \in Nat
  PROVE  /\ EventList(k) \in Seq(PacketKinds) /\ Len(EventList(k)) = k
         /\ \A j \in 1..k : EventList(k)[j] = "event"
<1>1. EventList(k) \in [1..k -> PacketKinds]
  BY DEF EventList, PacketKinds
<1> QED BY <1>1, SeqDef, LenProperties DEF EventList

\* The events of a connected socket, all of them written or cut in two.
LEMMA WithEventsOK ==
  ASSUME TypeOK, NEW s \in SocketType, SocketOK(s), s.connected, NEW k \in Nat,
         NEW x \in WithEvents(s, k)
  PROVE  x \in SocketType /\ SocketOK(x) /\ Continues(x, s)
<1>1. s.told \in Seq(PacketKinds) /\ s.connections \in Nat /\ s.disconnections \in Nat
      /\ s.connections = s.disconnections + 1
  BY DEF SocketType, SocketOK
<1>2. ASSUME NEW t \in Seq(PacketKinds)
      PROVE  \/ Written(s, t) = s
             \/ Written(s, t) = [s EXCEPT !.told = s.told \o t]
  BY DEF Written
<1>3. CASE x = Written(s, EventList(k))
  <2>1. CASE x = s
    BY <2>1 DEF Continues
  <2>2. CASE x = [s EXCEPT !.told = s.told \o EventList(k)]
    <3>1. s.told \o EventList(k) \in Seq(PacketKinds)
      BY <1>1, EventsSeq, ConcatProperties
    <3>2. /\ x \in SocketType /\ x.stage = s.stage /\ x.nsp = s.nsp /\ x.connected = s.connected
          /\ x.told = s.told \o EventList(k) /\ x.connections = s.connections
          /\ x.disconnections = s.disconnections
      BY <2>2, <3>1 DEF SocketType
    <3>3. SocketOK(x)
      BY <1>1, <3>2, EventsSeq, TalkedOK
    <3> QED BY <3>2, <3>3 DEF Continues
  <2> QED BY <1>2, <1>3, <2>1, <2>2, EventsSeq
<1>4. ASSUME NEW c \in 1..k,
             x = [Written(s, EventList(c - 1) \o <<"disconnect">> \o EventList(k - c + 1))
                    EXCEPT !.connected = FALSE, !.disconnections = @ + 1, !.cut = TRUE]
      PROVE  x \in SocketType /\ SocketOK(x) /\ Continues(x, s)
  <2> DEFINE t == EventList(c - 1) \o <<"disconnect">> \o EventList(k - c + 1)
             w == Written(s, t)
  <2>1. /\ t \in Seq(PacketKinds) /\ \A j \in 1..Len(t) : t[j] # "connect"
    <3>1. c - 1 \in Nat /\ k - c + 1 \in Nat
      OBVIOUS
    <3>2. <<"disconnect">> \in Seq(PacketKinds) /\ Len(<<"disconnect">>) = 1
      BY DEF PacketKinds
    <3> DEFINE a == EventList(c - 1)
               b == a \o <<"disconnect">>
               e == EventList(k - c + 1)
    <3>3. /\ a \in Seq(PacketKinds) /\ e \in Seq(PacketKinds) /\ Len(a) \in Nat /\ Len(e) \in Nat
          /\ \A j \in 1..Len(a) : a[j] # "connect"
          /\ \A j \in 1..Len(e) : e[j] # "connect"
      BY <3>1, EventsSeq
    <3> HIDE DEF a, e
    <3>4. /\ b \in Seq(PacketKinds) /\ Len(b) = Len(a) + 1
          /\ \A j \in 1..(Len(a) + 1) : b[j] = IF j <= Len(a) THEN a[j] ELSE <<"disconnect">>[j - Len(a)]
      BY <3>2, <3>3, ConcatProperties
    <3> HIDE DEF b
    <3>5. \A j \in 1..Len(b) : b[j] # "connect"
      <4> TAKE j \in 1..Len(b)
      <4>1. CASE j <= Len(a)
        BY <3>3, <3>4, <4>1
      <4>2. CASE j > Len(a)
        <5>1. j - Len(a) = 1
          BY <3>3, <3>4, <4>2
        <5> QED BY <3>3, <3>4, <4>2, <5>1
      <4> QED BY <3>3, <3>4, <4>1, <4>2
    <3>6. /\ b \o e \in Seq(PacketKinds) /\ Len(b \o e) = Len(b) + Len(e)
          /\ \A j \in 1..(Len(b) + Len(e)) : (b \o e)[j] = IF j <= Len(b) THEN b[j] ELSE e[j - Len(b)]
      BY <3>3, <3>4, ConcatProperties
    <3>7. \A j \in 1..Len(b \o e) : (b \o e)[j] # "connect"
      <4> TAKE j \in 1..Len(b \o e)
      <4>1. CASE j <= Len(b)
        BY <3>3, <3>4, <3>5, <3>6, <4>1
      <4>2. CASE j > Len(b)
        <5>1. j - Len(b) \in 1..Len(e) /\ (b \o e)[j] = e[j - Len(b)]
          BY <3>3, <3>4, <3>6, <4>2
        <5> QED BY <3>3, <5>1
      <4> QED BY <3>3, <3>4, <4>1, <4>2
    <3> QED BY <3>6, <3>7 DEF a, b, e
  <2>2. \E u \in Seq(PacketKinds) :
          /\ \A j \in 1..Len(u) : u[j] # "connect"
          /\ w = [s EXCEPT !.told = s.told \o u] /\ s.told \o u \in Seq(PacketKinds)
    <3>1. CASE w = s
      <4>1. s.told \o <<>> = s.told /\ <<>> \in Seq(PacketKinds) /\ Len(<<>>) = 0
        BY <1>1, ConcatEmptySeq, EmptySeq
      <4>2. s = [s EXCEPT !.told = s.told]
        BY DEF SocketType
      <4>3. \A j \in 1..Len(<<>>) : <<>>[j] # "connect"
        BY <4>1
      <4> WITNESS <<>> \in Seq(PacketKinds)
      <4> QED BY <1>1, <3>1, <4>1, <4>2, <4>3
    <3>2. CASE w = [s EXCEPT !.told = s.told \o t]
      <4>1. s.told \o t \in Seq(PacketKinds)
        BY <1>1, <2>1, ConcatProperties
      <4> QED BY <2>1, <3>2, <4>1
    <3> QED BY <1>2, <2>1, <3>1, <3>2
  <2> HIDE DEF t, w
  <2>3. PICK u \in Seq(PacketKinds) :
          /\ \A j \in 1..Len(u) : u[j] # "connect"
          /\ w = [s EXCEPT !.told = s.told \o u] /\ s.told \o u \in Seq(PacketKinds)
    BY <2>2
  <2>4. x = [w EXCEPT !.connected = FALSE, !.disconnections = @ + 1, !.cut = TRUE]
    BY <1>4 DEF w, t
  <2>5. /\ w \in SocketType /\ w.stage = s.stage /\ w.nsp = s.nsp /\ w.told = s.told \o u
        /\ w.connections = s.connections /\ w.disconnections = s.disconnections
    BY <2>3 DEF SocketType
  <2>6. /\ x \in SocketType /\ x.stage = s.stage /\ x.nsp = s.nsp /\ ~x.connected /\ x.cut
        /\ x.told = s.told \o u /\ x.connections = s.connections
        /\ x.disconnections = s.disconnections + 1
    BY <2>4, <2>5, EndedFields
  <2>7. x.connections = x.disconnections + (IF x.connected THEN 1 ELSE 0)
    BY <1>1, <2>6
  <2>8. \A j \in 1..Len(u) : /\ u[j] # "connect" /\ (x.connected => u[j] # "disconnect")
                             /\ u[j] = "disconnect" => x.cut \/ j = Len(u)
    BY <2>3, <2>6
  <2>9. SocketOK(x)
    BY <2>3, <2>6, <2>7, <2>8, TalkedOK
  <2> QED BY <2>6, <2>9 DEF Continues
<1> QED BY <1>3, <1>4 DEF WithEvents

-----------------------------------------------------------------------------
(* What becomes of the client.                                             *)

SocketsContinue ==
  /\ sock' \in [Ids -> SocketType]
  /\ \A i \in Ids : SocketOK(sock'[i]) /\ Continues(sock'[i], sock[i])

LEMMA OneContinues ==
  ASSUME IInv, NEW i \in Ids, NEW x \in SocketType, SocketOK(x), Continues(x, sock[i]),
         sock' = [sock EXCEPT ![i] = x]
  PROVE  SocketsContinue
BY DEF SocketsContinue, IInv, TypeOK, SocketsOK, Continues

LEMMA JoinsStayAlone ==
  ASSUME IInv, SocketsContinue, UNCHANGED <<patient, checking>>,
         DOMAIN clientSockets' \subseteq DOMAIN clientSockets
  PROVE  JoinsAlone'
<1>1. \A i \in Ids : sock'[i].stage = sock[i].stage /\ sock'[i].nsp = sock[i].nsp
  BY DEF SocketsContinue, Continues
<1>2. \A n \in Nsps : /\ Pending(n)' <=> Pending(n)
                      /\ \A i \in Ids : Joining(i, n)' <=> Joining(i, n)
  BY <1>1 DEF Pending, Joining
<1>3. JoinsAlone
  BY DEF IInv
<1> SUFFICES ASSUME patient, NEW n \in Nsps
             PROVE  /\ checking[n] <= 1
                    /\ checking[n] = 1 => \A i \in Ids : ~Joining(i, n)'
                    /\ \A i, j \in Ids : Joining(i, n)' /\ Joining(j, n)' => i = j
                    /\ Pending(n)' => n \notin DOMAIN clientSockets'
  BY DEF JoinsAlone
<1> QED BY <1>2, <1>3 DEF JoinsAlone

\* The sockets talk or end; the client keeps its map.
LEMMA SocketsStep ==
  ASSUME IInv, SocketsContinue, UNCHANGED <<patient, server, bound, clientSockets>>,
         readyState' = readyState \/ (readyState = "open" /\ readyState' = "closing"),
         buffered' \in BOOLEAN, drainClose' \in BOOLEAN, registered' \in BOOLEAN,
         connectTimer' \in BOOLEAN
  PROVE  IInv'
<1>1. TypeOK'
  BY DEF IInv, TypeOK, SocketsContinue, server
<1>2. SocketsOK'
  BY DEF SocketsContinue, SocketsOK
<1>3. Listening'
  BY DEF IInv, Listening, TypeOK
<1>4. JoinsAlone'
  BY JoinsStayAlone DEF server
<1>5. PatientIsHeld'
  <2> SUFFICES ASSUME patient, NEW i \in Ids, sock'[i].connected
               PROVE  /\ readyState' # "closed" /\ bound
                      /\ sock'[i].nsp \in DOMAIN clientSockets /\ clientSockets[sock'[i].nsp] = i
    BY DEF PatientIsHeld, ConnectedIsHeld
  <2>1. sock[i].connected /\ sock'[i].nsp = sock[i].nsp
    BY DEF SocketsContinue, Continues
  <2> QED BY <2>1 DEF IInv, PatientIsHeld, ConnectedIsHeld
<1>6. NamespaceOnce'
  BY DEF IInv, NamespaceOnce, server
<1> QED BY <1>1, <1>2, <1>3, <1>4, <1>5, <1>6 DEF IInv

\* The client lets go of its sockets, and none stays connected if it is patient.
LEMMA EmptiedStep ==
  ASSUME IInv, SocketsContinue, UNCHANGED <<patient, server>>,
         clientSockets' = [n \in {} |-> 0],
         patient => \A i \in Ids : ~sock'[i].connected,
         \/ UNCHANGED <<readyState, bound>>
         \/ /\ readyState' \in {"open", "closing", "closed"} /\ ~bound' /\ bound' \in BOOLEAN
            /\ readyState' = "open" => ~patient,
         buffered' \in BOOLEAN, drainClose' \in BOOLEAN, registered' \in BOOLEAN,
         connectTimer' \in BOOLEAN
  PROVE  IInv'
<1>1. clientSockets' \in [{} -> Ids] /\ DOMAIN clientSockets' = {}
  OBVIOUS
<1>2. TypeOK'
  <2>1. \E D \in SUBSET Nsps : clientSockets' \in [D -> Ids]
    BY <1>1
  <2>2. readyState' \in {"open", "closing", "closed"} /\ bound' \in BOOLEAN
    BY DEF IInv, TypeOK
  <2> QED BY <2>1, <2>2 DEF IInv, TypeOK, SocketsContinue, server
<1>3. SocketsOK'
  BY DEF SocketsContinue, SocketsOK
<1>4. Listening'
  BY <1>1 DEF IInv, Listening, TypeOK
<1>5. JoinsAlone'
  BY <1>1, JoinsStayAlone DEF server
<1>6. PatientIsHeld'
  BY DEF PatientIsHeld, ConnectedIsHeld
<1>7. NamespaceOnce'
  BY DEF IInv, NamespaceOnce, server
<1> QED BY <1>2, <1>3, <1>4, <1>5, <1>6, <1>7 DEF IInv

\* Client.onclose, with the sockets told what they are told first.
LEMMA OnCloseStep ==
  ASSUME IInv, NEW told \in [Ids -> SocketType],
         \A i \in Ids : SocketOK(told[i]) /\ Continues(told[i], sock[i]),
         OnClose(told), UNCHANGED <<patient, server>>,
         readyState' \in {"open", "closing", "closed"}, readyState' = "open" => ~patient,
         buffered' \in BOOLEAN, registered' \in BOOLEAN
  PROVE  IInv'
<1>1. \A i \in Ids : sock'[i] = IF i \in Held THEN Closed(told[i]) ELSE told[i]
  BY DEF OnClose
<1>2. \A i \in Ids : /\ sock'[i] \in SocketType /\ SocketOK(sock'[i])
                     /\ Continues(sock'[i], sock[i])
                     /\ i \in Held => ~sock'[i].connected
  <2> TAKE i \in Ids
  <2>1. CASE i \in Held
    BY <1>1, <2>1, ClosedOK DEF Continues
  <2>2. CASE i \notin Held
    BY <1>1, <2>2
  <2> QED BY <2>1, <2>2
<1>3. SocketsContinue
  <2>1. sock' = [i \in Ids |-> sock'[i]]
    BY DEF OnClose
  <2>2. sock' \in [Ids -> SocketType]
    BY <1>2, <2>1
  <2> QED BY <1>2, <2>2 DEF SocketsContinue
<1>4. ASSUME patient, NEW i \in Ids PROVE ~sock'[i].connected
  <2> SUFFICES ASSUME sock'[i].connected PROVE FALSE
    OBVIOUS
  <2>1. sock[i].connected
    BY <1>2 DEF Continues
  <2>2. i \in Held
    BY <1>4, <2>1 DEF IInv, PatientIsHeld, ConnectedIsHeld, Held
  <2> QED BY <1>2, <2>2
<1>5. /\ clientSockets' = [n \in {} |-> 0] /\ ~bound' /\ bound' \in BOOLEAN
      /\ drainClose' \in BOOLEAN /\ connectTimer' \in BOOLEAN
  BY DEF OnClose
<1> QED BY <1>3, <1>4, <1>5, EmptiedStep

\* conn.onClose.
LEMMA ConnClosesStep ==
  ASSUME IInv, ConnCloses, buffered' \in BOOLEAN, UNCHANGED <<patient, server>>
  PROVE  IInv'
<1>1. readyState' = "closed" /\ registered' \in BOOLEAN
  BY DEF ConnCloses, IInv, TypeOK
<1>2. CASE bound
  <2>1. OnClose(sock)
    BY <1>2 DEF ConnCloses
  <2>2. sock \in [Ids -> SocketType] /\ \A i \in Ids : SocketOK(sock[i]) /\ Continues(sock[i], sock[i])
    BY DEF IInv, TypeOK, SocketsOK, Continues
  <2> QED BY <1>1, <2>1, <2>2, OnCloseStep
<1>3. CASE ~bound
  <2>1. UNCHANGED <<bound, drainClose, connectTimer, clientSockets, sock>>
    BY <1>3 DEF ConnCloses
  <2>2. TypeOK'
    BY <1>1, <2>1 DEF IInv, TypeOK, server
  <2>3. Listening' /\ SocketsOK'
    BY <1>1, <1>3, <2>1 DEF IInv, Listening, SocketsOK
  <2>4. SocketsContinue
    BY <2>1 DEF IInv, SocketsContinue, TypeOK, SocketsOK, Continues
  <2>5. JoinsAlone'
    BY <2>1, <2>4, JoinsStayAlone DEF server
  <2>6. PatientIsHeld'
    BY <1>3, <2>1 DEF IInv, PatientIsHeld, ConnectedIsHeld
  <2>7. NamespaceOnce'
    BY DEF IInv, NamespaceOnce, server
  <2> QED BY <2>2, <2>3, <2>5, <2>6, <2>7 DEF IInv
<1> QED BY <1>2, <1>3

\* Client.close: what follows depends on the connection being open.
LEMMA CloseStep ==
  ASSUME IInv, NEW waits \in BOOLEAN, Close(sock, waits), UNCHANGED <<patient, server>>
  PROVE  IInv'
<1>1. sock \in [Ids -> SocketType] /\ \A i \in Ids : SocketOK(sock[i]) /\ Continues(sock[i], sock[i])
  BY DEF IInv, TypeOK, SocketsOK, Continues
<1>2. CASE readyState = "open"
  <2>1. /\ readyState' \in {"closing", "closed"} /\ buffered' \in BOOLEAN /\ OnClose(sock)
        /\ registered' \in BOOLEAN
    BY <1>2 DEF Close, IInv, TypeOK
  <2> QED BY <1>1, <2>1, OnCloseStep
<1>3. CASE readyState # "open"
  <2>1. /\ UNCHANGED <<readyState, registered, buffered, drainClose, bound, connectTimer>>
        /\ UNCHANGED <<clientSockets, sock>>
    BY <1>3 DEF Close
  <2>2. SocketsContinue
    BY <1>1, <2>1 DEF SocketsContinue
  <2> QED BY <2>1, <2>2, SocketsStep DEF IInv, TypeOK
<1> QED BY <1>2, <1>3

-----------------------------------------------------------------------------
(* The steps.                                                              *)

\* A socket that is as constructed has not begun anything.
LEMMA ConstructOK ==
  ASSUME IInv, NEW n \in Nsps, Construct(n)
  PROVE  \E i \in Ids :
           /\ sock[i].stage = "unused"
           /\ sock' \in [Ids -> SocketType] /\ \A j \in Ids \ {i} : sock'[j] = sock[j]
           /\ sock'[i].stage = "middleware" /\ sock'[i].nsp = n /\ ~sock'[i].connected
           /\ SocketOK(sock'[i])
<1> DEFINE x == [Unused EXCEPT !.nsp = n, !.stage = "middleware"]
<1>1. PICK i \in Fresh : sock' = [sock EXCEPT ![i] = x]
  BY DEF Construct
<1>2. /\ x \in SocketType /\ x.stage = "middleware" /\ x.nsp = n /\ ~x.connected /\ x.told = <<>>
      /\ x.connections = 0 /\ x.disconnections = 0
  <2>1. <<>> \in Seq(PacketKinds)
    BY EmptySeq
  <2> QED BY <2>1 DEF Unused, SocketType
<1> HIDE DEF x
<1>3. SocketOK(x)
  <2>1. DOMAIN x.told = {}
    BY <1>2
  <2> QED BY <1>2, <2>1 DEF SocketOK
<1>4. i \in Ids /\ sock[i].stage = "unused" /\ sock \in [Ids -> SocketType]
  BY DEF Fresh, IInv, TypeOK
<1>5. sock'[i] = x /\ sock' \in [Ids -> SocketType] /\ \A j \in Ids \ {i} : sock'[j] = sock[j]
  BY <1>1, <1>2, <1>4
<1> QED BY <1>2, <1>3, <1>4, <1>5

LEMMA JoinStep ==
  ASSUME IInv, NEW n \in Nsps, Construct(n), UNCHANGED <<patient, conn, bound, clientSockets, connectTimer>>,
         patient => n \notin DOMAIN clientSockets,
         \/ checking' = checking /\ (patient => ~Pending(n))
         \/ checking[n] > 0 /\ checking' = [checking EXCEPT ![n] = @ - 1],
         nsps' \in SUBSET Nsps, created' \in [Nsps -> Nat], NamespaceOnce'
  PROVE  IInv'
<1>1. PICK i \in Ids :
        /\ sock[i].stage = "unused"
        /\ sock' \in [Ids -> SocketType] /\ \A j \in Ids \ {i} : sock'[j] = sock[j]
        /\ sock'[i].stage = "middleware" /\ sock'[i].nsp = n /\ ~sock'[i].connected
        /\ SocketOK(sock'[i])
  BY ConstructOK
<1>2. checking \in [Nsps -> Nat] /\ checking' \in [Nsps -> Nat]
  BY DEF IInv, TypeOK
<1>3. TypeOK'
  BY <1>1, <1>2 DEF IInv, TypeOK, conn
<1>4. SocketsOK'
  BY <1>1 DEF IInv, SocketsOK
<1>5. Listening'
  BY DEF IInv, Listening, conn
<1>6. JoinsAlone'
  <2> SUFFICES ASSUME patient, NEW m \in Nsps
               PROVE  /\ checking'[m] <= 1
                      /\ checking'[m] = 1 => \A j \in Ids : ~Joining(j, m)'
                      /\ \A j, k \in Ids : Joining(j, m)' /\ Joining(k, m)' => j = k
                      /\ Pending(m)' => m \notin DOMAIN clientSockets'
    BY DEF JoinsAlone
  <2>1. /\ checking[m] <= 1 /\ checking[m] \in Nat /\ checking'[m] \in Nat
        /\ checking[m] = 1 => \A j \in Ids : ~Joining(j, m)
        /\ \A j, k \in Ids : Joining(j, m) /\ Joining(k, m) => j = k
        /\ Pending(m) => m \notin DOMAIN clientSockets
    BY <1>2 DEF IInv, JoinsAlone
  <2>2. \A j \in Ids : Joining(j, m)' <=> Joining(j, m) \/ (j = i /\ m = n)
    BY <1>1 DEF Joining
  <2>3. CASE m # n
    <3>1. checking'[m] = checking[m] /\ \A j \in Ids : Joining(j, m)' <=> Joining(j, m)
      BY <1>2, <2>2, <2>3
    <3>2. Pending(m)' <=> Pending(m)
      BY <3>1 DEF Pending, Joining
    <3> QED BY <2>1, <3>1, <3>2
  <2>4. CASE m = n
    <3>1. checking'[n] = 0 /\ \A j \in Ids : ~Joining(j, n)
      <4>1. CASE checking' = checking /\ ~Pending(n)
        BY <2>1, <2>4, <4>1 DEF Pending, Joining
      <4>2. CASE checking[n] > 0 /\ checking' = [checking EXCEPT ![n] = @ - 1]
        BY <1>2, <2>1, <2>4, <4>2
      <4> QED BY <4>1, <4>2
    <3> QED BY <2>2, <2>4, <3>1
  <2> QED BY <2>3, <2>4
<1>7. PatientIsHeld'
  <2> SUFFICES ASSUME patient, NEW j \in Ids, sock'[j].connected
               PROVE  /\ readyState # "closed" /\ bound
                      /\ sock'[j].nsp \in DOMAIN clientSockets /\ clientSockets[sock'[j].nsp] = j
    BY DEF PatientIsHeld, ConnectedIsHeld, conn
  <2>1. j # i /\ sock'[j] = sock[j]
    BY <1>1
  <2> QED BY <2>1 DEF IInv, PatientIsHeld, ConnectedIsHeld
<1> QED BY <1>3, <1>4, <1>5, <1>6, <1>7 DEF IInv

LEMMA RecvConnectStep ==
  ASSUME IInv, NEW n \in Nsps, RecvConnect(n), UNCHANGED patient
  PROVE  IInv'
<1>1. CASE n \in DOMAIN clientSockets
  <2>1. Close(sock, buffered) /\ UNCHANGED server /\ buffered \in BOOLEAN
    BY <1>1 DEF RecvConnect, IInv, TypeOK
  <2> QED BY <2>1, CloseStep
<1>2. CASE n \notin DOMAIN clientSockets
  <2>1. /\ UNCHANGED <<conn, bound, clientSockets, connectTimer, nsps, created>>
        /\ patient => ~Pending(n)
    BY <1>2 DEF RecvConnect
  <2>2. nsps' \in SUBSET Nsps /\ created' \in [Nsps -> Nat] /\ NamespaceOnce'
    BY <2>1 DEF IInv, TypeOK, NamespaceOnce
  <2>3. CASE n \in nsps /\ Construct(n) /\ UNCHANGED checking
    BY <1>2, <2>1, <2>2, <2>3, JoinStep
  <2>4. CASE checking' = [checking EXCEPT ![n] = @ + 1] /\ UNCHANGED sock
    <3>1. checking \in [Nsps -> Nat] /\ checking' \in [Nsps -> Nat]
      BY <2>4 DEF IInv, TypeOK
    <3>2. TypeOK' /\ SocketsOK' /\ Listening' /\ PatientIsHeld'
      BY <2>1, <2>2, <2>4, <3>1
         DEF IInv, TypeOK, SocketsOK, Listening, PatientIsHeld, ConnectedIsHeld, conn
    <3>3. JoinsAlone'
      <4> SUFFICES ASSUME patient, NEW m \in Nsps
                   PROVE  /\ checking'[m] <= 1
                          /\ checking'[m] = 1 => \A j \in Ids : ~Joining(j, m)
                          /\ \A j, k \in Ids : Joining(j, m) /\ Joining(k, m) => j = k
                          /\ Pending(m)' => m \notin DOMAIN clientSockets
        BY <2>1, <2>4 DEF JoinsAlone, Joining
      <4>1. /\ checking[m] <= 1 /\ checking[m] \in Nat
            /\ checking[m] = 1 => \A j \in Ids : ~Joining(j, m)
            /\ \A j, k \in Ids : Joining(j, m) /\ Joining(k, m) => j = k
            /\ Pending(m) => m \notin DOMAIN clientSockets
        BY <3>1 DEF IInv, JoinsAlone
      <4>2. CASE m # n
        <5>1. checking'[m] = checking[m] /\ (Pending(m)' <=> Pending(m))
          BY <2>4, <3>1, <4>2 DEF Pending
        <5> QED BY <4>1, <5>1
      <4>3. CASE m = n
        <5>1. checking[n] = 0 /\ checking'[n] = 1 /\ \A j \in Ids : ~Joining(j, n)
          BY <2>1, <2>4, <3>1, <4>1, <4>3 DEF Pending, Joining
        <5> QED BY <1>2, <4>1, <4>3, <5>1
      <4> QED BY <4>2, <4>3
    <3> QED BY <2>2, <3>2, <3>3 DEF IInv
  <2> QED BY <1>2, <2>3, <2>4 DEF RecvConnect
<1> QED BY <1>1, <1>2

LEMMA CheckedOnce ==
  ASSUME IInv, NEW n \in Nsps, CheckedNamespace(n)
  PROVE  nsps' \in SUBSET Nsps /\ created' \in [Nsps -> Nat] /\ NamespaceOnce'
<1>1. nsps \in SUBSET Nsps /\ created \in [Nsps -> Nat] /\ NamespaceOnce
  BY DEF IInv, TypeOK
<1>2. CASE n \in nsps
  BY <1>1, <1>2 DEF CheckedNamespace, NamespaceOnce
<1>3. CASE n \notin nsps
  <2>1. nsps' = nsps \union {n} /\ created' = [created EXCEPT ![n] = @ + 1]
    BY <1>3 DEF CheckedNamespace
  <2>2. created[n] = 0 /\ created'[n] = 1 /\ created' \in [Nsps -> Nat]
        /\ \A m \in Nsps \ {n} : created'[m] = created[m]
    BY <1>1, <1>3, <2>1 DEF NamespaceOnce
  <2> QED BY <1>1, <2>1, <2>2 DEF NamespaceOnce
<1> QED BY <1>2, <1>3

LEMMA CheckDoneStep ==
  ASSUME IInv, NEW n \in Nsps, CheckDone(n), UNCHANGED patient
  PROVE  IInv'
<1>1. /\ checking[n] > 0 /\ checking' = [checking EXCEPT ![n] = @ - 1]
      /\ UNCHANGED <<readyState, drainClose, registered, bound, clientSockets, connectTimer>>
  BY DEF CheckDone
<1>2. checking \in [Nsps -> Nat] /\ checking' \in [Nsps -> Nat]
  BY <1>1 DEF IInv, TypeOK
<1>3. CASE CheckedNamespace(n) /\ Construct(n) /\ UNCHANGED buffered
  <2>1. patient => n \notin DOMAIN clientSockets
    BY <1>1 DEF IInv, JoinsAlone, Pending
  <2> QED BY <1>1, <1>3, <2>1, CheckedOnce, JoinStep DEF conn
<1>4. CASE UNCHANGED <<nsps, created, sock>> /\ buffered' \in BOOLEAN
  <2>1. TypeOK' /\ SocketsOK' /\ Listening' /\ PatientIsHeld' /\ NamespaceOnce'
    BY <1>1, <1>2, <1>4
       DEF IInv, TypeOK, SocketsOK, Listening, PatientIsHeld, ConnectedIsHeld, NamespaceOnce
  <2>2. JoinsAlone'
    <3> SUFFICES ASSUME patient, NEW m \in Nsps
                 PROVE  /\ checking'[m] <= 1
                        /\ checking'[m] = 1 => \A j \in Ids : ~Joining(j, m)
                        /\ \A j, k \in Ids : Joining(j, m) /\ Joining(k, m) => j = k
                        /\ Pending(m)' => m \notin DOMAIN clientSockets
      BY <1>1, <1>4 DEF JoinsAlone, Joining
    <3>1. /\ checking[m] <= 1 /\ checking[m] \in Nat
          /\ checking[m] = 1 => \A j \in Ids : ~Joining(j, m)
          /\ \A j, k \in Ids : Joining(j, m) /\ Joining(k, m) => j = k
          /\ Pending(m) => m \notin DOMAIN clientSockets
      BY <1>2 DEF IInv, JoinsAlone
    <3>2. checking'[m] <= checking[m] /\ checking'[m] \in Nat
      BY <1>1, <1>2
    <3>3. Pending(m)' => Pending(m)
      BY <1>4, <3>1, <3>2 DEF Pending
    <3> QED BY <3>1, <3>2, <3>3
  <2> QED BY <2>1, <2>2 DEF IInv
<1>5. buffered' \in BOOLEAN
  BY <1>3 DEF CheckDone, Buffers, IInv, TypeOK
<1> QED BY <1>3, <1>4, <1>5 DEF CheckDone

\* The facts of the invariant that a step on one socket needs.
LEMMA SocketNow ==
  ASSUME IInv, NEW i \in Ids
  PROVE  sock \in [Ids -> SocketType] /\ sock[i] \in SocketType /\ SocketOK(sock[i])
BY DEF IInv, TypeOK, SocketsOK

\* A socket whose middlewares passed, before it is told of anything more.
LEMMA ConnectedOK ==
  ASSUME IInv, NEW i \in Ids, sock[i].stage = "middleware", readyState = "open"
  PROVE  LET s == [Tell(sock[i], "connect") EXCEPT !.stage = "over", !.connected = TRUE, !.pre = 0,
                                                   !.connections = 1]
         IN  s \in SocketType /\ SocketOK(s) /\ s.connected /\ s.nsp = sock[i].nsp /\ s.stage = "over"
<1> DEFINE o == sock[i]
           u == [o EXCEPT !.told = Append(@, "connect")]
           v == [u EXCEPT !.stage = "over", !.connected = TRUE]
           s == [v EXCEPT !.pre = 0, !.connections = 1]
<1>1. /\ o \in SocketType /\ o.told = <<>> /\ o.connections = 0 /\ o.disconnections = 0
  BY SocketNow DEF SocketOK, SocketType
<1>2. Append(o.told, "connect") = <<"connect">> /\ <<"connect">> \in Seq(PacketKinds)
  BY <1>1 DEF PacketKinds
<1> HIDE DEF o
<1>3. /\ u \in SocketType /\ u.told = <<"connect">> /\ u.nsp = o.nsp /\ u.disconnections = 0
      /\ Tell(o, "connect") = u
  BY <1>1, <1>2 DEF SocketType, Tell
<1> HIDE DEF u
<1>4. /\ v \in SocketType /\ v.told = <<"connect">> /\ v.nsp = o.nsp /\ v.disconnections = 0
      /\ v.stage = "over" /\ v.connected
  BY <1>3 DEF SocketType
<1>5. s = [Tell(o, "connect") EXCEPT !.stage = "over", !.connected = TRUE, !.pre = 0, !.connections = 1]
  BY <1>3
<1> HIDE DEF v
<1>6. /\ s \in SocketType /\ s.told = <<"connect">> /\ s.nsp = o.nsp /\ s.disconnections = 0
      /\ s.stage = "over" /\ s.connected /\ s.connections = 1
  BY <1>4 DEF SocketType
<1> HIDE DEF s
<1>7. SocketOK(s)
  <2>1. Len(s.told) = 1 /\ DOMAIN s.told = 1..1 /\ s.told[1] = "connect" /\ s.told # <<>>
    BY <1>6
  <2> QED BY <1>6, <2>1 DEF SocketOK
<1> QED BY <1>5, <1>6, <1>7 DEF o

\* A socket whose middlewares are over and that is not connected.
LEMMA OverStep ==
  ASSUME IInv, NEW i \in Ids, sock[i].stage = "middleware", NEW x \in SocketType, SocketOK(x),
         x.stage = "over", x.nsp = sock[i].nsp, ~x.connected, sock' = [sock EXCEPT ![i] = x],
         UNCHANGED <<patient, readyState, drainClose, registered, bound, server, clientSockets>>,
         connectTimer' \in BOOLEAN, buffered' \in BOOLEAN
  PROVE  IInv'
<1>1. /\ sock \in [Ids -> SocketType] /\ sock' \in [Ids -> SocketType] /\ sock'[i] = x
      /\ \A j \in Ids \ {i} : sock'[j] = sock[j]
  BY DEF IInv, TypeOK
<1>2. TypeOK' /\ SocketsOK' /\ Listening' /\ NamespaceOnce'
  BY <1>1 DEF IInv, TypeOK, SocketsOK, Listening, NamespaceOnce, server
<1>3. \A j \in Ids, m \in Nsps : Joining(j, m)' => Joining(j, m)
  BY <1>1 DEF Joining
<1>4. \A m \in Nsps : Pending(m)' => Pending(m)
  <2> TAKE m \in Nsps
  <2>1. Pending(m)' <=> checking[m] > 0 \/ \E j \in Ids : Joining(j, m)'
    BY DEF Pending, Joining, server
  <2>2. Pending(m) <=> checking[m] > 0 \/ \E j \in Ids : Joining(j, m)
    BY DEF Pending, Joining
  <2> QED BY <1>3, <2>1, <2>2
<1>5. JoinsAlone'
  <2> SUFFICES ASSUME patient, NEW m \in Nsps
               PROVE  /\ checking[m] <= 1
                      /\ checking[m] = 1 => \A j \in Ids : ~Joining(j, m)'
                      /\ \A j, k \in Ids : Joining(j, m)' /\ Joining(k, m)' => j = k
                      /\ Pending(m)' => m \notin DOMAIN clientSockets
    BY DEF JoinsAlone, server
  <2> QED BY <1>3, <1>4 DEF IInv, JoinsAlone
<1>6. PatientIsHeld'
  <2> SUFFICES ASSUME patient, NEW j \in Ids, sock'[j].connected
               PROVE  /\ readyState # "closed" /\ bound
                      /\ sock'[j].nsp \in DOMAIN clientSockets /\ clientSockets[sock'[j].nsp] = j
    BY DEF PatientIsHeld, ConnectedIsHeld
  <2>1. j # i /\ sock'[j] = sock[j]
    BY <1>1
  <2> QED BY <2>1 DEF IInv, PatientIsHeld, ConnectedIsHeld
<1> QED BY <1>2, <1>5, <1>6 DEF IInv

LEMMA AcceptStep ==
  ASSUME IInv, NEW i \in Ids, sock[i].stage = "middleware", Accept(i),
         UNCHANGED <<patient, readyState, drainClose, registered, bound, server>>
  PROVE  IInv'
<1>1. CASE readyState # "open"
  <2> DEFINE x == [sock[i] EXCEPT !.stage = "over"]
  <2>1. sock' = [sock EXCEPT ![i] = x] /\ UNCHANGED <<clientSockets, connectTimer, buffered>>
    BY <1>1 DEF Accept
  <2>2. x \in SocketType /\ SocketOK(x) /\ x.stage = "over" /\ x.nsp = sock[i].nsp /\ ~x.connected
    BY SocketNow DEF SocketType, SocketOK
  <2> HIDE DEF x
  <2> QED BY <2>1, <2>2, OverStep DEF IInv, TypeOK
<1>2. CASE readyState = "open"
  <2> DEFINE n == sock[i].nsp
             s == [Tell(sock[i], "connect") EXCEPT !.stage = "over", !.connected = TRUE, !.pre = 0,
                                                   !.connections = 1]
  <2>1. /\ s \in SocketType /\ SocketOK(s) /\ s.connected /\ s.nsp = n /\ s.stage = "over"
        /\ sock[i].pre \in Nat
    BY <1>2, ConnectedOK, SocketNow DEF SocketType
  <2>2. PICK x \in WithEvents(s, sock[i].pre) : sock' = [sock EXCEPT ![i] = x]
    BY <1>2 DEF Accept
  <2>3. x \in SocketType /\ SocketOK(x) /\ x.stage = "over" /\ x.nsp = n
    <3> HIDE DEF s
    <3> QED BY <2>1, <2>2, WithEventsOK DEF Continues, IInv
  <2> HIDE DEF s
  <2>4. /\ clientSockets' = [m \in DOMAIN clientSockets \union {n} |->
                              IF m = n THEN i ELSE clientSockets[m]]
        /\ connectTimer' = FALSE /\ buffered' \in BOOLEAN
    BY <1>2 DEF Accept, Buffers, IInv, TypeOK
  <2>5. n \in Nsps /\ Joining(i, n) /\ sock \in [Ids -> SocketType]
    BY SocketNow DEF SocketOK, Joining
  <2>6. /\ sock' \in [Ids -> SocketType] /\ sock'[i] = x
        /\ \A j \in Ids \ {i} : sock'[j] = sock[j]
    BY <2>2, <2>3, <2>5
  <2> HIDE DEF n
  <2>7. TypeOK'
    <3>1. PICK D \in SUBSET Nsps : clientSockets \in [D -> Ids]
      BY DEF IInv, TypeOK
    <3>2. clientSockets' \in [D \union {n} -> Ids] /\ D \union {n} \in SUBSET Nsps
      BY <2>4, <2>5, <3>1
    <3>3. \E E \in SUBSET Nsps : clientSockets' \in [E -> Ids]
      BY <3>2
    <3> QED BY <2>4, <2>6, <3>3 DEF IInv, TypeOK, server
  <2>8. SocketsOK' /\ NamespaceOnce'
    BY <2>3, <2>6 DEF IInv, SocketsOK, NamespaceOnce, server
  <2>9. Listening'
    BY <1>2 DEF IInv, Listening
  <2>10. \A j \in Ids, m \in Nsps : Joining(j, m)' <=> Joining(j, m) /\ j # i
    BY <2>3, <2>6 DEF Joining
  <2>11. patient => checking[n] = 0 /\ n \notin DOMAIN clientSockets
                    /\ \A j \in Ids : Joining(j, n) => j = i
    BY <2>5 DEF IInv, TypeOK, JoinsAlone, Pending, Joining
  <2>12. JoinsAlone'
    <3> SUFFICES ASSUME patient, NEW m \in Nsps
                 PROVE  /\ checking[m] <= 1
                        /\ checking[m] = 1 => \A j \in Ids : ~Joining(j, m)'
                        /\ \A j, k \in Ids : Joining(j, m)' /\ Joining(k, m)' => j = k
                        /\ Pending(m)' => m \notin DOMAIN clientSockets'
      BY DEF JoinsAlone, server
    <3>1. /\ checking[m] <= 1
          /\ checking[m] = 1 => \A j \in Ids : ~Joining(j, m)
          /\ \A j, k \in Ids : Joining(j, m) /\ Joining(k, m) => j = k
          /\ Pending(m) => m \notin DOMAIN clientSockets
      BY DEF IInv, JoinsAlone
    <3>2. Pending(m)' => Pending(m) /\ m # n
      <4>1. Pending(m)' <=> checking[m] > 0 \/ \E j \in Ids : Joining(j, m)'
        BY DEF Pending, Joining, server
      <4>2. Pending(m) <=> checking[m] > 0 \/ \E j \in Ids : Joining(j, m)
        BY DEF Pending, Joining
      <4> QED BY <2>10, <2>11, <4>1, <4>2
    <3>3. m # n /\ m \notin DOMAIN clientSockets => m \notin DOMAIN clientSockets'
      BY <2>4
    <3> QED BY <2>10, <3>1, <3>2, <3>3
  <2>13. PatientIsHeld'
    <3> SUFFICES ASSUME patient, NEW j \in Ids, sock'[j].connected
                 PROVE  /\ readyState # "closed" /\ bound
                        /\ sock'[j].nsp \in DOMAIN clientSockets' /\ clientSockets'[sock'[j].nsp] = j
      BY DEF PatientIsHeld, ConnectedIsHeld
    <3>1. CASE j = i
      BY <1>2, <2>3, <2>4, <2>6, <3>1 DEF IInv, Listening
    <3>2. CASE j # i
      <4>1. sock'[j] = sock[j] /\ sock[j].nsp \in DOMAIN clientSockets /\ clientSockets[sock[j].nsp] = j
        BY <2>6, <3>2 DEF IInv, PatientIsHeld, ConnectedIsHeld
      <4>2. sock[j].nsp # n
        BY <2>11, <4>1
      <4> QED BY <1>2, <2>4, <4>1, <4>2 DEF IInv, Listening
    <3> QED BY <3>1, <3>2
  <2> QED BY <2>7, <2>8, <2>9, <2>12, <2>13 DEF IInv
<1> QED BY <1>1, <1>2

LEMMA MiddlewareDoneStep ==
  ASSUME IInv, NEW i \in Ids, MiddlewareDone(i), UNCHANGED patient
  PROVE  IInv'
<1>1. /\ sock[i].stage = "middleware"
      /\ UNCHANGED <<readyState, drainClose, registered, bound, server>>
  BY DEF MiddlewareDone
<1>2. CASE Accept(i)
  BY <1>1, <1>2, AcceptStep
<1>3. CASE Refuse(i)
  <2> DEFINE x == [sock[i] EXCEPT !.stage = "over"]
  <2>1. /\ sock' = [sock EXCEPT ![i] = x] /\ UNCHANGED <<clientSockets, connectTimer>>
        /\ buffered' \in BOOLEAN /\ connectTimer' \in BOOLEAN
    BY <1>3 DEF Refuse, Buffers, IInv, TypeOK
  <2>2. x \in SocketType /\ SocketOK(x) /\ x.stage = "over" /\ x.nsp = sock[i].nsp /\ ~x.connected
    BY <1>1, SocketNow DEF SocketType, SocketOK
  <2> HIDE DEF x
  <2> QED BY <1>1, <2>1, <2>2, OverStep
<1> QED BY <1>2, <1>3 DEF MiddlewareDone

LEMMA RecvDisconnectStep ==
  ASSUME IInv, NEW n \in Nsps, RecvDisconnect(n), UNCHANGED patient
  PROVE  IInv'
<1> DEFINE i == clientSockets[n]
<1>1. /\ i \in Ids /\ sock' = [sock EXCEPT ![i] = Closed(sock[i])]
      /\ UNCHANGED <<conn, bound, clientSockets, connectTimer, server>>
  BY DEF RecvDisconnect, IInv, TypeOK
<1>2. SocketsContinue
  BY <1>1, SocketNow, ClosedOK, OneContinues
<1> QED BY <1>1, <1>2, SocketsStep DEF conn, IInv, TypeOK

LEMMA EmitStep ==
  ASSUME IInv, NEW i \in Ids, Emit(i), UNCHANGED patient
  PROVE  IInv'
<1> DEFINE s == [sock[i] EXCEPT !.emits = @ + 1]
<1>1. /\ sock[i].stage # "unused"
      /\ UNCHANGED <<readyState, drainClose, registered, bound, clientSockets, connectTimer, server>>
  BY DEF Emit
<1>2. sock[i] \in SocketType /\ SocketOK(sock[i])
  BY SocketNow
<1>3. /\ s \in SocketType /\ s.connected = sock[i].connected /\ s.stage = sock[i].stage
      /\ s.nsp = sock[i].nsp /\ s.told = sock[i].told /\ s.connections = sock[i].connections
      /\ s.disconnections = sock[i].disconnections /\ s.cut = sock[i].cut
  BY <1>2 DEF SocketType
<1>4. IF s.connected
      THEN /\ \E x \in WithEvents(s, 1) : sock' = [sock EXCEPT ![i] = x]
           /\ IF readyState = "open" THEN Buffers ELSE UNCHANGED buffered
      ELSE sock' = [sock EXCEPT ![i] = [s EXCEPT !.pre = @ + 1]] /\ UNCHANGED buffered
  BY DEF Emit
<1> HIDE DEF s
<1>5. SocketOK(s) /\ Continues(s, sock[i])
  BY <1>2, <1>3 DEF SocketOK, Continues
<1>6. \E x \in SocketType : SocketOK(x) /\ Continues(x, sock[i]) /\ sock' = [sock EXCEPT ![i] = x]
  <2>1. CASE s.connected
    <3>1. PICK x \in WithEvents(s, 1) : sock' = [sock EXCEPT ![i] = x]
      BY <1>4, <2>1
    <3>2. x \in SocketType /\ SocketOK(x) /\ Continues(x, s)
      BY <1>3, <1>5, <2>1, <3>1, WithEventsOK DEF IInv
    <3> QED BY <1>5, <3>1, <3>2 DEF Continues
  <2>2. CASE ~s.connected
    <3> DEFINE x == [s EXCEPT !.pre = @ + 1]
    <3>1. /\ x \in SocketType /\ x.connected = s.connected /\ x.stage = s.stage
          /\ x.nsp = s.nsp /\ x.told = s.told /\ x.connections = s.connections
          /\ x.disconnections = s.disconnections /\ x.cut = s.cut
      BY <1>3 DEF SocketType
    <3>2. sock' = [sock EXCEPT ![i] = x]
      BY <1>4, <2>2
    <3> HIDE DEF x
    <3> QED BY <1>5, <3>1, <3>2 DEF SocketOK, Continues
  <2> QED BY <2>1, <2>2
<1>7. SocketsContinue
  BY <1>6, OneContinues
<1>8. buffered' \in BOOLEAN
  BY <1>4 DEF Buffers, IInv, TypeOK
<1> QED BY <1>1, <1>7, <1>8, SocketsStep DEF IInv, TypeOK

LEMMA DisconnectStep ==
  ASSUME IInv, NEW i \in Ids, Disconnect(i), UNCHANGED patient
  PROVE  IInv'
<1>1. /\ sock[i].connected /\ sock' = [sock EXCEPT ![i] = Closed(Tell(sock[i], "disconnect"))]
      /\ UNCHANGED <<readyState, drainClose, registered, bound, clientSockets, connectTimer, server>>
      /\ buffered' \in BOOLEAN
  BY DEF Disconnect, Buffers, IInv, TypeOK
<1>2. SocketsContinue
  BY <1>1, SocketNow, DisconnectOK, OneContinues DEF IInv
<1> QED BY <1>1, <1>2, SocketsStep DEF IInv, TypeOK

LEMMA DisconnectAllStep ==
  ASSUME IInv, NEW i \in Ids, DisconnectAll(i), UNCHANGED patient
  PROVE  IInv'
<1> DEFINE reached == {k \in Held : sock[k].connected}
           told == [k \in Ids |-> IF k \in reached THEN Closed(Tell(sock[k], "disconnect"))
                                  ELSE sock[k]]
<1>1. \A k \in Ids : /\ told[k] \in SocketType /\ SocketOK(told[k]) /\ Continues(told[k], sock[k])
                     /\ k \in reached => ~told[k].connected
                     /\ k \notin reached => told[k] = sock[k]
  <2> TAKE k \in Ids
  <2>1. CASE k \in reached
    BY <2>1, SocketNow, DisconnectOK DEF IInv
  <2>2. CASE k \notin reached
    BY <2>2, SocketNow DEF Continues
  <2> QED BY <2>1, <2>2
<1>2. told \in [Ids -> SocketType]
  BY <1>1
<1>3. UNCHANGED server
  BY DEF DisconnectAll
<1>4. CASE readyState = "open"
  <2>1. PICK waits \in BOOLEAN : Close(told, waits)
    BY <1>4 DEF DisconnectAll
  <2> HIDE DEF told
  <2>2. /\ OnClose(told) /\ readyState' \in {"closing", "closed"} /\ buffered' \in BOOLEAN
        /\ registered' \in BOOLEAN
    BY <1>4, <2>1 DEF Close, IInv, TypeOK
  <2> QED BY <1>1, <1>2, <1>3, <2>2, OnCloseStep
<1>5. CASE readyState # "open"
  <2>1. sock' = told /\ clientSockets' = [n \in {} |-> 0] /\ UNCHANGED <<conn, bound, connectTimer>>
    BY <1>5 DEF DisconnectAll
  <2>2. ASSUME patient, NEW k \in Ids PROVE ~sock'[k].connected
    <3>1. sock[k].connected => k \in reached
      BY <2>2 DEF IInv, PatientIsHeld, ConnectedIsHeld, Held
    <3> HIDE DEF told, reached
    <3> QED BY <1>1, <2>1, <3>1 DEF Continues
  <2> HIDE DEF told, reached
  <2>3. SocketsContinue
    BY <1>1, <1>2, <2>1 DEF SocketsContinue
  <2> QED BY <1>3, <2>1, <2>2, <2>3, EmptiedStep DEF conn, IInv, TypeOK
<1> QED BY <1>4, <1>5

\* A step that leaves the sockets as they are.
LEMMA SameSockets ==
  ASSUME IInv, UNCHANGED sock
  PROVE  SocketsContinue
BY SocketNow DEF SocketsContinue, Continues, IInv, TypeOK

LEMMA ServerCloseStep == ASSUME IInv, ServerClose, UNCHANGED patient PROVE IInv'
<1>1. readyState = "open" /\ UNCHANGED <<buffered, server>>
  BY DEF ServerClose
<1>2. CASE buffered
  <2>1. /\ readyState' = "closing" /\ drainClose' = TRUE
        /\ UNCHANGED <<registered, bound, clientSockets, connectTimer, sock>>
    BY <1>2 DEF ServerClose
  <2> QED BY <1>1, <2>1, SameSockets, SocketsStep DEF IInv, TypeOK
<1>3. CASE ~buffered
  BY <1>1, <1>3, ConnClosesStep DEF ServerClose, IInv, TypeOK
<1> QED BY <1>2, <1>3

LEMMA ConnectTimeoutStep == ASSUME IInv, ConnectTimeout, UNCHANGED patient PROVE IInv'
<1>1. CASE Close(sock, buffered)
  BY <1>1, CloseStep DEF ConnectTimeout, IInv, TypeOK
<1>2. CASE connectTimer' = FALSE /\ UNCHANGED <<conn, bound, clientSockets, sock>>
  BY <1>2, SameSockets, SocketsStep DEF ConnectTimeout, conn, IInv, TypeOK
<1> QED BY <1>1, <1>2 DEF ConnectTimeout

LEMMA DrainStep == ASSUME IInv, Drain, UNCHANGED patient PROVE IInv'
<1>1. buffered' = FALSE /\ UNCHANGED server
  BY DEF Drain
<1>2. CASE ConnCloses
  BY <1>1, <1>2, ConnClosesStep
<1>3. CASE UNCHANGED <<readyState, registered, drainClose, bound, clientSockets, connectTimer, sock>>
  BY <1>1, <1>3, SameSockets, SocketsStep DEF IInv, TypeOK
<1> QED BY <1>2, <1>3 DEF Drain

LEMMA RecvInvalidStep == ASSUME IInv, RecvInvalid, UNCHANGED patient PROVE IInv'
<1>1. ~patient /\ OnClose(sock) /\ UNCHANGED <<readyState, buffered, registered, server>>
  BY DEF RecvInvalid
<1>2. sock \in [Ids -> SocketType] /\ \A i \in Ids : SocketOK(sock[i]) /\ Continues(sock[i], sock[i])
  BY SocketNow DEF Continues, IInv, TypeOK
<1> QED BY <1>1, <1>2, OnCloseStep DEF IInv, TypeOK

-----------------------------------------------------------------------------
(* The invariant, and the properties that follow from it.                  *)

LEMMA InitInv == Init => IInv
<1> SUFFICES ASSUME Init PROVE IInv
  OBVIOUS
<1>1. Unused \in SocketType /\ SocketOK(Unused) /\ Unused.stage = "unused" /\ ~Unused.connected
  <2>1. <<>> \in Seq(PacketKinds) /\ DOMAIN <<>> = {}
    BY EmptySeq
  <2> QED BY <2>1 DEF Unused, SocketType, SocketOK
<1>2. \A i \in Ids : sock[i] = Unused
  BY DEF Init
<1>3. clientSockets \in [{} -> Ids] /\ DOMAIN clientSockets = {}
  BY DEF Init
<1>4. TypeOK
  <2>1. \E D \in SUBSET Nsps : clientSockets \in [D -> Ids]
    BY <1>3
  <2>2. sock \in [Ids -> SocketType]
    BY <1>1 DEF Init
  <2> QED BY <2>1, <2>2, NspsAssumption DEF Init, TypeOK
<1>5. SocketsOK /\ PatientIsHeld
  BY <1>1, <1>2 DEF SocketsOK, PatientIsHeld, ConnectedIsHeld
<1>6. Listening /\ NamespaceOnce
  BY DEF Init, Listening, NamespaceOnce
<1>7. JoinsAlone
  <2>1. \A n \in Nsps : checking[n] = 0 /\ ~Pending(n) /\ \A i \in Ids : ~Joining(i, n)
    <3>1. checking = [n \in Nsps |-> 0] /\ \A i \in Ids : sock[i].stage = "unused"
      BY <1>1, <1>2 DEF Init
    <3> TAKE n \in Nsps
    <3>2. checking[n] = 0 /\ ~(checking[n] > 0)
      BY <3>1
    <3>3. \A i \in Ids : sock[i].stage # "middleware"
      BY <3>1
    <3> QED BY <3>2, <3>3 DEF Pending, Joining
  <2> SUFFICES ASSUME NEW n \in Nsps
               PROVE  /\ checking[n] <= 1
                      /\ checking[n] = 1 => \A i \in Ids : ~Joining(i, n)
                      /\ \A i, j \in Ids : Joining(i, n) /\ Joining(j, n) => i = j
                      /\ Pending(n) => n \notin DOMAIN clientSockets
    BY DEF JoinsAlone
  <2> QED BY <2>1
<1> QED BY <1>4, <1>5, <1>6, <1>7 DEF IInv

LEMMA NextInv == IInv /\ [Next]_vars => IInv'
<1> SUFFICES ASSUME IInv, [Next]_vars PROVE IInv'
  OBVIOUS
<1>1. CASE Step /\ UNCHANGED patient
  <2>1. ASSUME NEW n \in Nsps, RecvConnect(n) \/ CheckDone(n) \/ RecvDisconnect(n) PROVE IInv'
    BY <1>1, <2>1, RecvConnectStep, CheckDoneStep, RecvDisconnectStep
  <2>2. CASE RecvStray
    <3>1. Close(sock, buffered) /\ UNCHANGED server /\ buffered \in BOOLEAN
      BY <2>2 DEF RecvStray, IInv, TypeOK
    <3> QED BY <1>1, <3>1, CloseStep
  <2>3. CASE RecvInvalid
    BY <1>1, <2>3, RecvInvalidStep
  <2>4. ASSUME NEW i \in Ids, MiddlewareDone(i) \/ Emit(i) \/ Disconnect(i) \/ DisconnectAll(i)
        PROVE  IInv'
    BY <1>1, <2>4, MiddlewareDoneStep, EmitStep, DisconnectStep, DisconnectAllStep
  <2>5. CASE ServerClose \/ ConnectTimeout \/ Drain
    BY <1>1, <2>5, ServerCloseStep, ConnectTimeoutStep, DrainStep
  <2>6. CASE ConnLost
    BY <1>1, <2>6, ConnClosesStep DEF ConnLost, IInv, TypeOK
  <2> QED BY <1>1, <2>1, <2>2, <2>3, <2>4, <2>5, <2>6 DEF Step
<1>2. CASE UNCHANGED vars
  <2>1. UNCHANGED <<patient, server, bound, clientSockets, readyState, connectTimer, buffered,
                    drainClose, registered, sock>>
    BY <1>2 DEF vars, conn, server
  <2> QED BY <2>1, SameSockets, SocketsStep DEF IInv, TypeOK
<1> QED BY <1>1, <1>2 DEF Next

\* The inductive invariant holds of every state of the client.
THEOREM ClientInvariant == Spec => []IInv
<1> QED BY InitInv, NextInv, PTL DEF Spec

\* _checkNamespace creates a namespace once: it looks for it after its await.
THEOREM NamespacesOnce == Spec => []NamespaceOnce
<1>1. IInv => NamespaceOnce
  BY DEF IInv
<1> QED BY <1>1, ClientInvariant, PTL

\* A connected socket of a client that awaits its CONNECTs is held by the
\* Client, so that onclose reaches it.
THEOREM PatientHeld == Spec => []PatientIsHeld
<1>1. IInv => PatientIsHeld
  BY DEF IInv
<1> QED BY <1>1, ClientInvariant, PTL

\* "connection" and "disconnect" of each socket come in pairs, and the end of
\* the connection completes the pairs of a client that awaits its CONNECTs.
THEOREM ConnectionsDoEnd == Spec => []ConnectionsEnd
<1>1. IInv => ConnectionsEnd
  <2> SUFFICES ASSUME IInv, patient, NEW i \in Ids
               PROVE  /\ sock[i].disconnections <= sock[i].connections
                      /\ readyState = "closed" => sock[i].disconnections = sock[i].connections
    BY DEF ConnectionsEnd
  <2>1. /\ sock[i].connections \in Nat /\ sock[i].disconnections \in Nat
        /\ sock[i].connections = sock[i].disconnections + (IF sock[i].connected THEN 1 ELSE 0)
    BY SocketNow DEF SocketType, SocketOK
  <2>2. readyState = "closed" => ~sock[i].connected
    BY DEF IInv, PatientIsHeld, ConnectedIsHeld
  <2> QED BY <2>1, <2>2
<1> QED BY <1>1, ClientInvariant, PTL

\* A client is told of a socket first by CONNECT and last by DISCONNECT, unless
\* a listener cut the packets of the socket in two.
THEOREM ClientToldInOrder == Spec => []ToldInOrder
<1>1. IInv => ToldInOrder
  BY DEF IInv, SocketsOK, SocketOK, ToldInOrder
<1> QED BY <1>1, ClientInvariant, PTL
=============================================================================
