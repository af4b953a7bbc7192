---------------------------- MODULE RedisMessages ----------------------------
(***************************************************************************)
(* The messages of RedisAdapter (socket.io-redis-adapter/mod.ts): how the  *)
(* requests and responses of the Adapter are written, some as JSON, some as *)
(* MessagePack, in the format of the Node.js implementation, and the loop   *)
(* over its subscription in which another server reads them.               *)
(*                                                                         *)
(* A request or response is the record its TypeScript object is, with all  *)
(* its fields; the ones it does not have are Undefined.                    *)
(***************************************************************************)
EXTENDS Integers, Sequences, TLC

LOCAL M == INSTANCE MsgPack

CONSTANTS
  Payloads,  \* a sequence: what the application may give a call to send
  Rooms,     \* rooms: records of their text and whether they are numbers
  MaxWritten \* bound: how many messages are published

VARIABLES
  published, \* history: what was published, in order
  wire,      \* the messages the subscription has still to bring
  reading,   \* whether the loop of the constructor still runs
  heard      \* history: the messages handled, and as what

vars == <<published, wire, reading, heard>>

Names == <<"uid", "type", "requestId", "packet", "opts", "rooms", "except", "close", "data",
           "sockets", "clientCount">>
Key(name) == <<CHOOSE k \in DOMAIN Names : Names[k] = name>>

Object(pairs) == M!Obj([k \in DOMAIN pairs |-> <<Key(pairs[k][1]), pairs[k][2]>>])
Get(object, name) ==
  LET found == {k \in DOMAIN object.fields : object.fields[k][1] = Key(name)}
  IN  IF found = {} THEN M!Undefined ELSE object.fields[CHOOSE k \in found : TRUE][2]

Fields == {"uid", "requestId", "packet", "opts", "rooms", "close", "sockets", "clientCount"}
Wired(type, given) ==
  [type |-> type] @@ given @@ [f \in Fields |-> M!Undefined]

Uid == M!Str(<<117>>)
Id == M!Str(<<114>>)
Text(room) == IF room.number THEN M!Small(room.text) ELSE M!Str(<<room.text>>)
Opts(rooms) ==
  Object(<< <<"rooms", M!Arr([k \in DOMAIN rooms |-> Text(rooms[k])])>>, <<"except", M!Arr(<<>>)>> >>)

-----------------------------------------------------------------------------
(* What the Adapter publishes (adapter.ts): a call is its message, what the *)
(* message carries for the application, and the rooms it is for.           *)

Targets == {<<>>} \union {<<r>> : r \in Rooms} \union {<<r, s>> : r \in Rooms, s \in Rooms}

Requests == {"broadcast", "broadcastWithAck", "join", "leave", "disconnect", "fetch", "emit", "tell"}
Responses == {"fetched", "emitted", "clientCount", "ack"}

Given(call) ==
  LET toAll == [uid |-> Uid, opts |-> Opts(call.rooms)]
      inRooms == toAll @@ [rooms |-> M!Arr(<<M!Str(<<50>>)>>)]
      answer == [requestId |-> Id, packet |-> Payloads[call.payload]]
  IN  CASE call.kind = "broadcast" -> Wired("BROADCAST", toAll @@ [packet |-> Payloads[call.payload]])
        [] call.kind = "broadcastWithAck" -> Wired("BROADCAST", toAll @@ answer)
        [] call.kind = "join" -> Wired("SOCKETS_JOIN", inRooms)
        [] call.kind = "leave" -> Wired("SOCKETS_LEAVE", inRooms)
        [] call.kind = "disconnect" ->
             Wired("DISCONNECT_SOCKETS", toAll @@ [close |-> [t |-> "bool", is |-> FALSE]])
        [] call.kind = "fetch" -> Wired("FETCH_SOCKETS", toAll @@ [requestId |-> Id])
        [] call.kind = "emit" -> Wired("SERVER_SIDE_EMIT", [uid |-> Uid] @@ answer)
        [] call.kind = "tell" -> Wired("SERVER_SIDE_EMIT", [uid |-> Uid, packet |-> Payloads[call.payload]])
        [] call.kind = "fetched" ->
             Wired("FETCH_SOCKETS_RESPONSE", [requestId |-> Id, sockets |-> M!Arr(<<Payloads[call.payload]>>)])
        [] call.kind = "emitted" -> Wired("SERVER_SIDE_EMIT_RESPONSE", answer)
        [] call.kind = "clientCount" ->
             Wired("BROADCAST_CLIENT_COUNT", [requestId |-> Id, clientCount |-> M!Small(2)])
        [] call.kind = "ack" -> Wired("BROADCAST_ACK", answer)

-----------------------------------------------------------------------------
(* RedisAdapter: the encodings.                                            *)

\* JSON.parse(JSON.stringify(v)): a Date becomes a string, a buffer an object.
RECURSIVE Json(_)
Json(v) ==
  CASE v.t \in {"undefined", "function"} -> M!Nil
    [] v.t = "date" -> [t |-> "iso", of |-> v]
    [] v.t = "bin" -> M!Obj(<<>>)
    [] v.t = "arr" -> M!Arr([k \in DOMAIN v.items |-> Json(v.items[k])])
    [] v.t = "obj" ->
         LET sent == SelectSeq(v.fields, LAMBDA f : f[2].t \notin {"undefined", "function"})
         IN  M!Obj([k \in DOMAIN sent |-> <<sent[k][1], Json(sent[k][2])>>])
    [] OTHER -> v

\* JSON.stringify of an object; its first byte is a "{".
AsJson(pairs) == [first |-> 123, text |-> Json(Object(pairs))]
AsMsgPack(v) == LET bytes == M!Encode(v) IN [first |-> bytes[1], bytes |-> bytes]

\* The number an encoding uses for a message.
Typed(n) == <<"type", M!Small(n)>>
Pair(r, name) == <<name, r[name]>>

\* #encodeRequest
EncodeRequest(r) ==
  LET named(names) == [k \in DOMAIN names |-> Pair(r, names[k])]
  IN  CASE r.type = "BROADCAST" /\ r.requestId # M!Undefined ->
             AsMsgPack(Object(<<Typed(7)>> \o named(<<"uid", "requestId", "packet", "opts">>)))
        [] r.type = "BROADCAST" /\ r.requestId = M!Undefined ->
             AsMsgPack(M!Arr(<<r.uid, r.packet, r.opts>>))
        [] r.type = "SOCKETS_JOIN" -> AsJson(<<Typed(2)>> \o named(<<"uid", "opts", "rooms">>))
        [] r.type = "SOCKETS_LEAVE" -> AsJson(<<Typed(3)>> \o named(<<"uid", "opts", "rooms">>))
        [] r.type = "DISCONNECT_SOCKETS" -> AsJson(<<Typed(4)>> \o named(<<"uid", "opts", "close">>))
        [] r.type = "FETCH_SOCKETS" -> AsJson(<<Typed(5)>> \o named(<<"uid", "requestId", "opts">>))
        [] r.type = "SERVER_SIDE_EMIT" ->
             AsJson(<<Typed(6), <<"data", r.packet>> >> \o named(<<"uid", "requestId">>))

\* #encodeResponse
EncodeResponse(r) ==
  LET id == Pair(r, "requestId")
  IN  CASE r.type = "FETCH_SOCKETS_RESPONSE" -> AsJson(<<id, Pair(r, "sockets")>>)
        [] r.type = "SERVER_SIDE_EMIT_RESPONSE" -> AsJson(<<Typed(6), id, <<"data", r.packet>> >>)
        [] r.type = "BROADCAST_CLIENT_COUNT" -> AsJson(<<Typed(8), id, Pair(r, "clientCount")>>)
        [] r.type = "BROADCAST_ACK" -> AsMsgPack(Object(<<Typed(9), id, Pair(r, "packet")>>))

\* A message that starts with "{" is JSON.
Raw(written) == IF written.first = 123 THEN written.text ELSE M!Decode(written.bytes)

\* #decodeRequest
DecodeRequest(raw) ==
  LET type == Get(raw, "type")
      taken(names) == [f \in names |-> Get(raw, f)]
  IN  CASE type = M!Small(2) -> Wired("SOCKETS_JOIN", taken({"uid", "opts", "rooms"}))
        [] type = M!Small(3) -> Wired("SOCKETS_LEAVE", taken({"uid", "opts", "rooms"}))
        [] type = M!Small(4) -> Wired("DISCONNECT_SOCKETS", taken({"uid", "opts", "close"}))
        [] type = M!Small(5) -> Wired("FETCH_SOCKETS", taken({"uid", "requestId", "opts"}))
        [] type = M!Small(6) ->
             Wired("SERVER_SIDE_EMIT", taken({"uid", "requestId"}) @@ [packet |-> Get(raw, "data")])
        [] type = M!Small(7) -> Wired("BROADCAST", taken({"uid", "opts", "requestId", "packet"}))
        [] OTHER -> Wired("ignored", << >>)

\* The request in a message of the broadcast channel.
DecodeBroadcast(raw) ==
  Wired("BROADCAST", [uid |-> raw.items[1], packet |-> raw.items[2], opts |-> raw.items[3]])

\* #decodeResponse: without a type, it answers a fetchSockets().
DecodeResponse(raw) ==
  LET type == Get(raw, "type")
      id == [requestId |-> Get(raw, "requestId")]
  IN  CASE type \in {M!Undefined, M!Small(4)} ->
             Wired("FETCH_SOCKETS_RESPONSE", id @@ [sockets |-> Get(raw, "sockets")])
        [] type = M!Small(6) -> Wired("SERVER_SIDE_EMIT_RESPONSE", id @@ [packet |-> Get(raw, "data")])
        [] type = M!Small(8) ->
             Wired("BROADCAST_CLIENT_COUNT", id @@ [clientCount |-> Get(raw, "clientCount")])
        [] type = M!Small(9) -> Wired("BROADCAST_ACK", id @@ [packet |-> Get(raw, "packet")])
        [] OTHER -> Wired("ignored", << >>)

-----------------------------------------------------------------------------
(* RedisAdapter: the channels.                                             *)

\* publishRequest and publishResponse: a plain broadcast goes to the broadcast
\* channel, whose name ends with its room if it is for one room alone; a response
\* goes to the channel of the server that asked.
Channel(call) ==
  IF call.kind \in Responses THEN "response"
  ELSE IF call.kind = "broadcast" THEN "broadcast" ELSE "request"
RoomOf(call) == IF Channel(call) = "broadcast" /\ Len(call.rooms) = 1 THEN {call.rooms[1].text} ELSE {}

\* What is published, and what the server that reads it makes of it.
Written(call) == IF call.kind \in Responses THEN EncodeResponse(Given(call)) ELSE EncodeRequest(Given(call))
Understood(call) ==
  CASE Channel(call) = "broadcast" -> DecodeBroadcast(M!Decode(Written(call).bytes))
    [] Channel(call) = "request" -> DecodeRequest(Raw(Written(call)))
    [] Channel(call) = "response" -> DecodeResponse(Raw(Written(call)))

\* The calls enumerated: one alone with each payload, or several with the first
\* payload and any rooms.
Carrying == {"broadcast", "broadcastWithAck", "emit", "tell", "fetched", "emitted", "ack"}
Calls ==
  [kind : Carrying, payload : DOMAIN Payloads, rooms : {<<>>}]
    \union [kind : Requests \union Responses, payload : {1}, rooms : Targets]

\* As a function, which is evaluated once.
Understanding == [call \in Calls |-> Understood(call)]

More(payload) ==
  /\ Len(published) < MaxWritten
  /\ \A k \in DOMAIN published : published[k].payload = 1 /\ payload = 1

Publish(call) ==
  /\ More(call.payload)
  /\ published' = Append(published, call)
  /\ wire' = Append(wire, [channel |-> Channel(call), room |-> RoomOf(call), malformed |-> FALSE,
                           as |-> Understanding[call]])
  /\ UNCHANGED <<reading, heard>>

\* Bytes of somebody else, which decode and JSON.parse refuse.
PublishMalformed(channel) ==
  /\ More(1)
  /\ published' = Append(published, [kind |-> "malformed", channel |-> channel, payload |-> 1])
  /\ wire' = Append(wire, [channel |-> channel, room |-> {}, malformed |-> TRUE])
  /\ UNCHANGED <<reading, heard>>

-----------------------------------------------------------------------------
(* RedisAdapter: the loop over the subscription.                           *)

msg == Head(wire)
Position == Len(published) - Len(wire) + 1
Read == reading /\ wire # <<>> /\ wire' = Tail(wire) /\ UNCHANGED published
Ignore == UNCHANGED <<reading, heard>>

\* onRequest, onResponse and the listeners they call, which may throw.  That ends
\* the loop, unless it is in a broadcast, whose promise is not awaited.
Handle(as) ==
  \E throws \in IF as.type = "ignored" THEN {FALSE} ELSE BOOLEAN :
    /\ heard' = Append(heard, [call |-> Position, as |-> as, throws |-> throws])
    /\ reading' = (msg.channel = "broadcast" \/ ~throws)

\* An #onRawRequest without its try.
OnRawUnguarded ==
  /\ Read /\ msg.channel # "broadcast"
  /\ IF msg.malformed THEN reading' = FALSE /\ UNCHANGED heard
     ELSE Handle(msg.as)

\* #onRawRequest, #onRawResponse
OnRaw ==
  /\ Read /\ msg.channel # "broadcast"
  /\ IF msg.malformed THEN Ignore
     ELSE Handle(msg.as)

\* A search for the name as it is in the channel.
HasRoomByName(rooms, text) == \E room \in rooms : room.text = text /\ ~room.number

\* #hasRoom: what is a name in the channel may be a number.
HasRoom(rooms, text) == \E room \in rooms : room.text = text

\* #onBroadcastMessage, when the server has the rooms given.
OnBroadcastMessage(rooms) ==
  /\ Read /\ msg.channel = "broadcast"
  /\ IF \E text \in msg.room : ~HasRoom(rooms, text)
     THEN /\ heard' = Append(heard, [call |-> Position, unless |-> rooms])
          /\ UNCHANGED reading
     ELSE IF msg.malformed THEN reading' = FALSE /\ UNCHANGED heard
          ELSE Handle(msg.as)

Init == published = <<>> /\ wire = <<>> /\ reading = TRUE /\ heard = <<>>

Next ==
  \/ \E call \in Calls : Publish(call)
  \/ \E channel \in {"broadcast", "request", "response"} : PublishMalformed(channel)
  \/ OnRaw
  \/ \E rooms \in SUBSET Rooms : OnBroadcastMessage(rooms)

\* Redis brings what it accepted to a loop that still reads.
Reads == OnRaw \/ \E rooms \in SUBSET Rooms : OnBroadcastMessage(rooms)
Spec == Init /\ [][Next]_vars /\ WF_vars(Reads)

-----------------------------------------------------------------------------
(* Properties.                                                             *)

InMsgPack == {"broadcast", "broadcastWithAck", "ack"}
Handled == {k \in DOMAIN heard : "as" \in DOMAIN heard[k]}

\* A request or response is what it was, in each field, with the payload as its
\* format keeps it.
AsKept(call) ==
  LET given == Given(call)
      seen(v) == IF call.kind \in InMsgPack THEN M!Seen(v) ELSE Json(v)
  IN  [f \in DOMAIN given |->
         IF f = "type" \/ given[f] = M!Undefined THEN given[f] ELSE seen(given[f])]

Expected == [call \in Calls |-> AsKept(call)]
Keeps == [k \in DOMAIN Payloads |-> M!Kept(Payloads[k])]

\* Every request and response a server publishes is read as what it was, each of
\* its fields in place (mod.ts:122-490), whatever the data of the application:
\* MessagePack loses exactly the integers beyond 64 bits, lone surrogates and the
\* place of a view in its buffer (encode.ts:370-371), JSON what JSON does.
MessagesSurvive ==
  \A k \in Handled :
    LET call == published[heard[k].call] IN
    (heard[k].as = Expected[call]) <=> (call.kind \in InMsgPack => Keeps[call.payload])

\* A broadcast ignored for the room in the name of its channel would have
\* reached nobody (#hasRoom, mod.ts:313): the rooms of the server held none of
\* those it is for, be they strings or numbers.
IgnoredReachesNobody ==
  \A k \in DOMAIN heard \ Handled :
    \A r \in DOMAIN published[heard[k].call].rooms :
      published[heard[k].call].rooms[r] \notin heard[k].unless

\* The messages whose handling ends the loop (mod.ts:75-92): a listener throws in
\* a request or response, or a broadcast is malformed.
Ends(k) ==
  \/ k < Position /\ published[k].kind = "malformed" /\ published[k].channel = "broadcast"
  \/ \E h \in Handled : /\ heard[h].call = k /\ heard[h].throws
                        /\ published[k].kind # "broadcast"

\* Every message is read, in time, unless one before it ended the loop: a
\* malformed request or response, or one that is ignored, never does.
EveryMessageRead ==
  \A k \in 1..MaxWritten :
    k <= Len(published) ~> (k < Position \/ \E j \in 1..(k - 1) : Ends(j))
=============================================================================
