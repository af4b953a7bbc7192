---------------------------- MODULE PacketParser -----------------------------
(***************************************************************************)
(* The Encoder and the Decoder of socket.io-parser/mod.ts, at the two ends *)
(* of a connection that keeps the order of messages.  A packet with binary *)
(* data is a text, in which placeholders stand for the buffers, and the    *)
(* buffers after it.                                                       *)
(*                                                                         *)
(* The encoder puts the placeholders into the very objects the application *)
(* emits, so that the application's objects are part of the state.  The    *)
(* peer either uses the Encoder too or writes any messages at all.         *)
(*                                                                         *)
(* A value is a record whose field t is its type: buf (a buffer), obj (one *)
(* of Objects), plain (all other data), ph (a placeholder); in a text, map *)
(* stands for the content of an object; undefined is what is not there.    *)
(***************************************************************************)
EXTENDS Integers, Sequences, SequencesExt

CONSTANTS
  Contents,   \* the application's objects, as it made them: sequences of values
  Arguments,  \* what it may emit: sequences of values
  Texts,      \* texts another program may write
  MaxPackets, \* bound: how many packets the Encoder encodes
  MaxMessages \* bound: how many messages another program writes

VARIABLES
  peer,     \* who writes: "encoder" or "any"
  objects,  \* the application's objects, as they are now
  given,    \* history: the packets given to encode
  written,  \* history: the messages written to the connection
  heard,    \* how many of them the decoder was given
  buffer,   \* Decoder.buffer: <<>>, or the packet and its attachments so far
  read,     \* the packets the decoder emitted
  closed    \* whether the Client is closed, and its decoder with it

vars == <<peer, objects, given, written, heard, buffer, read, closed>>

Buf(name) == [t |-> "buf", of |-> name]
Obj(name) == [t |-> "obj", of |-> name]
Plain == [t |-> "plain"]
Placeholder(num) == [t |-> "ph", num |-> num]
Undefined == [t |-> "undefined"]

Binary == {"BINARY_EVENT", "BINARY_ACK"}
InBinary(type) == IF type = "EVENT" THEN "BINARY_EVENT" ELSE "BINARY_ACK"
Text(type, count, payload, data) ==
  [text |-> TRUE, type |-> type, count |-> count, payload |-> payload, data |-> data]
Attachment(b) == [text |-> FALSE, of |-> b]

-----------------------------------------------------------------------------
(* Encoder.                                                                *)

\* extractAttachments, of one element: what becomes of the objects, of the
\* attachments and of the elements before it.
RECURSIVE Extract(_, _)
Extract(acc, v) ==
  CASE v.t = "buf" ->
         [acc EXCEPT !.attachments = Append(@, v),
                     !.values = Append(@, Placeholder(Len(acc.attachments)))]
    [] v.t = "obj" ->
         LET inside == FoldLeft(Extract, [acc EXCEPT !.values = <<>>], acc.objects[v.of])
         IN  [inside EXCEPT !.objects[v.of] = inside.values, !.values = Append(acc.values, v)]
    [] OTHER -> [acc EXCEPT !.values = Append(@, v)]

\* JSON.stringify
RECURSIVE Stringified(_, _)
Stringified(objs, values) ==
  [k \in DOMAIN values |->
     IF values[k].t = "obj" THEN [t |-> "map", fields |-> Stringified(objs, objs[values[k].of])]
     ELSE values[k]]

\* Encoder.encode of a packet of the application: a name, or nothing for an ACK,
\* and its arguments.
Encode(type, args) ==
  LET e == FoldLeft(Extract, [objects |-> objects, attachments |-> <<>>, values |-> <<>>], args)
      n == Len(e.attachments)
      named == IF type = "EVENT" THEN <<Plain>> ELSE <<>>
  IN  /\ objects' = e.objects
      /\ written' = written
           \o <<Text(IF n = 0 THEN type ELSE InBinary(type),
                     n, "array", named \o Stringified(e.objects, e.values))>>
           \o [k \in 1..n |-> Attachment(e.attachments[k])]

Emit(type, args) ==
  /\ peer = "encoder" /\ Len(given) < MaxPackets
  /\ given' = Append(given, [type |-> type, args |-> args])
  /\ Encode(type, args)
  /\ UNCHANGED <<peer, heard, buffer, read, closed>>

\* Another program writes.
WriteAny(message) ==
  /\ peer = "any" /\ Len(written) < MaxMessages
  /\ written' = Append(written, message)
  /\ UNCHANGED <<peer, objects, given, heard, buffer, read, closed>>

-----------------------------------------------------------------------------
(* Decoder.                                                                *)

\* isPayloadValid; typeof an array is "object" too, and an EVENT's is not empty.
IsPayloadValid(m) ==
  CASE m.type = "CONNECT" -> m.payload \in {"object", "array"}
    [] m.type = "DISCONNECT" -> FALSE
    [] m.type = "CONNECT_ERROR" -> m.payload \in {"string", "object", "array"}
    [] m.type \in {"EVENT", "BINARY_EVENT"} -> m.payload = "array" /\ m.data # <<>>
    [] m.type \in {"ACK", "BINARY_ACK"} -> m.payload = "array"

\* decodeString gives a packet and not null: the type is known, the count of
\* attachments is a number (-1 stands for what is not), and the payload, if there
\* is any, is JSON and of the type's shape.
Decodes(m) ==
  /\ m.type # "unknown"
  /\ m.type \in Binary => m.count >= 0
  /\ m.payload # "none" => m.payload # "malformed" /\ IsPayloadValid(m)

\* An injection that takes the attachments from the end.
InjectLast(acc, v) ==
  IF v.t # "ph" \/ acc.attachments = <<>> THEN [acc EXCEPT !.values = Append(@, v)]
  ELSE [attachments |-> Front(acc.attachments), values |-> Append(acc.values, Last(acc.attachments))]

\* injectAttachments, of one element: the next attachment for each placeholder,
\* whatever its num.
RECURSIVE Inject(_, _)
Inject(acc, v) ==
  CASE v.t = "ph" ->
         IF acc.attachments = <<>> THEN [acc EXCEPT !.values = Append(@, Undefined)]
         ELSE [attachments |-> Tail(acc.attachments),
               values |-> Append(acc.values, Head(acc.attachments))]
    [] v.t = "map" ->
         LET inside == FoldLeft(Inject, [acc EXCEPT !.values = <<>>], v.fields)
         IN  [inside EXCEPT !.values = Append(acc.values, [t |-> "map", fields |-> inside.values])]
    [] OTHER -> [acc EXCEPT !.values = Append(@, v)]

Injected(data, attachments) ==
  FoldLeft(Inject, [attachments |-> attachments, values |-> <<>>], data).values

Packet(m, data) == [type |-> m.type, data |-> data, at |-> heard + 1, count |-> 0]

\* "error": Client.onclose, where the decoder is destroyed.
Fail == closed' = TRUE /\ buffer' = <<>> /\ UNCHANGED read

AddText(m) ==
  IF ~Decodes(m) THEN Fail
  ELSE IF m.type \in Binary /\ m.count # 0
  THEN /\ buffer' = <<[packet |-> Packet(m, m.data), count |-> m.count, attachments |-> <<>>]>>
       /\ UNCHANGED <<read, closed>>
  ELSE /\ read' = Append(read, Packet(m, m.data))
       /\ UNCHANGED <<buffer, closed>>

AddAttachment(m) ==
  LET b == buffer[1]  attachments == Append(b.attachments, m.of) IN
  IF Len(attachments) = b.count
  THEN /\ read' = Append(read, [b.packet EXCEPT !.data = Injected(@, attachments), !.count = b.count])
       /\ buffer' = <<>> /\ UNCHANGED closed
  ELSE buffer' = <<[b EXCEPT !.attachments = attachments]>> /\ UNCHANGED <<read, closed>>

\* A Decoder.add that takes a text in the middle of a packet for the next one.
AddAnyText(m) ==
  IF m.text THEN AddText(m) ELSE IF buffer # <<>> THEN AddAttachment(m) ELSE Fail

\* Decoder.add
Add(m) ==
  IF m.text = (buffer # <<>>) THEN Fail ELSE IF m.text THEN AddText(m) ELSE AddAttachment(m)

\* The connection brings the next message to a Client that listens to it.
Receive ==
  /\ ~closed /\ heard < Len(written)
  /\ heard' = heard + 1
  /\ Add(written[heard + 1])
  /\ UNCHANGED <<peer, objects, given, written>>

\* Client.onclose, for any other reason.
Close ==
  /\ ~closed /\ closed' = TRUE /\ buffer' = <<>>
  /\ UNCHANGED <<peer, objects, given, written, heard, read>>

Init ==
  /\ peer \in {"encoder", "any"} /\ objects = Contents
  /\ given = <<>> /\ written = <<>> /\ heard = 0
  /\ buffer = <<>> /\ read = <<>> /\ closed = FALSE

Next ==
  \/ \E type \in {"EVENT", "ACK"}, args \in Arguments : Emit(type, args)
  \/ \E m \in Texts \union {Attachment(Buf("z"))} : WriteAny(m)
  \/ Receive \/ Close

Spec == Init /\ [][Next]_vars

-----------------------------------------------------------------------------
(* Properties.                                                             *)

\* The objects that hold buffers among the values, in the order of the traversal.
RECURSIVE Holders(_)
Holders(values) ==
  FlattenSeq([k \in DOMAIN values |->
    IF values[k].t # "obj" THEN <<>>
    ELSE LET inside == Contents[values[k].of]
         IN  (IF \E i \in DOMAIN inside : inside[i].t = "buf" THEN <<values[k].of>> ELSE <<>>)
               \o Holders(inside)])
Encoded(k) == FlattenSeq([i \in 1..k |-> Holders(given[i].args)])
Once(name, names) == Len(SelectSeq(names, LAMBDA n : n = name)) = 1

\* The reader of a connection gets each packet as the application gave it, in
\* order, with every buffer in its place, just when none of the packet's objects
\* that hold buffers was encoded before: extractAttachments (mod.ts:74-102) leaves
\* placeholders in it, which "won't work with nested binary elements"
\* (socket.io/lib/adapter.ts:144).
ReadAsGiven ==
  peer = "encoder" => \A k \in DOMAIN read :
    LET packet == given[k]
        meant == (IF packet.type = "EVENT" THEN <<Plain>> ELSE <<>>) \o Stringified(Contents, packet.args)
    IN  (/\ read[k].data = meant
         /\ read[k].type \in {packet.type, InBinary(packet.type)})
          <=> \A i \in DOMAIN Holders(packet.args) : Once(Holders(packet.args)[i], Encoded(k))

\* The packets read, the one under construction and the message that was refused
\* account for every message the decoder was given, each once, whatever the peer
\* writes (Decoder.add, mod.ts:122-160): a text, then just its attachments.
MessagesAccounted ==
  LET end(k) == IF k = 0 THEN 0 ELSE read[k].at + read[k].count
      rest == heard - end(Len(read))
  IN  /\ \A k \in DOMAIN read :
           /\ read[k].at = end(k - 1) + 1 /\ written[read[k].at].text
           /\ \A i \in 1..read[k].count : ~written[read[k].at + i].text
           /\ read[k].type \in Binary => read[k].count = written[read[k].at].count
      /\ ~closed => rest = IF buffer = <<>> THEN 0 ELSE 1 + Len(buffer[1].attachments)
=============================================================================
