--------------------------- MODULE MCPacketParser ----------------------------
EXTENDS PacketParser

\* An object with a buffer, one that holds it and a buffer of its own, one without.
MCContents == [o \in {"o", "p", "q"} |->
  CASE o = "o" -> <<Buf("x")>> [] o = "p" -> <<Obj("o"), Buf("y")>> [] o = "q" -> <<Plain>>]
Values == {Buf("w"), Buf("v"), Plain} \union {Obj(o) : o \in {"o", "p", "q"}}
MCArguments == {<<>>} \union {<<v>> : v \in Values} \union {<<v, w>> : v \in Values, w \in Values}

One == <<Plain, Placeholder(0)>>
Two == <<Plain, Placeholder(1), Placeholder(0)>>
MCTexts ==
  {Text("EVENT", 0, payload, <<>>) : payload \in {"none", "malformed", "array", "object"}}
    \union {Text("BINARY_EVENT", n, "array", data) : n \in {0, 1, 2}, data \in {One, Two}}
    \union {Text("BINARY_ACK", n, "array", One) : n \in {1, -1}}
    \union {Text("EVENT", 0, "array", One), Text("ACK", 0, "array", <<>>),
            Text("CONNECT", 0, "object", <<>>), Text("CONNECT", 0, "string", <<>>),
            Text("CONNECT_ERROR", 0, "string", <<>>), Text("DISCONNECT", 0, "none", <<>>),
            Text("DISCONNECT", 0, "object", <<>>), Text("unknown", 0, "none", <<>>)}
=============================================================================
