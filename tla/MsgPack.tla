------------------------------- MODULE MsgPack -------------------------------
(***************************************************************************)
(* The MessagePack codec of msgpack/lib/encode.ts and decode.ts: which of  *)
(* its layouts encode takes for a value, how it puts the deferred blocks   *)
(* (strings, buffers, floats) among the bytes, and what decode makes of    *)
(* them.  Bytes are numbers, at their real width.                          *)
(*                                                                         *)
(* A value is a record whose field t is its type:                          *)
(*   nil, undefined, function                                              *)
(*   bool   is                                                             *)
(*   int    ext, b: the number ext * 2^64 + b, where b is 8 bytes          *)
(*   float  b: any other number, as its 8 bytes                            *)
(*   str    units: its UTF-16 units                                        *)
(*   bin    buffer, from, len: a view of len bytes of a buffer             *)
(*   date   ext, b, ms: a time in seconds, as int, and milliseconds        *)
(*   arr    items                                                          *)
(*   obj    fields: pairs of a key, a string, and a value                  *)
(* Left out: lengths of 2^32 and more, which encode refuses, and in decode  *)
(* a truncated input, the prefix 0xc1, of which it throws, and 32-bit      *)
(* floats, which encode does not write.                                    *)
(***************************************************************************)
EXTENDS Integers, Sequences

Nil == [t |-> "nil"]
Undefined == [t |-> "undefined"]
Whole(ext, b) == [t |-> "int", ext |-> ext, b |-> b]
Str(units) == [t |-> "str", units |-> units]
Bin(bytes) == [t |-> "bin", buffer |-> bytes, from |-> 0, len |-> Len(bytes)]
Arr(items) == [t |-> "arr", items |-> items]
Obj(fields) == [t |-> "obj", fields |-> fields]

Bytes(n, w) == [i \in 1..w |-> (n \div 256^(w - i)) % 256]
Repeat(byte, n) == [i \in 1..n |-> byte]
Small(n) == IF n >= 0 THEN Whole(0, Repeat(0, 7) \o <<n>>) ELSE Whole(-1, Repeat(255, 7) \o <<n + 256>>)
Low(b, w) == SubSeq(b, Len(b) - w + 1, Len(b))

-----------------------------------------------------------------------------
(* UTF-8.                                                                  *)

IsSurrogate(c) == c >= 55296 /\ c < 57344

\* The unit after a surrogate; charCodeAt beyond the end is NaN, which counts as 0.
Second(units) == IF Len(units) > 1 THEN units[2] ELSE 0
After(units) == IF IsSurrogate(units[1]) THEN SubSeq(units, 3, Len(units)) ELSE Tail(units)

RECURSIVE Utf8Length(_), Utf8Write(_), Utf8Read(_)
Utf8Length(units) ==
  IF units = <<>> THEN 0
  ELSE LET c == units[1]
       IN  (IF c < 128 THEN 1 ELSE IF c < 2048 THEN 2 ELSE IF IsSurrogate(c) THEN 4 ELSE 3)
             + Utf8Length(After(units))

Utf8Write(units) ==
  IF units = <<>> THEN <<>>
  ELSE LET c == units[1]
           pair == 65536 + ((c % 1024) * 1024) + (Second(units) % 1024)
           low(n) == 128 + (n % 64)
       IN  (IF c < 128 THEN <<c>>
            ELSE IF c < 2048 THEN <<192 + (c \div 64), low(c)>>
            ELSE IF IsSurrogate(c)
                 THEN <<240 + (pair \div 262144), low(pair \div 4096), low(pair \div 64), low(pair)>>
            ELSE <<224 + (c \div 4096), low(c \div 64), low(c)>>) \o Utf8Write(After(units))

Utf8Read(b) ==
  IF b = <<>> THEN <<>>
  ELSE LET rest(n) == Utf8Read(SubSeq(b, n + 1, Len(b)))
           two == (b[1] % 32) * 64 + (b[2] % 64)
           three == (b[1] % 16) * 4096 + (b[2] % 64) * 64 + (b[3] % 64)
           four == (b[1] % 8) * 262144 + (b[2] % 64) * 4096 + (b[3] % 64) * 64 + (b[4] % 64)
           pair == four - 65536
       IN  IF b[1] < 128 THEN <<b[1]>> \o rest(1)
           ELSE IF b[1] < 224 THEN <<two>> \o rest(2)
           ELSE IF b[1] < 240 THEN <<three>> \o rest(3)
           ELSE (IF four >= 65536 THEN <<(pair \div 1024) + 55296, (pair % 1024) + 56320>>
                 ELSE <<four>>) \o rest(4)

-----------------------------------------------------------------------------
(* Encoding.                                                               *)

\* What _encode adds to its arguments: bytes, deferred blocks with the number
\* of bytes they come after, and the size it returns.
Plain(bytes) == [bytes |-> bytes, defers |-> <<>>, size |-> Len(bytes)]
Deferred(bytes, block, length) ==
  [bytes |-> bytes, size |-> Len(bytes) + length,
   defers |-> <<[block |-> block, length |-> length, offset |-> Len(bytes)]>>]

\* The narrowest of the widths ws that fits.
Narrowest(ws, Fits(_)) == CHOOSE w \in ws : Fits(w) /\ \A v \in ws : Fits(v) => w <= v

\* A length: in the prefix below max, else in as many bytes as it needs.
Header(n, max, fix, prefixes) ==
  IF n < max THEN <<fix + n>>
  ELSE LET w == Narrowest(DOMAIN prefixes, LAMBDA v : v = 4 \/ n < 256^v)
       IN  <<prefixes[w]>> \o Bytes(n, w)

StrHeader(n) == Header(n, 32, 160, [w \in {1, 2, 4} |-> 217 + (w \div 2)])
BinHeader(n) == Header(n, 0, 0, [w \in {1, 2, 4} |-> 196 + (w \div 2)])
ArrHeader(n) == Header(n, 16, 144, [w \in {2, 4} |-> 219 + (w \div 2)])
MapHeader(n) == Header(n, 16, 128, [w \in {2, 4} |-> 221 + (w \div 2)])

\* Widths taken by the unsigned range for negative numbers too.
SignedLate(v, w) == w = 8 \/ (v.ext = -1 /\ \A i \in 1..(8 - w) : v.b[i] = 255)

\* value < 2^(8 * w), and value >= -2^(8 * w - 1), of a number of its sign
Unsigned(v, w) == w = 8 \/ (v.ext = 0 /\ \A i \in 1..(8 - w) : v.b[i] = 0)
Signed(v, w) == w = 8 \/ (v.ext = -1 /\ v.b[9 - w] >= 128 /\ \A i \in 1..(8 - w) : v.b[i] = 255)

Widths == {1, 2, 4, 8}
Log == [w \in Widths |-> CASE w = 1 -> 0 [] w = 2 -> 1 [] w = 4 -> 2 [] w = 8 -> 3]

EncodeInt(v) ==
  LET w == Narrowest(Widths, LAMBDA x : IF v.ext >= 0 THEN Unsigned(v, x) ELSE Signed(v, x))
      prefix == (IF v.ext >= 0 THEN 204 ELSE 208) + Log[w]
      fixnum == IF v.ext >= 0 THEN w = 1 /\ v.b[8] < 128 ELSE w = 1 /\ v.b[8] >= 224
  IN  IF fixnum THEN <<v.b[8]>> ELSE <<prefix>> \o Low(v.b, w)

\* A date: three layouts, by the size of the seconds.  ns >> 6 loses nothing,
\* since ns is a multiple of 10^6.
EncodeDate(v) ==
  LET ns == v.ms * 1000000
      seconds32 == v.ext = 0 /\ \A i \in 1..4 : v.b[i] = 0
      seconds34 == v.ext = 0 /\ v.b[4] < 4 /\ \A i \in 1..3 : v.b[i] = 0
  IN  IF seconds32 /\ ns = 0 THEN <<214, 255>> \o Low(v.b, 4)
      ELSE IF seconds34 THEN <<215, 255>> \o Bytes(ns \div 64, 3) \o Low(v.b, 5)
      ELSE <<199, 12, 255>> \o Bytes(ns, 4) \o v.b

\* The keys and the values of the fields, in turn.
Interleaved(fields) ==
  [k \in 1..(2 * Len(fields)) |-> IF k % 2 = 1 THEN Str(fields[(k + 1) \div 2][1])
                                  ELSE fields[k \div 2][2]]

IsSent(field) == field[2].t \notin {"undefined", "function"}

RECURSIVE EncodeValue(_), EncodeAll(_, _)
\* The values, one after the other.
EncodeAll(before, values) ==
  IF values = <<>> THEN before
  ELSE LET e == EncodeValue(Head(values))
           moved == [k \in DOMAIN e.defers |->
                       [e.defers[k] EXCEPT !.offset = @ + Len(before.bytes)]]
       IN  EncodeAll([bytes |-> before.bytes \o e.bytes, size |-> before.size + e.size,
                      defers |-> before.defers \o moved], Tail(values))

EncodeValue(v) ==
  LET sent == IF v.t = "obj" THEN SelectSeq(v.fields, IsSent) ELSE <<>>
  IN  CASE v.t \in {"nil", "undefined"} -> Plain(<<192>>)
        [] v.t = "bool" -> Plain(<<IF v.is THEN 195 ELSE 194>>)
        [] v.t = "int" -> Plain(EncodeInt(v))
        [] v.t = "float" -> Deferred(<<203>>, v.b, 8)
        [] v.t = "str" -> LET n == Utf8Length(v.units)
                          IN  Deferred(StrHeader(n), Utf8Write(v.units), n)
        \* from the beginning of the buffer, wherever the view is
        [] v.t = "bin" -> Deferred(BinHeader(v.len), SubSeq(v.buffer, 1, v.len), v.len)
        [] v.t = "date" -> Plain(EncodeDate(v))
        [] v.t = "arr" -> EncodeAll(Plain(ArrHeader(Len(v.items))), v.items)
        [] v.t = "obj" -> EncodeAll(Plain(MapHeader(Len(sent))), Interleaved(sent))

\* view.setUint8, of several bytes
Put(view, at, bytes) ==
  [p \in DOMAIN view |-> IF p - at \in DOMAIN bytes THEN bytes[p - at] ELSE view[p]]

\* The loop of encode: each byte moves by the length of the blocks written so
\* far, and a block follows the byte that its offset counts.
Write(st, byte) ==
  LET n == st.read + 1
      view == Put(st.view, st.written + n - 1, <<byte>>)
  IN  IF st.defers # <<>> /\ st.defers[1].offset = n
      THEN [view |-> Put(view, st.written + n, st.defers[1].block), read |-> n,
            written |-> st.written + st.defers[1].length, defers |-> Tail(st.defers)]
      ELSE [st EXCEPT !.view = view, !.read = n]

RECURSIVE Written(_, _)
Written(st, bytes) == IF bytes = <<>> THEN st.view ELSE Written(Write(st, Head(bytes)), Tail(bytes))

Encode(v) ==
  LET e == EncodeValue(v)
  IN  Written([view |-> Repeat(0, e.size), read |-> 0, written |-> 0, defers |-> e.defers], e.bytes)

-----------------------------------------------------------------------------
(* Decoding.  A result is a value and the offset after it.                 *)

At(in, o, w) == SubSeq(in, o + 1, o + w)
RECURSIVE Number(_)
Number(b) == IF b = <<>> THEN 0 ELSE Number(SubSeq(b, 1, Len(b) - 1)) * 256 + b[Len(b)]
Result(v, o) == [value |-> v, offset |-> o]

DecodeUint(b) == Whole(0, Repeat(0, 8 - Len(b)) \o b)
DecodeInt(b) == IF b[1] >= 128 THEN Whole(-1, Repeat(255, 8 - Len(b)) \o b) ELSE DecodeUint(b)

Date(v, ms) == [t |-> "date", ext |-> v.ext, b |-> v.b, ms |-> ms]

\* Extension types: -1 is a date, 0 stands for undefined in one byte and for a
\* date of an older encoding in eight; any other one is given with its content.
DecodeExt(prefix, type, b) ==
  CASE type = 255 /\ prefix = 214 -> Date(DecodeUint(b), 0)
    [] type = 255 /\ prefix = 215 ->
         Date(DecodeUint(<<b[4] % 4>> \o Low(b, 4)),
              (Number(SubSeq(b, 1, 3)) * 64 + (b[4] \div 4)) \div 1000000)
    [] type = 255 /\ prefix = 199 ->
         Date(DecodeInt(Low(b, 8)), Number(SubSeq(b, 1, 4)) \div 1000000)
    [] type = 0 /\ prefix = 212 -> Undefined
    [] type = 0 /\ prefix = 215 -> [t |-> "date", since |-> b]
    [] OTHER -> Arr(<<DecodeInt(<<type>>), Bin(b)>>)

RECURSIVE Parse(_, _), ParseItems(_, _, _)
\* _array and, with two values for each key, _map
ParseItems(in, o, n) ==
  IF n = 0 THEN Result(<<>>, o)
  ELSE LET head == Parse(in, o)
           rest == ParseItems(in, head.offset, n - 1)
       IN  Result(<<head.value>> \o rest.value, rest.offset)

Parse(in, o) ==
  LET prefix == in[o + 1]
      length(w) == Number(At(in, o + 1, w))
      str(h, n) == Result(Str(Utf8Read(At(in, o + h, n))), o + h + n)
      bin(h, n) == Result(Bin(At(in, o + h, n)), o + h + n)
      ext(h, n) == Result(DecodeExt(prefix, in[o + h], At(in, o + h, n)), o + h + n)
      arr(h, n) == LET r == ParseItems(in, o + h, n) IN Result(Arr(r.value), r.offset)
      map(h, n) == LET r == ParseItems(in, o + h, 2 * n)
                   IN  Result(Obj([k \in 1..n |-> <<r.value[2 * k - 1].units, r.value[2 * k]>>]), r.offset)
      wide == [k \in 0..3 |-> 2^k]
  IN  CASE prefix < 128 -> Result(Small(prefix), o + 1)
        [] prefix \in 128..143 -> map(1, prefix - 128)
        [] prefix \in 144..159 -> arr(1, prefix - 144)
        [] prefix \in 160..191 -> str(1, prefix - 160)
        [] prefix = 192 -> Result(Nil, o + 1)
        [] prefix \in {194, 195} -> Result([t |-> "bool", is |-> prefix = 195], o + 1)
        [] prefix \in 196..198 -> LET w == wide[prefix - 196] IN bin(1 + w, length(w))
        [] prefix \in 199..201 -> LET w == wide[prefix - 199] IN ext(2 + w, length(w))
        [] prefix = 203 -> Result([t |-> "float", b |-> At(in, o + 1, 8)], o + 9)
        [] prefix \in 204..207 ->
             LET w == wide[prefix - 204] IN Result(DecodeUint(At(in, o + 1, w)), o + 1 + w)
        [] prefix \in 208..211 ->
             LET w == wide[prefix - 208] IN Result(DecodeInt(At(in, o + 1, w)), o + 1 + w)
        [] prefix \in 212..216 -> ext(2, 2^(prefix - 212))
        [] prefix \in 217..219 -> LET w == wide[prefix - 217] IN str(1 + w, length(w))
        [] prefix \in 220..221 -> LET w == wide[prefix - 219] IN arr(1 + w, length(w))
        [] prefix \in 222..223 -> LET w == wide[prefix - 221] IN map(1 + w, length(w))
        [] prefix > 223 -> Result(Small(prefix - 256), o + 1)

\* decode; trailing bytes are an error.
Decode(in) ==
  LET r == Parse(in, 0) IN IF r.offset = Len(in) THEN r.value ELSE [t |-> "error"]

-----------------------------------------------------------------------------
\* What a value is to its reader: undefined is null, and a field that is
\* undefined or a function is not there; a view is its own buffer.
RECURSIVE Seen(_)
Seen(v) ==
  CASE v.t = "undefined" -> Nil
    [] v.t = "bin" -> Bin(SubSeq(v.buffer, v.from + 1, v.from + v.len))
    [] v.t = "arr" -> Arr([k \in DOMAIN v.items |-> Seen(v.items[k])])
    [] v.t = "obj" -> LET sent == SelectSeq(v.fields, IsSent)
                      IN  Obj([k \in DOMAIN sent |-> <<sent[k][1], Seen(sent[k][2])>>])
    [] OTHER -> v

Paired(units) ==
  \A i \in DOMAIN units : IsSurrogate(units[i]) =>
    IF units[i] < 56320 THEN i < Len(units) /\ units[i + 1] \in 56320..57343
    ELSE i > 1 /\ units[i - 1] \in 55296..56319

\* What encode keeps: integers from -2^63 to 2^64 - 1, strings without lone
\* surrogates, views that begin where their buffer does.
RECURSIVE Kept(_)
Kept(v) ==
  CASE v.t = "int" -> v.ext = 0 \/ (v.ext = -1 /\ v.b[1] >= 128)
    [] v.t = "str" -> Paired(v.units)
    [] v.t = "bin" -> SubSeq(v.buffer, 1, v.len) = SubSeq(v.buffer, v.from + 1, v.from + v.len)
    [] v.t = "arr" -> \A k \in DOMAIN v.items : Kept(v.items[k])
    [] v.t = "obj" -> \A k \in DOMAIN v.fields :
                        IsSent(v.fields[k]) => Paired(v.fields[k][1]) /\ Kept(v.fields[k][2])
    [] OTHER -> TRUE
=============================================================================
