--------------------------- MODULE MCRedisMessages ---------------------------
EXTENDS RedisMessages

LOCAL M == INSTANCE MsgPack

\* Numbers, times and lengths around the limits of each layout.
Limits == <<<<0, 0, 0, 0>>, <<0, 0, 0, 127>>, <<0, 0, 0, 128>>, <<0, 0, 1, 0>>, <<0, 1, 0, 0>>,
            <<127, 255, 255, 255>>, <<128, 0, 0, 0>>, <<255, 255, 127, 255>>, <<255, 255, 128, 0>>,
            <<255, 255, 255, 127>>, <<255, 255, 255, 223>>, <<255, 255, 255, 255>> >>
With(ext, high) == [k \in DOMAIN Limits |-> M!Whole(ext, high \o Limits[k])]
Numbers ==
  With(0, <<0, 0, 0, 0>>) \o With(0, <<0, 0, 0, 1>>)
    \o With(-1, <<255, 255, 255, 255>>) \o With(-1, <<255, 255, 255, 254>>)
    \o <<M!Whole(1, M!Repeat(0, 8)), M!Whole(-1, <<127>> \o M!Repeat(255, 7))>>
At(high, low, ms) == M!Date(M!Whole(0, <<0, 0, 0, high>> \o M!Repeat(low, 4)), ms)
Times == <<At(0, 0, 0), At(0, 255, 0), At(0, 255, 999), At(3, 255, 0), At(3, 255, 999), At(4, 0, 1),
           M!Date(M!Whole(-1, M!Repeat(255, 8)), 1)>>
Strings ==
  [n \in 1..3 |-> M!Str(M!Repeat(97, <<0, 31, 32>>[n]))]
    \o <<M!Str(M!Repeat(2048, 85)), M!Str(<<97>> \o M!Repeat(2048, 85)),
         M!Str(<<127, 128, 2047, 2048, 55357, 56832, 65535>>), M!Str(<<97, 55357>>)>>
Buffers ==
  [n \in 1..5 |-> M!Bin(M!Repeat(7, <<0, 255, 256, 65535, 65536>>[n]))]
    \o <<[t |-> "bin", buffer |-> <<1, 2, 3>>, from |-> 1, len |-> 2]>>
Mixed == <<M!Str(<<97>>), M!Bin(<<>>), [t |-> "float", b |-> <<63, 1, 2, 3, 4, 5, 6, 7>>],
           M!Undefined, M!Str(<<>>), M!Small(-33), [t |-> "bool", is |-> TRUE]>>
Structures ==
  <<M!Arr(Mixed), M!Arr(<<M!Arr(Mixed), M!Small(200)>>),
    M!Obj(<< <<<<97>>, [t |-> "function"]>>, <<<<98>>, M!Arr(Mixed)>> >>)>>
    \o [n \in 1..2 |-> M!Arr([i \in 1..(14 + n) |-> Mixed[(i % 7) + 1]])]
    \o [n \in 1..2 |-> M!Obj([i \in 1..(14 + n) |-> <<<<i>>, Mixed[(i % 7) + 1]>>])]

MCPayloads == <<M!Arr(<<M!Str(<<97>>), M!Bin(<<1>>)>>)>>
                \o Numbers \o Times \o Strings \o Buffers \o Structures
MCRooms == {[text |-> 1, number |-> TRUE], [text |-> 1, number |-> FALSE], [text |-> 2, number |-> FALSE]}
=============================================================================
