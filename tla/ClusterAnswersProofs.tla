------------------------ MODULE ClusterAnswersProofs ------------------------
(***************************************************************************)
(* ResponsesExact, AckedMeansAnswered and ClusterCompletes hold for any    *)
(* cluster, any calls and any changes: a fetchSockets() or a               *)
(* serverSideEmit() that succeeds has the answer of every other server,    *)
(* once each; a broadcast that succeeds has been acknowledged by everybody *)
(* it ever reaches; and once everybody has answered, no call waits.        *)
(*                                                                         *)
(* The invariant AskOp follows the question of each call to each server.   *)
(* It is a single token: on its way to Redis, on its way to the server,    *)
(* with a listener that has not answered yet, and then the answer on its   *)
(* way back, or given.  As long as the servers that listen are those that  *)
(* were counted, no other server holds such a token, so that what is given *)
(* is given by a server that was counted; and as many distinct servers as  *)
(* were counted are all of them.                                           *)
(*                                                                         *)
(* The invariant Acking does so for a broadcast: what has still to come to *)
(* a server, the number of clients that it is telling, the clients that    *)
(* were reached, and their acknowledgements.  The caller's two counts are  *)
(* those of the servers that have reported and of the clients they         *)
(* reached, so that neither is complete before nothing is under way.       *)
(*                                                                         *)
(* The invariant Lossless is the other half of AskOp: no step takes a      *)
(* token from a server that listens (Steady), so that an open question     *)
(* has one for each of the others, and each of them has answered once      *)
(* nothing is under way.                                                   *)
(***************************************************************************)
EXTENDS ClusterAdapterProofs

-----------------------------------------------------------------------------
(* Counting in sequences.                                                  *)

\* How many elements of q are in V.
Count(q, V) == Cardinality({k \in DOMAIN q : q[k] \in V})

LEMMA CountType ==
  ASSUME NEW S, NEW q \in Seq(S), NEW V
  PROVE  /\ IsFiniteSet({k \in DOMAIN q : q[k] \in V}) /\ Count(q, V) \in Nat
         /\ Count(q, V) = 0 <=> \A k \in DOMAIN q : q[k] \notin V
<1> DEFINE A == {k \in DOMAIN q : q[k] \in V}
<1>1. DOMAIN q = 1 .. Len(q) /\ Len(q) \in Nat
  OBVIOUS
<1>2. IsFiniteSet(DOMAIN q)
  BY <1>1, FS_Interval
<1>3. A \in SUBSET DOMAIN q
  OBVIOUS
<1>4. IsFiniteSet(A) /\ Cardinality(A) \in Nat
  BY <1>2, <1>3, FS_Subset, FS_CardinalityType
<1>5. Cardinality(A) = 0 <=> A = {}
  BY <1>4, FS_EmptySet
<1> QED BY <1>4, <1>5 DEF Count

LEMMA CountEmpty == \A V : Count(<<>>, V) = 0
<1>1. <<>> \in Seq({}) /\ DOMAIN <<>> = {}
  OBVIOUS
<1> QED BY <1>1, CountType

LEMMA CountOne == \A m, V : Count(<<m>>, V) = IF m \in V THEN 1 ELSE 0
<1> TAKE m, V
<1>1. DOMAIN <<m>> = {1} /\ <<m>>[1] = m
  OBVIOUS
<1>2. CASE m \in V
  <2>1. {k \in DOMAIN <<m>> : <<m>>[k] \in V} = {1}
    BY <1>1, <1>2
  <2> QED BY <1>2, <2>1, FS_Singleton DEF Count
<1>3. CASE m \notin V
  <2>1. {k \in DOMAIN <<m>> : <<m>>[k] \in V} = {}
    BY <1>1, <1>3
  <2> QED BY <1>3, <2>1, FS_EmptySet DEF Count
<1> QED BY <1>2, <1>3

\* Joined sequences have the elements of both.
LEMMA CountJoined ==
  ASSUME NEW S, NEW q \in Seq(S), NEW r \in Seq(S), NEW V
  PROVE  Count(q \o r, V) = Count(q, V) + Count(r, V)
<1> DEFINE A == {k \in DOMAIN q : q[k] \in V}
           B == {j \in DOMAIN r : r[j] \in V}
           C == {Len(q) + j : j \in B}
           D == {k \in DOMAIN (q \o r) : (q \o r)[k] \in V}
           f == [j \in B |-> Len(q) + j]
<1>1. /\ \A k \in DOMAIN q : k \in DOMAIN (q \o r) /\ (q \o r)[k] = q[k]
      /\ \A j \in DOMAIN r : Len(q) + j \in DOMAIN (q \o r) /\ (q \o r)[Len(q) + j] = r[j]
      /\ \A k \in DOMAIN (q \o r) : k \in DOMAIN q \/ \E j \in DOMAIN r : k = Len(q) + j
  BY Joined
<1>2. D = A \union C
  BY <1>1
<1>3. /\ Len(q) \in Nat /\ DOMAIN q = 1 .. Len(q) /\ DOMAIN r = 1 .. Len(r) /\ Len(r) \in Nat
  OBVIOUS
<1>4. A \intersect C = {}
  BY <1>3
<1>5. f \in Bijection(B, C)
  <2>1. \A j, k \in B : Len(q) + j = Len(q) + k => j = k
    BY <1>3
  <2>2. f \in [B -> C] /\ \A c \in C : \E j \in B : f[j] = c
    OBVIOUS
  <2> QED BY <2>1, <2>2 DEF Bijection, Injection, Surjection, IsInjective
<1>6. IsFiniteSet(A) /\ IsFiniteSet(B) /\ Cardinality(A) \in Nat /\ Cardinality(B) \in Nat
  <2>1. IsFiniteSet(A) /\ IsFiniteSet(B)
    BY CountType
  <2> QED BY <2>1, FS_CardinalityType
<1> HIDE DEF f, A, B, C, D
<1>7. IsFiniteSet(C) /\ Cardinality(C) = Cardinality(B)
  BY <1>5, <1>6, FS_Bijection DEF ExistsBijection
<1>8. Cardinality(D) = Cardinality(A) + Cardinality(C) - Cardinality(A \intersect C)
  BY <1>2, <1>6, <1>7, FS_Union
<1>9. Cardinality(A \intersect C) = 0
  BY <1>4, FS_EmptySet
<1>10. Cardinality(D) = Cardinality(A) + Cardinality(B)
  BY <1>6, <1>7, <1>8, <1>9
<1> QED BY <1>10 DEF Count, A, B, D

LEMMA CountAppend ==
  ASSUME NEW S, NEW q \in Seq(S), NEW e \in S, NEW V
  PROVE  Count(Append(q, e), V) = Count(q, V) + IF e \in V THEN 1 ELSE 0
<1>1. <<e>> \in Seq(S) /\ Append(q, e) = q \o <<e>>
  BY AppendIsConcat
<1>2. Count(q \o <<e>>, V) = Count(q, V) + Count(<<e>>, V)
  BY <1>1, CountJoined
<1> QED BY <1>1, <1>2, CountOne

LEMMA Appended ==
  ASSUME NEW S, NEW q \in Seq(S), NEW e \in S
  PROVE  \A j \in DOMAIN Append(q, e) :
           Append(q, e)[j] = e \/ (j \in DOMAIN q /\ Append(q, e)[j] = q[j])
<1> DEFINE r == Append(q, e)
<1>1. /\ \A j \in DOMAIN q : r[j] = q[j]
      /\ \A j \in DOMAIN r : j \in DOMAIN q \/ j = Len(q) + 1
      /\ r[Len(q) + 1] = e
  BY Push
<1> HIDE DEF r
<1>2. \A j \in DOMAIN r : r[j] = e \/ (j \in DOMAIN q /\ r[j] = q[j])
  BY <1>1
<1> QED BY <1>2 DEF r

LEMMA CountTail ==
  ASSUME NEW S, NEW q \in Seq(S), q # <<>>, NEW V
  PROVE  Count(Tail(q), V) = Count(q, V) - IF Head(q) \in V THEN 1 ELSE 0
<1>1. Head(q) \in S /\ Tail(q) \in Seq(S)
  BY Pop
<1> DEFINE h == <<Head(q)>>
           t == Tail(q)
<1>2. q = h \o t
  BY HeadTailAppend, SMT
<1>3. h \in Seq(S) /\ t \in Seq(S)
  BY <1>1
<1> HIDE DEF h, t
<1>6. Count(h \o t, V) = Count(h, V) + Count(t, V)
  BY <1>3, CountJoined
<1>7. Count(q, V) = Count(h, V) + Count(t, V)
  BY <1>2, <1>6
<1>4. Count(q, V) = Count(<<Head(q)>>, V) + Count(Tail(q), V)
  BY <1>7 DEF h, t
<1>5. Count(Tail(q), V) \in Nat
  BY <1>1, CountType
<1> QED BY <1>4, <1>5, CountOne

-----------------------------------------------------------------------------
(* Counting in the connections to Redis, and in the subscriptions.         *)

Lines == [Servers -> Seq(MessageType)]

LEMMA LineCount ==
  ASSUME NEW p \in Lines
  PROVE  /\ \A x \in Servers : \A V : Count(p[x], V) \in Nat
         /\ \A x \in Servers : \A V : (\A k \in DOMAIN p[x] : p[x][k] \notin V) => Count(p[x], V) = 0
<1>1. ASSUME NEW x \in Servers, NEW V
      PROVE  /\ Count(p[x], V) \in Nat
             /\ (\A k \in DOMAIN p[x] : p[x][k] \notin V) => Count(p[x], V) = 0
  <2>1. p[x] \in Seq(MessageType)
    BY DEF Lines
  <2> QED BY <2>1, CountType
<1> QED BY <1>1

LEMMA SentCount ==
  ASSUME NEW p \in Lines, NEW s \in Servers, NEW msgs \in Seq(MessageType)
  PROVE  /\ Sent(p, s, msgs) \in Lines
         /\ \A x \in Servers : \A V :
              Count(Sent(p, s, msgs)[x], V) = Count(p[x], V) + IF x = s THEN Count(msgs, V) ELSE 0
<1> DEFINE r == p[s] \o msgs
<1>1. p[s] \in Seq(MessageType)
  BY DEF Lines
<1>2. r \in Seq(MessageType)
  BY <1>1, Joined
<1>3. \A V : Count(r, V) = Count(p[s], V) + Count(msgs, V)
  BY <1>1, CountJoined
<1>4. Sent(p, s, msgs) = [p EXCEPT ![s] = r]
  BY DEF Sent
<1> HIDE DEF r
<1>5. Sent(p, s, msgs) \in Lines /\ \A x \in Servers : Sent(p, s, msgs)[x] = IF x = s THEN r ELSE p[x]
  BY <1>2, <1>4 DEF Lines
<1>6. \A x \in Servers : \A V : Count(p[x], V) \in Nat
  BY LineCount
<1> QED BY <1>3, <1>5, <1>6

LEMMA TakenCount ==
  ASSUME NEW p \in Lines, NEW s \in Servers, p[s] # <<>>
  PROVE  /\ Taken(p, s) \in Lines
         /\ \A x \in Servers : \A V :
              Count(Taken(p, s)[x], V) =
                Count(p[x], V) - IF x = s /\ Head(p[s]) \in V THEN 1 ELSE 0
<1> DEFINE r == Tail(p[s])
<1>1. p[s] \in Seq(MessageType)
  BY DEF Lines
<1>2. r \in Seq(MessageType)
  BY <1>1, Pop
<1>3. \A V : Count(r, V) = Count(p[s], V) - IF Head(p[s]) \in V THEN 1 ELSE 0
  BY <1>1, CountTail
<1>4. Taken(p, s) = [p EXCEPT ![s] = r]
  BY DEF Taken
<1> HIDE DEF r
<1>5. Taken(p, s) \in Lines /\ \A x \in Servers : Taken(p, s)[x] = IF x = s THEN r ELSE p[x]
  BY <1>2, <1>4 DEF Lines
<1>6. \A x \in Servers : \A V : Count(p[x], V) \in Nat
  BY LineCount
<1>7. ASSUME NEW x \in Servers, NEW V
      PROVE  Count(Taken(p, s)[x], V) =
               Count(p[x], V) - IF x = s /\ Head(p[s]) \in V THEN 1 ELSE 0
  <2>1. CASE x = s
    BY <1>3, <1>5, <2>1
  <2>2. CASE x # s
    BY <1>5, <1>6, <2>2
  <2> QED BY <2>1, <2>2
<1> QED BY <1>5, <1>7

LEMMA RoutedCount ==
  ASSUME NEW b \in Lines, NEW to \in SUBSET Servers, NEW m \in MessageType
  PROVE  /\ Routed(b, to, m) \in Lines
         /\ \A x \in Servers : \A V :
              Count(Routed(b, to, m)[x], V) =
                Count(b[x], V) + IF x \in to /\ m \in V THEN 1 ELSE 0
<1>1. \A x \in Servers : b[x] \in Seq(MessageType) /\ Append(b[x], m) \in Seq(MessageType)
  BY Push DEF Lines
<1>2. /\ Routed(b, to, m) \in Lines
      /\ \A x \in Servers : Routed(b, to, m)[x] = IF x \in to THEN Append(b[x], m) ELSE b[x]
  BY <1>1 DEF Routed, Lines
<1>3. \A x \in Servers : \A V : Count(Append(b[x], m), V) = Count(b[x], V) + IF m \in V THEN 1 ELSE 0
  BY <1>1, CountAppend
<1>4. \A x \in Servers : \A V : Count(b[x], V) \in Nat
  BY LineCount
<1> QED BY <1>2, <1>3, <1>4

LEMMA EmptiedCount ==
  ASSUME NEW p \in Lines, NEW s \in Servers
  PROVE  /\ Emptied(p, s) \in Lines
         /\ \A x \in Servers : \A V : Count(Emptied(p, s)[x], V) <= Count(p[x], V)
<1>1. <<>> \in Seq(MessageType)
  OBVIOUS
<1>2. Emptied(p, s) \in Lines /\ \A x \in Servers : Emptied(p, s)[x] = IF x = s THEN <<>> ELSE p[x]
  BY <1>1 DEF Emptied, Lines
<1>3. \A x \in Servers : \A V : Count(p[x], V) \in Nat
  BY LineCount
<1> QED BY <1>2, <1>3, CountEmpty

-----------------------------------------------------------------------------
(* The question of a fetchSockets() or serverSideEmit() and its answers.   *)

Requests(i) == {m \in MessageType : m.type = "request" /\ m.op = i}
Answers(i, t) == {m \in MessageType : m.type = "answer" /\ m.op = i /\ m.by = t}

Owed(w, t, i) == IF <<t, i>> \in w THEN 1 ELSE 0
Asking(p, i, f) == Count(p[f], Requests(i))

\* What server t has still to do with question i of server f, or has answered.
Answering(p, b, w, i, f, t) ==
  Count(b[t], Requests(i)) + Owed(w, t, i) + Count(p[t], Answers(i, t)) + Count(b[f], Answers(i, t))

Given(o, t) == Count(o.responses, {t})

\* At most one answer of each server is under way or given, and the servers that
\* answer are those that were counted.
AskOp(p, b, w, on, o, i) ==
  /\ \A k \in DOMAIN o.responses : o.responses[k] \in Servers \ {o.from}
  /\ \A t \in Servers \ {o.from} :
       Asking(p, i, o.from) + Answering(p, b, w, i, o.from, t) + Given(o, t) <= 1
  /\ o.cluster # {} =>
       /\ o.from \in o.cluster
       /\ o.stage # "asked" /\ ~o.local => o.count = Cardinality(o.cluster)
       /\ \A k \in DOMAIN o.responses : o.responses[k] \in o.cluster
       /\ o.settled = <<>> =>
            /\ o.cluster = on
            /\ \A t \in Servers \ on : Answering(p, b, w, i, o.from, t) = 0

AskOps(p, b, w, on, os) ==
  \A i \in DOMAIN os : Asks(os[i]) => AskOp(p, b, w, on, os[i], i)

\* What moves from p, b, w to q, c, v is no more than there was.
Moves(p, b, w, q, c, v, on, i, f) ==
  \A t \in Servers \ {f} :
    /\ Asking(q, i, f) + Answering(q, c, v, i, f, t) <= Asking(p, i, f) + Answering(p, b, w, i, f, t)
    /\ t \notin on => Answering(q, c, v, i, f, t) <= Answering(p, b, w, i, f, t)

LEMMA MoveTypes ==
  ASSUME NEW p \in Lines, NEW b \in Lines, NEW w, NEW i, NEW f \in Servers, NEW t \in Servers
  PROVE  /\ Asking(p, i, f) \in Nat /\ Answering(p, b, w, i, f, t) \in Nat
         /\ Count(b[t], Requests(i)) \in Nat /\ Owed(w, t, i) \in Nat
         /\ Count(p[t], Answers(i, t)) \in Nat /\ Count(b[f], Answers(i, t)) \in Nat
<1>1. /\ Count(p[f], Requests(i)) \in Nat /\ Count(b[t], Requests(i)) \in Nat
      /\ Count(p[t], Answers(i, t)) \in Nat /\ Count(b[f], Answers(i, t)) \in Nat
  BY LineCount
<1>2. Owed(w, t, i) \in Nat
  BY DEF Owed
<1> QED BY <1>1, <1>2 DEF Asking, Answering

LEMMA GivenType ==
  ASSUME NEW o \in OpType, NEW t
  PROVE  Given(o, t) \in Nat /\ (o.responses = <<>> => Given(o, t) = 0)
<1>1. o.responses \in Seq(Process)
  BY DEF OpType
<1> QED BY <1>1, CountType, CountEmpty DEF Given

LEMMA MovedOp ==
  ASSUME NEW p \in Lines, NEW b \in Lines, NEW w, NEW q \in Lines, NEW c \in Lines, NEW v,
         NEW on \in SUBSET Servers, NEW o \in OpType, NEW i,
         AskOp(p, b, w, on, o, i), Moves(p, b, w, q, c, v, on, i, o.from)
  PROVE  AskOp(q, c, v, on, o, i)
<1>1. o.from \in Servers
  BY DEF OpType
<1> DEFINE f == o.from
<1>2. ASSUME NEW t \in Servers \ {f}
      PROVE  /\ Asking(q, i, f) + Answering(q, c, v, i, f, t) + Given(o, t) <= 1
             /\ Answering(p, b, w, i, f, t) = 0 /\ t \notin on => Answering(q, c, v, i, f, t) = 0
  <2>1. /\ Asking(p, i, f) \in Nat /\ Answering(p, b, w, i, f, t) \in Nat
        /\ Asking(q, i, f) \in Nat /\ Answering(q, c, v, i, f, t) \in Nat
    BY <1>1, MoveTypes
  <2>2. Given(o, t) \in Nat
    BY GivenType
  <2>3. Asking(p, i, f) + Answering(p, b, w, i, f, t) + Given(o, t) <= 1
    BY DEF AskOp
  <2>4. /\ Asking(q, i, f) + Answering(q, c, v, i, f, t) <= Asking(p, i, f) + Answering(p, b, w, i, f, t)
        /\ t \notin on => Answering(q, c, v, i, f, t) <= Answering(p, b, w, i, f, t)
    BY DEF Moves
  <2> QED BY <2>1, <2>2, <2>3, <2>4
<1> QED BY <1>2 DEF AskOp

\* The call o has become o2, and the servers that listen on2.
AskChange(on, on2, o, o2) ==
  /\ o2.from = o.from /\ (o2.local <=> o.local) /\ o2.responses = o.responses
  /\ o2.cluster # {} =>
       /\ o2.cluster = o.cluster
       /\ o2.settled = <<>> => o.settled = <<>> /\ on2 = on
       /\ o2.stage # "asked" /\ ~o2.local =>
            \/ o2.count = Cardinality(o2.cluster)
            \/ o.stage # "asked" /\ o2.count = o.count

LEMMA ChangedOp ==
  ASSUME NEW p, NEW b, NEW w, NEW on, NEW on2, NEW o \in OpType, NEW o2 \in OpType, NEW i,
         AskOp(p, b, w, on, o, i), AskChange(on, on2, o, o2)
  PROVE  AskOp(p, b, w, on2, o2, i)
<1>1. \A t : Given(o2, t) = Given(o, t)
  BY DEF AskChange, Given
<1>2. \A t \in Servers \ {o2.from} :
        Asking(p, i, o2.from) + Answering(p, b, w, i, o2.from, t) + Given(o2, t) <= 1
  BY <1>1 DEF AskOp, AskChange
<1>3. ASSUME o2.cluster # {}
      PROVE  /\ o2.from \in o2.cluster
             /\ o2.stage # "asked" /\ ~o2.local => o2.count = Cardinality(o2.cluster)
             /\ \A k \in DOMAIN o2.responses : o2.responses[k] \in o2.cluster
             /\ o2.settled = <<>> =>
                  /\ o2.cluster = on2
                  /\ \A t \in Servers \ on2 : Answering(p, b, w, i, o2.from, t) = 0
  <2>1. o.cluster # {} /\ o.cluster = o2.cluster
    BY <1>3 DEF AskChange
  <2>2. o2.stage # "asked" /\ ~o2.local => o2.count = Cardinality(o2.cluster)
    BY <1>3, <2>1 DEF AskOp, AskChange
  <2>3. o2.from \in o2.cluster /\ \A k \in DOMAIN o2.responses : o2.responses[k] \in o2.cluster
    BY <1>3, <2>1 DEF AskOp, AskChange
  <2>4. ASSUME o2.settled = <<>>
        PROVE  /\ o2.cluster = on2
               /\ \A t \in Servers \ on2 : Answering(p, b, w, i, o2.from, t) = 0
    BY <1>3, <2>1, <2>4 DEF AskOp, AskChange
  <2> QED BY <2>2, <2>3, <2>4
<1> QED BY <1>2, <1>3 DEF AskOp, AskChange

Counting == AskOps(pipe, inbox, waiting, On, ops)

LEMMA State ==
  ASSUME IInv
  PROVE  /\ pipe \in Lines /\ inbox \in Lines /\ ops \in Seq(OpType) /\ On \in SUBSET Servers
         /\ \A i \in DOMAIN ops : ops[i] \in OpType /\ OpInv(ops[i]) /\ i \in Nat
<1>1. DOMAIN ops = 1 .. Len(ops)
  BY DEF IInv, Typed
<1> QED BY <1>1 DEF IInv, Typed, Lines, On, Ops

\* Messages move and calls change, none is made.
Moving ==
  /\ pipe' \in Lines /\ inbox' \in Lines
  /\ \A i \in DOMAIN ops : Asks(ops[i]) =>
       Moves(pipe, inbox, waiting, pipe', inbox', waiting', On, i, ops[i].from)
Changing ==
  /\ DOMAIN ops' = DOMAIN ops
  /\ \A i \in DOMAIN ops : Asks(ops'[i]) =>
       Asks(ops[i]) /\ AskChange(On, On', ops[i], ops'[i])

LEMMA MoveAndChange ==
  ASSUME IInv, IInv', Counting, Moving, Changing
  PROVE  Counting'
<1> SUFFICES ASSUME NEW i \in DOMAIN ops', Asks(ops'[i])
             PROVE  AskOp(pipe', inbox', waiting', On', ops'[i], i)
  BY DEF Counting, AskOps
<1>1. i \in DOMAIN ops /\ Asks(ops[i]) /\ AskChange(On, On', ops[i], ops'[i])
  BY DEF Changing
<1>2. /\ pipe \in Lines /\ inbox \in Lines /\ pipe' \in Lines /\ inbox' \in Lines
      /\ On \in SUBSET Servers /\ ops[i] \in OpType
  BY <1>1, State DEF Moving
<1>3. ops'[i] \in OpType
  BY DEF IInv, Typed
<1>4. AskOp(pipe, inbox, waiting, On, ops[i], i)
  BY <1>1 DEF Counting, AskOps
<1>5. Moves(pipe, inbox, waiting, pipe', inbox', waiting', On, i, ops[i].from)
  BY <1>1 DEF Moving
<1>6. AskOp(pipe', inbox', waiting', On, ops[i], i)
  BY <1>2, <1>4, <1>5, MovedOp
<1> QED BY <1>1, <1>2, <1>3, <1>6, ChangedOp

LEMMA StillMoves ==
  ASSUME IInv, UNCHANGED <<pipe, inbox, waiting>>
  PROVE  Moving
<1>1. pipe \in Lines /\ inbox \in Lines
  BY State
<1>2. \A i \in DOMAIN ops : Moves(pipe, inbox, waiting, pipe, inbox, waiting, On, i, ops[i].from)
  <2> SUFFICES ASSUME NEW i \in DOMAIN ops, NEW t \in Servers
               PROVE  /\ Asking(pipe, i, ops[i].from) \in Nat
                      /\ Answering(pipe, inbox, waiting, i, ops[i].from, t) \in Nat
    BY DEF Moves
  <2>1. ops[i].from \in Servers
    BY State DEF OpType
  <2> QED BY <1>1, <2>1, MoveTypes
<1> QED BY <1>1, <1>2 DEF Moving

LEMMA StillSame ==
  ASSUME UNCHANGED ops, On' = On
  PROVE  Changing
BY DEF Changing, AskChange

\* One call changes, in what is kept of it.
LEMMA OneChanges ==
  ASSUME IInv, NEW i \in DOMAIN ops, NEW o, ops' = [ops EXCEPT ![i] = o], On' = On,
         Asks(o) => Asks(ops[i]) /\ AskChange(On, On, ops[i], o)
  PROVE  Changing
<1>1. DOMAIN ops' = DOMAIN ops /\ \A j \in DOMAIN ops : ops'[j] = IF j = i THEN o ELSE ops[j]
  BY State
<1>2. \A j \in DOMAIN ops : AskChange(On, On, ops[j], ops[j])
  BY DEF AskChange
<1> QED BY <1>1, <1>2 DEF Changing

\* Nothing is under way about a call that was not made, or that waits for the count.
LEMMA NothingYet ==
  ASSUME IInv, NEW i, i \in DOMAIN ops => Asks(ops[i]) /\ ops[i].stage # "done",
         NEW f \in Servers, NEW t \in Servers
  PROVE  Asking(pipe, i, f) = 0 /\ Answering(pipe, inbox, waiting, i, f, t) = 0
<1>1. Messages(ops, home, pipe, inbox) /\ Known(ops, waiting, log) /\ pipe \in Lines /\ inbox \in Lines
  BY State DEF IInv, References
<1>2. \A x \in Servers : \A k \in DOMAIN pipe[x] :
        /\ pipe[x][k] \notin Requests(i)
        /\ pipe[x][k] \notin Answers(i, t)
  BY <1>1 DEF Messages, PipeMessage, Requests, Answers
<1>3. \A x \in Servers : \A k \in DOMAIN inbox[x] :
        /\ inbox[x][k] \notin Requests(i)
        /\ inbox[x][k] \notin Answers(i, t)
  BY <1>1 DEF Messages, InboxMessage, Requests, Answers
<1>4. <<t, i>> \notin waiting
  <2> SUFFICES ASSUME <<t, i>> \in waiting PROVE FALSE
    OBVIOUS
  <2>1. t \in Process /\ i \in Nat
    BY DEF IInv, Typed, Process
  <2>2. Waits(ops, t, i)
    BY <1>1, <2>1 DEF Known
  <2> QED BY <2>2 DEF Waits, Asks
<1>5. Count(pipe[f], Requests(i)) = 0 /\ Count(pipe[t], Answers(i, t)) = 0
  BY <1>1, <1>2, LineCount
<1>6. Count(inbox[t], Requests(i)) = 0 /\ Count(inbox[f], Answers(i, t)) = 0
  BY <1>1, <1>3, LineCount
<1> QED BY <1>4, <1>5, <1>6 DEF Asking, Answering, Owed

-----------------------------------------------------------------------------
(* Timers, and what leaves the questions alone.                            *)

LEMMA SameChange ==
  ASSUME NEW on, NEW o, NEW o2, Same(o, o2), o2.responses = o.responses,
         o2.settled = <<>> => o.settled = <<>>
  PROVE  AskChange(on, on, o, o2)
BY DEF Same, Keeps, AskChange

LEMMA CountTimeouts ==
  ASSUME IInv, IInv', Counting, NEW i \in DOMAIN ops, Timeout(i) \/ AckTimeout(i) \/ AckCleanup(i)
  PROVE  Counting'
<1> DEFINE o == ops[i]
<1>1. o \in OpType /\ OpInv(o)
  BY State
<1>2. UNCHANGED <<sub, pipe, inbox, waiting>>
  BY DEF Timeout, AckTimeout, AckCleanup, servers, sockets
<1>3. Moving /\ On' = On
  BY <1>2, StillMoves DEF On
<1>4. CASE Timeout(i)
  <2>1. o.timer /\ o.kind # "ack" /\ ops' = [ops EXCEPT ![i] = Settle(o, "error")]
    BY <1>4 DEF Timeout
  <2>2. Asks(o) /\ AskInv(o) /\ o.settled = <<>>
    BY <1>1, <2>1 DEF OpInv, OpType, AskInv, Asks
  <2> DEFINE p == Settle(o, "error")
  <2>3. Same(o, p) /\ p.responses = o.responses /\ p.settled = Append(o.settled, "error")
    BY <1>1, SettleOp
  <2> HIDE DEF p
  <2>4. AskChange(On, On, o, p)
    BY <2>2, <2>3, SameChange
  <2>5. Changing
    BY <1>3, <2>1, <2>2, <2>4, OneChanges DEF p
  <2> QED BY <1>3, <2>5, MoveAndChange
<1>5. CASE AckTimeout(i)
  <2>1. o.timer /\ o.kind = "ack" /\ ops' = [ops EXCEPT ![i] = Expired(o)]
    BY <1>5 DEF AckTimeout, Expired
  <2>2. ~Asks(Expired(o))
    BY <1>1, <2>1, ExpiredOp DEF Same, Keeps, Asks
  <2>3. Changing
    BY <1>3, <2>1, <2>2, OneChanges
  <2> QED BY <1>3, <2>3, MoveAndChange
<1>6. CASE AckCleanup(i)
  <2>1. o.kind = "ack" /\ ops' = [ops EXCEPT ![i] = Over(o)]
    BY <1>6 DEF AckCleanup, Over
  <2>2. ~Asks(Over(o))
    BY <1>1, <2>1, OverOp DEF Same, Keeps, Asks
  <2>3. Changing
    BY <1>3, <2>1, <2>2, OneChanges
  <2> QED BY <1>3, <2>3, MoveAndChange
<1> QED BY <1>4, <1>5, <1>6

LEMMA CountStay ==
  ASSUME IInv, IInv', Counting, UNCHANGED <<sub, pipe, inbox, waiting, ops>>
  PROVE  Counting'
<1>1. On' = On
  BY DEF On
<1> QED BY <1>1, StillMoves, StillSame, MoveAndChange

\* A change of who waits that concerns other calls.
LEMMA OthersWait ==
  ASSUME IInv, pipe' = pipe, inbox' = inbox, NEW i,
         \A t \in Servers, j \in Nat : j # i => (<<t, j>> \in waiting' <=> <<t, j>> \in waiting),
         i \in DOMAIN ops => ~Asks(ops[i])
  PROVE  Moving
<1>1. pipe \in Lines /\ inbox \in Lines
  BY State
<1>2. \A j \in DOMAIN ops : Asks(ops[j]) =>
        Moves(pipe, inbox, waiting, pipe, inbox, waiting', On, j, ops[j].from)
  <2> SUFFICES ASSUME NEW j \in DOMAIN ops, Asks(ops[j]), NEW t \in Servers \ {ops[j].from}
               PROVE  LET f == ops[j].from
                          n == Asking(pipe, j, f)
                          a == Answering(pipe, inbox, waiting, j, f, t)
                          b == Answering(pipe, inbox, waiting', j, f, t)
                      IN  n + b <= n + a /\ b <= a
    BY DEF Moves
  <2>1. ops[j].from \in Servers /\ j \in Nat /\ j # i
    BY State DEF OpType
  <2>2. Owed(waiting', t, j) = Owed(waiting, t, j)
    BY <2>1 DEF Owed
  <2>3. Answering(pipe, inbox, waiting', j, ops[j].from, t)
          = Answering(pipe, inbox, waiting, j, ops[j].from, t)
    BY <2>2 DEF Answering
  <2>4. Asking(pipe, j, ops[j].from) \in Nat /\ Answering(pipe, inbox, waiting, j, ops[j].from, t) \in Nat
    BY <1>1, <2>1, MoveTypes
  <2> QED BY <2>3, <2>4
<1> QED BY <1>1, <1>2 DEF Moving

LEMMA CountRunDelayed ==
  ASSUME IInv, IInv', Counting, NEW s \in Servers, RunDelayed(s)
  PROVE  Counting'
<1> DEFINE i == Head(delayed[s])
<1>1. delayed[s] # <<>> /\ Apply(s, i, ops[i]) /\ UNCHANGED <<sub, pipe, inbox>>
  BY DEF RunDelayed
<1>2. i \in Nat /\ i \in DOMAIN ops /\ ops[i].kind \in {"broadcast", "ack"}
  BY <1>1, UnderWay, DelayedLess
<1> HIDE DEF i
<1>3. /\ ops' = ops \/ ops' = [ops EXCEPT ![i] = ClientCount(ops[i], Cardinality(Reached(s, ops[i])))]
      /\ ops[i].kind = "broadcast" => ops' = ops
  BY DEF RunDelayed, i
<1>4. Typed
  BY DEF IInv
<1>5. waiting' = IF ops[i].kind \in {"ack", "emit"} THEN waiting \union (Heard(s, ops[i]) \X {i}) ELSE waiting
  BY <1>1, <1>2, <1>4, Applied
<1>6. \A t \in Servers, j \in Nat : j # i => (<<t, j>> \in waiting' <=> <<t, j>> \in waiting)
  BY <1>5
<1>7. Moving
  BY <1>1, <1>2, <1>6, OthersWait DEF Asks
<1>8. On' = On
  BY <1>1 DEF On
<1>9. Changing
  <2>1. CASE ops' = ops
    BY <1>8, <2>1, StillSame
  <2>2. CASE ops' # ops
    <3> DEFINE p == ClientCount(ops[i], Cardinality(Reached(s, ops[i])))
    <3>1. ops[i].kind = "ack" /\ ops[i] \in OpType /\ OpInv(ops[i]) /\ Cardinality(Reached(s, ops[i])) \in Nat
      BY <1>2, <1>3, <1>4, <2>2, State, ReachedClients
    <3>2. Same(ops[i], p)
      BY <3>1, ClientCountOp
    <3>3. ops' = [ops EXCEPT ![i] = p]
      BY <1>3, <2>2
    <3> HIDE DEF p
    <3>4. ~Asks(p)
      BY <3>1, <3>2 DEF Same, Keeps, Asks
    <3> QED BY <1>2, <1>8, <3>3, <3>4, OneChanges
  <2> QED BY <2>1, <2>2
<1> QED BY <1>7, <1>9, MoveAndChange

-----------------------------------------------------------------------------
(* Messages.                                                               *)

\* What is under way about question i of server f, by where it is.
Parts(p, b, w, i, f, t) ==
  [asked |-> Count(p[f], Requests(i)), request |-> Count(b[t], Requests(i)), owed |-> Owed(w, t, i),
   sent |-> Count(p[t], Answers(i, t)), answer |-> Count(b[f], Answers(i, t))]

\* From parts n to parts r: a server that does not listen has no more to answer.
Fewer(n, r, on) ==
  /\ r.asked + r.request + r.owed + r.sent + r.answer <= n.asked + n.request + n.owed + n.sent + n.answer
  /\ on \/ r.request + r.owed + r.sent + r.answer <= n.request + n.owed + n.sent + n.answer

LEMMA PartsFewer ==
  ASSUME IInv, pipe' \in Lines, inbox' \in Lines,
         \A i \in DOMAIN ops, t \in Servers : Asks(ops[i]) /\ t # ops[i].from =>
           Fewer(Parts(pipe, inbox, waiting, i, ops[i].from, t),
                 Parts(pipe', inbox', waiting', i, ops[i].from, t), t \in On)
  PROVE  Moving
<1> SUFFICES ASSUME NEW i \in DOMAIN ops, Asks(ops[i]), NEW t \in Servers \ {ops[i].from}
             PROVE  LET f == ops[i].from
                        n == Asking(pipe, i, f)  a == Answering(pipe, inbox, waiting, i, f, t)
                        m == Asking(pipe', i, f)  b == Answering(pipe', inbox', waiting', i, f, t)
                    IN  m + b <= n + a /\ (t \notin On => b <= a)
  BY DEF Moving, Moves
<1> DEFINE f == ops[i].from
           n == Parts(pipe, inbox, waiting, i, f, t)
           r == Parts(pipe', inbox', waiting', i, f, t)
<1>1. f \in Servers /\ pipe \in Lines /\ inbox \in Lines
  BY State DEF OpType
<1>2. Fewer(n, r, t \in On)
  OBVIOUS
<1>3. /\ n.asked \in Nat /\ n.request \in Nat /\ n.owed \in Nat /\ n.sent \in Nat /\ n.answer \in Nat
      /\ Asking(pipe, i, f) = n.asked
      /\ Answering(pipe, inbox, waiting, i, f, t) = n.request + n.owed + n.sent + n.answer
  BY <1>1, MoveTypes DEF Parts, Asking, Answering
<1>4. /\ r.asked \in Nat /\ r.request \in Nat /\ r.owed \in Nat /\ r.sent \in Nat /\ r.answer \in Nat
      /\ Asking(pipe', i, f) = r.asked
      /\ Answering(pipe', inbox', waiting', i, f, t) = r.request + r.owed + r.sent + r.answer
  BY <1>1, MoveTypes DEF Parts, Asking, Answering
<1> HIDE DEF n, r
<1> QED BY <1>2, <1>3, <1>4 DEF Fewer

Tokens(n) == n.asked + n.request + n.owed + n.sent + n.answer

\* Nor has a server that listens less to answer, when the one that asked listens.
Balanced(n, r, on, asker) == Fewer(n, r, on) /\ (on /\ asker => Tokens(n) <= Tokens(r))

Steadily(i) ==
  LET f == ops[i].from IN
  f \in On => \A t \in On \ {f} :
    Asking(pipe, i, f) + Answering(pipe, inbox, waiting, i, f, t)
      <= Asking(pipe', i, f) + Answering(pipe', inbox', waiting', i, f, t)
Steady == \A i \in DOMAIN ops : Asks(ops[i]) => Steadily(i)

LEMMA PartsSteady ==
  ASSUME IInv, pipe' \in Lines, inbox' \in Lines, NEW i \in DOMAIN ops,
         \A t \in Servers : t \in On /\ ops[i].from \in On /\ t # ops[i].from =>
           Tokens(Parts(pipe, inbox, waiting, i, ops[i].from, t)) <=
             Tokens(Parts(pipe', inbox', waiting', i, ops[i].from, t))
  PROVE  Steadily(i)
<1> DEFINE f == ops[i].from
<1>1. f \in Servers /\ pipe \in Lines /\ inbox \in Lines /\ On \subseteq Servers
  BY State DEF OpType
<1> SUFFICES ASSUME f \in On, NEW t \in On, t # f
             PROVE  Asking(pipe, i, f) + Answering(pipe, inbox, waiting, i, f, t)
                      <= Asking(pipe', i, f) + Answering(pipe', inbox', waiting', i, f, t)
  BY DEF Steadily
<1> DEFINE n == Parts(pipe, inbox, waiting, i, f, t)
           r == Parts(pipe', inbox', waiting', i, f, t)
<1>2. t \in Servers /\ Tokens(n) <= Tokens(r)
  BY <1>1
<1>3. /\ n.asked \in Nat /\ n.request \in Nat /\ n.owed \in Nat /\ n.sent \in Nat /\ n.answer \in Nat
      /\ Asking(pipe, i, f) = n.asked
      /\ Answering(pipe, inbox, waiting, i, f, t) = n.request + n.owed + n.sent + n.answer
  BY <1>1, <1>2, MoveTypes DEF Parts, Asking, Answering
<1>4. /\ r.asked \in Nat /\ r.request \in Nat /\ r.owed \in Nat /\ r.sent \in Nat /\ r.answer \in Nat
      /\ Asking(pipe', i, f) = r.asked
      /\ Answering(pipe', inbox', waiting', i, f, t) = r.request + r.owed + r.sent + r.answer
  BY <1>1, <1>2, MoveTypes DEF Parts, Asking, Answering
<1> HIDE DEF n, r
<1> QED BY <1>2, <1>3, <1>4 DEF Tokens

LEMMA PartsBalanced ==
  ASSUME IInv, pipe' \in Lines, inbox' \in Lines,
         \A i \in DOMAIN ops, t \in Servers : Asks(ops[i]) /\ t # ops[i].from =>
           Balanced(Parts(pipe, inbox, waiting, i, ops[i].from, t),
                    Parts(pipe', inbox', waiting', i, ops[i].from, t), t \in On, ops[i].from \in On)
  PROVE  Moving /\ Steady
<1>1. Moving
  BY PartsFewer DEF Balanced
<1>2. ASSUME NEW i \in DOMAIN ops, Asks(ops[i]) PROVE Steadily(i)
  BY <1>2, PartsSteady DEF Balanced
<1> QED BY <1>1, <1>2 DEF Steady

LEMMA PartTypes ==
  ASSUME IInv, NEW i \in DOMAIN ops, NEW t \in Servers
  PROVE  LET n == Parts(pipe, inbox, waiting, i, ops[i].from, t)
         IN  n.asked \in Nat /\ n.request \in Nat /\ n.owed \in {0, 1} /\ n.sent \in Nat /\ n.answer \in Nat
<1>1. ops[i].from \in Servers /\ pipe \in Lines /\ inbox \in Lines
  BY State DEF OpType
<1>2. Owed(waiting, t, i) \in {0, 1}
  BY DEF Owed
<1> QED BY <1>1, <1>2, MoveTypes DEF Parts, Asking

LEMMA PartsLess ==
  ASSUME NEW n, NEW r, NEW on,
         n.asked \in Nat, n.request \in Nat, n.owed \in Nat, n.sent \in Nat, n.answer \in Nat,
         r.asked \in Nat, r.request \in Nat, r.owed = n.owed, r.sent \in Nat, r.answer \in Nat,
         r.asked <= n.asked, r.request <= n.request, r.sent <= n.sent, r.answer <= n.answer
  PROVE  Fewer(n, r, on)
<1>1. r.request + r.owed + r.sent + r.answer <= n.request + n.owed + n.sent + n.answer
  OBVIOUS
<1>2. r.asked + r.request + r.owed + r.sent + r.answer <= n.asked + n.request + n.owed + n.sent + n.answer
  OBVIOUS
<1> QED BY <1>1, <1>2 DEF Fewer

\* No line holds more of anything.
LEMMA LinesLess ==
  ASSUME IInv, pipe' \in Lines, inbox' \in Lines, waiting' = waiting,
         \A x \in Servers : \A V : /\ Count(pipe'[x], V) <= Count(pipe[x], V)
                                /\ Count(inbox'[x], V) <= Count(inbox[x], V)
  PROVE  Moving
<1>1. ASSUME NEW i \in DOMAIN ops, NEW t \in Servers
      PROVE  Fewer(Parts(pipe, inbox, waiting, i, ops[i].from, t),
                   Parts(pipe', inbox', waiting', i, ops[i].from, t), t \in On)
  <2> DEFINE n == Parts(pipe, inbox, waiting, i, ops[i].from, t)
             r == Parts(pipe', inbox', waiting', i, ops[i].from, t)
  <2>1. ops[i].from \in Servers
    BY State DEF OpType
  <2>2. /\ r.asked <= n.asked /\ r.request <= n.request /\ r.owed = n.owed /\ r.sent <= n.sent
        /\ r.answer <= n.answer
    BY <2>1 DEF Parts
  <2>3. /\ n.asked \in Nat /\ n.request \in Nat /\ n.owed \in {0, 1} /\ n.sent \in Nat /\ n.answer \in Nat
    BY PartTypes
  <2>4. r.asked \in Nat /\ r.request \in Nat /\ r.sent \in Nat /\ r.answer \in Nat
    BY <2>1, LineCount DEF Parts
  <2>5. n.owed \in Nat
    BY <2>3
  <2> HIDE DEF n, r
  <2> QED BY <2>2, <2>3, <2>4, <2>5, PartsLess DEF n, r
<1> QED BY <1>1, PartsFewer

\* Of a question that nobody answers in this step, nothing is lost in the lines.
LEMMA LinesSteady ==
  ASSUME IInv, pipe' \in Lines, inbox' \in Lines, NEW i \in DOMAIN ops,
         \A t \in Servers : <<t, i>> \in waiting => <<t, i>> \in waiting',
         \A t \in Servers :
           ops[i].from \in On /\ t \in On /\ t # ops[i].from =>
             /\ Count(pipe[ops[i].from], Requests(i)) <= Count(pipe'[ops[i].from], Requests(i))
             /\ Count(inbox[t], Requests(i)) <= Count(inbox'[t], Requests(i))
             /\ Count(pipe[t], Answers(i, t)) <= Count(pipe'[t], Answers(i, t))
             /\ Count(inbox[ops[i].from], Answers(i, t)) <= Count(inbox'[ops[i].from], Answers(i, t))
  PROVE  Steadily(i)
<1> SUFFICES ASSUME NEW t \in Servers, ops[i].from \in On, t \in On, t # ops[i].from
             PROVE  Tokens(Parts(pipe, inbox, waiting, i, ops[i].from, t)) <=
                      Tokens(Parts(pipe', inbox', waiting', i, ops[i].from, t))
  BY PartsSteady
<1> DEFINE n == Parts(pipe, inbox, waiting, i, ops[i].from, t)
           r == Parts(pipe', inbox', waiting', i, ops[i].from, t)
<1>1. ops[i].from \in Servers
  BY State DEF OpType
<1>2. n.asked <= r.asked /\ n.request <= r.request /\ n.owed <= r.owed /\ n.sent <= r.sent /\ n.answer <= r.answer
  BY DEF Parts, Owed
<1>3. /\ n.asked \in Nat /\ n.request \in Nat /\ n.owed \in {0, 1} /\ n.sent \in Nat /\ n.answer \in Nat
  BY PartTypes
<1>4. r.asked \in Nat /\ r.request \in Nat /\ r.owed \in {0, 1} /\ r.sent \in Nat /\ r.answer \in Nat
  BY <1>1, LineCount DEF Parts, Owed
<1> HIDE DEF n, r
<1> QED BY <1>2, <1>3, <1>4 DEF Tokens, n, r

\* Nobody but the waiting of other calls changes.
LEMMA OthersSteady ==
  ASSUME IInv, pipe' = pipe, inbox' = inbox, NEW i,
         \A t \in Servers, j \in Nat : j # i => (<<t, j>> \in waiting' <=> <<t, j>> \in waiting),
         i \in DOMAIN ops => ~Asks(ops[i])
  PROVE  Steady
<1> SUFFICES ASSUME NEW j \in DOMAIN ops, Asks(ops[j]) PROVE Steadily(j)
  BY DEF Steady
<1>1. j # i /\ j \in Nat /\ ops[j].from \in Servers /\ pipe \in Lines /\ inbox \in Lines
  BY State DEF OpType
<1>2. \A x \in Servers : \A V : Count(pipe[x], V) \in Nat /\ Count(inbox[x], V) \in Nat
  BY <1>1, LineCount
<1>3. \A x \in Servers : \A V : Count(pipe[x], V) <= Count(pipe'[x], V) /\ Count(inbox[x], V) <= Count(inbox'[x], V)
  BY <1>2
<1>4. \A t \in Servers : <<t, j>> \in waiting => <<t, j>> \in waiting'
  BY <1>1
<1>5. pipe' \in Lines /\ inbox' \in Lines
  BY <1>1
<1> QED BY <1>1, <1>3, <1>4, <1>5, LinesSteady

LEMMA MessageOf ==
  ASSUME NEW m \in MessageType, NEW i, NEW t
  PROVE  /\ m \in Requests(i) <=> m.type = "request" /\ m.op = i
         /\ m \in Answers(i, t) <=> m.type = "answer" /\ m.op = i /\ m.by = t
BY DEF Requests, Answers

LEMMA OneCount ==
  ASSUME NEW m \in MessageType
  PROVE  /\ <<m>> \in Seq(MessageType)
         /\ \A V : Count(<<m>>, V) = IF m \in V THEN 1 ELSE 0
<1>1. <<m>> \in Seq(MessageType)
  OBVIOUS
<1> QED BY <1>1, CountOne

LEMMA TakenLess ==
  ASSUME NEW p \in Lines, NEW s \in Servers, p[s] # <<>>
  PROVE  \A x \in Servers : \A V : Count(Taken(p, s)[x], V) <= Count(p[x], V)
<1> SUFFICES ASSUME NEW x \in Servers, NEW V PROVE Count(Taken(p, s)[x], V) <= Count(p[x], V)
  OBVIOUS
<1>1. Count(p[x], V) \in Nat
  BY LineCount
<1>2. Count(Taken(p, s)[x], V) = Count(p[x], V) - IF x = s /\ Head(p[s]) \in V THEN 1 ELSE 0
  BY TakenCount
<1> QED BY <1>1, <1>2

\* A message is read and no other is sent.
LEMMA ReadMoves ==
  ASSUME IInv, NEW s \in Servers, inbox[s] # <<>>, inbox' = Taken(inbox, s), UNCHANGED <<pipe, waiting>>
  PROVE  Moving
<1>1. pipe \in Lines /\ inbox \in Lines
  BY State
<1>2. inbox' \in Lines /\ \A x \in Servers : \A V : Count(inbox'[x], V) <= Count(inbox[x], V)
  BY <1>1, TakenCount, TakenLess
<1>3. \A x \in Servers : \A V : Count(pipe[x], V) \in Nat
  BY <1>1, LineCount
<1>4. \A x \in Servers : \A V : Count(pipe'[x], V) <= Count(pipe[x], V)
  BY <1>3
<1> QED BY <1>1, <1>2, <1>4, LinesLess

LEMMA CountIgnoreSelf ==
  ASSUME IInv, IInv', Counting, NEW s \in Servers, IgnoreSelf(s)
  PROVE  Counting'
<1>1. /\ inbox[s] # <<>> /\ inbox' = Taken(inbox, s) /\ UNCHANGED <<sub, pipe, waiting, ops>>
  BY DEF IgnoreSelf, Incoming, Read, Taken, sockets
<1>2. Moving
  BY <1>1, ReadMoves
<1>3. Changing
  BY <1>1, StillSame DEF On
<1> QED BY <1>2, <1>3, MoveAndChange

LEMMA CountReceiveRequest ==
  ASSUME IInv, IInv', Counting, NEW s \in Servers, ReceiveRequest(s)
  PROVE  Counting' /\ Steady
<1> DEFINE m == Head(inbox[s])
           k == m.op
           o == ops[k]
           msgs == Replies(s, k, o)
<1>1. /\ inbox[s] # <<>> /\ m.type = "request" /\ inbox' = Taken(inbox, s) /\ Apply(s, k, o)
      /\ pipe' = Sent(pipe, s, msgs) /\ o.from # s /\ UNCHANGED <<sub, ops>>
  BY DEF ReceiveRequest, Serve, Incoming, Read, Taken, Published, Sent
<1>2. pipe \in Lines /\ inbox \in Lines /\ Typed
  BY State DEF IInv
<1>3. m \in MessageType /\ InboxMessage(ops, home, s, m)
  BY <1>1, UnderWay, ReadMessage
<1>4. k \in DOMAIN ops /\ k \in Nat
  BY <1>1, <1>3 DEF InboxMessage, MessageType
<1>5. /\ inbox' \in Lines
      /\ \A x \in Servers : \A V : Count(inbox'[x], V) = Count(inbox[x], V) - IF x = s /\ m \in V THEN 1 ELSE 0
  BY <1>1, <1>2, TakenCount
<1>6. waiting' = IF o.kind \in {"ack", "emit"} THEN waiting \union (Heard(s, o) \X {k}) ELSE waiting
  BY <1>1, <1>2, <1>4, Applied
<1>7. o.kind = "emit" => Heard(s, o) = {s}
  BY DEF Heard, Reached
<1>8. /\ msgs \in Seq(MessageType)
      /\ \A i \in DOMAIN ops : \A V : Asks(ops[i]) =>
           /\ Count(msgs, Requests(i)) = 0
           /\ \A t : Count(msgs, Answers(i, t)) = IF o.kind = "fetch" /\ i = k /\ t = s THEN 1 ELSE 0
  <2> DEFINE a == Message("answer", k, s, 0)
             n == Cardinality(Reached(s, o))
             c == Message("count", k, s, n)
  <2>1. a \in MessageType /\ a.type = "answer" /\ a.op = k /\ a.by = s
    BY <1>4 DEF Message, MessageType, Process
  <2>2. n \in Nat
    BY <1>2, ReachedClients
  <2>3. msgs = CASE o.kind = "ack" -> <<c>> [] o.kind = "fetch" -> <<a>> [] OTHER -> <<>>
    BY DEF Replies
  <2> HIDE DEF n
  <2>4. c \in MessageType /\ c.type = "count" /\ c.op = k
    BY <1>4, <2>2 DEF Message, MessageType, Process
  <2> HIDE DEF a, c, msgs, o
  <2>5. CASE o.kind = "ack"
    <3>1. msgs = <<c>>
      BY <2>3, <2>5
    <3>2. \A i, t : c \notin Requests(i) /\ c \notin Answers(i, t)
      BY <2>4, MessageOf
    <3> QED BY <2>4, <2>5, <3>1, <3>2, OneCount
  <2>6. CASE o.kind = "fetch"
    <3>1. msgs = <<a>>
      BY <2>3, <2>6
    <3>2. \A i, t : a \notin Requests(i) /\ (a \in Answers(i, t) <=> i = k /\ t = s)
      BY <2>1, MessageOf
    <3> QED BY <2>1, <2>6, <3>1, <3>2, OneCount
  <2>7. CASE o.kind \notin {"ack", "fetch"}
    <3>1. msgs = <<>>
      BY <2>3, <2>7
    <3>2. <<>> \in Seq(MessageType)
      OBVIOUS
    <3> QED BY <2>7, <3>1, <3>2, CountEmpty
  <2> QED BY <2>5, <2>6, <2>7
<1> HIDE DEF msgs
<1>9. /\ pipe' \in Lines
      /\ \A x \in Servers : \A V : Count(pipe'[x], V) = Count(pipe[x], V) + IF x = s THEN Count(msgs, V) ELSE 0
  <2>1. msgs \in Seq(MessageType) /\ pipe' = Sent(pipe, s, msgs)
    BY <1>1, <1>8
  <2> DEFINE q == Sent(pipe, s, msgs)
  <2>2. /\ q \in Lines
        /\ \A x \in Servers : \A V : Count(q[x], V) = Count(pipe[x], V) + IF x = s THEN Count(msgs, V) ELSE 0
    BY <1>2, <2>1, SentCount
  <2> HIDE DEF q
  <2> QED BY <2>1, <2>2 DEF q
<1>10. ASSUME NEW i \in DOMAIN ops, NEW t \in Servers, Asks(ops[i]), t # ops[i].from
       PROVE  Balanced(Parts(pipe, inbox, waiting, i, ops[i].from, t),
                       Parts(pipe', inbox', waiting', i, ops[i].from, t), t \in On, ops[i].from \in On)
  <2> DEFINE f == ops[i].from
             n == Parts(pipe, inbox, waiting, i, f, t)
             r == Parts(pipe', inbox', waiting', i, f, t)
  <2>1. f \in Servers
    BY State DEF OpType
  <2>2. /\ n.asked \in Nat /\ n.request \in Nat /\ n.owed \in {0, 1} /\ n.sent \in Nat /\ n.answer \in Nat
    BY PartTypes
  <2>3. Count(pipe'[f], Requests(i)) = Count(pipe[f], Requests(i))
    <3>1. Count(msgs, Requests(i)) = 0
      BY <1>8, <1>10
    <3>2. Count(pipe[f], Requests(i)) \in Nat
      BY <1>2, <2>1, LineCount
    <3> QED BY <1>9, <2>1, <3>1, <3>2
  <2>4. Count(inbox'[f], Answers(i, t)) = Count(inbox[f], Answers(i, t))
    <3>1. m \notin Answers(i, t)
      BY <1>1, <1>3, MessageOf
    <3>2. Count(inbox[f], Answers(i, t)) \in Nat
      BY <1>2, <2>1, LineCount
    <3> QED BY <1>5, <2>1, <3>1, <3>2
  <2>5. m \in Requests(i) <=> i = k
    BY <1>1, <1>3, MessageOf
  <2>6. CASE i = k /\ t = s
    <3>1. Count(inbox'[t], Requests(i)) = Count(inbox[t], Requests(i)) - 1
      BY <1>5, <2>5, <2>6
    <3>2. Count(pipe'[t], Answers(i, t)) = Count(pipe[t], Answers(i, t)) + IF o.kind = "fetch" THEN 1 ELSE 0
      BY <1>8, <1>9, <1>10, <2>6
    <3>3. Owed(waiting', t, i) = IF o.kind = "emit" THEN 1 ELSE Owed(waiting, t, i)
      BY <1>6, <1>7, <1>10, <2>6 DEF Owed, Asks
    <3>4. /\ r.asked = n.asked /\ r.request = n.request - 1
          /\ r.owed = IF o.kind = "emit" THEN 1 ELSE n.owed
          /\ r.sent = n.sent + (IF o.kind = "fetch" THEN 1 ELSE 0) /\ r.answer = n.answer
      BY <2>3, <2>4, <3>1, <3>2, <3>3 DEF Parts
    <3>5. n.asked + n.request + n.owed + n.sent + n.answer <= 1
      <4>1. /\ Asking(pipe, i, f) = n.asked
            /\ Answering(pipe, inbox, waiting, i, f, t) = n.request + n.owed + n.sent + n.answer
        BY DEF Parts, Asking, Answering
      <4>2. Given(ops[i], t) \in Nat
        BY State, GivenType
      <4>3. Asking(pipe, i, f) + Answering(pipe, inbox, waiting, i, f, t) + Given(ops[i], t) <= 1
        BY <1>10 DEF Counting, AskOps, AskOp
      <4> HIDE DEF n
      <4> QED BY <2>2, <4>1, <4>2, <4>3
    <3>6. r.request \in Nat
      BY <1>5, LineCount DEF Parts
    <3> HIDE DEF n, r
    <3>7. n.request = 1 /\ n.owed = 0
      <4>1. n.request - 1 \in Nat
        BY <3>4, <3>6
      <4> QED BY <2>2, <3>5, <4>1
    <3>8. o.kind \in {"fetch", "emit"}
      BY <1>10, <2>6 DEF Asks
    <3>9. Tokens(r) = Tokens(n)
      BY <2>2, <3>4, <3>7, <3>8 DEF Tokens
    <3>10. Tokens(r) \in Nat
      BY <2>2, <3>9 DEF Tokens
    <3>11. Fewer(n, r, t \in On)
      BY <2>2, <3>4 DEF Fewer
    <3>12. Balanced(n, r, t \in On, f \in On)
      BY <3>9, <3>10, <3>11 DEF Balanced
    <3> QED BY <3>12 DEF n, r
  <2>7. CASE ~(i = k /\ t = s)
    <3>1. Count(inbox'[t], Requests(i)) = Count(inbox[t], Requests(i))
      <4>1. Count(inbox[t], Requests(i)) \in Nat
        BY <1>2, LineCount
      <4> QED BY <1>5, <2>5, <2>7, <4>1
    <3>2. Count(pipe'[t], Answers(i, t)) = Count(pipe[t], Answers(i, t))
      <4>1. t = s => Count(msgs, Answers(i, t)) = 0
        BY <1>8, <1>10, <2>7
      <4>2. Count(pipe[t], Answers(i, t)) \in Nat
        BY <1>2, LineCount
      <4> QED BY <1>9, <4>1, <4>2
    <3>3. Owed(waiting', t, i) = Owed(waiting, t, i)
      <4>1. o.kind = "ack" => i # k
        BY <1>10 DEF Asks
      <4> QED BY <1>6, <1>7, <2>7, <4>1 DEF Owed
    <3>4. r = n
      BY <2>3, <2>4, <3>1, <3>2, <3>3 DEF Parts
    <3> HIDE DEF n, r
    <3>5. Balanced(n, r, t \in On, f \in On)
      BY <2>2, <3>4 DEF Balanced, Tokens, Fewer
    <3> QED BY <3>5 DEF n, r
  <2> QED BY <2>6, <2>7
<1>11. Moving /\ Steady
  BY <1>5, <1>9, <1>10, PartsBalanced
<1>12. Changing
  BY <1>1, StillSame DEF On
<1> QED BY <1>11, <1>12, MoveAndChange

LEMMA CountReceiveResponse ==
  ASSUME IInv, IInv', Counting, NEW s \in Servers, ReceiveResponse(s)
  PROVE  Counting'
<1> DEFINE m == Head(inbox[s])
           k == m.op
           o == ops[k]
           p == Responded(o, m)
           x == m.by
<1>1. /\ inbox[s] # <<>> /\ inbox' = Taken(inbox, s) /\ m.type # "request"
      /\ UNCHANGED <<sub, pipe, waiting>> /\ ops' = [ops EXCEPT ![k] = p]
  BY DEF ReceiveResponse, Incoming, Read, Taken, sockets, Responded
<1>2. pipe \in Lines /\ inbox \in Lines /\ On \in SUBSET Servers /\ On' = On
  BY <1>1, State DEF On
<1>3. m \in MessageType /\ InboxMessage(ops, home, s, m)
  BY <1>1, UnderWay, ReadMessage
<1>4. k \in DOMAIN ops /\ o \in OpType /\ OpInv(o)
  <2>1. k \in DOMAIN ops
    BY <1>3 DEF InboxMessage
  <2> QED BY <2>1, State
<1>5. Moving
  BY <1>1, ReadMoves
<1>6. m.type = "answer" => o.from = s /\ x \in Servers \ {s} /\ Asks(o)
  BY <1>3 DEF InboxMessage
<1>7. m.type # "answer" => o.kind = "ack"
  BY <1>1, <1>3 DEF InboxMessage
<1>8. inbox' \in Lines /\ \A V : Count(inbox'[s], V) = Count(inbox[s], V) - IF m \in V THEN 1 ELSE 0
  BY <1>1, <1>2, TakenCount
<1>9. p \in OpType /\ Same(o, p)
  BY <1>1, <1>3, <1>4, RespondedOp
<1>10. DOMAIN ops' = DOMAIN ops /\ \A i \in DOMAIN ops : ops'[i] = IF i = k THEN p ELSE ops[i]
  BY <1>1, State
<1>11. CASE m.type = "answer" /\ o.pending
  <2>1. /\ p.responses = Append(o.responses, x) /\ o.settled = <<>>
    <3> DEFINE a == Answered(o, x)
    <3>1. x \in Process
      BY <1>6, <1>11 DEF Process
    <3>2. a \in OpType /\ a.responses = Append(o.responses, x)
      BY <1>4, <3>1, AnsweredOp
    <3>3. p = IF a.current = a.expected THEN Settle(a, "ok") ELSE a
      BY <1>11 DEF Responded, Response, Answered
    <3> HIDE DEF a, p
    <3>4. Settle(a, "ok").responses = a.responses
      BY <3>2, SettleOp
    <3>5. o.settled = <<>>
      BY <1>4, <1>6, <1>11 DEF OpInv, AskInv
    <3> QED BY <3>2, <3>3, <3>4, <3>5
  <2>2. /\ o.from = s /\ x \in Servers \ {s} /\ Asks(o) /\ AskOp(pipe, inbox, waiting, On, o, k)
    BY <1>4, <1>6, <1>11 DEF Counting, AskOps
  <2>3. Answering(pipe, inbox', waiting, k, s, x) = Answering(pipe, inbox, waiting, k, s, x) - 1
    <3>1. m \in Answers(k, x) /\ m \notin Requests(k)
      BY <1>3, <1>11, MessageOf
    <3>2. Count(inbox'[s], Answers(k, x)) = Count(inbox[s], Answers(k, x)) - 1
      BY <1>8, <3>1
    <3>3. inbox'[x] = inbox[x]
      BY <1>1, <1>2, <2>2 DEF Taken, Lines
    <3>4. /\ Count(inbox[x], Requests(k)) \in Nat /\ Owed(waiting, x, k) \in Nat
          /\ Count(pipe[x], Answers(k, x)) \in Nat /\ Count(inbox[s], Answers(k, x)) \in Nat
      BY <1>2, <2>2, MoveTypes
    <3> QED BY <3>2, <3>3, <3>4 DEF Answering
  <2>4. /\ Asking(pipe, k, s) \in Nat /\ Answering(pipe, inbox, waiting, k, s, x) \in Nat
        /\ Answering(pipe, inbox', waiting, k, s, x) \in Nat
    BY <1>2, <1>8, <2>2, MoveTypes
  <2>5. AskOp(pipe, inbox', waiting, On, o, k)
    <3>1. Moves(pipe, inbox, waiting, pipe, inbox', waiting, On, k, o.from)
      BY <1>1, <1>4, <1>5, <2>2 DEF Moving
    <3> QED BY <1>2, <1>4, <1>8, <2>2, <3>1, MovedOp
  <2>6. \A t \in Servers : Given(p, t) = Given(o, t) + IF x = t THEN 1 ELSE 0
    <3>1. o.responses \in Seq(Process) /\ x \in Process
      BY <1>4, <2>2 DEF OpType, Process
    <3>2. \A t : Count(Append(o.responses, x), {t}) = Count(o.responses, {t}) + IF x \in {t} THEN 1 ELSE 0
      BY <3>1, CountAppend
    <3> QED BY <2>1, <3>2 DEF Given
  <2>7. \A t \in Servers : Given(o, t) \in Nat
    BY <1>4, GivenType
  <2>8. /\ p.from = s /\ (p.local <=> o.local) /\ p.stage = o.stage /\ p.count = o.count
        /\ p.cluster = o.cluster
    BY <1>9, <2>2 DEF Same, Keeps
  <2>9. \A j \in DOMAIN p.responses :
          p.responses[j] = x \/ (j \in DOMAIN o.responses /\ p.responses[j] = o.responses[j])
    <3>1. o.responses \in Seq(Process) /\ x \in Process
      BY <1>4, <2>2 DEF OpType, Process
    <3> DEFINE e == o.responses
    <3>2. e \in Seq(Process) /\ x \in Process
      BY <3>1
    <3> HIDE DEF e, x
    <3>3. \A j \in DOMAIN Append(e, x) : Append(e, x)[j] = x \/ (j \in DOMAIN e /\ Append(e, x)[j] = e[j])
      BY <3>2, Appended
    <3> HIDE DEF p, o
    <3> QED BY <2>1, <3>3 DEF e
  <2> HIDE DEF p, x, o, k, m
  <2>10. \A t \in Servers \ {s} :
           Asking(pipe, k, s) + Answering(pipe, inbox', waiting, k, s, t) + Given(p, t) <= 1
    <3> SUFFICES ASSUME NEW t \in Servers \ {s}
                 PROVE  Asking(pipe, k, s) + Answering(pipe, inbox', waiting, k, s, t) + Given(p, t) <= 1
      OBVIOUS
    <3>1. CASE t = x
      <4>1. Asking(pipe, k, s) + Answering(pipe, inbox, waiting, k, s, x) + Given(o, x) <= 1
        BY <2>2 DEF AskOp
      <4>2. Given(p, x) = Given(o, x) + 1
        BY <2>6, <3>1
      <4>3. Given(o, x) \in Nat
        BY <2>7, <3>1
      <4> QED BY <2>3, <2>4, <3>1, <4>1, <4>2, <4>3
    <3>2. CASE t # x
      <4>1. Given(p, t) = Given(o, t)
        BY <2>6, <2>7, <3>2
      <4> QED BY <2>2, <2>5, <4>1 DEF AskOp
    <3> QED BY <3>1, <3>2
  <2>11. o.cluster # {} => x \in o.cluster
    <3>1. Answering(pipe, inbox, waiting, k, s, x) # 0
      BY <2>3, <2>4
    <3> QED BY <2>1, <2>2, <3>1 DEF AskOp
  <2>12. AskOp(pipe, inbox', waiting, On, p, k)
    <3>1. \A j \in DOMAIN p.responses : p.responses[j] \in Servers \ {p.from}
      BY <2>2, <2>8, <2>9 DEF AskOp
    <3>2. ASSUME p.cluster # {}
          PROVE  /\ p.from \in p.cluster
                 /\ p.stage # "asked" /\ ~p.local => p.count = Cardinality(p.cluster)
                 /\ \A j \in DOMAIN p.responses : p.responses[j] \in p.cluster
                 /\ p.cluster = On
                 /\ \A t \in Servers \ On : Answering(pipe, inbox', waiting, k, s, t) = 0
      <4>1. p.from \in p.cluster /\ (p.stage # "asked" /\ ~p.local => p.count = Cardinality(p.cluster))
        BY <2>2, <2>8, <3>2 DEF AskOp
      <4>2. \A j \in DOMAIN p.responses : p.responses[j] \in p.cluster
        BY <2>2, <2>8, <2>9, <2>11, <3>2 DEF AskOp
      <4>3. p.cluster = On /\ \A t \in Servers \ On : Answering(pipe, inbox', waiting, k, s, t) = 0
        BY <2>1, <2>2, <2>5, <2>8, <3>2 DEF AskOp
      <4> QED BY <4>1, <4>2, <4>3
    <3> QED BY <2>8, <2>10, <3>1, <3>2 DEF AskOp
  <2>13. ASSUME NEW i \in DOMAIN ops', Asks(ops'[i])
         PROVE  AskOp(pipe, inbox', waiting, On, ops'[i], i)
    <3>1. CASE i = k
      BY <1>4, <1>10, <2>12, <3>1
    <3>2. CASE i # k
      <4>1. i \in DOMAIN ops /\ ops'[i] = ops[i]
        BY <1>10, <2>13, <3>2
      <4>2. AskOp(pipe, inbox, waiting, On, ops[i], i) /\ ops[i] \in OpType
        BY <2>13, <4>1, State DEF Counting, AskOps
      <4>3. Moves(pipe, inbox, waiting, pipe, inbox', waiting, On, i, ops[i].from)
        BY <1>1, <1>5, <2>13, <4>1 DEF Moving
      <4> QED BY <1>2, <1>8, <4>1, <4>2, <4>3, MovedOp
    <3> QED BY <3>1, <3>2
  <2> QED BY <1>1, <1>2, <2>13 DEF Counting, AskOps
<1>12. CASE ~(m.type = "answer" /\ o.pending)
  <2>1. m.type = "answer" => p = o
    BY <1>12 DEF Responded, Response
  <2>2. Asks(p) => Asks(o) /\ AskChange(On, On, o, p)
    <3>1. m.type # "answer" => ~Asks(p)
      BY <1>7, <1>9 DEF Same, Keeps, Asks
    <3>2. AskChange(On, On, o, o)
      BY DEF AskChange
    <3> HIDE DEF p, o
    <3> QED BY <1>6, <2>1, <3>1, <3>2
  <2>3. Changing
    <3> HIDE DEF p
    <3> QED BY <1>1, <1>2, <1>4, <2>2, OneChanges
  <2> QED BY <1>5, <2>3, MoveAndChange
<1> QED BY <1>11, <1>12

LEMMA CountAnswer ==
  ASSUME IInv, IInv', Counting, NEW x \in Process, NEW k \in DOMAIN ops, Answer(x, k)
  PROVE  Counting' /\ Steady
<1> DEFINE o == ops[k]
           s == IF x \in Clients THEN home[x] ELSE x
           m == Message(IF o.kind = "ack" THEN "ack" ELSE "answer", k, x, 0)
<1>1. /\ <<x, k>> \in waiting /\ waiting' = waiting \ {<<x, k>>} /\ UNCHANGED <<sub, inbox>>
      /\ s = o.from => ops' = [ops EXCEPT ![k] = ClientAck(o, x)] /\ UNCHANGED pipe
      /\ s # o.from => UNCHANGED ops /\ pipe' = Sent(pipe, s, <<m>>)
  BY DEF Answer, Published, Sent
<1>2. /\ pipe \in Lines /\ inbox \in Lines /\ On' = On /\ o \in OpType /\ OpInv(o) /\ k \in Nat
      /\ home \in [Clients -> Servers]
  BY <1>1, State DEF On, IInv, Typed
<1>3. Waits(ops, x, k)
  BY <1>1, <1>2 DEF IInv, References, Known
<1>4. /\ o.kind = "ack" => x \in Clients /\ s = home[x]
      /\ o.kind # "ack" => x \in Servers /\ s = x /\ s # o.from
  BY <1>3, ClusterAssumption DEF Waits
<1>5. s \in Servers
  BY <1>2, <1>4
<1> HIDE DEF s
<1>6. m \in MessageType /\ m.op = k /\ m.by = x /\ m.type = IF o.kind = "ack" THEN "ack" ELSE "answer"
  BY <1>2 DEF Message, MessageType
<1> HIDE DEF m
<1>7. CASE s = o.from
  <2>1. \A t \in Servers, j \in Nat : j # k => (<<t, j>> \in waiting' <=> <<t, j>> \in waiting)
    BY <1>1
  <2>2. o.kind = "ack"
    BY <1>4, <1>7
  <2>3. Moving
    BY <1>1, <1>7, <2>1, <2>2, OthersWait DEF Asks
  <2>7. Steady
    BY <1>1, <1>7, <2>1, <2>2, OthersSteady DEF Asks
  <2> DEFINE p == ClientAck(o, x)
  <2>4. Same(o, p) /\ ops' = [ops EXCEPT ![k] = p]
    BY <1>1, <1>2, <1>7, <2>2, ClientAckOp
  <2> HIDE DEF p
  <2>5. ~Asks(p)
    BY <2>2, <2>4 DEF Same, Keeps, Asks
  <2>6. Changing
    BY <1>2, <2>4, <2>5, OneChanges
  <2> QED BY <2>3, <2>6, <2>7, MoveAndChange
<1>8. CASE s # o.from
  <2> DEFINE q == Sent(pipe, s, <<m>>)
  <2>1. /\ q \in Lines
        /\ \A y \in Servers : \A V : Count(q[y], V) = Count(pipe[y], V) + IF y = s THEN Count(<<m>>, V) ELSE 0
    <3>1. <<m>> \in Seq(MessageType)
      BY <1>6, OneCount
    <3> QED BY <1>2, <1>5, <3>1, SentCount
  <2>2. pipe' = q
    BY <1>1, <1>8
  <2> HIDE DEF q
  <2>3. \A V : Count(<<m>>, V) = IF m \in V THEN 1 ELSE 0
    BY <1>6, OneCount
  <2>4. ASSUME NEW i \in DOMAIN ops, NEW t \in Servers, Asks(ops[i]), t # ops[i].from
        PROVE  Balanced(Parts(pipe, inbox, waiting, i, ops[i].from, t),
                        Parts(pipe', inbox', waiting', i, ops[i].from, t), t \in On, ops[i].from \in On)
    <3> DEFINE f == ops[i].from
               n == Parts(pipe, inbox, waiting, i, f, t)
               r == Parts(pipe', inbox', waiting', i, f, t)
    <3>1. f \in Servers
      BY State DEF OpType
    <3>2. /\ n.asked \in Nat /\ n.request \in Nat /\ n.owed \in {0, 1} /\ n.sent \in Nat /\ n.answer \in Nat
      BY PartTypes
    <3>3. Count(pipe'[f], Requests(i)) = Count(pipe[f], Requests(i))
      <4>1. m \notin Requests(i)
        BY <1>6, MessageOf
      <4>2. Count(pipe[f], Requests(i)) \in Nat
        BY <1>2, <3>1, LineCount
      <4> QED BY <2>1, <2>2, <2>3, <3>1, <4>1, <4>2
    <3>4. Count(pipe[t], Answers(i, t)) \in Nat
      BY <1>2, LineCount
    <3>5. CASE i = k /\ t = x
      <4>1. o.kind # "ack" /\ s = x
        BY <1>4, <2>4, <3>5 DEF Asks
      <4>2. m \in Answers(i, t)
        BY <1>6, <3>5, <4>1, MessageOf
      <4>3. Count(pipe'[t], Answers(i, t)) = Count(pipe[t], Answers(i, t)) + 1
        BY <2>1, <2>2, <2>3, <3>5, <4>1, <4>2
      <4>4. Owed(waiting, t, i) = 1 /\ Owed(waiting', t, i) = 0
        BY <1>1, <3>5 DEF Owed
      <4>5. /\ r.asked = n.asked /\ r.request = n.request /\ n.owed = 1 /\ r.owed = 0
            /\ r.sent = n.sent + 1 /\ r.answer = n.answer
        BY <1>1, <3>3, <4>3, <4>4 DEF Parts
      <4> HIDE DEF n, r
      <4>6. Balanced(n, r, t \in On, f \in On)
        BY <3>2, <4>5 DEF Balanced, Tokens, Fewer
      <4> QED BY <4>6 DEF n, r
    <3>6. CASE ~(i = k /\ t = x)
      <4>1. m \notin Answers(i, t)
        BY <1>6, <3>6, MessageOf
      <4>2. Count(pipe'[t], Answers(i, t)) = Count(pipe[t], Answers(i, t))
        BY <2>1, <2>2, <2>3, <3>4, <4>1
      <4>3. Owed(waiting', t, i) = Owed(waiting, t, i)
        BY <1>1, <3>6 DEF Owed
      <4>4. r = n
        BY <1>1, <3>3, <4>2, <4>3 DEF Parts
      <4> HIDE DEF n, r
      <4>5. Balanced(n, r, t \in On, f \in On)
        BY <3>2, <4>4 DEF Balanced, Tokens, Fewer
      <4> QED BY <4>5 DEF n, r
    <3> QED BY <3>5, <3>6
  <2>5. Moving /\ Steady
    BY <1>1, <1>2, <2>1, <2>2, <2>4, PartsBalanced
  <2>6. Changing
    BY <1>1, <1>2, <1>8, StillSame
  <2> QED BY <2>5, <2>6, MoveAndChange
<1> QED BY <1>7, <1>8

LEMMA CountRedisCounts ==
  ASSUME IInv, IInv', Counting, NEW s \in Servers, RedisCounts(s)
  PROVE  Counting'
<1> DEFINE m == Head(pipe[s])
           i == m.op
           o == ops[i]
           p == Numbered(o, Cardinality(On))
<1>1. /\ pipe[s] # <<>> /\ m.type = "numsub" /\ pipe' = Taken(pipe, s)
      /\ ops' = [ops EXCEPT ![i] = p] /\ UNCHANGED <<sub, inbox, waiting>>
  BY DEF RedisCounts, Taken, Numbered, sockets
<1>2. pipe \in Lines /\ inbox \in Lines /\ On' = On /\ On \in SUBSET Servers
  BY <1>1, State DEF On
<1>3. PipeMessage(ops, home, s, m) /\ o.stage = "asked"
  BY <1>1, UnderWay, TakeMessage
<1>4. i \in DOMAIN ops /\ o \in OpType /\ OpInv(o)
  <2>1. i \in DOMAIN ops
    BY <1>3 DEF PipeMessage
  <2> QED BY <2>1, State
<1>5. Moving
  <2>1. pipe' \in Lines /\ \A x \in Servers : \A V : Count(pipe'[x], V) <= Count(pipe[x], V)
    BY <1>1, <1>2, TakenCount, TakenLess
  <2>2. \A x \in Servers : \A V : Count(inbox[x], V) \in Nat
    BY <1>2, LineCount
  <2>3. \A x \in Servers : \A V : Count(inbox'[x], V) <= Count(inbox[x], V)
    BY <1>1, <2>2
  <2> QED BY <1>1, <1>2, <2>1, <2>3, LinesLess
<1>6. Cardinality(On) \in Nat
  BY ClusterAssumption, FS_Subset, FS_CardinalityType DEF On
<1>7. /\ Keeps(o, p) /\ p.settled = o.settled /\ p.responses = o.responses /\ p.count = Cardinality(On)
      /\ p.cluster = o.cluster
  BY <1>4, <1>6, NumberedOp
<1> HIDE DEF p
<1>8. ASSUME Asks(p) PROVE Asks(o) /\ AskChange(On, On, o, p)
  <2>1. Asks(o) /\ o.settled = <<>>
    BY <1>3, <1>4, <1>7, <1>8 DEF Keeps, Asks, OpInv, AskInv
  <2>2. o.cluster # {} => o.cluster = On
    BY <1>4, <2>1 DEF Counting, AskOps, AskOp
  <2> HIDE DEF o
  <2> QED BY <1>7, <2>1, <2>2 DEF AskChange, Keeps
<1>9. Changing
  BY <1>1, <1>2, <1>4, <1>8, OneChanges
<1> QED BY <1>5, <1>9, MoveAndChange

LEMMA CountRedisRoutes ==
  ASSUME IInv, IInv', Counting, NEW s \in Servers, RedisRoutes(s)
  PROVE  Counting' /\ Steady
<1> DEFINE m == Head(pipe[s])
           k == m.op
           o == ops[k]
           half == {t \in Servers : sub[t] = "pattern" /\ o.kind = "broadcast"}
<1>1. pipe[s] # <<>> /\ m.type # "numsub" /\ pipe' = Taken(pipe, s) /\ UNCHANGED <<sub, waiting, ops>>
  BY DEF RedisRoutes, Taken, sockets
<1>2. PICK H \in SUBSET half :
        LET to == IF m.type = "request" THEN On \union H ELSE On \intersect {o.from} IN
        inbox' = [t \in Servers |-> IF t \in to THEN Append(inbox[t], m) ELSE inbox[t]]
  BY DEF RedisRoutes
<1> DEFINE to == IF m.type = "request" THEN On \union H ELSE On \intersect {o.from}
<1>3. inbox' = Routed(inbox, to, m)
  BY <1>2 DEF Routed
<1>4. to \in SUBSET Servers
  BY DEF On
<1>5. Asks(o) => to \subseteq On
  BY DEF Asks
<1>6. m \in MessageType /\ PipeMessage(ops, home, s, m)
  BY <1>1, UnderWay, TakeMessage
<1>7. pipe \in Lines /\ inbox \in Lines
  BY State
<1> HIDE DEF to
<1>8. /\ pipe' \in Lines
      /\ \A x \in Servers : \A V :
           Count(pipe'[x], V) = Count(pipe[x], V) - IF x = s /\ m \in V THEN 1 ELSE 0
  BY <1>1, <1>7, TakenCount
<1> HIDE DEF m
<1> DEFINE b == Routed(inbox, to, m)
<1>9. /\ b \in Lines
      /\ \A x \in Servers : \A V : Count(b[x], V) = Count(inbox[x], V) + IF x \in to /\ m \in V THEN 1 ELSE 0
  BY <1>4, <1>6, <1>7, RoutedCount
<1>10. inbox' = b
  BY <1>3
<1> HIDE DEF b
<1>11. ASSUME NEW i \in DOMAIN ops, NEW t \in Servers, Asks(ops[i]), t # ops[i].from
       PROVE  Balanced(Parts(pipe, inbox, waiting, i, ops[i].from, t),
                       Parts(pipe', inbox', waiting', i, ops[i].from, t), t \in On, ops[i].from \in On)
  <2> DEFINE f == ops[i].from
             n == Parts(pipe, inbox, waiting, i, f, t)
             r == Parts(pipe', inbox', waiting', i, f, t)
  <2>1. f \in Servers
    BY State DEF OpType
  <2>2. /\ n.asked \in Nat /\ n.request \in Nat /\ n.owed \in {0, 1} /\ n.sent \in Nat /\ n.answer \in Nat
    BY PartTypes
  <2>3. /\ r.asked = n.asked - (IF f = s /\ m \in Requests(i) THEN 1 ELSE 0)
        /\ r.request = n.request + (IF t \in to /\ m \in Requests(i) THEN 1 ELSE 0)
        /\ r.owed = n.owed
        /\ r.sent = n.sent - (IF t = s /\ m \in Answers(i, t) THEN 1 ELSE 0)
        /\ r.answer = n.answer + (IF f \in to /\ m \in Answers(i, t) THEN 1 ELSE 0)
    BY <1>1, <1>8, <1>9, <1>10, <2>1 DEF Parts
  <2>4. /\ m \in Requests(i) <=> m.type = "request" /\ m.op = i
        /\ m \in Answers(i, t) <=> m.type = "answer" /\ m.op = i /\ m.by = t
    BY <1>6, MessageOf
  <2>5. m \in Requests(i) => f = s /\ (t \in to => t \in On) /\ m \notin Answers(i, t)
    BY <1>5, <1>6, <1>11, <2>4 DEF PipeMessage
  <2>6. m \in Answers(i, t) => t = s /\ m \notin Requests(i)
    BY <1>6, <2>4 DEF PipeMessage
  <2>10. (m.type = "request" => On \subseteq to) /\ (m \in Answers(i, t) /\ f \in On => f \in to)
    BY <2>4 DEF to
  <2> HIDE DEF n, r, f
  <2>7. CASE m \in Requests(i)
    <3>1. /\ r.asked = n.asked - 1 /\ r.request = n.request + (IF t \in to THEN 1 ELSE 0)
          /\ r.owed = n.owed /\ r.sent = n.sent /\ r.answer = n.answer
      BY <2>2, <2>3, <2>5, <2>7
    <3>2. t \in On \/ r.request = n.request
      BY <2>2, <2>5, <2>7, <3>1
    <3>3. t \in On => t \in to
      BY <2>4, <2>7, <2>10
    <3>4. Balanced(n, r, t \in On, f \in On)
      BY <2>2, <3>1, <3>2, <3>3 DEF Balanced, Tokens, Fewer
    <3> QED BY <3>4 DEF n, r, f
  <2>8. CASE m \in Answers(i, t)
    <3>1. /\ r.asked = n.asked /\ r.request = n.request /\ r.owed = n.owed
          /\ r.sent = n.sent - 1 /\ r.answer = n.answer + (IF f \in to THEN 1 ELSE 0)
      BY <2>2, <2>3, <2>6, <2>8
    <3>2. Balanced(n, r, t \in On, f \in On)
      BY <2>2, <2>8, <2>10, <3>1 DEF Balanced, Tokens, Fewer
    <3> QED BY <3>2 DEF n, r, f
  <2>9. CASE m \notin Requests(i) /\ m \notin Answers(i, t)
    <3>1. /\ r.asked = n.asked /\ r.request = n.request /\ r.owed = n.owed
          /\ r.sent = n.sent /\ r.answer = n.answer
      BY <2>2, <2>3, <2>9
    <3>2. Balanced(n, r, t \in On, f \in On)
      BY <2>2, <3>1 DEF Balanced, Tokens, Fewer
    <3> QED BY <3>2 DEF n, r, f
  <2> QED BY <2>7, <2>8, <2>9
<1>12. Moving /\ Steady
  BY <1>8, <1>9, <1>10, <1>11, PartsBalanced
<1>13. Changing
  BY <1>1, StillSame DEF On
<1> QED BY <1>12, <1>13, MoveAndChange

-----------------------------------------------------------------------------
(* A question begins, and the servers come and go.                         *)

\* Server s publishes msgs, a call at most asks with it.
LEMMA SentMoves ==
  ASSUME IInv, NEW i \in DOMAIN ops, Asks(ops[i]), NEW s \in Servers, NEW msgs \in Seq(MessageType),
         \A j \in DOMAIN msgs : msgs[j].op # i, NEW w, w = waiting
  PROVE  AskOp(pipe, inbox, w, On, ops[i], i) => AskOp(Sent(pipe, s, msgs), inbox, w, On, ops[i], i)
<1> DEFINE q == Sent(pipe, s, msgs)
           f == ops[i].from
<1>1. pipe \in Lines /\ inbox \in Lines /\ ops[i] \in OpType /\ On \in SUBSET Servers
  BY State
<1>2. f \in Servers
  BY <1>1 DEF OpType
<1>3. /\ q \in Lines
      /\ \A x \in Servers : \A V : Count(q[x], V) = Count(pipe[x], V) + IF x = s THEN Count(msgs, V) ELSE 0
  BY <1>1, SentCount
<1>4. \A t : Count(msgs, Requests(i)) = 0 /\ Count(msgs, Answers(i, t)) = 0
  <2> TAKE t
  <2>1. \A j \in DOMAIN msgs : msgs[j] \notin Requests(i) /\ msgs[j] \notin Answers(i, t)
    BY DEF Requests, Answers
  <2> QED BY <2>1, CountType
<1> HIDE DEF q
<1>5. Moves(pipe, inbox, w, q, inbox, w, On, i, f)
  <2> SUFFICES ASSUME NEW t \in Servers \ {f}
               PROVE  LET n == Asking(pipe, i, f)  a == Answering(pipe, inbox, w, i, f, t)
                          m == Asking(q, i, f)  b == Answering(q, inbox, w, i, f, t)
                      IN  m + b <= n + a /\ b <= a
    BY DEF Moves
  <2>1. Asking(pipe, i, f) \in Nat /\ Answering(pipe, inbox, w, i, f, t) \in Nat
    BY <1>1, <1>2, MoveTypes
  <2>2. Count(pipe[f], Requests(i)) \in Nat /\ Count(pipe[t], Answers(i, t)) \in Nat
    BY <1>1, <1>2, LineCount
  <2>3. Count(q[f], Requests(i)) = Count(pipe[f], Requests(i))
    BY <1>2, <1>3, <1>4, <2>2
  <2>4. Count(q[t], Answers(i, t)) = Count(pipe[t], Answers(i, t))
    BY <1>3, <1>4, <2>2
  <2>5. /\ Asking(q, i, f) = Asking(pipe, i, f)
        /\ Answering(q, inbox, w, i, f, t) = Answering(pipe, inbox, w, i, f, t)
    BY <2>3, <2>4 DEF Asking, Answering
  <2> QED BY <2>1, <2>5
<1> QED BY <1>1, <1>3, <1>5, MovedOp DEF q

LEMMA CountCountReply ==
  ASSUME IInv, IInv', Counting, NEW k \in DOMAIN ops, CountReply(k)
  PROVE  Counting'
<1> DEFINE o == ops[k]
           p == Continued(o)
           alone == o.kind # "ack" /\ o.count = 1
           msgs == IF alone \/ o.kind = "ack" THEN <<>> ELSE <<Request(o.from, k)>>
           q == Sent(pipe, o.from, msgs)
<1>1. /\ o.stage = "counted" /\ pipe' = q /\ ops' = [ops EXCEPT ![k] = p]
      /\ UNCHANGED <<sub, inbox, waiting>>
  BY DEF CountReply, Published, Sent, Continued, Replied, Expecting, Armed, Pending, sockets
<1>2. /\ pipe \in Lines /\ inbox \in Lines /\ On' = On /\ On \in SUBSET Servers
      /\ o \in OpType /\ OpInv(o) /\ k \in Nat
  BY <1>1, State DEF On
<1>3. o.from \in Servers /\ o.kind \in {"ack", "fetch", "emit"}
  BY <1>1, <1>2 DEF OpType, OpInv
<1>4. /\ msgs \in Seq(MessageType)
      /\ \A j \in DOMAIN msgs : msgs[j].op = k /\ msgs[j].type = "request"
      /\ \A V : Count(msgs, V) \in {0, 1}
  <2> DEFINE m == Request(o.from, k)
  <2>1. m \in MessageType /\ m.type = "request" /\ m.op = k
    BY <1>2, <1>3, RequestMessage
  <2>2. msgs = <<>> \/ msgs = <<m>>
    OBVIOUS
  <2> HIDE DEF m, msgs
  <2>3. CASE msgs = <<>>
    BY <2>3, CountEmpty
  <2>4. CASE msgs = <<m>>
    <3>1. \A V : Count(<<m>>, V) \in {0, 1}
      BY <2>1, OneCount
    <3>2. <<m>> \in Seq(MessageType) /\ \A j \in DOMAIN <<m>> : <<m>>[j] = m
      BY <2>1
    <3> QED BY <2>1, <2>4, <3>1, <3>2
  <2> QED BY <2>2, <2>3, <2>4
<1> HIDE DEF msgs
<1>5. /\ q \in Lines
      /\ \A x \in Servers : \A V : Count(q[x], V) = Count(pipe[x], V) + IF x = o.from THEN Count(msgs, V) ELSE 0
  BY <1>2, <1>3, <1>4, SentCount
<1>6. p \in OpType /\ Keeps(o, p) /\ p.stage = "done" /\ p.count = o.count /\ p.cluster = o.cluster
  BY <1>1, <1>2, <1>3, ContinuedOp
<1>7. Asks(o) => p.responses = o.responses
  <2> SUFFICES ASSUME o.kind # "ack" PROVE p.responses = o.responses
    BY DEF Asks
  <2> DEFINE d == Replied(o)
             e == Expecting(d, o.count - 1)
  <2>1. d \in OpType /\ d.responses = o.responses
    BY <1>2, RepliedOp
  <2>2. o.count - 1 \in Int
    BY <1>2 DEF OpType
  <2>3. p = IF alone THEN Settle(d, "ok") ELSE Pending(Armed(e), TRUE)
    BY DEF Continued
  <2> HIDE DEF d
  <2>4. Settle(d, "ok").responses = d.responses
    BY <2>1, SettleOp
  <2>5. e \in OpType /\ e.responses = d.responses
    BY <2>1, <2>2, ExpectingOp
  <2> HIDE DEF e
  <2>6. Armed(e) \in OpType /\ Armed(e).responses = e.responses
    BY <2>5, ArmedOp
  <2>7. Pending(Armed(e), TRUE).responses = Armed(e).responses
    BY <2>6, PendingOp
  <2> HIDE DEF p
  <2> QED BY <2>1, <2>3, <2>4, <2>5, <2>6, <2>7
<1> HIDE DEF p, q
<1>8. ASSUME Asks(o) PROVE AskOp(q, inbox, waiting, On, p, k)
  <2>1. AskOp(pipe, inbox, waiting, On, o, k) /\ AskInv(o)
    BY <1>2, <1>8 DEF Counting, AskOps, OpInv
  <2>2. o.settled = <<>> /\ o.responses = <<>>
    BY <1>1, <2>1 DEF AskInv
  <2>3. AskChange(On, On, o, p)
    BY <1>1, <1>6, <1>7, <1>8, <2>2 DEF AskChange, Keeps
  <2>4. AskOp(q, inbox, waiting, On, o, k)
    <3> DEFINE f == o.from
    <3>1. ASSUME NEW t \in Servers \ {f}
          PROVE  /\ Asking(q, k, f) + Answering(q, inbox, waiting, k, f, t) + Given(o, t) <= 1
                 /\ Answering(q, inbox, waiting, k, f, t) = 0
      <4>1. Asking(pipe, k, f) = 0 /\ Answering(pipe, inbox, waiting, k, f, t) = 0
        BY <1>1, <1>3, <1>8, NothingYet
      <4>2. Given(o, t) = 0
        BY <1>2, <2>2, GivenType
      <4>3. Asking(q, k, f) \in {0, 1}
        <5>1. Count(q[f], Requests(k)) = 0 + Count(msgs, Requests(k))
          BY <1>3, <1>5, <4>1 DEF Asking
        <5>2. Count(msgs, Requests(k)) \in {0, 1}
          BY <1>4
        <5> QED BY <5>1, <5>2 DEF Asking
      <4>4. q[t] = pipe[t]
        BY <1>2, <1>3 DEF q, Sent, Lines
      <4>5. Answering(q, inbox, waiting, k, f, t) = 0
        BY <4>1, <4>4 DEF Answering
      <4> QED BY <4>2, <4>3, <4>5
    <3>2. o.cluster # {} => o.cluster = On /\ o.from \in On
      BY <2>1, <2>2 DEF AskOp
    <3> QED BY <2>1, <3>1, <3>2 DEF AskOp
  <2> QED BY <1>2, <1>6, <2>3, <2>4, ChangedOp
<1>9. ASSUME NEW i \in DOMAIN ops, i # k, Asks(ops[i])
      PROVE  AskOp(q, inbox, waiting, On, ops[i], i)
  <2>1. \A j \in DOMAIN msgs : msgs[j].op # i
    BY <1>4, <1>9
  <2>2. AskOp(pipe, inbox, waiting, On, ops[i], i)
    BY <1>9 DEF Counting, AskOps
  <2> QED BY <1>3, <1>4, <1>9, <2>1, <2>2, SentMoves DEF q
<1>10. DOMAIN ops' = DOMAIN ops /\ \A i \in DOMAIN ops : ops'[i] = IF i = k THEN p ELSE ops[i]
  BY <1>1, State
<1>11. Asks(p) => Asks(o)
  BY <1>6 DEF Keeps, Asks
<1> HIDE DEF o
<1>12. AskOps(q, inbox, waiting, On, ops')
  BY <1>8, <1>9, <1>10, <1>11 DEF AskOps, o
<1> QED BY <1>1, <1>2, <1>12 DEF Counting

LEMMA CallMessagesOf ==
  ASSUME NEW s \in Servers, NextCall \in Nat, NEW r \in BOOLEAN, NEW q \in BOOLEAN
  PROVE  LET msgs == CallMessages(s, r, q)
         IN  /\ msgs \in Seq(MessageType)
             /\ \A j \in DOMAIN msgs : /\ msgs[j].op = NextCall
                                       /\ msgs[j].type = "numsub" \/ (r /\ msgs[j].type = "request")
<1> DEFINE m == Request(s, NextCall)
           n == Numsub(s, NextCall)
           msgs == CallMessages(s, r, q)
<1>1. /\ m \in MessageType /\ n \in MessageType /\ m.type = "request" /\ m.op = NextCall
      /\ n.type = "numsub" /\ n.op = NextCall
  BY RequestMessage
<1>2. msgs = CASE r /\ q -> <<m>> \o <<n>> [] r /\ ~q -> <<m>> [] ~r /\ q -> <<n>> [] ~r /\ ~q -> <<>>
  BY DEF CallMessages
<1> HIDE DEF m, n, msgs
<1>3. msgs \in Seq(MessageType) /\ \A j \in DOMAIN msgs : msgs[j] = n \/ (r /\ msgs[j] = m)
  <2>1. CASE r /\ q
    <3>1. msgs = <<m, n>>
      BY <1>1, <1>2, <2>1, Pair
    <3> QED BY <1>1, <2>1, <3>1
  <2>2. CASE r /\ ~q
    <3>1. msgs = <<m>>
      BY <1>2, <2>2
    <3> QED BY <1>1, <2>2, <3>1
  <2>3. CASE ~r /\ q
    <3>1. msgs = <<n>>
      BY <1>2, <2>3
    <3> QED BY <1>1, <2>3, <3>1
  <2>4. CASE ~r /\ ~q
    <3>1. msgs = <<>>
      BY <1>2, <2>4
    <3> QED BY <3>1
  <2> QED BY <2>1, <2>2, <2>3, <2>4
<1> QED BY <1>1, <1>3 DEF msgs

\* What is sent takes nothing away.
LEMMA SentSteady ==
  ASSUME IInv, NEW s \in Servers, NEW msgs \in Seq(MessageType), pipe' = Sent(pipe, s, msgs),
         UNCHANGED <<inbox, waiting>>
  PROVE  Steady
<1> SUFFICES ASSUME NEW i \in DOMAIN ops PROVE Steadily(i)
  BY DEF Steady
<1>1. pipe \in Lines /\ inbox \in Lines /\ ops[i].from \in Servers
  BY State DEF OpType
<1> DEFINE q == Sent(pipe, s, msgs)
<1>2. /\ q \in Lines
      /\ \A x \in Servers : \A V : Count(q[x], V) = Count(pipe[x], V) + IF x = s THEN Count(msgs, V) ELSE 0
  BY <1>1, SentCount
<1>3. \A x \in Servers : \A V : Count(pipe[x], V) \in Nat /\ Count(inbox[x], V) \in Nat
  BY <1>1, LineCount
<1>4. \A V : Count(msgs, V) \in Nat
  BY CountType
<1>5. pipe' = q
  OBVIOUS
<1> HIDE DEF q
<1>6. \A x \in Servers : \A V : Count(pipe[x], V) <= Count(q[x], V)
  BY <1>2, <1>3, <1>4
<1>7. \A x \in Servers : \A V : Count(inbox[x], V) <= Count(inbox[x], V)
  BY <1>3
<1> QED BY <1>1, <1>2, <1>5, <1>6, <1>7, LinesSteady

\* A call that is not settled, though its question was asked, among the servers
\* that were counted.
Open(o) == o.cluster # {} /\ o.settled = <<>> /\ o.stage = "done"

\* The calls there were lose nothing, and none that asks is open at once.
Begins ==
  /\ Steady /\ \A i \in DOMAIN ops : i \in DOMAIN ops' /\ ops'[i] = ops[i]
  /\ \A i \in DOMAIN ops' : i \in DOMAIN ops \/ (Asks(ops'[i]) => ~Open(ops'[i]))

\* What a question begins as, among the servers on.
Begun(on, s, o) ==
  /\ o.from = s /\ o.responses = <<>> /\ o.cluster = (IF s \in on THEN on ELSE {})
  /\ o.stage = "asked" \/ o.local

LEMMA CountCall ==
  ASSUME IInv, Counting, NEW s \in Servers, NEW o \in OpType, NEW r \in BOOLEAN, NEW q \in BOOLEAN,
         OpInv(o), Asks(o) => ~r /\ Begun(On, s, o),
         ops' = Append(ops, o), pipe' = Published(s, CallMessages(s, r, q)),
         UNCHANGED <<sub, inbox, waiting>>
  PROVE  Counting' /\ Begins
<1> DEFINE k == NextCall
           msgs == CallMessages(s, r, q)
           p == Sent(pipe, s, msgs)
<1>1. /\ k \in Nat /\ k \notin DOMAIN ops /\ ops'[k] = o
      /\ \A i \in DOMAIN ops : ops'[i] = ops[i]
      /\ \A i \in DOMAIN ops' : i \in DOMAIN ops \/ i = k
  BY AppendOps DEF IInv
<1>2. pipe \in Lines /\ inbox \in Lines /\ On' = On /\ On \in SUBSET Servers
  BY State DEF On
<1>3. /\ msgs \in Seq(MessageType)
      /\ \A j \in DOMAIN msgs : /\ msgs[j].op = k
                                /\ msgs[j].type = "numsub" \/ (r /\ msgs[j].type = "request")
  BY <1>1, CallMessagesOf
<1>4. pipe' = p
  BY DEF Published, Sent
<1> HIDE DEF msgs, k
<1>5. /\ p \in Lines
      /\ \A x \in Servers : \A V : Count(p[x], V) = Count(pipe[x], V) + IF x = s THEN Count(msgs, V) ELSE 0
  BY <1>2, <1>3, SentCount
<1> HIDE DEF p
<1>6. ASSUME NEW i \in DOMAIN ops, Asks(ops[i])
      PROVE  AskOp(p, inbox, waiting, On, ops[i], i)
  <2>1. \A j \in DOMAIN msgs : msgs[j].op # i
    BY <1>1, <1>3
  <2>2. AskOp(pipe, inbox, waiting, On, ops[i], i)
    BY <1>6 DEF Counting, AskOps
  <2> QED BY <1>3, <1>6, <2>1, <2>2, SentMoves DEF p
<1>7. ASSUME Asks(o) PROVE AskOp(p, inbox, waiting, On, o, k)
  <2>1. ~r /\ Begun(On, s, o)
    BY <1>7
  <2>2. \A t : Count(msgs, Requests(k)) = 0 /\ Count(msgs, Answers(k, t)) = 0
    <3> TAKE t
    <3>1. \A j \in DOMAIN msgs : msgs[j] \notin Requests(k) /\ msgs[j] \notin Answers(k, t)
      BY <1>3, <2>1 DEF Requests, Answers
    <3> QED BY <1>3, <3>1, CountType
  <2>3. ASSUME NEW t \in Servers
        PROVE  Asking(p, k, s) + Answering(p, inbox, waiting, k, s, t) + Given(o, t) = 0
               /\ Answering(p, inbox, waiting, k, s, t) = 0
    <3>1. Asking(pipe, k, s) = 0 /\ Answering(pipe, inbox, waiting, k, s, t) = 0
      BY <1>1, NothingYet
    <3>2. Count(p[s], Requests(k)) = 0
      BY <1>5, <2>2, <3>1 DEF Asking
    <3>3. Count(p[t], Answers(k, t)) = Count(pipe[t], Answers(k, t))
      <4>1. Count(pipe[t], Answers(k, t)) \in Nat
        BY <1>2, LineCount
      <4> QED BY <1>5, <2>2, <4>1
    <3>4. Answering(p, inbox, waiting, k, s, t) = 0
      BY <3>1, <3>3 DEF Answering
    <3>5. Given(o, t) = 0
      BY <2>1, GivenType DEF Begun
    <3> QED BY <3>2, <3>4, <3>5 DEF Asking
  <2>4. \A t \in Servers : Asking(p, k, s) + Answering(p, inbox, waiting, k, s, t) + Given(o, t) <= 1
    BY <2>3
  <2>5. \A j \in DOMAIN o.responses : FALSE
    BY <2>1 DEF Begun
  <2>6. o.cluster # {} => o.cluster = On /\ s \in On
    BY <2>1 DEF Begun
  <2> QED BY <2>1, <2>3, <2>4, <2>5, <2>6 DEF AskOp, Begun
<1>8. AskOps(p, inbox, waiting, On, ops')
  BY <1>1, <1>6, <1>7 DEF AskOps
<1>9. Steady
  BY <1>3, <1>4, SentSteady DEF p
<1>10. Asks(o) => ~Open(o)
  <2> SUFFICES ASSUME Asks(o), o.stage = "done" PROVE o.settled # <<>>
    BY DEF Open
  <2>1. AskInv(o) /\ o.local
    BY DEF OpInv, Begun
  <2>2. Len(o.settled) = 1
    BY <2>1 DEF AskInv
  <2> QED BY <2>2
<1>11. \A i \in DOMAIN ops : i \in DOMAIN ops'
  BY AppendOps DEF IInv
<1>12. Begins
  BY <1>1, <1>9, <1>10, <1>11 DEF Begins
<1> QED BY <1>2, <1>4, <1>8, <1>12 DEF Counting

LEMMA CountCalls ==
  ASSUME IInv, Counting, NEW s \in Servers, Calls(s)
  PROVE  Counting' /\ Begins
<1>0. Typed
  BY DEF IInv
<1>1. ASSUME NEW o \in OpType, OpInv(o), o.kind \notin {"fetch", "emit"}, ops' = Append(ops, o),
             NEW r \in BOOLEAN, NEW q \in BOOLEAN, pipe' = Published(s, CallMessages(s, r, q)),
             UNCHANGED <<sub, inbox, waiting>>
      PROVE  Counting' /\ Begins
  BY <1>1, CountCall DEF Asks
<1>2. CASE Tell(s)
  <2> DEFINE o == NewOp("tell", s, FALSE, All, All)
  <2>1. "tell" \in Kinds /\ "tell" \in Kinds \ {"ack", "fetch", "emit"} /\ FALSE \in BOOLEAN
        /\ All \in Rooms \union {All}
    BY DEF Kinds
  <2>2. o \in OpType /\ o.kind = "tell"
    <3>1. \A l \in BOOLEAN : LET c == NewOp("tell", s, l, All, All) IN c \in OpType /\ c.kind = "tell"
      BY <2>1, NewCall
    <3> QED BY <3>1
  <2>3. OpInv(o)
    BY <2>1, PlainCall
  <2>4. /\ ops' = Append(ops, o) /\ pipe' = Published(s, Requested(s, FALSE))
        /\ UNCHANGED <<sub, inbox, waiting>>
    BY <1>2 DEF Tell, sockets
  <2>5. Requested(s, FALSE) = CallMessages(s, TRUE, FALSE)
    BY DEF Requested, CallMessages
  <2> HIDE DEF o
  <2> QED BY <1>1, <2>2, <2>3, <2>4, <2>5
<1>3. ASSUME NEW k \in {"fetch", "emit"}, NEW l \in BOOLEAN, Ask(s, k, l) PROVE Counting' /\ Begins
  <2> DEFINE o == AskCall(k, s, l)
  <2>1. o \in OpType /\ OpInv(o) /\ Begun(On, s, o)
    BY AskCallOp DEF Begun
  <2>2. /\ ops' = Append(ops, o) /\ pipe' = Published(s, IF l THEN <<>> ELSE <<Numsub(s, NextCall)>>)
        /\ UNCHANGED <<sub, inbox, waiting>>
    BY <1>3 DEF Ask, AskCall, Asked, sockets
  <2>3. (IF l THEN <<>> ELSE <<Numsub(s, NextCall)>>) = CallMessages(s, FALSE, ~l)
    BY DEF CallMessages
  <2> HIDE DEF o
  <2> QED BY <2>1, <2>2, <2>3, CountCall
<1>4. ASSUME NEW l \in BOOLEAN, NEW r \in Rooms \union {All}, Broadcast(s, l, r) PROVE Counting' /\ Begins
  <2> DEFINE o == NewOp("broadcast", s, l, r, All)
  <2>1. o \in OpType /\ o.kind = "broadcast" /\ OpInv(o)
    BY NewCall, PlainCall DEF Kinds
  <2>2. /\ ops' = Append(ops, o) /\ pipe' = Published(s, Requested(s, l))
        /\ UNCHANGED <<sub, inbox, waiting>>
    BY <1>4 DEF Broadcast, sockets
  <2>3. Requested(s, l) = CallMessages(s, ~l, FALSE)
    BY DEF Requested, CallMessages
  <2> HIDE DEF o
  <2> QED BY <1>1, <2>1, <2>2, <2>3
<1>5. ASSUME NEW l \in BOOLEAN, NEW r \in Rooms \union {All}, BroadcastWithAck(s, l, r) PROVE Counting' /\ Begins
  <2> DEFINE o == AckCall(s, l, r)
  <2>1. o \in OpType /\ o.kind = "ack" /\ OpInv(o)
    BY AckCallOp
  <2>2. /\ ops' = Append(ops, o) /\ pipe' = Published(s, Requested(s, l) \o <<Numsub(s, NextCall)>>)
        /\ UNCHANGED <<sub, inbox, waiting>>
    BY <1>5 DEF BroadcastWithAck, AckCall, Asked, Armed, Pending, sockets
  <2>3. Requested(s, l) \o <<Numsub(s, NextCall)>> = CallMessages(s, ~l, TRUE)
    <3>1. <<Numsub(s, NextCall)>> \in Seq({Numsub(s, NextCall)})
      OBVIOUS
    <3>2. <<>> \o <<Numsub(s, NextCall)>> = <<Numsub(s, NextCall)>>
      BY <3>1, ConcatEmptySeq
    <3> QED BY <3>2 DEF Requested, CallMessages
  <2> HIDE DEF o
  <2> QED BY <1>1, <2>1, <2>2, <2>3
<1>6. ASSUME NEW l \in BOOLEAN, NEW r \in Rooms \union {All}, NEW k \in {"join", "leave", "disconnect"},
             NEW a \in Rooms \union {All}, RoomCall(s, k, l, r, a)
      PROVE  Counting' /\ Begins
  <2> DEFINE o == NewOp(k, s, l, r, a)
  <2>1. k \in Kinds /\ k \in Kinds \ {"ack", "fetch", "emit"}
    BY DEF Kinds
  <2>2. o \in OpType /\ o.kind = k /\ OpInv(o)
    BY <2>1, NewCall, PlainCall
  <2>3. /\ ops' = Append(ops, o) /\ pipe' = Published(s, Requested(s, l)) /\ Apply(s, NextCall, o)
        /\ UNCHANGED <<sub, inbox>>
    BY <1>6 DEF RoomCall
  <2>4. Requested(s, l) = CallMessages(s, ~l, FALSE)
    BY DEF Requested, CallMessages
  <2> HIDE DEF o
  <2>5. NextCall \in Nat
    BY <1>0, <2>2, <2>3, AppendOps DEF IInv
  <2>6. waiting' = waiting
    BY <1>0, <2>2, <2>3, <2>5, Applied
  <2> QED BY <1>1, <2>2, <2>3, <2>4, <2>6
<1> QED BY <1>2, <1>3, <1>4, <1>5, <1>6 DEF Calls

\* The servers that listen are others than those of the calls under way.
LEMMA DisturbedChange ==
  ASSUME IInv, ops' = Disturbed \/ (UNCHANGED ops /\ On' = On)
  PROVE  Changing
<1>1. CASE ops' = Disturbed
  <2>1. ops' = [i \in DOMAIN ops |-> IF ops[i].settled = <<>> THEN Unlike(ops[i]) ELSE ops[i]]
    BY <1>1 DEF Disturbed, Unlike
  <2>2. ASSUME NEW i \in DOMAIN ops
        PROVE  Keeps(ops[i], ops'[i]) /\ AskChange(On, On', ops[i], ops'[i])
    <3>1. ops[i] \in OpType
      BY State
    <3>2. ops'[i] = IF ops[i].settled = <<>> THEN Unlike(ops[i]) ELSE ops[i]
      BY <2>1
    <3> DEFINE p == Unlike(ops[i])
    <3>3. Keeps(ops[i], p) /\ p.responses = ops[i].responses /\ p.cluster = {}
      BY <3>1, UnlikeOp
    <3> HIDE DEF p
    <3>4. CASE ops[i].settled = <<>>
      BY <3>2, <3>3, <3>4 DEF AskChange, Keeps, p
    <3>5. CASE ops[i].settled # <<>>
      BY <3>2, <3>5 DEF AskChange, Keeps
    <3> QED BY <3>4, <3>5
  <2> QED BY <2>1, <2>2 DEF Changing, Keeps, Asks
<1>2. CASE UNCHANGED ops /\ On' = On
  BY <1>2, StillSame
<1> QED BY <1>1, <1>2

LEMMA CountSubscribe ==
  ASSUME IInv, IInv', Counting, NEW s \in Servers, Subscribe(s)
  PROVE  Counting'
<1>1. UNCHANGED <<pipe, inbox, waiting>>
  BY DEF Subscribe, sockets
<1>2. ops' = Disturbed \/ (UNCHANGED ops /\ On' = On)
  BY DEF Subscribe, On, IInv, Typed
<1> QED BY <1>1, <1>2, StillMoves, DisturbedChange, MoveAndChange

LEMMA CountCrash ==
  ASSUME IInv, IInv', Counting, NEW s \in Servers, Crash(s)
  PROVE  Counting'
<1>1. pipe' = Emptied(pipe, s) /\ inbox' = Emptied(inbox, s) /\ UNCHANGED waiting
  BY DEF Crash, Emptied
<1>2. pipe \in Lines /\ inbox \in Lines
  BY State
<1>3. /\ pipe' \in Lines /\ inbox' \in Lines
      /\ \A x \in Servers : \A V : /\ Count(pipe'[x], V) <= Count(pipe[x], V)
                               /\ Count(inbox'[x], V) <= Count(inbox[x], V)
  BY <1>1, <1>2, EmptiedCount
<1>4. Moving
  BY <1>1, <1>3, LinesLess
<1>5. ops' = Disturbed \/ (UNCHANGED ops /\ On' = On)
  BY DEF Crash, On, IInv, Typed
<1> QED BY <1>4, <1>5, DisturbedChange, MoveAndChange

-----------------------------------------------------------------------------
LEMMA CountNext ==
  ASSUME IInv, IInv', Counting, [Next]_vars
  PROVE  Counting'
<1>1. ASSUME NEW s \in Servers, \/ Calls(s) \/ RunDelayed(s) \/ ReceiveRequest(s) \/ IgnoreSelf(s)
                                \/ ReceiveResponse(s) \/ RedisCounts(s) \/ RedisRoutes(s)
                                \/ Subscribe(s) \/ Crash(s)
      PROVE  Counting'
  BY <1>1, CountCalls, CountRunDelayed, CountReceiveRequest, CountIgnoreSelf, CountReceiveResponse,
     CountRedisCounts, CountRedisRoutes, CountSubscribe, CountCrash
<1>2. ASSUME NEW i \in DOMAIN ops, CountReply(i) \/ Timeout(i) \/ AckTimeout(i) \/ AckCleanup(i)
      PROVE  Counting'
  BY <1>2, CountCountReply, CountTimeouts
<1>3. ASSUME NEW x \in Clients \union Servers, NEW i \in DOMAIN ops, Answer(x, i) PROVE Counting'
  BY <1>3, CountAnswer DEF Process
<1>4. ASSUME NEW c \in Clients, ClientLeaves(c) PROVE Counting'
  BY <1>4, CountStay DEF ClientLeaves, servers
<1>5. CASE UNCHANGED vars
  BY <1>5, CountStay DEF vars, servers, sockets
<1> QED BY <1>1, <1>2, <1>3, <1>4, <1>5 DEF Next

LEMMA CountInit == Init => Counting
<1>1. Init => DOMAIN ops = {}
  BY DEF Init
<1> QED BY <1>1 DEF Counting, AskOps

\* A sequence that has no value twice.
LEMMA OnceEach ==
  ASSUME NEW S, NEW q \in Seq(S), \A x : Count(q, {x}) <= 1
  PROVE  /\ \A j, k \in DOMAIN q : q[j] = q[k] => j = k
         /\ IsFiniteSet(Values(q)) /\ Cardinality(Values(q)) = Len(q)
<1>1. ASSUME NEW j \in DOMAIN q, NEW k \in DOMAIN q, q[j] = q[k], j # k PROVE FALSE
  <2> DEFINE A == {i \in DOMAIN q : q[i] \in {q[j]}}
  <2>1. IsFiniteSet(A) /\ Cardinality(A) <= 1
    BY CountType DEF Count
  <2>2. {j, k} \in SUBSET A
    BY <1>1
  <2> HIDE DEF A
  <2>3. Cardinality({j, k}) <= Cardinality(A) /\ IsFiniteSet({j, k})
    BY <2>1, <2>2, FS_Subset
  <2>4. IsFiniteSet({j}) /\ Cardinality({j}) = 1
    BY FS_Singleton
  <2>5. Cardinality({j} \union {k}) = 2
    <3>1. k \notin {j}
      BY <1>1
    <3>2. Cardinality({j} \union {k}) = Cardinality({j}) + 1
      BY <2>4, <3>1, FS_AddElement
    <3>3. 1 + 1 = 2
      OBVIOUS
    <3> QED BY <2>4, <3>2, <3>3, Zenon
  <2>6. {j} \union {k} = {j, k} /\ Cardinality(A) \in Nat
    BY <2>1, FS_CardinalityType
  <2> DEFINE a == Cardinality(A)
             b == Cardinality({j, k})
  <2>7. b = 2
    BY <2>5, <2>6
  <2>8. a \in Nat /\ a <= 1 /\ b <= a
    BY <2>1, <2>3, <2>6
  <2> HIDE DEF a, b
  <2> QED BY <2>7, <2>8
<1>2. q \in Bijection(DOMAIN q, Values(q))
  BY <1>1 DEF Bijection, Injection, Surjection, IsInjective, Values
<1>3. Len(q) \in Nat /\ DOMAIN q = 1 .. Len(q)
  OBVIOUS
<1>4. IsFiniteSet(DOMAIN q) /\ Cardinality(DOMAIN q) = Len(q)
  BY <1>3, FS_Interval
<1>5. IsFiniteSet(Values(q)) /\ Cardinality(Values(q)) = Cardinality(DOMAIN q)
  BY <1>2, <1>4, FS_Bijection DEF ExistsBijection
<1> QED BY <1>1, <1>4, <1>5

\* fetchSockets() and serverSideEmit() that succeed have the answer of every
\* other server, once each (adapter.ts:829-853): when the cluster stayed the
\* same, no answer was counted for another, whatever the delays.
THEOREM AnswersExact == Spec => []ResponsesExact
<1>1. IInv /\ Counting => ResponsesExact
  <2> SUFFICES ASSUME IInv, Counting, NEW i \in Calling, ops[i].kind # "ack", ~ops[i].local,
                      ops[i].settled = <<"ok">>, ops[i].cluster # {}
               PROVE  Distinct(ops[i].responses)
                      /\ Values(ops[i].responses) = ops[i].cluster \ {ops[i].from}
    BY DEF ResponsesExact
  <2> DEFINE o == ops[i]
             q == o.responses
             C == o.cluster \ {o.from}
  <2>1. i \in DOMAIN ops /\ o \in OpType /\ OpInv(o) /\ Asks(o)
    BY State DEF Calling, Asks
  <2>2. AskInv(o) /\ AskOp(pipe, inbox, waiting, On, o, i)
    BY <2>1 DEF OpInv, Counting, AskOps
  <2>3. o.stage = "done" /\ Len(q) = o.count - 1
    BY <2>2, Outcomes DEF AskInv
  <2>4. q \in Seq(Process) /\ o.from \in Servers /\ o.cluster \in SUBSET Servers
    BY <2>1 DEF OpType
  <2>5. ASSUME NEW x PROVE Count(q, {x}) <= 1
    <3>1. Count(q, {x}) \in Nat
      BY <2>4, CountType
    <3>2. CASE x \in Servers \ {o.from}
      <4>1. Asking(pipe, i, o.from) + Answering(pipe, inbox, waiting, i, o.from, x) + Count(q, {x}) <= 1
        BY <2>2, <3>2 DEF AskOp, Given
      <4>2. Asking(pipe, i, o.from) \in Nat /\ Answering(pipe, inbox, waiting, i, o.from, x) \in Nat
        BY <2>4, <3>2, State, MoveTypes
      <4> QED BY <3>1, <4>1, <4>2
    <3>3. CASE x \notin Servers \ {o.from}
      <4>1. \A j \in DOMAIN q : q[j] \notin {x}
        BY <2>2, <3>3 DEF AskOp
      <4>2. Count(q, {x}) = 0
        BY <2>4, <4>1, CountType
      <4> QED BY <4>2
    <3> QED BY <3>2, <3>3
  <2>6. IsFiniteSet(Values(q)) /\ Cardinality(Values(q)) = Len(q)
    BY <2>4, <2>5, OnceEach
  <2>7. Values(q) \in SUBSET C /\ o.from \in o.cluster /\ o.count = Cardinality(o.cluster)
    BY <2>2, <2>3 DEF AskOp, Values
  <2>8. IsFiniteSet(o.cluster) /\ Cardinality(o.cluster) \in Nat
    BY <2>4, ClusterAssumption, FS_Subset, FS_CardinalityType
  <2>9. IsFiniteSet(C) /\ Cardinality(C) = o.count - 1
    BY <2>7, <2>8, FS_RemoveElement
  <2>10. Values(q) = C
    BY <2>3, <2>6, <2>7, <2>9, FS_Subset
  <2> QED BY <2>6, <2>10 DEF Distinct
<1>2. IInv /\ Counting /\ [Next]_vars => IInv' /\ Counting'
  BY NextInv, CountNext
<1> QED BY <1>1, <1>2, InitInv, CountInit, PTL DEF Spec

-----------------------------------------------------------------------------
(* The acknowledgements of a broadcast.                                    *)

Tells(i, t) == {m \in MessageType : m.type = "count" /\ m.op = i /\ m.by = t}
Acks(i, c) == {m \in MessageType : m.type = "ack" /\ m.op = i /\ m.by = c}

\* Where broadcast i of server f is: its request, the servers it has still to
\* reach, the numbers of clients on their way back, the clients it has reached,
\* and the acknowledgements owed or on their way back.
Track(p, b, w, d, h, g, i, f) ==
  [asked |-> Count(p[f], Requests(i)),
   at |-> [t \in Servers |-> IF t = f THEN Count(d[f], {i}) ELSE Count(b[t], Requests(i))],
   telling |-> [t \in Servers |-> Count(p[t], Tells(i, t)) + Count(b[f], Tells(i, t))],
   logs |-> [c \in Clients |-> Count(g[c], {i})],
   way |-> [c \in Clients |-> Owed(w, c, i) + Count(p[h[c]], Acks(i, c)) + Count(b[f], Acks(i, c))]]

TrackType ==
  [asked : Nat, at : [Servers -> Nat], telling : [Servers -> Nat], logs : [Clients -> Nat],
   way : [Clients -> Nat]]

\* What has still to reach server t.
Coming(v, f, t) == v.at[t] + IF t = f THEN 0 ELSE v.asked

\* The clients it has reached, those among them of server t.
Hit(v) == {c \in Clients : v.logs[c] = 1}
HitAt(v, h, t) == {c \in Hit(v) : h[c] = t}

\* The servers whose number of clients the caller knows, and those clients.
Reported(v, o) ==
  {t \in o.cluster : (t = o.from \/ ~o.local) /\ Coming(v, o.from, t) + v.telling[t] = 0}
Owing(v, h, o) == {c \in Hit(v) : h[c] \in Reported(v, o)}

\* A broadcast reaches a client once, and has one acknowledgement of it at most.
Each(v, h, o) ==
  /\ \A k \in DOMAIN o.responses : o.responses[k] \in Clients
  /\ \A t \in Servers : Coming(v, o.from, t) + v.telling[t] <= 1
  /\ \A c \in Clients :
       /\ Coming(v, o.from, h[c]) + v.logs[c] <= 1
       /\ v.way[c] + Given(o, c) <= v.logs[c]
       /\ o.local /\ v.logs[c] = 1 => h[c] = o.from

\* While the servers that listen are the same, none is lost.
Live(v, h, on, o) ==
  /\ o.cluster = on
  /\ \A t \in Servers \ on : v.at[t] + v.telling[t] = 0
  /\ \A c \in Clients : /\ v.logs[c] = v.way[c] + Given(o, c)
                        /\ v.logs[c] = 1 => h[c] \in on
  /\ o.current = Cardinality(Reported(v, o))
  /\ o.clients = Cardinality(Owing(v, h, o))

\* Once it has been acknowledged, it reaches nobody else.
Final(v, o) ==
  /\ v.asked = 0 /\ \A t \in Servers : v.at[t] = 0
  /\ \A c \in Clients : Given(o, c) = v.logs[c]

Whole(v, h, on, o) ==
  o.cluster # {} =>
    /\ o.from \in o.cluster
    /\ o.stage # "asked" /\ o.settled # <<"error">> => o.count = Cardinality(o.cluster)
    /\ o.settled = <<>> => Live(v, h, on, o)
    /\ o.settled = <<"ok">> => Final(v, o)

Homes == [Clients -> Servers]

LEMMA TrackFields ==
  ASSUME NEW v \in TrackType, NEW f \in Servers
  PROVE  /\ v.asked \in Nat
         /\ \A t \in Servers : v.at[t] \in Nat /\ v.telling[t] \in Nat /\ Coming(v, f, t) \in Nat
         /\ \A c \in Clients : v.logs[c] \in Nat /\ v.way[c] \in Nat
         /\ Coming(v, f, f) = v.at[f] /\ \A t \in Servers : t # f => Coming(v, f, t) = v.at[t] + v.asked
<1>1. /\ v.asked \in Nat /\ v.at \in [Servers -> Nat] /\ v.telling \in [Servers -> Nat]
      /\ v.logs \in [Clients -> Nat] /\ v.way \in [Clients -> Nat]
  BY DEF TrackType
<1>2. \A t \in Servers : v.at[t] \in Nat /\ v.telling[t] \in Nat
  BY <1>1
<1>3. \A c \in Clients : v.logs[c] \in Nat /\ v.way[c] \in Nat
  BY <1>1
<1>4. /\ \A t \in Servers : t # f => Coming(v, f, t) = v.at[t] + v.asked
      /\ \A t \in Servers : t = f => Coming(v, f, t) = v.at[t]
  BY <1>1, <1>2 DEF Coming
<1> QED BY <1>1, <1>2, <1>3, <1>4

LEMMA FiniteClients ==
  ASSUME NEW v, NEW h, NEW o, NEW t
  PROVE  /\ IsFiniteSet(Hit(v)) /\ IsFiniteSet(HitAt(v, h, t)) /\ IsFiniteSet(Owing(v, h, o))
         /\ o.cluster \subseteq Servers => IsFiniteSet(Reported(v, o))
         /\ HitAt(v, h, t) \subseteq Hit(v) /\ Owing(v, h, o) \subseteq Hit(v)
<1>1. Hit(v) \subseteq Clients /\ HitAt(v, h, t) \subseteq Hit(v) /\ Owing(v, h, o) \subseteq Hit(v)
  BY DEF Hit, HitAt, Owing
<1>2. IsFiniteSet(Hit(v))
  BY <1>1, ClusterAssumption, FS_Subset
<1>3. IsFiniteSet(HitAt(v, h, t)) /\ IsFiniteSet(Owing(v, h, o))
  BY <1>1, <1>2, FS_Subset
<1>4. ASSUME o.cluster \subseteq Servers PROVE IsFiniteSet(Reported(v, o))
  <2>1. Reported(v, o) \subseteq Servers
    BY <1>4 DEF Reported
  <2> QED BY <2>1, ClusterAssumption, FS_Subset
<1> QED BY <1>1, <1>2, <1>3, <1>4

\* What v2 holds of a broadcast is what v held, less what is lost on its way.
Fades(v, v2, f, h, on, live) ==
  /\ v2.logs = v.logs /\ v2.asked <= v.asked
  /\ \A t \in Servers : Coming(v2, f, t) <= Coming(v, f, t) /\ v2.telling[t] <= v.telling[t]
  /\ \A c \in Clients : v2.way[c] <= v.way[c]
  /\ live =>
       /\ \A t \in on : Coming(v2, f, t) = Coming(v, f, t) /\ v2.telling[t] = v.telling[t]
       /\ \A t \in Servers \ on : v2.at[t] <= v.at[t]
       /\ \A c \in Clients : h[c] \in on => v2.way[c] = v.way[c]

LEMMA FadedOp ==
  ASSUME NEW v \in TrackType, NEW v2 \in TrackType, NEW h \in Homes, NEW on \in SUBSET Servers,
         NEW o \in OpType, Each(v, h, o), Whole(v, h, on, o),
         Fades(v, v2, o.from, h, on, o.cluster # {} /\ o.settled = <<>>)
  PROVE  Each(v2, h, o) /\ Whole(v2, h, on, o)
<1> DEFINE f == o.from
<1>1. f \in Servers /\ o.cluster \in SUBSET Servers /\ \A c \in Clients : h[c] \in Servers
  BY DEF OpType, Homes
<1>2. /\ v.asked \in Nat
      /\ \A t \in Servers : v.at[t] \in Nat /\ v.telling[t] \in Nat /\ Coming(v, f, t) \in Nat
      /\ \A c \in Clients : v.logs[c] \in Nat /\ v.way[c] \in Nat
      /\ Coming(v, f, f) = v.at[f] /\ \A t \in Servers : t # f => Coming(v, f, t) = v.at[t] + v.asked
  BY <1>1, TrackFields
<1>3. /\ v2.asked \in Nat
      /\ \A t \in Servers : v2.at[t] \in Nat /\ v2.telling[t] \in Nat /\ Coming(v2, f, t) \in Nat
      /\ \A c \in Clients : v2.logs[c] \in Nat /\ v2.way[c] \in Nat
      /\ Coming(v2, f, f) = v2.at[f] /\ \A t \in Servers : t # f => Coming(v2, f, t) = v2.at[t] + v2.asked
  BY <1>1, TrackFields
<1>4. \A c \in Clients : Given(o, c) \in Nat
  BY GivenType
<1> HIDE DEF f
<1>5. /\ v2.logs = v.logs /\ v2.asked <= v.asked
      /\ \A t \in Servers : Coming(v2, f, t) <= Coming(v, f, t) /\ v2.telling[t] <= v.telling[t]
      /\ \A c \in Clients : v2.way[c] <= v.way[c]
  BY DEF Fades, f
<1>6. Each(v2, h, o)
  <2>1. \A t \in Servers : Coming(v2, f, t) + v2.telling[t] <= 1
    <3> SUFFICES ASSUME NEW t \in Servers PROVE Coming(v2, f, t) + v2.telling[t] <= 1
      OBVIOUS
    <3>1. Coming(v, f, t) + v.telling[t] <= 1
      BY DEF Each, f
    <3> QED BY <1>2, <1>3, <1>5, <3>1
  <2>2. ASSUME NEW c \in Clients
        PROVE  /\ Coming(v2, f, h[c]) + v2.logs[c] <= 1
               /\ v2.way[c] + Given(o, c) <= v2.logs[c]
               /\ o.local /\ v2.logs[c] = 1 => h[c] = f
    <3>1. /\ Coming(v, f, h[c]) + v.logs[c] <= 1 /\ v.way[c] + Given(o, c) <= v.logs[c]
          /\ o.local /\ v.logs[c] = 1 => h[c] = f
      BY DEF Each, f
    <3>2. /\ Coming(v2, f, h[c]) <= Coming(v, f, h[c]) /\ v2.logs[c] = v.logs[c] /\ v2.way[c] <= v.way[c]
          /\ Coming(v2, f, h[c]) \in Nat /\ Coming(v, f, h[c]) \in Nat
      BY <1>1, <1>2, <1>3, <1>5
    <3>3. v2.logs[c] \in Nat /\ v.way[c] \in Nat /\ v2.way[c] \in Nat /\ Given(o, c) \in Nat
      BY <1>2, <1>3, <1>4
    <3> QED BY <3>1, <3>2, <3>3
  <2> QED BY <2>1, <2>2 DEF Each, f
<1>7. ASSUME o.cluster # {}, o.settled = <<>> PROVE Live(v2, h, on, o)
  <2>1. Live(v, h, on, o) /\ f \in on
    BY <1>7 DEF Whole, Live, f
  <2>2. /\ \A t \in on : Coming(v2, f, t) = Coming(v, f, t) /\ v2.telling[t] = v.telling[t]
        /\ \A t \in Servers \ on : v2.at[t] <= v.at[t]
        /\ \A c \in Clients : h[c] \in on => v2.way[c] = v.way[c]
    BY <1>7 DEF Fades, f
  <2>3. Reported(v2, o) = Reported(v, o)
    BY <2>1, <2>2 DEF Reported, Live, f
  <2>4. Owing(v2, h, o) = Owing(v, h, o)
    BY <1>5, <2>3 DEF Owing, Hit
  <2>5. \A t \in Servers \ on : v2.at[t] + v2.telling[t] = 0
    <3> SUFFICES ASSUME NEW t \in Servers \ on PROVE v2.at[t] + v2.telling[t] = 0
      OBVIOUS
    <3>1. v.at[t] + v.telling[t] = 0 /\ v2.at[t] <= v.at[t] /\ v2.telling[t] <= v.telling[t]
      BY <1>5, <2>1, <2>2 DEF Live
    <3>2. v.at[t] \in Nat /\ v.telling[t] \in Nat /\ v2.at[t] \in Nat /\ v2.telling[t] \in Nat
      BY <1>2, <1>3
    <3>3. v.at[t] = 0 /\ v.telling[t] = 0
      BY <3>1, <3>2
    <3>4. v2.at[t] = 0 /\ v2.telling[t] = 0
      BY <3>1, <3>2, <3>3
    <3> QED BY <3>4
  <2>6. ASSUME NEW c \in Clients
        PROVE  v2.logs[c] = v2.way[c] + Given(o, c) /\ (v2.logs[c] = 1 => h[c] \in on)
    <3>1. v.logs[c] = v.way[c] + Given(o, c) /\ (v.logs[c] = 1 => h[c] \in on)
      BY <2>1 DEF Live
    <3>2. v2.logs[c] = v.logs[c] /\ v2.way[c] <= v.way[c] /\ (h[c] \in on => v2.way[c] = v.way[c])
      BY <1>5, <2>2
    <3>3. v.logs[c] \in {0, 1}
      <4>1. Coming(v, f, h[c]) + v.logs[c] <= 1 /\ Coming(v, f, h[c]) \in Nat
        BY <1>1, <1>2 DEF Each, f
      <4> QED BY <1>2, <4>1
    <3>4. v.way[c] \in Nat /\ v2.way[c] \in Nat /\ Given(o, c) \in Nat
      BY <1>2, <1>3, <1>4
    <3> QED BY <3>1, <3>2, <3>3, <3>4
  <2> QED BY <2>1, <2>3, <2>4, <2>5, <2>6 DEF Live
<1>8. ASSUME o.cluster # {}, o.settled = <<"ok">> PROVE Final(v2, o)
  <2>1. Final(v, o)
    BY <1>8 DEF Whole
  <2>2. v2.asked = 0
    BY <1>2, <1>3, <1>5, <2>1 DEF Final
  <2>3. ASSUME NEW t \in Servers PROVE v2.at[t] = 0
    <3>1. v.at[t] = 0 /\ v.asked = 0
      BY <2>1 DEF Final
    <3>2. Coming(v, f, t) = 0
      BY <1>2, <3>1
    <3>3. Coming(v2, f, t) = 0
      BY <1>3, <1>5, <3>2
    <3> QED BY <1>3, <2>2, <3>3
  <2> QED BY <1>5, <2>1, <2>2, <2>3 DEF Final
<1> QED BY <1>6, <1>7, <1>8 DEF Whole

\* The call o has become o2, and the servers that listen on2.
AckChange(on, on2, o, o2) ==
  /\ o2.from = o.from /\ (o2.local <=> o.local) /\ o2.responses = o.responses
  /\ o2.cluster # {} =>
       /\ o2.cluster = o.cluster
       /\ o2.settled = <<>> => /\ o.settled = <<>> /\ on2 = on
                               /\ o2.current = o.current /\ o2.clients = o.clients
       /\ o2.settled = <<"ok">> => o.settled = <<"ok">>
       /\ o2.stage # "asked" /\ o2.settled # <<"error">> =>
            \/ o2.count = Cardinality(o2.cluster)
            \/ o.stage # "asked" /\ o.settled # <<"error">> /\ o2.count = o.count

LEMMA ChangedAck ==
  ASSUME NEW v \in TrackType, NEW h \in Homes, NEW on, NEW on2,
         NEW o \in OpType, NEW o2 \in OpType, Each(v, h, o), Whole(v, h, on, o), AckChange(on, on2, o, o2)
  PROVE  Each(v, h, o2) /\ Whole(v, h, on2, o2)
<1>1. /\ o2.from = o.from /\ (o2.local <=> o.local) /\ o2.responses = o.responses
      /\ \A c : Given(o2, c) = Given(o, c)
  BY DEF AckChange, Given
<1>2. Each(v, h, o2)
  BY <1>1 DEF Each
<1>3. ASSUME o2.cluster # {}
      PROVE  /\ o2.from \in o2.cluster
             /\ o2.stage # "asked" /\ o2.settled # <<"error">> => o2.count = Cardinality(o2.cluster)
             /\ o2.settled = <<>> => Live(v, h, on2, o2)
             /\ o2.settled = <<"ok">> => Final(v, o2)
  <2>1. o2.cluster = o.cluster /\ o.from \in o.cluster
    BY <1>3 DEF AckChange, Whole
  <2>2. o2.stage # "asked" /\ o2.settled # <<"error">> => o2.count = Cardinality(o2.cluster)
    BY <1>3, <2>1 DEF AckChange, Whole
  <2>3. ASSUME o2.settled = <<>> PROVE Live(v, h, on2, o2)
    <3>1. /\ o.settled = <<>> /\ on2 = on /\ o2.current = o.current /\ o2.clients = o.clients
      BY <1>3, <2>3 DEF AckChange
    <3>2. Live(v, h, on, o)
      BY <1>3, <2>1, <3>1 DEF Whole
    <3>3. Reported(v, o2) = Reported(v, o)
      BY <1>1, <2>1 DEF Reported
    <3>4. Owing(v, h, o2) = Owing(v, h, o)
      BY <3>3 DEF Owing
    <3> QED BY <1>1, <2>1, <3>1, <3>2, <3>3, <3>4 DEF Live
  <2>4. ASSUME o2.settled = <<"ok">> PROVE Final(v, o2)
    <3>1. Final(v, o)
      BY <1>3, <2>1, <2>4 DEF AckChange, Whole
    <3> QED BY <1>1, <3>1 DEF Final
  <2> QED BY <1>1, <2>1, <2>2, <2>3, <2>4
<1> QED BY <1>2, <1>3 DEF Whole

LEMMA Hits ==
  ASSUME NEW v \in TrackType, NEW h \in Homes, NEW o \in OpType, Each(v, h, o)
  PROVE  /\ \A c \in Clients : v.logs[c] \in {0, 1} /\ Given(o, c) \in {0, 1} /\ Given(o, c) <= v.logs[c]
         /\ \A c \in Clients : Coming(v, o.from, h[c]) # 0 => v.logs[c] = 0
         /\ \A t \in Servers : Coming(v, o.from, t) # 0 => HitAt(v, h, t) = {}
<1>1. o.from \in Servers /\ \A c \in Clients : h[c] \in Servers
  BY DEF OpType, Homes
<1>2. ASSUME NEW c \in Clients
      PROVE  /\ v.logs[c] \in {0, 1} /\ Given(o, c) \in {0, 1} /\ Given(o, c) <= v.logs[c]
             /\ Coming(v, o.from, h[c]) # 0 => v.logs[c] = 0
  <2>1. Coming(v, o.from, h[c]) + v.logs[c] <= 1 /\ v.way[c] + Given(o, c) <= v.logs[c]
    BY DEF Each
  <2>2. Coming(v, o.from, h[c]) \in Nat /\ v.logs[c] \in Nat /\ v.way[c] \in Nat
    BY <1>1, TrackFields
  <2>3. Given(o, c) \in Nat
    BY GivenType
  <2> DEFINE a == Coming(v, o.from, h[c])
             l == v.logs[c]
             y == v.way[c]
             n == Given(o, c)
  <2>4. a \in Nat /\ l \in Nat /\ y \in Nat /\ n \in Nat /\ a + l <= 1 /\ y + n <= l
    BY <2>1, <2>2, <2>3
  <2> HIDE DEF a, l, y, n
  <2>5. l \in {0, 1} /\ n \in {0, 1} /\ n <= l /\ (a # 0 => l = 0)
    BY <2>4
  <2> QED BY <2>5 DEF a, l, y, n
<1>3. ASSUME NEW t \in Servers, Coming(v, o.from, t) # 0 PROVE HitAt(v, h, t) = {}
  <2>1. ASSUME NEW c \in HitAt(v, h, t) PROVE FALSE
    <3>1. c \in Clients /\ v.logs[c] = 1 /\ h[c] = t
      BY <2>1 DEF HitAt, Hit
    <3> QED BY <1>2, <1>3, <3>1
  <2> QED BY <2>1
<1> QED BY <1>2, <1>3

\* When everybody it counted has answered, it has reached all it will.
LEMMA CompleteAll ==
  ASSUME NEW v \in TrackType, NEW h \in Homes, NEW on \in SUBSET Servers, NEW o \in OpType,
         Each(v, h, o), Live(v, h, on, o), o.from \in on, v.asked = 0,
         o.expected = Cardinality(on), Complete(o)
  PROVE  Final(v, o)
<1> DEFINE f == o.from
           q == o.responses
           R == Reported(v, o)
<1>1. f \in Servers /\ q \in Seq(Process) /\ Len(q) = o.clients /\ o.current = Cardinality(on)
      /\ o.cluster = on
  BY DEF OpType, Complete, Live
<1>2. R \subseteq on /\ IsFiniteSet(on)
  BY <1>1, ClusterAssumption, FS_Subset DEF Reported
<1>3. Cardinality(R) = Cardinality(on)
  BY <1>1 DEF Live
<1>4. R = on
  BY <1>2, <1>3, FS_Subset
<1>5. ASSUME NEW t \in Servers PROVE v.at[t] = 0
  <2>1. v.at[t] \in Nat /\ v.telling[t] \in Nat /\ Coming(v, f, t) \in Nat /\ Coming(v, f, t) = v.at[t]
    BY <1>1, TrackFields
  <2>2. CASE t \in on
    <3>1. Coming(v, f, t) + v.telling[t] = 0
      BY <1>4, <2>2 DEF Reported
    <3> QED BY <2>1, <3>1
  <2>3. CASE t \notin on
    <3>1. v.at[t] + v.telling[t] = 0
      BY <2>3 DEF Live
    <3> QED BY <2>1, <3>1
  <2> QED BY <2>2, <2>3
<1>6. Owing(v, h, o) = Hit(v)
  <2>1. \A c \in Hit(v) : h[c] \in R
    BY <1>4 DEF Live, Hit
  <2> QED BY <2>1 DEF Owing
<1>7. \A c \in Clients : v.logs[c] \in {0, 1} /\ Given(o, c) \in {0, 1} /\ Given(o, c) <= v.logs[c]
  BY Hits
<1>8. Cardinality(Hit(v)) = Len(q) /\ IsFiniteSet(Hit(v))
  BY <1>1, <1>6, FiniteClients DEF Live
<1>9. ASSUME NEW x PROVE Count(q, {x}) <= 1
  <2>1. CASE x \in Clients
    <3>1. Given(o, x) \in {0, 1}
      BY <1>7, <2>1
    <3> QED BY <3>1 DEF Given
  <2>2. CASE x \notin Clients
    <3>1. \A k \in DOMAIN q : q[k] \notin {x}
      BY <2>2 DEF Each
    <3>2. Count(q, {x}) = 0
      BY <1>1, <3>1, CountType
    <3> QED BY <3>2
  <2> QED BY <2>1, <2>2
<1>10. IsFiniteSet(Values(q)) /\ Cardinality(Values(q)) = Len(q)
  BY <1>1, <1>9, OnceEach
<1>11. ASSUME NEW x \in Clients PROVE Given(o, x) = 0 <=> x \notin Values(q)
  <2>1. Count(q, {x}) = 0 <=> \A k \in DOMAIN q : q[k] \notin {x}
    BY <1>1, CountType
  <2> QED BY <2>1 DEF Given, Values
<1>12. Values(q) \subseteq Hit(v)
  <2> SUFFICES ASSUME NEW x \in Values(q) PROVE x \in Hit(v)
    OBVIOUS
  <2>1. x \in Clients
    BY DEF Values, Each
  <2>2. Given(o, x) # 0
    BY <1>11, <2>1
  <2>3. v.logs[x] = 1
    BY <1>7, <2>1, <2>2
  <2> QED BY <2>1, <2>3 DEF Hit
<1>13. Values(q) = Hit(v)
  BY <1>8, <1>10, <1>12, FS_Subset
<1>14. ASSUME NEW c \in Clients PROVE Given(o, c) = v.logs[c]
  <2>1. CASE v.logs[c] = 0
    BY <1>7, <2>1
  <2>2. CASE v.logs[c] = 1
    <3>1. c \in Values(q)
      BY <1>13, <2>2 DEF Hit
    <3>2. Given(o, c) # 0
      BY <1>11, <3>1
    <3> QED BY <1>7, <2>2, <3>2
  <2> QED BY <1>7, <2>1, <2>2
<1> QED BY <1>5, <1>14 DEF Final

\* checkCompleteness, of a call whose record o has been brought up to date.
LEMMA CheckedAck ==
  ASSUME NEW v \in TrackType, NEW h \in Homes, NEW on \in SUBSET Servers, NEW o \in OpType,
         Each(v, h, o), Whole(v, h, on, o), o.stage # "asked" => v.asked = 0, AckChanged(o)
  PROVE  Each(v, h, CheckCompleteness(o)) /\ Whole(v, h, on, CheckCompleteness(o))
<1> DEFINE p == CheckCompleteness(o)
<1>1. /\ p \in OpType /\ Same(o, p)
      /\ p.expected = o.expected /\ p.current = o.current /\ p.clients = o.clients
      /\ p.responses = o.responses
      /\ Complete(o) => p.settled = Append(o.settled, "ok")
      /\ ~Complete(o) => p = o
  BY CheckOp
<1> HIDE DEF p
<1>2. CASE ~Complete(o)
  BY <1>1, <1>2 DEF p
<1>3. CASE Complete(o)
  <2>1. o.settled \in Seq({"ok", "error"}) /\ o.current \in Nat
    BY DEF OpType
  <2>2. o.settled # <<"ok">> /\ o.settled # <<"error">>
    BY <1>3 DEF AckChanged, Complete, OpType
  <2>3. o.settled = <<>>
    BY <2>1, <2>2, Outcomes DEF AckChanged
  <2>4. o.stage = "done" /\ o.expected = o.count
    BY <1>3, <2>1 DEF AckChanged, Complete
  <2>5. p.settled = <<"ok">>
    BY <1>1, <1>3, <2>3, Outcomes
  <2>6. /\ p.from = o.from /\ (p.local <=> o.local) /\ \A c : Given(p, c) = Given(o, c)
        /\ p.cluster = o.cluster /\ p.count = o.count /\ p.stage = o.stage
    BY <1>1 DEF Same, Keeps, Given
  <2>7. Each(v, h, p)
    BY <1>1, <2>6 DEF Each
  <2>8. ASSUME p.cluster # {}
        PROVE  p.from \in p.cluster /\ p.count = Cardinality(p.cluster) /\ Final(v, p)
    <3>1. /\ o.from \in o.cluster /\ o.count = Cardinality(o.cluster) /\ Live(v, h, on, o)
      BY <2>3, <2>4, <2>6, <2>8, Outcomes DEF Whole
    <3>2. o.cluster = on /\ v.asked = 0
      BY <2>4, <3>1 DEF Live
    <3>3. Final(v, o)
      BY <1>3, <2>4, <3>1, <3>2, CompleteAll
    <3> QED BY <2>6, <3>1, <3>3 DEF Final
  <2> QED BY <2>5, <2>7, <2>8, Outcomes DEF Whole, p
<1> QED BY <1>2, <1>3

-----------------------------------------------------------------------------
(* A broadcast reaches the clients of a server.                            *)

\* It has come to server t, and reached the clients R, whose number is told if n is 1.
Arrives(v, v2, h, o, t, R, n) ==
  /\ t \in Servers /\ R \in SUBSET Clients /\ n \in {0, 1} /\ (o.local => t = o.from)
  /\ \A c \in R : h[c] = t
  /\ v.at[t] # 0 /\ v2.asked = v.asked
  /\ \A x \in Servers : /\ v2.at[x] = v.at[x] - IF x = t THEN 1 ELSE 0
                        /\ v2.telling[x] = v.telling[x] + IF x = t THEN n ELSE 0
  /\ \A c \in Clients : /\ v2.logs[c] = v.logs[c] + IF c \in R THEN 1 ELSE 0
                        /\ v2.way[c] = v.way[c] + IF c \in R THEN 1 ELSE 0

Arrived(v, v2, h, o, t, R, n) ==
  /\ Each(v2, h, o) /\ v.at[t] = 1 /\ v2.at[t] = 0 /\ v.telling[t] = 0 /\ v2.telling[t] = n
  /\ Coming(v, o.from, t) = 1 /\ Coming(v2, o.from, t) = 0
  /\ \A x \in Servers : x # t => /\ Coming(v2, o.from, x) = Coming(v, o.from, x)
                                 /\ v2.telling[x] = v.telling[x] /\ v2.at[x] = v.at[x]
  /\ \A c \in Clients : c \notin R => v2.logs[c] = v.logs[c] /\ v2.way[c] = v.way[c]
  /\ \A c \in R : v.logs[c] = 0 /\ v2.logs[c] = 1 /\ v2.way[c] = v.way[c] + 1
  /\ Hit(v2) = Hit(v) \union R /\ HitAt(v, h, t) = {} /\ HitAt(v2, h, t) = R
  /\ \A x \in Servers : x # t => HitAt(v2, h, x) = HitAt(v, h, x)

LEMMA ArrivedEach ==
  ASSUME NEW v \in TrackType, NEW v2 \in TrackType, NEW h \in Homes,
         NEW o \in OpType, Each(v, h, o), NEW t, NEW R, NEW n, Arrives(v, v2, h, o, t, R, n)
  PROVE  Arrived(v, v2, h, o, t, R, n)
<1>0. /\ t \in Servers /\ R \in SUBSET Clients /\ n \in {0, 1} /\ (o.local => t = o.from)
      /\ \A c \in R : h[c] = t
  BY DEF Arrives
<1> USE <1>0
<1> DEFINE f == o.from
<1>1. f \in Servers /\ \A c \in Clients : h[c] \in Servers
  BY DEF OpType, Homes
<1>2. /\ v.asked \in Nat
      /\ \A x \in Servers : v.at[x] \in Nat /\ v.telling[x] \in Nat /\ Coming(v, f, x) \in Nat
      /\ \A c \in Clients : v.logs[c] \in Nat /\ v.way[c] \in Nat
      /\ Coming(v, f, f) = v.at[f] /\ \A x \in Servers : x # f => Coming(v, f, x) = v.at[x] + v.asked
  BY <1>1, TrackFields
<1>3. /\ v2.asked \in Nat
      /\ \A x \in Servers : v2.at[x] \in Nat /\ v2.telling[x] \in Nat /\ Coming(v2, f, x) \in Nat
      /\ \A c \in Clients : v2.logs[c] \in Nat /\ v2.way[c] \in Nat
      /\ Coming(v2, f, f) = v2.at[f] /\ \A x \in Servers : x # f => Coming(v2, f, x) = v2.at[x] + v2.asked
  BY <1>1, TrackFields
<1>4. \A c \in Clients : Given(o, c) \in Nat
  BY GivenType
<1>5. Coming(v, f, t) + v.telling[t] <= 1
  BY DEF Each
<1> HIDE DEF f
<1>6. v2.asked = v.asked /\ v.at[t] # 0 /\ v2.at[t] = v.at[t] - 1 /\ v2.telling[t] = v.telling[t] + n
  BY DEF Arrives
<1>7. /\ v.at[t] = 1 /\ v2.at[t] = 0 /\ v.telling[t] = 0 /\ v2.telling[t] = n
      /\ Coming(v, f, t) = 1 /\ Coming(v2, f, t) = 0
  <2>1. Coming(v, f, t) >= v.at[t]
    BY <1>0, <1>1, <1>2
  <2>2. v.at[t] = 1 /\ v.telling[t] = 0 /\ Coming(v, f, t) = 1
    BY <1>2, <1>5, <1>6, <2>1
  <2>3. v2.at[t] = 0 /\ v2.telling[t] = n
    BY <1>6, <2>2
  <2>4. Coming(v2, f, t) = 0
    <3>1. CASE t = f
      BY <1>3, <2>3, <3>1
    <3>2. CASE t # f
      BY <1>2, <1>3, <1>6, <2>2, <2>3, <3>2
    <3> QED BY <3>1, <3>2
  <2> QED BY <2>2, <2>3, <2>4
<1>8. ASSUME NEW x \in Servers, x # t
      PROVE  Coming(v2, f, x) = Coming(v, f, x) /\ v2.telling[x] = v.telling[x] /\ v2.at[x] = v.at[x]
  <2>1. v2.at[x] = v.at[x] /\ v2.telling[x] = v.telling[x]
    BY <1>2, <1>8 DEF Arrives
  <2>2. Coming(v2, f, x) = Coming(v, f, x)
    BY <1>2, <1>3, <1>6, <2>1
  <2> QED BY <2>1, <2>2
<1>9. \A c \in Clients : c \notin R => v2.logs[c] = v.logs[c] /\ v2.way[c] = v.way[c]
  BY <1>2 DEF Arrives
<1>10. \A c \in R : v.logs[c] = 0 /\ v2.logs[c] = 1 /\ v2.way[c] = v.way[c] + 1
  <2> SUFFICES ASSUME NEW c \in R PROVE v.logs[c] = 0 /\ v2.logs[c] = 1 /\ v2.way[c] = v.way[c] + 1
    OBVIOUS
  <2>1. v.logs[c] = 0
    <3>1. Coming(v, f, h[c]) # 0
      BY <1>7
    <3> QED BY <3>1, Hits DEF f
  <2> QED BY <2>1 DEF Arrives
<1>11. HitAt(v, h, t) = {}
  <2>1. Coming(v, f, t) # 0
    BY <1>7
  <2> QED BY <2>1, Hits DEF f
<1>12. Hit(v2) = Hit(v) \union R
  BY <1>9, <1>10 DEF Hit
<1>13. HitAt(v2, h, t) = R
  BY <1>11, <1>12 DEF HitAt
<1>14. \A x \in Servers : x # t => HitAt(v2, h, x) = HitAt(v, h, x)
  BY <1>12 DEF HitAt
<1>15. \A x \in Servers : Coming(v2, f, x) + v2.telling[x] <= 1
  <2> SUFFICES ASSUME NEW x \in Servers PROVE Coming(v2, f, x) + v2.telling[x] <= 1
    OBVIOUS
  <2>1. CASE x = t
    BY <1>7, <2>1
  <2>2. CASE x # t
    BY <1>8, <2>2 DEF Each, f
  <2> QED BY <2>1, <2>2
<1>16. ASSUME NEW c \in Clients
       PROVE  /\ Coming(v2, f, h[c]) + v2.logs[c] <= 1 /\ v2.way[c] + Given(o, c) <= v2.logs[c]
              /\ o.local /\ v2.logs[c] = 1 => h[c] = f
  <2>1. /\ Coming(v, f, h[c]) + v.logs[c] <= 1 /\ v.way[c] + Given(o, c) <= v.logs[c]
        /\ o.local /\ v.logs[c] = 1 => h[c] = f
    BY DEF Each, f
  <2>2. CASE c \in R
    <3>1. v.way[c] + Given(o, c) <= 0 /\ v.way[c] \in Nat /\ Given(o, c) \in Nat
      BY <1>2, <1>4, <1>10, <2>1, <2>2
    <3>2. v.way[c] = 0 /\ Given(o, c) = 0
      BY <3>1
    <3> QED BY <1>7, <1>10, <2>2, <3>2 DEF f
  <2>3. CASE c \notin R /\ h[c] = t
    <3>1. v2.logs[c] = v.logs[c] /\ v2.way[c] = v.way[c]
      BY <1>9, <2>3
    <3>2. v.logs[c] \in {0, 1}
      BY Hits
    <3> QED BY <1>7, <2>1, <2>3, <3>1, <3>2
  <2>4. CASE c \notin R /\ h[c] # t
    BY <1>1, <1>8, <1>9, <2>1, <2>4
  <2> QED BY <2>2, <2>3, <2>4
<1>17. Each(v2, h, o)
  BY <1>15, <1>16 DEF Each, f
<1> QED BY <1>7, <1>8, <1>9, <1>10, <1>11, <1>12, <1>13, <1>14, <1>17 DEF f, Arrived

\* At another server, which will tell their number.
LEMMA ArrivedOp ==
  ASSUME NEW v \in TrackType, NEW v2 \in TrackType, NEW h \in Homes, NEW on \in SUBSET Servers,
         NEW o \in OpType, Each(v, h, o), Whole(v, h, on, o), NEW t \in Servers \ {o.from},
         NEW R, Arrives(v, v2, h, o, t, R, 1), ~o.local
  PROVE  Each(v2, h, o) /\ Whole(v2, h, on, o)
<1> DEFINE f == o.from
<1>0. R \in SUBSET Clients /\ \A c \in R : h[c] = t
  BY DEF Arrives
<1> USE <1>0
<1>1. /\ Each(v2, h, o) /\ v.at[t] = 1 /\ v2.at[t] = 0 /\ v.telling[t] = 0 /\ v2.telling[t] = 1
      /\ Coming(v, f, t) = 1 /\ Coming(v2, f, t) = 0
      /\ \A x \in Servers : x # t => /\ Coming(v2, f, x) = Coming(v, f, x)
                                     /\ v2.telling[x] = v.telling[x] /\ v2.at[x] = v.at[x]
      /\ \A c \in Clients : c \notin R => v2.logs[c] = v.logs[c] /\ v2.way[c] = v.way[c]
      /\ \A c \in R : v.logs[c] = 0 /\ v2.logs[c] = 1 /\ v2.way[c] = v.way[c] + 1
      /\ Hit(v2) = Hit(v) \union R
  BY ArrivedEach DEF Arrived
<1>2. ASSUME o.cluster # {}, o.settled = <<"ok">> PROVE FALSE
  <2>1. v.at[t] = 0
    BY <1>2 DEF Whole, Final
  <2> QED BY <1>1, <2>1
<1>3. ASSUME o.cluster # {}, o.settled = <<>> PROVE Live(v2, h, on, o)
  <2>1. Live(v, h, on, o) /\ o.cluster \in SUBSET Servers
    BY <1>3 DEF Whole, OpType
  <2>2. t \in on
    <3>1. t \notin on => v.at[t] + v.telling[t] = 0
      BY <2>1 DEF Live
    <3> QED BY <1>1, <3>1
  <2>3. t \notin Reported(v, o) /\ t \notin Reported(v2, o)
    BY <1>1 DEF Reported
  <2>4. Reported(v2, o) = Reported(v, o)
    <3>1. \A x \in Servers : x # t => (x \in Reported(v2, o) <=> x \in Reported(v, o))
      BY <1>1 DEF Reported
    <3>2. Reported(v2, o) \subseteq Servers /\ Reported(v, o) \subseteq Servers
      BY <2>1 DEF Reported
    <3> QED BY <2>3, <3>1, <3>2
  <2>5. Owing(v2, h, o) = Owing(v, h, o)
    BY <1>1, <2>3, <2>4 DEF Owing
  <2>6. ASSUME NEW c \in Clients
        PROVE  v2.logs[c] = v2.way[c] + Given(o, c) /\ (v2.logs[c] = 1 => h[c] \in on)
    <3>1. v.logs[c] = v.way[c] + Given(o, c) /\ (v.logs[c] = 1 => h[c] \in on)
      BY <2>1 DEF Live
    <3>2. CASE c \notin R
      BY <1>1, <3>1, <3>2
    <3>3. CASE c \in R
      <4>1. v.logs[c] = 0 /\ v2.logs[c] = 1 /\ v2.way[c] = v.way[c] + 1 /\ h[c] = t
        BY <1>1, <3>3
      <4>2. v.way[c] \in Nat /\ Given(o, c) \in Nat
        BY TrackFields, GivenType DEF OpType
      <4> QED BY <2>2, <3>1, <4>1, <4>2
    <3> QED BY <3>2, <3>3
  <2>7. \A x \in Servers \ on : v2.at[x] + v2.telling[x] = 0
    BY <1>1, <2>1, <2>2 DEF Live
  <2> QED BY <2>1, <2>4, <2>5, <2>6, <2>7 DEF Live
<1> QED BY <1>1, <1>2, <1>3 DEF Whole

LEMMA DisjointUnion ==
  ASSUME NEW A, NEW B, IsFiniteSet(A), IsFiniteSet(B), A \intersect B = {}
  PROVE  /\ IsFiniteSet(A \union B) /\ Cardinality(A \union B) = Cardinality(A) + Cardinality(B)
         /\ Cardinality(A) \in Nat /\ Cardinality(B) \in Nat
<1>1. Cardinality(A) \in Nat /\ Cardinality(B) \in Nat /\ Cardinality(A \intersect B) = 0
  BY FS_CardinalityType, FS_EmptySet
<1>2. IsFiniteSet(A \union B) /\ Cardinality(A \union B) = Cardinality(A) + Cardinality(B) -
      Cardinality(A \intersect B)
  BY FS_Union
<1> QED BY <1>1, <1>2

\* One more server, t, has reported: the caller counts its clients R.
Reports(v, v2, h, o, t, R) ==
  /\ t \notin Reported(v, o) /\ Reported(v2, o) = Reported(v, o) \union {t}
  /\ Owing(v2, h, o) = Owing(v, h, o) \union R /\ Owing(v, h, o) \intersect R = {}
  /\ IsFiniteSet(R)
  /\ o.current = Cardinality(Reported(v, o)) /\ o.clients = Cardinality(Owing(v, h, o))

LEMMA CountedMore ==
  ASSUME NEW v, NEW v2, NEW h, NEW o \in OpType, NEW t, NEW R, Reports(v, v2, h, o, t, R)
  PROVE  /\ o.current + 1 = Cardinality(Reported(v2, o))
         /\ o.clients + Cardinality(R) = Cardinality(Owing(v2, h, o))
<1>1. IsFiniteSet(Reported(v, o)) /\ IsFiniteSet(Owing(v, h, o))
  BY FiniteClients DEF OpType
<1>2. Cardinality(Reported(v2, o)) = Cardinality(Reported(v, o)) + 1
  BY <1>1, FS_AddElement DEF Reports
<1>3. Cardinality(Owing(v2, h, o)) = Cardinality(Owing(v, h, o)) + Cardinality(R)
  BY <1>1, DisjointUnion DEF Reports
<1> QED BY <1>2, <1>3 DEF Reports

\* At home: it counts the clients in the same step.
LEMMA ArrivedHome ==
  ASSUME NEW v \in TrackType, NEW v2 \in TrackType, NEW h \in Homes, NEW on \in SUBSET Servers,
         NEW o \in OpType, Each(v, h, o), Whole(v, h, on, o),
         NEW R, Arrives(v, v2, h, o, o.from, R, 0),
         NEW p \in OpType, p = Counted(o, Cardinality(R))
  PROVE  Each(v2, h, p) /\ Whole(v2, h, on, p)
<1> DEFINE f == o.from
<1>0. /\ f \in Servers /\ o.cluster \in SUBSET Servers /\ IsFiniteSet(R) /\ Cardinality(R) \in Nat
      /\ R \in SUBSET Clients /\ \A c \in R : h[c] = f
  <2>1. R \in SUBSET Clients /\ \A c \in R : h[c] = f
    BY DEF Arrives
  <2> QED BY <2>1, ClusterAssumption, FS_Subset, FS_CardinalityType DEF OpType
<1>1. /\ Each(v2, h, o) /\ v.at[f] = 1 /\ v2.at[f] = 0 /\ v.telling[f] = 0 /\ v2.telling[f] = 0
      /\ Coming(v, f, f) = 1 /\ Coming(v2, f, f) = 0
      /\ \A x \in Servers : x # f => /\ Coming(v2, f, x) = Coming(v, f, x)
                                     /\ v2.telling[x] = v.telling[x] /\ v2.at[x] = v.at[x]
      /\ \A c \in Clients : c \notin R => v2.logs[c] = v.logs[c] /\ v2.way[c] = v.way[c]
      /\ \A c \in R : v.logs[c] = 0 /\ v2.logs[c] = 1 /\ v2.way[c] = v.way[c] + 1
      /\ Hit(v2) = Hit(v) \union R /\ HitAt(v, h, f) = {} /\ HitAt(v2, h, f) = R
  BY ArrivedEach DEF Arrived
<1>2. /\ p.from = f /\ (p.local <=> o.local) /\ p.responses = o.responses /\ p.cluster = o.cluster
      /\ p.count = o.count /\ p.settled = o.settled /\ p.stage = o.stage
      /\ p.current = o.current + 1 /\ p.clients = o.clients + Cardinality(R)
      /\ \A c : Given(p, c) = Given(o, c)
  BY <1>0, CountedOp DEF Same, Keeps, Given
<1>3. Each(v2, h, p)
  BY <1>1, <1>2 DEF Each
<1>4. ASSUME o.cluster # {}, o.settled = <<"ok">> PROVE FALSE
  <2>1. v.at[f] = 0
    BY <1>0, <1>4 DEF Whole, Final
  <2> QED BY <1>1, <2>1
<1>5. ASSUME o.cluster # {}, o.settled = <<>> PROVE Live(v2, h, on, p)
  <2>1. Live(v, h, on, o) /\ f \in on
    BY <1>5 DEF Whole, Live
  <2>2. f \notin Reported(v, o) /\ f \in Reported(v2, o)
    BY <1>1, <2>1 DEF Reported, Live
  <2>3. Reported(v2, o) = Reported(v, o) \union {f}
    <3>1. \A x \in Servers : x # f => (x \in Reported(v2, o) <=> x \in Reported(v, o))
      BY <1>1 DEF Reported
    <3>2. Reported(v2, o) \subseteq Servers /\ Reported(v, o) \subseteq Servers
      BY <1>0 DEF Reported
    <3> QED BY <2>2, <3>1, <3>2
  <2>4. Owing(v2, h, o) = Owing(v, h, o) \union R
    <3>1. \A c \in Hit(v) : h[c] # f
      BY <1>1 DEF HitAt
    <3>2. \A c \in R : h[c] = f /\ c \in Hit(v2)
      BY <1>0, <1>1
    <3> QED BY <1>1, <2>2, <2>3, <3>1, <3>2 DEF Owing
  <2>5. Owing(v, h, o) \intersect R = {}
    BY <1>0, <2>2 DEF Owing
  <2>6. p.current = Cardinality(Reported(v2, o)) /\ p.clients = Cardinality(Owing(v2, h, o))
    <3>1. Reports(v, v2, h, o, f, R)
      BY <1>0, <2>1, <2>2, <2>3, <2>4, <2>5 DEF Live, Reports
    <3>2. /\ o.current + 1 = Cardinality(Reported(v2, o))
          /\ o.clients + Cardinality(R) = Cardinality(Owing(v2, h, o))
      BY <3>1, CountedMore
    <3> QED BY <1>2, <3>2
  <2>7. Reported(v2, p) = Reported(v2, o)
    BY <1>2 DEF Reported
  <2>8. Owing(v2, h, p) = Owing(v2, h, o)
    BY <2>7 DEF Owing
  <2>9. ASSUME NEW c \in Clients
        PROVE  v2.logs[c] = v2.way[c] + Given(o, c) /\ (v2.logs[c] = 1 => h[c] \in on)
    <3>1. v.logs[c] = v.way[c] + Given(o, c) /\ (v.logs[c] = 1 => h[c] \in on)
      BY <2>1 DEF Live
    <3>2. CASE c \notin R
      BY <1>1, <3>1, <3>2
    <3>3. CASE c \in R
      <4>1. v.logs[c] = 0 /\ v2.logs[c] = 1 /\ v2.way[c] = v.way[c] + 1 /\ h[c] = f
        BY <1>0, <1>1, <3>3
      <4>2. v.way[c] \in Nat /\ Given(o, c) \in Nat
        BY <1>0, TrackFields, GivenType
      <4> QED BY <2>1, <3>1, <4>1, <4>2
    <3> QED BY <3>2, <3>3
  <2>10. \A x \in Servers \ on : v2.at[x] + v2.telling[x] = 0
    BY <1>1, <2>1 DEF Live
  <2> QED BY <1>2, <2>1, <2>6, <2>7, <2>8, <2>9, <2>10 DEF Live
<1> QED BY <1>2, <1>3, <1>4, <1>5 DEF Whole

-----------------------------------------------------------------------------
(* The caller hears of a server, and of a client.                          *)

\* It has read the number of clients of server t.
Hears(v, v2, o, t) ==
  /\ t \in Servers /\ t # o.from /\ ~o.local /\ v.telling[t] # 0 /\ v2.asked = v.asked
  /\ \A x \in Servers : /\ v2.at[x] = v.at[x]
                        /\ v2.telling[x] = v.telling[x] - IF x = t THEN 1 ELSE 0
  /\ \A c \in Clients : v2.logs[c] = v.logs[c] /\ v2.way[c] = v.way[c]

LEMMA ToldOp ==
  ASSUME NEW v \in TrackType, NEW v2 \in TrackType, NEW h \in Homes, NEW on \in SUBSET Servers,
         NEW o \in OpType, Each(v, h, o), Whole(v, h, on, o), NEW t, Hears(v, v2, o, t),
         NEW p \in OpType, p = Counted(o, Cardinality(HitAt(v, h, t)))
  PROVE  Each(v2, h, p) /\ Whole(v2, h, on, p)
<1> DEFINE f == o.from
           R == HitAt(v, h, t)
<1>0. /\ f \in Servers /\ o.cluster \in SUBSET Servers /\ t \in Servers /\ t # f /\ ~o.local
      /\ IsFiniteSet(R) /\ Cardinality(R) \in Nat
      /\ R \in SUBSET Clients /\ \A c \in R : h[c] = t
  <2>1. IsFiniteSet(R)
    BY FiniteClients
  <2>2. Cardinality(R) \in Nat
    BY <2>1, FS_CardinalityType
  <2> QED BY <2>1, <2>2 DEF Hears, OpType, HitAt, Hit
<1> HIDE DEF R
<1>1. /\ v.asked \in Nat
      /\ \A x \in Servers : v.at[x] \in Nat /\ v.telling[x] \in Nat /\ Coming(v, f, x) \in Nat
  BY <1>0, TrackFields
<1>2. /\ v2.asked = v.asked /\ \A x \in Servers : v2.at[x] = v.at[x] /\ Coming(v2, f, x) = Coming(v, f, x)
      /\ \A c \in Clients : v2.logs[c] = v.logs[c] /\ v2.way[c] = v.way[c]
      /\ Hit(v2) = Hit(v)
  BY DEF Hears, Coming, Hit
<1>3. /\ v.telling[t] = 1 /\ v2.telling[t] = 0 /\ Coming(v, f, t) = 0
      /\ \A x \in Servers : x # t => v2.telling[x] = v.telling[x]
  <2>1. v.telling[t] # 0 /\ v2.telling[t] = v.telling[t] - 1
    BY <1>0 DEF Hears
  <2>2. Coming(v, f, t) + v.telling[t] <= 1
    BY <1>0 DEF Each
  <2>3. v.telling[t] = 1 /\ Coming(v, f, t) = 0
    BY <1>0, <1>1, <2>1, <2>2
  <2> QED BY <1>1, <2>1, <2>3 DEF Hears
<1>4. /\ p.from = f /\ (p.local <=> o.local) /\ p.responses = o.responses /\ p.cluster = o.cluster
      /\ p.count = o.count /\ p.settled = o.settled /\ p.stage = o.stage
      /\ p.current = o.current + 1 /\ p.clients = o.clients + Cardinality(R)
      /\ \A c : Given(p, c) = Given(o, c)
  <2>1. p = Counted(o, Cardinality(R))
    BY DEF R
  <2>2. /\ Same(o, p) /\ p.settled = o.settled /\ p.responses = o.responses
        /\ p.current = o.current + 1 /\ p.clients = o.clients + Cardinality(R)
    BY <1>0, <2>1, CountedOp
  <2> QED BY <2>2 DEF Same, Keeps, Given
<1>5. Each(v2, h, p)
  <2>1. \A x \in Servers : Coming(v2, f, x) + v2.telling[x] <= 1
    <3> SUFFICES ASSUME NEW x \in Servers PROVE Coming(v2, f, x) + v2.telling[x] <= 1
      OBVIOUS
    <3>1. CASE x = t
      BY <1>0, <1>2, <1>3, <3>1
    <3>2. CASE x # t
      BY <1>2, <1>3, <3>2 DEF Each
    <3> QED BY <3>1, <3>2
  <2>2. \A c \in Clients : h[c] \in Servers
    BY DEF Homes
  <2>3. \A c \in Clients : /\ Coming(v2, f, h[c]) + v2.logs[c] <= 1
                           /\ v2.way[c] + Given(p, c) <= v2.logs[c]
                           /\ p.local /\ v2.logs[c] = 1 => h[c] = f
    BY <1>2, <1>4, <2>2 DEF Each
  <2>4. \A k \in DOMAIN p.responses : p.responses[k] \in Clients
    BY <1>4 DEF Each
  <2> QED BY <1>4, <2>1, <2>3, <2>4 DEF Each
<1>6. ASSUME o.cluster # {}, o.settled = <<"ok">> PROVE Final(v2, p)
  <2>1. Final(v, o)
    BY <1>6 DEF Whole
  <2> QED BY <1>2, <1>4, <2>1 DEF Final
<1>7. ASSUME o.cluster # {}, o.settled = <<>> PROVE Live(v2, h, on, p)
  <2>1. Live(v, h, on, o) /\ o.cluster = on
    BY <1>7 DEF Whole, Live
  <2>2. t \in on
    <3>1. t \notin on => v.at[t] + v.telling[t] = 0
      BY <1>0, <2>1 DEF Live
    <3> QED BY <1>0, <1>1, <1>3, <3>1
  <2>3. t \notin Reported(v, o) /\ t \in Reported(v2, o)
    BY <1>0, <1>2, <1>3, <2>1, <2>2 DEF Reported
  <2>4. Reported(v2, o) = Reported(v, o) \union {t}
    <3>1. \A x \in Servers : x # t => (x \in Reported(v2, o) <=> x \in Reported(v, o))
      BY <1>2, <1>3 DEF Reported
    <3>2. Reported(v2, o) \subseteq Servers /\ Reported(v, o) \subseteq Servers
      BY <1>0 DEF Reported
    <3> QED BY <2>3, <3>1, <3>2
  <2>5. Owing(v2, h, o) = Owing(v, h, o) \union R
    BY <1>2, <2>4 DEF Owing, R, HitAt
  <2>6. Owing(v, h, o) \intersect R = {}
    BY <1>0, <2>3 DEF Owing
  <2>7. p.current = Cardinality(Reported(v2, o)) /\ p.clients = Cardinality(Owing(v2, h, o))
    <3>1. Reports(v, v2, h, o, t, R)
      BY <1>0, <2>1, <2>3, <2>4, <2>5, <2>6 DEF Live, Reports
    <3>2. /\ o.current + 1 = Cardinality(Reported(v2, o))
          /\ o.clients + Cardinality(R) = Cardinality(Owing(v2, h, o))
      BY <3>1, CountedMore
    <3> QED BY <1>4, <3>2
  <2>8. Reported(v2, p) = Reported(v2, o)
    BY <1>4 DEF Reported
  <2>9. Owing(v2, h, p) = Owing(v2, h, o)
    BY <2>8 DEF Owing
  <2>10. \A c \in Clients : v2.logs[c] = v2.way[c] + Given(p, c) /\ (v2.logs[c] = 1 => h[c] \in on)
    BY <1>2, <1>4, <2>1 DEF Live
  <2>11. \A x \in Servers \ on : v2.at[x] + v2.telling[x] = 0
    BY <1>2, <1>3, <2>1, <2>2 DEF Live
  <2> QED BY <1>4, <2>1, <2>7, <2>8, <2>9, <2>10, <2>11 DEF Live
<1> QED BY <1>4, <1>5, <1>6, <1>7 DEF Whole

\* It has read the acknowledgement of client c.
Returns(v, v2, c) ==
  /\ c \in Clients /\ v.way[c] # 0 /\ v2.asked = v.asked
  /\ \A x \in Servers : v2.at[x] = v.at[x] /\ v2.telling[x] = v.telling[x]
  /\ \A d \in Clients : v2.logs[d] = v.logs[d] /\ v2.way[d] = v.way[d] - IF d = c THEN 1 ELSE 0

LEMMA GivenOp ==
  ASSUME NEW v \in TrackType, NEW v2 \in TrackType, NEW h \in Homes, NEW on \in SUBSET Servers,
         NEW o \in OpType, Each(v, h, o), Whole(v, h, on, o), NEW c, Returns(v, v2, c),
         NEW p \in OpType, p = Acked(o, c)
  PROVE  Each(v2, h, p) /\ Whole(v2, h, on, p)
<1> DEFINE f == o.from
           q == o.responses
<1>0. /\ f \in Servers /\ o.cluster \in SUBSET Servers /\ c \in Clients /\ c \in Process
      /\ q \in Seq(Process)
  BY DEF Returns, OpType, Process
<1>1. \A d \in Clients : v.logs[d] \in Nat /\ v.way[d] \in Nat /\ Given(o, d) \in Nat
  <2>1. \A d \in Clients : v.logs[d] \in Nat /\ v.way[d] \in Nat
    BY <1>0, TrackFields
  <2> QED BY <2>1, GivenType
<1>2. /\ v2.asked = v.asked
      /\ \A x \in Servers : /\ v2.at[x] = v.at[x] /\ v2.telling[x] = v.telling[x]
                            /\ Coming(v2, f, x) = Coming(v, f, x)
      /\ \A d \in Clients : v2.logs[d] = v.logs[d] /\ v2.way[d] = v.way[d] - IF d = c THEN 1 ELSE 0
      /\ Hit(v2) = Hit(v) /\ v.way[c] # 0
  BY DEF Returns, Coming, Hit
<1>3. /\ p.from = f /\ (p.local <=> o.local) /\ p.responses = Append(q, c) /\ p.cluster = o.cluster
      /\ p.count = o.count /\ p.settled = o.settled /\ p.stage = o.stage
      /\ p.current = o.current /\ p.clients = o.clients
  BY <1>0, AckedOp DEF Same, Keeps
<1>4. \A d \in Clients : Given(p, d) = Given(o, d) + IF d = c THEN 1 ELSE 0
  <2>1. \A d : Count(Append(q, c), {d}) = Count(q, {d}) + IF c \in {d} THEN 1 ELSE 0
    BY <1>0, CountAppend
  <2> QED BY <1>3, <2>1 DEF Given
<1>5. \A k \in DOMAIN p.responses : p.responses[k] \in Clients
  <2> HIDE DEF q
  <2>1. \A j \in DOMAIN Append(q, c) : Append(q, c)[j] = c \/ (j \in DOMAIN q /\ Append(q, c)[j] = q[j])
    BY <1>0, Appended
  <2>2. \A j \in DOMAIN q : q[j] \in Clients
    BY DEF Each, q
  <2> QED BY <1>0, <1>3, <2>1, <2>2
<1>6. \A d \in Clients : v2.way[d] + Given(p, d) = v.way[d] + Given(o, d)
  BY <1>1, <1>2, <1>4
<1>7. Each(v2, h, p)
  <2>1. \A d \in Clients : h[d] \in Servers
    BY DEF Homes
  <2>2. \A d \in Clients : /\ Coming(v2, f, h[d]) + v2.logs[d] <= 1
                           /\ v2.way[d] + Given(p, d) <= v2.logs[d]
                           /\ p.local /\ v2.logs[d] = 1 => h[d] = f
    BY <1>2, <1>3, <1>6, <2>1 DEF Each
  <2> QED BY <1>2, <1>3, <1>5, <2>2 DEF Each
<1>8. ASSUME o.cluster # {}, o.settled = <<"ok">> PROVE FALSE
  <2>1. Given(o, c) = v.logs[c] /\ v.way[c] + Given(o, c) <= v.logs[c]
    BY <1>0, <1>8 DEF Whole, Final, Each
  <2> QED BY <1>0, <1>1, <1>2, <2>1
<1>9. ASSUME o.cluster # {}, o.settled = <<>> PROVE Live(v2, h, on, p)
  <2>1. Live(v, h, on, o)
    BY <1>9 DEF Whole
  <2>2. Reported(v2, p) = Reported(v, o)
    BY <1>0, <1>2, <1>3 DEF Reported
  <2>3. Owing(v2, h, p) = Owing(v, h, o)
    BY <1>2, <2>2 DEF Owing
  <2>4. \A d \in Clients : v2.logs[d] = v2.way[d] + Given(p, d) /\ (v2.logs[d] = 1 => h[d] \in on)
    BY <1>2, <1>6, <2>1 DEF Live
  <2>5. \A x \in Servers \ on : v2.at[x] + v2.telling[x] = 0
    BY <1>2, <2>1 DEF Live
  <2> QED BY <1>3, <2>1, <2>2, <2>3, <2>4, <2>5 DEF Live
<1> QED BY <1>3, <1>7, <1>8, <1>9 DEF Whole

-----------------------------------------------------------------------------
(* The broadcasts with acknowledgements, in the state.                     *)

\* The messages that belong to broadcast i, but for its count of the servers.
About(i) == {m \in MessageType : m.op = i /\ m.type \in {"request", "count", "ack"}}

\* A number of clients other than n.
Wrong(i, t, n) == {m \in Tells(i, t) : m.n # n}

\* The numbers on their way are those of the clients reached.
Told(p, b, h, v, i, f) ==
  \A t \in Servers :
    Count(p[t], Wrong(i, t, Cardinality(HitAt(v, h, t))))
      + Count(b[f], Wrong(i, t, Cardinality(HitAt(v, h, t)))) = 0

Now(i, f) == Track(pipe, inbox, waiting, delayed, home, log, i, f)
After(i, f) == Track(pipe', inbox', waiting', delayed', home', log', i, f)

AckNow(i) ==
  LET f == ops[i].from IN
  /\ Each(Now(i, f), home, ops[i]) /\ Whole(Now(i, f), home, On, ops[i])
  /\ Told(pipe, inbox, home, Now(i, f), i, f)
AckAfter(i) ==
  LET f == ops'[i].from IN
  /\ Each(After(i, f), home', ops'[i]) /\ Whole(After(i, f), home', On', ops'[i])
  /\ Told(pipe', inbox', home', After(i, f), i, f)
Acking == \A i \in DOMAIN ops : ops[i].kind = "ack" => AckNow(i)

LEMMA AckingNext ==
  ASSUME \A i \in DOMAIN ops' : ops'[i].kind = "ack" => AckAfter(i)
  PROVE  Acking'
BY DEF Acking, AckNow, AckAfter, Now, After

LEMMA AckState ==
  ASSUME IInv
  PROVE  /\ pipe \in Lines /\ inbox \in Lines /\ delayed \in [Servers -> Seq(Nat)] /\ home \in Homes
         /\ log \in [Process -> Seq(Nat)] /\ On \in SUBSET Servers
         /\ \A i \in DOMAIN ops : /\ ops[i] \in OpType /\ i \in Nat /\ ops[i].from \in Servers
                                  /\ ops[i].kind = "ack" => AckInv(ops[i])
<1>1. \A i \in DOMAIN ops : ops[i] \in OpType /\ OpInv(ops[i]) /\ i \in Nat
  BY State
<1> QED BY <1>1, State DEF IInv, Typed, Homes, OpType, OpInv

LEMMA AckStateNext ==
  ASSUME IInv'
  PROVE  /\ pipe' \in Lines /\ inbox' \in Lines /\ delayed' \in [Servers -> Seq(Nat)] /\ home' \in Homes
         /\ log' \in [Process -> Seq(Nat)] /\ On' \in SUBSET Servers
         /\ \A i \in DOMAIN ops' : ops'[i] \in OpType /\ ops'[i].from \in Servers
<1>1. pipe' \in Lines /\ inbox' \in Lines /\ ops' \in Seq(OpType)
  BY DEF IInv, Typed, Lines
<1>2. \A i \in DOMAIN ops' : ops'[i] \in OpType
  BY <1>1
<1> QED BY <1>1, <1>2 DEF IInv, Typed, Homes, OpType, On

LEMMA TrackIn ==
  ASSUME NEW p \in Lines, NEW b \in Lines, NEW w, NEW d \in [Servers -> Seq(Nat)], NEW h \in Homes,
         NEW g \in [Process -> Seq(Nat)], NEW i, NEW f \in Servers
  PROVE  Track(p, b, w, d, h, g, i, f) \in TrackType
<1>1. /\ \A x \in Servers : \A V : Count(p[x], V) \in Nat /\ Count(b[x], V) \in Nat
      /\ \A x \in Servers : \A V : Count(d[x], V) \in Nat
      /\ \A x \in Clients : \A V : Count(g[x], V) \in Nat
  <2>1. \A x \in Servers : \A V : Count(p[x], V) \in Nat /\ Count(b[x], V) \in Nat
    BY LineCount
  <2>2. \A q \in Seq(Nat) : \A V : Count(q, V) \in Nat
    BY CountType
  <2>3. \A x \in Servers : d[x] \in Seq(Nat)
    OBVIOUS
  <2>4. \A x \in Clients : g[x] \in Seq(Nat)
    BY DEF Process
  <2> QED BY <2>1, <2>2, <2>3, <2>4
<1>2. \A c : Owed(w, c, i) \in Nat
  BY DEF Owed
<1>3. \A c \in Clients : h[c] \in Servers
  BY DEF Homes
<1>4. Count(p[f], Requests(i)) \in Nat /\ Count(d[f], {i}) \in Nat
  BY <1>1
<1>5. ASSUME NEW t \in Servers
      PROVE  /\ (IF t = f THEN Count(d[f], {i}) ELSE Count(b[t], Requests(i))) \in Nat
             /\ Count(p[t], Tells(i, t)) + Count(b[f], Tells(i, t)) \in Nat
  <2>1. Count(b[t], Requests(i)) \in Nat /\ Count(p[t], Tells(i, t)) \in Nat /\ Count(b[f],
        Tells(i, t)) \in Nat
    BY <1>1
  <2> QED BY <1>4, <2>1
<1>6. ASSUME NEW c \in Clients
      PROVE  /\ Count(g[c], {i}) \in Nat
             /\ Owed(w, c, i) + Count(p[h[c]], Acks(i, c)) + Count(b[f], Acks(i, c)) \in Nat
  <2>1. /\ Count(g[c], {i}) \in Nat /\ Owed(w, c, i) \in Nat
        /\ Count(p[h[c]], Acks(i, c)) \in Nat /\ Count(b[f], Acks(i, c)) \in Nat
    BY <1>1, <1>2, <1>3
  <2> QED BY <2>1
<1> QED BY <1>4, <1>5, <1>6 DEF Track, TrackType

LEMMA Tracks ==
  ASSUME NEW i, NEW f \in Servers
  PROVE  /\ IInv => Now(i, f) \in TrackType
         /\ IInv' => After(i, f) \in TrackType
<1>1. ASSUME IInv PROVE Now(i, f) \in TrackType
  BY <1>1, AckState, TrackIn DEF Now
<1>2. ASSUME IInv' PROVE After(i, f) \in TrackType
  BY <1>2, AckStateNext, TrackIn DEF After
<1> QED BY <1>1, <1>2

LEMMA Kinds3 ==
  ASSUME NEW i, NEW t, NEW n
  PROVE  /\ Requests(i) \in SUBSET About(i) /\ Tells(i, t) \in SUBSET About(i)
         /\ Acks(i, t) \in SUBSET About(i) /\ Wrong(i, t, n) \in SUBSET About(i)
         /\ Wrong(i, t, n) \in SUBSET Tells(i, t)
         /\ Tells(i, t) \intersect Requests(i) = {} /\ Acks(i, t) \intersect Requests(i) = {}
         /\ Wrong(i, t, n) \intersect Requests(i) = {}
BY DEF Requests, Tells, Acks, Wrong, About

LEMMA MessageIn ==
  ASSUME NEW m \in MessageType, NEW i, NEW t
  PROVE  /\ m \in Requests(i) <=> m.type = "request" /\ m.op = i
         /\ m \in Tells(i, t) <=> m.type = "count" /\ m.op = i /\ m.by = t
         /\ m \in Acks(i, t) <=> m.type = "ack" /\ m.op = i /\ m.by = t
         /\ m \in About(i) <=> m.op = i /\ m.type \in {"request", "count", "ack"}
BY DEF Requests, Tells, Acks, About

\* A step in which broadcast i of server f does not go on.
Unmoved(i, f) ==
  /\ home' = home
  /\ \A x \in Servers : \A V \in SUBSET About(i) :
       /\ Count(pipe'[x], V) = Count(pipe[x], V)
       /\ x # f \/ V \intersect Requests(i) = {} => Count(inbox'[x], V) = Count(inbox[x], V)
  /\ \A x \in Servers : Count(delayed'[x], {i}) = Count(delayed[x], {i})
  /\ \A c \in Clients : Count(log'[c], {i}) = Count(log[c], {i}) /\ Owed(waiting', c, i) =
              Owed(waiting, c, i)

LEMMA UnmovedTrack ==
  ASSUME home \in Homes, NEW i, NEW f \in Servers, Unmoved(i, f)
  PROVE  /\ After(i, f) = Now(i, f)
         /\ \A v : Told(pipe, inbox, home, v, i, f) => Told(pipe', inbox', home', v, i, f)
<1>1. home' = home /\ \A c \in Clients : home[c] \in Servers
  BY DEF Unmoved, Homes
<1>2. Count(pipe'[f], Requests(i)) = Count(pipe[f], Requests(i))
  BY Kinds3 DEF Unmoved
<1>3. \A t \in Servers : t # f => Count(inbox'[t], Requests(i)) = Count(inbox[t], Requests(i))
  BY Kinds3 DEF Unmoved
<1>4. \A t \in Servers : \A y : /\ Count(pipe'[t], Tells(i, y)) = Count(pipe[t], Tells(i, y))
                                /\ Count(pipe'[t], Acks(i, y)) = Count(pipe[t], Acks(i, y))
  BY Kinds3 DEF Unmoved
<1>5. \A y : /\ Count(inbox'[f], Tells(i, y)) = Count(inbox[f], Tells(i, y))
             /\ Count(inbox'[f], Acks(i, y)) = Count(inbox[f], Acks(i, y))
  BY Kinds3 DEF Unmoved
<1>6. \A t \in Servers : \A n : /\ Count(pipe'[t], Wrong(i, t, n)) = Count(pipe[t], Wrong(i, t, n))
                                /\ Count(inbox'[f], Wrong(i, t, n)) = Count(inbox[f], Wrong(i, t, n))
  BY Kinds3 DEF Unmoved
<1>7. /\ \A x \in Servers : Count(delayed'[x], {i}) = Count(delayed[x], {i})
      /\ \A c \in Clients : /\ Count(log'[c], {i}) = Count(log[c], {i})
                            /\ Owed(waiting', c, i) = Owed(waiting, c, i)
  BY DEF Unmoved
<1>8. After(i, f) = Now(i, f)
  BY <1>1, <1>2, <1>3, <1>4, <1>5, <1>7 DEF After, Now, Track
<1> QED BY <1>1, <1>6, <1>8 DEF Told

LEMMA AckStill ==
  ASSUME IInv, IInv', Acking, NEW i \in DOMAIN ops, i \in DOMAIN ops', ops[i].kind = "ack",
         Unmoved(i, ops[i].from), AckChange(On, On', ops[i], ops'[i])
  PROVE  AckAfter(i)
<1> DEFINE f == ops[i].from
           v == Now(i, f)
<1>1. /\ home \in Homes /\ f \in Servers /\ ops[i] \in OpType /\ ops'[i] \in OpType
      /\ home' = home /\ ops'[i].from = f
  BY AckState, AckStateNext DEF Unmoved, AckChange
<1>2. v \in TrackType
  BY <1>1, Tracks
<1>3. Each(v, home, ops[i]) /\ Whole(v, home, On, ops[i]) /\ Told(pipe, inbox, home, v, i, f)
  BY DEF Acking, AckNow
<1>4. After(i, f) = v /\ Told(pipe', inbox', home', v, i, f)
  BY <1>1, <1>3, UnmovedTrack
<1> HIDE DEF v, f
<1>5. Each(v, home, ops'[i]) /\ Whole(v, home, On', ops'[i])
  BY <1>1, <1>2, <1>3, ChangedAck
<1> QED BY <1>1, <1>4, <1>5 DEF AckAfter

\* A step in which broadcast i loses what it loses, and reaches nobody.
LEMMA AckLess ==
  ASSUME IInv, IInv', Acking, NEW i \in DOMAIN ops, i \in DOMAIN ops', ops[i].kind = "ack", home' = home,
         AckChange(On, On', ops[i], ops'[i]),
         NEW f, f = ops[i].from,
         Fades(Now(i, f), After(i, f), f, home, On', ops'[i].cluster # {} /\ ops'[i].settled = <<>>),
         \A t \in Servers : \A V \in SUBSET Tells(i, t) :
           Count(pipe'[t], V) + Count(inbox'[f], V) <= Count(pipe[t], V) + Count(inbox[f], V)
  PROVE  AckAfter(i)
<1> DEFINE v == Now(i, f)
           v2 == After(i, f)
           o == ops'[i]
<1>1. /\ home \in Homes /\ f \in Servers /\ ops[i] \in OpType /\ o \in OpType /\ o.from = f
      /\ On' \in SUBSET Servers /\ pipe' \in Lines /\ inbox' \in Lines
  BY AckState, AckStateNext DEF AckChange
<1>2. v \in TrackType /\ v2 \in TrackType
  BY <1>1, Tracks
<1>3. Each(v, home, ops[i]) /\ Whole(v, home, On, ops[i]) /\ Told(pipe, inbox, home, v, i, f)
  BY DEF Acking, AckNow
<1> HIDE DEF v, v2, o
<1>4. Each(v, home, o) /\ Whole(v, home, On', o)
  BY <1>1, <1>2, <1>3, ChangedAck DEF o
<1>5. Fades(v, v2, o.from, home, On', o.cluster # {} /\ o.settled = <<>>)
  BY <1>1 DEF v, v2, o
<1>6. Each(v2, home, o) /\ Whole(v2, home, On', o)
  BY <1>1, <1>2, <1>4, <1>5, FadedOp
<1>7. Told(pipe', inbox', home, v2, i, f)
  <2> SUFFICES ASSUME NEW t \in Servers
               PROVE  LET W == Wrong(i, t, Cardinality(HitAt(v2, home, t)))
                      IN  Count(pipe'[t], W) + Count(inbox'[f], W) = 0
    BY DEF Told
  <2>1. HitAt(v2, home, t) = HitAt(v, home, t)
    BY <1>5 DEF Fades, HitAt, Hit
  <2> DEFINE W == Wrong(i, t, Cardinality(HitAt(v, home, t)))
  <2>2. Count(pipe[t], W) + Count(inbox[f], W) = 0
    BY <1>3 DEF Told
  <2>3. W \in SUBSET Tells(i, t)
    BY Kinds3
  <2>4. Count(pipe'[t], W) \in Nat /\ Count(inbox'[f], W) \in Nat
    BY <1>1, LineCount
  <2> HIDE DEF W
  <2>5. Count(pipe'[t], W) + Count(inbox'[f], W) = 0
    BY <2>2, <2>3, <2>4
  <2> QED BY <2>1, <2>5 DEF W
<1> QED BY <1>1, <1>6, <1>7 DEF AckAfter, v2, o

\* The lines q and p hold the same messages of A.
Apart(q, p, A) == \A x \in Servers : \A V \in SUBSET A : Count(q[x], V) = Count(p[x], V)

LEMMA ApartTaken ==
  ASSUME NEW p \in Lines, NEW s \in Servers, p[s] # <<>>, NEW A, Head(p[s]) \notin A
  PROVE  Apart(Taken(p, s), p, A)
<1> SUFFICES ASSUME NEW x \in Servers, NEW V \in SUBSET A PROVE Count(Taken(p, s)[x], V) = Count(p[x], V)
  BY DEF Apart
<1>1. Count(p[x], V) \in Nat
  BY LineCount
<1>2. Count(Taken(p, s)[x], V) = Count(p[x], V) - IF x = s /\ Head(p[s]) \in V THEN 1 ELSE 0
  BY TakenCount
<1> QED BY <1>1, <1>2

LEMMA ApartSent ==
  ASSUME NEW p \in Lines, NEW s \in Servers, NEW msgs \in Seq(MessageType), NEW A,
         \A j \in DOMAIN msgs : msgs[j] \notin A
  PROVE  Apart(Sent(p, s, msgs), p, A)
<1> SUFFICES ASSUME NEW x \in Servers, NEW V \in SUBSET A PROVE Count(Sent(p, s, msgs)[x], V) =
      Count(p[x], V)
  BY DEF Apart
<1>1. Count(p[x], V) \in Nat
  BY LineCount
<1>2. Count(Sent(p, s, msgs)[x], V) = Count(p[x], V) + IF x = s THEN Count(msgs, V) ELSE 0
  BY SentCount
<1>3. Count(msgs, V) = 0
  <2>1. \A j \in DOMAIN msgs : msgs[j] \notin V
    OBVIOUS
  <2> QED BY <2>1, CountType
<1> QED BY <1>1, <1>2, <1>3

LEMMA ApartRouted ==
  ASSUME NEW b \in Lines, NEW to \in SUBSET Servers, NEW m \in MessageType, NEW A, m \notin A
  PROVE  Apart(Routed(b, to, m), b, A)
<1> SUFFICES ASSUME NEW x \in Servers, NEW V \in SUBSET A PROVE Count(Routed(b, to, m)[x], V) =
      Count(b[x], V)
  BY DEF Apart
<1>1. Count(b[x], V) \in Nat
  BY LineCount
<1>2. /\ Routed(b, to, m) \in Lines
      /\ \A y \in Servers : \A W :
           Count(Routed(b, to, m)[y], W) = Count(b[y], W) + IF y \in to /\ m \in W THEN 1 ELSE 0
  BY RoutedCount
<1> QED BY <1>1, <1>2

LEMMA ApartSame == \A p, A : Apart(p, p, A)
BY DEF Apart

LEMMA UnmovedBy ==
  ASSUME NEW i, NEW f, home' = home, Apart(pipe', pipe, About(i)), Apart(inbox', inbox, About(i)),
         \A x \in Servers : Count(delayed'[x], {i}) = Count(delayed[x], {i}),
         \A c \in Clients : /\ Count(log'[c], {i}) = Count(log[c], {i})
                            /\ Owed(waiting', c, i) = Owed(waiting, c, i)
  PROVE  Unmoved(i, f)
BY DEF Unmoved, Apart

LEMMA SelfChange == \A on, o : AckChange(on, on, o, o)
BY DEF AckChange

\* Every broadcast but k, of the calls there were.
LEMMA AckOthers ==
  ASSUME IInv, IInv', Acking, On' = On, NEW i \in DOMAIN ops, i \in DOMAIN ops', ops[i].kind = "ack",
         ops'[i] = ops[i], Unmoved(i, ops[i].from)
  PROVE  AckAfter(i)
BY AckStill, SelfChange

-----------------------------------------------------------------------------
(* A server publishes the request of a broadcast before it asks how many   *)
(* servers there are.                                                      *)

Preceded(os, q) ==
  \A k \in DOMAIN q : q[k].type = "request" /\ os[q[k].op].kind = "ack" =>
    \E l \in DOMAIN q : l > k /\ q[l].type = "numsub" /\ q[l].op = q[k].op
AsksLast == \A s \in Servers : Preceded(ops, pipe[s])

LEMMA PrecededTail ==
  ASSUME NEW os, NEW q \in Seq(MessageType), q # <<>>, Preceded(os, q)
  PROVE  Preceded(os, Tail(q))
<1> DEFINE r == Tail(q)
<1>1. \A k \in DOMAIN r : k \in Nat /\ k + 1 \in DOMAIN q /\ r[k] = q[k + 1]
  BY Pop
<1>2. \A k \in DOMAIN q : k \in Nat /\ (k # 1 => k - 1 \in DOMAIN r /\ r[k - 1] = q[k])
  BY Pop
<1> HIDE DEF r
<1>3. ASSUME NEW k \in DOMAIN r, r[k].type = "request", os[r[k].op].kind = "ack"
      PROVE  \E l \in DOMAIN r : l > k /\ r[l].type = "numsub" /\ r[l].op = r[k].op
  <2>1. k \in Nat /\ k + 1 \in DOMAIN q /\ r[k] = q[k + 1]
    BY <1>1
  <2>2. PICK l \in DOMAIN q : l > k + 1 /\ q[l].type = "numsub" /\ q[l].op = r[k].op
    BY <1>3, <2>1 DEF Preceded
  <2>3. l \in Nat /\ l # 1 /\ l - 1 > k
    BY <1>2, <2>1, <2>2
  <2>4. l - 1 \in DOMAIN r /\ r[l - 1] = q[l]
    BY <1>2, <2>3
  <2> QED BY <2>2, <2>3, <2>4
<1> QED BY <1>3 DEF Preceded, r

LEMMA PrecededJoin ==
  ASSUME NEW os, NEW q \in Seq(MessageType), NEW r \in Seq(MessageType), Preceded(os, q), Preceded(os, r)
  PROVE  Preceded(os, q \o r)
<1> DEFINE t == q \o r
<1>1. /\ \A k \in DOMAIN q : k \in DOMAIN t /\ t[k] = q[k]
      /\ \A j \in DOMAIN r : Len(q) + j \in DOMAIN t /\ t[Len(q) + j] = r[j]
      /\ \A k \in DOMAIN t : k \in DOMAIN q \/ \E j \in DOMAIN r : k = Len(q) + j
  BY Joined
<1>2. Len(q) \in Nat /\ (\A j \in DOMAIN r : j \in Nat) /\ \A j \in DOMAIN q : j \in Nat
  OBVIOUS
<1> HIDE DEF t
<1>3. ASSUME NEW k \in DOMAIN t, t[k].type = "request", os[t[k].op].kind = "ack"
      PROVE  \E l \in DOMAIN t : l > k /\ t[l].type = "numsub" /\ t[l].op = t[k].op
  <2>1. CASE k \in DOMAIN q
    <3>1. PICK l \in DOMAIN q : l > k /\ q[l].type = "numsub" /\ q[l].op = q[k].op
      BY <1>1, <1>3, <2>1 DEF Preceded
    <3> QED BY <1>1, <2>1, <3>1
  <2>2. CASE k \notin DOMAIN q
    <3>1. PICK j \in DOMAIN r : k = Len(q) + j
      BY <1>1, <2>2
    <3>2. PICK l \in DOMAIN r : l > j /\ r[l].type = "numsub" /\ r[l].op = r[j].op
      BY <1>1, <1>3, <3>1 DEF Preceded
    <3>3. Len(q) + l > k
      BY <1>2, <3>1, <3>2
    <3> QED BY <1>1, <3>1, <3>2, <3>3
  <2> QED BY <2>1, <2>2
<1> QED BY <1>3 DEF Preceded, t

LEMMA PrecededKept ==
  ASSUME NEW os, NEW os2, Extends(os, os2), NEW q, Preceded(os, q),
        \A k \in DOMAIN q : q[k].op \in DOMAIN os
  PROVE  Preceded(os2, q)
BY DEF Preceded, Extends, Keeps

\* What is sent, if the calls go on.
LEMMA LastSent ==
  ASSUME IInv, AsksLast, Extends(ops, ops'), NEW s \in Servers, NEW msgs \in Seq(MessageType),
         Preceded(ops', msgs), pipe' = Sent(pipe, s, msgs)
  PROVE  AsksLast'
<1>1. pipe \in Lines /\ \A x \in Servers : \A k \in DOMAIN pipe[x] : pipe[x][k].op \in DOMAIN ops
  BY State, Refers DEF Referring
<1>2. \A x \in Servers : pipe[x] \in Seq(MessageType) /\ Preceded(ops', pipe[x])
  BY <1>1, PrecededKept DEF AsksLast, Lines
<1>3. Preceded(ops', pipe[s] \o msgs)
  BY <1>2, PrecededJoin
<1>4. \A x \in Servers : pipe'[x] = IF x = s THEN pipe[s] \o msgs ELSE pipe[x]
  BY <1>1 DEF Sent, Lines
<1>5. \A x \in Servers : Preceded(ops', pipe'[x])
  BY <1>2, <1>3, <1>4
<1> QED BY <1>5 DEF AsksLast

LEMMA LastLess ==
  ASSUME IInv, AsksLast, Extends(ops, ops'),
         \A x \in Servers : pipe'[x] = pipe[x] \/ pipe'[x] = <<>> \/ (pipe[x] # <<>> /\
               pipe'[x] = Tail(pipe[x]))
  PROVE  AsksLast'
<1>1. pipe \in Lines /\ \A x \in Servers : \A k \in DOMAIN pipe[x] : pipe[x][k].op \in DOMAIN ops
  BY State, Refers DEF Referring
<1>2. \A x \in Servers : pipe[x] \in Seq(MessageType) /\ Preceded(ops', pipe[x])
  BY <1>1, PrecededKept DEF AsksLast, Lines
<1>3. \A x \in Servers : pipe[x] # <<>> => Preceded(ops', Tail(pipe[x]))
  BY <1>2, PrecededTail
<1>4. Preceded(ops', <<>>)
  BY DEF Preceded
<1>5. \A x \in Servers : Preceded(ops', pipe'[x])
  BY <1>2, <1>3, <1>4
<1> QED BY <1>5 DEF AsksLast

\* Once its servers are counted, its request has been published.
LEMMA NothingAsked ==
  ASSUME IInv, AsksLast, NEW i \in DOMAIN ops, ops[i].kind = "ack", ops[i].stage # "asked"
  PROVE  Now(i, ops[i].from).asked = 0
<1> DEFINE f == ops[i].from
<1>1. f \in Servers /\ pipe \in Lines
  BY AckState
<1>2. ASSUME NEW k \in DOMAIN pipe[f], pipe[f][k] \in Requests(i) PROVE FALSE
  <2>1. pipe[f][k].type = "request" /\ pipe[f][k].op = i
    BY <1>2 DEF Requests
  <2>2. PICK l \in DOMAIN pipe[f] : pipe[f][l].type = "numsub" /\ pipe[f][l].op = i
    BY <1>1, <2>1 DEF AsksLast, Preceded
  <2>3. Numsubs(ops, pipe[f])
    BY <1>1 DEF IInv, References
  <2> QED BY <2>2, <2>3 DEF Numsubs
<1>3. pipe[f] \in Seq(MessageType)
  BY <1>1 DEF Lines
<1>4. Count(pipe[f], Requests(i)) = 0
  BY <1>2, <1>3, CountType
<1> QED BY <1>4 DEF Now, Track

-----------------------------------------------------------------------------
(* The steps, one lemma per action.                                        *)

LEMMA AckOne ==
  ASSUME IInv, IInv', Acking, On' = On, NEW k \in DOMAIN ops, NEW p, Keeps(ops[k], p),
         ops' = [ops EXCEPT ![k] = p],
         \A j \in DOMAIN ops : ops[j].kind = "ack" /\ j # k => Unmoved(j, ops[j].from),
         ops[k].kind = "ack" => AckAfter(k)
  PROVE  Acking'
<1>1. DOMAIN ops' = DOMAIN ops /\ \A j \in DOMAIN ops : ops'[j] = IF j = k THEN p ELSE ops[j]
  BY State
<1>2. ASSUME NEW j \in DOMAIN ops', ops'[j].kind = "ack" PROVE AckAfter(j)
  <2>1. CASE j = k
    BY <1>1, <1>2, <2>1 DEF Keeps
  <2>2. CASE j # k
    BY <1>1, <1>2, <2>2, AckOthers
  <2> QED BY <2>1, <2>2
<1> QED BY <1>2, AckingNext

LEMMA AckAll ==
  ASSUME IInv, IInv', Acking, On' = On, ops' = ops,
         \A j \in DOMAIN ops : ops[j].kind = "ack" => Unmoved(j, ops[j].from)
  PROVE  Acking'
<1>1. ASSUME NEW j \in DOMAIN ops', ops'[j].kind = "ack" PROVE AckAfter(j)
  BY <1>1, AckOthers
<1> QED BY <1>1, AckingNext

LEMMA StillUnmoved ==
  ASSUME UNCHANGED <<pipe, inbox, delayed, home, waiting, log>>
  PROVE  \A i, f : Unmoved(i, f)
BY DEF Unmoved

LEMMA AckTimeouts ==
  ASSUME IInv, IInv', AsksLast, Acking, NEW i \in DOMAIN ops, Timeout(i) \/ AckTimeout(i) \/ AckCleanup(i)
  PROVE  AsksLast' /\ Acking'
<1> DEFINE o == ops[i]
<1>1. o \in OpType /\ (o.kind = "ack" => AckInv(o))
  BY AckState
<1>2. UNCHANGED <<sub, pipe, inbox, delayed, home, waiting, log>>
  BY DEF Timeout, AckTimeout, AckCleanup, servers, sockets, fixed
<1>3. On' = On /\ \A j, f : Unmoved(j, f)
  BY <1>2, StillUnmoved DEF On
<1>4. PICK p : /\ ops' = [ops EXCEPT ![i] = p] /\ Same(o, p)
               /\ o.kind = "ack" => AckChange(On, On, o, p)
  <2>1. CASE Timeout(i)
    <3>1. o.kind # "ack" /\ ops' = [ops EXCEPT ![i] = Settle(o, "error")]
      BY <2>1 DEF Timeout
    <3>2. Same(o, Settle(o, "error"))
      BY <1>1, SettleOp
    <3> QED BY <3>1, <3>2
  <2>2. CASE AckTimeout(i)
    <3>1. o.timer /\ o.kind = "ack" /\ ops' = [ops EXCEPT ![i] = Expired(o)]
      BY <2>2 DEF AckTimeout, Expired
    <3> DEFINE p == Expired(o)
    <3>2. Same(o, p) /\ p.settled = Append(o.settled, "error") /\ p.responses = o.responses
      BY <1>1, ExpiredOp
    <3> HIDE DEF p
    <3>3. p.settled = <<"error">>
      BY <1>1, <3>1, <3>2, Outcomes DEF AckInv
    <3>4. AckChange(On, On, o, p)
      BY <3>2, <3>3, Outcomes DEF AckChange, Same, Keeps
    <3> QED BY <3>1, <3>2, <3>4 DEF p
  <2>3. CASE AckCleanup(i)
    <3>1. o.kind = "ack" /\ ops' = [ops EXCEPT ![i] = Over(o)]
      BY <2>3 DEF AckCleanup, Over
    <3> DEFINE p == Over(o)
    <3>2. /\ Same(o, p) /\ p.settled = o.settled /\ p.responses = o.responses
          /\ p.current = o.current /\ p.clients = o.clients
      BY <1>1, OverOp
    <3> HIDE DEF p
    <3>3. AckChange(On, On, o, p)
      BY <3>2 DEF AckChange, Same, Keeps
    <3> QED BY <3>1, <3>2, <3>3 DEF p
  <2> QED BY <2>1, <2>2, <2>3
<1>5. Extends(ops, ops')
  BY <1>4, OneStill DEF Same
<1>6. AsksLast'
  BY <1>2, <1>5, LastLess
<1>7. o.kind = "ack" => AckAfter(i)
  <2>1. i \in DOMAIN ops' /\ ops'[i] = p
    BY <1>4, State
  <2> QED BY <1>3, <1>4, <2>1, AckStill
<1>8. Keeps(ops[i], p)
  BY <1>4 DEF Same
<1> QED BY <1>3, <1>4, <1>6, <1>7, <1>8, AckOne

LEMMA AckStay ==
  ASSUME IInv, IInv', AsksLast, Acking, UNCHANGED <<sub, pipe, inbox, delayed, home, waiting, log, ops>>
  PROVE  AsksLast' /\ Acking'
<1>1. On' = On /\ Extends(ops, ops')
  BY Refl DEF On
<1> QED BY <1>1, StillUnmoved, AckAll, LastLess

LEMMA AckIgnoreSelf ==
  ASSUME IInv, IInv', AsksLast, Acking, NEW s \in Servers, IgnoreSelf(s)
  PROVE  AsksLast' /\ Acking'
<1> DEFINE m == Head(inbox[s])
<1>1. /\ inbox[s] # <<>> /\ inbox' = Taken(inbox, s) /\ m.type = "request" /\ ops[m.op].from = s
      /\ UNCHANGED <<sub, pipe, delayed, home, waiting, log, ops>>
  BY DEF IgnoreSelf, Incoming, Read, Taken, sockets, fixed
<1>2. inbox \in Lines /\ m \in MessageType
  BY <1>1, AckState, UnderWay, ReadMessage
<1>3. /\ \A x \in Servers : \A V : Count(inbox[x], V) \in Nat
      /\ \A x \in Servers : \A V : Count(inbox'[x], V) = Count(inbox[x], V) - IF x = s /\
                  m \in V THEN 1 ELSE 0
  <2>1. \A x \in Servers : \A V : Count(inbox[x], V) \in Nat
    BY <1>2, LineCount
  <2>2. \A x \in Servers : \A V : Count(inbox'[x], V) = Count(inbox[x], V) - IF x = s /\
        m \in V THEN 1 ELSE 0
    BY <1>1, <1>2, TakenCount
  <2> QED BY <2>1, <2>2
<1>4. ASSUME NEW i \in DOMAIN ops PROVE Unmoved(i, ops[i].from)
  <2>1. ASSUME NEW x \in Servers, NEW V \in SUBSET About(i), x # ops[i].from \/
        V \intersect Requests(i) = {}
        PROVE  Count(inbox'[x], V) = Count(inbox[x], V)
    <3>1. m \in V => m \in Requests(i)
      BY <1>1, <1>2 DEF About, Requests
    <3>2. m \in V => ops[i].from = s
      BY <1>1, <3>1 DEF Requests
    <3>3. ~(x = s /\ m \in V)
      BY <2>1, <3>1, <3>2
    <3> QED BY <1>3, <3>3
  <2> QED BY <1>1, <2>1 DEF Unmoved
<1>5. On' = On /\ Extends(ops, ops')
  BY <1>1, Refl DEF On
<1> QED BY <1>1, <1>4, <1>5, AckAll, LastLess

LEMMA SettledAs ==
  ASSUME NEW o \in OpType, AckInv(o)
  PROVE  o.settled \in {<<>>, <<"ok">>, <<"error">>}
<1>1. o.settled \in Seq({"ok", "error"})
  BY DEF OpType
<1> QED BY <1>1, Outcomes DEF AckInv

LEMMA AckRedisCounts ==
  ASSUME IInv, IInv', AsksLast, Acking, NEW s \in Servers, RedisCounts(s)
  PROVE  AsksLast' /\ Acking'
<1> DEFINE m == Head(pipe[s])
           i == m.op
           o == ops[i]
           p == Numbered(o, Cardinality(On))
<1>1. /\ pipe[s] # <<>> /\ m.type = "numsub" /\ pipe' = Taken(pipe, s)
      /\ ops' = [ops EXCEPT ![i] = p]
      /\ UNCHANGED <<sub, inbox, delayed, home, waiting, log>>
  BY DEF RedisCounts, Taken, Numbered, sockets, fixed
<1>2. pipe \in Lines /\ On' = On /\ On \in SUBSET Servers
  BY <1>1, AckState DEF On
<1>3. PipeMessage(ops, home, s, m) /\ o.stage = "asked"
  BY <1>1, UnderWay, TakeMessage
<1>4. i \in DOMAIN ops /\ o \in OpType /\ (o.kind = "ack" => AckInv(o) /\ AckNow(i))
  <2>1. i \in DOMAIN ops
    BY <1>3 DEF PipeMessage
  <2> QED BY <2>1, AckState DEF Acking
<1>5. Cardinality(On) \in Nat
  BY <1>2, ClusterAssumption, FS_Subset, FS_CardinalityType
<1>6. /\ Keeps(o, p) /\ p.settled = o.settled /\ p.responses = o.responses /\ p.count = Cardinality(On)
      /\ p.cluster = o.cluster /\ p.current = o.current /\ p.clients = o.clients /\ p.stage = "counted"
  BY <1>4, <1>5, NumberedOp
<1>7. \A j : m \notin About(j)
  BY <1>1 DEF About
<1>8. \A j, f : Unmoved(j, f)
  <2> TAKE j, f
  <2>1. Apart(pipe', pipe, About(j))
    BY <1>1, <1>2, <1>7, ApartTaken
  <2> QED BY <1>1, <2>1, ApartSame, UnmovedBy
<1>9. DOMAIN ops' = DOMAIN ops /\ ops'[i] = p /\ \A j \in DOMAIN ops : ops'[j] = IF j =
      i THEN p ELSE ops[j]
  BY <1>1, <1>4, State
<1> HIDE DEF p
<1>10. o.kind = "ack" => AckAfter(i)
  <2> SUFFICES ASSUME o.kind = "ack" PROVE AckAfter(i)
    OBVIOUS
  <2>1. o.settled # <<"ok">>
    BY <1>3, <1>4, Outcomes DEF AckInv
  <2>2. o.settled \in {<<>>, <<"ok">>, <<"error">>}
    BY <1>4, SettledAs
  <2>3. o.cluster # {} /\ o.settled = <<>> => o.cluster = On
    BY <1>4 DEF AckNow, Whole, Live
  <2>4. AckChange(On, On', o, p)
    BY <1>2, <1>6, <2>1, <2>2, <2>3 DEF AckChange, Keeps
  <2> QED BY <1>4, <1>8, <1>9, <2>4, AckStill
<1>11. Extends(ops, ops')
  <2>1. o.stage # "done"
    BY <1>3
  <2> QED BY <1>6, <1>9, <2>1 DEF Extends, Keeps
<1>12. \A x \in Servers : pipe'[x] = pipe[x] \/ (pipe[x] # <<>> /\ pipe'[x] = Tail(pipe[x]))
  BY <1>1, <1>2 DEF Taken, Lines
<1>13. AsksLast'
  BY <1>11, <1>12, LastLess
<1> QED BY <1>1, <1>2, <1>4, <1>6, <1>8, <1>10, <1>13, AckOne

LEMMA AckCountReply ==
  ASSUME IInv, IInv', AsksLast, Acking, NEW k \in DOMAIN ops, CountReply(k)
  PROVE  AsksLast' /\ Acking'
<1> DEFINE o == ops[k]
           p == Continued(o)
           alone == o.kind # "ack" /\ o.count = 1
           msgs == IF alone \/ o.kind = "ack" THEN <<>> ELSE <<Request(o.from, k)>>
           q == Sent(pipe, o.from, msgs)
<1>1. /\ o.stage = "counted" /\ pipe' = q /\ ops' = [ops EXCEPT ![k] = p]
      /\ UNCHANGED <<sub, inbox, delayed, home, waiting, log>>
  BY DEF CountReply, Published, Sent, Continued, Replied, Expecting, Armed, Pending, sockets, fixed
<1>2. /\ pipe \in Lines /\ On' = On /\ On \in SUBSET Servers /\ home \in Homes
      /\ o \in OpType /\ OpInv(o) /\ k \in Nat
  BY <1>1, State, AckState DEF On
<1>3. o.from \in Servers /\ o.kind \in {"ack", "fetch", "emit"}
  BY <1>1, <1>2 DEF OpType, OpInv
<1>4. p \in OpType /\ Keeps(o, p) /\ p.stage = "done" /\ p.count = o.count /\ p.cluster = o.cluster
  BY <1>1, <1>2, <1>3, ContinuedOp
<1>5. DOMAIN ops' = DOMAIN ops /\ ops'[k] = p /\ \A j \in DOMAIN ops : ops'[j] = IF j =
      k THEN p ELSE ops[j]
  BY <1>1, State
<1> HIDE DEF p
<1>6. Extends(ops, ops')
  BY <1>4, <1>5 DEF Extends, Keeps
<1>7. /\ msgs \in Seq(MessageType)
      /\ \A j \in DOMAIN msgs : msgs[j].op = k /\ o.kind # "ack"
  <2> DEFINE m == Request(o.from, k)
  <2>1. m \in MessageType /\ m.op = k
    BY <1>2, <1>3, RequestMessage
  <2>2. msgs = <<>> \/ (msgs = <<m>> /\ o.kind # "ack")
    OBVIOUS
  <2> HIDE DEF m, msgs
  <2>3. <<m>> \in Seq(MessageType) /\ \A j \in DOMAIN <<m>> : <<m>>[j] = m
    BY <2>1
  <2>4. <<>> \in Seq(MessageType) /\ DOMAIN <<>> = {}
    OBVIOUS
  <2> QED BY <2>1, <2>2, <2>3, <2>4
<1> HIDE DEF msgs
<1>8. Preceded(ops', msgs)
  <2>1. \A j \in DOMAIN msgs : ops'[msgs[j].op].kind # "ack"
    BY <1>4, <1>5, <1>7 DEF Keeps
  <2> QED BY <2>1 DEF Preceded
<1>9. AsksLast'
  BY <1>1, <1>3, <1>6, <1>7, <1>8, LastSent
<1>10. ASSUME NEW j \in DOMAIN ops, ops[j].kind = "ack" PROVE Unmoved(j, ops[j].from)
  <2>1. \A l \in DOMAIN msgs : msgs[l] \notin About(j)
    BY <1>7, <1>10 DEF About
  <2>2. Apart(pipe', pipe, About(j))
    BY <1>1, <1>2, <1>3, <1>7, <2>1, ApartSent
  <2> QED BY <1>1, <2>2, ApartSame, UnmovedBy
<1>11. ASSUME o.kind = "ack" PROVE AckAfter(k)
  <2> DEFINE d == Replied(o)
             e == Expecting(d, o.count)
             v == Now(k, o.from)
  <2>1. AckInv(o) /\ AckNow(k) /\ v \in TrackType
    BY <1>2, <1>3, <1>11, Tracks DEF OpInv, Acking
  <2>2. /\ d \in OpType /\ Keeps(o, d) /\ d.settled = o.settled /\ d.expected = o.expected
        /\ d.current = o.current /\ d.clients = o.clients /\ d.responses = o.responses
        /\ d.stage = "done" /\ d.count = o.count /\ d.cluster = o.cluster
        /\ (d.pending <=> o.pending) /\ (d.timedOut <=> o.timedOut) /\ (d.timer <=> o.timer)
    BY <1>2, RepliedOp
  <2>3. o.count \in Nat /\ o.count \in Int
    BY <1>2 DEF OpType
  <2> HIDE DEF d
  <2>4. /\ e \in OpType /\ Same(d, e) /\ e.settled = d.settled /\ e.expected = o.count
        /\ e.current = d.current /\ e.clients = d.clients /\ e.responses = d.responses
        /\ (e.pending <=> d.pending) /\ (e.timedOut <=> d.timedOut) /\ (e.timer <=> d.timer)
    BY <2>2, <2>3, ExpectingOp
  <2>5. p = CheckCompleteness(e)
    BY <1>11 DEF p, Continued, d
  <2> HIDE DEF e
  <2>6. AckChanged(e)
    <3>1. /\ o.stage # "done" /\ e.stage = "done" /\ e.count = o.count
      BY <1>1, <2>2, <2>4 DEF Same
    <3>2. e.local <=> o.local
      BY <2>2, <2>4 DEF Same, Keeps
    <3>3. e.settled # <<"ok">>
      BY <2>1, <2>2, <2>4, <3>1, Outcomes DEF AckInv
    <3> QED BY <2>1, <2>2, <2>4, <3>1, <3>2, <3>3 DEF AckInv, AckChanged
  <2>7. AckChange(On, On, o, e)
    BY <1>1, <2>2, <2>4 DEF AckChange, Same, Keeps
  <2>8. Each(v, home, e) /\ Whole(v, home, On, e)
    <3>1. Each(v, home, o) /\ Whole(v, home, On, o)
      BY <2>1 DEF AckNow
    <3> HIDE DEF v, o
    <3> QED BY <1>2, <2>1, <2>4, <2>7, <3>1, ChangedAck
  <2>9. v.asked = 0
    BY <1>1, <1>11, NothingAsked
  <2> HIDE DEF v
  <2>10. Each(v, home, p) /\ Whole(v, home, On, p)
    BY <1>2, <2>1, <2>4, <2>5, <2>6, <2>8, <2>9, CheckedAck
  <2>11. After(k, o.from) = v /\ Told(pipe', inbox', home', v, k, o.from) /\ home' = home
    <3>1. Unmoved(k, o.from)
      BY <1>10, <1>11
    <3>2. Told(pipe, inbox, home, v, k, o.from)
      BY <2>1 DEF AckNow, v
    <3> QED BY <1>1, <1>2, <1>3, <3>1, <3>2, UnmovedTrack DEF v
  <2>12. p.from = o.from
    BY <1>4 DEF Keeps
  <2> QED BY <1>2, <1>5, <2>10, <2>11, <2>12 DEF AckAfter
<1> QED BY <1>1, <1>2, <1>4, <1>9, <1>10, <1>11, AckOne

\* The servers that listen change under the calls not yet settled, or stay.
LEMMA DisturbedAck ==
  ASSUME IInv, ops' = Disturbed \/ (UNCHANGED ops /\ On' = On)
  PROVE  /\ Extends(ops, ops') /\ DOMAIN ops' = DOMAIN ops
         /\ \A i \in DOMAIN ops : /\ AckChange(On, On', ops[i], ops'[i]) /\ ops'[i].kind = ops[i].kind
                                  /\ ops'[i].from = ops[i].from
                                  /\ ops'[i].cluster # {} /\ ops'[i].settled = <<>> => On' =
                                              On /\ ops'[i] = ops[i]
<1>1. Extends(ops, ops') /\ DOMAIN ops' = DOMAIN ops
  BY DisturbedStill
<1>2. CASE ops' = Disturbed
  <2> SUFFICES ASSUME NEW i \in DOMAIN ops
               PROVE  /\ AckChange(On, On', ops[i], ops'[i]) /\ ops'[i].kind = ops[i].kind
                      /\ ops'[i].from = ops[i].from
                      /\ ops'[i].cluster # {} /\ ops'[i].settled = <<>> => On' = On /\ ops'[i] = ops[i]
    BY <1>1
  <2> DEFINE p == Unlike(ops[i])
  <2>1. /\ Keeps(ops[i], p) /\ p.responses = ops[i].responses /\ p.cluster = {}
        /\ ops'[i] = IF ops[i].settled = <<>> THEN p ELSE ops[i]
    BY <1>2, State, UnlikeOp DEF Disturbed, Unlike
  <2> HIDE DEF p
  <2>2. CASE ops[i].settled = <<>>
    BY <2>1, <2>2 DEF AckChange, Keeps
  <2>3. CASE ops[i].settled # <<>>
    BY <2>1, <2>3 DEF AckChange
  <2> QED BY <2>2, <2>3
<1>3. CASE UNCHANGED ops /\ On' = On
  BY <1>1, <1>3, SelfChange
<1> QED BY <1>1, <1>2, <1>3

LEMMA AckSubscribe ==
  ASSUME IInv, IInv', AsksLast, Acking, NEW s \in Servers, Subscribe(s)
  PROVE  AsksLast' /\ Acking'
<1>1. UNCHANGED <<pipe, inbox, delayed, home, waiting, log>>
  BY DEF Subscribe, Changes, sockets
<1>2. ops' = Disturbed \/ (UNCHANGED ops /\ On' = On)
  BY DEF Subscribe, On, IInv, Typed
<1>3. /\ Extends(ops, ops') /\ DOMAIN ops' = DOMAIN ops
      /\ \A i \in DOMAIN ops : AckChange(On, On', ops[i], ops'[i]) /\ ops'[i].kind = ops[i].kind
  BY <1>2, DisturbedAck
<1>4. AsksLast'
  BY <1>1, <1>3, LastLess
<1>5. ASSUME NEW i \in DOMAIN ops', ops'[i].kind = "ack" PROVE AckAfter(i)
  BY <1>1, <1>3, <1>5, StillUnmoved, AckStill
<1> QED BY <1>4, <1>5, AckingNext

LEMMA AckCrash ==
  ASSUME IInv, IInv', AsksLast, Acking, NEW s \in Servers, Crash(s)
  PROVE  AsksLast' /\ Acking'
<1>1. /\ pipe' = Emptied(pipe, s) /\ inbox' = Emptied(inbox, s) /\ delayed' = [delayed EXCEPT ![s] = <<>>]
      /\ UNCHANGED <<home, waiting, log>> /\ s \notin On'
  BY DEF Crash, Changes, Emptied, On, IInv, Typed
<1>2. ops' = Disturbed \/ (UNCHANGED ops /\ On' = On)
  BY DEF Crash, On, IInv, Typed
<1>3. /\ Extends(ops, ops') /\ DOMAIN ops' = DOMAIN ops
      /\ \A i \in DOMAIN ops : /\ AckChange(On, On', ops[i], ops'[i]) /\ ops'[i].kind = ops[i].kind
                               /\ ops'[i].from = ops[i].from
                               /\ ops'[i].cluster # {} /\ ops'[i].settled = <<>> => On' = On /\
                                           ops'[i] = ops[i]
  BY <1>2, DisturbedAck
<1>4. pipe \in Lines /\ inbox \in Lines /\ delayed \in [Servers -> Seq(Nat)] /\ home \in Homes
  BY AckState
<1>5. AsksLast'
  <2>1. \A x \in Servers : pipe'[x] = pipe[x] \/ pipe'[x] = <<>>
    BY <1>1, <1>4 DEF Emptied, Lines
  <2> QED BY <1>3, <2>1, LastLess
<1>6. /\ \A x \in Servers : \A V : Count(pipe'[x], V) <= Count(pipe[x], V)
      /\ \A x \in Servers : \A V : Count(inbox'[x], V) <= Count(inbox[x], V)
      /\ \A x \in Servers : \A V : Count(delayed'[x], V) <= Count(delayed[x], V)
  <2>1. \A x \in Servers : \A V : Count(pipe'[x], V) <= Count(pipe[x], V)
    BY <1>1, <1>4, EmptiedCount
  <2>2. \A x \in Servers : \A V : Count(inbox'[x], V) <= Count(inbox[x], V)
    BY <1>1, <1>4, EmptiedCount
  <2>3. ASSUME NEW x \in Servers, NEW V PROVE Count(delayed'[x], V) <= Count(delayed[x], V)
    <3>1. delayed[x] \in Seq(Nat) /\ delayed'[x] = IF x = s THEN <<>> ELSE delayed[x]
      BY <1>1, <1>4
    <3>2. Count(delayed[x], V) \in Nat /\ Count(<<>>, V) = 0
      BY <3>1, CountType, CountEmpty
    <3> QED BY <3>1, <3>2
  <2> QED BY <2>1, <2>2, <2>3
<1>7. \A x \in Servers : x # s => pipe'[x] = pipe[x] /\ inbox'[x] = inbox[x] /\ delayed'[x] = delayed[x]
  BY <1>1, <1>4 DEF Emptied, Lines
<1>8. /\ \A x \in Servers : \A V : Count(pipe[x], V) \in Nat /\ Count(inbox[x], V) \in Nat
      /\ \A x \in Servers : \A V : Count(pipe'[x], V) \in Nat /\ Count(inbox'[x], V) \in Nat
  BY <1>4, AckStateNext, LineCount
<1>9. ASSUME NEW i \in DOMAIN ops', ops'[i].kind = "ack" PROVE AckAfter(i)
  <2> DEFINE f == ops[i].from
             v == Now(i, f)
             v2 == After(i, f)
  <2>1. i \in DOMAIN ops /\ ops[i].kind = "ack" /\ f \in Servers /\ AckNow(i)
    BY <1>3, <1>9, AckState DEF Acking
  <2>2. v \in TrackType /\ v2 \in TrackType
    BY <2>1, Tracks
  <2>3. \A c \in Clients : home[c] \in Servers
    BY <1>4 DEF Homes
  <2>4. v2.logs = v.logs /\ v2.asked <= v.asked
    BY <1>1, <1>6, <2>1 DEF Now, After, Track
  <2>5. ASSUME NEW t \in Servers
        PROVE  /\ v2.at[t] <= v.at[t] /\ v2.telling[t] <= v.telling[t]
               /\ Coming(v2, f, t) <= Coming(v, f, t)
    <3>1. v2.at[t] <= v.at[t]
      BY <1>6, <2>1 DEF Now, After, Track
    <3>2. v2.telling[t] <= v.telling[t]
      BY <1>6, <1>8, <2>1 DEF Now, After, Track
    <3>3. /\ v.asked \in Nat /\ v2.asked \in Nat /\ v.at[t] \in Nat /\ v2.at[t] \in Nat
          /\ Coming(v, f, f) = v.at[f] /\ (t # f => Coming(v, f, t) = v.at[t] + v.asked)
          /\ Coming(v2, f, f) = v2.at[f] /\ (t # f => Coming(v2, f, t) = v2.at[t] + v2.asked)
      BY <2>1, <2>2, TrackFields
    <3> QED BY <2>4, <3>1, <3>2, <3>3
  <2>6. ASSUME NEW c \in Clients PROVE v2.way[c] <= v.way[c]
    <3>1. /\ Count(pipe'[home[c]], Acks(i, c)) <= Count(pipe[home[c]], Acks(i, c))
          /\ Count(inbox'[f], Acks(i, c)) <= Count(inbox[f], Acks(i, c))
          /\ Owed(waiting', c, i) = Owed(waiting, c, i) /\ Owed(waiting, c, i) \in Nat
      BY <1>1, <1>6, <2>1, <2>3 DEF Owed
    <3>2. /\ v.way[c] = Owed(waiting, c, i) + Count(pipe[home[c]], Acks(i, c)) + Count(inbox[f],
                Acks(i, c))
          /\ v2.way[c] = Owed(waiting, c, i) + Count(pipe'[home[c]], Acks(i, c)) +
                      Count(inbox'[f], Acks(i, c))
      BY <1>1 DEF Now, After, Track
    <3>3. home[c] \in Servers
      BY <2>3
    <3> HIDE DEF v, v2, f
    <3> QED BY <1>8, <2>1, <3>1, <3>2, <3>3
  <2>7. ASSUME ops'[i].cluster # {}, ops'[i].settled = <<>>
        PROVE  /\ \A t \in On' : Coming(v2, f, t) = Coming(v, f, t) /\ v2.telling[t] = v.telling[t]
               /\ \A c \in Clients : home[c] \in On' => v2.way[c] = v.way[c]
    <3>1. On' = On /\ ops[i].cluster # {} /\ ops[i].settled = <<>>
      BY <1>3, <2>1, <2>7
    <3>2. f \in On' /\ On' \in SUBSET Servers
      BY <2>1, <3>1, AckStateNext DEF AckNow, Whole, Live
    <3>3. \A x \in On' : pipe'[x] = pipe[x] /\ inbox'[x] = inbox[x] /\ delayed'[x] = delayed[x]
      BY <1>1, <1>7, <3>2
    <3>4. v2.asked = v.asked /\ \A t \in On' : v2.at[t] = v.at[t] /\ v2.telling[t] = v.telling[t]
      BY <3>2, <3>3 DEF Now, After, Track
    <3>5. \A c \in Clients : home[c] \in On' => v2.way[c] = v.way[c]
      BY <1>1, <3>2, <3>3 DEF Now, After, Track
    <3> QED BY <3>4, <3>5 DEF Coming
  <2>8. Fades(v, v2, f, home, On', ops'[i].cluster # {} /\ ops'[i].settled = <<>>)
    BY <2>4, <2>5, <2>6, <2>7 DEF Fades
  <2>9. \A t \in Servers : \A V \in SUBSET Tells(i, t) :
          Count(pipe'[t], V) + Count(inbox'[f], V) <= Count(pipe[t], V) + Count(inbox[f], V)
    BY <1>6, <1>8, <2>1
  <2>10. AckChange(On, On', ops[i], ops'[i])
    BY <1>3, <2>1
  <2> HIDE DEF f
  <2> QED BY <1>1, <1>9, <2>1, <2>8, <2>9, <2>10, AckLess DEF f
<1> QED BY <1>5, <1>9, AckingNext

LEMMA AckRedisRoutes ==
  ASSUME IInv, IInv', AsksLast, Acking, NEW s \in Servers, RedisRoutes(s)
  PROVE  AsksLast' /\ Acking'
<1> DEFINE m == Head(pipe[s])
           k == m.op
           half == {t \in Servers : sub[t] = "pattern" /\ ops[k].kind = "broadcast"}
<1>1. /\ pipe[s] # <<>> /\ m.type # "numsub" /\ pipe' = Taken(pipe, s)
      /\ UNCHANGED <<sub, delayed, home, waiting, log, ops>>
  BY DEF RedisRoutes, Taken, sockets, fixed
<1>2. PICK H \in SUBSET half :
        LET to == IF m.type = "request" THEN On \union H ELSE On \intersect {ops[k].from} IN
        inbox' = [t \in Servers |-> IF t \in to THEN Append(inbox[t], m) ELSE inbox[t]]
  BY DEF RedisRoutes
<1> DEFINE to == IF m.type = "request" THEN On \union H ELSE On \intersect {ops[k].from}
<1>3. inbox' = Routed(inbox, to, m) /\ to \in SUBSET Servers
  BY <1>2 DEF Routed, On
<1>4. ops[k].kind = "ack" => to = IF m.type = "request" THEN On ELSE On \intersect {ops[k].from}
  OBVIOUS
<1>5. m \in MessageType /\ PipeMessage(ops, home, s, m)
  BY <1>1, UnderWay, TakeMessage
<1>6. /\ pipe \in Lines /\ inbox \in Lines /\ On' = On /\ On \in SUBSET Servers /\ home \in Homes
      /\ Extends(ops, ops')
  BY <1>1, AckState, Refl DEF On
<1> HIDE DEF to
<1>7. /\ \A x \in Servers : \A V : Count(pipe[x], V) \in Nat
      /\ \A x \in Servers : \A V : Count(inbox[x], V) \in Nat
      /\ \A x \in Servers : \A V : Count(pipe'[x], V) \in Nat
      /\ \A x \in Servers : \A V : Count(inbox'[x], V) \in Nat
  BY <1>6, AckStateNext, LineCount
<1>8. \A x \in Servers : \A V : Count(pipe'[x], V) = Count(pipe[x], V) - IF x = s /\ m \in V THEN 1 ELSE 0
  BY <1>1, <1>6, TakenCount
<1>9. \A x \in Servers : \A V : Count(inbox'[x], V) = Count(inbox[x], V) + IF x \in to /\
      m \in V THEN 1 ELSE 0
  <2> HIDE DEF m
  <2> DEFINE b == Routed(inbox, to, m)
  <2>1. /\ b \in Lines
        /\ \A x \in Servers : \A V : Count(b[x], V) = Count(inbox[x], V) + IF x \in to /\
                    m \in V THEN 1 ELSE 0
    <3>1. inbox \in Lines /\ to \in SUBSET Servers /\ m \in MessageType
      BY <1>3, <1>5, <1>6
    <3> QED BY <3>1, RoutedCount
  <2>2. inbox' = b
    BY <1>3
  <2> HIDE DEF b
  <2> QED BY <2>1, <2>2
<1>10. AsksLast'
  <2>1. \A x \in Servers : pipe'[x] = pipe[x] \/ (pipe[x] # <<>> /\ pipe'[x] = Tail(pipe[x]))
    BY <1>1, <1>6 DEF Taken, Lines
  <2> QED BY <1>6, <2>1, LastLess
<1>11. ASSUME NEW i \in DOMAIN ops, ops[i].kind = "ack" PROVE AckAfter(i)
  <2> DEFINE f == ops[i].from
             v == Now(i, f)
             v2 == After(i, f)
             live == ops'[i].cluster # {} /\ ops'[i].settled = <<>>
  <2>1. f \in Servers /\ AckNow(i) /\ v \in TrackType /\ v2 \in TrackType
    BY <1>11, AckState, Tracks DEF Acking
  <2>2. live => f \in On
    BY <1>1, <2>1 DEF AckNow, Whole, Live
  <2>3. CASE m \notin About(i)
    <3>1. Apart(pipe', pipe, About(i))
      BY <1>1, <1>6, <2>3, ApartTaken
    <3>2. Apart(inbox', inbox, About(i))
      <4> HIDE DEF m
      <4> QED BY <1>3, <1>5, <1>6, <2>3, ApartRouted
    <3> QED BY <1>1, <1>6, <1>11, <3>1, <3>2, UnmovedBy, AckOthers
  <2>4. CASE m \in About(i)
    <3>1. k = i /\ m.type \in {"request", "count", "ack"}
      BY <2>4 DEF About
    <3>2. to = IF m.type = "request" THEN On ELSE On \intersect {f}
      BY <1>4, <1>11, <3>1
    <3>3. /\ m.type = "request" => f = s
          /\ m.type = "count" => m.by = s
          /\ m.type = "ack" => m.by \in Clients /\ home[m.by] = s
      BY <1>5, <3>1 DEF PipeMessage
    <3>4. \A c \in Clients : home[c] \in Servers
      BY <1>6 DEF Homes
    <3> HIDE DEF m
    <3>5. \A t : /\ m \in Requests(i) <=> m.type = "request"
                 /\ m \in Tells(i, t) <=> m.type = "count" /\ m.by = t
                 /\ m \in Acks(i, t) <=> m.type = "ack" /\ m.by = t
      BY <1>5, <3>1, MessageIn
    <3>6. /\ v2.logs = v.logs
          /\ v2.asked = v.asked - IF m.type = "request" THEN 1 ELSE 0
          /\ \A t \in Servers : v2.at[t] = v.at[t] + IF t # f /\ t \in On /\ m.type =
                      "request" THEN 1 ELSE 0
      <4>1. v2.logs = v.logs
        BY <1>1 DEF Now, After, Track
      <4>2. v2.asked = v.asked - IF m.type = "request" THEN 1 ELSE 0
        BY <1>7, <1>8, <2>1, <3>3, <3>5 DEF Now, After, Track
      <4>3. ASSUME NEW t \in Servers
            PROVE  v2.at[t] = v.at[t] + IF t # f /\ t \in On /\ m.type = "request" THEN 1 ELSE 0
        <5>1. v.at[t] \in Nat
          BY <2>1, TrackFields
        <5>2. CASE t = f
          BY <1>1, <5>1, <5>2 DEF Now, After, Track
        <5>3. CASE t # f
          <6>1. Count(inbox'[t], Requests(i)) = Count(inbox[t], Requests(i)) + IF t \in On /\
                m.type = "request" THEN 1 ELSE 0
            BY <1>9, <3>2, <3>5
          <6>2. v2.at[t] = Count(inbox'[t], Requests(i)) /\ v.at[t] = Count(inbox[t], Requests(i))
            BY <5>3 DEF Now, After, Track
          <6> QED BY <5>3, <6>1, <6>2
        <5> QED BY <5>2, <5>3
      <4> QED BY <4>1, <4>2, <4>3
    <3>7. ASSUME NEW t \in Servers
          PROVE  v2.telling[t] <= v.telling[t] /\ (f \in On => v2.telling[t] = v.telling[t])
      <4>1. /\ Count(pipe'[t], Tells(i, t)) = Count(pipe[t], Tells(i, t)) - IF m \in Tells(i,
                  t) THEN 1 ELSE 0
        BY <1>7, <1>8, <3>3, <3>5
      <4>2. Count(inbox'[f], Tells(i, t)) = Count(inbox[f], Tells(i, t)) + IF f \in On /\
            m \in Tells(i, t) THEN 1 ELSE 0
        BY <1>9, <2>1, <3>2, <3>5
      <4>3. /\ v.telling[t] = Count(pipe[t], Tells(i, t)) + Count(inbox[f], Tells(i, t))
            /\ v2.telling[t] = Count(pipe'[t], Tells(i, t)) + Count(inbox'[f], Tells(i, t))
        BY DEF Now, After, Track
      <4> HIDE DEF v, v2
      <4> QED BY <1>7, <2>1, <4>1, <4>2, <4>3
    <3>8. ASSUME NEW c \in Clients
          PROVE  v2.way[c] <= v.way[c] /\ (f \in On => v2.way[c] = v.way[c])
      <4> DEFINE h == home[c]
      <4>1. Count(pipe'[h], Acks(i, c)) = Count(pipe[h], Acks(i, c)) - IF m \in Acks(i, c) THEN 1 ELSE 0
        BY <1>7, <1>8, <3>3, <3>4, <3>5
      <4>2. Count(inbox'[f], Acks(i, c)) = Count(inbox[f], Acks(i, c)) + IF f \in On /\
            m \in Acks(i, c) THEN 1 ELSE 0
        BY <1>9, <2>1, <3>2, <3>5
      <4>3. /\ v.way[c] = Owed(waiting, c, i) + Count(pipe[h], Acks(i, c)) + Count(inbox[f], Acks(i, c))
            /\ v2.way[c] = Owed(waiting, c, i) + Count(pipe'[h], Acks(i, c)) + Count(inbox'[f],
                        Acks(i, c))
        BY <1>1 DEF Now, After, Track
      <4>4. Owed(waiting, c, i) \in Nat /\ h \in Servers
        BY <3>4 DEF Owed
      <4> HIDE DEF v, v2, h
      <4> QED BY <1>7, <2>1, <4>1, <4>2, <4>3, <4>4
    <3>9. ASSUME NEW t \in Servers
          PROVE  /\ Coming(v2, f, t) <= Coming(v, f, t) /\ (t \in On => Coming(v2, f, t) =
                      Coming(v, f, t))
                 /\ t \notin On => v2.at[t] <= v.at[t]
      <4>1. /\ v.asked \in Nat /\ v.at[t] \in Nat
            /\ Coming(v, f, f) = v.at[f] /\ (t # f => Coming(v, f, t) = v.at[t] + v.asked)
        BY <2>1, TrackFields
      <4>2. /\ v2.asked \in Nat /\ v2.at[t] \in Nat
            /\ Coming(v2, f, f) = v2.at[f] /\ (t # f => Coming(v2, f, t) = v2.at[t] + v2.asked)
        BY <2>1, TrackFields
      <4>3. /\ v2.asked = v.asked - IF m.type = "request" THEN 1 ELSE 0
            /\ v2.at[t] = v.at[t] + IF t # f /\ t \in On /\ m.type = "request" THEN 1 ELSE 0
        BY <3>6
      <4> HIDE DEF v, v2, f
      <4> QED BY <4>1, <4>2, <4>3
    <3>10. v2.asked <= v.asked
      <4>1. v.asked \in Nat /\ v2.asked = v.asked - IF m.type = "request" THEN 1 ELSE 0
        BY <2>1, <3>6, TrackFields
      <4> HIDE DEF v, v2
      <4> QED BY <4>1
    <3>11. Fades(v, v2, f, home, On', live)
      <4> HIDE DEF live
      <4> QED BY <1>6, <2>2, <3>6, <3>7, <3>8, <3>9, <3>10 DEF Fades
    <3>12. ASSUME NEW t \in Servers, NEW V \in SUBSET Tells(i, t)
           PROVE  Count(pipe'[t], V) + Count(inbox'[f], V) <= Count(pipe[t], V) + Count(inbox[f], V)
      <4>1. m \in V => t = s
        BY <3>3, <3>5
      <4>2. Count(pipe'[t], V) = Count(pipe[t], V) - IF m \in V THEN 1 ELSE 0
        BY <1>7, <1>8, <4>1
      <4>3. Count(inbox'[f], V) = Count(inbox[f], V) + IF f \in to /\ m \in V THEN 1 ELSE 0
        BY <1>9, <2>1
      <4> QED BY <1>7, <2>1, <4>2, <4>3
    <3>13. AckChange(On, On', ops[i], ops'[i]) /\ i \in DOMAIN ops'
      BY <1>1, <1>6, SelfChange
    <3> HIDE DEF f
    <3> QED BY <1>1, <1>11, <3>11, <3>12, <3>13, AckLess DEF f
  <2> QED BY <2>3, <2>4
<1>12. \A i \in DOMAIN ops' : ops'[i].kind = "ack" => AckAfter(i)
  BY <1>1, <1>11
<1> QED BY <1>10, <1>12, AckingNext

\* What call k does to the sockets is nothing to broadcast i.
LEMMA AppliedApart ==
  ASSUME Typed, NEW s \in Servers, NEW k \in Nat, NEW o, Apply(s, k, o), NEW i, i # k
  PROVE  \A c \in Clients : /\ Count(log'[c], {i}) = Count(log[c], {i})
                            /\ Owed(waiting', c, i) = Owed(waiting, c, i)
<1> SUFFICES ASSUME NEW c \in Clients
             PROVE  /\ Count(log'[c], {i}) = Count(log[c], {i})
                    /\ Owed(waiting', c, i) = Owed(waiting, c, i)
  OBVIOUS
<1>1. /\ log'[c] = IF c \in Heard(s, o) THEN Append(log[c], k) ELSE log[c]
      /\ waiting' = IF o.kind \in {"ack", "emit"} THEN waiting \union (Heard(s, o) \X {k}) ELSE waiting
  BY Applied DEF Process
<1>2. Count(Append(log[c], k), {i}) = Count(log[c], {i})
  <2>1. log[c] \in Seq(Nat)
    BY DEF Typed, Process
  <2>2. Count(Append(log[c], k), {i}) = Count(log[c], {i}) + IF k \in {i} THEN 1 ELSE 0
    BY <2>1, CountAppend
  <2>3. Count(log[c], {i}) \in Nat
    BY <2>1, CountType
  <2> QED BY <2>2, <2>3
<1>3. Count(log'[c], {i}) = Count(log[c], {i})
  BY <1>1, <1>2
<1>4. <<c, i>> \in waiting' <=> <<c, i>> \in waiting
  BY <1>1
<1> QED BY <1>3, <1>4 DEF Owed

\* What broadcast k does to those it reaches.
LEMMA AppliedAck ==
  ASSUME Typed, NEW s \in Servers, NEW k \in Nat, NEW o, Apply(s, k, o), o.kind = "ack"
  PROVE  \A c \in Clients :
           /\ Count(log'[c], {k}) = Count(log[c], {k}) + IF c \in Reached(s, o) THEN 1 ELSE 0
           /\ Owed(waiting', c, k) = IF c \in Reached(s, o) THEN 1 ELSE Owed(waiting, c, k)
<1> SUFFICES ASSUME NEW c \in Clients
             PROVE  /\ Count(log'[c], {k}) = Count(log[c], {k}) + IF c \in Reached(s, o) THEN 1 ELSE 0
                    /\ Owed(waiting', c, k) = IF c \in Reached(s, o) THEN 1 ELSE Owed(waiting, c, k)
  OBVIOUS
<1>1. /\ log'[c] = IF c \in Reached(s, o) THEN Append(log[c], k) ELSE log[c]
      /\ waiting' = waiting \union (Reached(s, o) \X {k})
  <2>1. Heard(s, o) = Reached(s, o)
    BY DEF Heard
  <2>2. /\ log'[c] = IF c \in Heard(s, o) THEN Append(log[c], k) ELSE log[c]
        /\ waiting' = IF o.kind \in {"ack", "emit"} THEN waiting \union (Heard(s, o) \X {k}) ELSE waiting
    BY Applied DEF Process
  <2> QED BY <2>1, <2>2
<1>2. /\ Count(Append(log[c], k), {k}) = Count(log[c], {k}) + 1
      /\ Count(log[c], {k}) \in Nat
  <2>1. log[c] \in Seq(Nat)
    BY DEF Typed, Process
  <2>2. Count(Append(log[c], k), {k}) = Count(log[c], {k}) + IF k \in {k} THEN 1 ELSE 0
    BY <2>1, CountAppend
  <2>3. Count(log[c], {k}) \in Nat
    BY <2>1, CountType
  <2> QED BY <2>2, <2>3
<1>3. Count(log'[c], {k}) = Count(log[c], {k}) + IF c \in Reached(s, o) THEN 1 ELSE 0
  BY <1>1, <1>2
<1>4. <<c, k>> \in waiting' <=> c \in Reached(s, o) \/ <<c, k>> \in waiting
  BY <1>1
<1> QED BY <1>3, <1>4 DEF Owed

LEMMA AckReceiveRequest ==
  ASSUME IInv, IInv', AsksLast, Acking, NEW s \in Servers, ReceiveRequest(s)
  PROVE  AsksLast' /\ Acking'
<1> DEFINE m == Head(inbox[s])
           k == m.op
           o == ops[k]
           f == o.from
           msgs == Replies(s, k, o)
           R == Reached(s, o)
           n == Cardinality(R)
           c0 == Message("count", k, s, n)
<1>1. /\ inbox[s] # <<>> /\ m.type = "request" /\ inbox' = Taken(inbox, s) /\ Apply(s, k, o)
      /\ pipe' = Sent(pipe, s, msgs) /\ f # s /\ UNCHANGED <<sub, delayed, home, ops>>
  BY DEF ReceiveRequest, Serve, Incoming, Read, Taken, Published, Sent, fixed
<1>2. pipe \in Lines /\ inbox \in Lines /\ Typed /\ home \in Homes /\ On' = On /\ On \in SUBSET Servers
  BY <1>1, AckState DEF IInv, On
<1>3. m \in MessageType /\ InboxMessage(ops, home, s, m)
  BY <1>1, UnderWay, ReadMessage
<1>4. k \in DOMAIN ops /\ k \in Nat /\ ~o.local
  BY <1>1, <1>3 DEF InboxMessage, MessageType
<1>5. o \in OpType /\ f \in Servers /\ (o.kind = "ack" => AckNow(k))
  BY <1>4, AckState DEF Acking
<1>6. R \subseteq Clients /\ n \in Nat /\ \A c \in R : home[c] = s
  BY <1>2, ReachedClients
<1>7. /\ msgs \in Seq(MessageType)
      /\ \A j \in DOMAIN msgs : msgs[j].op = k /\ msgs[j].type # "request"
      /\ o.kind = "ack" => msgs = <<c0>> /\ c0 \in MessageType
  <2> DEFINE a == Message("answer", k, s, 0)
  <2>1. a \in MessageType /\ a.op = k /\ a.type # "request"
    BY <1>4 DEF Message, MessageType, Process
  <2>2. msgs = CASE o.kind = "ack" -> <<c0>> [] o.kind = "fetch" -> <<a>> [] OTHER -> <<>>
    BY DEF Replies
  <2> HIDE DEF n
  <2>3. c0 \in MessageType /\ c0.op = k /\ c0.type # "request"
    BY <1>4, <1>6 DEF Message, MessageType, Process
  <2> HIDE DEF a, c0, msgs, o
  <2>4. /\ <<a>> \in Seq(MessageType) /\ \A j \in DOMAIN <<a>> : <<a>>[j] = a
        /\ <<c0>> \in Seq(MessageType) /\ \A j \in DOMAIN <<c0>> : <<c0>>[j] = c0
        /\ <<>> \in Seq(MessageType) /\ DOMAIN <<>> = {}
    BY <2>1, <2>3
  <2>5. CASE o.kind = "ack"
    BY <2>2, <2>3, <2>4, <2>5
  <2>6. CASE o.kind = "fetch"
    BY <2>1, <2>2, <2>4, <2>6
  <2>7. CASE o.kind \notin {"ack", "fetch"}
    BY <2>2, <2>4, <2>7
  <2> QED BY <2>5, <2>6, <2>7
<1> HIDE DEF msgs, c0
<1>8. Extends(ops, ops') /\ AsksLast'
  <2>1. Extends(ops, ops')
    BY <1>1, Refl
  <2>2. Preceded(ops', msgs)
    BY <1>7 DEF Preceded
  <2> QED BY <1>1, <1>7, <2>1, <2>2, LastSent
<1>9. ASSUME NEW i \in DOMAIN ops, i # k, ops[i].kind = "ack" PROVE AckAfter(i)
  <2>1. Apart(pipe', pipe, About(i))
    <3>1. \A j \in DOMAIN msgs : msgs[j] \notin About(i)
      BY <1>7, <1>9 DEF About
    <3> QED BY <1>1, <1>2, <1>7, <3>1, ApartSent
  <2>2. Apart(inbox', inbox, About(i))
    <3>1. m \notin About(i)
      BY <1>9 DEF About
    <3> QED BY <1>1, <1>2, <3>1, ApartTaken
  <2>3. \A c \in Clients : /\ Count(log'[c], {i}) = Count(log[c], {i})
                           /\ Owed(waiting', c, i) = Owed(waiting, c, i)
    <3> HIDE DEF k, o
    <3> QED BY <1>1, <1>2, <1>4, <1>9, AppliedApart
  <2>4. Unmoved(i, ops[i].from)
    BY <1>1, <2>1, <2>2, <2>3, UnmovedBy
  <2> QED BY <1>1, <1>2, <1>9, <2>4, AckOthers
<1>10. ASSUME o.kind = "ack" PROVE AckAfter(k)
  <2> DEFINE v == Now(k, f)
             v2 == After(k, f)
  <2>1. AckNow(k) /\ v \in TrackType /\ v2 \in TrackType /\ \A c \in Clients : home[c] \in Servers
    BY <1>2, <1>5, <1>10, Tracks DEF Homes
  <2>2. Each(v, home, o) /\ Whole(v, home, On, o) /\ Told(pipe, inbox, home, v, k, f)
    BY <2>1 DEF AckNow
  <2> HIDE DEF m, k, o, f
  <2>3. /\ \A x \in Servers : \A V : Count(pipe[x], V) \in Nat
        /\ \A x \in Servers : \A V : Count(inbox[x], V) \in Nat
    BY <1>2, LineCount
  <2>4. \A x \in Servers : \A V : Count(inbox'[x], V) = Count(inbox[x], V) - IF x = s /\
        m \in V THEN 1 ELSE 0
    BY <1>1, <1>2, TakenCount DEF m
  <2>5. \A x \in Servers : \A V : Count(pipe'[x], V) = Count(pipe[x], V) + IF x = s /\
        c0 \in V THEN 1 ELSE 0
    <3> DEFINE q == Sent(pipe, s, <<c0>>)
    <3>1. <<c0>> \in Seq(MessageType) /\ \A V : Count(<<c0>>, V) = IF c0 \in V THEN 1 ELSE 0
      BY <1>7, <1>10, OneCount
    <3>2. \A x \in Servers : \A V : Count(q[x], V) = Count(pipe[x], V) + IF x =
          s THEN Count(<<c0>>, V) ELSE 0
      BY <1>2, <3>1, SentCount
    <3>3. pipe' = q
      BY <1>1, <1>7, <1>10
    <3> HIDE DEF q
    <3> QED BY <2>3, <3>1, <3>2, <3>3
  <2>6. c0 \in MessageType /\ c0.type = "count" /\ c0.op = k /\ c0.by = s /\ c0.n = n
    BY <1>7, <1>10 DEF c0, Message
  <2>7. \A t : /\ m \in Requests(k) /\ m \notin Tells(k, t) /\ m \notin Acks(k, t)
               /\ c0 \notin Requests(k) /\ (c0 \in Tells(k, t) <=> t = s) /\ c0 \notin Acks(k, t)
    <3> HIDE DEF n
    <3> QED BY <1>1, <1>3, <2>6, MessageIn DEF m, k
  <2>8. v.at[s] # 0
    <3>1. v.at[s] = Count(inbox[s], Requests(k))
      BY <1>1 DEF Now, Track
    <3>2. Count(inbox'[s], Requests(k)) \in Nat
      BY AckStateNext, LineCount
    <3> QED BY <2>3, <2>4, <2>7, <3>1, <3>2
  <2>9. \A c \in Clients : c \in R => Owed(waiting, c, k) = 0
    <3> SUFFICES ASSUME NEW c \in R PROVE Owed(waiting, c, k) = 0
      OBVIOUS
    <3>1. c \in Clients /\ home[c] = s
      BY <1>6
    <3>2. v.logs[c] = 0
      <4>1. Coming(v, f, home[c]) # 0
        <5>1. v.at[s] \in Nat /\ v.asked \in Nat
          BY <2>1, TrackFields
        <5> QED BY <1>1, <2>8, <3>1, <5>1 DEF Coming
      <4> QED BY <1>2, <1>5, <2>1, <2>2, <3>1, <4>1, Hits DEF f
    <3>3. v.way[c] + Given(o, c) <= v.logs[c]
      BY <2>2, <3>1 DEF Each
    <3>4. v.way[c] \in Nat /\ Given(o, c) \in Nat
      BY <1>5, <2>1, <3>1, TrackFields, GivenType
    <3>5. v.way[c] = 0
      BY <3>2, <3>3, <3>4
    <3>6. v.way[c] = Owed(waiting, c, k) + Count(pipe[home[c]], Acks(k, c)) + Count(inbox[f], Acks(k, c))
      BY <3>1 DEF Now, Track
    <3>7. /\ Count(pipe[home[c]], Acks(k, c)) \in Nat /\ Count(inbox[f], Acks(k, c)) \in Nat
          /\ Owed(waiting, c, k) \in {0, 1}
      BY <1>5, <2>1, <2>3, <3>1 DEF Owed
    <3> HIDE DEF v
    <3> QED BY <3>5, <3>6, <3>7
  <2>10. \A c \in Clients :
           /\ Count(log'[c], {k}) = Count(log[c], {k}) + IF c \in R THEN 1 ELSE 0
           /\ Owed(waiting', c, k) = IF c \in R THEN 1 ELSE Owed(waiting, c, k)
    BY <1>1, <1>2, <1>4, <1>10, AppliedAck
  <2>11. v2.asked = v.asked
    <3>1. Count(pipe'[f], Requests(k)) = Count(pipe[f], Requests(k))
      BY <1>5, <2>3, <2>5, <2>7
    <3> QED BY <3>1 DEF Now, After, Track
  <2>12. ASSUME NEW x \in Servers
         PROVE  /\ v2.at[x] = v.at[x] - IF x = s THEN 1 ELSE 0
                /\ v2.telling[x] = v.telling[x] + IF x = s THEN 1 ELSE 0
    <3>1. v2.at[x] = v.at[x] - IF x = s THEN 1 ELSE 0
      <4>1. CASE x = f
        <5>1. v2.at[x] = v.at[x] /\ v.at[x] \in Nat
          BY <1>1, <2>1, <4>1, TrackFields DEF Now, After, Track
        <5> QED BY <1>1, <4>1, <5>1
      <4>2. CASE x # f
        <5>1. v2.at[x] = Count(inbox'[x], Requests(k)) /\ v.at[x] = Count(inbox[x], Requests(k))
          BY <4>2 DEF Now, After, Track
        <5> HIDE DEF v, v2
        <5> QED BY <2>3, <2>4, <2>7, <5>1
      <4> QED BY <4>1, <4>2
    <3>2. v2.telling[x] = v.telling[x] + IF x = s THEN 1 ELSE 0
      <4>1. /\ v.telling[x] = Count(pipe[x], Tells(k, x)) + Count(inbox[f], Tells(k, x))
            /\ v2.telling[x] = Count(pipe'[x], Tells(k, x)) + Count(inbox'[f], Tells(k, x))
        BY DEF Now, After, Track
      <4>2. Count(pipe'[x], Tells(k, x)) = Count(pipe[x], Tells(k, x)) + IF x = s THEN 1 ELSE 0
        BY <2>3, <2>5, <2>7
      <4>3. Count(inbox'[f], Tells(k, x)) = Count(inbox[f], Tells(k, x))
        BY <1>5, <2>3, <2>4, <2>7
      <4> HIDE DEF v, v2
      <4> QED BY <1>5, <2>3, <4>1, <4>2, <4>3
    <3> QED BY <3>1, <3>2
  <2>13. ASSUME NEW c \in Clients
         PROVE  /\ v2.logs[c] = v.logs[c] + IF c \in R THEN 1 ELSE 0
                /\ v2.way[c] = v.way[c] + IF c \in R THEN 1 ELSE 0
    <3>1. v2.logs[c] = v.logs[c] + IF c \in R THEN 1 ELSE 0
      BY <2>10 DEF Now, After, Track
    <3>2. /\ v.way[c] = Owed(waiting, c, k) + Count(pipe[home[c]], Acks(k, c)) + Count(inbox[f],
                Acks(k, c))
          /\ v2.way[c] = Owed(waiting', c, k) + Count(pipe'[home[c]], Acks(k, c)) +
                      Count(inbox'[f], Acks(k, c))
      BY <1>1 DEF Now, After, Track
    <3>3. /\ Count(pipe'[home[c]], Acks(k, c)) = Count(pipe[home[c]], Acks(k, c))
          /\ Count(inbox'[f], Acks(k, c)) = Count(inbox[f], Acks(k, c))
      <4>1. home[c] \in Servers /\ f \in Servers /\ m \notin Acks(k, c) /\ c0 \notin Acks(k, c)
        BY <1>5, <2>1, <2>7
      <4>2. Count(pipe'[home[c]], Acks(k, c)) = Count(pipe[home[c]], Acks(k, c)) + 0
        BY <2>5, <4>1
      <4>3. Count(inbox'[f], Acks(k, c)) = Count(inbox[f], Acks(k, c)) - 0
        BY <2>4, <4>1
      <4>4. Count(pipe[home[c]], Acks(k, c)) \in Nat /\ Count(inbox[f], Acks(k, c)) \in Nat
        BY <2>3, <4>1
      <4> QED BY <4>2, <4>3, <4>4
    <3>4. Owed(waiting', c, k) = Owed(waiting, c, k) + IF c \in R THEN 1 ELSE 0
      <4>1. Owed(waiting, c, k) \in {0, 1}
        BY DEF Owed
      <4> QED BY <2>9, <2>10, <4>1
    <3>5. /\ Count(pipe[home[c]], Acks(k, c)) \in Nat /\ Count(inbox[f], Acks(k, c)) \in Nat
          /\ Owed(waiting, c, k) \in {0, 1}
      BY <1>5, <2>1, <2>3 DEF Owed
    <3> HIDE DEF v, v2, R
    <3>6. v2.way[c] = v.way[c] + IF c \in R THEN 1 ELSE 0
      BY <3>2, <3>3, <3>4, <3>5
    <3> QED BY <3>1, <3>6 DEF v, v2
  <2>14. Arrives(v, v2, home, o, s, R, 1)
    <3> HIDE DEF R, v, v2
    <3>1. R \in SUBSET Clients /\ 1 \in {0, 1}
      BY <1>6
    <3> QED BY <1>4, <1>6, <2>8, <2>11, <2>12, <2>13, <3>1 DEF Arrives
  <2>15. Each(v2, home, o) /\ Whole(v2, home, On, o)
    <3> HIDE DEF R, v, v2
    <3>1. s \in Servers \ {o.from}
      BY <1>1 DEF f
    <3> QED BY <1>2, <1>4, <1>5, <2>1, <2>2, <2>14, <3>1, ArrivedOp
  <2>16. /\ v.telling[s] = 0 /\ HitAt(v2, home, s) = R
         /\ \A x \in Servers : x # s => HitAt(v2, home, x) = HitAt(v, home, x)
    <3> HIDE DEF R, v, v2
    <3>1. Arrived(v, v2, home, o, s, R, 1)
      BY <1>2, <1>5, <2>1, <2>2, <2>14, ArrivedEach
    <3> QED BY <3>1 DEF Arrived
  <2>17. ASSUME NEW t \in Servers
         PROVE  LET W == Wrong(k, t, Cardinality(HitAt(v2, home, t)))
                IN  Count(pipe'[t], W) + Count(inbox'[f], W) = 0
    <3> DEFINE W == Wrong(k, t, Cardinality(HitAt(v2, home, t)))
    <3>1. m \notin W
      <4>1. W \in SUBSET Tells(k, t)
        BY Kinds3
      <4> HIDE DEF W
      <4> QED BY <2>7, <4>1
    <3>2. t = s => c0 \notin W
      BY <2>6, <2>16 DEF Wrong
    <3>3. Count(pipe'[t], W) = Count(pipe[t], W) /\ Count(inbox'[f], W) = Count(inbox[f], W)
      <4> HIDE DEF W
      <4>1. ~(t = s /\ c0 \in W)
        BY <3>2
      <4>2. Count(pipe'[t], W) = Count(pipe[t], W) + 0
        BY <2>5, <4>1
      <4>3. Count(inbox'[f], W) = Count(inbox[f], W) - 0
        BY <1>5, <2>4, <3>1
      <4>4. Count(pipe[t], W) \in Nat /\ Count(inbox[f], W) \in Nat
        BY <1>5, <2>3
      <4> QED BY <4>2, <4>3, <4>4
    <3>4. Count(pipe[t], W) + Count(inbox[f], W) = 0
      <4>1. CASE t = s
        <5>1. Count(pipe[s], Tells(k, s)) + Count(inbox[f], Tells(k, s)) = 0
          BY <2>16 DEF Now, Track
        <5>2. Count(pipe[s], Tells(k, s)) = 0 /\ Count(inbox[f], Tells(k, s)) = 0
          BY <1>5, <2>3, <5>1
        <5>3. pipe[s] \in Seq(MessageType) /\ inbox[f] \in Seq(MessageType)
          BY <1>2, <1>5 DEF Lines
        <5>4. /\ \A j \in DOMAIN pipe[s] : pipe[s][j] \notin Tells(k, s)
              /\ \A j \in DOMAIN inbox[f] : inbox[f][j] \notin Tells(k, s)
          BY <5>2, <5>3, CountType
        <5>5. W \in SUBSET Tells(k, t)
          BY Kinds3
        <5> HIDE DEF W
        <5>6. /\ \A j \in DOMAIN pipe[s] : pipe[s][j] \notin W
              /\ \A j \in DOMAIN inbox[f] : inbox[f][j] \notin W
          BY <4>1, <5>4, <5>5
        <5>7. Count(pipe[s], W) = 0 /\ Count(inbox[f], W) = 0
          BY <5>3, <5>6, CountType
        <5> QED BY <4>1, <5>7
      <4>2. CASE t # s
        BY <2>2, <2>16, <4>2 DEF Told
      <4> QED BY <4>1, <4>2
    <3> QED BY <3>3, <3>4
  <2>18. Told(pipe', inbox', home', v2, k, f)
    <3> HIDE DEF v2
    <3> QED BY <1>1, <2>17 DEF Told
  <2>19. ops'[k] = o
    BY <1>1 DEF o, k
  <2> HIDE DEF v, v2
  <2> QED BY <1>1, <1>2, <2>15, <2>18, <2>19 DEF AckAfter, v2, f
<1>11. \A i \in DOMAIN ops' : ops'[i].kind = "ack" => AckAfter(i)
  BY <1>1, <1>9, <1>10
<1> QED BY <1>8, <1>11, AckingNext

\* clientCountCallback, and the ack, before the check of completeness.
LEMMA CountedChanged ==
  ASSUME NEW o \in OpType, NEW n \in Nat, o.kind = "ack", OpInv(o)
  PROVE  AckChanged(Counted(o, n)) /\ ClientCount(o, n) = CheckCompleteness(Counted(o, n))
<1> DEFINE c == Counted(o, n)
<1>1. ClientCount(o, n) = CheckCompleteness(c)
  BY DEF ClientCount, Counted
<1>2. /\ c \in OpType /\ Same(o, c) /\ c.settled = o.settled /\ c.expected = o.expected
      /\ c.current = o.current + 1 /\ c.responses = o.responses
      /\ (c.pending <=> o.pending) /\ (c.timedOut <=> o.timedOut) /\ (c.timer <=> o.timer)
  BY CountedOp
<1> HIDE DEF c
<1>3. AckInv(o)
  BY DEF OpInv
<1>4. o.settled = <<"ok">> => c.current > c.expected
  BY <1>2, <1>3 DEF AckInv, OpType
<1>5. c.current > c.expected => c.current # c.expected /\ c.current >= c.expected
  BY <1>2 DEF OpType
<1>6. AckChanged(c)
  BY <1>2, <1>3, <1>4, <1>5 DEF AckChanged, AckInv, Same, Keeps
<1> QED BY <1>1, <1>6 DEF c

LEMMA AckedChanged ==
  ASSUME NEW o \in OpType, NEW x \in Process, o.kind = "ack", OpInv(o)
  PROVE  AckChanged(Acked(o, x)) /\ ClientAck(o, x) = CheckCompleteness(Acked(o, x))
<1> DEFINE c == Acked(o, x)
<1>1. ClientAck(o, x) = CheckCompleteness(c)
  BY DEF ClientAck, Acked
<1>2. /\ c \in OpType /\ Same(o, c) /\ c.settled = o.settled /\ c.expected = o.expected
      /\ c.current = o.current /\ c.clients = o.clients /\ c.responses = Append(o.responses, x)
      /\ (c.pending <=> o.pending) /\ (c.timedOut <=> o.timedOut) /\ (c.timer <=> o.timer)
  BY AckedOp
<1> HIDE DEF c
<1>3. AckInv(o)
  BY DEF OpInv
<1>4. Len(c.responses) = Len(o.responses) + 1 /\ Len(o.responses) \in Nat
  BY <1>2, Push DEF OpType
<1>5. o.settled = <<"ok">> /\ o.current = o.expected => Len(c.responses) > c.clients
  BY <1>2, <1>3, <1>4 DEF AckInv, OpType
<1>6. AckChanged(c)
  BY <1>2, <1>3, <1>5 DEF AckChanged, AckInv, Same, Keeps
<1> QED BY <1>1, <1>6 DEF c

\* They are, with the check.
LEMMA HeardOp ==
  ASSUME NEW v \in TrackType, NEW v2 \in TrackType, NEW h \in Homes, NEW on \in SUBSET Servers,
         NEW o \in OpType, o.kind = "ack", OpInv(o), Each(v, h, o), Whole(v, h, on, o),
         o.stage # "asked" => v.asked = 0, NEW t, Hears(v, v2, o, t),
         NEW n, n = Cardinality(HitAt(v, h, t))
  PROVE  Each(v2, h, ClientCount(o, n)) /\ Whole(v2, h, on, ClientCount(o, n))
<1> DEFINE c == Counted(o, n)
<1>1. n \in Nat
  BY FiniteClients, FS_CardinalityType
<1>2. c \in OpType /\ Same(o, c)
  BY <1>1, CountedOp
<1>3. AckChanged(c) /\ ClientCount(o, n) = CheckCompleteness(c)
  BY <1>1, CountedChanged
<1>4. c = Counted(o, Cardinality(HitAt(v, h, t)))
  OBVIOUS
<1> HIDE DEF c
<1>5. Each(v2, h, c) /\ Whole(v2, h, on, c)
  BY <1>2, <1>4, ToldOp
<1>6. c.stage # "asked" => v2.asked = 0
  BY <1>2 DEF Same, Hears
<1> QED BY <1>2, <1>3, <1>5, <1>6, CheckedAck

LEMMA ReturnedOp ==
  ASSUME NEW v \in TrackType, NEW v2 \in TrackType, NEW h \in Homes, NEW on \in SUBSET Servers,
         NEW o \in OpType, o.kind = "ack", OpInv(o), Each(v, h, o), Whole(v, h, on, o),
         o.stage # "asked" => v.asked = 0, NEW x, Returns(v, v2, x)
  PROVE  Each(v2, h, ClientAck(o, x)) /\ Whole(v2, h, on, ClientAck(o, x))
<1> DEFINE c == Acked(o, x)
<1>1. x \in Process
  BY DEF Returns, Process
<1>2. c \in OpType /\ Same(o, c)
  BY <1>1, AckedOp
<1>3. AckChanged(c) /\ ClientAck(o, x) = CheckCompleteness(c)
  BY <1>1, AckedChanged
<1>4. c = Acked(o, x)
  OBVIOUS
<1> HIDE DEF c
<1>5. Each(v2, h, c) /\ Whole(v2, h, on, c)
  BY <1>2, <1>4, GivenOp
<1>6. c.stage # "asked" => v2.asked = 0
  BY <1>2 DEF Same, Returns
<1> QED BY <1>2, <1>3, <1>5, <1>6, CheckedAck

LEMMA HomeOp ==
  ASSUME NEW v \in TrackType, NEW v2 \in TrackType, NEW h \in Homes, NEW on \in SUBSET Servers,
         NEW o \in OpType, o.kind = "ack", OpInv(o), Each(v, h, o), Whole(v, h, on, o),
         o.stage # "asked" => v.asked = 0, NEW R, Arrives(v, v2, h, o, o.from, R, 0),
         NEW n, n = Cardinality(R)
  PROVE  Each(v2, h, ClientCount(o, n)) /\ Whole(v2, h, on, ClientCount(o, n))
<1> DEFINE c == Counted(o, n)
<1>1. n \in Nat
  BY ClusterAssumption, FS_Subset, FS_CardinalityType DEF Arrives
<1>2. c \in OpType /\ Same(o, c)
  BY <1>1, CountedOp
<1>3. AckChanged(c) /\ ClientCount(o, n) = CheckCompleteness(c)
  BY <1>1, CountedChanged
<1>4. c = Counted(o, Cardinality(R))
  OBVIOUS
<1> HIDE DEF c
<1>5. Each(v2, h, c) /\ Whole(v2, h, on, c)
  BY <1>2, <1>4, ArrivedHome
<1>6. c.stage # "asked" => v2.asked = 0
  BY <1>2 DEF Same, Arrives
<1> QED BY <1>2, <1>3, <1>5, <1>6, CheckedAck

LEMMA AckReceiveResponse ==
  ASSUME IInv, IInv', AsksLast, Acking, NEW s \in Servers, ReceiveResponse(s)
  PROVE  AsksLast' /\ Acking'
<1> DEFINE m == Head(inbox[s])
           k == m.op
           o == ops[k]
           p == Responded(o, m)
<1>1. /\ inbox[s] # <<>> /\ inbox' = Taken(inbox, s) /\ m.type # "request"
      /\ UNCHANGED <<sub, pipe, delayed, home, waiting, log>> /\ ops' = [ops EXCEPT ![k] = p]
  BY DEF ReceiveResponse, Incoming, Read, Taken, sockets, fixed, Responded
<1>2. pipe \in Lines /\ inbox \in Lines /\ home \in Homes /\ On' = On /\ On \in SUBSET Servers
  BY <1>1, AckState DEF On
<1>3. m \in MessageType /\ InboxMessage(ops, home, s, m)
  BY <1>1, UnderWay, ReadMessage
<1>4. /\ k \in DOMAIN ops /\ o.from = s
      /\ \/ m.type = "count" /\ o.kind = "ack" /\ m.by \in Servers \ {s} /\ ~o.local
         \/ m.type = "answer" /\ Asks(o)
         \/ m.type = "ack" /\ o.kind = "ack" /\ m.by \in Clients /\ home[m.by] # s
  BY <1>1, <1>3 DEF InboxMessage
<1>5. o \in OpType /\ OpInv(o) /\ (o.kind = "ack" => AckInv(o) /\ AckNow(k))
  BY <1>4, State, AckState DEF Acking
<1>6. p \in OpType /\ Same(o, p)
  BY <1>1, <1>3, <1>5, RespondedOp
<1>7. /\ \A x \in Servers : \A V : Count(pipe[x], V) \in Nat
      /\ \A x \in Servers : \A V : Count(inbox[x], V) \in Nat
  BY <1>2, LineCount
<1>8. \A x \in Servers : \A V : Count(inbox'[x], V) = Count(inbox[x], V) - IF x = s /\
      m \in V THEN 1 ELSE 0
  BY <1>1, <1>2, TakenCount
<1>9. ASSUME NEW i \in DOMAIN ops, i # k PROVE Unmoved(i, ops[i].from)
  <2>1. m \notin About(i)
    BY <1>9 DEF About
  <2>2. Apart(inbox', inbox, About(i))
    BY <1>1, <1>2, <2>1, ApartTaken
  <2> QED BY <1>1, <2>2, ApartSame, UnmovedBy
<1>10. AsksLast'
  <2>1. Extends(ops, ops')
    BY <1>1, <1>4, <1>6, OneStill DEF Same
  <2> QED BY <1>1, <2>1, LastLess
<1>11. k \in DOMAIN ops' /\ ops'[k] = p /\ Keeps(o, p)
  BY <1>1, <1>4, <1>6, State DEF Same
<1>12. ASSUME o.kind = "ack" PROVE AckAfter(k)
  <2> DEFINE v == Now(k, s)
             v2 == After(k, s)
  <2>1. /\ v \in TrackType /\ v2 \in TrackType /\ \A c \in Clients : home[c] \in Servers
        /\ Each(v, home, o) /\ Whole(v, home, On, o) /\ Told(pipe, inbox, home, v, k, s)
    BY <1>2, <1>4, <1>5, <1>12, Tracks DEF Homes, AckNow
  <2>2. o.stage # "asked" => v.asked = 0
    BY <1>4, <1>12, NothingAsked
  <2> HIDE DEF m, o, p
  <2>3. \A t : /\ m \notin Requests(k)
               /\ m \in Tells(k, t) <=> m.type = "count" /\ t = m.by
               /\ m \in Acks(k, t) <=> m.type = "ack" /\ t = m.by
    BY <1>1, <1>3, MessageIn
  <2> HIDE DEF k
  <2>4. v2.asked = v.asked /\ v2.logs = v.logs
    BY <1>1 DEF Now, After, Track
  <2>5. ASSUME NEW x \in Servers
        PROVE  /\ v2.at[x] = v.at[x]
               /\ v2.telling[x] = v.telling[x] - IF m.type = "count" /\ x = m.by THEN 1 ELSE 0
    <3>1. Count(inbox'[x], Requests(k)) = Count(inbox[x], Requests(k))
      BY <1>7, <1>8, <2>3
    <3>2. v2.at[x] = v.at[x]
      BY <1>1, <3>1 DEF Now, After, Track
    <3>3. /\ v.telling[x] = Count(pipe[x], Tells(k, x)) + Count(inbox[s], Tells(k, x))
          /\ v2.telling[x] = Count(pipe[x], Tells(k, x)) + Count(inbox'[s], Tells(k, x))
      BY <1>1 DEF Now, After, Track
    <3>4. Count(inbox'[s], Tells(k, x)) = Count(inbox[s], Tells(k, x)) - IF m.type = "count" /\
          x = m.by THEN 1 ELSE 0
      BY <1>8, <2>3
    <3>5. Count(pipe[x], Tells(k, x)) \in Nat /\ Count(inbox[s], Tells(k, x)) \in Nat
      BY <1>7
    <3> HIDE DEF v, v2
    <3>6. v2.telling[x] = v.telling[x] - IF m.type = "count" /\ x = m.by THEN 1 ELSE 0
      BY <3>3, <3>4, <3>5
    <3> QED BY <3>2, <3>6 DEF v, v2
  <2>6. ASSUME NEW c \in Clients
        PROVE  v2.way[c] = v.way[c] - IF m.type = "ack" /\ c = m.by THEN 1 ELSE 0
    <3>1. /\ v.way[c] = Owed(waiting, c, k) + Count(pipe[home[c]], Acks(k, c)) + Count(inbox[s],
                Acks(k, c))
          /\ v2.way[c] = Owed(waiting, c, k) + Count(pipe[home[c]], Acks(k, c)) +
                      Count(inbox'[s], Acks(k, c))
      BY <1>1 DEF Now, After, Track
    <3>2. Count(inbox'[s], Acks(k, c)) = Count(inbox[s], Acks(k, c)) - IF m.type = "ack" /\ c =
          m.by THEN 1 ELSE 0
      BY <1>8, <2>3
    <3>3. Count(pipe[home[c]], Acks(k, c)) \in Nat /\ Count(inbox[s], Acks(k, c)) \in Nat /\
          Owed(waiting, c, k) \in Nat
      BY <1>7, <2>1 DEF Owed
    <3> HIDE DEF v, v2
    <3>4. v2.way[c] = v.way[c] - IF m.type = "ack" /\ c = m.by THEN 1 ELSE 0
      BY <3>1, <3>2, <3>3
    <3> QED BY <3>4 DEF v, v2
  <2>7. \A t \in Servers : \A V : /\ Count(inbox'[s], V) <= Count(inbox[s], V)
                                  /\ Count(inbox[s], V) \in Nat /\ Count(inbox'[s], V) \in Nat
    <3>1. \A V : Count(inbox'[s], V) \in Nat
      BY AckStateNext, LineCount
    <3> QED BY <1>7, <1>8, <3>1
  <2>8. Told(pipe', inbox', home', v2, k, s)
    <3>1. \A t : HitAt(v2, home, t) = HitAt(v, home, t)
      BY <2>4 DEF HitAt, Hit
    <3>2. ASSUME NEW t \in Servers
          PROVE  LET W == Wrong(k, t, Cardinality(HitAt(v, home, t)))
                 IN  Count(pipe[t], W) + Count(inbox'[s], W) = 0
      <4> DEFINE W == Wrong(k, t, Cardinality(HitAt(v, home, t)))
      <4>1. Count(pipe[t], W) + Count(inbox[s], W) = 0
        BY <2>1 DEF Told
      <4> HIDE DEF W
      <4>2. /\ Count(inbox'[s], W) <= Count(inbox[s], W) /\ Count(pipe[t], W) \in Nat
            /\ Count(inbox[s], W) \in Nat /\ Count(inbox'[s], W) \in Nat
        BY <1>7, <2>7
      <4>3. Count(pipe[t], W) + Count(inbox'[s], W) = 0
        BY <4>1, <4>2
      <4> QED BY <4>3 DEF W
    <3> HIDE DEF v, v2
    <3> QED BY <1>1, <3>1, <3>2 DEF Told
  <2>9. CASE m.type = "count" /\ o.pending
    <3>1. p = ClientCount(o, m.n)
      BY <2>9 DEF Responded, p
    <3>2. v.telling[m.by] # 0
      <4>1. m.by \in Servers
        BY <1>4, <2>9
      <4>2. v2.telling[m.by] = v.telling[m.by] - 1
        BY <2>5, <2>9, <4>1
      <4> HIDE DEF v, v2
      <4>3. v2.telling[m.by] \in Nat /\ v.telling[m.by] \in Nat
        BY <1>4, <1>5, <2>1, <4>1, TrackFields
      <4> QED BY <4>2, <4>3
    <3>3. m.n = Cardinality(HitAt(v, home, m.by))
      <4> DEFINE W == Wrong(k, m.by, Cardinality(HitAt(v, home, m.by)))
      <4>1. m.by \in Servers
        BY <1>4, <2>9
      <4>2. Count(pipe[m.by], W) + Count(inbox[s], W) = 0
        BY <2>1, <4>1 DEF Told
      <4>3. m \in Tells(k, m.by)
        BY <2>3, <2>9
      <4>4. ASSUME m \in W PROVE FALSE
        <5> HIDE DEF W
        <5>1. Count(inbox'[s], W) = Count(inbox[s], W) - 1
          BY <1>8, <4>4
        <5>2. Count(pipe[m.by], W) \in Nat /\ Count(inbox[s], W) \in Nat /\ Count(inbox'[s], W) \in Nat
          BY <1>7, <2>7, <4>1
        <5> QED BY <4>2, <5>1, <5>2
      <4> HIDE DEF v
      <4> QED BY <4>3, <4>4 DEF Wrong
    <3>4. Hears(v, v2, o, m.by)
      <4> HIDE DEF v, v2
      <4>1. \A x \in Servers : /\ v2.at[x] = v.at[x]
                               /\ v2.telling[x] = v.telling[x] - IF x = m.by THEN 1 ELSE 0
        BY <2>5, <2>9
      <4>2. \A c \in Clients : v2.logs[c] = v.logs[c] /\ v2.way[c] = v.way[c]
        <5> SUFFICES ASSUME NEW c \in Clients PROVE v2.logs[c] = v.logs[c] /\ v2.way[c] = v.way[c]
          OBVIOUS
        <5>1. v.way[c] \in Nat
          BY <1>4, <1>5, <2>1, TrackFields
        <5>2. v2.way[c] = v.way[c] - 0
          BY <2>6, <2>9
        <5> QED BY <2>4, <5>1, <5>2
      <4>3. m.by \in Servers /\ m.by # o.from /\ ~o.local
        BY <1>4, <2>9
      <4> QED BY <2>4, <3>2, <4>1, <4>2, <4>3 DEF Hears
    <3> HIDE DEF v, v2
    <3>5. Each(v2, home, p) /\ Whole(v2, home, On, p)
      BY <1>2, <1>5, <1>12, <2>1, <2>2, <3>1, <3>3, <3>4, HeardOp
    <3> QED BY <1>1, <1>2, <1>4, <1>11, <2>8, <3>5 DEF AckAfter, v2, Keeps
  <2>10. CASE m.type = "ack" /\ o.pending
    <3>1. p = ClientAck(o, m.by)
      BY <2>10 DEF Responded, p
    <3>2. m.by \in Clients /\ v2.way[m.by] = v.way[m.by] - 1
      BY <1>4, <2>6, <2>10
    <3> HIDE DEF v, v2
    <3>3. v.way[m.by] # 0
      <4>1. v2.way[m.by] \in Nat /\ v.way[m.by] \in Nat
        BY <1>4, <1>5, <2>1, <3>2, TrackFields DEF OpType
      <4> QED BY <3>2, <4>1
    <3>4. Returns(v, v2, m.by)
      <4>1. \A x \in Servers : v2.at[x] = v.at[x] /\ v2.telling[x] = v.telling[x]
        <5> SUFFICES ASSUME NEW x \in Servers PROVE v2.at[x] = v.at[x] /\ v2.telling[x] = v.telling[x]
          OBVIOUS
        <5>1. v.telling[x] \in Nat
          BY <1>4, <1>5, <2>1, TrackFields
        <5>2. v2.at[x] = v.at[x] /\ v2.telling[x] = v.telling[x] - 0
          BY <2>5, <2>10
        <5> QED BY <5>1, <5>2
      <4>2. \A c \in Clients : /\ v2.logs[c] = v.logs[c]
                               /\ v2.way[c] = v.way[c] - IF c = m.by THEN 1 ELSE 0
        BY <2>4, <2>6, <2>10
      <4> QED BY <2>4, <3>2, <3>3, <4>1, <4>2 DEF Returns
    <3>5. Each(v2, home, p) /\ Whole(v2, home, On, p)
      BY <1>2, <1>5, <1>12, <2>1, <2>2, <3>1, <3>4, ReturnedOp
    <3> QED BY <1>1, <1>2, <1>4, <1>11, <2>8, <3>5 DEF AckAfter, v2, Keeps
  <2>11. CASE ~o.pending
    <3>1. p = o /\ m.type \in {"count", "ack"}
      BY <1>4, <1>12, <2>11 DEF Responded, p, Asks
    <3>2. ASSUME o.settled = <<>> PROVE FALSE
      <4>1. o.local
        BY <1>5, <1>12, <2>11, <3>2 DEF AckInv
      <4>2. m.type = "ack" /\ m.by \in Clients /\ home[m.by] # s
        BY <1>4, <3>1, <4>1
      <4>3. v2.way[m.by] = v.way[m.by] - 1
        BY <2>6, <4>2
      <4> HIDE DEF v, v2
      <4>4. v2.way[m.by] \in Nat /\ v.way[m.by] \in Nat /\ v.logs[m.by] \in {0, 1} /\ Given(o,
            m.by) \in Nat
        <5>1. v2.way[m.by] \in Nat /\ v.way[m.by] \in Nat
          BY <1>4, <1>5, <2>1, <4>2, TrackFields DEF OpType
        <5>2. v.logs[m.by] \in {0, 1}
          BY <1>2, <1>5, <2>1, <4>2, Hits
        <5> QED BY <1>5, <5>1, <5>2, GivenType
      <4>5. /\ v.way[m.by] + Given(o, m.by) <= v.logs[m.by]
            /\ o.local /\ v.logs[m.by] = 1 => home[m.by] = s
        BY <1>4, <2>1, <4>2 DEF Each
      <4>6. v.logs[m.by] = 1
        BY <4>3, <4>4, <4>5
      <4> QED BY <4>1, <4>2, <4>5, <4>6
    <3> HIDE DEF v, v2
    <3>3. Fades(v, v2, s, home, On', ops'[k].cluster # {} /\ ops'[k].settled = <<>>)
      <4>1. ops'[k].settled # <<>>
        BY <1>11, <3>1, <3>2
      <4>2. \A t \in Servers : Coming(v2, s, t) <= Coming(v, s, t) /\ v2.telling[t] <= v.telling[t]
        <5> SUFFICES ASSUME NEW t \in Servers
                     PROVE  Coming(v2, s, t) <= Coming(v, s, t) /\ v2.telling[t] <= v.telling[t]
          OBVIOUS
        <5>1. Coming(v2, s, t) = Coming(v, s, t)
          BY <2>4, <2>5 DEF Coming
        <5>2. Coming(v, s, t) \in Nat /\ v.telling[t] \in Nat
          BY <1>4, <1>5, <2>1, TrackFields
        <5> QED BY <2>5, <5>1, <5>2
      <4>3. \A c \in Clients : v2.way[c] <= v.way[c] /\ v.asked \in Nat
        <5> SUFFICES ASSUME NEW c \in Clients PROVE v2.way[c] <= v.way[c] /\ v.asked \in Nat
          OBVIOUS
        <5>1. v.way[c] \in Nat /\ v.asked \in Nat
          BY <1>4, <1>5, <2>1, TrackFields
        <5> QED BY <2>6, <5>1
      <4>4. v2.asked <= v.asked
        <5>1. v.asked \in Nat
          BY <1>4, <1>5, <2>1, TrackFields
        <5> QED BY <2>4, <5>1
      <4> QED BY <2>4, <4>1, <4>2, <4>3, <4>4 DEF Fades
    <3>4. \A t \in Servers : \A V \in SUBSET Tells(k, t) :
            Count(pipe'[t], V) + Count(inbox'[s], V) <= Count(pipe[t], V) + Count(inbox[s], V)
      <4> SUFFICES ASSUME NEW t \in Servers, NEW V
                   PROVE  Count(pipe'[t], V) + Count(inbox'[s], V) <= Count(pipe[t], V) +
                         Count(inbox[s], V)
        OBVIOUS
      <4>1. Count(pipe[t], V) \in Nat /\ Count(inbox[s], V) \in Nat /\ Count(inbox'[s], V) \in Nat
            /\ Count(inbox'[s], V) <= Count(inbox[s], V)
        BY <1>7, <2>7
      <4> QED BY <1>1, <4>1
    <3>5. AckChange(On, On', ops[k], ops'[k])
      BY <1>2, <1>11, <3>1, SelfChange DEF o
    <3>6. s = ops[k].from /\ ops[k].kind = "ack" /\ Fades(Now(k, s), After(k, s), s, home, On',
          ops'[k].cluster # {} /\ ops'[k].settled = <<>>)
      BY <1>4, <1>12, <3>3 DEF v, v2, o
    <3> QED BY <1>1, <1>4, <1>11, <3>4, <3>5, <3>6, AckLess
  <2> QED BY <1>4, <1>12, <2>9, <2>10, <2>11 DEF Asks
<1> QED BY <1>1, <1>2, <1>4, <1>9, <1>10, <1>11, <1>12, AckOne

LEMMA AckAnswer ==
  ASSUME IInv, IInv', AsksLast, Acking, NEW x \in Process, NEW k \in DOMAIN ops, Answer(x, k)
  PROVE  AsksLast' /\ Acking'
<1> DEFINE o == ops[k]
           s == IF x \in Clients THEN home[x] ELSE x
           m == Message(IF o.kind = "ack" THEN "ack" ELSE "answer", k, x, 0)
           f == o.from
<1>1. /\ <<x, k>> \in waiting /\ waiting' = waiting \ {<<x, k>>}
      /\ UNCHANGED <<sub, inbox, delayed, home, log>>
      /\ s = o.from => ops' = [ops EXCEPT ![k] = ClientAck(o, x)] /\ UNCHANGED pipe
      /\ s # o.from => UNCHANGED ops /\ pipe' = Sent(pipe, s, <<m>>)
  BY DEF Answer, Published, Sent, fixed
<1>2. /\ pipe \in Lines /\ inbox \in Lines /\ On' = On /\ On \in SUBSET Servers /\ home \in Homes
      /\ o \in OpType /\ OpInv(o) /\ k \in Nat /\ f \in Servers /\ (o.kind = "ack" => AckNow(k))
  <2>1. o \in OpType /\ OpInv(o) /\ k \in Nat
    BY State
  <2>2. f \in Servers /\ (o.kind = "ack" => AckNow(k))
    BY AckState DEF Acking
  <2> QED BY <1>1, <2>1, <2>2, AckState DEF On
<1>3. Waits(ops, x, k)
  BY <1>1, <1>2 DEF IInv, References, Known
<1>4. /\ o.kind = "ack" => x \in Clients /\ s = home[x]
      /\ o.kind # "ack" => x \in Servers /\ s = x /\ s # o.from
  BY <1>3, ClusterAssumption DEF Waits
<1>5. s \in Servers
  BY <1>2, <1>4 DEF Homes
<1> HIDE DEF s
<1>6. m \in MessageType /\ m.op = k /\ m.by = x /\ m.type = IF o.kind = "ack" THEN "ack" ELSE "answer"
  BY <1>2 DEF Message, MessageType
<1> HIDE DEF m
<1>7. ASSUME NEW i \in DOMAIN ops, ops[i].kind = "ack", i # k \/ o.kind # "ack" PROVE Unmoved(i,
      ops[i].from)
  <2>1. m \notin About(i)
    BY <1>6, <1>7 DEF About
  <2>2. Apart(pipe', pipe, About(i))
    <3>1. CASE s = o.from
      BY <1>1, <3>1, ApartSame
    <3>2. CASE s # o.from
      <4>1. <<m>> \in Seq(MessageType) /\ \A j \in DOMAIN <<m>> : <<m>>[j] \notin About(i)
        BY <1>6, <2>1
      <4> QED BY <1>1, <1>2, <1>5, <3>2, <4>1, ApartSent
    <3> QED BY <3>1, <3>2
  <2>3. \A c \in Clients : Owed(waiting', c, i) = Owed(waiting, c, i)
    <3> SUFFICES ASSUME NEW c \in Clients PROVE Owed(waiting', c, i) = Owed(waiting, c, i)
      OBVIOUS
    <3>1. <<c, i>> # <<x, k>>
      BY <1>4, <1>7, ClusterAssumption
    <3> QED BY <1>1, <3>1 DEF Owed
  <2> QED BY <1>1, <2>2, <2>3, ApartSame, UnmovedBy
<1> DEFINE v == Now(k, f)
           v2 == After(k, f)
<1>8. /\ \A y \in Servers : \A V : Count(pipe[y], V) \in Nat
      /\ \A y \in Servers : \A V : Count(inbox[y], V) \in Nat
  BY <1>2, LineCount
<1>9. CASE s = f
  <2> DEFINE p == ClientAck(o, x)
  <2>1. o.kind = "ack" /\ x \in Clients /\ home[x] = f
    BY <1>4, <1>9
  <2>2. p \in OpType /\ Same(o, p) /\ ops' = [ops EXCEPT ![k] = p] /\ UNCHANGED pipe
    BY <1>1, <1>2, <1>9, <2>1, ClientAckOp
  <2>3. /\ v \in TrackType /\ v2 \in TrackType /\ \A c \in Clients : home[c] \in Servers
        /\ Each(v, home, o) /\ Whole(v, home, On, o) /\ Told(pipe, inbox, home, v, k, f)
    BY <1>2, <2>1, Tracks DEF Homes, AckNow
  <2>4. o.stage # "asked" => v.asked = 0
    BY <2>1, NothingAsked
  <2>5. v2.asked = v.asked /\ v2.at = v.at /\ v2.telling = v.telling /\ v2.logs = v.logs
    BY <1>1, <2>2 DEF Now, After, Track
  <2>6. ASSUME NEW c \in Clients
        PROVE  /\ v2.way[c] = v.way[c] - IF c = x THEN 1 ELSE 0
               /\ c = x => v.way[c] # 0
    <3>1. /\ v.way[c] = Owed(waiting, c, k) + Count(pipe[home[c]], Acks(k, c)) + Count(inbox[f],
                Acks(k, c))
          /\ v2.way[c] = Owed(waiting', c, k) + Count(pipe[home[c]], Acks(k, c)) +
                      Count(inbox[f], Acks(k, c))
      BY <1>1, <2>2 DEF Now, After, Track
    <3>2. /\ Owed(waiting', c, k) = Owed(waiting, c, k) - IF c = x THEN 1 ELSE 0
          /\ c = x => Owed(waiting, c, k) = 1
      <4>1. CASE c = x
        BY <1>1, <4>1 DEF Owed
      <4>2. CASE c # x
        BY <1>1, <4>2 DEF Owed
      <4> QED BY <4>1, <4>2
    <3>3. /\ Count(pipe[home[c]], Acks(k, c)) \in Nat /\ Count(inbox[f], Acks(k, c)) \in Nat
          /\ Owed(waiting, c, k) \in Nat
      BY <1>2, <1>8, <2>3 DEF Owed
    <3> HIDE DEF v, v2, f
    <3> QED BY <3>1, <3>2, <3>3
  <2>7. Told(pipe', inbox', home', v2, k, f)
    <3>1. \A t : HitAt(v2, home, t) = HitAt(v, home, t)
      BY <2>5 DEF HitAt, Hit
    <3> HIDE DEF v, v2
    <3> QED BY <1>1, <2>2, <2>3, <3>1 DEF Told
  <2>8. Returns(v, v2, x)
    <3> HIDE DEF v, v2
    <3> QED BY <2>1, <2>5, <2>6 DEF Returns
  <2> HIDE DEF v, v2, p
  <2>9. Each(v2, home, p) /\ Whole(v2, home, On, p)
    BY <1>2, <2>1, <2>3, <2>4, <2>8, ReturnedOp DEF p
  <2>10. k \in DOMAIN ops' /\ ops'[k] = p /\ Keeps(o, p)
    BY <2>2, State DEF Same
  <2>11. AckAfter(k)
    BY <1>1, <1>2, <2>7, <2>9, <2>10 DEF AckAfter, v2, Keeps
  <2>12. AsksLast'
    <3>1. Extends(ops, ops')
      BY <2>2, OneStill DEF Same
    <3> QED BY <2>2, <3>1, LastLess
  <2> QED BY <1>2, <1>7, <2>2, <2>10, <2>11, <2>12, AckOne
<1>10. CASE s # f
  <2>1. ops' = ops /\ pipe' = Sent(pipe, s, <<m>>) /\ <<m>> \in Seq(MessageType)
    BY <1>1, <1>6, <1>10
  <2>2. Extends(ops, ops') /\ AsksLast'
    <3>1. Extends(ops, ops')
      BY <2>1, Refl
    <3>2. Preceded(ops', <<m>>)
      BY <1>6 DEF Preceded
    <3> QED BY <1>5, <2>1, <3>1, <3>2, LastSent
  <2>3. ASSUME o.kind = "ack" PROVE AckAfter(k)
    <3>1. /\ x \in Clients /\ s = home[x] /\ m.type = "ack"
      BY <1>4, <1>6, <2>3
    <3>2. /\ \A c \in Clients : home[c] \in Servers
          /\ Each(v, home, o) /\ Whole(v, home, On, o) /\ Told(pipe, inbox, home, v, k, f)
      BY <1>2, <2>3 DEF Homes, AckNow
    <3>3. \A y \in Servers : \A V : Count(pipe'[y], V) = Count(pipe[y], V) + IF y = s /\
          m \in V THEN 1 ELSE 0
      <4> DEFINE q == Sent(pipe, s, <<m>>)
      <4>1. \A V : Count(<<m>>, V) = IF m \in V THEN 1 ELSE 0
        BY <1>6, OneCount
      <4>2. \A y \in Servers : \A V : Count(q[y], V) = Count(pipe[y], V) + IF y =
            s THEN Count(<<m>>, V) ELSE 0
        BY <1>2, <1>5, <2>1, SentCount
      <4>3. pipe' = q
        BY <2>1
      <4> HIDE DEF q
      <4> QED BY <1>8, <4>1, <4>2, <4>3
    <3>4. \A t : /\ m \notin Requests(k) /\ m \notin Tells(k, t)
                 /\ (m \in Acks(k, t) <=> t = x)
      BY <1>6, <3>1, MessageIn
    <3>5. ASSUME NEW y \in Servers, NEW V, m \notin V PROVE Count(pipe'[y], V) = Count(pipe[y], V)
      <4>1. Count(pipe'[y], V) = Count(pipe[y], V) + 0
        BY <3>3, <3>5
      <4> QED BY <1>8, <4>1
    <3>6. \A c \in Clients :
            Owed(waiting', c, k) + Count(pipe'[home[c]], Acks(k, c)) + Count(inbox[f], Acks(k, c)) =
            Owed(waiting, c, k) + Count(pipe[home[c]], Acks(k, c)) + Count(inbox[f], Acks(k, c))
      <4> SUFFICES ASSUME NEW c \in Clients
                   PROVE  Owed(waiting', c, k) + Count(pipe'[home[c]], Acks(k, c)) +
                         Count(inbox[f], Acks(k, c)) =
                          Owed(waiting, c, k) + Count(pipe[home[c]], Acks(k, c)) +
                                Count(inbox[f], Acks(k, c))
        OBVIOUS
      <4>1. /\ Count(pipe[home[c]], Acks(k, c)) \in Nat /\ Count(inbox[f], Acks(k, c)) \in Nat
            /\ home[c] \in Servers
        BY <1>2, <1>8, <3>2
      <4>2. CASE c = x
        <5>1. Owed(waiting, c, k) = 1 /\ Owed(waiting', c, k) = 0
          BY <1>1, <4>2 DEF Owed
        <5>2. Count(pipe'[home[c]], Acks(k, c)) = Count(pipe[home[c]], Acks(k, c)) + 1
          BY <3>1, <3>3, <3>4, <4>1, <4>2
        <5> HIDE DEF f
        <5> QED BY <4>1, <5>1, <5>2
      <4>3. CASE c # x
        <5>1. Owed(waiting', c, k) = Owed(waiting, c, k)
          BY <1>1, <4>3 DEF Owed
        <5>2. Count(pipe'[home[c]], Acks(k, c)) = Count(pipe[home[c]], Acks(k, c))
          BY <3>4, <3>5, <4>1, <4>3
        <5> QED BY <5>1, <5>2
      <4> QED BY <4>2, <4>3
    <3>7. v2 = v
      <4>1. Count(pipe'[f], Requests(k)) = Count(pipe[f], Requests(k))
        BY <1>2, <3>4, <3>5
      <4>2. \A t \in Servers : Count(pipe'[t], Tells(k, t)) = Count(pipe[t], Tells(k, t))
        BY <3>4, <3>5
      <4> HIDE DEF f
      <4> QED BY <1>1, <3>6, <4>1, <4>2 DEF Now, After, Track
    <3>8. Told(pipe', inbox', home', v2, k, f)
      <4>1. \A t \in Servers : \A n : Count(pipe'[t], Wrong(k, t, n)) = Count(pipe[t], Wrong(k, t, n))
        BY <3>4, <3>5 DEF Wrong
      <4> HIDE DEF v, v2
      <4> QED BY <1>1, <3>2, <3>7, <4>1 DEF Told
    <3>9. ops'[k] = o
      BY <2>1
    <3> HIDE DEF v
    <3> QED BY <1>1, <1>2, <3>2, <3>7, <3>8, <3>9 DEF AckAfter, v2, f
  <2>4. \A i \in DOMAIN ops' : ops'[i].kind = "ack" => AckAfter(i)
    <3>1. ASSUME NEW i \in DOMAIN ops, ops[i].kind = "ack", i # k PROVE AckAfter(i)
      BY <1>2, <1>7, <2>1, <3>1, AckOthers
    <3> QED BY <2>1, <2>3, <3>1
  <2> QED BY <2>2, <2>4, AckingNext
<1> QED BY <1>9, <1>10

LEMMA AckRunDelayed ==
  ASSUME IInv, IInv', AsksLast, Acking, NEW s \in Servers, RunDelayed(s)
  PROVE  AsksLast' /\ Acking'
<1> DEFINE k == Head(delayed[s])
           o == ops[k]
           R == Reached(s, o)
           n == Cardinality(R)
<1>1. /\ delayed[s] # <<>> /\ delayed' = Taken(delayed, s) /\ Apply(s, k, o)
      /\ o.kind = "broadcast" => ops' = ops
      /\ o.kind # "broadcast" => ops' = [ops EXCEPT ![k] = ClientCount(o, n)]
      /\ UNCHANGED <<sub, pipe, inbox, home>>
  BY DEF RunDelayed, Taken, fixed
<1>2. /\ pipe \in Lines /\ inbox \in Lines /\ Typed /\ home \in Homes /\ On' = On /\ On \in SUBSET Servers
      /\ delayed \in [Servers -> Seq(Nat)]
  BY <1>1, AckState DEF IInv, On
<1>3. k \in Nat /\ k \in DOMAIN ops /\ o.kind \in {"broadcast", "ack"} /\ o.from = s
  BY <1>1, UnderWay, DelayedLess
<1>4. o \in OpType /\ OpInv(o) /\ (o.kind = "ack" => AckNow(k))
  <2>1. o \in OpType /\ OpInv(o)
    BY <1>3, State
  <2> QED BY <1>3, <2>1 DEF Acking
<1>5. R \subseteq Clients /\ n \in Nat /\ \A c \in R : home[c] = s
  BY <1>2, ReachedClients
<1>6. \A y \in Servers : \A V : /\ Count(delayed[y], V) \in Nat
                                /\ Count(delayed'[y], V) = Count(delayed[y], V) - IF y = s /\
                                            k \in V THEN 1 ELSE 0
  <2> SUFFICES ASSUME NEW y \in Servers, NEW V
               PROVE  /\ Count(delayed[y], V) \in Nat
                      /\ Count(delayed'[y], V) = Count(delayed[y], V) - IF y = s /\ k \in V THEN 1 ELSE 0
    OBVIOUS
  <2>1. delayed[y] \in Seq(Nat) /\ delayed'[y] = IF y = s THEN Tail(delayed[s]) ELSE delayed[y]
    BY <1>1, <1>2 DEF Taken
  <2>2. Count(delayed[y], V) \in Nat
    BY <2>1, CountType
  <2>3. CASE y = s
    <3>1. Count(Tail(delayed[s]), V) = Count(delayed[s], V) - IF k \in V THEN 1 ELSE 0
      BY <1>1, <1>2, CountTail
    <3> QED BY <2>1, <2>2, <2>3, <3>1
  <2>4. CASE y # s
    BY <2>1, <2>2, <2>4
  <2> QED BY <2>3, <2>4
<1>7. ASSUME NEW i \in DOMAIN ops, i # k PROVE Unmoved(i, ops[i].from)
  <2>1. \A y \in Servers : Count(delayed'[y], {i}) = Count(delayed[y], {i})
    <3> SUFFICES ASSUME NEW y \in Servers PROVE Count(delayed'[y], {i}) = Count(delayed[y], {i})
      OBVIOUS
    <3>1. Count(delayed'[y], {i}) = Count(delayed[y], {i}) - 0 /\ Count(delayed[y], {i}) \in Nat
      BY <1>6, <1>7
    <3> QED BY <3>1
  <2>2. \A c \in Clients : /\ Count(log'[c], {i}) = Count(log[c], {i})
                           /\ Owed(waiting', c, i) = Owed(waiting, c, i)
    <3> HIDE DEF k, o
    <3> QED BY <1>1, <1>2, <1>3, <1>7, AppliedApart
  <2> QED BY <1>1, <2>1, <2>2, ApartSame, UnmovedBy
<1>8. CASE o.kind = "broadcast"
  <2>1. Extends(ops, ops')
    BY <1>1, <1>8, Refl
  <2>2. AsksLast'
    BY <1>1, <2>1, LastLess
  <2>3. \A i \in DOMAIN ops : ops[i].kind = "ack" => Unmoved(i, ops[i].from)
    BY <1>7, <1>8
  <2> QED BY <1>1, <1>2, <1>8, <2>2, <2>3, AckAll
<1>9. CASE o.kind = "ack"
  <2> DEFINE p == ClientCount(o, n)
             v == Now(k, s)
             v2 == After(k, s)
  <2>1. p \in OpType /\ Same(o, p) /\ ops' = [ops EXCEPT ![k] = p]
    BY <1>1, <1>4, <1>5, <1>9, ClientCountOp
  <2>2. /\ v \in TrackType /\ v2 \in TrackType /\ \A c \in Clients : home[c] \in Servers
        /\ Each(v, home, o) /\ Whole(v, home, On, o) /\ Told(pipe, inbox, home, v, k, s)
    BY <1>2, <1>3, <1>4, <1>9, Tracks DEF Homes, AckNow
  <2>3. o.stage # "asked" => v.asked = 0
    BY <1>3, <1>9, NothingAsked
  <2>4. k \in DOMAIN ops' /\ ops'[k] = p /\ Keeps(o, p)
    BY <1>3, <2>1, State DEF Same
  <2>5. AsksLast'
    <3>1. Extends(ops, ops')
      BY <1>3, <2>1, OneStill DEF Same
    <3> QED BY <1>1, <3>1, LastLess
  <2> HIDE DEF k, o, p, n
  <2>6. v2.asked = v.asked /\ v2.telling = v.telling
    BY <1>1 DEF Now, After, Track
  <2>7. ASSUME NEW y \in Servers
        PROVE  v2.at[y] = v.at[y] - IF y = s THEN 1 ELSE 0
    <3>1. CASE y = s
      <4>1. v2.at[y] = Count(delayed'[s], {k}) /\ v.at[y] = Count(delayed[s], {k})
        BY <3>1 DEF Now, After, Track
      <4> HIDE DEF v, v2
      <4> QED BY <1>6, <3>1, <4>1
    <3>2. CASE y # s
      <4>1. v2.at[y] = v.at[y]
        BY <1>1, <3>2 DEF Now, After, Track
      <4> HIDE DEF v, v2
      <4>2. v.at[y] \in Nat
        BY <2>2, TrackFields
      <4> QED BY <3>2, <4>1, <4>2
    <3> QED BY <3>1, <3>2
  <2>8. v.at[s] # 0
    <3> HIDE DEF v, v2
    <3>1. v.at[s] \in Nat /\ v2.at[s] \in Nat
      BY <2>2, TrackFields
    <3> QED BY <2>7, <3>1
  <2>9. \A c \in Clients : c \in R => Owed(waiting, c, k) = 0
    <3> SUFFICES ASSUME NEW c \in R PROVE Owed(waiting, c, k) = 0
      OBVIOUS
    <3>1. c \in Clients /\ home[c] = s
      BY <1>5
    <3>2. v.logs[c] = 0
      <4>1. Coming(v, s, home[c]) # 0
        <5>1. v.at[s] \in Nat
          BY <2>2, TrackFields
        <5> QED BY <2>8, <3>1, <5>1 DEF Coming
      <4> QED BY <1>2, <1>3, <1>4, <2>2, <3>1, <4>1, Hits
    <3>3. v.way[c] + Given(o, c) <= v.logs[c]
      BY <2>2, <3>1 DEF Each
    <3>4. v.way[c] \in Nat /\ Given(o, c) \in Nat
      BY <1>4, <2>2, <3>1, TrackFields, GivenType
    <3>5. v.way[c] = 0
      BY <3>2, <3>3, <3>4
    <3>6. v.way[c] = Owed(waiting, c, k) + Count(pipe[home[c]], Acks(k, c)) + Count(inbox[s], Acks(k, c))
      BY <3>1 DEF Now, Track
    <3>7. /\ Count(pipe[home[c]], Acks(k, c)) \in Nat /\ Count(inbox[s], Acks(k, c)) \in Nat
          /\ Owed(waiting, c, k) \in {0, 1}
      BY <1>2, <2>2, <3>1, LineCount DEF Owed
    <3> HIDE DEF v
    <3> QED BY <3>5, <3>6, <3>7
  <2>10. \A c \in Clients :
           /\ Count(log'[c], {k}) = Count(log[c], {k}) + IF c \in R THEN 1 ELSE 0
           /\ Owed(waiting', c, k) = IF c \in R THEN 1 ELSE Owed(waiting, c, k)
    BY <1>1, <1>2, <1>3, <1>9, AppliedAck
  <2>11. ASSUME NEW c \in Clients
         PROVE  /\ v2.logs[c] = v.logs[c] + IF c \in R THEN 1 ELSE 0
                /\ v2.way[c] = v.way[c] + IF c \in R THEN 1 ELSE 0
    <3>1. v2.logs[c] = v.logs[c] + IF c \in R THEN 1 ELSE 0
      BY <2>10 DEF Now, After, Track
    <3>2. /\ v.way[c] = Owed(waiting, c, k) + Count(pipe[home[c]], Acks(k, c)) + Count(inbox[s],
                Acks(k, c))
          /\ v2.way[c] = Owed(waiting', c, k) + Count(pipe[home[c]], Acks(k, c)) +
                      Count(inbox[s], Acks(k, c))
      BY <1>1 DEF Now, After, Track
    <3>3. Owed(waiting', c, k) = Owed(waiting, c, k) + IF c \in R THEN 1 ELSE 0
      <4>1. Owed(waiting, c, k) \in {0, 1}
        BY DEF Owed
      <4> QED BY <2>9, <2>10, <4>1
    <3>4. /\ Count(pipe[home[c]], Acks(k, c)) \in Nat /\ Count(inbox[s], Acks(k, c)) \in Nat
          /\ Owed(waiting, c, k) \in {0, 1}
      BY <1>2, <2>2, LineCount DEF Owed
    <3> HIDE DEF v, v2, R
    <3>5. v2.way[c] = v.way[c] + IF c \in R THEN 1 ELSE 0
      BY <3>2, <3>3, <3>4
    <3> QED BY <3>1, <3>5 DEF v, v2
  <2>12. Arrives(v, v2, home, o, o.from, R, 0)
    <3> HIDE DEF R, v, v2
    <3>1. R \in SUBSET Clients /\ 0 \in {0, 1}
      BY <1>5
    <3>2. \A x \in Servers : /\ v2.at[x] = v.at[x] - IF x = s THEN 1 ELSE 0
                             /\ v2.telling[x] = v.telling[x] + IF x = s THEN 0 ELSE 0
      <4> SUFFICES ASSUME NEW x \in Servers
                   PROVE  /\ v2.at[x] = v.at[x] - IF x = s THEN 1 ELSE 0
                          /\ v2.telling[x] = v.telling[x] + IF x = s THEN 0 ELSE 0
        OBVIOUS
      <4>1. v.telling[x] \in Nat
        BY <2>2, TrackFields
      <4> QED BY <2>6, <2>7, <4>1
    <3> QED BY <1>3, <1>5, <2>6, <2>8, <2>11, <3>1, <3>2 DEF Arrives
  <2>13. Each(v2, home, p) /\ Whole(v2, home, On, p)
    <3>1. n = Cardinality(R)
      BY DEF n
    <3> HIDE DEF R, v, v2
    <3> QED BY <1>2, <1>4, <1>9, <2>2, <2>3, <2>12, <3>1, HomeOp DEF p
  <2>14. Told(pipe', inbox', home', v2, k, s)
    <3>1. /\ v.telling[s] = 0 /\ \A x \in Servers : x # s => HitAt(v2, home, x) = HitAt(v, home, x)
      <4> HIDE DEF R, v, v2
      <4>1. Arrived(v, v2, home, o, o.from, R, 0)
        BY <1>2, <1>4, <2>2, <2>12, ArrivedEach
      <4> QED BY <1>3, <4>1 DEF Arrived
    <3>2. ASSUME NEW t \in Servers
          PROVE  LET W == Wrong(k, t, Cardinality(HitAt(v2, home, t)))
                 IN  Count(pipe[t], W) + Count(inbox[s], W) = 0
      <4> DEFINE W == Wrong(k, t, Cardinality(HitAt(v2, home, t)))
      <4>1. CASE t = s
        <5>1. Count(pipe[s], Tells(k, s)) + Count(inbox[s], Tells(k, s)) = 0
          BY <3>1 DEF Now, Track
        <5>2. Count(pipe[s], Tells(k, s)) = 0 /\ Count(inbox[s], Tells(k, s)) = 0
          <6>1. Count(pipe[s], Tells(k, s)) \in Nat /\ Count(inbox[s], Tells(k, s)) \in Nat
            BY <1>2, LineCount
          <6> QED BY <5>1, <6>1
        <5>3. pipe[s] \in Seq(MessageType) /\ inbox[s] \in Seq(MessageType)
          BY <1>2 DEF Lines
        <5>4. /\ \A j \in DOMAIN pipe[s] : pipe[s][j] \notin Tells(k, s)
              /\ \A j \in DOMAIN inbox[s] : inbox[s][j] \notin Tells(k, s)
          BY <5>2, <5>3, CountType
        <5>5. W \in SUBSET Tells(k, t)
          BY Kinds3
        <5> HIDE DEF W
        <5>6. /\ \A j \in DOMAIN pipe[s] : pipe[s][j] \notin W
              /\ \A j \in DOMAIN inbox[s] : inbox[s][j] \notin W
          BY <4>1, <5>4, <5>5
        <5>7. Count(pipe[s], W) = 0 /\ Count(inbox[s], W) = 0
          BY <5>3, <5>6, CountType
        <5>8. Count(pipe[t], W) + Count(inbox[s], W) = 0
          BY <4>1, <5>7
        <5> QED BY <5>8 DEF W
      <4>2. CASE t # s
        BY <2>2, <3>1, <4>2 DEF Told
      <4> QED BY <4>1, <4>2
    <3> HIDE DEF v2
    <3> QED BY <1>1, <3>2 DEF Told
  <2> HIDE DEF v, v2
  <2>15. AckAfter(k)
    BY <1>1, <1>2, <1>3, <2>4, <2>13, <2>14 DEF AckAfter, v2, Keeps
  <2> QED BY <1>2, <1>3, <1>7, <2>1, <2>4, <2>5, <2>15, AckOne DEF o
<1> QED BY <1>3, <1>8, <1>9

\* Nothing of a call is under way before it is made.
LEMMA NothingOf ==
  ASSUME IInv, NEW i, i \notin DOMAIN ops
  PROVE  /\ \A x \in Servers : \A V \in SUBSET About(i) : Count(pipe[x], V) = 0 /\ Count(inbox[x], V) = 0
         /\ \A x \in Servers : Count(delayed[x], {i}) = 0
         /\ \A c \in Clients : Count(log[c], {i}) = 0 /\ (i \in Nat => Owed(waiting, c, i) = 0)
<1>1. Referring(ops, pipe, inbox, delayed) /\ Known(ops, waiting, log) /\ log \in [Process -> Seq(Nat)]
  BY Refers DEF IInv, References, Typed
<1>2. ASSUME NEW x \in Servers, NEW V \in SUBSET About(i) PROVE Count(pipe[x], V) = 0 /\
      Count(inbox[x], V) = 0
  <2>1. /\ pipe[x] \in Seq(MessageType) /\ \A j \in DOMAIN pipe[x] : pipe[x][j] \notin V
        /\ inbox[x] \in Seq(MessageType) /\ \A j \in DOMAIN inbox[x] : inbox[x][j] \notin V
    BY <1>1 DEF Referring, About
  <2> QED BY <2>1, CountType
<1>3. ASSUME NEW x \in Servers PROVE Count(delayed[x], {i}) = 0
  <2>1. delayed[x] \in Seq(Nat) /\ \A j \in DOMAIN delayed[x] : delayed[x][j] \notin {i}
    BY <1>1 DEF Referring
  <2> QED BY <2>1, CountType
<1>4. ASSUME NEW c \in Clients PROVE Count(log[c], {i}) = 0 /\ (i \in Nat => Owed(waiting, c, i) = 0)
  <2>1. log[c] \in Seq(Nat) /\ \A j \in DOMAIN log[c] : log[c][j] \notin {i}
    BY <1>1 DEF Known, Process
  <2>2. i \in Nat => <<c, i>> \notin waiting
    BY <1>1 DEF Known, Waits, Process
  <2> QED BY <2>1, <2>2, CountType DEF Owed
<1> QED BY <1>2, <1>3, <1>4

\* Where a broadcast starts from: asked is 1 if the other servers are sent it.
Starts(v, f, asked) ==
  /\ v.asked = asked /\ \A t \in Servers : v.at[t] = (IF t = f THEN 1 ELSE 0) /\ v.telling[t] = 0
  /\ \A c \in Clients : v.logs[c] = 0 /\ v.way[c] = 0

\* What a broadcast begins as, among the servers on.
Fresh(on, s, o) ==
  /\ o.from = s /\ o.stage = "asked" /\ o.settled = <<>>
  /\ o.responses = <<>> /\ o.current = 0 /\ o.clients = 0
  /\ o.cluster = (IF s \in on THEN on ELSE {})

LEMMA StartedOp ==
  ASSUME NEW v \in TrackType, NEW h \in Homes, NEW on \in SUBSET Servers, NEW o \in OpType,
         NEW s \in Servers, Fresh(on, s, o), Starts(v, s, IF o.local THEN 0 ELSE 1)
  PROVE  Each(v, h, o) /\ Whole(v, h, on, o)
<1>1. /\ o.from = s /\ o.stage = "asked" /\ o.settled = <<>>
      /\ o.responses = <<>> /\ o.current = 0 /\ o.clients = 0
      /\ o.cluster = (IF s \in on THEN on ELSE {})
  BY DEF Fresh
<1>2. /\ v.asked = (IF o.local THEN 0 ELSE 1)
      /\ \A t \in Servers : v.at[t] = (IF t = s THEN 1 ELSE 0) /\ v.telling[t] = 0
      /\ \A c \in Clients : v.logs[c] = 0 /\ v.way[c] = 0
  BY DEF Starts
<1>3. \A t \in Servers : Coming(v, s, t) = IF t = s \/ ~o.local THEN 1 ELSE 0
  <2> SUFFICES ASSUME NEW t \in Servers PROVE Coming(v, s, t) = IF t = s \/ ~o.local THEN 1 ELSE 0
    OBVIOUS
  <2>1. CASE t = s
    BY <1>2, <2>1 DEF Coming
  <2>2. CASE t # s
    BY <1>2, <2>2 DEF Coming
  <2> QED BY <2>1, <2>2
<1>4. (\A c : Given(o, c) = 0) /\ \A c \in Clients : h[c] \in Servers
  BY <1>1, GivenType DEF Homes
<1>5. Each(v, h, o)
  <2>1. DOMAIN o.responses = {}
    BY <1>1
  <2>2. \A t \in Servers : Coming(v, s, t) + v.telling[t] <= 1
    BY <1>2, <1>3
  <2>3. \A c \in Clients : /\ Coming(v, s, h[c]) + v.logs[c] <= 1
                           /\ v.way[c] + Given(o, c) <= v.logs[c]
                           /\ v.logs[c] # 1
    BY <1>2, <1>3, <1>4
  <2> QED BY <1>1, <2>1, <2>2, <2>3 DEF Each
<1>6. ASSUME o.cluster # {} PROVE o.from \in o.cluster /\ Live(v, h, on, o)
  <2>1. s \in on /\ o.cluster = on
    BY <1>1, <1>6
  <2>2. Reported(v, o) = {}
    <3>1. \A t \in o.cluster : t = s \/ ~o.local => Coming(v, s, t) + v.telling[t] # 0
      BY <1>2, <1>3, <2>1
    <3> QED BY <1>1, <3>1 DEF Reported
  <2>3. Owing(v, h, o) = {}
    BY <2>2 DEF Owing
  <2>4. \A t \in Servers \ on : v.at[t] + v.telling[t] = 0
    BY <1>2, <2>1
  <2>5. \A c \in Clients : v.logs[c] = v.way[c] + Given(o, c) /\ v.logs[c] # 1
    BY <1>2, <1>4
  <2> QED BY <1>1, <2>1, <2>2, <2>3, <2>4, <2>5, FS_EmptySet DEF Live
<1>7. o.settled # <<"ok">>
  BY <1>1, Outcomes
<1> QED BY <1>1, <1>5, <1>6, <1>7 DEF Whole

LEMMA AckCallMessages ==
  ASSUME NEW s \in Servers, NextCall \in Nat, NEW r \in BOOLEAN, NEW q \in BOOLEAN, q
  PROVE  LET msgs == CallMessages(s, r, q)
         IN  /\ Count(msgs, Requests(NextCall)) = IF r THEN 1 ELSE 0
             /\ \A V \in SUBSET About(NextCall) : V \intersect Requests(NextCall) = {}
                         => Count(msgs, V) = 0
             /\ \A os : Preceded(os, msgs)
<1> DEFINE i == NextCall
           m == Request(s, i)
           n == Numsub(s, i)
           msgs == CallMessages(s, r, q)
<1>1. /\ m \in MessageType /\ n \in MessageType /\ m.type = "request" /\ m.op = i
      /\ n.type = "numsub" /\ n.op = i
  BY RequestMessage
<1>2. msgs = IF r THEN <<m>> \o <<n>> ELSE <<n>>
  BY DEF CallMessages
<1> HIDE DEF m, n, msgs, i
<1>3. /\ <<m>> \in Seq(MessageType) /\ <<n>> \in Seq(MessageType)
      /\ \A V : Count(<<m>>, V) = IF m \in V THEN 1 ELSE 0
      /\ \A V : Count(<<n>>, V) = IF n \in V THEN 1 ELSE 0
  BY <1>1, OneCount
<1>4. \A V : Count(<<m>> \o <<n>>, V) = Count(<<m>>, V) + Count(<<n>>, V)
  <2> DEFINE a == <<m>>
             b == <<n>>
  <2>1. a \in Seq(MessageType) /\ b \in Seq(MessageType)
    BY <1>3
  <2> HIDE DEF a, b
  <2>2. \A V : Count(a \o b, V) = Count(a, V) + Count(b, V)
    BY <2>1, CountJoined
  <2> QED BY <2>2 DEF a, b
<1>5. m \in Requests(i) /\ n \notin About(i) /\ n \notin Requests(i)
  BY <1>1 DEF Requests, About
<1>6. ASSUME NEW V \in SUBSET About(i), V \intersect Requests(i) = {} PROVE Count(msgs, V) = 0
  <2>1. m \notin V /\ n \notin V
    BY <1>5, <1>6
  <2>2. Count(<<m>>, V) = 0 /\ Count(<<n>>, V) = 0
    BY <1>3, <2>1
  <2>3. Count(<<m>> \o <<n>>, V) = 0
    <3> DEFINE a == Count(<<m>>, V)
               b == Count(<<n>>, V)
    <3>1. Count(<<m>> \o <<n>>, V) = a + b
      BY <1>4
    <3>2. a = 0 /\ b = 0
      BY <2>2
    <3> HIDE DEF a, b
    <3> QED BY <3>1, <3>2
  <2> QED BY <1>2, <2>2, <2>3
<1>7. Count(msgs, Requests(i)) = IF r THEN 1 ELSE 0
  BY <1>2, <1>3, <1>4, <1>5
<1>8. ASSUME NEW os PROVE Preceded(os, msgs)
  <2>1. CASE r
    <3>1. msgs = <<m, n>>
      BY <1>1, <1>2, <2>1, Pair
    <3>2. DOMAIN <<m, n>> = {1, 2} /\ <<m, n>>[1] = m /\ <<m, n>>[2] = n
      OBVIOUS
    <3> QED BY <1>1, <3>1, <3>2 DEF Preceded
  <2>2. CASE ~r
    <3>1. msgs = <<n>>
      BY <1>2, <2>2
    <3>2. DOMAIN <<n>> = {1} /\ <<n>>[1] = n
      OBVIOUS
    <3> QED BY <1>1, <3>1, <3>2 DEF Preceded
  <2> QED BY <2>1, <2>2
<1> QED BY <1>6, <1>7, <1>8 DEF msgs, i

LEMMA AckCallStep ==
  ASSUME IInv, IInv', AsksLast, Acking, NEW s \in Servers, NEW o \in OpType, OpInv(o),
         NEW r \in BOOLEAN, NEW q \in BOOLEAN,
         ops' = Append(ops, o), pipe' = Published(s, CallMessages(s, r, q)), UNCHANGED <<sub,
               inbox, home>>,
         delayed' = delayed \/ delayed' = Later(delayed, s, NextCall),
         \A i \in DOMAIN ops : \A c \in Clients : /\ Count(log'[c], {i}) = Count(log[c], {i})
                                                  /\ Owed(waiting', c, i) = Owed(waiting, c, i),
         o.kind = "ack" => /\ Fresh(On, s, o) /\ (r <=> ~o.local) /\ q
                           /\ delayed' = Later(delayed, s, NextCall) /\ UNCHANGED <<waiting, log>>
  PROVE  AsksLast' /\ Acking'
<1> DEFINE k == NextCall
           msgs == CallMessages(s, r, q)
<1>1. /\ k \in Nat /\ k \notin DOMAIN ops /\ k \in DOMAIN ops' /\ ops'[k] = o /\ Extends(ops, ops')
      /\ \A i \in DOMAIN ops : i \in DOMAIN ops' /\ ops'[i] = ops[i]
      /\ \A i \in DOMAIN ops' : i \in DOMAIN ops \/ i = k
  BY AppendOps DEF IInv
<1>2. /\ pipe \in Lines /\ inbox \in Lines /\ delayed \in [Servers -> Seq(Nat)] /\ home \in Homes
      /\ On' = On /\ On \in SUBSET Servers
  BY AckState DEF On
<1>3. /\ msgs \in Seq(MessageType)
      /\ \A j \in DOMAIN msgs : /\ msgs[j].op = k
                                /\ msgs[j].type = "numsub" \/ (r /\ msgs[j].type = "request")
  BY <1>1, CallMessagesOf
<1>4. pipe' = Sent(pipe, s, msgs)
  BY DEF Published, Sent
<1>5. o.kind = "ack" => /\ Count(msgs, Requests(k)) = IF r THEN 1 ELSE 0
                        /\ \A V \in SUBSET About(k) : V \intersect Requests(k) = {} => Count(msgs, V) = 0
                        /\ \A os : Preceded(os, msgs)
  BY <1>1, AckCallMessages
<1> HIDE DEF msgs, k
<1>6. AsksLast'
  <2>1. Preceded(ops', msgs)
    <3>1. o.kind # "ack" => Preceded(ops', msgs)
      BY <1>1, <1>3 DEF Preceded
    <3> QED BY <1>5, <3>1
  <2> QED BY <1>1, <1>3, <1>4, <2>1, LastSent
<1>7. \A y \in Servers : \A i \in Nat :
        Count(delayed'[y], {i}) = Count(delayed[y], {i}) + IF delayed' # delayed /\ y = s /\ i =
              k THEN 1 ELSE 0
  <2> SUFFICES ASSUME NEW y \in Servers, NEW i \in Nat
               PROVE  Count(delayed'[y], {i}) =
                        Count(delayed[y], {i}) + IF delayed' # delayed /\ y = s /\ i = k THEN 1 ELSE 0
    OBVIOUS
  <2>1. delayed[y] \in Seq(Nat) /\ Count(delayed[y], {i}) \in Nat
    BY <1>2, CountType
  <2>2. CASE delayed' = delayed
    BY <2>1, <2>2
  <2>3. CASE delayed' # delayed
    <3>1. delayed'[y] = IF y = s THEN Append(delayed[s], k) ELSE delayed[y]
      BY <1>2, <2>3 DEF Later, k
    <3>2. Count(Append(delayed[s], k), {i}) = Count(delayed[s], {i}) + IF k \in {i} THEN 1 ELSE 0
      BY <1>1, <1>2, CountAppend
    <3>3. CASE y = s
      BY <2>3, <3>1, <3>2, <3>3
    <3>4. CASE y # s
      BY <2>1, <3>1, <3>4
    <3> QED BY <3>3, <3>4
  <2> QED BY <2>2, <2>3
<1>8. ASSUME NEW i \in DOMAIN ops, ops[i].kind = "ack" PROVE AckAfter(i)
  <2>1. i # k /\ i \in Nat
    BY <1>1, State
  <2>2. Apart(pipe', pipe, About(i))
    <3>1. \A j \in DOMAIN msgs : msgs[j] \notin About(i)
      BY <1>3, <2>1 DEF About
    <3> QED BY <1>2, <1>3, <1>4, <3>1, ApartSent
  <2>3. \A y \in Servers : Count(delayed'[y], {i}) = Count(delayed[y], {i})
    <3> SUFFICES ASSUME NEW y \in Servers PROVE Count(delayed'[y], {i}) = Count(delayed[y], {i})
      OBVIOUS
    <3>1. Count(delayed'[y], {i}) = Count(delayed[y], {i}) + 0 /\ delayed[y] \in Seq(Nat)
      BY <1>2, <1>7, <2>1
    <3>2. Count(delayed[y], {i}) \in Nat
      BY <3>1, CountType
    <3> QED BY <3>1, <3>2
  <2>4. Unmoved(i, ops[i].from)
    BY <2>2, <2>3, ApartSame, UnmovedBy
  <2> QED BY <1>1, <1>2, <1>8, <2>4, AckOthers
<1>9. ASSUME o.kind = "ack" PROVE AckAfter(k)
  <2> DEFINE v == After(k, s)
  <2>1. /\ Fresh(On, s, o) /\ (r <=> ~o.local) /\ q
        /\ delayed' = Later(delayed, s, k) /\ UNCHANGED <<waiting, log>>
    BY <1>9 DEF k
  <2>2. v \in TrackType /\ o.from = s /\ \A c \in Clients : home[c] \in Servers
    BY <1>2, <2>1, Tracks DEF Fresh, Homes
  <2>3. /\ \A x \in Servers : \A V \in SUBSET About(k) : Count(pipe[x], V) = 0 /\ Count(inbox[x], V) = 0
        /\ \A x \in Servers : Count(delayed[x], {k}) = 0
        /\ \A c \in Clients : Count(log[c], {k}) = 0 /\ Owed(waiting, c, k) = 0
    BY <1>1, NothingOf
  <2>4. \A x \in Servers : \A V : Count(pipe'[x], V) = Count(pipe[x], V) + IF x =
        s THEN Count(msgs, V) ELSE 0
    <3> DEFINE p == Sent(pipe, s, msgs)
    <3>1. \A x \in Servers : \A V : Count(p[x], V) = Count(pipe[x], V) + IF x =
          s THEN Count(msgs, V) ELSE 0
      BY <1>2, <1>3, SentCount
    <3> HIDE DEF p
    <3>2. pipe' = p
      BY <1>4 DEF p
    <3> QED BY <3>1, <3>2
  <2>5. \A x \in Servers : \A V \in SUBSET About(k) : V \intersect Requests(k) = {}
        => Count(pipe'[x], V) = 0
    <3> SUFFICES ASSUME NEW x \in Servers, NEW V \in SUBSET About(k), V \intersect Requests(k) = {}
                 PROVE  Count(pipe'[x], V) = 0
      OBVIOUS
    <3>1. Count(pipe[x], V) = 0 /\ Count(msgs, V) = 0
      BY <1>5, <1>9, <2>3
    <3> QED BY <2>4, <3>1
  <2>6. Count(pipe'[s], Requests(k)) = IF r THEN 1 ELSE 0
    <3>1. Count(pipe[s], Requests(k)) = 0
      BY <2>3, Kinds3
    <3>2. Count(msgs, Requests(k)) = IF r THEN 1 ELSE 0
      BY <1>5, <1>9
    <3>3. Count(pipe'[s], Requests(k)) = Count(pipe[s], Requests(k)) + Count(msgs, Requests(k))
      BY <2>4
    <3> QED BY <3>1, <3>2, <3>3
  <2>7. delayed' # delayed /\ Count(delayed'[s], {k}) = 1
    <3>1. delayed' # delayed
      <4>1. delayed'[s] = Append(delayed[s], k) /\ delayed[s] \in Seq(Nat)
        BY <1>2, <2>1 DEF Later
      <4>2. Len(delayed'[s]) = Len(delayed[s]) + 1
        BY <1>1, <4>1, Push
      <4>3. Len(delayed[s]) \in Nat
        BY <4>1
      <4> QED BY <4>2, <4>3
    <3>2. Count(delayed'[s], {k}) = Count(delayed[s], {k}) + 1
      BY <1>1, <1>7, <3>1
    <3>3. Count(delayed[s], {k}) = 0
      BY <2>3
    <3> QED BY <3>1, <3>2, <3>3
  <2>8. Starts(v, s, IF o.local THEN 0 ELSE 1)
    <3>1. v.asked = IF o.local THEN 0 ELSE 1
      BY <2>1, <2>6 DEF After, Track
    <3>2. ASSUME NEW t \in Servers PROVE v.at[t] = (IF t = s THEN 1 ELSE 0) /\ v.telling[t] = 0
      <4>1. v.at[t] = (IF t = s THEN 1 ELSE 0)
        <5>1. CASE t = s
          BY <2>7, <5>1 DEF After, Track
        <5>2. CASE t # s
          <6>1. Count(inbox[t], Requests(k)) = 0
            BY <2>3, Kinds3
          <6> QED BY <5>2, <6>1 DEF After, Track
        <5> QED BY <5>1, <5>2
      <4>2. Count(pipe'[t], Tells(k, t)) = 0 /\ Count(inbox[s], Tells(k, t)) = 0
        BY <2>3, <2>5, Kinds3
      <4>3. v.telling[t] = Count(pipe'[t], Tells(k, t)) + Count(inbox[s], Tells(k, t))
        BY DEF After, Track
      <4> HIDE DEF v
      <4> QED BY <4>1, <4>2, <4>3
    <3>3. ASSUME NEW c \in Clients PROVE v.logs[c] = 0 /\ v.way[c] = 0
      <4>1. v.logs[c] = 0
        BY <2>1, <2>3 DEF After, Track
      <4>2. Count(pipe'[home[c]], Acks(k, c)) = 0 /\ Count(inbox[s], Acks(k, c)) = 0 /\
            Owed(waiting, c, k) = 0
        BY <2>2, <2>3, <2>5, Kinds3
      <4>3. v.way[c] = Owed(waiting, c, k) + Count(pipe'[home[c]], Acks(k, c)) + Count(inbox[s],
            Acks(k, c))
        BY <2>1 DEF After, Track
      <4> HIDE DEF v
      <4> QED BY <4>1, <4>2, <4>3
    <3> HIDE DEF v
    <3> QED BY <3>1, <3>2, <3>3 DEF Starts
  <2>9. Told(pipe', inbox', home', v, k, s)
    <3>1. \A t \in Servers : \A n : Count(pipe'[t], Wrong(k, t, n)) = 0 /\ Count(inbox[s],
          Wrong(k, t, n)) = 0
      BY <2>3, <2>5, Kinds3
    <3> HIDE DEF v
    <3> QED BY <3>1 DEF Told
  <2> HIDE DEF v
  <2>10. Each(v, home, o) /\ Whole(v, home, On, o)
    BY <1>2, <2>1, <2>2, <2>8, StartedOp
  <2> QED BY <1>1, <1>2, <2>2, <2>9, <2>10 DEF AckAfter, v
<1>10. \A i \in DOMAIN ops' : ops'[i].kind = "ack" => AckAfter(i)
  BY <1>1, <1>8, <1>9
<1> QED BY <1>6, <1>10, AckingNext

LEMMA AckCalls ==
  ASSUME IInv, IInv', AsksLast, Acking, NEW s \in Servers, Calls(s)
  PROVE  AsksLast' /\ Acking'
<1>0. Typed
  BY DEF IInv
<1> DEFINE Still == \A i \in DOMAIN ops : \A c \in Clients : /\ Count(log'[c], {i}) = Count(log[c], {i})
                                                             /\ Owed(waiting', c, i) = Owed(waiting, c, i)
<1>1. UNCHANGED <<waiting, log>> => Still
  OBVIOUS
<1> HIDE DEF Still
<1>2. ASSUME NEW o \in OpType, OpInv(o), o.kind # "ack", ops' = Append(ops, o),
             NEW r \in BOOLEAN, NEW q \in BOOLEAN, pipe' = Published(s, CallMessages(s, r, q)),
             UNCHANGED <<sub, inbox, home>>, delayed' = delayed \/ delayed' = Later(delayed, s,
                   NextCall), Still
      PROVE  AsksLast' /\ Acking'
  <2>1. \A i \in DOMAIN ops : \A c \in Clients : /\ Count(log'[c], {i}) = Count(log[c], {i})
                                                 /\ Owed(waiting', c, i) = Owed(waiting, c, i)
    BY <1>2 DEF Still
  <2> QED BY <1>2, <2>1, AckCallStep
<1>3. CASE Tell(s)
  <2> DEFINE o == NewOp("tell", s, FALSE, All, All)
  <2>1. "tell" \in Kinds /\ "tell" \in Kinds \ {"ack", "fetch", "emit"} /\ FALSE \in BOOLEAN
        /\ All \in Rooms \union {All}
    BY DEF Kinds
  <2>2. o \in OpType /\ o.kind = "tell"
    <3>1. \A l \in BOOLEAN : LET c == NewOp("tell", s, l, All, All) IN c \in OpType /\ c.kind = "tell"
      BY <2>1, NewCall
    <3> QED BY <3>1
  <2>3. OpInv(o)
    BY <2>1, PlainCall
  <2>4. /\ ops' = Append(ops, o) /\ pipe' = Published(s, Requested(s, FALSE))
        /\ UNCHANGED <<sub, inbox, home, delayed, waiting, log>>
    BY <1>3 DEF Tell, sockets, fixed
  <2>5. Requested(s, FALSE) = CallMessages(s, TRUE, FALSE)
    BY DEF Requested, CallMessages
  <2> HIDE DEF o
  <2> QED BY <1>1, <1>2, <2>2, <2>3, <2>4, <2>5
<1>4. ASSUME NEW k \in {"fetch", "emit"}, NEW l \in BOOLEAN, Ask(s, k, l) PROVE AsksLast' /\ Acking'
  <2> DEFINE o == AskCall(k, s, l)
  <2>1. o \in OpType /\ OpInv(o) /\ o.kind # "ack"
    BY AskCallOp
  <2>2. /\ ops' = Append(ops, o) /\ pipe' = Published(s, IF l THEN <<>> ELSE <<Numsub(s, NextCall)>>)
        /\ UNCHANGED <<sub, inbox, home, delayed, waiting, log>>
    BY <1>4 DEF Ask, AskCall, Asked, sockets, fixed
  <2>3. (IF l THEN <<>> ELSE <<Numsub(s, NextCall)>>) = CallMessages(s, FALSE, ~l)
    BY DEF CallMessages
  <2> HIDE DEF o
  <2> QED BY <1>1, <1>2, <2>1, <2>2, <2>3
<1>5. ASSUME NEW l \in BOOLEAN, NEW r \in Rooms \union {All}, Broadcast(s, l, r)
      PROVE AsksLast' /\ Acking'
  <2> DEFINE o == NewOp("broadcast", s, l, r, All)
  <2>1. o \in OpType /\ o.kind = "broadcast" /\ OpInv(o)
    BY NewCall, PlainCall DEF Kinds
  <2>2. /\ ops' = Append(ops, o) /\ pipe' = Published(s, Requested(s, l))
        /\ delayed' = Later(delayed, s, NextCall) /\ UNCHANGED <<sub, inbox, home, waiting, log>>
    BY <1>5 DEF Broadcast, Later, sockets, fixed
  <2>3. Requested(s, l) = CallMessages(s, ~l, FALSE)
    BY DEF Requested, CallMessages
  <2> HIDE DEF o
  <2> QED BY <1>1, <1>2, <2>1, <2>2, <2>3
<1>6. ASSUME NEW l \in BOOLEAN, NEW r \in Rooms \union {All}, BroadcastWithAck(s, l, r)
      PROVE  AsksLast' /\ Acking'
  <2> DEFINE o == AckCall(s, l, r)
  <2>1. o \in OpType /\ o.kind = "ack" /\ OpInv(o) /\ (o.local <=> l) /\ Fresh(On, s, o)
    BY AckCallOp DEF Fresh
  <2>2. /\ ops' = Append(ops, o) /\ pipe' = Published(s, Requested(s, l) \o <<Numsub(s, NextCall)>>)
        /\ delayed' = Later(delayed, s, NextCall) /\ UNCHANGED <<sub, inbox, home, waiting, log>>
    BY <1>6 DEF BroadcastWithAck, AckCall, Asked, Armed, Pending, Later, sockets, fixed
  <2>3. Requested(s, l) \o <<Numsub(s, NextCall)>> = CallMessages(s, ~l, TRUE)
    <3>1. <<Numsub(s, NextCall)>> \in Seq({Numsub(s, NextCall)})
      OBVIOUS
    <3>2. <<>> \o <<Numsub(s, NextCall)>> = <<Numsub(s, NextCall)>>
      BY <3>1, ConcatEmptySeq
    <3> QED BY <3>2 DEF Requested, CallMessages
  <2>4. \A i \in DOMAIN ops : \A c \in Clients : /\ Count(log'[c], {i}) = Count(log[c], {i})
                                                 /\ Owed(waiting', c, i) = Owed(waiting, c, i)
    BY <2>2
  <2> HIDE DEF o
  <2> QED BY <2>1, <2>2, <2>3, <2>4, AckCallStep
<1>7. ASSUME NEW l \in BOOLEAN, NEW r \in Rooms \union {All}, NEW k \in {"join", "leave", "disconnect"},
             NEW a \in Rooms \union {All}, RoomCall(s, k, l, r, a)
      PROVE  AsksLast' /\ Acking'
  <2> DEFINE o == NewOp(k, s, l, r, a)
  <2>1. k \in Kinds /\ k \in Kinds \ {"ack", "fetch", "emit"}
    BY DEF Kinds
  <2>2. o \in OpType /\ o.kind = k /\ OpInv(o)
    BY <2>1, NewCall, PlainCall
  <2>3. /\ ops' = Append(ops, o) /\ pipe' = Published(s, Requested(s, l)) /\ Apply(s, NextCall, o)
        /\ UNCHANGED <<sub, inbox, home, delayed>>
    BY <1>7 DEF RoomCall, fixed
  <2>4. Requested(s, l) = CallMessages(s, ~l, FALSE)
    BY DEF Requested, CallMessages
  <2> HIDE DEF o
  <2>5. NextCall \in Nat /\ NextCall \notin DOMAIN ops
    BY <1>0, <2>2, <2>3, AppendOps DEF IInv
  <2>6. \A i : i # NextCall => \A c \in Clients : /\ Count(log'[c], {i}) = Count(log[c], {i})
                                                  /\ Owed(waiting', c, i) = Owed(waiting, c, i)
    BY <1>0, <2>3, <2>5, AppliedApart
  <2>7. Still
    BY <2>5, <2>6 DEF Still
  <2> QED BY <1>2, <2>1, <2>2, <2>3, <2>4, <2>7
<1> QED BY <1>3, <1>4, <1>5, <1>6, <1>7 DEF Calls

LEMMA AckNext ==
  ASSUME IInv, IInv', AsksLast, Acking, [Next]_vars
  PROVE  AsksLast' /\ Acking'
<1>1. ASSUME NEW s \in Servers,
             Calls(s) \/ RunDelayed(s) \/ ReceiveRequest(s) \/ IgnoreSelf(s) \/ ReceiveResponse(s)
               \/ RedisCounts(s) \/ RedisRoutes(s) \/ Subscribe(s) \/ Crash(s)
      PROVE  AsksLast' /\ Acking'
  BY <1>1, AckCalls, AckRunDelayed, AckReceiveRequest, AckIgnoreSelf, AckReceiveResponse,
     AckRedisCounts, AckRedisRoutes, AckSubscribe, AckCrash
<1>2. ASSUME NEW i \in DOMAIN ops, CountReply(i) \/ Timeout(i) \/ AckTimeout(i) \/ AckCleanup(i)
      PROVE  AsksLast' /\ Acking'
  BY <1>2, AckCountReply, AckTimeouts
<1>3. ASSUME NEW x \in Process, NEW i \in DOMAIN ops, Answer(x, i) PROVE AsksLast' /\ Acking'
  BY <1>3, AckAnswer
<1>4. ASSUME NEW c \in Clients, ClientLeaves(c) PROVE AsksLast' /\ Acking'
  BY <1>4, AckStay DEF ClientLeaves, Changes, servers
<1>5. CASE UNCHANGED vars
  BY <1>5, AckStay DEF vars, servers, fixed, sockets
<1> QED BY <1>1, <1>2, <1>3, <1>4, <1>5 DEF Next, Process

LEMMA AckInit == Init => AsksLast /\ Acking
<1> SUFFICES ASSUME Init PROVE AsksLast /\ Acking
  OBVIOUS
<1>1. ops = <<>> /\ pipe = [s \in Servers |-> <<>>]
  BY DEF Init
<1> QED BY <1>1 DEF AsksLast, Preceded, Acking

\* A broadcast that succeeds has been acknowledged once by every client it reaches, by no
\* other, and reaches nobody else, if the servers that listen stayed the same (AckedMeansAnswered).
THEOREM AcksExact == Spec => []AckedMeansAnswered
<1>1. ASSUME IInv, Acking PROVE AckedMeansAnswered
  <2> SUFFICES ASSUME NEW i \in Calling, ops[i].kind = "ack",
                      ops[i].settled = <<"ok">>, ops[i].cluster # {}
               PROVE  /\ Distinct(ops[i].responses)
                      /\ Values(ops[i].responses) = {c \in Clients : i \in Values(log[c])}
    BY DEF AckedMeansAnswered
  <2> DEFINE o == ops[i]
             f == o.from
             v == Now(i, f)
             q == o.responses
  <2>1. i \in DOMAIN ops /\ o \in OpType /\ f \in Servers /\ AckNow(i)
    BY <1>1, AckState DEF Calling, Acking
  <2>2. v \in TrackType /\ home \in Homes
    BY <1>1, <2>1, AckState, Tracks
  <2>3. Each(v, home, o) /\ Final(v, o)
    BY <2>1 DEF AckNow, Whole
  <2>4. q \in Seq(Process) /\ \A k \in DOMAIN q : q[k] \in Clients
    BY <2>1, <2>3 DEF OpType, Each
  <2>5. \A c \in Clients : /\ Given(o, c) \in {0, 1} /\ Given(o, c) = v.logs[c]
                           /\ v.logs[c] = Count(log[c], {i})
    <3>1. \A c \in Clients : v.logs[c] = Count(log[c], {i})
      BY DEF Now, Track
    <3> HIDE DEF v
    <3>2. \A c \in Clients : Given(o, c) \in {0, 1}
      BY <2>1, <2>2, <2>3, Hits
    <3> QED BY <2>3, <3>1, <3>2 DEF Final
  <2> HIDE DEF v, q
  <2>6. \A x : Count(q, {x}) <= 1
    <3> TAKE x
    <3>1. CASE x \in Clients
      <4>1. Given(o, x) \in {0, 1} /\ Given(o, x) = Count(q, {x})
        BY <2>5, <3>1 DEF Given, q
      <4> QED BY <4>1
    <3>2. CASE x \notin Clients
      <4>1. \A k \in DOMAIN q : q[k] \notin {x}
        BY <2>4, <3>2
      <4>2. Count(q, {x}) = 0
        BY <2>4, <4>1, CountType
      <4> QED BY <4>2
    <3> QED BY <3>1, <3>2
  <2>7. Distinct(q)
    BY <2>4, <2>6, OnceEach DEF Distinct
  <2>8. \A c \in Clients : c \in Values(q) <=> i \in Values(log[c])
    <3> SUFFICES ASSUME NEW c \in Clients PROVE c \in Values(q) <=> i \in Values(log[c])
      OBVIOUS
    <3>1. log[c] \in Seq(Nat)
      BY <1>1, AckState DEF Process
    <3>2. Count(q, {c}) = 0 <=> \A k \in DOMAIN q : q[k] \notin {c}
      BY <2>4, CountType
    <3>3. Count(log[c], {i}) = 0 <=> \A k \in DOMAIN log[c] : log[c][k] \notin {i}
      BY <3>1, CountType
    <3>4. Count(q, {c}) = Count(log[c], {i})
      BY <2>5 DEF Given, q
    <3> QED BY <3>2, <3>3, <3>4 DEF Values
  <2>9. Values(q) \subseteq Clients
    BY <2>4 DEF Values
  <2>10. Values(q) = {c \in Clients : i \in Values(log[c])}
    BY <2>8, <2>9
  <2> QED BY <2>7, <2>10 DEF q
<1>2. Init => IInv /\ AsksLast /\ Acking
  BY InitInv, AckInit
<1>3. IInv /\ AsksLast /\ Acking /\ [Next]_vars => (IInv /\ AsksLast /\ Acking)'
  BY NextInv, AckNext
<1> QED BY <1>1, <1>2, <1>3, PTL DEF Spec

-----------------------------------------------------------------------------
(* Nothing of an open question is lost, and every call is settled.         *)

\* The answer of every other server that was counted is under way or given.
LosslessOp(p, b, w, o, i) ==
  Open(o) => \A t \in o.cluster \ {o.from} :
    Asking(p, i, o.from) + Answering(p, b, w, i, o.from, t) + Given(o, t) >= 1
Lossless == \A i \in DOMAIN ops : Asks(ops[i]) => LosslessOp(pipe, inbox, waiting, ops[i], i)

\* The call o has become p, and is open only if it was.
Remains(o, p) ==
  Open(p) => Open(o) /\ p.from = o.from /\ p.cluster = o.cluster /\ p.responses = o.responses
Remaining ==
  /\ DOMAIN ops' = DOMAIN ops
  /\ \A i \in DOMAIN ops : Asks(ops'[i]) => Asks(ops[i]) /\ Remains(ops[i], ops'[i])

LEMMA NowLines == ASSUME IInv' PROVE pipe' \in Lines /\ inbox' \in Lines /\ ops' \in Seq(OpType)
BY DEF IInv, Typed, Lines

LEMMA OpenNow ==
  ASSUME IInv, Counting, NEW i \in DOMAIN ops, Asks(ops[i]), Open(ops[i])
  PROVE  /\ ops[i].cluster = On /\ ops[i].from \in On /\ On \subseteq Servers
         /\ ops[i].pending /\ ~ops[i].local
<1>1. AskOp(pipe, inbox, waiting, On, ops[i], i)
  BY DEF Counting, AskOps
<1>2. ops[i].cluster = On /\ ops[i].from \in On
  BY <1>1 DEF AskOp, Open
<1>3. AskInv(ops[i]) /\ On \subseteq Servers
  BY State DEF OpInv
<1>4. ops[i].pending
  <2>1. ops[i].settled = <<>> /\ ops[i].stage = "done"
    BY DEF Open
  <2>2. ops[i].timer
    <3> SUFFICES ASSUME ~ops[i].timer PROVE FALSE
      OBVIOUS
    <3>1. Len(ops[i].settled) = 1
      BY <1>3, <2>1 DEF AskInv
    <3> QED BY <2>1, <3>1
  <2> QED BY <1>3, <2>2 DEF AskInv
<1> QED BY <1>2, <1>3, <1>4 DEF AskInv

LEMMA LosslessStays ==
  ASSUME IInv, IInv', Counting, Lossless, NEW i \in DOMAIN ops, Asks(ops[i]), Steadily(i),
         NEW o, Remains(ops[i], o)
  PROVE  LosslessOp(pipe', inbox', waiting', o, i)
<1> SUFFICES ASSUME Open(o), NEW t \in o.cluster \ {o.from}
             PROVE  Asking(pipe', i, o.from) + Answering(pipe', inbox', waiting', i, o.from, t)
                      + Given(o, t) >= 1
  BY DEF LosslessOp
<1> DEFINE f == ops[i].from
<1>1. Open(ops[i]) /\ o.from = f /\ o.cluster = ops[i].cluster /\ o.responses = ops[i].responses
  BY DEF Remains
<1>2. ops[i].cluster = On /\ f \in On /\ On \subseteq Servers
  BY <1>1, OpenNow
<1>3. t \in On \ {f} /\ t \in Servers /\ f \in Servers
  BY <1>1, <1>2
<1>4. Asking(pipe, i, f) + Answering(pipe, inbox, waiting, i, f, t) + Given(ops[i], t) >= 1
  BY <1>1, <1>2, <1>3 DEF Lossless, LosslessOp
<1>5. Asking(pipe, i, f) + Answering(pipe, inbox, waiting, i, f, t)
        <= Asking(pipe', i, f) + Answering(pipe', inbox', waiting', i, f, t)
  BY <1>2, <1>3 DEF Steadily
<1>6. pipe \in Lines /\ inbox \in Lines /\ pipe' \in Lines /\ inbox' \in Lines /\ ops[i] \in OpType
  BY State, NowLines
<1>7. /\ Asking(pipe, i, f) \in Nat /\ Answering(pipe, inbox, waiting, i, f, t) \in Nat
      /\ Asking(pipe', i, f) \in Nat /\ Answering(pipe', inbox', waiting', i, f, t) \in Nat
  BY <1>3, <1>6, MoveTypes
<1>8. Given(o, t) = Given(ops[i], t) /\ Given(ops[i], t) \in Nat
  BY <1>1, <1>6, GivenType DEF Given
<1> QED BY <1>1, <1>4, <1>5, <1>7, <1>8

LEMMA LosslessMoves ==
  ASSUME IInv, IInv', Counting, Lossless, Steady, Remaining
  PROVE  Lossless'
<1> SUFFICES ASSUME NEW i \in DOMAIN ops', Asks(ops'[i])
             PROVE  LosslessOp(pipe', inbox', waiting', ops'[i], i)
  BY DEF Lossless
<1>1. i \in DOMAIN ops /\ Asks(ops[i]) /\ Remains(ops[i], ops'[i])
  BY DEF Remaining
<1>2. Steadily(i)
  BY <1>1 DEF Steady
<1> QED BY <1>1, <1>2, LosslessStays

LEMMA OneRemains ==
  ASSUME IInv, NEW k \in DOMAIN ops, NEW p, ops' = [ops EXCEPT ![k] = p],
         Asks(p) => Asks(ops[k]) /\ Remains(ops[k], p)
  PROVE  Remaining
<1>1. DOMAIN ops' = DOMAIN ops /\ \A j \in DOMAIN ops : ops'[j] = IF j = k THEN p ELSE ops[j]
  BY State
<1>2. \A j \in DOMAIN ops : Remains(ops[j], ops[j])
  BY DEF Remains
<1> QED BY <1>1, <1>2 DEF Remaining

LEMMA NoneChanges == ASSUME UNCHANGED ops PROVE Remaining
BY DEF Remaining, Remains

LEMMA StillSteady ==
  ASSUME IInv, UNCHANGED <<pipe, inbox, waiting>>
  PROVE  Steady
<1>1. DOMAIN ops = 1 .. Len(ops)
  BY DEF IInv, Typed
<1>2. 0 \notin DOMAIN ops
  BY <1>1
<1> QED BY <1>2, OthersSteady

-----------------------------------------------------------------------------
LEMMA LosslessTimeouts ==
  ASSUME IInv, IInv', Counting, Lossless, NEW i \in DOMAIN ops,
         Timeout(i) \/ AckTimeout(i) \/ AckCleanup(i)
  PROVE  Lossless'
<1> DEFINE o == ops[i]
<1>1. o \in OpType /\ OpInv(o)
  BY State
<1>2. UNCHANGED <<sub, pipe, inbox, waiting>>
  BY DEF Timeout, AckTimeout, AckCleanup, servers, sockets
<1>3. Steady
  BY <1>2, StillSteady
<1>4. CASE Timeout(i)
  <2>1. o.timer /\ o.kind # "ack" /\ ops' = [ops EXCEPT ![i] = Settle(o, "error")]
    BY <1>4 DEF Timeout
  <2>2. Asks(o) /\ o.settled = <<>>
    BY <1>1, <2>1 DEF OpInv, OpType, AskInv, Asks
  <2> DEFINE p == Settle(o, "error")
  <2>3. p.settled = Append(o.settled, "error")
    BY <1>1, SettleOp
  <2> HIDE DEF p
  <2>4. Remains(o, p)
    <3>1. p.settled # <<>>
      BY <2>2, <2>3
    <3> QED BY <3>1 DEF Remains, Open
  <2>5. Remaining
    BY <2>1, <2>2, <2>4, OneRemains DEF p
  <2> QED BY <1>3, <2>5, LosslessMoves
<1>5. CASE AckTimeout(i)
  <2>1. o.timer /\ o.kind = "ack" /\ ops' = [ops EXCEPT ![i] = Expired(o)]
    BY <1>5 DEF AckTimeout, Expired
  <2>2. ~Asks(Expired(o))
    BY <1>1, <2>1, ExpiredOp DEF Same, Keeps, Asks
  <2>3. Remaining
    BY <2>1, <2>2, OneRemains
  <2> QED BY <1>3, <2>3, LosslessMoves
<1>6. CASE AckCleanup(i)
  <2>1. o.kind = "ack" /\ ops' = [ops EXCEPT ![i] = Over(o)]
    BY <1>6 DEF AckCleanup, Over
  <2>2. ~Asks(Over(o))
    BY <1>1, <2>1, OverOp DEF Same, Keeps, Asks
  <2>3. Remaining
    BY <2>1, <2>2, OneRemains
  <2> QED BY <1>3, <2>3, LosslessMoves
<1> QED BY <1>4, <1>5, <1>6

LEMMA LosslessStay ==
  ASSUME IInv, IInv', Counting, Lossless, UNCHANGED <<pipe, inbox, waiting, ops>>
  PROVE  Lossless'
BY StillSteady, NoneChanges, LosslessMoves

LEMMA LosslessRunDelayed ==
  ASSUME IInv, IInv', Counting, Lossless, NEW s \in Servers, RunDelayed(s)
  PROVE  Lossless'
<1> DEFINE i == Head(delayed[s])
<1>1. delayed[s] # <<>> /\ Apply(s, i, ops[i]) /\ UNCHANGED <<sub, pipe, inbox>>
  BY DEF RunDelayed
<1>2. i \in Nat /\ i \in DOMAIN ops /\ ops[i].kind \in {"broadcast", "ack"}
  BY <1>1, UnderWay, DelayedLess
<1> HIDE DEF i
<1>3. /\ ops' = ops \/ ops' = [ops EXCEPT ![i] = ClientCount(ops[i], Cardinality(Reached(s, ops[i])))]
      /\ ops[i].kind = "broadcast" => ops' = ops
  BY DEF RunDelayed, i
<1>4. Typed
  BY DEF IInv
<1>5. waiting' = IF ops[i].kind \in {"ack", "emit"} THEN waiting \union (Heard(s, ops[i]) \X {i}) ELSE waiting
  BY <1>1, <1>2, <1>4, Applied
<1>6. \A t \in Servers, j \in Nat : j # i => (<<t, j>> \in waiting' <=> <<t, j>> \in waiting)
  BY <1>5
<1>7. Steady
  BY <1>1, <1>2, <1>6, OthersSteady DEF Asks
<1>8. CASE ops' = ops
  BY <1>7, <1>8, NoneChanges, LosslessMoves
<1>9. CASE ops' # ops
  <2> DEFINE p == ClientCount(ops[i], Cardinality(Reached(s, ops[i])))
  <2>1. ops[i].kind = "ack" /\ ops[i] \in OpType /\ OpInv(ops[i]) /\ Cardinality(Reached(s, ops[i])) \in Nat
    BY <1>2, <1>3, <1>4, <1>9, State, ReachedClients
  <2>2. Same(ops[i], p)
    BY <2>1, ClientCountOp
  <2>3. ops' = [ops EXCEPT ![i] = p]
    BY <1>3, <1>9
  <2> HIDE DEF p
  <2>4. ~Asks(p)
    BY <2>1, <2>2 DEF Same, Keeps, Asks
  <2>5. Remaining
    BY <1>2, <2>3, <2>4, OneRemains
  <2> QED BY <1>7, <2>5, LosslessMoves
<1> QED BY <1>8, <1>9

-----------------------------------------------------------------------------
\* A message that is no answer to question i, and no request that another server
\* has to read, is read by server s.
LEMMA ReadSteady ==
  ASSUME IInv, NEW s \in Servers, inbox[s] # <<>>, inbox' = Taken(inbox, s), UNCHANGED <<pipe, waiting>>,
         NEW i \in DOMAIN ops,
         Head(inbox[s]) \in Requests(i) => s = ops[i].from, \A t : Head(inbox[s]) \notin Answers(i, t)
  PROVE  Steadily(i)
<1> DEFINE m == Head(inbox[s])
           f == ops[i].from
<1>1. pipe \in Lines /\ inbox \in Lines /\ f \in Servers
  BY State DEF OpType
<1>2. /\ inbox' \in Lines
      /\ \A x \in Servers : \A V : Count(inbox'[x], V) = Count(inbox[x], V) - IF x = s /\ m \in V THEN 1 ELSE 0
  BY <1>1, TakenCount
<1>3. \A x \in Servers : \A V : Count(pipe[x], V) \in Nat /\ Count(inbox[x], V) \in Nat
  BY <1>1, LineCount
<1>4. (m \in Requests(i) => s = f) /\ \A t : m \notin Answers(i, t)
  OBVIOUS
<1> HIDE DEF m, f
<1>5. ASSUME NEW t \in Servers, t # f
      PROVE  /\ Count(inbox[t], Requests(i)) <= Count(inbox'[t], Requests(i))
             /\ Count(inbox[f], Answers(i, t)) <= Count(inbox'[f], Answers(i, t))
             /\ Count(pipe[f], Requests(i)) <= Count(pipe'[f], Requests(i))
             /\ Count(pipe[t], Answers(i, t)) <= Count(pipe'[t], Answers(i, t))
  <2>1. Count(inbox'[t], Requests(i)) = Count(inbox[t], Requests(i))
    <3>1. ~(t = s /\ m \in Requests(i))
      BY <1>4, <1>5
    <3>2. Count(inbox[t], Requests(i)) \in Nat
      BY <1>3
    <3> QED BY <1>2, <3>1, <3>2
  <2>2. Count(inbox'[f], Answers(i, t)) = Count(inbox[f], Answers(i, t))
    <3>1. m \notin Answers(i, t)
      BY <1>4
    <3>2. Count(inbox[f], Answers(i, t)) \in Nat
      BY <1>1, <1>3
    <3> QED BY <1>1, <1>2, <3>1, <3>2
  <2>3. /\ Count(pipe[f], Requests(i)) \in Nat /\ Count(pipe[t], Answers(i, t)) \in Nat
        /\ Count(inbox[t], Requests(i)) \in Nat /\ Count(inbox[f], Answers(i, t)) \in Nat
    BY <1>1, <1>3
  <2>4. Count(pipe'[f], Requests(i)) = Count(pipe[f], Requests(i))
    OBVIOUS
  <2>5. Count(pipe'[t], Answers(i, t)) = Count(pipe[t], Answers(i, t))
    OBVIOUS
  <2> QED BY <2>1, <2>2, <2>3, <2>4, <2>5
<1> QED BY <1>1, <1>2, <1>5, LinesSteady DEF f

LEMMA LosslessIgnoreSelf ==
  ASSUME IInv, IInv', Counting, Lossless, NEW s \in Servers, IgnoreSelf(s)
  PROVE  Lossless'
<1> DEFINE m == Head(inbox[s])
<1>1. /\ inbox[s] # <<>> /\ m.type = "request" /\ ops[m.op].from = s
      /\ inbox' = Taken(inbox, s) /\ UNCHANGED <<pipe, waiting, ops>>
  BY DEF IgnoreSelf, Incoming, Read, Taken, sockets
<1>2. m \in MessageType
  BY <1>1, UnderWay, ReadMessage
<1> HIDE DEF m
<1>3. ASSUME NEW i \in DOMAIN ops PROVE Steadily(i)
  <2>1. m \in Requests(i) => s = ops[i].from
    BY <1>1, <1>2, MessageOf
  <2>2. \A t : m \notin Answers(i, t)
    BY <1>1, <1>2, MessageOf
  <2> QED BY <1>1, <2>1, <2>2, ReadSteady DEF m
<1>4. Steady
  BY <1>3 DEF Steady
<1> QED BY <1>1, <1>4, NoneChanges, LosslessMoves

LEMMA LosslessReceiveRequest ==
  ASSUME IInv, IInv', Counting, Lossless, NEW s \in Servers, ReceiveRequest(s)
  PROVE  Lossless'
<1>1. Steady
  BY CountReceiveRequest
<1>2. UNCHANGED ops
  BY DEF ReceiveRequest, Serve
<1> QED BY <1>1, <1>2, NoneChanges, LosslessMoves

LEMMA LosslessRedisRoutes ==
  ASSUME IInv, IInv', Counting, Lossless, NEW s \in Servers, RedisRoutes(s)
  PROVE  Lossless'
<1>1. Steady
  BY CountRedisRoutes
<1>2. UNCHANGED ops
  BY DEF RedisRoutes
<1> QED BY <1>1, <1>2, NoneChanges, LosslessMoves

LEMMA LosslessAnswer ==
  ASSUME IInv, IInv', Counting, Lossless, NEW x \in Process, NEW k \in DOMAIN ops, Answer(x, k)
  PROVE  Lossless'
<1> DEFINE o == ops[k]
           s == IF x \in Clients THEN home[x] ELSE x
           p == ClientAck(o, x)
<1>1. /\ <<x, k>> \in waiting
      /\ s = o.from => ops' = [ops EXCEPT ![k] = p]
      /\ s # o.from => UNCHANGED ops
  BY DEF Answer
<1>2. o \in OpType /\ OpInv(o) /\ k \in Nat
  BY State
<1>3. Waits(ops, x, k)
  BY <1>1, <1>2 DEF IInv, References, Known
<1>4. o.kind # "ack" => s # o.from
  BY <1>3, ClusterAssumption DEF Waits
<1>5. Steady
  BY CountAnswer
<1>6. CASE s = o.from
  <2>1. o.kind = "ack"
    BY <1>4, <1>6
  <2>2. Same(o, p)
    BY <1>2, <2>1, ClientAckOp
  <2> HIDE DEF p
  <2>3. ~Asks(p)
    BY <2>1, <2>2 DEF Same, Keeps, Asks
  <2>4. Remaining
    BY <1>1, <1>6, <2>3, OneRemains
  <2> QED BY <1>5, <2>4, LosslessMoves
<1>7. CASE s # o.from
  BY <1>1, <1>5, <1>7, NoneChanges, LosslessMoves
<1> QED BY <1>6, <1>7

LEMMA LosslessRedisCounts ==
  ASSUME IInv, IInv', Counting, Lossless, NEW s \in Servers, RedisCounts(s)
  PROVE  Lossless'
<1> DEFINE m == Head(pipe[s])
           k == m.op
           o == ops[k]
           p == Numbered(o, Cardinality(On))
<1>1. /\ pipe[s] # <<>> /\ m.type = "numsub" /\ pipe' = Taken(pipe, s)
      /\ ops' = [ops EXCEPT ![k] = p] /\ UNCHANGED <<sub, inbox, waiting>>
  BY DEF RedisCounts, Taken, Numbered, sockets
<1>2. pipe \in Lines /\ inbox \in Lines
  BY State
<1>3. m \in MessageType /\ PipeMessage(ops, home, s, m) /\ o.stage = "asked"
  BY <1>1, UnderWay, TakeMessage
<1>4. k \in DOMAIN ops
  BY <1>3 DEF PipeMessage
<1>5. p.stage = "counted" /\ p.kind = o.kind
  BY <1>4, State DEF Numbered, OpType
<1> HIDE DEF p
<1>6. Remaining
  <2>1. Asks(p) => Asks(o) /\ Remains(o, p)
    BY <1>5 DEF Asks, Remains, Open
  <2> QED BY <1>1, <1>4, <2>1, OneRemains
<1> HIDE DEF o, k, m
<1>7. /\ pipe' \in Lines
      /\ \A x \in Servers : \A V :
           Count(pipe'[x], V) = Count(pipe[x], V) - IF x = s /\ m \in V THEN 1 ELSE 0
  BY <1>1, <1>2, TakenCount DEF m
<1>8. ASSUME NEW i \in DOMAIN ops PROVE Steadily(i)
  <2>1. ops[i].from \in Servers
    BY State DEF OpType
  <2>2. \A t : m \notin Requests(i) /\ m \notin Answers(i, t)
    BY <1>1, <1>3, MessageOf
  <2>3. \A x \in Servers : \A V : Count(pipe[x], V) \in Nat /\ Count(inbox[x], V) \in Nat
    BY <1>2, LineCount
  <2>4. \A x \in Servers : Count(pipe'[x], Requests(i)) = Count(pipe[x], Requests(i))
    BY <1>7, <2>2, <2>3
  <2>5. \A x, t \in Servers : Count(pipe'[x], Answers(i, t)) = Count(pipe[x], Answers(i, t))
    BY <1>7, <2>2, <2>3
  <2>6. ASSUME NEW t \in Servers
        PROVE  LET f == ops[i].from IN
               /\ Count(pipe[f], Requests(i)) <= Count(pipe'[f], Requests(i))
               /\ Count(inbox[t], Requests(i)) <= Count(inbox'[t], Requests(i))
               /\ Count(pipe[t], Answers(i, t)) <= Count(pipe'[t], Answers(i, t))
               /\ Count(inbox[f], Answers(i, t)) <= Count(inbox'[f], Answers(i, t))
    <3> DEFINE f == ops[i].from
    <3>1. /\ Count(pipe[f], Requests(i)) \in Nat /\ Count(pipe[t], Answers(i, t)) \in Nat
          /\ Count(inbox[t], Requests(i)) \in Nat /\ Count(inbox[f], Answers(i, t)) \in Nat
      BY <2>1, <2>3
    <3>2. /\ Count(pipe'[f], Requests(i)) = Count(pipe[f], Requests(i))
          /\ Count(pipe'[t], Answers(i, t)) = Count(pipe[t], Answers(i, t))
      BY <2>1, <2>4, <2>5
    <3>3. /\ Count(inbox'[t], Requests(i)) = Count(inbox[t], Requests(i))
          /\ Count(inbox'[f], Answers(i, t)) = Count(inbox[f], Answers(i, t))
      BY <1>1
    <3> QED BY <3>1, <3>2, <3>3
  <2> QED BY <1>1, <1>2, <1>7, <2>6, LinesSteady
<1>9. Steady
  BY <1>8 DEF Steady
<1> QED BY <1>6, <1>9, LosslessMoves
LEMMA LosslessReceiveResponse ==
  ASSUME IInv, IInv', Counting, Lossless, NEW s \in Servers, ReceiveResponse(s)
  PROVE  Lossless'
<1> DEFINE m == Head(inbox[s])
           k == m.op
           o == ops[k]
           p == Responded(o, m)
           x == m.by
<1>1. /\ inbox[s] # <<>> /\ inbox' = Taken(inbox, s) /\ m.type # "request"
      /\ UNCHANGED <<sub, pipe, waiting>> /\ ops' = [ops EXCEPT ![k] = p]
  BY DEF ReceiveResponse, Incoming, Read, Taken, sockets, Responded
<1>2. pipe \in Lines /\ inbox \in Lines /\ pipe' \in Lines /\ inbox' \in Lines
  BY State, NowLines
<1>3. m \in MessageType /\ InboxMessage(ops, home, s, m)
  BY <1>1, UnderWay, ReadMessage
<1>4. k \in DOMAIN ops /\ o \in OpType /\ OpInv(o)
  <2>1. k \in DOMAIN ops
    BY <1>3 DEF InboxMessage
  <2> QED BY <2>1, State
<1>5. m.type = "answer" => o.from = s /\ x \in Servers \ {s} /\ Asks(o)
  BY <1>3 DEF InboxMessage
<1>6. m.type # "answer" => o.kind = "ack"
  BY <1>1, <1>3 DEF InboxMessage
<1>7. \A V : Count(inbox'[s], V) = Count(inbox[s], V) - IF m \in V THEN 1 ELSE 0
  BY <1>1, <1>2, TakenCount
<1>8. p \in OpType /\ Same(o, p)
  BY <1>1, <1>3, <1>4, RespondedOp
<1>9. DOMAIN ops' = DOMAIN ops /\ \A i \in DOMAIN ops : ops'[i] = IF i = k THEN p ELSE ops[i]
  BY <1>1, State
<1>10. ASSUME NEW i \in DOMAIN ops, i # k \/ m.type # "answer" PROVE Steadily(i)
  <2>1. m \notin Requests(i) /\ \A t : m \notin Answers(i, t)
    BY <1>1, <1>3, <1>10, MessageOf
  <2> QED BY <1>1, <2>1, ReadSteady
<1>11. ASSUME m.type = "answer", ~o.pending PROVE ~Open(p)
  <2>1. p = o
    BY <1>11 DEF Responded, Response
  <2>2. Open(o) => o.pending
    BY <1>4, <1>5, <1>11, OpenNow
  <2> HIDE DEF p
  <2> QED BY <1>11, <2>1, <2>2
<1>12. ASSUME m.type = "answer", o.pending, Open(p)
       PROVE  LosslessOp(pipe', inbox', waiting', p, k)
  <2>1. p.responses = Append(o.responses, x) /\ o.settled = <<>>
    <3> DEFINE a == Answered(o, x)
    <3>1. x \in Process
      BY <1>5, <1>12 DEF Process
    <3>2. a \in OpType /\ a.responses = Append(o.responses, x)
      BY <1>4, <3>1, AnsweredOp
    <3>3. p = IF a.current = a.expected THEN Settle(a, "ok") ELSE a
      BY <1>12 DEF Responded, Response, Answered
    <3> HIDE DEF a, p
    <3>4. Settle(a, "ok").responses = a.responses
      BY <3>2, SettleOp
    <3>5. o.settled = <<>>
      BY <1>4, <1>5, <1>12 DEF OpInv, AskInv
    <3> QED BY <3>2, <3>3, <3>4, <3>5
  <2>2. o.from = s /\ p.from = s /\ p.cluster = o.cluster /\ Open(o)
    BY <1>5, <1>8, <1>12, <2>1 DEF Same, Keeps, Open
  <2>3. \A t \in Servers : Given(o, t) \in Nat /\ Given(p, t) = Given(o, t) + IF x = t THEN 1 ELSE 0
    <3>1. o.responses \in Seq(Process) /\ x \in Process
      BY <1>4, <1>5, <1>12 DEF OpType, Process
    <3>2. \A t : Count(Append(o.responses, x), {t}) = Count(o.responses, {t}) + IF x \in {t} THEN 1 ELSE 0
      BY <3>1, CountAppend
    <3>3. \A t \in Servers : Given(o, t) \in Nat
      BY <1>4, GivenType
    <3> QED BY <2>1, <3>2, <3>3 DEF Given
  <2>4. o.cluster \subseteq Servers
    BY <1>4 DEF OpType
  <2> SUFFICES ASSUME NEW t \in o.cluster \ {s}
               PROVE  Asking(pipe', k, s) + Answering(pipe', inbox', waiting', k, s, t) + Given(p, t) >= 1
    BY <2>2 DEF LosslessOp
  <2>5. Asking(pipe', k, s) \in Nat /\ Answering(pipe', inbox', waiting', k, s, t) \in Nat
    BY <1>2, <2>4, MoveTypes
  <2>6. CASE t = x
    <3>1. Given(o, x) \in Nat /\ Given(p, x) = Given(o, x) + 1
      BY <2>3, <2>4, <2>6
    <3> HIDE DEF p, o, x, k
    <3> QED BY <2>5, <2>6, <3>1
  <2>7. CASE t # x
    <3>1. Given(p, t) = Given(o, t)
      BY <2>3, <2>4, <2>7
    <3>2. Asking(pipe, k, s) + Answering(pipe, inbox, waiting, k, s, t) + Given(o, t) >= 1
      BY <1>4, <1>5, <1>12, <2>2 DEF Lossless, LosslessOp
    <3>3. m \notin Answers(k, t)
      BY <1>3, <2>7, MessageOf
    <3>4. Count(inbox'[s], Answers(k, t)) = Count(inbox[s], Answers(k, t))
      <4>1. Count(inbox[s], Answers(k, t)) \in Nat
        BY <1>2, LineCount
      <4> QED BY <1>7, <3>3, <4>1
    <3>5. inbox'[t] = inbox[t]
      BY <1>1, <1>2, <2>4 DEF Taken, Lines
    <3>6. /\ Asking(pipe', k, s) = Asking(pipe, k, s)
          /\ Answering(pipe', inbox', waiting', k, s, t) = Answering(pipe, inbox, waiting, k, s, t)
      BY <1>1, <3>4, <3>5 DEF Asking, Answering
    <3> QED BY <3>1, <3>2, <3>6
  <2> QED BY <2>6, <2>7
<1> SUFFICES ASSUME NEW i \in DOMAIN ops, Asks(ops'[i])
             PROVE  LosslessOp(pipe', inbox', waiting', ops'[i], i)
  BY <1>9 DEF Lossless
<1>13. CASE i = k /\ m.type = "answer"
  <2>1. ops'[i] = p
    BY <1>9, <1>13
  <2> HIDE DEF p, o, k, m
  <2> QED BY <1>11, <1>12, <1>13, <2>1 DEF LosslessOp
<1>14. CASE i # k
  <2>1. ops'[i] = ops[i]
    BY <1>9, <1>14
  <2>2. Steadily(i) /\ Remains(ops[i], ops[i])
    BY <1>10, <1>14 DEF Remains
  <2> QED BY <2>1, <2>2, LosslessStays
<1>15. CASE i = k /\ m.type # "answer"
  <2>1. ~Asks(p)
    BY <1>6, <1>8, <1>15 DEF Same, Keeps, Asks
  <2> QED BY <1>9, <1>15, <2>1
<1> QED BY <1>13, <1>14, <1>15

LEMMA LosslessCountReply ==
  ASSUME IInv, IInv', Counting, Lossless, NEW k \in DOMAIN ops, CountReply(k)
  PROVE  Lossless'
<1> DEFINE o == ops[k]
           p == Continued(o)
           m == Request(o.from, k)
           alone == o.kind # "ack" /\ o.count = 1
           msgs == IF alone \/ o.kind = "ack" THEN <<>> ELSE <<m>>
           q == Sent(pipe, o.from, msgs)
<1>1. /\ o.stage = "counted" /\ pipe' = q /\ ops' = [ops EXCEPT ![k] = p]
      /\ UNCHANGED <<sub, inbox, waiting>>
  BY DEF CountReply, Published, Sent, Continued, Replied, Expecting, Armed, Pending, sockets
<1>2. /\ pipe \in Lines /\ pipe' \in Lines /\ inbox' \in Lines /\ o \in OpType /\ OpInv(o) /\ k \in Nat
  BY State, NowLines
<1>3. o.from \in Servers /\ o.kind \in {"ack", "fetch", "emit"}
  BY <1>1, <1>2 DEF OpType, OpInv
<1>4. m \in MessageType /\ m \in Requests(k)
  BY <1>2, <1>3, RequestMessage, MessageOf
<1>5. msgs \in Seq(MessageType)
  <2> HIDE DEF m, o
  <2> QED BY <1>4
<1>6. Steady
  BY <1>1, <1>3, <1>5, SentSteady
<1>7. p \in OpType /\ Keeps(o, p) /\ p.cluster = o.cluster
  BY <1>1, <1>2, <1>3, ContinuedOp
<1>8. DOMAIN ops' = DOMAIN ops /\ \A i \in DOMAIN ops : ops'[i] = IF i = k THEN p ELSE ops[i]
  BY <1>1, State
<1>9. ASSUME Asks(p), Open(p) PROVE LosslessOp(pipe', inbox', waiting', p, k)
  <2>1. o.kind # "ack"
    BY <1>7, <1>9 DEF Keeps, Asks
  <2>2. ~alone
    <3> SUFFICES ASSUME alone PROVE FALSE
      OBVIOUS
    <3> DEFINE d == Replied(o)
    <3>1. d \in OpType /\ p = Settle(d, "ok")
      BY <1>2, RepliedOp DEF Continued
    <3> HIDE DEF d, p
    <3>2. p.settled = Append(d.settled, "ok") /\ d.settled \in Seq({"ok", "error"})
      BY <3>1, SettleOp DEF OpType
    <3>3. p.settled # <<>>
      BY <3>2
    <3> QED BY <1>9, <3>3 DEF Open
  <2>3. msgs = <<m>>
    BY <2>1, <2>2
  <2> HIDE DEF msgs, alone
  <2>4. Count(pipe'[o.from], Requests(k)) = Count(pipe[o.from], Requests(k)) + Count(msgs, Requests(k))
    <3>1. Count(q[o.from], Requests(k)) = Count(pipe[o.from], Requests(k)) + Count(msgs, Requests(k))
      BY <1>2, <1>3, <1>5, SentCount
    <3> QED BY <1>1, <3>1
  <2>5. Count(msgs, Requests(k)) = 1
    <3> HIDE DEF m
    <3> QED BY <1>4, <2>3, CountOne
  <2>6. Count(pipe[o.from], Requests(k)) \in Nat
    BY <1>2, <1>3, LineCount
  <2>7. p.from = o.from /\ p.cluster \subseteq Servers
    BY <1>7 DEF Keeps, OpType
  <2> HIDE DEF p
  <2> SUFFICES ASSUME NEW t \in p.cluster \ {p.from}
               PROVE  Asking(pipe', k, p.from) + Answering(pipe', inbox', waiting', k, p.from, t)
                        + Given(p, t) >= 1
    BY DEF LosslessOp
  <2>8. Asking(pipe', k, p.from) >= 1 /\ Asking(pipe', k, p.from) \in Nat
    BY <2>4, <2>5, <2>6, <2>7 DEF Asking
  <2>9. Answering(pipe', inbox', waiting', k, p.from, t) \in Nat /\ Given(p, t) \in Nat
    BY <1>2, <1>3, <1>7, <2>7, MoveTypes, GivenType
  <2> HIDE DEF o
  <2> QED BY <2>8, <2>9
<1> HIDE DEF p, q, msgs, m, o
<1> SUFFICES ASSUME NEW i \in DOMAIN ops, Asks(ops'[i])
             PROVE  LosslessOp(pipe', inbox', waiting', ops'[i], i)
  BY <1>8 DEF Lossless
<1>10. CASE i = k
  <2>1. ops'[i] = p
    BY <1>8, <1>10
  <2> QED BY <1>9, <1>10, <2>1 DEF LosslessOp
<1>11. CASE i # k
  <2>1. ops'[i] = ops[i]
    BY <1>8, <1>11
  <2>2. Steadily(i) /\ Remains(ops[i], ops[i])
    BY <1>6, <2>1 DEF Remains, Steady
  <2> QED BY <2>1, <2>2, LosslessStays
<1> QED BY <1>10, <1>11

LEMMA LosslessCalls ==
  ASSUME IInv, IInv', Counting, Lossless, NEW s \in Servers, Calls(s)
  PROVE  Lossless'
<1>1. Begins
  BY CountCalls
<1> SUFFICES ASSUME NEW i \in DOMAIN ops', Asks(ops'[i])
             PROVE  LosslessOp(pipe', inbox', waiting', ops'[i], i)
  BY DEF Lossless
<1>2. CASE i \in DOMAIN ops
  <2>1. ops'[i] = ops[i] /\ Steadily(i)
    BY <1>1, <1>2 DEF Begins, Steady
  <2>2. Remains(ops[i], ops[i])
    BY DEF Remains
  <2> QED BY <1>2, <2>1, <2>2, LosslessStays
<1>3. CASE i \notin DOMAIN ops
  BY <1>1, <1>3 DEF Begins, LosslessOp
<1> QED BY <1>2, <1>3

\* When a server begins or ceases to listen, no call is open any more.
LEMMA DisturbedClosed ==
  ASSUME IInv, ops' = Disturbed
  PROVE  Lossless'
<1>1. \A i \in DOMAIN ops' : ops'[i].cluster = {} \/ ops'[i].settled # <<>>
  <2> SUFFICES ASSUME NEW i \in DOMAIN ops PROVE ops'[i].cluster = {} \/ ops'[i].settled # <<>>
    BY DEF Disturbed
  <2>1. ops[i] \in OpType /\ ops'[i] = IF ops[i].settled = <<>> THEN Unlike(ops[i]) ELSE ops[i]
    BY State DEF Disturbed, Unlike
  <2>2. Unlike(ops[i]).cluster = {}
    BY <2>1, UnlikeOp
  <2> QED BY <2>1, <2>2
<1> QED BY <1>1 DEF Lossless, LosslessOp, Open

LEMMA LosslessSubscribe ==
  ASSUME IInv, IInv', Counting, Lossless, NEW s \in Servers, Subscribe(s)
  PROVE  Lossless'
<1>1. UNCHANGED <<pipe, inbox, waiting>> /\ (ops' = Disturbed \/ UNCHANGED ops)
  BY DEF Subscribe, sockets
<1> QED BY <1>1, LosslessStay, DisturbedClosed

LEMMA LosslessCrash ==
  ASSUME IInv, IInv', Counting, Lossless, NEW s \in Servers, Crash(s)
  PROVE  Lossless'
<1>1. pipe' = Emptied(pipe, s) /\ inbox' = Emptied(inbox, s) /\ UNCHANGED waiting
  BY DEF Crash, Emptied
<1>2. ops' = Disturbed \/ (UNCHANGED ops /\ s \notin On)
  BY DEF Crash, On
<1>3. CASE UNCHANGED ops /\ s \notin On
  <2>1. pipe \in Lines /\ inbox \in Lines /\ pipe' \in Lines /\ inbox' \in Lines
    BY State, NowLines
  <2>2. \A x \in Servers : x # s => pipe'[x] = pipe[x] /\ inbox'[x] = inbox[x]
    BY <1>1, <2>1 DEF Emptied, Lines
  <2>3. \A x \in Servers : \A V : Count(pipe[x], V) \in Nat /\ Count(inbox[x], V) \in Nat
    BY <2>1, LineCount
  <2>4. \A x \in On : \A V : /\ Count(pipe[x], V) <= Count(pipe'[x], V)
                             /\ Count(inbox[x], V) <= Count(inbox'[x], V)
    <3> SUFFICES ASSUME NEW x \in On, NEW V
                 PROVE  /\ Count(pipe[x], V) <= Count(pipe'[x], V)
                        /\ Count(inbox[x], V) <= Count(inbox'[x], V)
      OBVIOUS
    <3>1. x \in Servers /\ x # s
      BY <1>3 DEF On
    <3>2. Count(pipe'[x], V) = Count(pipe[x], V) /\ Count(inbox'[x], V) = Count(inbox[x], V)
      BY <2>2, <3>1
    <3>3. Count(pipe[x], V) \in Nat /\ Count(inbox[x], V) \in Nat
      BY <2>3, <3>1
    <3> QED BY <3>2, <3>3
  <2>5. ASSUME NEW i \in DOMAIN ops PROVE Steadily(i)
    BY <1>1, <2>1, <2>4, LinesSteady
  <2>6. Steady
    BY <2>5 DEF Steady
  <2> QED BY <1>3, <2>6, NoneChanges, LosslessMoves
<1> QED BY <1>2, <1>3, DisturbedClosed

-----------------------------------------------------------------------------
LEMMA LosslessNext ==
  ASSUME IInv, IInv', Counting, Lossless, [Next]_vars
  PROVE  Lossless'
<1>1. ASSUME NEW s \in Servers, \/ Calls(s) \/ RunDelayed(s) \/ ReceiveRequest(s) \/ IgnoreSelf(s)
                                \/ ReceiveResponse(s) \/ RedisCounts(s) \/ RedisRoutes(s)
                                \/ Subscribe(s) \/ Crash(s)
      PROVE  Lossless'
  BY <1>1, LosslessCalls, LosslessRunDelayed, LosslessReceiveRequest, LosslessIgnoreSelf,
     LosslessReceiveResponse, LosslessRedisCounts, LosslessRedisRoutes, LosslessSubscribe, LosslessCrash
<1>2. ASSUME NEW i \in DOMAIN ops, CountReply(i) \/ Timeout(i) \/ AckTimeout(i) \/ AckCleanup(i)
      PROVE  Lossless'
  BY <1>2, LosslessCountReply, LosslessTimeouts
<1>3. ASSUME NEW x \in Clients \union Servers, NEW i \in DOMAIN ops, Answer(x, i) PROVE Lossless'
  BY <1>3, LosslessAnswer DEF Process
<1>4. ASSUME NEW c \in Clients, ClientLeaves(c) PROVE Lossless'
  BY <1>4, LosslessStay DEF ClientLeaves, servers
<1>5. CASE UNCHANGED vars
  BY <1>5, LosslessStay DEF vars, servers, sockets
<1> QED BY <1>1, <1>2, <1>3, <1>4, <1>5 DEF Next

LEMMA LosslessInit == Init => Lossless
<1>1. Init => DOMAIN ops = {}
  BY DEF Init
<1> QED BY <1>1 DEF Lossless
-----------------------------------------------------------------------------
LEMMA QuietLines ==
  ASSUME Quiet
  PROVE  /\ \A x \in Servers : \A V : Count(pipe[x], V) = 0 /\ Count(delayed[x], V) = 0
         /\ \A x \in On : \A V : Count(inbox[x], V) = 0
<1>1. \A x \in Servers : pipe[x] = <<>> /\ delayed[x] = <<>>
  BY DEF Quiet
<1>2. \A x \in On : inbox[x] = <<>>
  BY DEF Quiet, On
<1> QED BY <1>1, <1>2, CountEmpty

LEMMA AsksComplete ==
  ASSUME IInv, Counting, Lossless, Quiet, NEW i \in Calling, Asks(ops[i]), AllAnswered(i),
         ops[i].cluster # {}
  PROVE  ops[i].settled # <<>>
<1> SUFFICES ASSUME ops[i].settled = <<>> PROVE FALSE
  OBVIOUS
<1> DEFINE o == ops[i]
           f == o.from
           q == o.responses
           C == o.cluster \ {f}
<1>1. i \in DOMAIN ops /\ o \in OpType /\ AskInv(o) /\ AskOp(pipe, inbox, waiting, On, o, i)
  BY State DEF Calling, OpInv, Counting, AskOps
<1>2. Open(o)
  BY DEF Open, Quiet
<1>3. o.cluster = On /\ f \in On /\ On \subseteq Servers /\ o.pending /\ ~o.local
  BY <1>1, <1>2, OpenNow
<1>4. Len(q) # o.count - 1 /\ o.count = Cardinality(o.cluster)
  BY <1>1, <1>2, <1>3 DEF AskInv, AskOp, Open
<1>5. ASSUME NEW t \in C PROVE Given(o, t) = 1
  <2>1. t \in Servers /\ t \in On
    BY <1>3
  <2>2. Asking(pipe, i, f) = 0 /\ Answering(pipe, inbox, waiting, i, f, t) = 0
    <3>1. <<t, i>> \notin waiting
      BY DEF AllAnswered
    <3>2. /\ Count(pipe[f], Requests(i)) = 0 /\ Count(inbox[t], Requests(i)) = 0
          /\ Count(pipe[t], Answers(i, t)) = 0 /\ Count(inbox[f], Answers(i, t)) = 0
      BY <1>3, <2>1, QuietLines
    <3> QED BY <3>1, <3>2 DEF Asking, Answering, Owed
  <2>3. Given(o, t) \in Nat
    BY <1>1, GivenType
  <2>4. Asking(pipe, i, f) + Answering(pipe, inbox, waiting, i, f, t) + Given(o, t) >= 1
    BY <1>1, <1>2 DEF Lossless, LosslessOp
  <2>5. Asking(pipe, i, f) + Answering(pipe, inbox, waiting, i, f, t) + Given(o, t) <= 1
    BY <1>1, <2>1 DEF AskOp
  <2> QED BY <2>2, <2>3, <2>4, <2>5
<1>6. q \in Seq(Process) /\ \A k \in DOMAIN q : q[k] \in C
  BY <1>1, <1>2 DEF OpType, AskOp
<1>7. \A x : Count(q, {x}) <= 1
  <2> TAKE x
  <2>1. CASE x \in C
    BY <1>5, <2>1 DEF Given
  <2>2. CASE x \notin C
    <3>1. \A k \in DOMAIN q : q[k] \notin {x}
      BY <1>6, <2>2
    <3>2. Count(q, {x}) = 0
      BY <1>6, <3>1, CountType
    <3> QED BY <3>2
  <2> QED BY <2>1, <2>2
<1>8. Values(q) = C
  <2>1. \A t \in C : t \in Values(q)
    <3> SUFFICES ASSUME NEW t \in C PROVE t \in Values(q)
      OBVIOUS
    <3>1. Count(q, {t}) # 0
      BY <1>5 DEF Given
    <3>2. ~\A k \in DOMAIN q : q[k] \notin {t}
      BY <1>6, <3>1, CountType
    <3> QED BY <3>2 DEF Values
  <2> QED BY <1>6, <2>1 DEF Values
<1>9. Cardinality(C) = Len(q)
  BY <1>6, <1>7, <1>8, OnceEach
<1>10. Cardinality(C) = Cardinality(o.cluster) - 1
  <2>1. IsFiniteSet(o.cluster) /\ f \in o.cluster
    BY <1>3, ClusterAssumption, FS_Subset
  <2> QED BY <2>1, FS_RemoveElement
<1> HIDE DEF C, q
<1> QED BY <1>4, <1>9, <1>10

LEMMA AcksComplete ==
  ASSUME IInv, Acking, Quiet, NEW i \in Calling, ops[i].kind = "ack", AllAnswered(i),
         ops[i].cluster # {}, ops[i].local => ops[i].cluster = {ops[i].from}
  PROVE  ops[i].settled # <<>>
<1> SUFFICES ASSUME ops[i].settled = <<>> PROVE FALSE
  OBVIOUS
<1> DEFINE o == ops[i]
           f == o.from
           v == Now(i, f)
           q == o.responses
<1>1. i \in DOMAIN ops /\ o \in OpType /\ f \in Servers /\ AckInv(o) /\ AckNow(i) /\ o.stage = "done"
  BY AckState DEF Calling, Acking, Quiet
<1>2. v \in TrackType /\ home \in Homes
  BY <1>1, AckState, Tracks
<1>3. Each(v, home, o) /\ Live(v, home, On, o) /\ f \in On /\ o.cluster = On
      /\ o.count = Cardinality(o.cluster)
  BY <1>1 DEF AckNow, Whole, Live
<1>4. ~(o.current = o.count /\ Len(q) = o.clients)
  BY <1>1 DEF AckInv
<1>5. On \subseteq Servers
  BY DEF On
<1>6. \A t \in On : Coming(v, f, t) = 0 /\ v.telling[t] = 0
  <2> SUFFICES ASSUME NEW t \in On PROVE Coming(v, f, t) = 0 /\ v.telling[t] = 0
    OBVIOUS
  <2>1. /\ Count(pipe[f], Requests(i)) = 0 /\ Count(delayed[f], {i}) = 0 /\ Count(inbox[t], Requests(i)) = 0
        /\ Count(pipe[t], Tells(i, t)) = 0 /\ Count(inbox[f], Tells(i, t)) = 0 /\ t \in Servers
    BY <1>1, <1>3, <1>5, QuietLines
  <2>2. v.asked = 0 /\ v.at[t] = 0 /\ v.telling[t] = 0
    BY <2>1 DEF Now, Track
  <2> HIDE DEF v
  <2> QED BY <2>2 DEF Coming
<1>7. \A c \in Clients : v.way[c] = 0
  <2> SUFFICES ASSUME NEW c \in Clients PROVE v.way[c] = 0
    OBVIOUS
  <2>1. <<c, i>> \notin waiting
    BY DEF AllAnswered
  <2>2. home[c] \in Servers
    BY <1>2 DEF Homes
  <2>3. Count(pipe[home[c]], Acks(i, c)) = 0 /\ Count(inbox[f], Acks(i, c)) = 0
    BY <1>3, <2>2, QuietLines
  <2> QED BY <2>1, <2>3 DEF Now, Track, Owed
<1> HIDE DEF v
<1>8. Reported(v, o) = On
  <2>1. \A t \in On : (t = f \/ ~o.local) /\ Coming(v, f, t) + v.telling[t] = 0
    BY <1>3, <1>6
  <2> QED BY <1>3, <2>1 DEF Reported
<1>9. o.current = o.count
  BY <1>3, <1>8 DEF Live
<1>10. \A c \in Clients : Given(o, c) = v.logs[c] /\ v.logs[c] \in {0, 1}
  <2> SUFFICES ASSUME NEW c \in Clients PROVE Given(o, c) = v.logs[c] /\ v.logs[c] \in {0, 1}
    OBVIOUS
  <2>1. v.logs[c] = v.way[c] + Given(o, c) /\ v.way[c] = 0
    BY <1>3, <1>7 DEF Live
  <2>2. Given(o, c) \in {0, 1}
    BY <1>1, <1>2, <1>3, Hits
  <2> QED BY <2>1, <2>2
<1>11. Owing(v, home, o) = Hit(v)
  BY <1>3, <1>8 DEF Owing, Hit, Live
<1>12. q \in Seq(Process) /\ \A k \in DOMAIN q : q[k] \in Clients
  BY <1>1, <1>3 DEF OpType, Each
<1>13. \A c \in Clients : Count(q, {c}) \in {0, 1} /\ (Count(q, {c}) = 1 <=> c \in Hit(v))
  BY <1>10 DEF Given, Hit
<1> HIDE DEF q
<1>14. \A x : Count(q, {x}) <= 1
  <2> TAKE x
  <2>1. CASE x \in Clients
    <3>1. Count(q, {x}) \in {0, 1}
      BY <1>13, <2>1
    <3> QED BY <3>1
  <2>2. CASE x \notin Clients
    <3>1. \A k \in DOMAIN q : q[k] \notin {x}
      BY <1>12, <2>2
    <3>2. Count(q, {x}) = 0
      BY <1>12, <3>1, CountType
    <3> QED BY <3>2
  <2> QED BY <2>1, <2>2
<1>15. Values(q) = Hit(v)
  <2>1. \A c \in Clients : c \in Values(q) <=> c \in Hit(v)
    <3> SUFFICES ASSUME NEW c \in Clients PROVE c \in Values(q) <=> c \in Hit(v)
      OBVIOUS
    <3>1. Count(q, {c}) = 0 <=> \A k \in DOMAIN q : q[k] \notin {c}
      BY <1>12, CountType
    <3>2. c \in Values(q) <=> Count(q, {c}) # 0
      BY <3>1 DEF Values
    <3>3. Count(q, {c}) # 0 <=> c \in Hit(v)
      BY <1>13
    <3> QED BY <3>2, <3>3
  <2>2. Values(q) \subseteq Clients /\ Hit(v) \subseteq Clients
    BY <1>12 DEF Values, Hit
  <2> QED BY <2>1, <2>2
<1>16. Cardinality(Hit(v)) = Len(q)
  BY <1>12, <1>14, <1>15, OnceEach
<1>17. o.clients = Len(q)
  BY <1>3, <1>11, <1>16 DEF Live
<1> QED BY <1>4, <1>9, <1>17 DEF q

\* A call whose messages have all been read, and that everybody it reached has
\* answered, has been settled (ClusterCompletes): with the same servers listening,
\* no answer, acknowledgement or number of clients is lost or counted wrong, so
\* that only someone who does not answer leads to a timeout.
THEOREM CallsComplete == Spec => []ClusterCompletes
<1>1. ASSUME IInv, Counting, Lossless, Acking PROVE ClusterCompletes
  <2> SUFFICES ASSUME NEW i \in Calling, ops[i].cluster # {}, Quiet, AllAnswered(i),
                      ops[i].local => ops[i].cluster = {ops[i].from}
               PROVE  ops[i].settled # <<>>
    BY DEF ClusterCompletes
  <2>1. ops[i].kind = "ack" \/ Asks(ops[i])
    BY DEF Calling, Asks
  <2> QED BY <1>1, <2>1, AsksComplete, AcksComplete
<1>2. Init => IInv /\ Counting /\ Lossless /\ AsksLast /\ Acking
  BY InitInv, CountInit, LosslessInit, AckInit
<1>3. IInv /\ Counting /\ Lossless /\ AsksLast /\ Acking /\ [Next]_vars
        => (IInv /\ Counting /\ Lossless /\ AsksLast /\ Acking)'
  BY NextInv, CountNext, LosslessNext, AckNext
<1> QED BY <1>1, <1>2, <1>3, PTL DEF Spec

=============================================================================
