------------------------- MODULE EngineSessionProofs -------------------------
(***************************************************************************)
(* Two proofs about an Engine.IO session, for any number of WebSockets and *)
(* any bounds.                                                             *)
(*                                                                         *)
(* It keeps the promise of Connection: the refinement mapping of           *)
(* EngineConnection takes every step of EngineSocket to a step of          *)
(* Connection or to none.  The step needs what IInv and PollInv of         *)
(* EngineSocketProofs say of the state: a transport that is writable finds *)
(* nothing waiting, and a close() that waits ends in the flush.            *)
(*                                                                         *)
(* With the client of EngineSession it delivers messages in order (Fifo),  *)
(* through any upgrade.  FifoInv, in the second half of the module, counts *)
(* the messages on their way: in the buffer, at the encoder, in the answer *)
(* of the client's request, on the WebSocket, in its POST and frames.      *)
(*                                                                         *)
(* The mapping joins sequences of any length, so the lemmas about it need  *)
(* induction, which SetInduction draws from the well-foundedness of < on   *)
(* Nat.  MessagesOf and MessagesLeft are recursive functions; that each    *)
(* exists, and is the only one, is proved below.  The rest of each half    *)
(* says which messages each operation on the transports moves (Unmoved,    *)
(* Handed; Calm, Passes, Flow), and takes the handlers one by one.         *)
(***************************************************************************)
EXTENDS EngineSession, EngineSocketProofs, WellFoundedInduction, SequenceTheorems

\* A set that holds 0 and the successor of each of its members holds Nat.
LEMMA SetInduction ==
  ASSUME NEW P, 0 \in P, \A n \in Nat : n \in P => n + 1 \in P
  PROVE  Nat \subseteq P
<1> DEFINE R == OpToRel(<, Nat)
           T == Nat \ P
<1>1. SUFFICES ASSUME T # {} PROVE FALSE
  OBVIOUS
<1>2. IsWellFoundedOn(R, Nat)
  BY NatLessThanWellFounded
<1>3. \A x, y \in Nat : y < x => <<y, x>> \in R
  BY DEF OpToRel
<1> HIDE DEF R
<1>4. PICK x \in T : \A y \in T : <<y, x>> \notin R
  <2> HIDE DEF T
  <2>1. T \subseteq Nat
    BY DEF T
  <2> QED BY <1>1, <1>2, <2>1, WFMin
<1>5. x \in Nat /\ x # 0 /\ x - 1 \in Nat /\ x - 1 < x /\ x = (x - 1) + 1
  BY <1>4
<1>6. x - 1 \notin T
  BY <1>3, <1>4, <1>5
<1> QED BY <1>4, <1>5, <1>6

\* f joins the first i sequences of q, for each i.
Sums(q, f) == f = [i \in 0..Len(q) |-> IF i = 0 THEN <<>> ELSE f[i - 1] \o q[i]]

\* The sequences of q in one.
Joined(q) == (CHOOSE f : Sums(q, f))[Len(q)]

\* There is but one such f.
LEMMA SumsAgree ==
  ASSUME NEW q, Len(q) \in Nat, NEW f, NEW g, Sums(q, f), Sums(q, g)
  PROVE  \A i \in 0..Len(q) : f[i] = g[i]
<1> DEFINE P == {n \in Nat : n \in 0..Len(q) => f[n] = g[n]}
<1>1. \A i \in 0..Len(q) : f[i] = IF i = 0 THEN <<>> ELSE f[i - 1] \o q[i]
  BY DEF Sums
<1>2. \A i \in 0..Len(q) : g[i] = IF i = 0 THEN <<>> ELSE g[i - 1] \o q[i]
  BY DEF Sums
<1>3. 0 \in P
  BY <1>1, <1>2
<1>4. ASSUME NEW n \in Nat, n \in P PROVE n + 1 \in P
  <2> SUFFICES ASSUME n + 1 \in 0..Len(q) PROVE f[n + 1] = g[n + 1]
    OBVIOUS
  <2>1. n \in 0..Len(q) /\ n + 1 # 0 /\ (n + 1) - 1 = n
    OBVIOUS
  <2>2. f[n] = g[n]
    BY <1>4, <2>1
  <2> QED BY <1>1, <1>2, <2>1, <2>2
<1> HIDE DEF P
<1>5. Nat \subseteq P
  BY <1>3, <1>4, SetInduction
<1> QED BY <1>5 DEF P

\* One more sequence.
LEMMA SumsAppend ==
  ASSUME NEW S, NEW q \in Seq(Seq(S)), NEW e \in Seq(S), NEW f, Sums(q, f)
  PROVE  \E g : Sums(Append(q, e), g) /\ g[Len(q) + 1] = f[Len(q)] \o e
<1> DEFINE a == Append(q, e)
           last == f[Len(q)] \o e
           g == [i \in 0..Len(q) + 1 |-> IF i = Len(q) + 1 THEN last ELSE f[i]]
<1>1. Len(q) \in Nat /\ Len(a) = Len(q) + 1
      /\ \A i \in 1..Len(q) + 1 : a[i] = IF i = Len(q) + 1 THEN e ELSE q[i]
  OBVIOUS
<1>2. \A i \in 0..Len(q) : f[i] = IF i = 0 THEN <<>> ELSE f[i - 1] \o q[i]
  BY DEF Sums
<1> HIDE DEF a, last
<1>3. ASSUME NEW i \in 0..Len(q) + 1
      PROVE  g[i] = IF i = 0 THEN <<>> ELSE g[i - 1] \o a[i]
  <2>1. CASE i = Len(q) + 1
    <3>1. g[i] = last /\ i # 0 /\ g[i - 1] = f[Len(q)]
      BY <1>1, <2>1
    <3>2. a[i] = e
      BY <1>1, <2>1
    <3> HIDE DEF g
    <3> QED BY <3>1, <3>2 DEF last
  <2>2. CASE i # Len(q) + 1
    <3>1. i \in 0..Len(q) /\ (i # 0 => i - 1 \in 0..Len(q) /\ i \in 1..Len(q) + 1)
      BY <1>1, <2>2
    <3>2. g[i] = f[i] /\ (i # 0 => g[i - 1] = f[i - 1])
      BY <1>1, <3>1
    <3>3. i # 0 => a[i] = q[i]
      BY <1>1, <2>2, <3>1
    <3> HIDE DEF g
    <3> QED BY <1>2, <3>1, <3>2, <3>3
  <2> QED BY <2>1, <2>2
<1>4. Sums(a, g)
  BY <1>1, <1>3 DEF Sums
<1>5. g[Len(q) + 1] = last
  BY <1>1
<1> QED BY <1>4, <1>5 DEF a, last

\* Nothing has the sum <<>> alone.
LEMMA SumsEmpty == Sums(<<>>, [i \in {0} |-> <<>>])
<1>1. 0..Len(<<>>) = {0}
  OBVIOUS
<1> QED BY <1>1 DEF Sums

\* Every sequence of sequences has its sums.
LEMMA SumsExist ==
  ASSUME NEW S, NEW q \in Seq(Seq(S))
  PROVE  \E f : Sums(q, f)
<1> DEFINE P == {n \in Nat : \A p \in Seq(Seq(S)) : Len(p) = n => \E f : Sums(p, f)}
<1>1. 0 \in P
  BY SumsEmpty
<1>2. ASSUME NEW n \in Nat, n \in P PROVE n + 1 \in P
  <2> SUFFICES ASSUME NEW p \in Seq(Seq(S)), Len(p) = n + 1 PROVE \E f : Sums(p, f)
    OBVIOUS
  <2> DEFINE T == Seq(S)
  <2>0. p \in Seq(T) /\ p # <<>>
    OBVIOUS
  <2> HIDE DEF T
  <2>1. PICK s \in Seq(T), e \in T : p = Append(s, e)
    BY <2>0, SequenceEmptyOrAppend
  <2> USE DEF T
  <2>2. Len(s) = n
    BY <2>1
  <2>3. PICK f : Sums(s, f)
    BY <1>2, <2>2
  <2> QED BY <2>1, <2>3, SumsAppend
<1> HIDE DEF P
<1>3. Nat \subseteq P
  BY <1>1, <1>2, SetInduction
<1> QED BY <1>3 DEF P

\* Any sums give the same join.
LEMMA JoinedIs ==
  ASSUME NEW q, Len(q) \in Nat, NEW f, Sums(q, f)
  PROVE  Joined(q) = f[Len(q)]
<1>1. Sums(q, CHOOSE g : Sums(q, g))
  OBVIOUS
<1>2. Len(q) \in 0..Len(q)
  OBVIOUS
<1> QED BY <1>1, <1>2, SumsAgree DEF Joined

\* Nothing joined is nothing.
LEMMA JoinedEmpty == Joined(<<>>) = <<>>
<1>1. Len(<<>>) = 0
  OBVIOUS
<1> QED BY <1>1, SumsEmpty, JoinedIs

\* One more sequence is joined at the end.
LEMMA JoinedAppend ==
  ASSUME NEW S, NEW q \in Seq(Seq(S)), NEW e \in Seq(S)
  PROVE  Joined(Append(q, e)) = Joined(q) \o e
<1>1. Len(q) \in Nat /\ Len(Append(q, e)) = Len(q) + 1
  OBVIOUS
<1>2. PICK f : Sums(q, f)
  BY SumsExist
<1>3. PICK g : Sums(Append(q, e), g) /\ g[Len(q) + 1] = f[Len(q)] \o e
  BY <1>2, SumsAppend
<1>4. Joined(q) = f[Len(q)]
  BY <1>1, <1>2, JoinedIs
<1>5. Joined(Append(q, e)) = g[Len(q) + 1]
  <2> DEFINE a == Append(q, e)
  <2>1. Len(a) \in Nat /\ Len(a) = Len(q) + 1 /\ Sums(a, g)
    BY <1>1, <1>3
  <2> HIDE DEF a
  <2>2. Joined(a) = g[Len(a)]
    BY <2>1, JoinedIs
  <2> QED BY <2>1, <2>2 DEF a
<1> QED BY <1>3, <1>4, <1>5

\* Sequences over S join to a sequence over S.
LEMMA JoinedType ==
  ASSUME NEW S, NEW q \in Seq(Seq(S))
  PROVE  Joined(q) \in Seq(S)
<1> DEFINE P == {n \in Nat : \A p \in Seq(Seq(S)) : Len(p) = n => Joined(p) \in Seq(S)}
<1>1. 0 \in P
  <2>1. <<>> \in Seq(S)
    OBVIOUS
  <2> QED BY <2>1, JoinedEmpty
<1>2. ASSUME NEW n \in Nat, n \in P PROVE n + 1 \in P
  <2> SUFFICES ASSUME NEW p \in Seq(Seq(S)), Len(p) = n + 1 PROVE Joined(p) \in Seq(S)
    OBVIOUS
  <2> DEFINE T == Seq(S)
  <2>0. p \in Seq(T) /\ p # <<>>
    OBVIOUS
  <2> HIDE DEF T
  <2>1. PICK s \in Seq(T), e \in T : p = Append(s, e)
    BY <2>0, SequenceEmptyOrAppend
  <2> USE DEF T
  <2>2. Joined(s) \in Seq(S)
    BY <1>2, <2>1
  <2>3. Joined(p) = Joined(s) \o e
    BY <2>1, JoinedAppend
  <2> QED BY <2>2, <2>3
<1> HIDE DEF P
<1>3. Nat \subseteq P
  BY <1>1, <1>2, SetInduction
<1> QED BY <1>3 DEF P

-----------------------------------------------------------------------------
(* The messages among packets, and those on the wire.                      *)

\* A function on 1..n is a sequence.
LEMMA FunctionIsSeq ==
  ASSUME NEW S, NEW n \in Nat, NEW f \in [1..n -> S]
  PROVE  f \in Seq(S) /\ Len(f) = n
OBVIOUS

\* A sequence one longer than q that agrees with it is q and one element.
LEMMA IsAppend ==
  ASSUME NEW S, NEW q \in Seq(S), NEW e \in S, NEW r \in Seq(S), Len(r) = Len(q) + 1,
         \A i \in 1..Len(q) : r[i] = q[i], r[Len(q) + 1] = e
  PROVE  r = Append(q, e)
OBVIOUS

\* What MessagesOf joins.
Parts(q) == [i \in DOMAIN q |-> MessageIn(q[i])]

\* A packet adds its message, or nothing.
LEMMA MessageType ==
  ASSUME NEW p \in Packet
  PROVE  MessageIn(p) \in Seq(Nat)
<1>1. p.id \in Nat
  BY DEF Packet
<1>2. <<p.id>> \in Seq(Nat) /\ <<>> \in Seq(Nat)
  BY <1>1
<1> QED BY <1>2 DEF MessageIn

\* Packets add sequences of messages, one each.
LEMMA PartsType ==
  ASSUME NEW q \in Seq(Packet)
  PROVE  Parts(q) \in Seq(Seq(Nat)) /\ Len(Parts(q)) = Len(q)
<1> DEFINE S == Seq(Nat)
<1>1. Len(q) \in Nat /\ DOMAIN q = 1..Len(q) /\ \A i \in 1..Len(q) : q[i] \in Packet
  OBVIOUS
<1>2. \A i \in 1..Len(q) : MessageIn(q[i]) \in S
  BY <1>1, MessageType
<1> HIDE DEF S
<1>3. Parts(q) \in [1..Len(q) -> S]
  BY <1>1, <1>2 DEF Parts
<1> QED BY <1>1, <1>3, FunctionIsSeq DEF S

\* MessagesOf joins the parts.
LEMMA MessagesAreParts ==
  ASSUME NEW q \in Seq(Packet)
  PROVE  MessagesOf(q) = Joined(Parts(q))
<1> DEFINE Up(f) == f = [i \in 0..Len(q) |-> IF i = 0 THEN <<>> ELSE f[i - 1] \o MessageIn(q[i])]
<1>1. Len(q) \in Nat /\ DOMAIN q = 1..Len(q) /\ Len(Parts(q)) = Len(q)
  BY PartsType
<1>2. \A i \in 1..Len(q) : Parts(q)[i] = MessageIn(q[i])
  BY <1>1 DEF Parts
<1>3. ASSUME NEW f PROVE Sums(Parts(q), f) <=> Up(f)
  <2>1. [i \in 0..Len(q) |-> IF i = 0 THEN <<>> ELSE f[i - 1] \o Parts(q)[i]]
        = [i \in 0..Len(q) |-> IF i = 0 THEN <<>> ELSE f[i - 1] \o MessageIn(q[i])]
    BY <1>1, <1>2
  <2> QED BY <1>1, <2>1 DEF Sums
<1>4. MessagesOf(q) = (CHOOSE f : Up(f))[Len(q)]
  BY DEF MessagesOf
<1> HIDE DEF Up
<1>5. \E f : Up(f)
  BY <1>3, PartsType, SumsExist
<1>6. Up(CHOOSE f : Up(f))
  BY <1>5
<1> QED BY <1>1, <1>3, <1>4, <1>6, JoinedIs

\* No packets, no messages.
LEMMA MessagesEmpty == MessagesOf(<<>>) = <<>>
<1>1. Parts(<<>>) = <<>> /\ <<>> \in Seq(Packet)
  BY DEF Parts
<1> QED BY <1>1, JoinedEmpty, MessagesAreParts

\* Messages are numbers.
LEMMA MessagesType ==
  ASSUME NEW q \in Seq(Packet)
  PROVE  MessagesOf(q) \in Seq(Nat)
BY MessagesAreParts, PartsType, JoinedType

\* One more packet adds its part.
LEMMA MessagesAppend ==
  ASSUME NEW q \in Seq(Packet), NEW p \in Packet
  PROVE  MessagesOf(Append(q, p)) =
           IF IsMessage(p) THEN Append(MessagesOf(q), p.id) ELSE MessagesOf(q)
<1> DEFINE a == Append(q, p)
           S == Seq(Nat)
<1>1. /\ a \in Seq(Packet) /\ Len(a) = Len(q) + 1 /\ DOMAIN a = 1..Len(q) + 1
      /\ DOMAIN q = 1..Len(q) /\ Len(q) \in Nat
      /\ a[Len(q) + 1] = p /\ \A i \in 1..Len(q) : a[i] = q[i]
  OBVIOUS
<1>2. Parts(a)[Len(q) + 1] = MessageIn(p) /\ \A i \in 1..Len(q) : Parts(a)[i] = Parts(q)[i]
  BY <1>1 DEF Parts
<1>3. /\ Parts(q) \in Seq(S) /\ Len(Parts(q)) = Len(q) /\ MessageIn(p) \in S
      /\ Parts(a) \in Seq(S) /\ Len(Parts(a)) = Len(q) + 1
  BY <1>1, MessageType, PartsType
<1> HIDE DEF S, a
<1>4. Parts(a) = Append(Parts(q), MessageIn(p))
  BY <1>2, <1>3, IsAppend
<1>5. Joined(Append(Parts(q), MessageIn(p))) = Joined(Parts(q)) \o MessageIn(p)
  BY <1>3, JoinedAppend DEF S
<1>7. MessagesOf(q) \in Seq(Nat) /\ MessageIn(p) \in Seq(Nat)
  BY MessageType, MessagesType
<1>9. MessagesOf(a) = MessagesOf(q) \o MessageIn(p)
  BY <1>1, <1>4, <1>5, MessagesAreParts DEF a
<1>10. MessagesOf(q) \o <<>> = MessagesOf(q)
  BY <1>7
<1>11. MessagesOf(q) \o <<p.id>> = Append(MessagesOf(q), p.id)
  <2>1. p.id \in Nat
    BY DEF Packet
  <2> QED BY <1>7, <2>1
<1> QED BY <1>9, <1>10, <1>11 DEF MessageIn, a

\* Packets of the session's own, without a message among them.
LEMMA NoMessages ==
  ASSUME NEW q \in Seq(Packet), ~Has(q, IsMessage)
  PROVE  MessagesOf(q) = <<>>
<1> DEFINE P == {n \in Nat : \A p \in Seq(Packet) :
                   Len(p) = n /\ (\A i \in 1..Len(p) : ~IsMessage(p[i])) => MessagesOf(p) = <<>>}
<1>1. 0 \in P
  BY MessagesEmpty
<1>2. ASSUME NEW n \in Nat, n \in P PROVE n + 1 \in P
  <2> SUFFICES ASSUME NEW p \in Seq(Packet), Len(p) = n + 1, \A i \in 1..Len(p) : ~IsMessage(p[i])
               PROVE  MessagesOf(p) = <<>>
    OBVIOUS
  <2>0. p # <<>>
    OBVIOUS
  <2>1. PICK s \in Seq(Packet), e \in Packet : p = Append(s, e)
    BY <2>0, SequenceEmptyOrAppend
  <2>2. Len(s) = n /\ p[n + 1] = e /\ \A i \in 1..Len(s) : p[i] = s[i]
    BY <2>1
  <2>3. ~IsMessage(e) /\ \A i \in 1..Len(s) : ~IsMessage(s[i])
    BY <2>2
  <2>4. MessagesOf(s) = <<>>
    BY <1>2, <2>2, <2>3
  <2> QED BY <2>1, <2>3, <2>4, MessagesAppend
<1> HIDE DEF P
<1>3. Nat \subseteq P
  BY <1>1, <1>2, SetInduction
<1>4. Len(q) \in Nat /\ \A i \in 1..Len(q) : ~IsMessage(q[i])
  BY DEF Has
<1> QED BY <1>3, <1>4 DEF P

Payload == [via : Transports, packets : Seq(Packet)]

\* What MessagesLeft joins.
Batches(w) == [i \in DOMAIN w |-> MessagesOf(w[i].packets)]

\* Each payload adds one batch of messages.
LEMMA BatchesType ==
  ASSUME NEW w \in Seq(Payload)
  PROVE  Batches(w) \in Seq(Seq(Nat)) /\ Len(Batches(w)) = Len(w)
<1> DEFINE S == Seq(Nat)
<1>1. Len(w) \in Nat /\ DOMAIN w = 1..Len(w) /\ \A i \in 1..Len(w) : w[i] \in Payload
  OBVIOUS
<1>2. \A i \in 1..Len(w) : w[i].packets \in Seq(Packet)
  BY <1>1 DEF Payload
<1>3. \A i \in 1..Len(w) : MessagesOf(w[i].packets) \in S
  BY <1>2, MessagesType
<1> HIDE DEF S
<1>4. Batches(w) \in [1..Len(w) -> S]
  BY <1>1, <1>3 DEF Batches
<1> QED BY <1>1, <1>4, FunctionIsSeq DEF S

\* MessagesLeft joins the batches.
LEMMA LeftIsBatches ==
  ASSUME NEW w \in Seq(Payload)
  PROVE  MessagesLeft(w) = Joined(Batches(w))
<1> DEFINE Up(f) == f = [i \in 0..Len(w) |->
                          IF i = 0 THEN <<>> ELSE f[i - 1] \o MessagesOf(w[i].packets)]
<1>1. Len(w) \in Nat /\ DOMAIN w = 1..Len(w) /\ Len(Batches(w)) = Len(w)
  BY BatchesType
<1>2. \A i \in 1..Len(w) : Batches(w)[i] = MessagesOf(w[i].packets)
  BY <1>1 DEF Batches
<1>3. ASSUME NEW f PROVE Sums(Batches(w), f) <=> Up(f)
  <2>1. [i \in 0..Len(w) |-> IF i = 0 THEN <<>> ELSE f[i - 1] \o Batches(w)[i]]
        = [i \in 0..Len(w) |-> IF i = 0 THEN <<>> ELSE f[i - 1] \o MessagesOf(w[i].packets)]
    BY <1>1, <1>2
  <2> QED BY <1>1, <2>1 DEF Sums
<1>4. MessagesLeft(w) = (CHOOSE f : Up(f))[Len(w)]
  BY DEF MessagesLeft
<1> HIDE DEF Up
<1>5. \E f : Up(f)
  BY <1>3, BatchesType, SumsExist
<1>6. Up(CHOOSE f : Up(f))
  BY <1>5
<1> QED BY <1>1, <1>3, <1>4, <1>6, JoinedIs

\* On an empty wire there is no message.
LEMMA LeftEmpty == MessagesLeft(<<>>) = <<>>
<1>1. Batches(<<>>) = <<>> /\ <<>> \in Seq(Payload)
  BY DEF Batches
<1> QED BY <1>1, JoinedEmpty, LeftIsBatches

\* What left are messages.
LEMMA LeftType ==
  ASSUME NEW w \in Seq(Payload)
  PROVE  MessagesLeft(w) \in Seq(Nat)
BY LeftIsBatches, BatchesType, JoinedType

\* A payload that is written adds its messages to those that left.
LEMMA LeftAppend ==
  ASSUME NEW w \in Seq(Payload), NEW e \in Payload
  PROVE  MessagesLeft(Append(w, e)) = MessagesLeft(w) \o MessagesOf(e.packets)
<1> DEFINE a == Append(w, e)
           S == Seq(Nat)
           batch == MessagesOf(e.packets)
<1>1. /\ a \in Seq(Payload) /\ Len(a) = Len(w) + 1 /\ DOMAIN a = 1..Len(w) + 1
      /\ DOMAIN w = 1..Len(w) /\ Len(w) \in Nat
      /\ a[Len(w) + 1] = e /\ \A i \in 1..Len(w) : a[i] = w[i]
  OBVIOUS
<1>2. Batches(a)[Len(w) + 1] = batch /\ \A i \in 1..Len(w) : Batches(a)[i] = Batches(w)[i]
  BY <1>1 DEF Batches
<1>3. e.packets \in Seq(Packet)
  BY DEF Payload
<1>4. /\ Batches(w) \in Seq(S) /\ Len(Batches(w)) = Len(w) /\ batch \in S
      /\ Batches(a) \in Seq(S) /\ Len(Batches(a)) = Len(w) + 1
  BY <1>1, <1>3, BatchesType, MessagesType
<1> HIDE DEF S, a, batch
<1>5. Batches(a) = Append(Batches(w), batch)
  BY <1>2, <1>4, IsAppend
<1>6. Joined(Append(Batches(w), batch)) = Joined(Batches(w)) \o batch
  BY <1>4, JoinedAppend DEF S
<1> QED BY <1>1, <1>5, <1>6, LeftIsBatches DEF a, batch

-----------------------------------------------------------------------------
(* What a step does with the messages, of transports n as steps compute    *)
(* them.                                                                   *)

Hand(n) == MessagesOf(n.polling.encoding)
Left(n) == MessagesLeft(n.wire)

\* No message moves from m to n.
Unmoved(m, n) == n.wire = m.wire /\ n.polling.encoding = m.polling.encoding

\* A batch is handed to the transports m, which become n.
Handed(m, n, batch) ==
  \/ Left(n) = Left(m) \o batch /\ Hand(n) = Hand(m)
  \/ Hand(m) = <<>> /\ Hand(n) = batch /\ Left(n) = Left(m)
  \/ Left(n) = Left(m) /\ Hand(n) = Hand(m)

Own == PacketTypes \ {"message", "blob"}

LEMMA OwnPackets ==
  ASSUME NEW type \in Own
  PROVE  /\ <<Control(type)>> \in Seq(Packet) /\ Control(type) \in Packet
         /\ ~IsMessage(Control(type))
         /\ ~Has(<<Control(type)>>, IsMessage)
         /\ ~Has(<<Control(type)>>, LAMBDA p : p.type = "blob")
BY DEF Own, Control, Packet, IsMessage, Has

LEMMA EmittedLeft ==
  ASSUME NEW n \in NetType, NEW t \in Transports, NEW pkts \in Seq(Packet)
  PROVE  MessagesLeft(Emitted(n.wire, t, pkts)) = Left(n) \o MessagesOf(pkts)
<1> DEFINE e == [via |-> t, packets |-> pkts]
<1>1. e \in Payload /\ e.packets = pkts /\ n.wire \in Seq(Payload)
  BY DEF Payload, NetType
<1>2. Left(n) \in Seq(Nat)
  BY <1>1, LeftType DEF Left
<1>3. CASE Has(pkts, IsMessage)
  <2>1. Emitted(n.wire, t, pkts) = Append(n.wire, e)
    BY <1>3 DEF Emitted
  <2> HIDE DEF e
  <2> QED BY <1>1, <2>1, LeftAppend DEF Left
<1>4. CASE ~Has(pkts, IsMessage)
  <2>1. Emitted(n.wire, t, pkts) = n.wire
    BY <1>4 DEF Emitted
  <2>2. MessagesOf(pkts) = <<>>
    BY <1>4, NoMessages
  <2>3. Left(n) \o <<>> = Left(n)
    BY <1>2
  <2> QED BY <2>1, <2>2, <2>3 DEF Left
<1> QED BY <1>3, <1>4

LEMMA WritePollWire ==
  ASSUME NEW n \in NetType, NEW pkts \in Seq(Packet)
  PROVE  WritePoll(n, pkts).wire \in {n.wire, Emitted(n.wire, Polling, pkts)}
<1>1. CASE n.polling.pending
  <2> DEFINE r == [n.polling EXCEPT !.pending = FALSE]
             m == [n EXCEPT !.polling = r]
             e == Emitted(n.wire, Polling, pkts)
  <2>1. WritePoll(n, pkts) = [m EXCEPT !.wire = e]
    BY <1>1 DEF WritePoll, NetType
  <2> HIDE DEF r, e
  <2> QED BY <2>1 DEF NetType, e
<1>2. CASE ~n.polling.pending
  BY <1>2 DEF WritePoll
<1> QED BY <1>1, <1>2

\* Polling.write writes the batch, or loses it.
LEMMA WritePollHanded ==
  ASSUME NEW n \in NetType, NEW pkts \in Seq(Packet)
  PROVE  LET m == WritePoll(n, pkts)
         IN  /\ m.polling.encoding = n.polling.encoding
             /\ Left(m) = Left(n) \o MessagesOf(pkts) \/ Left(m) = Left(n)
<1>1. MessagesLeft(Emitted(n.wire, Polling, pkts)) = Left(n) \o MessagesOf(pkts)
  BY EmittedLeft DEF Transports
<1> QED BY <1>1, WritePollWire, WritePollPolling DEF Left

LEMMA SendPollSplit ==
  ASSUME NEW n \in NetType, NEW pkts \in Seq(Packet)
  PROVE  /\ Has(pkts, LAMBDA p : p.type = "blob") =>
              SendPoll(n, pkts).wire = n.wire /\ SendPoll(n, pkts).polling.encoding = pkts
         /\ ~Has(pkts, LAMBDA p : p.type = "blob") =>
              \E m \in NetType : Unmoved(n, m) /\ SendPoll(n, pkts) = WritePoll(m, pkts)
<1>1. CASE Has(pkts, LAMBDA p : p.type = "blob")
  <2> DEFINE r == [n.polling EXCEPT !.writable = FALSE, !.encoding = pkts]
  <2>1. SendPoll(n, pkts) = [n EXCEPT !.polling = r]
    BY <1>1 DEF SendPoll, NetType
  <2>2. r.encoding = pkts
    BY PollingTyped DEF PollingType
  <2> HIDE DEF r
  <2>3. SendPoll(n, pkts).wire = n.wire /\ SendPoll(n, pkts).polling = r
    BY <2>1 DEF NetType
  <2> QED BY <1>1, <2>2, <2>3
<1>2. CASE ~Has(pkts, LAMBDA p : p.type = "blob")
  <2> DEFINE r == [n.polling EXCEPT !.writable = FALSE]
             m == [n EXCEPT !.polling = r]
  <2>1. SendPoll(n, pkts) = WritePoll(m, pkts)
    BY <1>2 DEF SendPoll, NetType
  <2>2. r.encoding = n.polling.encoding /\ r \in PollingType
    BY PollingTyped DEF PollingType
  <2> HIDE DEF r
  <2>3. m \in NetType /\ m.polling = r /\ m.wire = n.wire
    BY <2>2, SetPolling DEF NetType
  <2> HIDE DEF m
  <2> QED BY <1>2, <2>1, <2>2, <2>3 DEF Unmoved
<1> QED BY <1>1, <1>2

\* Polling.send writes the batch, loses it, or keeps it for the encoder.
LEMMA SendPollHanded ==
  ASSUME NEW n \in NetType, NEW pkts \in Seq(Packet), n.polling.encoding = <<>>
  PROVE  Handed(n, SendPoll(n, pkts), MessagesOf(pkts))
<1> DEFINE s == SendPoll(n, pkts)
<1>1. CASE Has(pkts, LAMBDA p : p.type = "blob")
  <2>1. s.wire = n.wire /\ s.polling.encoding = pkts
    BY <1>1, SendPollSplit
  <2> HIDE DEF s
  <2>2. Hand(n) = <<>> /\ Hand(s) = MessagesOf(pkts) /\ Left(s) = Left(n)
    BY <2>1, MessagesEmpty DEF Hand, Left
  <2> QED BY <2>2 DEF Handed, s
<1>2. CASE ~Has(pkts, LAMBDA p : p.type = "blob")
  <2>1. PICK m \in NetType : Unmoved(n, m) /\ s = WritePoll(m, pkts)
    BY <1>2, SendPollSplit
  <2>2. /\ s.polling.encoding = m.polling.encoding
        /\ Left(s) = Left(m) \o MessagesOf(pkts) \/ Left(s) = Left(m)
    BY <2>1, WritePollHanded
  <2> HIDE DEF s
  <2>3. Hand(s) = Hand(n) /\ Left(m) = Left(n)
    BY <2>1, <2>2 DEF Unmoved, Hand, Left
  <2> QED BY <2>2, <2>3 DEF Handed, s
<1> QED BY <1>1, <1>2

\* A packet of the transport's own moves no message.
LEMMA SendOwnUnmoved ==
  ASSUME NEW n \in NetType, NEW type \in Own
  PROVE  Unmoved(n, SendPoll(n, <<Control(type)>>))
<1> DEFINE q == <<Control(type)>>
<1>1. q \in Seq(Packet) /\ ~Has(q, IsMessage) /\ ~Has(q, LAMBDA p : p.type = "blob")
  BY OwnPackets
<1> HIDE DEF q
<1>2. PICK m \in NetType : Unmoved(n, m) /\ SendPoll(n, q) = WritePoll(m, q)
  BY <1>1, SendPollSplit
<1>3. Emitted(m.wire, Polling, q) = m.wire
  BY <1>1 DEF Emitted
<1>4. WritePoll(m, q).wire = m.wire /\ WritePoll(m, q).polling.encoding = m.polling.encoding
  BY <1>1, <1>3, WritePollWire, WritePollPolling
<1> QED BY <1>2, <1>4 DEF Unmoved, q

LEMMA SendWsHanded ==
  ASSUME NEW n \in NetType, NEW w \in WS, NEW pkts \in Seq(Packet)
  PROVE  Handed(n, SendWs(n, w, pkts), MessagesOf(pkts))
<1> DEFINE s == SendWs(n, w, pkts)
           e == Emitted(n.wire, w, pkts)
<1>1. MessagesLeft(e) = Left(n) \o MessagesOf(pkts)
  BY EmittedLeft DEF Transports
<1>2. s.polling = n.polling
  BY SendWsPolling
<1>3. s.wire \in {n.wire, e}
  <2> HIDE DEF e
  <2>1. [n EXCEPT !.wire = e].wire = e
    BY DEF NetType
  <2>2. s \in {n, [n EXCEPT !.wire = e]}
    BY DEF SendWs, e
  <2> HIDE DEF s
  <2> QED BY <2>1, <2>2
<1> HIDE DEF s, e
<1>4. Hand(s) = Hand(n) /\ (Left(s) = Left(n) \/ Left(s) = Left(n) \o MessagesOf(pkts))
  BY <1>1, <1>2, <1>3 DEF Hand, Left
<1> QED BY <1>4 DEF Handed, s

\* A transport that can be written to takes the batch.
LEMMA SendOnHanded ==
  ASSUME NEW n \in NetType, NEW t \in Transports, NEW pkts \in Seq(Packet), Holds(n.polling),
         Writable(n, t)
  PROVE  Handed(n, SendOn(n, t, pkts), MessagesOf(pkts))
<1>1. CASE t = Polling
  <2>1. n.polling.encoding = <<>>
    BY <1>1 DEF Writable, Holds
  <2> QED BY <1>1, <2>1, SendPollHanded DEF SendOn
<1>2. CASE t # Polling
  BY <1>2, SendWsHanded DEF SendOn, Transports
<1> QED BY <1>1, <1>2

-----------------------------------------------------------------------------
(* Steps of the transports that move no message.                           *)

LEMMA UnmovedTrans ==
  ASSUME NEW l, NEW m, NEW n, Unmoved(l, m), Unmoved(m, n)
  PROVE  Unmoved(l, n)
BY DEF Unmoved

LEMMA DoClosePollUnmoved ==
  ASSUME NEW n \in NetType, NEW type \in Own
  PROVE  Unmoved(n, DoClosePoll(n, type))
<1> DEFINE a == IF n.polling.writable THEN SendPoll(n, <<Control(type)>>) ELSE n
           r == [a.polling EXCEPT !.readyState = "closed"]
<1>1. a \in NetType
  BY OwnPackets, SendPollNet
<1>2. Unmoved(n, a)
  BY SendOwnUnmoved DEF Unmoved
<1>3. DoClosePoll(n, type) = [a EXCEPT !.polling.readyState = "closed"]
  BY DEF DoClosePoll
<1> HIDE DEF a
<1>4. r.encoding = a.polling.encoding
  BY <1>1, PollingTyped DEF PollingType
<1>5. DoClosePoll(n, type) = [a EXCEPT !.polling = r]
  BY <1>1, <1>3 DEF NetType
<1> HIDE DEF r
<1>6. DoClosePoll(n, type).polling = r /\ DoClosePoll(n, type).wire = a.wire
  BY <1>1, <1>5 DEF NetType
<1> QED BY <1>2, <1>4, <1>6 DEF Unmoved

LEMMA DoCloseWsUnmoved ==
  ASSUME NEW n \in NetType, NEW w
  PROVE  Unmoved(n, DoCloseWs(n, w))
BY DEF DoCloseWs, NetType, Unmoved

LEMMA CloseOfUnmoved ==
  ASSUME NEW n \in NetType, NEW t \in Transports
  PROVE  Unmoved(n, CloseOf(n, t))
<1>1. CASE t = Polling
  <2>1. Unmoved(n, DoClosePoll(n, "close")) /\ Unmoved(n, n)
    BY DoClosePollUnmoved DEF Own, PacketTypes, Unmoved
  <2> QED BY <1>1, <2>1 DEF CloseOf
<1>2. CASE t # Polling
  <2> DEFINE m == [n EXCEPT !.ws[t].readyState = "closing"]
  <2>1. Unmoved(n, m)
    BY DEF Unmoved, NetType
  <2>2. Unmoved(m, DoCloseWs(m, t))
    BY DEF DoCloseWs, Unmoved, NetType
  <2>3. CloseOf(n, t) \in {n, DoCloseWs(m, t)}
    BY <1>2 DEF CloseOf
  <2> HIDE DEF m
  <2> QED BY <2>1, <2>2, <2>3 DEF Unmoved
<1> QED BY <1>1, <1>2

LEMMA ListenUnmoved ==
  ASSUME NEW n \in NetType, NEW t \in Transports, NEW who \in {"none", "socket"}
  PROVE  Unmoved(n, Listen(n, t, who))
<1>1. Listen(n, t, who).wire = n.wire
  BY DEF Listen, NetType
<1> QED BY <1>1, ListenPolling DEF Unmoved

LEMMA CloseTransportUnmoved ==
  ASSUME NEW n \in NetType, NEW t \in Transports
  PROVE  Unmoved(n, CloseTransport(n, t))
BY ListenNet, ListenUnmoved, CloseOfUnmoved, UnmovedTrans DEF CloseTransport

LEMMA SendNoopUnmoved ==
  ASSUME NEW n \in NetType
  PROVE  Unmoved(n, SendNoop(n))
<1>1. Unmoved(n, SendPoll(n, <<Control("noop")>>)) /\ Unmoved(n, n)
  BY SendOwnUnmoved DEF Own, PacketTypes, Unmoved
<1> QED BY <1>1 DEF SendNoop

-----------------------------------------------------------------------------
(* The steps of the promise.                                               *)

PromiseStep == [Promise!Next]_(Promise!vars)

LEMMA BecomesMoved ==
  ASSUME NEW n, Becomes(n)
  PROVE  /\ MessagesOf(polling.encoding)' = Hand(n) /\ MessagesLeft(wire)' = Left(n)
         /\ MessagesOf(polling.encoding) = Hand(Net) /\ MessagesLeft(wire) = Left(Net)
BY DEF Becomes, Hand, Left, Net

LEMMA UnmovedSame ==
  ASSUME NEW m, NEW n, Unmoved(m, n)
  PROVE  Hand(n) = Hand(m) /\ Left(n) = Left(m)
BY DEF Unmoved, Hand, Left

LEMMA TakesBatch ==
  ASSUME NEW n, Becomes(n), NEW batch, Handed(Net, n, batch), MessagesOf(writeBuffer)' = <<>>
  PROVE  Promise!Takes(batch)
BY BecomesMoved DEF Handed, Promise!Takes

\* Nothing that the promise speaks of changes.
LEMMA Stutters ==
  ASSUME NEW n, Becomes(n), Unmoved(Net, n), UNCHANGED <<readyState, closeReason, sent>>,
         MessagesOf(writeBuffer)' = MessagesOf(writeBuffer)
  PROVE  PromiseStep
BY BecomesMoved, UnmovedSame DEF PromiseStep, Promise!vars

\* A batch without messages is handed over.
LEMMA HandedNothing ==
  ASSUME NEW n, Becomes(n), NEW batch \in Seq(Nat), Net \in NetType, Handed(Net, n, batch), batch = <<>>
  PROVE  Hand(n) = Hand(Net) /\ Left(n) = Left(Net)
<1>1. Left(Net) \in Seq(Nat)
  BY LeftType DEF Left, NetType, Payload
<1>2. Left(Net) \o <<>> = Left(Net)
  BY <1>1
<1> QED BY <1>2 DEF Handed

\* Socket.onClose, on transports to which no message moved.
LEMMA OnCloseStep ==
  ASSUME IInv, NEW n \in NetType, Unmoved(Net, n), NEW reason, OnClose(n, reason), UNCHANGED sent,
         \/ reason \in Promise!Failures
         \/ reason = "forced close" /\ readyState = "open" /\ writeBuffer = <<>>
  PROVE  PromiseStep
<1>1. CASE readyState = "closed"
  BY <1>1, Stutters DEF OnClose, session
<1>2. CASE readyState # "closed"
  <2> DEFINE m == CloseTransport(n, transport)
  <2>1. /\ readyState' = "closed" /\ closeReason' = reason /\ Becomes(m) /\ UNCHANGED writeBuffer
    BY <1>2 DEF OnClose
  <2>2. Unmoved(Net, m)
    BY CloseTransportUnmoved, UnmovedTrans DEF IInv, SessionInv, NetInv
  <2> HIDE DEF m
  <2>3. /\ UNCHANGED <<MessagesOf(writeBuffer), MessagesOf(polling.encoding), MessagesLeft(wire)>>
    BY <2>1, <2>2, BecomesMoved, UnmovedSame
  <2>4. CASE reason \in Promise!Failures
    <3>1. Promise!Fails
      BY <1>2, <2>1, <2>3, <2>4 DEF Promise!Fails
    <3> QED BY <3>1 DEF PromiseStep, Promise!Next
  <2>5. CASE reason = "forced close" /\ readyState = "open" /\ writeBuffer = <<>>
    <3>1. Promise!CloseEnds
      BY <1>2, <2>1, <2>3, <2>5, MessagesEmpty DEF Promise!CloseEnds
    <3> QED BY <3>1 DEF PromiseStep, Promise!Next
  <2> QED BY <2>4, <2>5
<1> QED BY <1>1, <1>2

\* While open, all that waits is handed over.
LEMMA Drains ==
  ASSUME readyState = "open", NEW n, Becomes(n), Net \in NetType, NEW batch \in Seq(Nat),
         batch = MessagesOf(writeBuffer), Handed(Net, n, batch), writeBuffer' = <<>>,
         UNCHANGED <<readyState, closeReason, sent>>
  PROVE  PromiseStep
<1>1. Promise!Takes(batch)
  BY TakesBatch, MessagesEmpty
<1>2. CASE batch # <<>>
  <2>1. Promise!Drain
    BY <1>1, <1>2 DEF Promise!Drain
  <2> QED BY <2>1 DEF PromiseStep, Promise!Next
<1>3. CASE batch = <<>>
  <2>1. Hand(n) = Hand(Net) /\ Left(n) = Left(Net)
    BY <1>3, HandedNothing
  <2>2. UNCHANGED <<MessagesOf(writeBuffer), MessagesOf(polling.encoding), MessagesLeft(wire)>>
    BY <1>3, <2>1, BecomesMoved, MessagesEmpty
  <2> QED BY <2>2 DEF PromiseStep, Promise!vars
<1> QED BY <1>2, <1>3

\* What waits is flushed to t.
LEMMA FlushStep ==
  ASSUME IInv, readyState # "closed", NEW n \in NetType, NEW t \in Transports, Holds(n.polling),
         Unmoved(Net, n), Flush(n, t, writeBuffer), UNCHANGED sent
  PROVE  PromiseStep
<1> DEFINE canFlush == readyState # "closed" /\ Writable(n, t) /\ writeBuffer # <<>>
           s == SendOn(n, t, writeBuffer)
           batch == MessagesOf(writeBuffer)
<1>0. /\ writeBuffer \in Seq(Packet) /\ Net \in NetType
      /\ readyState \in {"open", "closing"} /\ (readyState = "open" => ~drainClose)
      /\ readyState = "closing" => drainClose
  BY DEF IInv, SessionInv, StateInv, NetInv, GracefulClose
<1>1. CASE /\ ~canFlush /\ writeBuffer' = writeBuffer /\ Becomes(n)
           /\ UNCHANGED <<readyState, closeReason, drainClose, timers>>
  BY <1>1, Stutters
<1>2. ASSUME canFlush
      PROVE  s \in NetType /\ Handed(Net, s, batch) /\ batch \in Seq(Nat)
  <2>1. s \in NetType /\ Handed(n, s, batch) /\ batch \in Seq(Nat)
    BY <1>0, <1>2, SendOnNet, SendOnHanded, MessagesType
  <2>2. Hand(n) = Hand(Net) /\ Left(n) = Left(Net)
    BY UnmovedSame
  <2> HIDE DEF s, batch
  <2> QED BY <2>1, <2>2 DEF Handed
<1>3. CASE /\ canFlush /\ ~drainClose /\ writeBuffer' = <<>> /\ Becomes(s)
           /\ UNCHANGED <<readyState, closeReason, drainClose, timers>>
  <2>1. readyState = "open"
    BY <1>0, <1>3
  <2> HIDE DEF s, canFlush
  <2> QED BY <1>2, <1>3, <2>1, Drains DEF IInv, SessionInv, NetInv
<1>4. CASE /\ canFlush /\ drainClose /\ writeBuffer' = <<>> /\ drainClose' = FALSE
           /\ readyState' = "closed" /\ closeReason' = "forced close"
           /\ pingInterval' = FALSE /\ pingTimeout' = FALSE /\ UNCHANGED strayPings
           /\ Becomes(CloseTransport(s, t))
  <2> DEFINE m == CloseTransport(s, t)
  <2>1. Unmoved(s, m)
    BY <1>2, <1>4, CloseTransportUnmoved
  <2>2. Hand(m) = Hand(s) /\ Left(m) = Left(s)
    BY <2>1, UnmovedSame
  <2> HIDE DEF m, s, batch
  <2>3. Handed(Net, m, batch)
    BY <1>2, <1>4, <2>2 DEF Handed
  <2>4. Promise!Takes(batch)
    BY <1>4, <2>3, TakesBatch, MessagesEmpty DEF m
  <2>5. Promise!CloseEnds
    BY <1>0, <1>4, <2>4 DEF Promise!CloseEnds, batch
  <2> QED BY <2>5 DEF PromiseStep, Promise!Next
<1> QED BY <1>1, <1>3, <1>4 DEF Flush

LEMMA OnPacketStep ==
  ASSUME IInv, NEW type, OnPacket(type), UNCHANGED sent
  PROVE  PromiseStep
<1>1. CASE UNCHANGED <<session, net>>
  BY <1>1 DEF PromiseStep, Promise!vars, session, net
<1>2. CASE OnClose(Net, "parse error")
  BY <1>2, OnCloseStep DEF IInv, SessionInv, NetInv, Unmoved, Promise!Failures
<1> QED BY <1>1, <1>2 DEF OnPacket

\* The transports change, no message moves, and the session stays as it was.
LEMMA NetStep ==
  ASSUME NEW n, Becomes(n), Unmoved(Net, n), UNCHANGED <<session, sent>>
  PROVE  PromiseStep
BY Stutters DEF session

-----------------------------------------------------------------------------
(* The handlers.                                                           *)

LEMMA PollRequestStep ==
  ASSUME IInv, PollInv, PollRequest
  PROVE  PromiseStep
<1> DEFINE a == [polling EXCEPT !.pending = TRUE]
           r == [a EXCEPT !.writable = TRUE]
           n == [Net EXCEPT !.polling = r]
<1>1. CASE polling.pending
  BY <1>1, NetPolling, OnCloseStep DEF PollRequest, Unmoved, Promise!Failures
<1>2. CASE ~polling.pending
  <2>1. Flush([Net EXCEPT !.polling.pending = TRUE, !.polling.writable = TRUE], Polling, writeBuffer)
        /\ readyState # "closed"
    BY <1>2 DEF PollRequest
  <2>2. [Net EXCEPT !.polling.pending = TRUE, !.polling.writable = TRUE] = n
    BY DEF Net
  <2>3. polling \in PollingType /\ Net \in NetType
    BY NetPolling
  <2>4. a \in PollingType /\ a.encoding = polling.encoding
    BY <2>3 DEF PollingType
  <2>5. a.pending
    BY <2>3 DEF PollingType
  <2> HIDE DEF a
  <2>6. r \in PollingType /\ r.encoding = polling.encoding
    BY <2>4 DEF PollingType
  <2>7. r.pending /\ r.writable
    BY <2>4, <2>5 DEF PollingType
  <2> HIDE DEF r
  <2>8. n \in NetType /\ n.polling = r /\ n.wire = Net.wire
    BY <2>3, <2>6, SetPolling DEF NetType
  <2> HIDE DEF n
  <2>9. polling.encoding = <<>>
    BY <1>2 DEF PollInv, Holds
  <2>10. Holds(n.polling)
    BY <2>6, <2>7, <2>8, <2>9 DEF Holds
  <2>11. Unmoved(Net, n)
    BY <2>6, <2>8, NetPolling DEF Unmoved
  <2>12. Flush(n, Polling, writeBuffer) /\ UNCHANGED sent
    BY <2>1, <2>2 DEF PollRequest
  <2> QED BY <2>1, <2>8, <2>10, <2>11, <2>12, FlushStep DEF Transports
<1> QED BY <1>1, <1>2

LEMMA DataRequestStep ==
  ASSUME IInv, PollInv, NEW type, DataRequest(type)
  PROVE  PromiseStep
<1>0. UNCHANGED sent
  BY DEF DataRequest
<1>1. CASE type = "close"
  <2> DEFINE n == DoClosePoll(Net, "noop")
  <2>1. n \in NetType /\ Unmoved(Net, n)
    BY NetPolling, DoClosePollNet, DoClosePollUnmoved DEF PacketTypes, Own
  <2>2. OnClose(n, "transport close") \/ (Becomes(n) /\ UNCHANGED session)
    BY <1>1 DEF DataRequest
  <2> HIDE DEF n
  <2> QED BY <1>0, <2>1, <2>2, OnCloseStep, NetStep DEF Promise!Failures
<1>2. CASE OnClose(Net, "transport error")
  BY <1>0, <1>2, NetPolling, OnCloseStep DEF Unmoved, Promise!Failures
<1>3. CASE OnPacket(type)
  BY <1>0, <1>3, OnPacketStep
<1> QED BY <1>1, <1>2, <1>3 DEF DataRequest

\* The encoder writes the batch in hand, or finds no request to write it to.
LEMMA BlobEncodedStep ==
  ASSUME IInv, PollInv, BlobEncoded
  PROVE  PromiseStep
<1> DEFINE r == [polling EXCEPT !.encoding = <<>>]
           m == [Net EXCEPT !.polling = r]
           n == WritePoll(m, polling.encoding)
           batch == MessagesOf(polling.encoding)
<1>1. polling \in PollingType /\ Net \in NetType /\ Net.polling = polling
  BY NetPolling
<1>2. [Net EXCEPT !.polling.encoding = <<>>] = m
  BY DEF Net
<1>3. Becomes(n) /\ UNCHANGED <<readyState, closeReason, writeBuffer, sent>>
  BY <1>2 DEF BlobEncoded, session
<1>4. r \in PollingType /\ r.encoding = <<>>
  <2>1. <<>> \in Seq(Packet)
    OBVIOUS
  <2> QED BY <1>1, <2>1 DEF PollingType
<1>5. polling.encoding \in Seq(Packet)
  BY <1>1 DEF PollingType
<1> HIDE DEF r
<1>6. m \in NetType /\ m.polling = r /\ m.wire = Net.wire
  BY <1>1, <1>4, SetPolling DEF NetType
<1> HIDE DEF m
<1>7. n.polling.encoding = <<>> /\ (Left(n) = Left(m) \o batch \/ Left(n) = Left(m))
  BY <1>4, <1>5, <1>6, WritePollHanded
<1>8. Left(m) = Left(Net) /\ Hand(n) = <<>> /\ Hand(Net) = batch
  BY <1>1, <1>6, <1>7, MessagesEmpty DEF Left, Hand
<1>9. batch \in Seq(Nat) /\ Left(Net) \in Seq(Nat)
  BY <1>1, <1>5, MessagesType, LeftType DEF Left, NetType, Payload
<1> HIDE DEF n
<1>10. CASE batch # <<>>
  <2>1. Promise!Written
    BY <1>3, <1>7, <1>8, <1>10, BecomesMoved DEF Promise!Written
  <2> QED BY <2>1 DEF PromiseStep, Promise!Next
<1>11. CASE batch = <<>>
  <2>1. Left(Net) \o <<>> = Left(Net)
    BY <1>9
  <2> HIDE DEF batch
  <2>2. Left(n) = Left(Net) /\ Hand(n) = Hand(Net)
    BY <1>7, <1>8, <1>11, <2>1
  <2> QED BY <1>3, <2>2, BecomesMoved DEF PromiseStep, Promise!vars
<1> QED BY <1>10, <1>11

LEMMA MaybeUpgradeStep ==
  ASSUME IInv, PollInv, NEW w \in WS, MaybeUpgrade(w)
  PROVE  PromiseStep
<1> DEFINE n == [Net EXCEPT !.ws[w].readyState = "open", !.ws[w].socket = "connecting"]
           m == [n EXCEPT !.ws[w].listeners = "candidate", !.ws[w].upgradeTimer = TRUE]
<1>1. /\ Becomes(CloseOf(n, w)) \/ Becomes(m)
      /\ UNCHANGED <<readyState, closeReason, writeBuffer, sent>>
  BY DEF MaybeUpgrade
<1>2. n \in NetType /\ Net \in NetType /\ w \in Transports
  BY NetPolling, ConnectingNet, WsListeners
<1>3. Unmoved(Net, n)
  BY <1>2 DEF NetType, Unmoved
<1> HIDE DEF n
<1>4. Unmoved(n, m)
  BY <1>2 DEF NetType, Unmoved
<1> HIDE DEF m
<1>5. Unmoved(Net, CloseOf(n, w)) /\ Unmoved(Net, m)
  BY <1>2, <1>3, <1>4, CloseOfUnmoved, UnmovedTrans
<1> QED BY <1>1, <1>5, Stutters

LEMMA WsOpenStep ==
  ASSUME IInv, PollInv, NEW w \in WS, WsOpen(w)
  PROVE  PromiseStep
<1> DEFINE n == [Net EXCEPT !.ws[w].socket = "open", !.ws[w].writable = TRUE]
<1>1. Net \in NetType /\ n \in NetType
  BY NetPolling, OpenedNet
<1>2. n.polling = Net.polling /\ Unmoved(Net, n)
  BY <1>1 DEF NetType, Unmoved
<1>3. CASE ws[w].listeners = "socket"
  <2>1. ListenersOf(Net, w) = "socket" /\ w \in Transports
    BY <1>3, WsListeners DEF Net
  <2>2. readyState # "closed"
    BY <2>1 DEF IInv, SessionInv, NetInv, Wired
  <2>3. Flush(n, w, writeBuffer) /\ UNCHANGED sent
    BY <1>3 DEF WsOpen
  <2> HIDE DEF n
  <2>4. Holds(n.polling)
    BY <1>2, NetPolling
  <2> QED BY <1>1, <1>2, <2>1, <2>2, <2>3, <2>4, FlushStep
<1>4. CASE ws[w].listeners # "socket"
  <2>1. Becomes(n) /\ UNCHANGED <<session, sent>>
    BY <1>4 DEF WsOpen
  <2> HIDE DEF n
  <2> QED BY <1>2, <2>1, NetStep
<1> QED BY <1>3, <1>4

LEMMA WsClosedStep ==
  ASSUME IInv, PollInv, NEW w \in WS, WsClosed(w)
  PROVE  PromiseStep
<1> DEFINE n == [Net EXCEPT !.ws[w].socket = "closed", !.ws[w].writable = FALSE,
                            !.ws[w].readyState = "closed"]
           c == ClearFast(n, w)
           m == Listen(c, w, "none")
<1>0. UNCHANGED sent
  BY DEF WsClosed
<1>1. Net \in NetType /\ n \in NetType /\ w \in Transports
  BY NetPolling, EndedNet, WsListeners
<1>2. Unmoved(Net, n)
  BY <1>1 DEF NetType, Unmoved
<1>3. CASE ws[w].listeners = "socket"
  <2>1. OnClose(n, "transport close")
    BY <1>3 DEF WsClosed
  <2> HIDE DEF n
  <2> QED BY <1>0, <1>1, <1>2, <2>1, OnCloseStep DEF Promise!Failures
<1>4. CASE ws[w].listeners = "candidate"
  <2>1. Becomes(m) /\ UNCHANGED session
    BY <1>4 DEF WsClosed
  <2> HIDE DEF n
  <2>2. c \in NetType /\ Unmoved(n, c)
    BY <1>1, ClearFastNet DEF ClearFast, NetType, Unmoved
  <2> HIDE DEF c
  <2>3. Unmoved(c, m)
    BY <1>1, <2>2, ListenUnmoved
  <2> HIDE DEF m
  <2> QED BY <1>0, <1>2, <2>1, <2>2, <2>3, UnmovedTrans, NetStep
<1>5. CASE ws[w].listeners \notin {"socket", "candidate"}
  <2>1. Becomes(n) /\ UNCHANGED session
    BY <1>5 DEF WsClosed
  <2> HIDE DEF n
  <2> QED BY <1>0, <1>2, <2>1, NetStep
<1> QED BY <1>3, <1>4, <1>5

LEMMA TimedOutStep ==
  ASSUME IInv, PollInv, NEW w \in WS, UNCHANGED <<session, sent>>,
         Becomes(CloseOf([Net EXCEPT !.ws[w].upgradeTimer = FALSE], w))
  PROVE  PromiseStep
<1> DEFINE m == [Net EXCEPT !.ws[w].upgradeTimer = FALSE]
<1>1. m \in NetType /\ Net \in NetType /\ w \in Transports
  BY NetPolling, UpgradeTimerNet, WsListeners
<1>2. Unmoved(Net, m)
  BY <1>1 DEF NetType, Unmoved
<1>3. Becomes(CloseOf(m, w))
  OBVIOUS
<1> HIDE DEF m
<1>4. Unmoved(Net, CloseOf(m, w))
  BY <1>1, <1>2, CloseOfUnmoved, UnmovedTrans
<1> QED BY <1>3, <1>4, NetStep

\* What waits goes to the candidate that takes over, after the request that
\* polling holds was answered.
LEMMA UpgradeStep ==
  ASSUME IInv, PollInv, NEW w \in WS, readyState # "closed", Upgrade(w), UNCHANGED sent
  PROVE  PromiseStep
<1> DEFINE a == Listen(Net, w, "none")
           c == ClearFast(a, w)
           freed == [c EXCEPT !.ws[w].upgradeTimer = FALSE]
           b == CloseTransport(freed, transport)
           n == Listen(b, w, "socket")
<1>1. w \in Transports /\ w # Polling /\ Net \in NetType /\ transport \in Transports
  BY WsListeners, PollingAssumption, NetPolling
<1>2. a \in NetType /\ Unmoved(Net, a)
  BY <1>1, ListenNet, ListenUnmoved
<1>3. a.polling = Net.polling
  BY <1>1 DEF Listen, NetType
<1> HIDE DEF a
<1>4. c \in NetType
  BY <1>2, ClearFastNet
<1>5. c.polling = a.polling /\ Unmoved(a, c)
  BY <1>2 DEF ClearFast, NetType, Unmoved
<1> HIDE DEF c
<1>6. freed \in NetType
  BY <1>4, UpgradeTimerNet
<1>7. freed.polling = c.polling /\ Unmoved(c, freed)
  BY <1>4 DEF NetType, Unmoved
<1> HIDE DEF freed
<1>8. b \in NetType
  <2>1. Listen(freed, transport, "none") \in NetType
    BY <1>1, <1>6, ListenNet
  <2> QED BY <1>1, <2>1, CloseOfNet DEF CloseTransport
<1>9. Holds(b.polling) /\ Unmoved(freed, b)
  BY <1>1, <1>3, <1>5, <1>6, <1>7, NetPolling, CloseTransportPolling, CloseTransportUnmoved
<1> HIDE DEF b
<1>10. n \in NetType /\ Unmoved(b, n)
  BY <1>1, <1>8, ListenNet, ListenUnmoved
<1>11. n.polling = b.polling
  BY <1>1, <1>8 DEF Listen, NetType
<1> HIDE DEF n
<1>12. Unmoved(Net, n)
  BY <1>2, <1>5, <1>7, <1>9, <1>10, UnmovedTrans
<1>13. Flush(n, w, writeBuffer)
  BY DEF Upgrade, n, b, freed, c, a
<1> QED BY <1>1, <1>9, <1>10, <1>11, <1>12, <1>13, FlushStep

LEMMA WsPacketStep ==
  ASSUME IInv, PollInv, NEW w \in WS, NEW type, WsPacket(w, type)
  PROVE  PromiseStep
<1>0. UNCHANGED sent
  BY DEF WsPacket
<1>1. CASE Becomes(DoCloseWs(Net, w)) /\ UNCHANGED session
  BY <1>0, <1>1, NetPolling, DoCloseWsUnmoved, NetStep
<1>2. CASE OnClose(Net, "transport error")
  BY <1>0, <1>2, NetPolling, OnCloseStep DEF Unmoved, Promise!Failures
<1>3. CASE OnPacket(type)
  BY <1>0, <1>3, OnPacketStep
<1>4. CASE Probe(w)
  <2> DEFINE m == SendNoop(Net)
             n == [m EXCEPT !.ws[w].fastTimers = @ + 1]
  <2>1. Becomes(n) /\ UNCHANGED session
    BY <1>4 DEF Probe
  <2>2. m \in NetType /\ Unmoved(Net, m)
    BY NetPolling, SendNoopNet, SendNoopUnmoved
  <2> HIDE DEF m
  <2>3. Unmoved(m, n)
    BY <2>2 DEF NetType, Unmoved
  <2> HIDE DEF n
  <2> QED BY <1>0, <2>1, <2>2, <2>3, UnmovedTrans, NetStep
<1>5. CASE readyState # "closed" /\ Upgrade(w)
  BY <1>0, <1>5, UpgradeStep
<1>6. CASE InvalidUpgrade(w)
  BY <1>0, <1>6, TimedOutStep DEF InvalidUpgrade
<1> QED BY <1>1, <1>2, <1>3, <1>4, <1>5, <1>6 DEF WsPacket

\* A ping takes along what waits, if the transport can be written to.
LEMMA PingStep ==
  ASSUME IInv, PollInv, PingIntervalFires
  PROVE  PromiseStep
<1> DEFINE buf == Append(writeBuffer, Control("ping"))
           canFlush == readyState = "open" /\ Writable(Net, transport)
           n == SendOn(Net, transport, buf)
<1>1. /\ writeBuffer' = IF canFlush THEN <<>> ELSE IF readyState = "open" THEN buf ELSE writeBuffer
      /\ Becomes(IF canFlush THEN n ELSE Net)
      /\ UNCHANGED <<readyState, closeReason, sent>>
  BY DEF PingIntervalFires
<1>2. buf \in Seq(Packet) /\ writeBuffer \in Seq(Packet) /\ transport \in Transports
  BY DEF Control, Packet, PacketTypes, IInv, SessionInv, StateInv, NetInv
<1>3. MessagesOf(buf) = MessagesOf(writeBuffer)
  BY <1>2, OwnPackets, MessagesAppend DEF Own, PacketTypes
<1>4. CASE canFlush
  <2>1. Handed(Net, n, MessagesOf(writeBuffer))
    BY <1>2, <1>3, <1>4, NetPolling, SendOnHanded
  <2>2. Becomes(n) /\ writeBuffer' = <<>> /\ readyState = "open"
    BY <1>1, <1>4
  <2> HIDE DEF n
  <2> QED BY <1>1, <1>2, <2>1, <2>2, NetPolling, MessagesType, Drains
<1>5. CASE ~canFlush
  <2>1. Becomes(Net) /\ writeBuffer' \in {buf, writeBuffer}
    BY <1>1, <1>5
  <2> HIDE DEF buf, canFlush
  <2>2. MessagesOf(writeBuffer)' = MessagesOf(writeBuffer)
    BY <1>3, <2>1
  <2> QED BY <1>1, <2>1, <2>2, Stutters DEF Unmoved
<1> QED BY <1>4, <1>5

LEMMA PingTimeoutStep ==
  ASSUME IInv, PollInv, PingTimeoutFires
  PROVE  PromiseStep
<1>0. UNCHANGED sent
  BY DEF PingTimeoutFires
<1>1. CASE OnClose(Net, "ping timeout")
  BY <1>0, <1>1, NetPolling, OnCloseStep DEF Unmoved, Promise!Failures
<1>2. CASE UNCHANGED <<session, net>>
  BY <1>0, <1>2 DEF PromiseStep, Promise!vars, session, net
<1> QED BY <1>1, <1>2 DEF PingTimeoutFires

\* What waits goes first, and the new message with it.
LEMMA SendStep ==
  ASSUME IInv, PollInv, NEW type \in {"message", "blob"}, Send(type)
  PROVE  PromiseStep
<1> DEFINE p == [type |-> type, id |-> sent + 1]
           buf == Append(writeBuffer, p)
           batch == Append(MessagesOf(writeBuffer), sent + 1)
           n == SendOn(Net, transport, buf)
           canFlush == readyState # "closed" /\ Writable(Net, transport) /\ buf # <<>>
<1>1. readyState = "open" /\ Flush(Net, transport, buf) /\ sent' = sent + 1
  BY DEF Send, SendPacket
<1>2. p \in Packet /\ IsMessage(p) /\ p.id = sent + 1
  BY DEF IInv, Packet, PacketTypes, IsMessage
<1>3. /\ writeBuffer \in Seq(Packet) /\ transport \in Transports /\ Net \in NetType
      /\ ~drainClose
  BY <1>1 DEF IInv, SessionInv, StateInv, NetInv
<1> HIDE DEF p
<1>4. buf \in Seq(Packet) /\ MessagesOf(buf) = batch
  BY <1>2, <1>3, MessagesAppend
<1>5. CASE ~canFlush /\ writeBuffer' = buf /\ Becomes(Net) /\ UNCHANGED <<readyState, closeReason>>
  <2>1. MessagesOf(writeBuffer)' = batch
    BY <1>4, <1>5
  <2> HIDE DEF buf, batch, canFlush
  <2>2. UNCHANGED <<MessagesOf(polling.encoding), MessagesLeft(wire)>>
    BY <1>5, BecomesMoved
  <2>3. Promise!Send
    BY <1>1, <1>5, <2>1, <2>2 DEF Promise!Send, batch
  <2> QED BY <2>3 DEF PromiseStep, Promise!Next
<1>6. CASE canFlush /\ writeBuffer' = <<>> /\ Becomes(n) /\ UNCHANGED <<readyState, closeReason>>
  <2>1. Handed(Net, n, batch)
    BY <1>3, <1>4, <1>6, NetPolling, SendOnHanded
  <2> HIDE DEF n, batch, buf, canFlush
  <2>2. Promise!Takes(batch)
    BY <1>6, <2>1, TakesBatch, MessagesEmpty
  <2>3. Promise!Send
    BY <1>1, <1>6, <2>2 DEF Promise!Send, batch
  <2> QED BY <2>3 DEF PromiseStep, Promise!Next
<1> HIDE DEF canFlush
<1> QED BY <1>1, <1>3, <1>5, <1>6 DEF Flush, canFlush

LEMMA CloseStep ==
  ASSUME IInv, PollInv, Close
  PROVE  PromiseStep
<1>0. UNCHANGED sent /\ readyState = "open"
  BY DEF Close
<1>1. CASE writeBuffer = <<>>
  <2>1. OnClose(Net, "forced close")
    BY <1>1 DEF Close
  <2> QED BY <1>0, <1>1, <2>1, NetPolling, OnCloseStep DEF Unmoved
<1>2. CASE writeBuffer # <<>>
  <2>1. readyState' = "closing" /\ UNCHANGED <<closeReason, writeBuffer, net, sent>>
    BY <1>2 DEF Close
  <2>2. UNCHANGED <<MessagesOf(writeBuffer), MessagesOf(polling.encoding), MessagesLeft(wire)>>
    BY <2>1 DEF net
  <2>3. Promise!CloseWaits
    BY <1>0, <2>1, <2>2 DEF Promise!CloseWaits
  <2> QED BY <2>3 DEF PromiseStep, Promise!Next
<1> QED BY <1>1, <1>2

-----------------------------------------------------------------------------
LEMMA PromiseInit == Init => Promise!Init
<1> SUFFICES ASSUME Init PROVE Promise!Init
  OBVIOUS
<1>1. MessagesOf(writeBuffer) = <<>>
  <2>1. writeBuffer = Append(<<>>, Control("open")) /\ <<>> \in Seq(Packet)
    BY DEF Init
  <2>2. Control("open") \in Packet /\ ~IsMessage(Control("open"))
    BY OwnPackets DEF Own, PacketTypes
  <2> QED BY <2>1, <2>2, MessagesAppend, MessagesEmpty
<1>2. MessagesOf(polling.encoding) = <<>> /\ MessagesLeft(wire) = <<>>
  BY MessagesEmpty, LeftEmpty DEF Init
<1> QED BY <1>1, <1>2 DEF Init, Promise!Init

LEMMA PromiseNext == IInv /\ PollInv /\ [Next]_vars => [Promise!Next]_(Promise!vars)
<1> SUFFICES ASSUME IInv, PollInv, [Next]_vars PROVE PromiseStep
  BY DEF PromiseStep
<1>1. CASE PollRequest
  BY <1>1, PollRequestStep
<1>2. ASSUME NEW type, DataRequest(type) PROVE PromiseStep
  BY <1>2, DataRequestStep
<1>3. CASE BlobEncoded
  BY <1>3, BlobEncodedStep
<1>4. ASSUME NEW w \in WS, MaybeUpgrade(w) PROVE PromiseStep
  BY <1>4, MaybeUpgradeStep
<1>5. ASSUME NEW w \in WS, WsOpen(w) PROVE PromiseStep
  BY <1>5, WsOpenStep
<1>6. ASSUME NEW w \in WS, WsClosed(w) PROVE PromiseStep
  BY <1>6, WsClosedStep
<1>7. ASSUME NEW w \in WS, UpgradeTimeout(w) PROVE PromiseStep
  BY <1>7, TimedOutStep DEF UpgradeTimeout
<1>8. ASSUME NEW w \in WS, FastUpgradeTick(w) PROVE PromiseStep
  BY <1>8, NetPolling, SendNoopUnmoved, NetStep DEF FastUpgradeTick
<1>9. ASSUME NEW w \in WS, NEW type, WsPacket(w, type) PROVE PromiseStep
  BY <1>9, WsPacketStep
<1>10. CASE PingIntervalFires
  BY <1>10, PingStep
<1>11. CASE PingTimeoutFires
  BY <1>11, PingTimeoutStep
<1>12. ASSUME NEW type \in {"message", "blob"}, Send(type) PROVE PromiseStep
  BY <1>12, SendStep
<1>13. CASE Close
  BY <1>13, CloseStep
<1>14. CASE UNCHANGED vars
  BY <1>14 DEF PromiseStep, Promise!vars, vars, session, net
<1> QED
  BY <1>1, <1>2, <1>3, <1>4, <1>5, <1>6, <1>7, <1>8, <1>9, <1>10, <1>11, <1>12, <1>13, <1>14
  DEF Next, Timers

\* Whatever happens to its transports, a session is a Connection: every step of
\* EngineSocket is one of Connection's, or none.
THEOREM SessionKeepsPromise == Spec => KeepsPromise
<1>1. Init => IInv /\ PollInv /\ Promise!Init
  BY InvInit, PollInit, PromiseInit
<1>2. IInv /\ PollInv /\ [Next]_vars => (IInv /\ PollInv)'
  BY InvNext, PollNext
<1>3. IInv /\ PollInv /\ [Next]_vars => [Promise!Next]_(Promise!vars)
  BY PromiseNext
<1> QED BY <1>1, <1>2, <1>3, PTL DEF Spec, KeepsPromise, Promise!Spec
-----------------------------------------------------------------------------
(* The client's invariant.  The messages that left and those that the      *)
(* encoder has are the first that were sent; with those that wait they are *)
(* all, unless the WebSocket of the session has ended (Mute) and drops     *)
(* what it is given.  The client has what left, in order: received, in the *)
(* answer of its request, or on the WebSocket, but not yet both of these.  *)

Frame == [type : {"probe", "upgrade", "message"}, id : Nat]

ClientType ==
  /\ phase \in {"polling", "probing", "pausing", "upgraded", "gone"} /\ candidate \in Transports
  /\ get \in {"none", "sent", "answered"} /\ probed \in BOOLEAN
  /\ post \in Nat /\ fromClient \in Nat /\ frames \in Seq(Frame)
  /\ body \in Seq(Nat) /\ arriving \in Seq(Nat) /\ toClient \in Seq(Nat) /\ toServer \in Seq(Nat)

Past == {"closing", "closed"}
Mute == transport # Polling /\ ws[transport].socket \in Past
Stream == MessagesLeft(wire) \o MessagesOf(polling.encoding)
Due == Stream \o MessagesOf(writeBuffer)

\* A WebSocket that can be written to is or was open.
Opened(s) ==
  /\ s.writable => s.socket \in {"open"} \union Past
  /\ s.readyState = "absent" => s.socket = "none"

\* The request that the server holds is the client's, and polling is over when
\* the session has upgraded.
Listened ==
  /\ polling.pending => get = "sent"
  /\ get # "answered" => body = <<>>
  /\ transport = Polling => arriving = <<>>
  /\ transport # Polling => transport = candidate /\ phase \in {"upgraded", "gone"}
  /\ transport # Polling \/ phase = "upgraded" => get = "none" /\ post = 0
  /\ \A w \in WS : Opened(ws[w])

Down ==
  /\ toClient \o body \o arriving = MessagesLeft(wire)
  /\ Prefix(Stream, sent)
  /\ readyState # "closed" /\ ~Mute => Prefix(Due, sent) /\ Len(Due) = sent

\* The frames of the client: the probe, or the upgrade and the messages after it.
Framed ==
  /\ \A i \in DOMAIN frames :
       IF frames[i].type = "message"
       THEN phase = "upgraded" /\ frames[i].id = fromClient - Len(frames) + i
       ELSE i = 1 /\ (frames[i].type = "upgrade" <=> phase = "upgraded")
  /\ phase = "pausing" \/ (phase = "probing" /\ probed) => frames = <<>>
  /\ phase \in {"probing", "pausing", "upgraded"} \/ frames # <<>> \/ probed => candidate \in WS
  /\ phase = "upgraded" /\ (frames # <<>> => Head(frames).type = "message")
       => transport = candidate \/ readyState = "closed"

\* The messages of the client that the server has still to hear.
InFrames == IF frames # <<>> /\ Head(frames).type # "message" THEN Len(frames) - 1 ELSE Len(frames)
OnWay == (IF post # 0 THEN 1 ELSE 0) + InFrames

Up ==
  /\ Prefix(toServer, fromClient)
  /\ post # 0 => post = fromClient
  /\ readyState = "open" =>
       IF phase = "gone" THEN post = 0 /\ frames = <<>> ELSE Len(toServer) + OnWay = fromClient

FifoInv == ClientType /\ Listened /\ Down /\ Framed /\ Up

-----------------------------------------------------------------------------
(* Sequences of messages.                                                  *)

LEMMA CatAssoc ==
  ASSUME NEW a \in Seq(Nat), NEW b \in Seq(Nat), NEW c \in Seq(Nat)
  PROVE  (a \o b) \o c = a \o (b \o c)
OBVIOUS

LEMMA PrefixCat ==
  ASSUME NEW a \in Seq(Nat), NEW b \in Seq(Nat), NEW n \in Nat, Prefix(a \o b, n)
  PROVE  Prefix(a, n)
<1>1. Len(a) \in Nat /\ Len(b) \in Nat /\ Len(a \o b) = Len(a) + Len(b)
  OBVIOUS
<1>2. \A i \in DOMAIN a : (a \o b)[i] = a[i] /\ i \in DOMAIN (a \o b)
  OBVIOUS
<1> QED BY <1>1, <1>2 DEF Prefix

LEMMA PrefixNext ==
  ASSUME NEW a \in Seq(Nat), NEW n \in Nat, Prefix(a, n), Len(a) = n
  PROVE  Prefix(Append(a, n + 1), n + 1) /\ Len(Append(a, n + 1)) = n + 1
<1> DEFINE b == Append(a, n + 1)
<1>1. Len(b) = n + 1 /\ DOMAIN b = 1..n + 1 /\ DOMAIN a = 1..n
  OBVIOUS
<1>2. \A i \in 1..n + 1 : b[i] = IF i = n + 1 THEN n + 1 ELSE a[i]
  OBVIOUS
<1> HIDE DEF b
<1>3. ASSUME NEW i \in DOMAIN b PROVE b[i] = i
  BY <1>1, <1>2 DEF Prefix
<1> QED BY <1>1, <1>3 DEF Prefix, b
-----------------------------------------------------------------------------
(* What the operations on the transports leave of the WebSockets.          *)

\* A WebSocket r has become s: what has ended has not come back.
Later(r, s) == (r.socket \in Past => s.socket \in Past) /\ (Opened(r) => Opened(s))
SocketsOn(m, n) == \A w \in WS : Later(m.ws[w], n.ws[w])

\* No message moves from m to n, and no request arrives.
Calm(m, n) ==
  /\ Unmoved(m, n) /\ SocketsOn(m, n) /\ (n.polling.pending => m.polling.pending)

LEMMA CalmTrans ==
  ASSUME NEW l, NEW m, NEW n, Calm(l, m), Calm(m, n)
  PROVE  Calm(l, n)
BY DEF Calm, Unmoved, SocketsOn, Later

\* The WebSockets are as they were.
LEMMA SameSockets ==
  ASSUME NEW m, NEW n, n.ws = m.ws
  PROVE  SocketsOn(m, n)
BY DEF SocketsOn, Later

LEMMA CalmSame == ASSUME NEW n PROVE Calm(n, n)
BY DEF Calm, Unmoved, SocketsOn, Later

\* One WebSocket has a new record.
LEMMA CalmWs ==
  ASSUME NEW n \in NetType, NEW w \in WS, NEW r \in WsType, Later(n.ws[w], r)
  PROVE  Calm(n, [n EXCEPT !.ws = [n.ws EXCEPT ![w] = r]])
<1> DEFINE m == [n EXCEPT !.ws = [n.ws EXCEPT ![w] = r]]
<1>1. m.polling = n.polling /\ \A v \in WS : m.ws[v] = IF v = w THEN r ELSE n.ws[v]
  BY SetWsNet
<1>2. m.wire = n.wire
  BY DEF NetType
<1> HIDE DEF m
<1>3. SocketsOn(n, m)
  BY <1>1 DEF SocketsOn, Later
<1> QED BY <1>1, <1>2, <1>3 DEF Calm, Unmoved, m

LEMMA WritePollWs ==
  ASSUME NEW n \in NetType, NEW pkts
  PROVE  WritePoll(n, pkts).ws = n.ws
BY DEF WritePoll, NetType

LEMMA SendPollWs ==
  ASSUME NEW n \in NetType, NEW pkts \in Seq(Packet)
  PROVE  /\ SendPoll(n, pkts).ws = n.ws
         /\ SendPoll(n, pkts).polling.pending => n.polling.pending
<1> DEFINE r == [n.polling EXCEPT !.writable = FALSE]
           m == [n EXCEPT !.polling = r]
<1>1. CASE Has(pkts, LAMBDA p : p.type = "blob")
  <2> DEFINE s == [n.polling EXCEPT !.writable = FALSE, !.encoding = pkts]
  <2>1. SendPoll(n, pkts) = [n EXCEPT !.polling = s]
    BY <1>1 DEF SendPoll, NetType
  <2>2. s.pending = n.polling.pending
    BY PollingTyped DEF PollingType
  <2> HIDE DEF s
  <2>3. SendPoll(n, pkts).ws = n.ws /\ SendPoll(n, pkts).polling = s
    BY <2>1 DEF NetType
  <2> QED BY <2>2, <2>3
<1>2. CASE ~Has(pkts, LAMBDA p : p.type = "blob")
  <2>1. SendPoll(n, pkts) = WritePoll(m, pkts)
    BY <1>2 DEF SendPoll, NetType
  <2>2. r \in PollingType
    BY PollingTyped DEF PollingType
  <2> HIDE DEF r
  <2>3. m \in NetType /\ m.ws = n.ws
    BY <2>2, SetPolling DEF NetType
  <2> HIDE DEF m
  <2>4. WritePoll(m, pkts).ws = m.ws /\ ~WritePoll(m, pkts).polling.pending
    BY <2>3, WritePollWs, WritePollPolling
  <2> QED BY <2>1, <2>3, <2>4
<1> QED BY <1>1, <1>2

LEMMA DoClosePollCalm ==
  ASSUME NEW n \in NetType, NEW type \in Own
  PROVE  Calm(n, DoClosePoll(n, type))
<1> DEFINE a == IF n.polling.writable THEN SendPoll(n, <<Control(type)>>) ELSE n
           r == [a.polling EXCEPT !.readyState = "closed"]
<1>1. a \in NetType
  BY OwnPackets, SendPollNet
<1>2. a.ws = n.ws /\ (a.polling.pending => n.polling.pending)
  BY OwnPackets, SendPollWs
<1>3. DoClosePoll(n, type) = [a EXCEPT !.polling.readyState = "closed"]
  BY DEF DoClosePoll
<1> HIDE DEF a
<1>4. r.pending = a.polling.pending
  BY <1>1, PollingTyped DEF PollingType
<1>5. DoClosePoll(n, type) = [a EXCEPT !.polling = r]
  BY <1>1, <1>3 DEF NetType
<1> HIDE DEF r
<1>6. DoClosePoll(n, type).polling = r /\ DoClosePoll(n, type).ws = a.ws
  BY <1>1, <1>5 DEF NetType
<1>7. SocketsOn(n, DoClosePoll(n, type))
  BY <1>2, <1>6, SameSockets
<1> QED BY <1>2, <1>4, <1>6, <1>7, DoClosePollUnmoved DEF Calm

LEMMA DoCloseWsCalm ==
  ASSUME NEW n \in NetType, NEW w \in WS
  PROVE  Calm(n, DoCloseWs(n, w))
<1> DEFINE r == [n.ws[w] EXCEPT !.socket = "closing"]
           m == [n EXCEPT !.ws = [n.ws EXCEPT ![w] = r]]
<1>1. CASE n.ws[w].socket \in {"connecting", "open"}
  <2>1. DoCloseWs(n, w) = m
    BY <1>1 DEF DoCloseWs, NetType
  <2>2. n.ws[w] \in WsType
    BY WsTyped
  <2>3. r \in WsType
    BY <2>2 DEF WsType
  <2>4. r.socket = "closing" /\ r.readyState = n.ws[w].readyState
    BY <2>2 DEF WsType
  <2> HIDE DEF r
  <2>5. Later(n.ws[w], r)
    BY <1>1, <2>4 DEF Later, Opened, Past
  <2> QED BY <2>1, <2>3, <2>5, CalmWs
<1>2. CASE n.ws[w].socket \notin {"connecting", "open"}
  BY <1>2, CalmSame DEF DoCloseWs
<1> QED BY <1>1, <1>2

LEMMA CloseOfCalm ==
  ASSUME NEW n \in NetType, NEW t \in Transports
  PROVE  Calm(n, CloseOf(n, t))
<1>1. CASE t = Polling
  <2>1. Calm(n, DoClosePoll(n, "close")) /\ Calm(n, n)
    BY DoClosePollCalm, CalmSame DEF Own, PacketTypes
  <2> QED BY <1>1, <2>1 DEF CloseOf
<1>2. CASE t # Polling
  <2> DEFINE r == [n.ws[t] EXCEPT !.readyState = "closing"]
             m == [n EXCEPT !.ws[t].readyState = "closing"]
  <2>1. t \in WS /\ n.ws[t] \in WsType
    BY <1>2, WsTyped DEF Transports
  <2>2. CASE n.ws[t].readyState = "open"
    <3>1. CloseOf(n, t) = DoCloseWs(m, t)
      BY <1>2, <2>2 DEF CloseOf
    <3>2. m = [n EXCEPT !.ws = [n.ws EXCEPT ![t] = r]]
      BY <2>1 DEF NetType
    <3>3. r \in WsType
      BY <2>1 DEF WsType
    <3>4. r.socket = n.ws[t].socket /\ r.writable = n.ws[t].writable /\ r.readyState = "closing"
      BY <2>1 DEF WsType
    <3> HIDE DEF r, m
    <3>5. Later(n.ws[t], r)
      BY <3>4 DEF Later, Opened
    <3>6. m \in NetType /\ Calm(n, m)
      BY <2>1, <3>2, <3>3, <3>5, SetWsNet, CalmWs
    <3> QED BY <2>1, <3>1, <3>6, DoCloseWsCalm, CalmTrans
  <2>3. CASE n.ws[t].readyState # "open"
    BY <1>2, <2>3, CalmSame DEF CloseOf
  <2> QED BY <2>2, <2>3
<1> QED BY <1>1, <1>2

LEMMA ListenCalm ==
  ASSUME NEW n \in NetType, NEW t \in Transports, NEW who \in {"none", "socket"}
  PROVE  Calm(n, Listen(n, t, who))
<1>1. CASE t = Polling
  <2>1. Listen(n, t, who).ws = n.ws
    BY <1>1 DEF Listen, NetType
  <2> QED BY <2>1, SameSockets, ListenUnmoved, ListenPolling DEF Calm
<1>2. CASE t # Polling
  <2> DEFINE r == [n.ws[t] EXCEPT !.listeners = who]
  <2>1. t \in WS /\ n.ws[t] \in WsType
    BY <1>2, WsTyped DEF Transports
  <2>2. Listen(n, t, who) = [n EXCEPT !.ws = [n.ws EXCEPT ![t] = r]]
    BY <1>2, <2>1 DEF Listen, NetType
  <2>3. r \in WsType
    BY <2>1 DEF WsType
  <2>4. r.socket = n.ws[t].socket /\ r.writable = n.ws[t].writable /\ r.readyState = n.ws[t].readyState
    BY <2>1 DEF WsType
  <2> HIDE DEF r
  <2>5. Later(n.ws[t], r)
    BY <2>4 DEF Later, Opened
  <2> QED BY <2>1, <2>2, <2>3, <2>5, CalmWs
<1> QED BY <1>1, <1>2

LEMMA CloseTransportCalm ==
  ASSUME NEW n \in NetType, NEW t \in Transports
  PROVE  Calm(n, CloseTransport(n, t)) /\ CloseTransport(n, t) \in NetType
<1>1. Listen(n, t, "none") \in NetType /\ Calm(n, Listen(n, t, "none"))
  BY ListenNet, ListenCalm
<1> HIDE DEF Listen
<1> QED BY <1>1, CloseOfNet, CloseOfCalm, CalmTrans DEF CloseTransport

LEMMA SendNoopCalm ==
  ASSUME NEW n \in NetType
  PROVE  Calm(n, SendNoop(n))
<1>1. SendPoll(n, <<Control("noop")>>).ws = n.ws
      /\ (SendPoll(n, <<Control("noop")>>).polling.pending => n.polling.pending)
  BY SendPollWs, OwnPackets DEF Own, PacketTypes
<1>2. Calm(n, SendPoll(n, <<Control("noop")>>)) /\ Calm(n, n)
  BY <1>1, SameSockets, SendOwnUnmoved, CalmSame DEF Own, PacketTypes, Calm
<1> QED BY <1>2 DEF SendNoop

LEMMA ClearFastCalm ==
  ASSUME NEW n \in NetType, NEW w \in WS
  PROVE  Calm(n, ClearFast(n, w))
<1> DEFINE v == IF n.ws[w].fastTimers > 0 THEN n.ws[w].fastTimers - 1 ELSE 0
           r == [n.ws[w] EXCEPT !.fastTimers = v]
<1>1. n.ws[w] \in WsType
  BY WsTyped
<1>2. ClearFast(n, w) = [n EXCEPT !.ws = [n.ws EXCEPT ![w] = r]]
  BY DEF ClearFast, NetType
<1>3. v \in Nat
  BY <1>1 DEF WsType
<1> HIDE DEF v
<1>4. r \in WsType
  BY <1>1, <1>3 DEF WsType
<1>5. r.socket = n.ws[w].socket /\ r.writable = n.ws[w].writable /\ r.readyState = n.ws[w].readyState
  BY <1>1 DEF WsType
<1> HIDE DEF r
<1>6. Later(n.ws[w], r)
  BY <1>5 DEF Later, Opened
<1> QED BY <1>2, <1>4, <1>6, CalmWs

\* A timer of a WebSocket stops, or an interval starts.
LEMMA TimersCalm ==
  ASSUME NEW n \in NetType, NEW w \in WS
  PROVE  /\ Calm(n, [n EXCEPT !.ws[w].upgradeTimer = FALSE])
         /\ Calm(n, [n EXCEPT !.ws[w].fastTimers = @ + 1])
<1> DEFINE r == [n.ws[w] EXCEPT !.upgradeTimer = FALSE]
           s == [n.ws[w] EXCEPT !.fastTimers = @ + 1]
<1>1. n.ws[w] \in WsType
  BY WsTyped
<1>2. /\ [n EXCEPT !.ws[w].upgradeTimer = FALSE] = [n EXCEPT !.ws = [n.ws EXCEPT ![w] = r]]
      /\ [n EXCEPT !.ws[w].fastTimers = @ + 1] = [n EXCEPT !.ws = [n.ws EXCEPT ![w] = s]]
  BY DEF NetType
<1>3. r \in WsType /\ s \in WsType
  <2>1. r \in WsType
    BY <1>1 DEF WsType
  <2>2. s \in WsType
    BY <1>1 DEF WsType
  <2> QED BY <2>1, <2>2
<1>4. /\ r.socket = n.ws[w].socket /\ r.writable = n.ws[w].writable /\ r.readyState = n.ws[w].readyState
      /\ s.socket = n.ws[w].socket /\ s.writable = n.ws[w].writable /\ s.readyState = n.ws[w].readyState
  BY <1>1 DEF WsType
<1> HIDE DEF r, s
<1>5. Later(n.ws[w], r) /\ Later(n.ws[w], s)
  BY <1>4 DEF Later, Opened
<1> QED BY <1>2, <1>3, <1>5, CalmWs

\* A WebSocket is opened for the session, and becomes its candidate.
LEMMA ConnectingCalm ==
  ASSUME NEW n \in NetType, NEW w \in WS, n.ws[w].readyState = "absent", Opened(n.ws[w])
  PROVE  Calm(n, [n EXCEPT !.ws[w].readyState = "open", !.ws[w].socket = "connecting"])
<1> DEFINE r == [n.ws[w] EXCEPT !.readyState = "open", !.socket = "connecting"]
<1>1. n.ws[w] \in WsType
  BY WsTyped
<1>2. [n EXCEPT !.ws[w].readyState = "open", !.ws[w].socket = "connecting"]
        = [n EXCEPT !.ws = [n.ws EXCEPT ![w] = r]]
  BY DEF NetType
<1>3. r \in WsType
  BY <1>1, WsUpdates
<1>4. r.socket = "connecting" /\ r.writable = n.ws[w].writable /\ r.readyState = "open"
  BY <1>1 DEF WsType
<1> HIDE DEF r
<1>5. Later(n.ws[w], r)
  BY <1>4 DEF Later, Opened, Past
<1> QED BY <1>2, <1>3, <1>5, CalmWs

LEMMA CandidateCalm ==
  ASSUME NEW n \in NetType, NEW w \in WS
  PROVE  Calm(n, [n EXCEPT !.ws[w].listeners = "candidate", !.ws[w].upgradeTimer = TRUE])
<1> DEFINE r == [n.ws[w] EXCEPT !.listeners = "candidate", !.upgradeTimer = TRUE]
<1>1. n.ws[w] \in WsType
  BY WsTyped
<1>2. [n EXCEPT !.ws[w].listeners = "candidate", !.ws[w].upgradeTimer = TRUE]
        = [n EXCEPT !.ws = [n.ws EXCEPT ![w] = r]]
  BY DEF NetType
<1>3. r \in WsType
  BY <1>1, WsUpdates
<1>4. r.socket = n.ws[w].socket /\ r.writable = n.ws[w].writable /\ r.readyState = n.ws[w].readyState
  BY <1>1 DEF WsType
<1> HIDE DEF r
<1>5. Later(n.ws[w], r)
  BY <1>4 DEF Later, Opened
<1> QED BY <1>2, <1>3, <1>5, CalmWs

LEMMA OpenedCalm ==
  ASSUME NEW n \in NetType, NEW w \in WS, n.ws[w].socket = "connecting"
  PROVE  Calm(n, [n EXCEPT !.ws[w].socket = "open", !.ws[w].writable = TRUE])
<1> DEFINE r == [n.ws[w] EXCEPT !.socket = "open", !.writable = TRUE]
<1>1. n.ws[w] \in WsType
  BY WsTyped
<1>2. [n EXCEPT !.ws[w].socket = "open", !.ws[w].writable = TRUE]
        = [n EXCEPT !.ws = [n.ws EXCEPT ![w] = r]]
  BY DEF NetType
<1>3. r \in WsType
  <2>1. \A x \in WsType : [x EXCEPT !.socket = "open", !.writable = TRUE] \in WsType
    BY DEF WsType
  <2> QED BY <1>1, <2>1
<1>4. r.socket = "open" /\ r.readyState = n.ws[w].readyState
  BY <1>1 DEF WsType
<1> HIDE DEF r
<1>5. Later(n.ws[w], r)
  BY <1>4 DEF Later, Opened, Past
<1> QED BY <1>2, <1>3, <1>5, CalmWs

LEMMA EndedCalm ==
  ASSUME NEW n \in NetType, NEW w \in WS, n.ws[w].socket \in {"connecting", "open", "closing"}
  PROVE  Calm(n, [n EXCEPT !.ws[w].socket = "closed", !.ws[w].writable = FALSE,
                           !.ws[w].readyState = "closed"])
<1> DEFINE r == [n.ws[w] EXCEPT !.socket = "closed", !.writable = FALSE, !.readyState = "closed"]
<1>1. n.ws[w] \in WsType
  BY WsTyped
<1>2. [n EXCEPT !.ws[w].socket = "closed", !.ws[w].writable = FALSE, !.ws[w].readyState = "closed"]
        = [n EXCEPT !.ws = [n.ws EXCEPT ![w] = r]]
  BY DEF NetType
<1>3. r \in WsType
  <2>1. \A x \in WsType :
          [x EXCEPT !.socket = "closed", !.writable = FALSE, !.readyState = "closed"] \in WsType
    BY DEF WsType
  <2> QED BY <1>1, <2>1
<1>4. r.socket = "closed" /\ r.readyState = "closed"
  BY <1>1 DEF WsType
<1> HIDE DEF r
<1>5. Later(n.ws[w], r)
  BY <1>4 DEF Later, Opened, Past
<1> QED BY <1>2, <1>3, <1>5, CalmWs

\* What becomes of packets given to a transport t that can be written to: it
\* writes them, keeps them for the encoder, or has ended and drops them.
Passes(m, n, t, pkts) ==
  /\ SocketsOn(m, n) /\ (n.polling.pending => m.polling.pending)
  /\ \/ /\ n.wire = Emitted(m.wire, t, pkts) /\ n.polling.encoding = m.polling.encoding
        /\ IF t = Polling THEN m.polling.pending /\ ~n.polling.pending ELSE m.ws[t].socket = "open"
     \/ /\ t = Polling /\ m.polling.encoding = <<>>
        /\ n.wire = m.wire /\ n.polling.encoding = pkts
     \/ t # Polling /\ m.ws[t].socket # "open" /\ Unmoved(m, n)

LEMMA SendOnPasses ==
  ASSUME NEW n \in NetType, NEW t \in Transports, NEW pkts \in Seq(Packet), Holds(n.polling),
         Writable(n, t)
  PROVE  Passes(n, SendOn(n, t, pkts), t, pkts)
<1> DEFINE s == SendOn(n, t, pkts)
<1>1. CASE t = Polling
  <2>1. s = SendPoll(n, pkts) /\ n.polling.pending /\ n.polling.encoding = <<>>
    BY <1>1 DEF SendOn, Writable, Holds
  <2>2. SocketsOn(n, s)
    BY <2>1, SendPollWs, SameSockets
  <2>3. CASE Has(pkts, LAMBDA p : p.type = "blob")
    <3>1. s.wire = n.wire /\ s.polling.encoding = pkts
      BY <2>1, <2>3, SendPollSplit
    <3> HIDE DEF s
    <3> QED BY <1>1, <2>1, <2>2, <3>1 DEF Passes, s
  <2>4. CASE ~Has(pkts, LAMBDA p : p.type = "blob")
    <3> DEFINE r == [n.polling EXCEPT !.writable = FALSE]
               m == [n EXCEPT !.polling = r]
    <3>1. s = WritePoll(m, pkts)
      BY <2>1, <2>4 DEF SendPoll, NetType
    <3>2. r \in PollingType /\ r.pending = n.polling.pending
      BY PollingTyped DEF PollingType
    <3>3. r.encoding = n.polling.encoding
      BY PollingTyped DEF PollingType
    <3> HIDE DEF r
    <3>4. m \in NetType /\ m.wire = n.wire /\ m.polling = r
      BY <3>2, SetPolling DEF NetType
    <3> HIDE DEF m, s
    <3>5. /\ s.polling.encoding = m.polling.encoding /\ ~s.polling.pending
          /\ m.polling.pending
      BY <2>1, <3>1, <3>2, <3>4, WritePollPolling
    <3>6. s.wire = Emitted(m.wire, Polling, pkts)
      BY <3>1, <3>4, <3>5 DEF WritePoll, NetType
    <3> QED BY <1>1, <2>1, <2>2, <3>3, <3>4, <3>5, <3>6 DEF Passes, s
  <2> QED BY <2>3, <2>4
<1>2. CASE t # Polling
  <2>1. s = SendWs(n, t, pkts) /\ n.ws[t].writable
    BY <1>2 DEF SendOn, Writable
  <2>2. s.ws = n.ws /\ s.polling = n.polling
    BY <2>1 DEF SendWs, NetType
  <2>3. SocketsOn(n, s)
    BY <2>2, SameSockets
  <2>4. CASE n.ws[t].socket = "open"
    <3> DEFINE e == Emitted(n.wire, t, pkts)
    <3>1. s = [n EXCEPT !.wire = e]
      BY <2>1, <2>4 DEF SendWs
    <3> HIDE DEF e
    <3>2. s.wire = e
      BY <3>1 DEF NetType
    <3> HIDE DEF s
    <3> QED BY <1>2, <2>2, <2>3, <2>4, <3>2 DEF Passes, e, s
  <2>5. CASE n.ws[t].socket # "open"
    <3>1. s = n
      BY <2>1, <2>5 DEF SendWs
    <3> HIDE DEF s
    <3> QED BY <1>2, <2>3, <2>5, <3>1 DEF Passes, Unmoved, s
  <2> QED BY <2>4, <2>5
<1> QED BY <1>1, <1>2
-----------------------------------------------------------------------------
(* The way of the messages in a step of the server.  Packets are given to  *)
(* the transport: those that wait, and with them the one that is sent.     *)

Asked(pkts) ==
  \/ sent' = sent /\ MessagesOf(pkts) = MessagesOf(writeBuffer)
  \/ /\ readyState = "open" /\ sent' = sent + 1
     /\ MessagesOf(pkts) = Append(MessagesOf(writeBuffer), sent + 1)

\* They wait, or the session or its WebSocket is at its end.
Waits(pkts) ==
  /\ wire' = wire /\ polling'.encoding = polling.encoding
  /\ readyState' = "closed" \/ Mute' \/ MessagesOf(writeBuffer)' = MessagesOf(pkts)

\* They are written; to polling, as the answer of the client's request.
Written(had, pkts) ==
  /\ readyState # "closed" /\ ~Mute /\ MessagesOf(writeBuffer)' = <<>>
  /\ wire' = Emitted(wire, transport', pkts) /\ polling'.encoding = polling.encoding
  /\ transport' = Polling => had /\ ~polling'.pending

\* Polling keeps them for the encoder.
Kept(pkts) ==
  /\ readyState # "closed" /\ ~Mute /\ MessagesOf(writeBuffer)' = <<>>
  /\ transport' = Polling /\ polling.encoding = <<>>
  /\ polling'.encoding = pkts /\ wire' = wire

\* The encoder has them written.
Encoded(had) ==
  /\ had /\ ~polling'.pending /\ sent' = sent /\ UNCHANGED <<writeBuffer, readyState>>
  /\ wire' = Emitted(wire, Polling, polling.encoding) /\ polling'.encoding = <<>>

Flow(had) ==
  /\ \A w \in WS : Later(ws[w], ws'[w])
  /\ (polling'.pending => had) /\ (readyState = "closed" => readyState' = "closed")
  /\ \/ Encoded(had)
     \/ \E pkts \in Seq(Packet) : Asked(pkts) /\ (Waits(pkts) \/ Written(had, pkts) \/ Kept(pkts))

\* Nothing moves.
LEMMA CalmFlow ==
  ASSUME IInv, NEW n, Becomes(n), Calm(Net, n), sent' = sent,
         readyState = "closed" => readyState' = "closed",
         readyState' = "closed" \/ MessagesOf(writeBuffer)' = MessagesOf(writeBuffer)
  PROVE  Flow(polling.pending)
<1>1. /\ wire' = wire /\ polling'.encoding = polling.encoding
      /\ polling'.pending => polling.pending
      /\ \A w \in WS : Later(ws[w], ws'[w])
  BY DEF Becomes, Calm, Unmoved, SocketsOn, Net
<1>2. writeBuffer \in Seq(Packet)
  BY DEF IInv, SessionInv, StateInv
<1>3. Asked(writeBuffer)
  BY DEF Asked
<1>4. Waits(writeBuffer)
  BY <1>1 DEF Waits
<1> QED BY <1>1, <1>2, <1>3, <1>4 DEF Flow

LEMMA NothingFlows ==
  ASSUME IInv, UNCHANGED <<net, writeBuffer, sent>>, readyState = "closed" => readyState' = "closed"
  PROVE  Flow(polling.pending)
<1>1. Becomes(Net) /\ Calm(Net, Net)
  BY CalmSame DEF Becomes, Net, net
<1>2. MessagesOf(writeBuffer)' = MessagesOf(writeBuffer) /\ sent' = sent
  OBVIOUS
<1> QED BY <1>1, <1>2, CalmFlow

LEMMA OnCloseFlow ==
  ASSUME IInv, NEW n \in NetType, Calm(Net, n), NEW reason, OnClose(n, reason), sent' = sent
  PROVE  Flow(polling.pending) /\ transport' = transport
<1>1. CASE readyState = "closed"
  <2>1. Becomes(n) /\ UNCHANGED <<readyState, writeBuffer, transport>>
    BY <1>1 DEF OnClose, session
  <2>2. MessagesOf(writeBuffer)' = MessagesOf(writeBuffer)
    BY <2>1
  <2> QED BY <2>1, <2>2, CalmFlow
<1>2. CASE readyState # "closed"
  <2>1. /\ readyState' = "closed" /\ Becomes(CloseTransport(n, transport))
        /\ UNCHANGED transport
    BY <1>2 DEF OnClose
  <2>2. Calm(Net, CloseTransport(n, transport))
    BY CloseTransportCalm, CalmTrans DEF IInv, SessionInv, NetInv
  <2> QED BY <2>1, <2>2, CalmFlow
<1> QED BY <1>1, <1>2

\* What a flush of buf to t does.
LEMMA PassesFlow ==
  ASSUME IInv, NEW n \in NetType, NEW t \in Transports, Unmoved(Net, n), SocketsOn(Net, n),
         NEW had \in BOOLEAN, n.polling.pending => had, t = transport \/ transport = Polling,
         \A w \in WS : Opened(ws[w]), NEW buf \in Seq(Packet), Asked(buf), Writable(n, t),
         NEW s, Passes(n, s, t, buf), NEW m, Calm(s, m), Becomes(m), transport' = t,
         readyState # "closed", MessagesOf(writeBuffer)' = <<>>
  PROVE  Flow(had)
<1>1. /\ \A w \in WS : Later(ws[w], n.ws[w]) /\ Later(n.ws[w], s.ws[w]) /\ Later(s.ws[w], ws'[w])
      /\ polling'.pending => s.polling.pending
      /\ s.polling.pending => n.polling.pending
      /\ wire' = s.wire /\ polling'.encoding = s.polling.encoding
      /\ n.wire = wire /\ n.polling.encoding = polling.encoding
  BY DEF Passes, Calm, Becomes, Net, Unmoved, SocketsOn
<1>2. \A w \in WS : Later(ws[w], ws'[w])
  BY <1>1 DEF Later
<1>3. Mute => t = transport /\ t \in WS /\ t # Polling /\ n.ws[t].socket \in Past
  <2> SUFFICES ASSUME Mute PROVE t = transport /\ t \in WS /\ t # Polling /\ n.ws[t].socket \in Past
    OBVIOUS
  <2>1. transport # Polling /\ ws[transport].socket \in Past /\ t = transport /\ t \in WS
    BY DEF Mute, Transports
  <2>2. Later(ws[t], n.ws[t])
    BY <1>1, <2>1
  <2> QED BY <2>1, <2>2 DEF Later
<1>4. CASE /\ s.wire = Emitted(n.wire, t, buf) /\ s.polling.encoding = n.polling.encoding
           /\ IF t = Polling THEN n.polling.pending /\ ~s.polling.pending ELSE n.ws[t].socket = "open"
  <2>1. ~Mute
    BY <1>3, <1>4 DEF Past
  <2>2. Written(had, buf)
    BY <1>1, <1>4, <2>1 DEF Written
  <2> QED BY <1>1, <1>2, <2>2 DEF Flow
<1>5. CASE t = Polling /\ n.polling.encoding = <<>> /\ s.wire = n.wire /\ s.polling.encoding = buf
  <2>1. ~Mute
    BY <1>3, <1>5
  <2>2. Kept(buf)
    BY <1>1, <1>5, <2>1 DEF Kept
  <2> QED BY <1>1, <1>2, <2>2 DEF Flow
<1>6. CASE t # Polling /\ n.ws[t].socket # "open" /\ Unmoved(n, s)
  <2>1. t \in WS /\ n.ws[t].writable
    BY <1>6 DEF Transports, Writable
  <2>2. Opened(n.ws[t])
    BY <1>1, <2>1 DEF Later
  <2>3. n.ws[t].socket \in Past
    BY <1>6, <2>1, <2>2 DEF Opened
  <2>4. ws'[t].socket \in Past
    BY <1>1, <2>1, <2>3 DEF Later
  <2>5. Mute'
    BY <1>6, <2>4 DEF Mute
  <2>6. Waits(buf)
    BY <1>1, <1>6, <2>5 DEF Waits, Unmoved
  <2> QED BY <1>1, <1>2, <2>6 DEF Flow
<1> QED BY <1>4, <1>5, <1>6 DEF Passes

LEMMA FlushFlow ==
  ASSUME IInv, NEW n \in NetType, NEW t \in Transports, Holds(n.polling), Unmoved(Net, n),
         SocketsOn(Net, n), NEW had \in BOOLEAN, n.polling.pending => had,
         t = transport \/ transport = Polling, \A w \in WS : Opened(ws[w]),
         NEW buf \in Seq(Packet), Asked(buf), Flush(n, t, buf), transport' = t
  PROVE  Flow(had)
<1> DEFINE canFlush == readyState # "closed" /\ Writable(n, t) /\ buf # <<>>
           s == SendOn(n, t, buf)
<1>1. CASE /\ ~canFlush /\ writeBuffer' = buf /\ Becomes(n)
           /\ UNCHANGED <<readyState, closeReason, drainClose, timers>>
  <2>1. /\ \A w \in WS : Later(ws[w], ws'[w]) /\ polling'.pending = n.polling.pending
        /\ wire' = wire /\ polling'.encoding = polling.encoding
    BY <1>1 DEF Becomes, Net, Unmoved, SocketsOn
  <2>2. MessagesOf(writeBuffer)' = MessagesOf(buf)
    BY <1>1
  <2>3. Waits(buf)
    BY <2>1, <2>2 DEF Waits
  <2>4. polling'.pending => had
    BY <2>1, <1>1 DEF Becomes
  <2>5. readyState = "closed" => readyState' = "closed"
    BY <1>1
  <2> QED BY <2>1, <2>3, <2>4, <2>5 DEF Flow
<1>2. ASSUME canFlush PROVE s \in NetType /\ Passes(n, s, t, buf)
  BY <1>2, SendOnNet, SendOnPasses
<1>3. CASE /\ canFlush /\ ~drainClose /\ writeBuffer' = <<>> /\ Becomes(s)
           /\ UNCHANGED <<readyState, closeReason, drainClose, timers>>
  <2>1. Calm(s, s) /\ MessagesOf(writeBuffer)' = <<>>
    BY <1>3, CalmSame, MessagesEmpty
  <2> HIDE DEF s
  <2> QED BY <1>2, <1>3, <2>1, PassesFlow
<1>4. CASE /\ canFlush /\ drainClose /\ writeBuffer' = <<>> /\ drainClose' = FALSE
           /\ readyState' = "closed" /\ closeReason' = "forced close"
           /\ pingInterval' = FALSE /\ pingTimeout' = FALSE /\ UNCHANGED strayPings
           /\ Becomes(CloseTransport(s, t))
  <2>1. MessagesOf(writeBuffer)' = <<>>
    BY <1>4, MessagesEmpty
  <2> HIDE DEF s
  <2>2. Calm(s, CloseTransport(s, t))
    BY <1>2, <1>4, CloseTransportCalm
  <2> QED BY <1>2, <1>4, <2>1, <2>2, PassesFlow
<1> HIDE DEF canFlush
<1> QED BY <1>1, <1>3, <1>4 DEF Flush, canFlush, s
-----------------------------------------------------------------------------
(* The handlers, one by one.                                               *)

Sockets == \A w \in WS : Opened(ws[w])

\* The GET that the server has no other for.
LEMMA PollRequestFlow ==
  ASSUME IInv, PollInv, Sockets, ~polling.pending, PollRequest
  PROVE  Flow(TRUE) /\ transport' = transport
<1> DEFINE a == [polling EXCEPT !.pending = TRUE]
           r == [a EXCEPT !.writable = TRUE]
           n == [Net EXCEPT !.polling = r]
<1>1. Flush([Net EXCEPT !.polling.pending = TRUE, !.polling.writable = TRUE], Polling, writeBuffer)
      /\ transport = Polling /\ UNCHANGED <<transport, sent>>
  BY DEF PollRequest
<1>2. [Net EXCEPT !.polling.pending = TRUE, !.polling.writable = TRUE] = n
  BY DEF Net
<1>3. polling \in PollingType /\ Net \in NetType
  BY NetPolling
<1>4. a \in PollingType /\ a.encoding = polling.encoding
  BY <1>3 DEF PollingType
<1>5. a.pending
  BY <1>3 DEF PollingType
<1> HIDE DEF a
<1>6. r \in PollingType /\ r.encoding = polling.encoding
  BY <1>4 DEF PollingType
<1>7. r.pending /\ r.writable
  BY <1>4, <1>5 DEF PollingType
<1> HIDE DEF r
<1>8. n \in NetType /\ n.polling = r /\ n.wire = Net.wire
  BY <1>3, <1>6, SetPolling DEF NetType
<1>9. n.ws = Net.ws
  BY <1>3 DEF NetType
<1>10. Flush(n, Polling, writeBuffer)
  BY <1>1, <1>2
<1> HIDE DEF n
<1>11. Holds(n.polling)
  BY <1>6, <1>7, <1>8 DEF Holds, PollInv
<1>12. Unmoved(Net, n) /\ SocketsOn(Net, n)
  BY <1>6, <1>8, <1>9, NetPolling, SameSockets DEF Unmoved
<1>13. writeBuffer \in Seq(Packet) /\ Asked(writeBuffer)
  BY <1>1 DEF Asked, IInv, SessionInv, StateInv
<1>14. Flow(TRUE)
  BY <1>1, <1>8, <1>10, <1>11, <1>12, <1>13, FlushFlow DEF Transports, Sockets
<1> QED BY <1>1, <1>14

\* A message is handed to the application while the session is open, and
\* nothing else happens.
LEMMA MessageHeard ==
  ASSUME OnPacket("message")
  PROVE  /\ UNCHANGED <<session, timers, net>>
         /\ received' = IF readyState = "open" THEN received + 1 ELSE received
BY DEF OnPacket

LEMMA BlobEncodedFlow ==
  ASSUME IInv, PollInv, BlobEncoded
  PROVE  Flow(polling.pending) /\ transport' = transport
<1> DEFINE r == [polling EXCEPT !.encoding = <<>>]
           m == [Net EXCEPT !.polling = r]
           n == WritePoll(m, polling.encoding)
<1>1. polling \in PollingType /\ Net \in NetType /\ Net.polling = polling
  BY NetPolling
<1>2. [Net EXCEPT !.polling.encoding = <<>>] = m
  BY DEF Net
<1>3. Becomes(n) /\ UNCHANGED <<readyState, writeBuffer, transport, sent>>
  BY <1>2 DEF BlobEncoded, session
<1>4. r \in PollingType /\ r.encoding = <<>>
  <2>1. <<>> \in Seq(Packet)
    OBVIOUS
  <2> QED BY <1>1, <2>1 DEF PollingType
<1>5. r.pending = polling.pending /\ polling.pending
  BY <1>1 DEF PollingType, BlobEncoded, PollInv, Holds
<1> HIDE DEF r
<1>6. m \in NetType /\ m.polling = r /\ m.wire = Net.wire
  BY <1>1, <1>4, SetPolling DEF NetType
<1>7. m.ws = Net.ws
  BY <1>1 DEF NetType
<1> HIDE DEF m
<1>8. n.polling.encoding = <<>> /\ ~n.polling.pending /\ n.ws = Net.ws
  BY <1>4, <1>6, <1>7, WritePollPolling, WritePollWs
<1>9. n.wire = Emitted(wire, Polling, polling.encoding)
  BY <1>5, <1>6 DEF WritePoll, NetType, Net
<1> HIDE DEF n
<1>10. \A w \in WS : Later(ws[w], ws'[w])
  BY <1>3, <1>8 DEF Becomes, Net, Later
<1>11. Encoded(polling.pending)
  BY <1>3, <1>5, <1>8, <1>9 DEF Becomes, Encoded
<1>12. (polling'.pending => polling.pending) /\ (readyState = "closed" => readyState' = "closed")
  BY <1>3, <1>5
<1> QED BY <1>3, <1>10, <1>11, <1>12 DEF Flow

\* The transports change, no message moves, and the session stays as it was.
LEMMA CalmStep ==
  ASSUME IInv, NEW n, Becomes(n), Calm(Net, n),
         UNCHANGED <<readyState, transport, writeBuffer, sent>>
  PROVE  Flow(polling.pending) /\ transport' = transport
<1>1. MessagesOf(writeBuffer)' = MessagesOf(writeBuffer)
  OBVIOUS
<1> QED BY <1>1, CalmFlow

LEMMA MaybeUpgradeFlow ==
  ASSUME IInv, PollInv, Sockets, NEW w \in WS, MaybeUpgrade(w)
  PROVE  Flow(polling.pending) /\ transport' = transport
<1> DEFINE n == [Net EXCEPT !.ws[w].readyState = "open", !.ws[w].socket = "connecting"]
           m == [n EXCEPT !.ws[w].listeners = "candidate", !.ws[w].upgradeTimer = TRUE]
<1>1. /\ Becomes(CloseOf(n, w)) \/ Becomes(m)
      /\ UNCHANGED <<readyState, transport, writeBuffer, sent>>
  BY DEF MaybeUpgrade
<1>2. n \in NetType /\ Net \in NetType /\ w \in Transports
  BY NetPolling, ConnectingNet, WsListeners
<1>3. Calm(Net, n)
  BY <1>2, ConnectingCalm DEF MaybeUpgrade, Sockets, Net
<1> HIDE DEF n
<1>4. Calm(n, m) /\ Calm(n, CloseOf(n, w))
  BY <1>2, CandidateCalm, CloseOfCalm
<1> HIDE DEF m
<1>5. Calm(Net, CloseOf(n, w)) /\ Calm(Net, m)
  BY <1>3, <1>4, CalmTrans
<1> QED BY <1>1, <1>5, CalmStep

LEMMA WsOpenFlow ==
  ASSUME IInv, PollInv, Sockets, NEW w \in WS, WsOpen(w)
  PROVE  Flow(polling.pending) /\ transport' = transport
<1> DEFINE n == [Net EXCEPT !.ws[w].socket = "open", !.ws[w].writable = TRUE]
<1>1. Net \in NetType /\ n \in NetType
  BY NetPolling, OpenedNet
<1>2. n.polling = Net.polling
  BY <1>1 DEF NetType
<1>3. Calm(Net, n)
  BY <1>1, OpenedCalm DEF WsOpen, Net
<1>4. CASE ws[w].listeners = "socket"
  <2>1. ListenersOf(Net, w) = "socket" /\ w \in Transports
    BY <1>4, WsListeners DEF Net
  <2>2. w = transport
    BY <2>1 DEF IInv, SessionInv, NetInv, Wired
  <2>3. Flush(n, w, writeBuffer) /\ UNCHANGED <<transport, sent>>
    BY <1>4 DEF WsOpen
  <2> HIDE DEF n
  <2>4. Holds(n.polling) /\ (n.polling.pending => polling.pending) /\ polling.pending \in BOOLEAN
    BY <1>2, NetPolling DEF PollingType
  <2>5. writeBuffer \in Seq(Packet) /\ Asked(writeBuffer)
    BY <2>3 DEF Asked, IInv, SessionInv, StateInv
  <2>6. Flow(polling.pending)
    BY <1>1, <1>3, <2>1, <2>2, <2>3, <2>4, <2>5, FlushFlow DEF Calm, Sockets
  <2> QED BY <2>3, <2>6
<1>5. CASE ws[w].listeners # "socket"
  <2>1. Becomes(n) /\ UNCHANGED <<readyState, transport, writeBuffer, sent>>
    BY <1>5 DEF WsOpen, session
  <2> HIDE DEF n
  <2> QED BY <1>3, <2>1, CalmStep
<1> QED BY <1>4, <1>5

LEMMA WsClosedFlow ==
  ASSUME IInv, PollInv, NEW w \in WS, WsClosed(w)
  PROVE  Flow(polling.pending) /\ transport' = transport
<1> DEFINE n == [Net EXCEPT !.ws[w].socket = "closed", !.ws[w].writable = FALSE,
                            !.ws[w].readyState = "closed"]
           c == ClearFast(n, w)
           m == Listen(c, w, "none")
<1>0. sent' = sent
  BY DEF WsClosed
<1>1. Net \in NetType /\ n \in NetType /\ w \in Transports
  BY NetPolling, EndedNet, WsListeners
<1>2. Calm(Net, n)
  BY <1>1, EndedCalm DEF WsClosed, Net
<1>3. CASE ws[w].listeners = "socket"
  <2>1. OnClose(n, "transport close")
    BY <1>3 DEF WsClosed
  <2> HIDE DEF n
  <2> QED BY <1>0, <1>1, <1>2, <2>1, OnCloseFlow
<1>4. CASE ws[w].listeners = "candidate"
  <2>1. Becomes(m) /\ UNCHANGED <<readyState, transport, writeBuffer>>
    BY <1>4 DEF WsClosed, session
  <2> HIDE DEF n
  <2>2. c \in NetType /\ Calm(n, c)
    BY <1>1, ClearFastNet, ClearFastCalm
  <2> HIDE DEF c
  <2>3. Calm(c, m)
    BY <1>1, <2>2, ListenCalm
  <2> HIDE DEF m
  <2>4. Calm(Net, m)
    BY <1>2, <2>2, <2>3, CalmTrans
  <2> QED BY <1>0, <2>1, <2>4, CalmStep
<1>5. CASE ws[w].listeners \notin {"socket", "candidate"}
  <2>1. Becomes(n) /\ UNCHANGED <<readyState, transport, writeBuffer>>
    BY <1>5 DEF WsClosed, session
  <2> HIDE DEF n
  <2> QED BY <1>0, <1>2, <2>1, CalmStep
<1> QED BY <1>3, <1>4, <1>5

LEMMA TimedOutFlow ==
  ASSUME IInv, PollInv, NEW w \in WS, UNCHANGED <<session, sent>>,
         Becomes(CloseOf([Net EXCEPT !.ws[w].upgradeTimer = FALSE], w))
  PROVE  Flow(polling.pending) /\ transport' = transport
<1> DEFINE m == [Net EXCEPT !.ws[w].upgradeTimer = FALSE]
<1>1. m \in NetType /\ Net \in NetType /\ w \in Transports
  BY NetPolling, UpgradeTimerNet, WsListeners
<1>2. Calm(Net, m)
  BY <1>1, TimersCalm
<1>3. Becomes(CloseOf(m, w))
  OBVIOUS
<1> HIDE DEF m
<1>4. Calm(Net, CloseOf(m, w))
  BY <1>1, <1>2, CloseOfCalm, CalmTrans
<1>5. UNCHANGED <<readyState, transport, writeBuffer, sent>>
  BY DEF session
<1> QED BY <1>3, <1>4, <1>5, CalmStep

LEMMA TimersFlow ==
  ASSUME IInv, PollInv, NEW w \in WS, Timers(w)
  PROVE  Flow(polling.pending) /\ transport' = transport
<1>1. CASE UpgradeTimeout(w)
  BY <1>1, TimedOutFlow DEF UpgradeTimeout
<1>2. CASE FastUpgradeTick(w)
  <2>1. Becomes(SendNoop(Net)) /\ UNCHANGED <<readyState, transport, writeBuffer, sent>>
    BY <1>2 DEF FastUpgradeTick, session
  <2>2. Calm(Net, SendNoop(Net))
    BY NetPolling, SendNoopCalm
  <2> QED BY <2>1, <2>2, CalmStep
<1> QED BY <1>1, <1>2 DEF Timers

\* The candidate takes over from polling, with what waits.
LEMMA UpgradeFlow ==
  ASSUME IInv, PollInv, Sockets, NEW w \in WS, readyState # "closed", transport = Polling,
         Upgrade(w), sent' = sent
  PROVE  Flow(polling.pending) /\ transport' = w
<1> DEFINE a == Listen(Net, w, "none")
           c == ClearFast(a, w)
           freed == [c EXCEPT !.ws[w].upgradeTimer = FALSE]
           b == CloseTransport(freed, transport)
           n == Listen(b, w, "socket")
<1>1. w \in Transports /\ w # Polling /\ Net \in NetType /\ transport \in Transports
  BY WsListeners, PollingAssumption, NetPolling
<1>2. a \in NetType /\ Calm(Net, a)
  BY <1>1, ListenNet, ListenCalm
<1>3. a.polling = Net.polling
  BY <1>1 DEF Listen, NetType
<1> HIDE DEF a
<1>4. c \in NetType /\ Calm(a, c)
  BY <1>2, ClearFastNet, ClearFastCalm
<1>5. c.polling = a.polling
  BY <1>2 DEF ClearFast, NetType
<1> HIDE DEF c
<1>6. freed \in NetType /\ Calm(c, freed)
  BY <1>4, UpgradeTimerNet, TimersCalm
<1>7. freed.polling = c.polling
  BY <1>4 DEF NetType
<1> HIDE DEF freed
<1>8. b \in NetType /\ Calm(freed, b)
  BY <1>1, <1>6, CloseTransportCalm
<1>9. Holds(b.polling)
  BY <1>1, <1>3, <1>5, <1>6, <1>7, NetPolling, CloseTransportPolling
<1> HIDE DEF b
<1>10. n \in NetType /\ Calm(b, n)
  BY <1>1, <1>8, ListenNet, ListenCalm
<1>11. n.polling = b.polling
  BY <1>1, <1>8 DEF Listen, NetType
<1>12. Flush(n, w, writeBuffer) /\ transport' = w
  BY DEF Upgrade, n, b, freed, c, a
<1> HIDE DEF n
<1>13. Calm(Net, n)
  BY <1>2, <1>4, <1>6, <1>8, <1>10, CalmTrans
<1>14. writeBuffer \in Seq(Packet) /\ Asked(writeBuffer)
  BY DEF Asked, IInv, SessionInv, StateInv
<1>15. polling.pending \in BOOLEAN /\ (n.polling.pending => polling.pending) /\ Holds(n.polling)
  BY <1>9, <1>11, <1>13, NetPolling DEF PollingType, Calm
<1>16. Flow(polling.pending)
  BY <1>1, <1>10, <1>12, <1>13, <1>14, <1>15, FlushFlow DEF Calm, Sockets
<1> QED BY <1>12, <1>16

\* A frame of the client.  An upgrade comes while polling drives the session.
LEMMA WsPacketFlow ==
  ASSUME IInv, PollInv, Sockets, NEW w \in WS, NEW type \in {"probe", "upgrade", "message"},
         WsPacket(w, type),
         type = "upgrade" /\ ws[w].listeners = "candidate" /\ readyState # "closed"
           => transport = Polling
  PROVE  /\ Flow(polling.pending)
         /\ transport' = IF type = "upgrade" /\ readyState # "closed" THEN w ELSE transport
         /\ type = "upgrade" => ws[w].listeners = "candidate"
         /\ received' = IF /\ type = "message" /\ readyState = "open"
                           /\ ws[w].listeners = "socket"
                        THEN received + 1 ELSE received
<1>0. sent' = sent
  BY DEF WsPacket
<1>1. CASE type = "message" /\ ws[w].listeners = "socket" /\ OnPacket(type)
  <2>1. UNCHANGED <<session, timers, net>>
        /\ received' = IF readyState = "open" THEN received + 1 ELSE received
    BY <1>1, MessageHeard
  <2>2. UNCHANGED <<net, writeBuffer, sent>> /\ transport' = transport /\ readyState' = readyState
    BY <1>0, <2>1 DEF session
  <2>3. Flow(polling.pending)
    BY <2>2, NothingFlows
  <2> QED BY <1>1, <2>1, <2>2, <2>3
<1>2. CASE type = "probe" /\ ws[w].listeners = "candidate" /\ Probe(w) /\ UNCHANGED received
  <2> DEFINE m == SendNoop(Net)
             n == [m EXCEPT !.ws[w].fastTimers = @ + 1]
  <2>1. Becomes(n) /\ UNCHANGED <<readyState, transport, writeBuffer>>
    BY <1>2 DEF Probe, session
  <2>2. m \in NetType /\ Calm(Net, m)
    BY NetPolling, SendNoopNet, SendNoopCalm
  <2> HIDE DEF m
  <2>3. Calm(m, n)
    BY <2>2, TimersCalm
  <2> HIDE DEF n
  <2>4. Calm(Net, n)
    BY <2>2, <2>3, CalmTrans
  <2>5. Flow(polling.pending) /\ transport' = transport
    BY <1>0, <2>1, <2>4, CalmStep
  <2> QED BY <1>2, <2>5
<1>3. CASE /\ type = "upgrade" /\ ws[w].listeners = "candidate" /\ readyState # "closed"
           /\ Upgrade(w) /\ UNCHANGED received
  BY <1>0, <1>3, UpgradeFlow
<1>4. CASE /\ ws[w].listeners = "candidate" /\ InvalidUpgrade(w) /\ UNCHANGED received
           /\ type = "message" \/ (type = "upgrade" /\ readyState = "closed")
  <2>1. Flow(polling.pending) /\ transport' = transport
    BY <1>0, <1>4, TimedOutFlow DEF InvalidUpgrade
  <2> QED BY <1>4, <2>1
<1> QED BY <1>1, <1>2, <1>3, <1>4 DEF WsPacket

LEMMA PingFlow ==
  ASSUME IInv, PollInv, Sockets, PingIntervalFires
  PROVE  Flow(polling.pending) /\ transport' = transport
<1> DEFINE buf == Append(writeBuffer, Control("ping"))
           canFlush == readyState = "open" /\ Writable(Net, transport)
           n == SendOn(Net, transport, buf)
<1>1. /\ writeBuffer' = IF canFlush THEN <<>> ELSE IF readyState = "open" THEN buf ELSE writeBuffer
      /\ Becomes(IF canFlush THEN n ELSE Net)
      /\ UNCHANGED <<readyState, transport, sent>>
  BY DEF PingIntervalFires
<1>2. buf \in Seq(Packet) /\ writeBuffer \in Seq(Packet) /\ transport \in Transports
  BY DEF Control, Packet, PacketTypes, IInv, SessionInv, StateInv, NetInv
<1>3. MessagesOf(buf) = MessagesOf(writeBuffer)
  BY <1>2, OwnPackets, MessagesAppend DEF Own, PacketTypes
<1>4. CASE canFlush
  <2>1. n \in NetType /\ Passes(Net, n, transport, buf)
    BY <1>2, <1>4, NetPolling, SendOnNet, SendOnPasses
  <2>2. Becomes(n) /\ writeBuffer' = <<>> /\ readyState # "closed" /\ Writable(Net, transport)
    BY <1>1, <1>4
  <2>3. Asked(buf)
    BY <1>1, <1>3 DEF Asked
  <2> HIDE DEF n, buf
  <2>4. Calm(n, n) /\ Unmoved(Net, Net) /\ SocketsOn(Net, Net) /\ MessagesOf(writeBuffer)' = <<>>
    BY <2>2, CalmSame, MessagesEmpty DEF Calm
  <2>5. polling.pending \in BOOLEAN
    BY NetPolling DEF PollingType
  <2>6. Flow(polling.pending)
    BY <1>1, <1>2, <2>1, <2>2, <2>3, <2>4, <2>5, NetPolling, PassesFlow DEF Sockets
  <2> QED BY <1>1, <2>6
<1>5. CASE ~canFlush
  <2>1. Becomes(Net) /\ writeBuffer' \in {buf, writeBuffer}
    BY <1>1, <1>5
  <2> HIDE DEF buf, canFlush
  <2>2. MessagesOf(writeBuffer)' = MessagesOf(writeBuffer) /\ Calm(Net, Net)
    BY <1>3, <2>1, CalmSame
  <2> QED BY <1>1, <2>1, <2>2, CalmFlow
<1> QED BY <1>4, <1>5

LEMMA PingTimeoutFlow ==
  ASSUME IInv, PollInv, PingTimeoutFires
  PROVE  Flow(polling.pending) /\ transport' = transport
<1>0. sent' = sent
  BY DEF PingTimeoutFires
<1>1. CASE OnClose(Net, "ping timeout")
  BY <1>0, <1>1, NetPolling, CalmSame, OnCloseFlow
<1>2. CASE UNCHANGED <<session, net>>
  BY <1>0, <1>2, NothingFlows DEF session
<1> QED BY <1>1, <1>2 DEF PingTimeoutFires

LEMMA SendFlow ==
  ASSUME IInv, PollInv, Sockets, NEW type \in {"message", "blob"}, Send(type)
  PROVE  Flow(polling.pending) /\ transport' = transport
<1> DEFINE p == [type |-> type, id |-> sent + 1]
           buf == Append(writeBuffer, p)
<1>1. /\ readyState = "open" /\ Flush(Net, transport, buf) /\ sent' = sent + 1
      /\ transport' = transport
  BY DEF Send, SendPacket
<1>2. p \in Packet /\ IsMessage(p) /\ p.id = sent + 1
  BY DEF IInv, Packet, PacketTypes, IsMessage
<1>3. writeBuffer \in Seq(Packet)
  BY DEF IInv, SessionInv, StateInv
<1> HIDE DEF p
<1>4. buf \in Seq(Packet) /\ Asked(buf)
  BY <1>1, <1>2, <1>3, MessagesAppend DEF Asked
<1> HIDE DEF buf
<1>5. Calm(Net, Net) /\ polling.pending \in BOOLEAN
  BY CalmSame, NetPolling DEF PollingType
<1>6. Flow(polling.pending)
  BY <1>1, <1>4, <1>5, NetPolling, FlushFlow DEF Calm, Sockets
<1> QED BY <1>1, <1>6

LEMMA CloseFlow ==
  ASSUME IInv, PollInv, Close
  PROVE  Flow(polling.pending) /\ transport' = transport
<1>0. sent' = sent /\ readyState = "open"
  BY DEF Close
<1>1. CASE OnClose(Net, "forced close")
  BY <1>0, <1>1, NetPolling, CalmSame, OnCloseFlow
<1>2. CASE UNCHANGED <<transport, writeBuffer, net>>
  BY <1>0, <1>2, NothingFlows
<1> QED BY <1>1, <1>2 DEF Close
-----------------------------------------------------------------------------
(* What a step of the server sends to the client.                          *)

LEMMA WroteNothing ==
  ASSUME NEW to, wire \in Seq(Payload), wire' = wire
  PROVE  Wrote(to) = <<>>
<1>1. Len(wire) \in Nat
  OBVIOUS
<1>2. ~(Len(wire') > Len(wire))
  BY <1>1
<1> QED BY <1>2 DEF Wrote

LEMMA WroteBatch ==
  ASSUME NEW to, NEW t \in Transports, NEW pkts \in Seq(Packet), wire \in Seq(Payload),
         wire' = Emitted(wire, t, pkts)
  PROVE  /\ Wrote(to) = IF t \in to THEN MessagesOf(pkts) ELSE <<>>
         /\ MessagesLeft(wire') = MessagesLeft(wire) \o MessagesOf(pkts)
<1> DEFINE e == [via |-> t, packets |-> pkts]
<1>1. e \in Payload /\ e.packets = pkts /\ e.via = t
  BY DEF Payload
<1>2. CASE Has(pkts, IsMessage)
  <2>1. wire' = Append(wire, e)
    BY <1>2 DEF Emitted
  <2> HIDE DEF e
  <2>2. Len(wire') = Len(wire) + 1 /\ wire'[Len(wire) + 1] = e /\ Len(wire) \in Nat
    BY <1>1, <2>1
  <2>3. Len(wire') > Len(wire) /\ wire'[Len(wire')] = e
    BY <2>2
  <2> QED BY <1>1, <2>1, <2>3, LeftAppend DEF Wrote
<1>3. CASE ~Has(pkts, IsMessage)
  <2>1. wire' = wire /\ MessagesOf(pkts) = <<>>
    BY <1>3, NoMessages DEF Emitted
  <2>2. MessagesLeft(wire) \in Seq(Nat)
    BY LeftType
  <2>3. MessagesLeft(wire) \o <<>> = MessagesLeft(wire)
    BY <2>2
  <2> QED BY <2>1, <2>3, WroteNothing
<1> QED BY <1>2, <1>3

LEMMA PrefixMore ==
  ASSUME NEW s \in Seq(Nat), NEW n \in Nat, Prefix(s, n)
  PROVE  Prefix(s, n + 1)
<1>1. Len(s) \in Nat
  OBVIOUS
<1> QED BY <1>1 DEF Prefix

\* All that was sent is in a, or in b; then there may be one more.
LEMMA PrefixAsked ==
  ASSUME NEW a \in Seq(Nat), NEW b \in Seq(Nat), NEW c, NEW n \in Nat, NEW m,
         Prefix(a \o b, n), Len(a \o b) = n,
         (m = n /\ c = b) \/ (m = n + 1 /\ c = Append(b, n + 1))
  PROVE  Prefix(a \o c, m) /\ Len(a \o c) = m
<1>1. CASE m = n /\ c = b
  BY <1>1
<1>2. CASE m = n + 1 /\ c = Append(b, n + 1)
  <2>1. a \o Append(b, n + 1) = Append(a \o b, n + 1) /\ a \o b \in Seq(Nat)
    OBVIOUS
  <2> DEFINE d == a \o b
  <2>2. d \in Seq(Nat) /\ Prefix(d, n) /\ Len(d) = n
    BY <2>1
  <2> HIDE DEF d
  <2>3. Prefix(Append(d, n + 1), n + 1) /\ Len(Append(d, n + 1)) = n + 1
    BY <2>2, PrefixNext
  <2> QED BY <1>2, <2>1, <2>3 DEF d
<1> QED BY <1>1, <1>2

LEMMA Sequences ==
  ASSUME IInv, ClientType
  PROVE  /\ wire \in Seq(Payload) /\ MessagesLeft(wire) \in Seq(Nat)
         /\ polling.encoding \in Seq(Packet) /\ MessagesOf(polling.encoding) \in Seq(Nat)
         /\ writeBuffer \in Seq(Packet) /\ MessagesOf(writeBuffer) \in Seq(Nat)
         /\ sent \in Nat /\ Stream \in Seq(Nat) /\ Due \in Seq(Nat)
         /\ transport \in Transports /\ Polling \notin WS /\ polling.pending \in BOOLEAN
<1>1. wire \in Seq(Payload) /\ polling \in PollingType
  BY NetIsTyped DEF IInv, SessionInv, NetInv, NetType, Net, Payload
<1>2. polling.encoding \in Seq(Packet) /\ polling.pending \in BOOLEAN
  BY <1>1 DEF PollingType
<1>3. writeBuffer \in Seq(Packet) /\ sent \in Nat /\ transport \in Transports
  BY DEF IInv, SessionInv, StateInv, NetInv
<1>4. /\ MessagesLeft(wire) \in Seq(Nat) /\ MessagesOf(polling.encoding) \in Seq(Nat)
      /\ MessagesOf(writeBuffer) \in Seq(Nat)
  BY <1>1, <1>2, <1>3, LeftType, MessagesType
<1>5. Stream \in Seq(Nat)
  BY <1>4 DEF Stream
<1>6. Due \in Seq(Nat)
  BY <1>4, <1>5 DEF Due
<1> QED BY <1>1, <1>2, <1>3, <1>4, <1>5, <1>6, PollingAssumption

\* A step of the server, which holds the request of the client if it had one.
Serves(had) ==
  /\ Flow(had) /\ Answers(had) /\ (had => get = "sent")
  /\ UNCHANGED <<phase, candidate, post, toClient>>
  /\ transport' = transport
       \/ (phase = "upgraded" /\ candidate \in WS /\ transport' = candidate)


\* While it holds a request, polling drives the session.
LEMMA Holding ==
  ASSUME IInv, ClientType, Listened, NEW had \in BOOLEAN, Serves(had)
  PROVE  /\ had => /\ get = "sent" /\ body = <<>> /\ arriving = <<>>
                   /\ transport = Polling /\ transport' = Polling /\ phase # "upgraded"
         /\ transport' # Polling => get = "none" /\ body = <<>> /\ ~had
         /\ transport' = Polling => transport = Polling
         /\ transport' \in Transports /\ (Mute => Mute')
<1>1. /\ get = "sent" => transport = Polling /\ phase # "upgraded" /\ body = <<>>
      /\ transport' # Polling => transport # Polling \/ phase = "upgraded"
      /\ transport' = Polling => transport = Polling
      /\ transport' \in Transports
  BY Sequences DEF Listened, Serves, Transports
<1>2. transport = Polling => arriving = <<>> /\ ~Mute
  BY DEF Listened, Mute
<1>3. transport # Polling => transport' = transport
  BY Sequences DEF Listened, Serves, Transports
<1>4. Mute => Mute'
  <2> SUFFICES ASSUME Mute PROVE Mute'
    OBVIOUS
  <2>1. transport \in WS /\ transport # Polling /\ ws[transport].socket \in Past
        /\ transport' = transport
    BY <1>3, Sequences DEF Mute, Transports
  <2>2. Later(ws[transport], ws'[transport])
    BY <2>1 DEF Serves, Flow
  <2>3. ws'[transport].socket \in Past
    BY <2>1, <2>2 DEF Later
  <2> QED BY <2>1, <2>3 DEF Mute
<1>5. had => get = "sent" /\ transport' = Polling
  BY <1>1 DEF Serves
<1>6. transport' # Polling => get = "none"
  BY <1>1 DEF Listened
<1> QED BY <1>1, <1>2, <1>4, <1>5, <1>6 DEF Listened

\* The encoder writes what it has to the request.
LEMMA EncodedDown ==
  ASSUME IInv, ClientType, Listened, Down, NEW had \in BOOLEAN, Serves(had), Encoded(had)
  PROVE  Down' /\ arriving' = arriving /\ body' \in Seq(Nat)
<1> DEFINE batch == MessagesOf(polling.encoding)
<1>1. /\ wire \in Seq(Payload) /\ MessagesLeft(wire) \in Seq(Nat) /\ batch \in Seq(Nat)
      /\ polling.encoding \in Seq(Packet) /\ Polling \in Transports /\ Polling \notin WS
      /\ toClient \in Seq(Nat) /\ arriving \in Seq(Nat)
  BY Sequences DEF ClientType, Transports
<1>2. /\ had /\ get = "sent" /\ body = <<>> /\ arriving = <<>> /\ transport = Polling
      /\ transport' = Polling
  BY Holding DEF Encoded
<1>3. /\ Wrote({Polling}) = batch /\ Wrote(WS) = <<>>
      /\ MessagesLeft(wire') = MessagesLeft(wire) \o batch
  BY <1>1, WroteBatch DEF Encoded
<1>4. body' = batch /\ arriving' = arriving \o <<>>
  BY <1>2, <1>3 DEF Encoded, Serves, Answers
<1>5. polling'.encoding = <<>> /\ UNCHANGED <<writeBuffer, readyState, sent>>
  BY DEF Encoded
<1>6. toClient' = toClient
  BY DEF Serves
<1>7. arriving' = <<>> /\ toClient = MessagesLeft(wire)
  BY <1>1, <1>2, <1>4 DEF Down
<1>8. Stream' = MessagesLeft(wire') \o <<>>
  BY <1>5, MessagesEmpty DEF Stream
<1> HIDE DEF batch
<1>9. MessagesLeft(wire') \in Seq(Nat) /\ Stream' = MessagesLeft(wire')
  BY <1>1, <1>3, <1>8
<1>10. Stream' = Stream
  BY <1>3, <1>9 DEF Stream, batch
<1>11. Due' = Due
  BY <1>5, <1>10 DEF Due
<1>12. (toClient \o body \o arriving)' = MessagesLeft(wire')
  <2>1. toClient' \o body' \o arriving' = toClient \o batch
    BY <1>1, <1>4, <1>6, <1>7
  <2> QED BY <1>3, <1>7, <2>1
<1>13. ~Mute
  BY <1>2 DEF Mute
<1>14. Down'
  BY <1>5, <1>10, <1>11, <1>12, <1>13 DEF Down
<1> QED BY <1>1, <1>2, <1>4, <1>7, <1>14

\* Of what the server does with pkts, the messages that left or that the
\* encoder has are all that was sent, or those that were.
LEMMA AskedDue ==
  ASSUME IInv, ClientType, Down, NEW pkts \in Seq(Packet), Asked(pkts)
  PROVE  /\ sent' \in Nat /\ Prefix(Stream, sent')
         /\ readyState # "closed" /\ ~Mute =>
              Prefix(Stream \o MessagesOf(pkts), sent') /\ Len(Stream \o MessagesOf(pkts)) = sent'
<1> DEFINE b == MessagesOf(writeBuffer)
           c == MessagesOf(pkts)
<1>1. Stream \in Seq(Nat) /\ b \in Seq(Nat) /\ sent \in Nat
  BY Sequences
<1>2. (sent' = sent /\ c = b) \/ (sent' = sent + 1 /\ c = Append(b, sent + 1))
  BY DEF Asked
<1>3. Due = Stream \o b
  BY DEF Due
<1> HIDE DEF b, c
<1>4. sent' \in Nat /\ Prefix(Stream, sent')
  BY <1>1, <1>2, PrefixMore DEF Down
<1>5. readyState # "closed" /\ ~Mute => Prefix(Stream \o c, sent') /\ Len(Stream \o c) = sent'
  BY <1>1, <1>2, <1>3, PrefixAsked DEF Down
<1> QED BY <1>4, <1>5 DEF c

\* Packets wait.
LEMMA WaitsDown ==
  ASSUME IInv, ClientType, Listened, Down, NEW had \in BOOLEAN, Serves(had),
         NEW pkts \in Seq(Packet), Asked(pkts), Waits(pkts)
  PROVE  Down' /\ arriving' = arriving /\ body' = body
<1>1. /\ wire \in Seq(Payload) /\ arriving \in Seq(Nat)
  BY Sequences DEF ClientType
<1>2. Wrote({Polling}) = <<>> /\ Wrote(WS) = <<>>
  BY <1>1, WroteNothing DEF Waits
<1>3. arriving' = arriving /\ body' = body
  <2>1. arriving' = arriving \o <<>>
    BY <1>2 DEF Serves, Answers
  <2>2. had => body = <<>>
    BY Holding
  <2> QED BY <1>1, <1>2, <2>1, <2>2 DEF Serves, Answers
<1>4. Stream' = Stream /\ wire' = wire /\ toClient' = toClient
  BY DEF Waits, Stream, Serves
<1>5. readyState' # "closed" /\ ~Mute' => readyState # "closed" /\ ~Mute /\ Due' = Stream \o MessagesOf(pkts)
  <2>1. (Mute => Mute') /\ (readyState = "closed" => readyState' = "closed")
    BY Holding DEF Serves, Flow
  <2> QED BY <1>4, <2>1 DEF Waits, Due
<1>6. Prefix(Stream', sent')
  BY <1>4, AskedDue
<1>7. readyState' # "closed" /\ ~Mute' => Prefix(Due', sent') /\ Len(Due') = sent'
  BY <1>5, AskedDue
<1> QED BY <1>3, <1>4, <1>6, <1>7 DEF Down

\* Packets are written, or given to the encoder: all that was sent is on its way.
LEMMA PassedDown ==
  ASSUME ClientType, toClient' \o body' \o arriving' = MessagesLeft(wire)',
         NEW s \in Seq(Nat), Prefix(s, sent'), Len(s) = sent', Stream' = s,
         MessagesOf(writeBuffer)' = <<>>
  PROVE  Down'
<1>1. Due' = s \o <<>>
  BY DEF Due
<1>2. s \o <<>> = s
  OBVIOUS
<1> QED BY <1>1, <1>2 DEF Down

LEMMA WrittenDown ==
  ASSUME IInv, PollInv, PollInv', ClientType, Listened, Down, NEW had \in BOOLEAN, Serves(had),
         NEW pkts \in Seq(Packet), Asked(pkts), Written(had, pkts)
  PROVE  /\ Down' /\ body' \in Seq(Nat) /\ arriving' \in Seq(Nat)
         /\ transport' = Polling => arriving' = arriving
<1> DEFINE batch == MessagesOf(pkts)
           left == MessagesLeft(wire)
<1>1. /\ wire \in Seq(Payload) /\ left \in Seq(Nat) /\ batch \in Seq(Nat) /\ Polling \notin WS
      /\ toClient \in Seq(Nat) /\ arriving \in Seq(Nat) /\ body \in Seq(Nat)
  BY Sequences, MessagesType DEF ClientType
<1>2. transport' \in Transports /\ (transport' # Polling => transport' \in WS)
  BY Holding DEF Transports
<1>3. /\ Wrote({Polling}) = IF transport' = Polling THEN batch ELSE <<>>
      /\ Wrote(WS) = IF transport' = Polling THEN <<>> ELSE batch
      /\ MessagesLeft(wire') = left \o batch
  BY <1>1, <1>2, WroteBatch DEF Written
<1>4. polling.encoding = <<>> /\ polling'.encoding = <<>>
  <2>1. polling'.encoding = polling.encoding
    BY DEF Written
  <2>2. CASE transport' = Polling
    <3>1. ~polling'.pending
      BY <2>2 DEF Written
    <3>2. polling'.encoding = <<>>
      BY <3>1 DEF PollInv, Holds
    <3> QED BY <2>1, <3>2
  <2>3. CASE transport' # Polling
    <3>1. get = "none"
      BY <2>3, Holding
    <3>2. ~polling.pending
      BY <3>1 DEF Listened
    <3>3. polling.encoding = <<>>
      BY <3>2 DEF PollInv, Holds
    <3> QED BY <2>1, <3>3
  <2> QED BY <2>2, <2>3
<1>5. toClient \o body \o arriving = left /\ toClient' = toClient
  BY DEF Down, Serves
<1>6. /\ toClient' \o body' \o arriving' = left \o batch
      /\ body' \in Seq(Nat) /\ arriving' \in Seq(Nat)
      /\ transport' = Polling => arriving' = arriving
  <2> HIDE DEF batch, left
  <2>1. CASE transport' = Polling
    <3>1. had /\ ~polling'.pending
      BY <2>1 DEF Written
    <3>2. body = <<>> /\ arriving = <<>>
      BY <3>1, Holding
    <3>3. body' = batch /\ arriving' = arriving \o <<>>
      BY <1>3, <2>1, <3>1 DEF Serves, Answers
    <3>4. arriving' = <<>> /\ toClient = left
      BY <1>1, <1>5, <3>2, <3>3
    <3>5. toClient \o batch \o <<>> = toClient \o batch
      BY <1>1
    <3> QED BY <1>1, <1>5, <3>2, <3>3, <3>4, <3>5
  <2>2. CASE transport' # Polling
    <3>1. body = <<>> /\ ~had
      BY <2>2, Holding
    <3>2. body' = body /\ arriving' = arriving \o batch
      BY <1>3, <2>2, <3>1 DEF Serves, Answers
    <3>3. toClient \o (arriving \o batch) = (toClient \o arriving) \o batch /\ toClient \o <<>> = toClient
      <4>1. toClient \in Seq(Nat) /\ arriving \in Seq(Nat) /\ batch \in Seq(Nat)
        BY <1>1
      <4>2. (toClient \o arriving) \o batch = toClient \o (arriving \o batch)
        BY <4>1, CatAssoc
      <4> QED BY <4>1, <4>2
    <3>4. arriving \o batch \in Seq(Nat)
      BY <1>1
    <3> QED BY <1>1, <1>5, <2>2, <3>1, <3>2, <3>3, <3>4
  <2> QED BY <2>1, <2>2
<1>7. Stream = left \o <<>> /\ Stream' = MessagesLeft(wire') \o <<>>
  BY <1>4, MessagesEmpty DEF Stream
<1>8. Prefix(Stream \o batch, sent') /\ Len(Stream \o batch) = sent'
  BY AskedDue DEF Written
<1> HIDE DEF batch, left
<1>9. Stream' = left \o batch /\ Stream = left /\ left \o batch \in Seq(Nat)
  BY <1>1, <1>3, <1>7
<1>10. MessagesLeft(wire)' = left \o batch /\ MessagesOf(writeBuffer)' = <<>>
  BY <1>3 DEF Written
<1>11. Down'
  BY <1>6, <1>8, <1>9, <1>10, PassedDown
<1> QED BY <1>6, <1>11

LEMMA KeptDown ==
  ASSUME IInv, ClientType, Listened, Down, NEW had \in BOOLEAN, Serves(had),
         NEW pkts \in Seq(Packet), Asked(pkts), Kept(pkts)
  PROVE  Down' /\ arriving' = arriving /\ body' = body
<1> DEFINE batch == MessagesOf(pkts)
           left == MessagesLeft(wire)
<1>1. /\ wire \in Seq(Payload) /\ left \in Seq(Nat) /\ batch \in Seq(Nat) /\ arriving \in Seq(Nat)
  BY Sequences, MessagesType DEF ClientType
<1>2. Wrote({Polling}) = <<>> /\ Wrote(WS) = <<>>
  BY <1>1, WroteNothing DEF Kept
<1>3. arriving' = arriving /\ body' = body
  <2>1. arriving' = arriving \o <<>>
    BY <1>2 DEF Serves, Answers
  <2>2. had => body = <<>>
    BY Holding
  <2> QED BY <1>1, <1>2, <2>1, <2>2 DEF Serves, Answers
<1>4. MessagesLeft(wire)' = left /\ toClient' = toClient /\ toClient \o body \o arriving = left
  BY DEF Kept, Serves, Down
<1>5. Stream = left \o <<>> /\ Stream' = left \o batch
  BY MessagesEmpty DEF Stream, Kept
<1>6. Prefix(Stream \o batch, sent') /\ Len(Stream \o batch) = sent'
  BY AskedDue DEF Kept
<1>7. MessagesOf(writeBuffer)' = <<>>
  BY DEF Kept
<1> HIDE DEF batch, left
<1>8. Stream = left /\ left \o batch \in Seq(Nat)
  BY <1>1, <1>5
<1>9. Down'
  BY <1>3, <1>4, <1>5, <1>6, <1>7, <1>8, PassedDown
<1> QED BY <1>3, <1>9

\* What a step of the server keeps for the client.
LEMMA ServesDown ==
  ASSUME IInv, PollInv, PollInv', ClientType, Listened, Down, NEW had \in BOOLEAN, Serves(had)
  PROVE  /\ Down' /\ body' \in Seq(Nat) /\ arriving' \in Seq(Nat)
         /\ transport' = Polling => arriving' = arriving
<1>0. body \in Seq(Nat) /\ arriving \in Seq(Nat)
  BY DEF ClientType
<1>1. CASE Encoded(had)
  BY <1>0, <1>1, EncodedDown
<1>2. ASSUME NEW pkts \in Seq(Packet), Asked(pkts), Waits(pkts) \/ Written(had, pkts) \/ Kept(pkts)
      PROVE  /\ Down' /\ body' \in Seq(Nat) /\ arriving' \in Seq(Nat)
             /\ transport' = Polling => arriving' = arriving
  <2>1. CASE Waits(pkts)
    BY <1>0, <1>2, <2>1, WaitsDown
  <2>2. CASE Written(had, pkts)
    BY <1>2, <2>2, WrittenDown
  <2>3. CASE Kept(pkts)
    BY <1>0, <1>2, <2>3, KeptDown
  <2> QED BY <1>2, <2>1, <2>2, <2>3
<1> QED BY <1>1, <1>2 DEF Serves, Flow

LEMMA ServesListened ==
  ASSUME IInv, PollInv, PollInv', ClientType, Listened, Down, NEW had \in BOOLEAN, Serves(had)
  PROVE  Listened' /\ get' \in {"none", "sent", "answered"}
<1>1. had => get = "sent"
  BY DEF Serves
<1>2. IF had /\ ~polling'.pending THEN get' = "answered" ELSE get' = get /\ body' = body
  BY DEF Serves, Answers
<1>3. polling'.pending => had
  BY DEF Serves, Flow
<1>4. get' \in {"none", "sent", "answered"}
  BY <1>2 DEF ClientType
<1>5. polling'.pending => get' = "sent"
  BY <1>1, <1>2, <1>3
<1>6. get' # "answered" => body' = <<>>
  BY <1>2 DEF Listened
<1>7. transport' = Polling => arriving' = <<>>
  BY Holding, ServesDown DEF Listened
<1>8. transport' # Polling => transport' = candidate' /\ phase' \in {"upgraded", "gone"}
  BY DEF Serves, Listened
<1>9. transport' # Polling \/ phase' = "upgraded" => get' = "none" /\ post' = 0
  <2>1. transport' # Polling \/ phase' = "upgraded" => transport # Polling \/ phase = "upgraded"
    BY Sequences DEF Serves, Transports
  <2>2. transport # Polling \/ phase = "upgraded" => get = "none" /\ post = 0
    BY DEF Listened
  <2>3. get = "none" => get' = get
    BY <1>1, <1>2
  <2> QED BY <2>1, <2>2, <2>3 DEF Serves
<1>10. \A w \in WS : Opened(ws'[w])
  <2>1. \A w \in WS : Later(ws[w], ws'[w]) /\ Opened(ws[w])
    BY DEF Serves, Flow, Listened
  <2> QED BY <2>1 DEF Later
<1>11. Listened'
  BY <1>5, <1>6, <1>7, <1>8, <1>9, <1>10 DEF Listened, Opened
<1> QED BY <1>4, <1>11

\* A session does not open again.
LEMMA NotReopened ==
  ASSUME IInv, PollInv, [Next]_vars
  PROVE  readyState' = "open" => readyState = "open"
<1>1. [Promise!Next]_(Promise!vars)
  BY PromiseNext
<1> QED BY <1>1 DEF Promise!Next, Promise!vars, Promise!Send, Promise!Drain, Promise!Written,
           Promise!CloseWaits, Promise!CloseEnds, Promise!Fails
-----------------------------------------------------------------------------
(* The client and its frames.                                              *)

\* Before it upgrades, the client has at most one frame on its way, and that is
\* not a message.
LEMMA FewFrames ==
  ASSUME ClientType, Framed, phase # "upgraded"
  PROVE  /\ InFrames = 0 /\ frames \in Seq(Frame)
         /\ frames # <<>> => Tail(frames) = <<>> /\ Head(frames).type = "probe"
<1>1. frames \in Seq(Frame) /\ Len(frames) \in Nat /\ DOMAIN frames = 1..Len(frames)
  BY DEF ClientType
<1>2. \A i \in 1..Len(frames) : frames[i].type # "message" /\ i = 1 /\ frames[i].type # "upgrade"
  BY <1>1 DEF Framed
<1>3. Len(frames) <= 1
  <2> SUFFICES ASSUME Len(frames) > 1 PROVE FALSE
    BY <1>1
  <2>1. 2 \in 1..Len(frames)
    BY <1>1
  <2> QED BY <1>2, <2>1
<1>4. CASE Len(frames) = 0
  <2>1. frames = <<>>
    BY <1>1, <1>4
  <2> QED BY <1>1, <1>4, <2>1 DEF InFrames
<1>5. CASE Len(frames) = 1
  <2> DEFINE rest == Tail(frames)
  <2>0. rest \in Seq(Frame) /\ Len(rest) = 0 /\ frames # <<>> /\ Head(frames) = frames[1]
    BY <1>1, <1>5
  <2> HIDE DEF rest
  <2>1. rest = <<>>
    BY <2>0
  <2>2. frames # <<>> /\ Head(frames) = frames[1] /\ Tail(frames) = <<>>
    BY <2>0, <2>1 DEF rest
  <2>3. frames[1] \in Frame
    BY <1>1, <1>5
  <2>4. frames[1].type = "probe"
    BY <1>2, <1>5, <2>3 DEF Frame
  <2> QED BY <1>1, <1>5, <2>2, <2>4 DEF InFrames
<1> QED BY <1>1, <1>3, <1>4, <1>5

\* A frame arrives.
LEMMA NextFrame ==
  ASSUME ClientType, Framed, frames # <<>>, frames' = Tail(frames)
  PROVE  /\ frames' \in Seq(Frame) /\ Head(frames) \in Frame /\ Len(frames') = Len(frames) - 1
         /\ DOMAIN frames' = 1..Len(frames') /\ Len(frames) \in Nat
         /\ \A i \in 1..Len(frames') : /\ frames'[i] = frames[i + 1] /\ i + 1 \in DOMAIN frames
                                       /\ frames'[i].type = "message"
         /\ Head(frames) = frames[1] /\ 1 \in DOMAIN frames
         /\ frames' # <<>> => Head(frames').type = "message"
<1>1. /\ frames' \in Seq(Frame) /\ Len(frames') = Len(frames) - 1 /\ DOMAIN frames' = 1..Len(frames')
      /\ Head(frames) = frames[1] /\ Len(frames) \in Nat /\ Len(frames) >= 1
      /\ DOMAIN frames = 1..Len(frames) /\ Head(frames) \in Frame
  BY DEF ClientType
<1>2. \A i \in 1..Len(frames') : frames'[i] = frames[i + 1] /\ i + 1 \in DOMAIN frames /\ i + 1 # 1
  BY <1>1
<1>3. \A i \in 1..Len(frames') : frames'[i].type = "message"
  BY <1>2 DEF Framed
<1>4. frames' # <<>> => Head(frames').type = "message"
  <2>1. frames' # <<>> => Head(frames') = frames'[1] /\ 1 \in 1..Len(frames')
    BY <1>1
  <2> QED BY <1>3, <2>1
<1>5. 1 \in DOMAIN frames
  BY <1>1
<1>6. \A i \in 1..Len(frames') : /\ frames'[i] = frames[i + 1] /\ i + 1 \in DOMAIN frames
                                 /\ frames'[i].type = "message"
  BY <1>2, <1>3
<1> DEFINE f == frames'
<1> HIDE DEF f
<1> QED BY <1>1, <1>4, <1>5, <1>6

\* What the framing and the way of the client's messages depend on.
LEMMA FramedSame ==
  ASSUME Framed, UNCHANGED <<phase, candidate, frames, probed, fromClient, transport>>,
         readyState = "closed" => readyState' = "closed"
  PROVE  Framed'
<1>1. \A i \in DOMAIN frames' :
        IF frames'[i].type = "message"
        THEN phase' = "upgraded" /\ frames'[i].id = fromClient' - Len(frames') + i
        ELSE i = 1 /\ (frames'[i].type = "upgrade" <=> phase' = "upgraded")
  BY DEF Framed
<1> QED BY <1>1 DEF Framed

LEMMA UpSame ==
  ASSUME Up, UNCHANGED <<phase, post, frames, fromClient, toServer>>,
         readyState' = "open" => readyState = "open"
  PROVE  Up'
<1>1. OnWay' = OnWay
  BY DEF OnWay, InFrames
<1>2. Prefix(toServer', fromClient')
  BY DEF Up
<1> QED BY <1>1, <1>2 DEF Up

-----------------------------------------------------------------------------
(* The steps of the server.                                                *)

\* A step that no request of the client causes, and the GET.
LEMMA ServesInv ==
  ASSUME IInv, PollInv, [Next]_vars, FifoInv, NEW had \in BOOLEAN, Flow(had), Answers(had),
         had => get = "sent",
         UNCHANGED <<transport, phase, candidate, post, frames, probed, toClient, fromClient, toServer>>
  PROVE  FifoInv'
<1>1. IInv' /\ PollInv'
  BY InvNext, PollNext
<1>2. Serves(had)
  BY DEF Serves
<1>3. /\ Down' /\ Listened' /\ body' \in Seq(Nat) /\ arriving' \in Seq(Nat)
      /\ get' \in {"none", "sent", "answered"}
  BY <1>1, <1>2, ServesDown, ServesListened DEF FifoInv
<1>4. ClientType'
  BY <1>3 DEF ClientType, FifoInv
<1>5. Framed'
  BY FramedSame DEF FifoInv, Flow
<1>6. Up'
  BY NotReopened, UpSame DEF FifoInv
<1> QED BY <1>3, <1>4, <1>5, <1>6 DEF FifoInv

LEMMA ServerInv ==
  ASSUME IInv, PollInv, [Next]_vars, FifoInv, Flow(polling.pending), transport' = transport,
         Answers(polling.pending),
         UNCHANGED <<phase, candidate, post, frames, probed, toClient, fromClient, toServer>>
  PROVE  FifoInv'
<1>1. polling.pending \in BOOLEAN
  BY Sequences DEF FifoInv
<1>2. polling.pending => get = "sent"
  BY DEF FifoInv, Listened
<1> QED BY <1>1, <1>2, ServesInv

\* What the invariant depends on of the server.
LEMMA SameServer ==
  ASSUME UNCHANGED <<session, net, sent>>
  PROVE  /\ Stream' = Stream /\ Due' = Due /\ Mute' = Mute /\ MessagesLeft(wire)' = MessagesLeft(wire)
         /\ UNCHANGED <<readyState, transport, wire, sent, polling, ws>>
         /\ (\A w \in WS : Opened(ws[w])) <=> (\A w \in WS : Opened(ws'[w]))
BY DEF session, net, Stream, Due, Mute

\* A step of the client alone keeps the messages' way down.
LEMMA DownSame ==
  ASSUME Down, UNCHANGED <<session, net, sent>>,
         toClient' \o body' \o arriving' = toClient \o body \o arriving
  PROVE  Down'
BY SameServer DEF Down

LEMMA ServerPolledInv ==
  ASSUME IInv, PollInv, [Next]_vars, FifoInv, ServerPolled
  PROVE  FifoInv'
<1>1. CASE PollRequest /\ Answers(TRUE) /\ UNCHANGED phase
  <2>1. Flow(TRUE) /\ transport' = transport /\ get = "sent"
    BY <1>1, PollRequestFlow DEF ServerPolled, Sockets, FifoInv, Listened
  <2> QED BY <1>1, <2>1, ServesInv DEF ServerPolled
<1>2. CASE /\ readyState = "closed" \/ transport # Polling
           /\ get' = "none" /\ phase' = "gone" /\ UNCHANGED <<vars, body, arriving>>
  <2>1. /\ get = "sent" /\ ~polling.pending
        /\ UNCHANGED <<candidate, post, frames, probed, toClient, fromClient, toServer>>
    BY DEF ServerPolled
  <2>2. transport = Polling /\ readyState = "closed" /\ body = <<>> /\ phase # "upgraded"
        /\ arriving = <<>>
    BY <1>2, <2>1 DEF FifoInv, Listened
  <2>3. UNCHANGED <<session, net, sent>>
    BY <1>2 DEF vars
  <2>4. Down'
    BY <1>2, <2>1, <2>3, DownSame DEF FifoInv
  <2>5. Listened'
    BY <1>2, <2>1, <2>2, <2>3, SameServer DEF FifoInv, Listened
  <2>6. ClientType'
    BY <1>2, <2>1 DEF FifoInv, ClientType
  <2>7. Framed'
    <3>1. \A i \in DOMAIN frames' :
            frames'[i].type # "message" /\ i = 1 /\ frames'[i].type # "upgrade"
      BY <2>1, <2>2 DEF FifoInv, Framed
    <3> QED BY <1>2, <2>1, <3>1 DEF FifoInv, Framed
  <2>8. Up'
    BY <2>1, <2>2, <2>3, SameServer DEF FifoInv, Up
  <2> QED BY <2>4, <2>5, <2>6, <2>7, <2>8 DEF FifoInv
<1> QED BY <1>1, <1>2 DEF ServerPolled
-----------------------------------------------------------------------------
(* The steps of the client.                                                *)

LEMMA TakesHead ==
  ASSUME NEW t \in Seq(Nat), NEW a \in Seq(Nat), a # <<>>
  PROVE  /\ Append(t, Head(a)) \in Seq(Nat) /\ Tail(a) \in Seq(Nat)
         /\ Append(t, Head(a)) \o Tail(a) = t \o a
<1>1. Head(a) \in Nat /\ Tail(a) \in Seq(Nat)
  OBVIOUS
<1>2. <<Head(a)>> \in Seq(Nat) /\ a = <<Head(a)>> \o Tail(a)
  BY <1>1
<1>3. Append(t, Head(a)) = t \o <<Head(a)>> /\ Append(t, Head(a)) \in Seq(Nat)
  BY <1>1
<1>4. PICK one \in Seq(Nat), r \in Seq(Nat) : one = <<Head(a)>> /\ r = Tail(a)
  BY <1>1, <1>2
<1>5. (t \o one) \o r = t \o (one \o r)
  BY CatAssoc
<1> QED BY <1>1, <1>2, <1>3, <1>4, <1>5

LEMMA ClientPollsInv ==
  ASSUME FifoInv, ClientPolls
  PROVE  FifoInv'
<1>1. /\ phase \in {"polling", "probing"} /\ get = "none" /\ get' = "sent"
      /\ UNCHANGED <<vars, phase, candidate, body, post, frames, probed, arriving, toClient, fromClient, toServer>>
      /\ UNCHANGED <<session, net, sent>>
  BY DEF ClientPolls, vars
<1>2. transport = Polling /\ body = <<>>
  BY <1>1 DEF FifoInv, Listened
<1>3. Down'
  BY <1>1, DownSame DEF FifoInv
<1>4. Listened'
  BY <1>1, <1>2, SameServer DEF FifoInv, Listened
<1>5. ClientType'
  BY <1>1 DEF FifoInv, ClientType
<1>6. Framed' /\ Up'
  BY <1>1, SameServer, FramedSame, UpSame DEF FifoInv
<1> QED BY <1>3, <1>4, <1>5, <1>6 DEF FifoInv

LEMMA ClientPolledInv ==
  ASSUME FifoInv, ClientPolled
  PROVE  FifoInv'
<1>1. /\ get = "answered" /\ get' = "none" /\ toClient' = toClient \o body /\ body' = <<>>
      /\ UNCHANGED <<vars, phase, candidate, post, frames, probed, arriving, fromClient, toServer>>
      /\ UNCHANGED <<session, net, sent>>
  BY DEF ClientPolled, vars
<1>2. toClient \in Seq(Nat) /\ body \in Seq(Nat) /\ arriving \in Seq(Nat)
  BY DEF FifoInv, ClientType
<1>3. toClient \o body \in Seq(Nat) /\ (toClient \o body) \o <<>> = toClient \o body
  BY <1>2
<1>4. Down'
  BY <1>1, <1>3, DownSame DEF FifoInv
<1>5. Listened'
  BY <1>1, SameServer DEF FifoInv, Listened
<1>6. ClientType'
  <2>1. <<>> \in Seq(Nat)
    OBVIOUS
  <2> QED BY <1>1, <1>3, <2>1 DEF FifoInv, ClientType
<1>7. Framed' /\ Up'
  BY <1>1, SameServer, FramedSame, UpSame DEF FifoInv
<1> QED BY <1>4, <1>5, <1>6, <1>7 DEF FifoInv

LEMMA ClientFramedInv ==
  ASSUME IInv, FifoInv, ClientFramed
  PROVE  FifoInv'
<1>1. /\ arriving # <<>> /\ arriving' = Tail(arriving) /\ toClient' = Append(toClient, Head(arriving))
      /\ UNCHANGED <<vars, phase, candidate, get, body, post, frames, probed, fromClient, toServer>>
      /\ UNCHANGED <<session, net, sent>>
  BY DEF ClientFramed, vars
<1>2. toClient \in Seq(Nat) /\ arriving \in Seq(Nat)
  BY DEF FifoInv, ClientType
<1>3. transport # Polling /\ body = <<>>
  BY <1>1 DEF FifoInv, Listened
<1>4. /\ arriving' \in Seq(Nat) /\ toClient' \in Seq(Nat)
      /\ toClient' \o arriving' = toClient \o arriving
  BY <1>1, <1>2, TakesHead
<1>9. toClient' \o <<>> = toClient' /\ toClient \o <<>> = toClient
  BY <1>2, <1>4
<1>5. Down'
  BY <1>1, <1>3, <1>4, <1>9, DownSame DEF FifoInv
<1>6. Listened'
  BY <1>1, <1>3, SameServer DEF FifoInv, Listened
<1>7. ClientType'
  BY <1>1, <1>4 DEF FifoInv, ClientType
<1>8. Framed' /\ Up'
  BY <1>1, SameServer, FramedSame, UpSame DEF FifoInv
<1> QED BY <1>5, <1>6, <1>7, <1>8 DEF FifoInv

\* A client that has its probe answered pauses.
LEMMA ClientPausesInv ==
  ASSUME FifoInv, ClientPauses
  PROVE  FifoInv'
<1>1. /\ phase = "probing" /\ probed /\ phase' = "pausing" /\ probed' = FALSE
      /\ UNCHANGED <<vars, candidate, get, body, post, frames, arriving, toClient, fromClient, toServer>>
      /\ UNCHANGED <<session, net, sent>>
  BY DEF ClientPauses, vars
<1>2. Down'
  BY <1>1, DownSame DEF FifoInv
<1>3. transport = Polling
  BY <1>1 DEF FifoInv, Listened
<1>4. Listened'
  BY <1>1, <1>3, SameServer DEF FifoInv, Listened
<1>5. ClientType'
  BY <1>1 DEF FifoInv, ClientType
<1>6. frames = <<>> /\ frames' = <<>> /\ candidate \in WS
  BY <1>1 DEF FifoInv, Framed
<1>7. Framed'
  <2>1. DOMAIN frames' = {}
    BY <1>6
  <2> QED BY <1>1, <1>6, <2>1 DEF Framed
<1>8. Up'
  <2>1. OnWay' = OnWay /\ Prefix(toServer', fromClient')
    BY <1>1 DEF OnWay, InFrames, FifoInv, Up
  <2> QED BY <1>1, <2>1, SameServer DEF FifoInv, Up
<1> QED BY <1>2, <1>4, <1>5, <1>7, <1>8 DEF FifoInv

\* One that has no request outstanding upgrades.
LEMMA ClientUpgradedInv ==
  ASSUME FifoInv, ClientUpgraded
  PROVE  FifoInv'
<1> DEFINE f == [type |-> "upgrade", id |-> 0]
<1>1. /\ phase = "pausing" /\ get = "none" /\ post = 0 /\ phase' = "upgraded"
      /\ frames' = Append(frames, f)
      /\ UNCHANGED <<vars, candidate, get, body, post, probed, arriving, toClient, fromClient, toServer>>
      /\ UNCHANGED <<session, net, sent>>
  BY DEF ClientUpgraded, vars
<1>2. Down'
  BY <1>1, DownSame DEF FifoInv
<1>3. transport = Polling /\ frames = <<>> /\ candidate \in WS
  BY <1>1 DEF FifoInv, Listened, Framed
<1>4. Listened'
  BY <1>1, <1>3, SameServer DEF FifoInv, Listened
<1>5. f \in Frame /\ f.type = "upgrade"
  BY DEF Frame
<1> HIDE DEF f
<1>6. /\ frames' \in Seq(Frame) /\ Len(frames') = 1 /\ DOMAIN frames' = {1}
      /\ frames' # <<>> /\ Head(frames') = f /\ frames'[1] = f
  BY <1>1, <1>3, <1>5
<1>7. ClientType'
  BY <1>1, <1>6 DEF FifoInv, ClientType
<1>8. Framed'
  BY <1>1, <1>3, <1>5, <1>6 DEF Framed
<1>9. Up'
  <2>1. InFrames = 0 /\ InFrames' = 0
    BY <1>3, <1>5, <1>6 DEF InFrames
  <2>2. OnWay' = OnWay /\ Prefix(toServer', fromClient')
    BY <1>1, <2>1 DEF OnWay, FifoInv, Up
  <2> QED BY <1>1, <2>2, SameServer DEF FifoInv, Up
<1> QED BY <1>2, <1>4, <1>7, <1>8, <1>9 DEF FifoInv

\* One that has lost its WebSocket.
LEMMA ClientLostWsInv ==
  ASSUME FifoInv, ClientLostWs
  PROVE  FifoInv'
<1>1. /\ phase \notin {"polling", "gone"} /\ frames' = <<>> /\ probed' = FALSE
      /\ phase' = IF phase = "upgraded" THEN "gone" ELSE "polling"
      /\ UNCHANGED <<vars, candidate, get, body, post, arriving, toClient, fromClient, toServer>>
      /\ UNCHANGED <<session, net, sent>>
  BY DEF ClientLostWs, vars
<1>2. Down'
  BY <1>1, DownSame DEF FifoInv
<1>3. transport # Polling => phase = "upgraded"
  BY <1>1 DEF FifoInv, Listened
<1>4. Listened'
  BY <1>1, <1>3, SameServer DEF FifoInv, Listened
<1>5. ClientType'
  <2>1. <<>> \in Seq(Frame)
    OBVIOUS
  <2> QED BY <1>1, <2>1 DEF FifoInv, ClientType
<1>6. Framed'
  <2>1. DOMAIN frames' = {} /\ phase' \in {"gone", "polling"}
    BY <1>1
  <2> QED BY <1>1, <2>1 DEF Framed
<1>7. Up'
  <2>1. phase = "upgraded" => post = 0
    BY DEF FifoInv, Listened
  <2>2. phase # "upgraded" => OnWay' = OnWay
    <3>1. InFrames' = 0
      BY <1>1 DEF InFrames
    <3>2. phase # "upgraded" => InFrames = 0
      BY FewFrames DEF FifoInv
    <3> QED BY <1>1, <3>1, <3>2 DEF OnWay
  <2>3. Prefix(toServer', fromClient') /\ (post' # 0 => post' = fromClient')
    BY <1>1 DEF FifoInv, Up
  <2> QED BY <1>1, <2>1, <2>2, <2>3, SameServer DEF FifoInv, Up
<1> QED BY <1>2, <1>4, <1>5, <1>6, <1>7 DEF FifoInv
-----------------------------------------------------------------------------
(* The messages of the client.                                             *)

\* The next message is heard.
LEMMA PrefixHeard ==
  ASSUME NEW s \in Seq(Nat), NEW n \in Nat, Prefix(s, n), NEW id \in Nat, id = Len(s) + 1, id <= n
  PROVE  /\ Prefix(Append(s, id), n) /\ Append(s, id) \in Seq(Nat)
         /\ Len(Append(s, id)) = Len(s) + 1
<1> DEFINE b == Append(s, id)
<1>1. /\ b \in Seq(Nat) /\ Len(b) = Len(s) + 1 /\ DOMAIN b = 1..Len(s) + 1 /\ DOMAIN s = 1..Len(s)
      /\ Len(s) \in Nat
  OBVIOUS
<1>2. \A i \in 1..Len(s) + 1 : b[i] = IF i = Len(s) + 1 THEN id ELSE s[i]
  OBVIOUS
<1> HIDE DEF b
<1>3. ASSUME NEW i \in DOMAIN b PROVE b[i] = i
  BY <1>1, <1>2 DEF Prefix
<1>4. Len(b) <= n
  BY <1>1
<1> QED BY <1>1, <1>3, <1>4 DEF Prefix, b

\* One more frame.
LEMMA MoreFrames ==
  ASSUME ClientType, NEW f \in Frame, frames' = Append(frames, f), f.type = "message"
  PROVE  /\ frames' \in Seq(Frame) /\ Len(frames') = Len(frames) + 1 /\ Len(frames) \in Nat
         /\ DOMAIN frames' = 1..Len(frames) + 1 /\ DOMAIN frames = 1..Len(frames)
         /\ \A i \in 1..Len(frames) + 1 : frames'[i] = IF i = Len(frames) + 1 THEN f ELSE frames[i]
         /\ frames # <<>> => Head(frames') = Head(frames)
         /\ frames = <<>> => Head(frames') = f
         /\ InFrames' = InFrames + 1 /\ InFrames \in Int
<1>1. frames \in Seq(Frame)
  BY DEF ClientType
<1>2. /\ frames' \in Seq(Frame) /\ Len(frames') = Len(frames) + 1 /\ Len(frames) \in Nat
      /\ DOMAIN frames' = 1..Len(frames) + 1 /\ DOMAIN frames = 1..Len(frames)
  BY <1>1
<1>3. \A i \in 1..Len(frames) + 1 : frames'[i] = IF i = Len(frames) + 1 THEN f ELSE frames[i]
  BY <1>1
<1>4. frames # <<>> => Len(frames) >= 1 /\ Head(frames) = frames[1]
  BY <1>1
<1>5. Head(frames') = frames'[1] /\ frames' # <<>>
  BY <1>1
<1>6. frames # <<>> => Head(frames') = Head(frames)
  <2> SUFFICES ASSUME frames # <<>> PROVE Head(frames') = Head(frames)
    OBVIOUS
  <2>1. Len(frames) >= 1 /\ Head(frames) = frames[1] /\ 1 \in 1..Len(frames) + 1 /\ 1 # Len(frames) + 1
    BY <1>2, <1>4
  <2>2. frames'[1] = frames[1]
    BY <1>3, <2>1
  <2> QED BY <1>5, <2>1, <2>2
<1>7. frames = <<>> => Head(frames') = f
  <2>1. frames = <<>> => Len(frames) = 0
    OBVIOUS
  <2> QED BY <1>3, <1>5, <2>1
<1>8. InFrames' = InFrames + 1 /\ InFrames \in Int
  <2>1. CASE frames = <<>>
    <3>1. InFrames = Len(frames) /\ InFrames' = Len(frames')
      BY <1>7, <2>1 DEF InFrames
    <3> QED BY <1>2, <3>1
  <2>2. CASE frames # <<>> /\ Head(frames).type = "message"
    <3>1. InFrames = Len(frames) /\ InFrames' = Len(frames')
      BY <1>6, <2>2 DEF InFrames
    <3> QED BY <1>2, <3>1
  <2>3. CASE frames # <<>> /\ Head(frames).type # "message"
    <3>1. InFrames = Len(frames) - 1 /\ InFrames' = Len(frames') - 1
      BY <1>5, <1>6, <2>3 DEF InFrames
    <3> QED BY <1>2, <3>1
  <2> QED BY <2>1, <2>2, <2>3
<1> QED BY <1>2, <1>3, <1>6, <1>7, <1>8

LEMMA ClientSendsInv ==
  ASSUME FifoInv, ClientSends
  PROVE  FifoInv'
<1> DEFINE f == [type |-> "message", id |-> fromClient + 1]
<1>1. /\ fromClient' = fromClient + 1
      /\ UNCHANGED <<vars, phase, candidate, get, body, probed, arriving, toClient, toServer>>
      /\ UNCHANGED <<session, net, sent>>
  BY DEF ClientSends, vars
<1>2. /\ fromClient \in Nat /\ fromClient' \in Nat /\ toServer \in Seq(Nat) /\ post \in Nat
      /\ frames \in Seq(Frame)
  BY <1>1 DEF FifoInv, ClientType
<1>3. Down'
  BY <1>1, DownSame DEF FifoInv
<1>4. Prefix(toServer', fromClient')
  <2>1. Prefix(toServer, fromClient + 1)
    BY <1>2, PrefixMore DEF FifoInv, Up
  <2> QED BY <1>1, <2>1
<1>5. CASE /\ phase \in {"polling", "probing"} /\ post = 0
           /\ post' = fromClient + 1 /\ UNCHANGED frames
  <2>1. transport = Polling
    BY <1>5 DEF FifoInv, Listened
  <2>2. Listened'
    BY <1>1, <1>5, <2>1, SameServer DEF FifoInv, Listened
  <2>3. ClientType'
    BY <1>1, <1>2, <1>5 DEF FifoInv, ClientType
  <2>4. Framed'
    <3>1. \A i \in DOMAIN frames' :
            frames'[i].type # "message" /\ i = 1 /\ frames'[i].type # "upgrade"
      BY <1>5 DEF FifoInv, Framed
    <3> QED BY <1>1, <1>5, <3>1 DEF FifoInv, Framed
  <2>5. Up'
    <3>1. InFrames' = 0 /\ InFrames = 0
      BY <1>5, FewFrames DEF FifoInv, InFrames
    <3>2. OnWay = 0 /\ OnWay' = 1
      BY <1>2, <1>5, <3>1 DEF OnWay
    <3>3. readyState = "open" => Len(toServer) = fromClient
      <4>1. Len(toServer) \in Nat
        BY <1>2
      <4> QED BY <1>5, <3>2, <4>1 DEF FifoInv, Up
    <3> HIDE DEF f
    <3>4. readyState' = readyState /\ toServer' = toServer /\ phase' # "gone"
      BY <1>1, <1>5, SameServer
    <3> QED BY <1>1, <1>2, <1>4, <1>5, <3>2, <3>3, <3>4 DEF Up
  <2> QED BY <1>3, <2>2, <2>3, <2>4, <2>5 DEF FifoInv
<1>6. CASE phase = "upgraded" /\ frames' = Append(frames, f) /\ UNCHANGED post
  <2>1. f \in Frame /\ f.type = "message" /\ f.id = fromClient + 1
    BY <1>2 DEF Frame
  <2> HIDE DEF f
  <2>2. /\ frames' \in Seq(Frame) /\ Len(frames') = Len(frames) + 1 /\ Len(frames) \in Nat
        /\ DOMAIN frames' = 1..Len(frames) + 1 /\ DOMAIN frames = 1..Len(frames)
        /\ \A i \in 1..Len(frames) + 1 : frames'[i] = IF i = Len(frames) + 1 THEN f ELSE frames[i]
        /\ frames # <<>> => Head(frames') = Head(frames)
        /\ frames = <<>> => Head(frames') = f
        /\ InFrames' = InFrames + 1 /\ InFrames \in Int
    BY <1>6, <2>1, MoreFrames DEF FifoInv
  <2>3. Listened'
    BY <1>1, <1>6, SameServer DEF FifoInv, Listened
  <2>4. ClientType'
    BY <1>1, <1>2, <1>6, <2>2 DEF FifoInv, ClientType
  <2>5. Framed'
    <3>1. ASSUME NEW i \in DOMAIN frames'
          PROVE  IF frames'[i].type = "message"
                 THEN phase' = "upgraded" /\ frames'[i].id = fromClient' - Len(frames') + i
                 ELSE i = 1 /\ (frames'[i].type = "upgrade" <=> phase' = "upgraded")
      <4>1. CASE i = Len(frames) + 1
        BY <1>1, <1>2, <1>6, <2>1, <2>2, <4>1
      <4>2. CASE i # Len(frames) + 1
        <5>1. i \in DOMAIN frames /\ frames'[i] = frames[i]
          BY <2>2, <4>2
        <5>2. IF frames[i].type = "message"
              THEN phase = "upgraded" /\ frames[i].id = fromClient - Len(frames) + i
              ELSE i = 1 /\ (frames[i].type = "upgrade" <=> phase = "upgraded")
          BY <5>1 DEF FifoInv, Framed
        <5>3. fromClient' - Len(frames') + i = fromClient - Len(frames) + i
          BY <1>1, <1>2, <2>2
        <5> QED BY <1>1, <5>1, <5>2, <5>3
      <4> QED BY <4>1, <4>2
    <3>2. candidate \in WS
      BY <1>6 DEF FifoInv, Framed
    <3>3. (frames' # <<>> => Head(frames').type = "message") => transport = candidate \/ readyState = "closed"
      <4>1. frames' # <<>>
        BY <2>2
      <4> QED BY <1>6, <2>2, <4>1 DEF FifoInv, Framed
    <3> QED BY <1>1, <1>6, <3>1, <3>2, <3>3, SameServer DEF Framed
  <2>6. Up'
    <3>1. post = 0
      BY <1>6 DEF FifoInv, Listened
    <3>2. OnWay = InFrames /\ OnWay' = InFrames + 1 /\ Len(toServer) \in Nat
      BY <1>2, <1>6, <2>2, <3>1 DEF OnWay
    <3>3. readyState = "open" => Len(toServer) + InFrames = fromClient
      BY <1>6, <3>2 DEF FifoInv, Up
    <3>4. readyState' = "open" => Len(toServer') + OnWay' = fromClient'
      BY <1>1, <1>2, <2>2, <3>2, <3>3, SameServer
    <3> QED BY <1>1, <1>4, <1>6, <3>1, <3>4 DEF Up
  <2> QED BY <1>3, <2>3, <2>4, <2>5, <2>6 DEF FifoInv
<1> QED BY <1>5, <1>6 DEF ClientSends

\* While the session is open, its transport alone is listened to.
LEMMA Listening ==
  ASSUME IInv, readyState = "open"
  PROVE  /\ transport = Polling => polling.listeners = "socket"
         /\ \A w \in WS : w = transport <=> ws[w].listeners = "socket"
<1>1. \A t \in Transports : ListenersOf(Net, t) = "socket" <=> t = transport
  BY DEF IInv, SessionInv, NetInv, Wired
<1>2. transport = Polling => ListenersOf(Net, Polling) = "socket" /\ ListenersOf(Net, Polling) = polling.listeners
  BY <1>1 DEF Transports, ListenersOf, Net
<1>3. \A w \in WS : ListenersOf(Net, w) = ws[w].listeners /\ w \in Transports
  BY WsListeners DEF Net
<1> QED BY <1>1, <1>2, <1>3

LEMMA ServerPostedInv ==
  ASSUME IInv, PollInv, FifoInv, ServerPosted
  PROVE  FifoInv'
<1>1. /\ post # 0 /\ post' = 0
      /\ UNCHANGED <<phase, candidate, get, body, frames, probed, arriving, toClient, fromClient>>
  BY DEF ServerPosted
<1>2. /\ fromClient \in Nat /\ toServer \in Seq(Nat) /\ post \in Nat /\ Prefix(toServer, fromClient)
      /\ post = fromClient /\ Len(toServer) \in Nat
  BY <1>1 DEF FifoInv, ClientType, Up
<1>3. transport = Polling /\ phase # "upgraded"
  BY <1>1 DEF FifoInv, Listened
<1>4. readyState = "open" => phase # "gone" /\ Len(toServer) = fromClient - 1
  <2>1. OnWay = 1
    BY <1>1, <1>3, FewFrames DEF FifoInv, OnWay
  <2>2. readyState = "open" => phase # "gone" /\ Len(toServer) + OnWay = fromClient
    BY <1>1 DEF FifoInv, Up
  <2> QED BY <1>2, <2>1, <2>2
<1>5. /\ UNCHANGED <<session, net, sent>>
      /\ toServer' = IF readyState = "open" THEN Append(toServer, post) ELSE toServer
  <2>1. CASE DataRequest("message") /\ Emit(post)
    <3>1. OnPacket("message") /\ sent' = sent
      BY <2>1 DEF DataRequest
    <3>2. UNCHANGED <<session, net, sent>>
          /\ received' = IF readyState = "open" THEN received + 1 ELSE received
      BY <3>1, MessageHeard
    <3>3. received' > received <=> readyState = "open"
      BY <3>2 DEF IInv
    <3> QED BY <2>1, <3>2, <3>3 DEF Emit
  <2>2. CASE polling.listeners # "socket" /\ UNCHANGED <<vars, toServer>>
    <3>1. readyState # "open"
      BY <1>3, <2>2, Listening
    <3> QED BY <2>2, <3>1 DEF vars
  <2> QED BY <2>1, <2>2 DEF ServerPosted
<1>6. /\ toServer' \in Seq(Nat) /\ Prefix(toServer', fromClient)
      /\ readyState = "open" => Len(toServer') = fromClient
  <2>1. CASE readyState = "open"
    <3>1. post = Len(toServer) + 1 /\ post <= fromClient
      BY <1>2, <1>4, <2>1
    <3>2. /\ Prefix(Append(toServer, post), fromClient) /\ Append(toServer, post) \in Seq(Nat)
          /\ Len(Append(toServer, post)) = Len(toServer) + 1
      BY <1>2, <3>1, PrefixHeard
    <3> QED BY <1>2, <1>4, <1>5, <2>1, <3>2
  <2>2. CASE readyState # "open"
    BY <1>2, <1>5, <2>2
  <2> QED BY <2>1, <2>2
<1>7. Down'
  BY <1>1, <1>5, DownSame DEF FifoInv
<1>8. Listened'
  BY <1>1, <1>5, SameServer DEF FifoInv, Listened
<1>9. ClientType'
  BY <1>1, <1>6 DEF FifoInv, ClientType
<1>10. Framed'
  BY <1>1, <1>5, SameServer, FramedSame DEF FifoInv
<1>11. Up'
  <2>1. InFrames' = 0
    BY <1>1, <1>3, FewFrames DEF FifoInv, InFrames
  <2>2. OnWay' = 0
    BY <1>1, <2>1 DEF OnWay
  <2>3. readyState' = "open" => phase' # "gone" /\ Len(toServer') + OnWay' = fromClient'
    BY <1>1, <1>2, <1>4, <1>5, <1>6, <2>2, SameServer
  <2> QED BY <1>1, <1>6, <2>3 DEF Up
<1> QED BY <1>7, <1>8, <1>9, <1>10, <1>11 DEF FifoInv

\* The client opens its candidate: nothing moves, and polling goes on.
LEMMA ClientUpgradesInv ==
  ASSUME IInv, PollInv, FifoInv, NEW w \in WS, ClientUpgrades(w)
  PROVE  FifoInv'
<1> DEFINE f == [type |-> "probe", id |-> 0]
<1>1. /\ phase = "polling" /\ candidate = Polling /\ candidate' = w /\ phase' = "probing"
      /\ frames' = <<f>> /\ MaybeUpgrade(w)
      /\ UNCHANGED <<get, body, post, probed, arriving, toClient, fromClient, toServer>>
  BY DEF ClientUpgrades
<1>2. transport = Polling /\ Sockets /\ frames = <<>> /\ ~probed
  BY <1>1, PollingAssumption DEF FifoInv, Listened, Framed, Sockets, ClientType
<1>3. polling' = polling /\ wire' = wire
  <2> DEFINE n == [Net EXCEPT !.ws[w].readyState = "open", !.ws[w].socket = "connecting"]
             m == [n EXCEPT !.ws[w].listeners = "candidate", !.ws[w].upgradeTimer = TRUE]
  <2>1. Becomes(CloseOf(n, w)) \/ Becomes(m)
    BY <1>1 DEF MaybeUpgrade
  <2>2. n \in NetType
    BY NetPolling, ConnectingNet
  <2>3. n.polling = polling /\ n.wire = wire /\ m.polling = n.polling /\ m.wire = n.wire
    BY <2>2 DEF NetType, Net
  <2> HIDE DEF n, m
  <2>4. CloseOf(n, w).polling = n.polling /\ CloseOf(n, w).wire = n.wire
    <3>1. Unmoved(n, CloseOf(n, w)) /\ w \in Transports
      BY <2>2, CloseOfUnmoved, WsListeners
    <3>2. CloseOf(n, w).polling = n.polling
      BY <2>2, CloseOfWsPolling
    <3> QED BY <3>1, <3>2 DEF Unmoved
  <2> QED BY <2>1, <2>3, <2>4 DEF Becomes
<1>4. /\ UNCHANGED <<readyState, transport, writeBuffer, sent>>
      /\ \A v \in WS : Later(ws[v], ws'[v])
  BY <1>1, <1>2, MaybeUpgradeFlow DEF MaybeUpgrade, Flow
<1>5. Stream' = Stream /\ Due' = Due /\ Mute' = Mute /\ MessagesLeft(wire)' = MessagesLeft(wire)
  BY <1>2, <1>3, <1>4 DEF Stream, Due, Mute
<1>6. Down'
  BY <1>1, <1>4, <1>5 DEF FifoInv, Down
<1>7. \A v \in WS : Opened(ws'[v])
  BY <1>2, <1>4 DEF Sockets, Later
<1>8. Listened'
  BY <1>1, <1>2, <1>3, <1>4, <1>7 DEF FifoInv, Listened
<1>9. f \in Frame /\ f.type = "probe"
  BY DEF Frame
<1> HIDE DEF f
<1>10. frames' \in Seq(Frame) /\ Len(frames') = 1 /\ DOMAIN frames' = {1}
       /\ frames' # <<>> /\ Head(frames') = f /\ frames'[1] = f
  BY <1>1, <1>9
<1>11. ClientType'
  BY <1>1, <1>10 DEF FifoInv, ClientType, Transports
<1>12. Framed'
  BY <1>1, <1>2, <1>9, <1>10 DEF Framed
<1>13. Up'
  <2>1. InFrames = 0 /\ InFrames' = 0
    BY <1>2, <1>9, <1>10 DEF InFrames
  <2>2. OnWay' = OnWay /\ Prefix(toServer', fromClient')
    BY <1>1, <2>1 DEF OnWay, FifoInv, Up
  <2> QED BY <1>1, <1>4, <2>2 DEF FifoInv, Up
<1> QED BY <1>6, <1>8, <1>11, <1>12, <1>13 DEF FifoInv

\* A frame of the client: the probe, the upgrade, or a message.
LEMMA ServerFramedInv ==
  ASSUME IInv, PollInv, [Next]_vars, FifoInv, ServerFramed
  PROVE  FifoInv'
<1> DEFINE f == Head(frames)
           heard == f.type = "message" /\ readyState = "open" /\ ws[candidate].listeners = "socket"
<1>1. /\ frames # <<>> /\ frames' = Tail(frames) /\ WsPacket(candidate, f.type) /\ Emit(f.id)
      /\ probed' = (probed \/ f.type = "probe") /\ Answers(polling.pending)
      /\ UNCHANGED <<phase, candidate, post, toClient, fromClient>>
  BY DEF ServerFramed
<1>2. /\ frames' \in Seq(Frame) /\ f \in Frame /\ Len(frames') = Len(frames) - 1
      /\ DOMAIN frames' = 1..Len(frames') /\ Len(frames) \in Nat
      /\ \A i \in 1..Len(frames') : /\ frames'[i] = frames[i + 1] /\ i + 1 \in DOMAIN frames
                                    /\ frames'[i].type = "message"
      /\ f = frames[1] /\ 1 \in DOMAIN frames
      /\ frames' # <<>> => Head(frames').type = "message"
  BY <1>1, NextFrame DEF FifoInv
<1>3. candidate \in WS /\ f.type \in {"probe", "upgrade", "message"} /\ f.id \in Nat
  BY <1>1, <1>2 DEF FifoInv, Framed, Frame
<1>4. /\ f.type = "message" => phase = "upgraded" /\ f.id = fromClient - Len(frames) + 1
      /\ f.type # "message" => (f.type = "upgrade" <=> phase = "upgraded")
  BY <1>2 DEF FifoInv, Framed
<1>5. readyState = "open" => (candidate = transport <=> ws[candidate].listeners = "socket")
  BY <1>3, Listening
<1>6. ws[candidate].listeners = "candidate" /\ readyState # "closed" => transport = Polling
  <2> SUFFICES ASSUME readyState # "closed", transport # Polling
               PROVE  ws[candidate].listeners = "socket"
    OBVIOUS
  <2>1. transport = candidate
    BY DEF FifoInv, Listened
  <2>2. candidate \in Transports /\ ListenersOf(Net, candidate) = ws[candidate].listeners
    BY <1>3, WsListeners DEF Net
  <2> QED BY <2>1, <2>2 DEF IInv, SessionInv, NetInv, Wired
<1> HIDE DEF f
<1>7. /\ Flow(polling.pending)
      /\ transport' = IF f.type = "upgrade" /\ readyState # "closed" THEN candidate ELSE transport
      /\ received' = IF heard THEN received + 1 ELSE received
  BY <1>1, <1>3, <1>6, WsPacketFlow DEF FifoInv, Listened, Sockets
<1>8. toServer' = IF heard THEN Append(toServer, f.id) ELSE toServer
  <2>1. received' > received <=> heard
    BY <1>7 DEF IInv
  <2> QED BY <1>1, <2>1 DEF Emit
<1> HIDE DEF heard
<1>9. Serves(polling.pending)
  <2>1. transport' = transport \/ (phase = "upgraded" /\ candidate \in WS /\ transport' = candidate)
    BY <1>3, <1>4, <1>7
  <2>2. polling.pending => get = "sent"
    BY DEF FifoInv, Listened
  <2> QED BY <1>1, <1>7, <2>1, <2>2 DEF Serves
<1>10. /\ Down' /\ Listened' /\ body' \in Seq(Nat) /\ arriving' \in Seq(Nat)
       /\ get' \in {"none", "sent", "answered"}
  <2>1. PollInv' /\ polling.pending \in BOOLEAN
    BY PollNext, Sequences DEF FifoInv
  <2> QED BY <1>9, <2>1, ServesDown, ServesListened DEF FifoInv
<1>11. Framed'
  <2>1. ASSUME NEW i \in DOMAIN frames'
        PROVE  /\ frames'[i].type = "message" /\ phase' = "upgraded"
               /\ frames'[i].id = fromClient' - Len(frames') + i
    <3>1. i \in 1..Len(frames') /\ frames'[i] = frames[i + 1] /\ frames'[i].type = "message"
          /\ i + 1 \in DOMAIN frames
      BY <1>2
    <3>2. phase = "upgraded" /\ frames[i + 1].id = fromClient - Len(frames) + (i + 1)
      BY <3>1 DEF FifoInv, Framed
    <3>3. fromClient \in Nat
      BY DEF FifoInv, ClientType
    <3>4. fromClient - Len(frames) + (i + 1) = fromClient - Len(frames') + i
      BY <1>2, <3>1, <3>3
    <3> QED BY <1>1, <3>1, <3>2, <3>4
  <2>2. phase' # "pausing"
    BY <1>1 DEF FifoInv, Framed
  <2>3. phase' = "probing" => frames' = <<>>
    BY <1>1, FewFrames DEF FifoInv
  <2>4. phase' = "upgraded" => transport' = candidate' \/ readyState' = "closed"
    <3>1. readyState = "closed" => readyState' = "closed"
      BY <1>7 DEF Flow
    <3> SUFFICES ASSUME phase = "upgraded", readyState # "closed" PROVE transport' = candidate
      BY <1>1, <3>1
    <3>2. CASE f.type = "upgrade"
      BY <1>7, <3>2
    <3>3. CASE f.type # "upgrade"
      <4>1. f.type = "message"
        BY <1>4, <3>3
      <4>2. transport = candidate
        BY <1>1, <4>1 DEF FifoInv, Framed, f
      <4> QED BY <1>7, <3>3, <4>2
    <3> QED BY <3>2, <3>3
  <2> QED BY <1>1, <1>3, <2>1, <2>2, <2>3, <2>4 DEF Framed
<1>12. /\ toServer \in Seq(Nat) /\ fromClient \in Nat /\ Prefix(toServer, fromClient)
       /\ Len(toServer) \in Nat /\ post \in Nat
  BY DEF FifoInv, ClientType, Up
<1>13. readyState = "open" => phase # "gone" /\ Len(toServer) + OnWay = fromClient
  BY <1>1 DEF FifoInv, Up
<1>14. InFrames' = Len(frames) - 1
  BY <1>2 DEF InFrames
<1>15. CASE heard
  <2>1. f.type = "message" /\ readyState = "open"
    BY <1>15 DEF heard
  <2>2. phase = "upgraded" /\ post = 0
    BY <1>4, <2>1 DEF FifoInv, Listened
  <2>3. OnWay = Len(frames) /\ OnWay' = Len(frames) - 1
    <3>1. InFrames = Len(frames) /\ InFrames' = Len(frames) - 1
      BY <1>1, <1>14, <2>1 DEF InFrames, f
    <3>2. Len(frames) \in Nat /\ post = 0 /\ post' = 0
      BY <1>1, <1>2, <2>2
    <3> QED BY <3>1, <3>2 DEF OnWay
  <2>4. f.id = Len(toServer) + 1 /\ f.id <= fromClient
    <3>1. /\ Len(frames) >= 1 /\ Len(frames) \in Nat /\ Len(toServer) \in Nat
          /\ fromClient \in Nat
      BY <1>2, <1>12
    <3>2. Len(toServer) + Len(frames) = fromClient /\ f.id = fromClient - Len(frames) + 1
      BY <1>4, <1>13, <2>1, <2>3
    <3> QED BY <3>1, <3>2
  <2>5. /\ Prefix(toServer', fromClient) /\ toServer' \in Seq(Nat)
        /\ Len(toServer') = Len(toServer) + 1
    BY <1>3, <1>8, <1>12, <1>15, <2>4, PrefixHeard
  <2>6. Len(toServer') + OnWay' = fromClient
    <3>1. Len(frames) \in Nat /\ Len(toServer) \in Nat /\ fromClient \in Nat
      BY <1>2, <1>12
    <3>2. Len(toServer) + Len(frames) = fromClient /\ Len(toServer') = Len(toServer) + 1
          /\ OnWay' = Len(frames) - 1
      BY <1>13, <2>1, <2>3, <2>5
    <3> QED BY <3>1, <3>2
  <2>7. Up'
    BY <1>1, <2>2, <2>5, <2>6 DEF Up
  <2>8. ClientType'
    BY <1>1, <1>2, <1>10, <2>5 DEF FifoInv, ClientType
  <2> QED BY <1>10, <1>11, <2>7, <2>8 DEF FifoInv
<1>16. CASE ~heard
  <2>1. toServer' = toServer
    BY <1>8, <1>16
  <2>2. readyState = "open" => f.type # "message"
    <3> SUFFICES ASSUME readyState = "open", f.type = "message" PROVE FALSE
      OBVIOUS
    <3>1. transport = candidate
      BY <1>1, <1>4 DEF FifoInv, Framed, f
    <3> QED BY <1>5, <1>16, <3>1 DEF heard
  <2>3. readyState = "open" => OnWay' = OnWay
    BY <1>1, <1>2, <1>14, <2>2 DEF OnWay, InFrames, f
  <2>4. readyState' = "open" => readyState = "open"
    BY NotReopened
  <2>5. Up'
    BY <1>1, <1>12, <1>13, <2>1, <2>3, <2>4 DEF FifoInv, Up
  <2>6. ClientType'
    BY <1>1, <1>2, <1>10, <2>1 DEF FifoInv, ClientType
  <2> QED BY <1>10, <1>11, <2>5, <2>6 DEF FifoInv
<1> QED BY <1>15, <1>16
-----------------------------------------------------------------------------
LEMMA ClientInit == SInit => Init /\ FifoInv
<1> SUFFICES ASSUME SInit PROVE Init /\ FifoInv
  OBVIOUS
<1>1. Init /\ transport = Polling
  BY DEF SInit
<1>2. /\ ~polling.pending /\ polling.encoding = <<>> /\ wire = <<>> /\ sent = 0 /\ readyState = "open"
      /\ writeBuffer = <<Control("open")>>
  BY <1>1 DEF Init
<1>3. \A w \in WS : ws[w].writable = FALSE /\ ws[w].socket = "none"
  BY <1>1, PollingAssumption DEF Init, Absent
<1>4. MessagesOf(writeBuffer) = <<>> /\ MessagesOf(polling.encoding) = <<>> /\ MessagesLeft(wire) = <<>>
  <2>1. writeBuffer = Append(<<>>, Control("open")) /\ <<>> \in Seq(Packet)
    BY <1>2
  <2>2. Control("open") \in Packet /\ ~IsMessage(Control("open"))
    BY OwnPackets DEF Own, PacketTypes
  <2> QED BY <1>2, <2>1, <2>2, MessagesAppend, MessagesEmpty, LeftEmpty
<1>5. <<>> \o <<>> = <<>> /\ Len(<<>>) = 0 /\ DOMAIN <<>> = {}
  OBVIOUS
<1>6. Stream = <<>> /\ Due = <<>> /\ Prefix(<<>>, 0)
  BY <1>4, <1>5 DEF Stream, Due, Prefix
<1>7. Down
  BY <1>2, <1>4, <1>5, <1>6 DEF SInit, Down
<1>8. ClientType
  <2>1. <<>> \in Seq(Nat) /\ <<>> \in Seq(Frame)
    OBVIOUS
  <2> QED BY <2>1 DEF SInit, ClientType, Transports
<1>9. Listened
  BY <1>1, <1>2, <1>3 DEF SInit, Listened, Opened
<1>10. Framed
  BY <1>5, PollingAssumption DEF SInit, Framed
<1>11. Up
  BY <1>5, <1>6 DEF SInit, Up, OnWay, InFrames
<1> QED BY <1>1, <1>7, <1>8, <1>9, <1>10, <1>11 DEF FifoInv

\* What the client and the network do with the server is in EngineSocket's reach.
LEMMA StepsOfServer ==
  ASSUME FifoInv, [SNext]_allVars
  PROVE  [Next]_vars
<1>1. CASE ServerPolled
  BY <1>1 DEF ServerPolled, Next
<1>2. CASE ServerPosted
  BY <1>2 DEF ServerPosted, Next
<1>3. ASSUME NEW w \in WS, ClientUpgrades(w) PROVE Next
  BY <1>3 DEF ClientUpgrades, Next
<1>4. CASE ServerFramed
  <2>1. /\ frames # <<>> /\ WsPacket(candidate, Head(frames).type)
    BY <1>4 DEF ServerFramed
  <2>2. frames \in Seq(Frame) /\ candidate \in WS
    BY <2>1 DEF FifoInv, ClientType, Framed
  <2>3. Head(frames) \in Frame
    BY <2>1, <2>2
  <2>4. Head(frames).type \in {"probe", "upgrade", "message"}
    BY <2>3 DEF Frame
  <2> QED BY <2>1, <2>2, <2>4 DEF Next
<1>5. CASE ClientPolls \/ ClientPolled \/ ClientSends \/ ClientPauses \/ ClientUpgraded
           \/ ClientFramed \/ ClientLostWs
  <2>1. UNCHANGED vars
    BY <1>5 DEF ClientPolls, ClientPolled, ClientSends, ClientPauses, ClientUpgraded, ClientFramed,
                ClientLostWs
  <2> QED BY <2>1
<1>6. CASE ServerNext
  BY <1>6 DEF ServerNext, Server, Next
<1>7. CASE UNCHANGED allVars
  BY <1>7 DEF allVars
<1> QED BY <1>1, <1>2, <1>3, <1>4, <1>5, <1>6, <1>7 DEF SNext, ClientNext

\* The steps of the server that no request of the client causes.
LEMMA ServerNextInv ==
  ASSUME IInv, PollInv, [Next]_vars, FifoInv, ServerNext
  PROVE  FifoInv'
<1>0. Sockets
  BY DEF FifoInv, Listened, Sockets
<1> DEFINE Idle == /\ Answers(polling.pending)
                   /\ UNCHANGED <<phase, candidate, post, frames, probed, toClient, fromClient, toServer>>
<1>1. CASE Idle /\ BlobEncoded
  BY <1>1, BlobEncodedFlow, ServerInv
<1>2. CASE Idle /\ PingIntervalFires
  BY <1>0, <1>2, PingFlow, ServerInv
<1>3. CASE Idle /\ PingTimeoutFires
  BY <1>3, PingTimeoutFlow, ServerInv
<1>4. ASSUME NEW w \in WS, Idle, WsOpen(w) PROVE FifoInv'
  BY <1>0, <1>4, WsOpenFlow, ServerInv
<1>5. ASSUME NEW w \in WS, Idle, WsClosed(w) PROVE FifoInv'
  BY <1>5, WsClosedFlow, ServerInv
<1>6. ASSUME NEW w \in WS, Idle, Timers(w) PROVE FifoInv'
  BY <1>6, TimersFlow, ServerInv
<1>7. ASSUME NEW type \in {"message", "blob"}, Idle, Send(type) PROVE FifoInv'
  BY <1>0, <1>7, SendFlow, ServerInv
<1>8. CASE Idle /\ Close
  BY <1>8, CloseFlow, ServerInv
<1> HIDE DEF Idle
<1> QED
  BY <1>1, <1>2, <1>3, <1>4, <1>5, <1>6, <1>7, <1>8 DEF ServerNext, Server, Idle

\* Nothing happens.
LEMMA ClientStutters ==
  ASSUME FifoInv, UNCHANGED allVars
  PROVE  FifoInv'
<1>1. /\ UNCHANGED <<session, net, sent>>
      /\ UNCHANGED <<phase, candidate, get, body, post, frames, probed, arriving, toClient, fromClient, toServer>>
  BY DEF allVars, vars, client
<1>2. Down'
  BY <1>1, DownSame DEF FifoInv
<1>3. Listened'
  BY <1>1, SameServer DEF FifoInv, Listened
<1>4. ClientType'
  BY <1>1 DEF FifoInv, ClientType
<1>5. Framed' /\ Up'
  BY <1>1, SameServer, FramedSame, UpSame DEF FifoInv
<1> QED BY <1>2, <1>3, <1>4, <1>5 DEF FifoInv

LEMMA ClientNextInv ==
  ASSUME IInv, PollInv, FifoInv, [SNext]_allVars
  PROVE  FifoInv'
<1>0. [Next]_vars
  BY StepsOfServer
<1>1. CASE ClientPolls
  BY <1>1, ClientPollsInv
<1>2. CASE ServerPolled
  BY <1>0, <1>2, ServerPolledInv
<1>3. CASE ClientPolled
  BY <1>3, ClientPolledInv
<1>4. CASE ClientSends
  BY <1>4, ClientSendsInv
<1>5. CASE ServerPosted
  BY <1>5, ServerPostedInv
<1>6. ASSUME NEW w \in WS, ClientUpgrades(w) PROVE FifoInv'
  BY <1>6, ClientUpgradesInv
<1>7. CASE ServerFramed
  BY <1>0, <1>7, ServerFramedInv
<1>8. CASE ClientPauses
  BY <1>8, ClientPausesInv
<1>9. CASE ClientUpgraded
  BY <1>9, ClientUpgradedInv
<1>10. CASE ClientFramed
  BY <1>10, ClientFramedInv
<1>11. CASE ClientLostWs
  BY <1>11, ClientLostWsInv
<1>12. CASE ServerNext
  BY <1>0, <1>12, ServerNextInv
<1>13. CASE UNCHANGED allVars
  BY <1>13, ClientStutters
<1> QED
  BY <1>1, <1>2, <1>3, <1>4, <1>5, <1>6, <1>7, <1>8, <1>9, <1>10, <1>11, <1>12, <1>13
  DEF SNext, ClientNext

LEMMA FifoInvFifo == IInv /\ FifoInv => Fifo
<1> SUFFICES ASSUME IInv, FifoInv PROVE Fifo
  OBVIOUS
<1>1. /\ toClient \in Seq(Nat) /\ body \in Seq(Nat) /\ arriving \in Seq(Nat) /\ sent \in Nat
      /\ MessagesLeft(wire) \in Seq(Nat) /\ MessagesOf(polling.encoding) \in Seq(Nat)
  BY Sequences DEF FifoInv, ClientType
<1>2. Prefix(MessagesLeft(wire), sent)
  BY <1>1, PrefixCat DEF FifoInv, Down, Stream
<1>3. toClient \o body \in Seq(Nat) /\ Prefix((toClient \o body) \o arriving, sent)
  BY <1>1, <1>2 DEF FifoInv, Down
<1>4. Prefix(toClient \o body, sent)
  BY <1>1, <1>3, PrefixCat
<1>5. Prefix(toClient, sent)
  BY <1>1, <1>4, PrefixCat
<1> QED BY <1>5 DEF Fifo, FifoInv, Up

\* Whatever the network delays, and whenever the client upgrades, the client has
\* the messages of the application in the order of its send() calls, each once
\* and with none left out, and the application the client's.
THEOREM MessagesInOrder == SSpec => []Fifo
<1>1. SInit => IInv /\ PollInv /\ FifoInv
  BY ClientInit, InvInit, PollInit
<1>2. IInv /\ PollInv /\ FifoInv /\ [SNext]_allVars => (IInv /\ PollInv /\ FifoInv)'
  BY StepsOfServer, ClientNextInv, InvNext, PollNext
<1>3. IInv /\ FifoInv => Fifo
  BY FifoInvFifo
<1> QED BY <1>1, <1>2, <1>3, PTL DEF SSpec

\* The client of EngineSession is one of those that EngineSocket allows: what
\* holds of every behaviour of a session holds of its behaviours with this client.
THEOREM ClientIsAllowed == SSpec => Spec
<1>1. SInit => Init /\ IInv /\ PollInv /\ FifoInv
  BY ClientInit, InvInit, PollInit
<1>2. IInv /\ PollInv /\ FifoInv /\ [SNext]_allVars => (IInv /\ PollInv /\ FifoInv)'
  BY StepsOfServer, ClientNextInv, InvNext, PollNext
<1>3. FifoInv /\ [SNext]_allVars => [Next]_vars
  BY StepsOfServer
<1> QED BY <1>1, <1>2, <1>3, PTL DEF SSpec, Spec
=============================================================================
