------------------------- MODULE ClusterAdapterProofs -------------------------
(***************************************************************************)
(* EndsOnce holds for any cluster, any calls and any changes: a callback   *)
(* is called once, and a timer or the count of servers is under way until  *)
(* it has been.                                                            *)
(*                                                                         *)
(* What a call is at, OpInv, is an invariant of its record alone, once     *)
(* every message is known to be about a call it fits: a second NUMSUB of a *)
(* call would start it again, and an acknowledgement that reached a        *)
(* serverSideEmit() would complete it.                                     *)
(***************************************************************************)
EXTENDS ClusterAdapter, SequenceTheorems, FiniteSetTheorems, TLAPS

Process == Clients \union Servers

MessageType ==
  [type : {"request", "numsub", "count", "answer", "ack"}, op : Nat, by : Process, n : Nat]

OpType ==
  [kind : Kinds, from : Servers, local : BOOLEAN, to : Rooms \union {All}, room : Rooms \union {All},
   stage : {"asked", "counted", "done"}, count : Nat, expected : Int, current : Nat, clients : Nat,
   responses : Seq(Process), pending : BOOLEAN, timer : BOOLEAN, timedOut : BOOLEAN,
   settled : Seq({"ok", "error"}), cluster : SUBSET Servers]

Typed ==
  /\ sub \in [Servers -> {"off", "pattern", "on", "gone"}]
  /\ pipe \in [Servers -> Seq(MessageType)] /\ inbox \in [Servers -> Seq(MessageType)]
  /\ delayed \in [Servers -> Seq(Nat)]
  /\ home \in [Clients -> Servers] /\ alive \subseteq Clients
  /\ waiting \subseteq Process \X Nat
  /\ ops \in Seq(OpType)
  /\ log \in [Process -> Seq(Nat)]

-----------------------------------------------------------------------------
(* A call: fetchSockets() or serverSideEmit(), and an emit with a callback. *)

Asks(o) == o.kind \in {"fetch", "emit"}

AskInv(o) ==
  /\ o.pending <=> o.timer
  /\ o.timer => o.settled = <<>>
  /\ ~o.timer /\ o.stage = "done" => Len(o.settled) = 1
  /\ o.stage # "done" =>
       /\ o.settled = <<>> /\ ~o.timer /\ ~o.local
       /\ o.expected = -1 /\ o.responses = <<>> /\ o.current = 0
  /\ o.current = Len(o.responses)
  /\ o.pending => o.expected = o.count - 1 /\ o.current # o.expected
  /\ o.settled = <<"ok">> /\ ~o.local => Len(o.responses) = o.count - 1
  /\ o.local => ~o.pending /\ o.responses = <<>>

AckInv(o) ==
  /\ o.timer => o.settled = <<>>
  /\ ~o.timer => Len(o.settled) = 1
  /\ o.stage # "done" => o.expected = -1
  /\ o.stage = "done" => o.expected = o.count
  /\ o.timedOut <=> o.settled = <<"error">>
  /\ o.settled = <<"ok">> =>
       /\ o.stage = "done" /\ o.current >= o.expected
       /\ o.current = o.expected => Len(o.responses) >= o.clients
  /\ o.settled = <<>> /\ o.stage = "done" =>
       ~(o.current = o.expected /\ Len(o.responses) = o.clients)
  /\ o.settled = <<>> => (o.pending <=> ~o.local)

OpInv(o) ==
  /\ Asks(o) => AskInv(o)
  /\ o.kind = "ack" => AckInv(o)
  /\ o.kind \notin {"ack", "fetch", "emit"} => o.stage = "done" /\ o.settled = <<>> /\ ~o.timer

-----------------------------------------------------------------------------
(* The messages, by the calls os they are about.                           *)

PipeMessage(os, h, s, m) ==
  /\ m.op \in DOMAIN os
  /\ LET o == os[m.op] IN
     \/ m.type = "request" /\ o.from = s /\ m.by = s /\ ~o.local /\ (Asks(o) => o.stage = "done")
     \/ m.type = "numsub" /\ o.from = s /\ m.by = s
     \/ m.type = "count" /\ o.kind = "ack" /\ o.from # s /\ m.by = s /\ ~o.local
     \/ m.type = "answer" /\ Asks(o) /\ o.stage = "done" /\ o.from # s /\ m.by = s /\ ~o.local
     \/ m.type = "ack" /\ o.kind = "ack" /\ o.from # s /\ m.by \in Clients /\ h[m.by] = s

InboxMessage(os, h, s, m) ==
  /\ m.op \in DOMAIN os
  /\ LET o == os[m.op] IN
     \/ m.type = "request" /\ m.by = o.from /\ ~o.local /\ (Asks(o) => o.stage = "done")
     \/ m.type = "count" /\ o.kind = "ack" /\ o.from = s /\ m.by \in Servers \ {s} /\ ~o.local
     \/ m.type = "answer" /\ Asks(o) /\ o.stage = "done" /\ o.from = s /\ m.by \in Servers \ {s} /\ ~o.local
     \/ m.type = "ack" /\ o.kind = "ack" /\ o.from = s /\ m.by \in Clients /\ h[m.by] # s

Waits(os, x, i) ==
  /\ i \in DOMAIN os
  /\ \/ os[i].kind = "ack" /\ x \in Clients
     \/ os[i].kind = "emit" /\ os[i].stage = "done" /\ x \in Servers \ {os[i].from} /\ ~os[i].local

\* Whose delayed broadcasts q are.
Delays(os, s, q) ==
  \A k \in DOMAIN q : /\ q[k] \in DOMAIN os
                      /\ os[q[k]].kind \in {"broadcast", "ack"} /\ os[q[k]].from = s

Messages(os, h, p, b) ==
  \A s \in Servers :
    /\ \A k \in DOMAIN p[s] : PipeMessage(os, h, s, p[s][k])
    /\ \A k \in DOMAIN b[s] : InboxMessage(os, h, s, b[s][k])

Numsubs(os, q) ==
  /\ \A k \in DOMAIN q : q[k].type = "numsub" => os[q[k].op].stage = "asked"
  /\ \A k, l \in DOMAIN q : q[k].type = "numsub" /\ q[l].type = "numsub" /\ q[k].op = q[l].op => k = l

Known(os, w, g) ==
  /\ \A x \in Process, i \in Nat : <<x, i>> \in w => Waits(os, x, i)
  /\ \A x \in Process : \A k \in DOMAIN g[x] : g[x][k] \in DOMAIN os

References ==
  /\ Messages(ops, home, pipe, inbox)
  /\ \A s \in Servers : Numsubs(ops, pipe[s]) /\ Delays(ops, s, delayed[s])
  /\ Known(ops, waiting, log)

Ops == \A i \in DOMAIN ops : OpInv(ops[i])

IInv == Typed /\ References /\ Ops

-----------------------------------------------------------------------------
(* Sequences.                                                              *)

LEMMA Pop ==
  ASSUME NEW S, NEW q \in Seq(S), q # <<>>
  PROVE  /\ Head(q) \in S /\ 1 \in DOMAIN q /\ q[1] = Head(q)
         /\ Tail(q) \in Seq(S)
         /\ \A k \in DOMAIN Tail(q) : k + 1 \in DOMAIN q /\ Tail(q)[k] = q[k + 1]
         /\ \A k \in DOMAIN q : k # 1 => k - 1 \in DOMAIN Tail(q) /\ Tail(q)[k - 1] = q[k]
<1>1. Len(q) \in Nat /\ Len(q) > 0 /\ DOMAIN q = 1 .. Len(q)
  BY EmptySeq
<1>2. Head(q) = q[1] /\ q[1] \in S
  BY <1>1
<1>3. Tail(q) \in Seq(S) /\ Len(Tail(q)) = Len(q) - 1
  BY HeadTailProperties
<1>4. DOMAIN Tail(q) = 1 .. Len(q) - 1
  BY <1>1, <1>3
<1>5. \A k \in 1 .. Len(q) - 1 : Tail(q)[k] = q[k + 1]
  BY <1>1, HeadTailProperties
<1> QED BY <1>1, <1>2, <1>3, <1>4, <1>5

LEMMA Push ==
  ASSUME NEW S, NEW q \in Seq(S), NEW e \in S
  PROVE  /\ Append(q, e) \in Seq(S) /\ Len(Append(q, e)) = Len(q) + 1
         /\ \A k \in DOMAIN q : k \in DOMAIN Append(q, e) /\ Append(q, e)[k] = q[k]
         /\ \A k \in DOMAIN Append(q, e) : k \in DOMAIN q \/ k = Len(q) + 1
         /\ Len(q) + 1 \in DOMAIN Append(q, e) /\ Append(q, e)[Len(q) + 1] = e
         /\ Len(q) + 1 \notin DOMAIN q
<1>1. Len(q) \in Nat /\ DOMAIN q = 1 .. Len(q)
  OBVIOUS
<1>2. Append(q, e) \in Seq(S) /\ Len(Append(q, e)) = Len(q) + 1
  BY AppendProperties
<1>3. DOMAIN Append(q, e) = 1 .. Len(q) + 1
  BY <1>1, <1>2
<1>4. \A k \in 1 .. Len(q) : Append(q, e)[k] = q[k]
  BY AppendProperties
<1>5. Append(q, e)[Len(q) + 1] = e
  BY AppendProperties
<1> QED BY <1>1, <1>2, <1>3, <1>4, <1>5

\* A concatenation has the elements of both.
LEMMA Joined ==
  ASSUME NEW S, NEW q \in Seq(S), NEW r \in Seq(S)
  PROVE  /\ q \o r \in Seq(S)
         /\ \A k \in DOMAIN q : k \in DOMAIN (q \o r) /\ (q \o r)[k] = q[k]
         /\ \A j \in DOMAIN r : Len(q) + j \in DOMAIN (q \o r) /\ (q \o r)[Len(q) + j] = r[j]
         /\ \A k \in DOMAIN (q \o r) : k \in DOMAIN q \/ \E j \in DOMAIN r : k = Len(q) + j
<1>1. Len(q) \in Nat /\ DOMAIN q = 1 .. Len(q) /\ Len(r) \in Nat /\ DOMAIN r = 1 .. Len(r)
  OBVIOUS
<1>2. q \o r \in Seq(S) /\ Len(q \o r) = Len(q) + Len(r)
  BY ConcatProperties
<1>3. DOMAIN (q \o r) = 1 .. Len(q) + Len(r)
  BY <1>1, <1>2
<1>4. \A k \in 1 .. Len(q) + Len(r) :
        (q \o r)[k] = IF k <= Len(q) THEN q[k] ELSE r[k - Len(q)]
  BY ConcatProperties
<1>5. \A k \in DOMAIN (q \o r) : k \in DOMAIN q \/ \E j \in DOMAIN r : k = Len(q) + j
  <2> TAKE k \in DOMAIN (q \o r)
  <2>1. CASE k <= Len(q)
    BY <1>1, <1>3, <2>1
  <2>2. CASE k > Len(q)
    <3>1. k - Len(q) \in DOMAIN r /\ k = Len(q) + (k - Len(q))
      BY <1>1, <1>3, <2>2
    <3> QED BY <3>1
  <2> QED BY <1>1, <1>3, <2>1, <2>2
<1>6. \A j \in DOMAIN r : Len(q) + j \in DOMAIN (q \o r) /\ (q \o r)[Len(q) + j] = r[j]
  BY <1>1, <1>3, <1>4
<1> QED BY <1>1, <1>2, <1>3, <1>4, <1>5, <1>6

LEMMA Pair == ASSUME NEW S, NEW m \in S, NEW n \in S PROVE <<m>> \o <<n>> = <<m, n>>
<1>1. <<m>> \in Seq(S) /\ <<n>> \in Seq(S) /\ <<m, n>> \in Seq(S)
  OBVIOUS
<1>2. Len(<<m>> \o <<n>>) = 2 /\ <<m>> \o <<n>> \in Seq(S)
  BY <1>1, ConcatProperties
<1>3. (<<m>> \o <<n>>)[1] = m /\ (<<m>> \o <<n>>)[2] = n
  BY <1>1, ConcatProperties
<1>4. Len(<<m, n>>) = 2 /\ <<m, n>>[1] = m /\ <<m, n>>[2] = n
  OBVIOUS
<1>5. \A i \in 1 .. 2 : i = 1 \/ i = 2
  OBVIOUS
<1>6. \A i \in 1 .. Len(<<m>> \o <<n>>) : (<<m>> \o <<n>>)[i] = <<m, n>>[i]
  BY <1>2, <1>3, <1>4, <1>5
<1>7. Len(<<m>> \o <<n>>) = Len(<<m, n>>)
  BY <1>2, <1>4
<1> QED BY <1>1, <1>2, <1>6, <1>7, SeqEqual

-----------------------------------------------------------------------------
(* The calls.                                                              *)

\* What no step changes of a call.
Keeps(o, p) ==
  /\ p.kind = o.kind /\ p.from = o.from /\ (p.local <=> o.local)
  /\ p.to = o.to /\ p.room = o.room

\* p is o with another stage, but for what is counted and settled.
Same(o, p) == Keeps(o, p) /\ p.stage = o.stage /\ p.count = o.count /\ p.cluster = o.cluster

LEMMA KeepsAsks == ASSUME NEW o, NEW p, Keeps(o, p) PROVE Asks(p) <=> Asks(o)
BY DEF Keeps, Asks

Complete(o) == ~o.timedOut /\ o.expected = o.current /\ Len(o.responses) = o.clients

\* The call with its callback called.
Ended(o, outcome) == [o EXCEPT !.settled = Append(@, outcome), !.timer = FALSE]

LEMMA EndedOp ==
  ASSUME NEW o \in OpType, NEW outcome \in {"ok", "error"}
  PROVE  LET p == Ended(o, outcome)
         IN  /\ p \in OpType /\ Same(o, p) /\ p.settled = Append(o.settled, outcome) /\ ~p.timer
             /\ (p.pending <=> o.pending) /\ (p.timedOut <=> o.timedOut)
             /\ p.expected = o.expected /\ p.current = o.current /\ p.clients = o.clients
             /\ p.responses = o.responses
<1> DEFINE d == Append(o.settled, outcome)
           e == [o EXCEPT !.settled = d]
           p == [e EXCEPT !.timer = FALSE]
<1>1. d \in Seq({"ok", "error"})
  BY Push DEF OpType
<1>2. Ended(o, outcome) = p
  BY DEF Ended
<1> HIDE DEF d
<1>3. /\ e \in OpType /\ e.settled = d
      /\ e.kind = o.kind /\ e.from = o.from /\ e.to = o.to /\ e.room = o.room /\ e.stage = o.stage
      /\ e.count = o.count /\ e.cluster = o.cluster /\ e.expected = o.expected
      /\ e.current = o.current /\ e.clients = o.clients /\ e.responses = o.responses
  BY <1>1 DEF OpType
<1>4. (e.local <=> o.local) /\ (e.pending <=> o.pending) /\ (e.timedOut <=> o.timedOut)
  BY DEF OpType
<1> HIDE DEF e
<1>5. /\ p \in OpType /\ p.settled = e.settled
      /\ p.kind = e.kind /\ p.from = e.from /\ p.to = e.to /\ p.room = e.room /\ p.stage = e.stage
      /\ p.count = e.count /\ p.cluster = e.cluster /\ p.expected = e.expected
      /\ p.current = e.current /\ p.clients = e.clients /\ p.responses = e.responses
  BY <1>3 DEF OpType
<1>6. (p.local <=> e.local) /\ (p.pending <=> e.pending) /\ (p.timedOut <=> e.timedOut) /\ ~p.timer
  BY <1>3 DEF OpType
<1> HIDE DEF p
<1> QED BY <1>2, <1>3, <1>4, <1>5, <1>6 DEF Same, Keeps, d

\* One more server has told the number of its clients.
Counted(o, n) == [o EXCEPT !.clients = @ + n, !.current = @ + 1]

LEMMA CountedOp ==
  ASSUME NEW o \in OpType, NEW n \in Nat
  PROVE  LET p == Counted(o, n)
         IN  /\ p \in OpType /\ Same(o, p) /\ p.settled = o.settled /\ p.expected = o.expected
             /\ p.current = o.current + 1 /\ p.clients = o.clients + n
             /\ p.responses = o.responses /\ (p.pending <=> o.pending)
             /\ (p.timedOut <=> o.timedOut) /\ (p.timer <=> o.timer)
<1> DEFINE p == Counted(o, n)
<1>1. o.current + 1 \in Nat /\ o.clients + n \in Nat
  BY DEF OpType
<1>2. /\ p \in OpType
      /\ p.kind = o.kind /\ p.from = o.from /\ p.to = o.to /\ p.room = o.room
      /\ p.stage = o.stage /\ p.count = o.count /\ p.cluster = o.cluster /\ p.expected = o.expected
      /\ p.current = o.current + 1 /\ p.clients = o.clients + n /\ p.responses = o.responses /\ p.settled = o.settled
  BY <1>1 DEF OpType, Counted
<1>3. (p.local <=> o.local) /\ (p.pending <=> o.pending) /\ (p.timedOut <=> o.timedOut) /\ (p.timer <=> o.timer)
  BY DEF OpType, Counted
<1> HIDE DEF p
<1> QED BY <1>2, <1>3 DEF Same, Keeps, p

\* One more client has acknowledged.
Acked(o, x) == [o EXCEPT !.responses = Append(@, x)]

LEMMA AckedOp ==
  ASSUME NEW o \in OpType, NEW x \in Process
  PROVE  LET p == Acked(o, x)
         IN  /\ p \in OpType /\ Same(o, p) /\ p.settled = o.settled /\ p.expected = o.expected
             /\ p.current = o.current /\ p.clients = o.clients
             /\ p.responses = Append(o.responses, x) /\ (p.pending <=> o.pending)
             /\ (p.timedOut <=> o.timedOut) /\ (p.timer <=> o.timer)
<1> DEFINE p == Acked(o, x)
<1>1. Append(o.responses, x) \in Seq(Process)
  BY Push DEF OpType
<1>2. /\ p \in OpType
      /\ p.kind = o.kind /\ p.from = o.from /\ p.to = o.to /\ p.room = o.room
      /\ p.stage = o.stage /\ p.count = o.count /\ p.cluster = o.cluster /\ p.expected = o.expected
      /\ p.current = o.current /\ p.clients = o.clients /\ p.responses = Append(o.responses, x) /\ p.settled = o.settled
  BY <1>1 DEF OpType, Acked
<1>3. (p.local <=> o.local) /\ (p.pending <=> o.pending) /\ (p.timedOut <=> o.timedOut) /\ (p.timer <=> o.timer)
  BY DEF OpType, Acked
<1> HIDE DEF p
<1> QED BY <1>2, <1>3 DEF Same, Keeps, p

\* One more server has answered.
Answered(o, x) == [o EXCEPT !.responses = Append(@, x), !.current = @ + 1]

LEMMA AnsweredOp ==
  ASSUME NEW o \in OpType, NEW x \in Process
  PROVE  LET p == Answered(o, x)
         IN  /\ p \in OpType /\ Same(o, p) /\ p.settled = o.settled /\ p.expected = o.expected
             /\ p.current = o.current + 1 /\ p.clients = o.clients
             /\ p.responses = Append(o.responses, x) /\ (p.pending <=> o.pending)
             /\ (p.timedOut <=> o.timedOut) /\ (p.timer <=> o.timer)
<1> DEFINE p == Answered(o, x)
<1>1. Append(o.responses, x) \in Seq(Process) /\ o.current + 1 \in Nat
  BY Push DEF OpType
<1>2. /\ p \in OpType
      /\ p.kind = o.kind /\ p.from = o.from /\ p.to = o.to /\ p.room = o.room
      /\ p.stage = o.stage /\ p.count = o.count /\ p.cluster = o.cluster /\ p.expected = o.expected
      /\ p.current = o.current + 1 /\ p.clients = o.clients /\ p.responses = Append(o.responses, x) /\ p.settled = o.settled
  BY <1>1 DEF OpType, Answered
<1>3. (p.local <=> o.local) /\ (p.pending <=> o.pending) /\ (p.timedOut <=> o.timedOut) /\ (p.timer <=> o.timer)
  BY DEF OpType, Answered
<1> HIDE DEF p
<1> QED BY <1>2, <1>3 DEF Same, Keeps, p

\* The call is no longer among the pending requests.
Over(o) == [o EXCEPT !.pending = FALSE]

LEMMA OverOp ==
  ASSUME NEW o \in OpType
  PROVE  LET p == Over(o)
         IN  /\ p \in OpType /\ Same(o, p) /\ p.settled = o.settled /\ p.expected = o.expected
             /\ p.current = o.current /\ p.clients = o.clients /\ p.responses = o.responses
             /\ ~p.pending /\ (p.timedOut <=> o.timedOut) /\ (p.timer <=> o.timer)
<1> DEFINE p == Over(o)
<1>2. /\ p \in OpType
      /\ p.kind = o.kind /\ p.from = o.from /\ p.to = o.to /\ p.room = o.room
      /\ p.stage = o.stage /\ p.count = o.count /\ p.cluster = o.cluster /\ p.expected = o.expected
      /\ p.current = o.current /\ p.clients = o.clients /\ p.responses = o.responses /\ p.settled = o.settled
  BY DEF OpType, Over
<1>3. (p.local <=> o.local) /\ ~p.pending /\ (p.timedOut <=> o.timedOut) /\ (p.timer <=> o.timer)
  BY DEF OpType, Over
<1> HIDE DEF p
<1> QED BY <1>2, <1>3 DEF Same, Keeps, p

\* The timeout of an emit with a callback.
Expired(o) == [o EXCEPT !.timedOut = TRUE, !.timer = FALSE, !.settled = Append(@, "error")]

LEMMA ExpiredOp ==
  ASSUME NEW o \in OpType
  PROVE  LET p == Expired(o)
         IN  /\ p \in OpType /\ Same(o, p) /\ p.settled = Append(o.settled, "error")
             /\ p.expected = o.expected /\ p.current = o.current /\ p.clients = o.clients
             /\ p.responses = o.responses /\ (p.pending <=> o.pending) /\ p.timedOut
             /\ ~p.timer
<1> DEFINE p == Expired(o)
<1>1. Append(o.settled, "error") \in Seq({"ok", "error"})
  BY Push DEF OpType
<1>2. /\ p \in OpType
      /\ p.kind = o.kind /\ p.from = o.from /\ p.to = o.to /\ p.room = o.room
      /\ p.stage = o.stage /\ p.count = o.count /\ p.cluster = o.cluster /\ p.expected = o.expected
      /\ p.current = o.current /\ p.clients = o.clients /\ p.responses = o.responses /\ p.settled = Append(o.settled, "error")
  BY <1>1 DEF OpType, Expired
<1>3. (p.local <=> o.local) /\ (p.pending <=> o.pending) /\ p.timedOut /\ ~p.timer
  BY DEF OpType, Expired
<1> HIDE DEF p
<1> QED BY <1>2, <1>3 DEF Same, Keeps, p

\* The cluster is no longer what it was at the call.
Unlike(o) == [o EXCEPT !.cluster = {}]

LEMMA UnlikeOp ==
  ASSUME NEW o \in OpType
  PROVE  LET p == Unlike(o)
         IN  /\ p \in OpType /\ Keeps(o, p) /\ p.settled = o.settled /\ p.expected = o.expected
             /\ p.current = o.current /\ p.clients = o.clients /\ p.responses = o.responses
             /\ p.stage = o.stage /\ p.count = o.count /\ p.cluster = {}
             /\ (p.pending <=> o.pending) /\ (p.timedOut <=> o.timedOut)
             /\ (p.timer <=> o.timer)
<1> DEFINE p == Unlike(o)
<1>1. {} \in SUBSET Servers
  OBVIOUS
<1>2. /\ p \in OpType
      /\ p.kind = o.kind /\ p.from = o.from /\ p.to = o.to /\ p.room = o.room
      /\ p.stage = o.stage /\ p.count = o.count /\ p.cluster = {} /\ p.expected = o.expected
      /\ p.current = o.current /\ p.clients = o.clients /\ p.responses = o.responses /\ p.settled = o.settled
  BY <1>1 DEF OpType, Unlike
<1>3. (p.local <=> o.local) /\ (p.pending <=> o.pending) /\ (p.timedOut <=> o.timedOut) /\ (p.timer <=> o.timer)
  BY DEF OpType, Unlike
<1> HIDE DEF p
<1> QED BY <1>2, <1>3 DEF Keeps, p

\* The count of servers has come back.
Replied(o) == [o EXCEPT !.stage = "done"]

LEMMA RepliedOp ==
  ASSUME NEW o \in OpType
  PROVE  LET p == Replied(o)
         IN  /\ p \in OpType /\ Keeps(o, p) /\ p.settled = o.settled /\ p.expected = o.expected
             /\ p.current = o.current /\ p.clients = o.clients /\ p.responses = o.responses
             /\ p.stage = "done" /\ p.count = o.count /\ p.cluster = o.cluster
             /\ (p.pending <=> o.pending) /\ (p.timedOut <=> o.timedOut)
             /\ (p.timer <=> o.timer)
<1> DEFINE p == Replied(o)
<1>2. /\ p \in OpType
      /\ p.kind = o.kind /\ p.from = o.from /\ p.to = o.to /\ p.room = o.room
      /\ p.stage = "done" /\ p.count = o.count /\ p.cluster = o.cluster /\ p.expected = o.expected
      /\ p.current = o.current /\ p.clients = o.clients /\ p.responses = o.responses /\ p.settled = o.settled
  BY DEF OpType, Replied
<1>3. (p.local <=> o.local) /\ (p.pending <=> o.pending) /\ (p.timedOut <=> o.timedOut) /\ (p.timer <=> o.timer)
  BY DEF OpType, Replied
<1> HIDE DEF p
<1> QED BY <1>2, <1>3 DEF Keeps, p

\* Redis has counted n servers.
Numbered(o, n) == [o EXCEPT !.stage = "counted", !.count = n]

LEMMA NumberedOp ==
  ASSUME NEW o \in OpType, NEW n \in Nat
  PROVE  LET p == Numbered(o, n)
         IN  /\ p \in OpType /\ Keeps(o, p) /\ p.settled = o.settled /\ p.expected = o.expected
             /\ p.current = o.current /\ p.clients = o.clients /\ p.responses = o.responses
             /\ p.stage = "counted" /\ p.count = n /\ p.cluster = o.cluster
             /\ (p.pending <=> o.pending) /\ (p.timedOut <=> o.timedOut)
             /\ (p.timer <=> o.timer)
<1> DEFINE p == Numbered(o, n)
<1>2. /\ p \in OpType
      /\ p.kind = o.kind /\ p.from = o.from /\ p.to = o.to /\ p.room = o.room
      /\ p.stage = "counted" /\ p.count = n /\ p.cluster = o.cluster /\ p.expected = o.expected
      /\ p.current = o.current /\ p.clients = o.clients /\ p.responses = o.responses /\ p.settled = o.settled
  BY DEF OpType, Numbered
<1>3. (p.local <=> o.local) /\ (p.pending <=> o.pending) /\ (p.timedOut <=> o.timedOut) /\ (p.timer <=> o.timer)
  BY DEF OpType, Numbered
<1> HIDE DEF p
<1> QED BY <1>2, <1>3 DEF Keeps, p

Expecting(o, n) == [o EXCEPT !.expected = n]

LEMMA ExpectingOp ==
  ASSUME NEW o \in OpType, NEW n \in Int
  PROVE  LET p == Expecting(o, n)
         IN  /\ p \in OpType /\ Same(o, p) /\ p.settled = o.settled /\ p.expected = n
             /\ p.current = o.current /\ p.clients = o.clients /\ p.responses = o.responses
             /\ (p.pending <=> o.pending) /\ (p.timedOut <=> o.timedOut)
             /\ (p.timer <=> o.timer)
<1> DEFINE p == Expecting(o, n)
<1>2. /\ p \in OpType
      /\ p.kind = o.kind /\ p.from = o.from /\ p.to = o.to /\ p.room = o.room
      /\ p.stage = o.stage /\ p.count = o.count /\ p.cluster = o.cluster /\ p.expected = n
      /\ p.current = o.current /\ p.clients = o.clients /\ p.responses = o.responses /\ p.settled = o.settled
  BY DEF OpType, Expecting
<1>3. (p.local <=> o.local) /\ (p.pending <=> o.pending) /\ (p.timedOut <=> o.timedOut) /\ (p.timer <=> o.timer)
  BY DEF OpType, Expecting
<1> HIDE DEF p
<1> QED BY <1>2, <1>3 DEF Same, Keeps, p

Armed(o) == [o EXCEPT !.timer = TRUE]

LEMMA ArmedOp ==
  ASSUME NEW o \in OpType
  PROVE  LET p == Armed(o)
         IN  /\ p \in OpType /\ Same(o, p) /\ p.settled = o.settled /\ p.expected = o.expected
             /\ p.current = o.current /\ p.clients = o.clients /\ p.responses = o.responses
             /\ (p.pending <=> o.pending) /\ (p.timedOut <=> o.timedOut) /\ p.timer
<1> DEFINE p == Armed(o)
<1>2. /\ p \in OpType
      /\ p.kind = o.kind /\ p.from = o.from /\ p.to = o.to /\ p.room = o.room
      /\ p.stage = o.stage /\ p.count = o.count /\ p.cluster = o.cluster /\ p.expected = o.expected
      /\ p.current = o.current /\ p.clients = o.clients /\ p.responses = o.responses /\ p.settled = o.settled
  BY DEF OpType, Armed
<1>3. (p.local <=> o.local) /\ (p.pending <=> o.pending) /\ (p.timedOut <=> o.timedOut) /\ p.timer
  BY DEF OpType, Armed
<1> HIDE DEF p
<1> QED BY <1>2, <1>3 DEF Same, Keeps, p

Pending(o, v) == [o EXCEPT !.pending = v]

LEMMA PendingOp ==
  ASSUME NEW o \in OpType, NEW v \in BOOLEAN
  PROVE  LET p == Pending(o, v)
         IN  /\ p \in OpType /\ Same(o, p) /\ p.settled = o.settled /\ p.expected = o.expected
             /\ p.current = o.current /\ p.clients = o.clients /\ p.responses = o.responses
             /\ (p.pending <=> v) /\ (p.timedOut <=> o.timedOut) /\ (p.timer <=> o.timer)
<1> DEFINE p == Pending(o, v)
<1>2. /\ p \in OpType
      /\ p.kind = o.kind /\ p.from = o.from /\ p.to = o.to /\ p.room = o.room
      /\ p.stage = o.stage /\ p.count = o.count /\ p.cluster = o.cluster /\ p.expected = o.expected
      /\ p.current = o.current /\ p.clients = o.clients /\ p.responses = o.responses /\ p.settled = o.settled
  BY DEF OpType, Pending
<1>3. (p.local <=> o.local) /\ (p.pending <=> v) /\ (p.timedOut <=> o.timedOut) /\ (p.timer <=> o.timer)
  BY DEF OpType, Pending
<1> HIDE DEF p
<1> QED BY <1>2, <1>3 DEF Same, Keeps, p

Asked(o) == [o EXCEPT !.stage = "asked"]

LEMMA AskedOp ==
  ASSUME NEW o \in OpType
  PROVE  LET p == Asked(o)
         IN  /\ p \in OpType /\ Keeps(o, p) /\ p.settled = o.settled /\ p.expected = o.expected
             /\ p.current = o.current /\ p.clients = o.clients /\ p.responses = o.responses
             /\ p.stage = "asked" /\ p.count = o.count /\ p.cluster = o.cluster
             /\ (p.pending <=> o.pending) /\ (p.timedOut <=> o.timedOut)
             /\ (p.timer <=> o.timer)
<1> DEFINE p == Asked(o)
<1>2. /\ p \in OpType
      /\ p.kind = o.kind /\ p.from = o.from /\ p.to = o.to /\ p.room = o.room
      /\ p.stage = "asked" /\ p.count = o.count /\ p.cluster = o.cluster /\ p.expected = o.expected
      /\ p.current = o.current /\ p.clients = o.clients /\ p.responses = o.responses /\ p.settled = o.settled
  BY DEF OpType, Asked
<1>3. (p.local <=> o.local) /\ (p.pending <=> o.pending) /\ (p.timedOut <=> o.timedOut) /\ (p.timer <=> o.timer)
  BY DEF OpType, Asked
<1> HIDE DEF p
<1> QED BY <1>2, <1>3 DEF Keeps, p

-----------------------------------------------------------------------------
(* What the code does to a call keeps it in order.                         *)

LEMMA Outcomes ==
  /\ \A s \in Seq({"ok", "error"}) : Len(s) = 1 => s \in {<<"ok">>, <<"error">>}
  /\ \A x : Append(<<>>, x) = <<x>> /\ Len(<<x>>) = 1 /\ <<x>> # <<>>
  /\ <<"ok">> # <<"error">> /\ Len(<<>>) = 0
<1>1. ASSUME NEW s \in Seq({"ok", "error"}), Len(s) = 1 PROVE s \in {<<"ok">>, <<"error">>}
  <2>1. s[1] \in {"ok", "error"} /\ s = <<s[1]>>
    BY <1>1
  <2> QED BY <2>1
<1>2. <<"ok">> # <<"error">>
  <2>1. <<"ok">>[1] # <<"error">>[1]
    OBVIOUS
  <2> QED BY <2>1
<1>3. \A x : Append(<<>>, x) = <<x>> /\ Len(<<x>>) = 1 /\ <<x>> # <<>>
  OBVIOUS
<1> QED BY <1>1, <1>2, <1>3

\* An acknowledged emit before checkCompleteness: one that has succeeded has
\* had one more number or one more acknowledgement since.
AckChanged(o) ==
  /\ o.timer => o.settled = <<>>
  /\ ~o.timer => Len(o.settled) = 1
  /\ o.stage # "done" => o.expected = -1
  /\ o.stage = "done" => o.expected = o.count
  /\ o.timedOut <=> o.settled = <<"error">>
  /\ o.settled = <<"ok">> =>
       /\ o.stage = "done" /\ o.current >= o.expected
       /\ o.current = o.expected => Len(o.responses) > o.clients
  /\ o.settled = <<>> => (o.pending <=> ~o.local)

LEMMA CheckOp ==
  ASSUME NEW o \in OpType
  PROVE  LET p == CheckCompleteness(o)
         IN  /\ p \in OpType /\ Same(o, p)
             /\ p.expected = o.expected /\ p.current = o.current /\ p.clients = o.clients
             /\ p.responses = o.responses
             /\ (p.pending <=> o.pending) /\ (p.timedOut <=> o.timedOut)
             /\ Complete(o) => p.settled = Append(o.settled, "ok") /\ ~p.timer
             /\ ~Complete(o) => p = o
<1>1. CASE Complete(o)
  <2>1. CheckCompleteness(o) = Ended(o, "ok")
    BY <1>1 DEF CheckCompleteness, Complete, Ended
  <2> QED BY <1>1, <2>1, EndedOp
<1>2. CASE ~Complete(o)
  <2>1. CheckCompleteness(o) = o
    BY <1>2 DEF CheckCompleteness, Complete
  <2> QED BY <1>2, <2>1 DEF Same, Keeps
<1> QED BY <1>1, <1>2

LEMMA CheckInv ==
  ASSUME NEW o \in OpType, AckChanged(o)
  PROVE  AckInv(CheckCompleteness(o))
<1> DEFINE p == CheckCompleteness(o)
<1>1. /\ Same(o, p)
      /\ p.expected = o.expected /\ p.current = o.current /\ p.clients = o.clients
      /\ p.responses = o.responses
      /\ (p.pending <=> o.pending) /\ (p.timedOut <=> o.timedOut)
      /\ Complete(o) => p.settled = Append(o.settled, "ok") /\ ~p.timer
      /\ ~Complete(o) => p = o
  BY CheckOp
<1>2. CASE ~Complete(o)
  <2>1. o.settled = <<>> => ~o.timedOut
    BY Outcomes DEF AckChanged
  <2>2. o.settled = <<>> /\ o.stage = "done" => ~(o.current = o.expected /\ Len(o.responses) = o.clients)
    BY <1>2, <2>1 DEF Complete
  <2>3. o.settled = <<"ok">> /\ o.current = o.expected => Len(o.responses) >= o.clients
    BY DEF AckChanged, OpType
  <2>4. p = o
    BY <1>1, <1>2
  <2> HIDE DEF p
  <2> QED BY <2>2, <2>3, <2>4 DEF AckChanged, AckInv, p
<1>3. CASE Complete(o)
  <2>1. o.settled \in Seq({"ok", "error"}) /\ o.current \in Nat
    BY DEF OpType
  <2>2. o.settled # <<"ok">> /\ o.settled # <<"error">>
    BY <1>3 DEF AckChanged, Complete, OpType
  <2>3. o.settled = <<>>
    BY <2>1, <2>2, Outcomes DEF AckChanged
  <2>4. o.stage = "done"
    BY <1>3, <2>1 DEF AckChanged, Complete
  <2>5. p.settled = <<"ok">> /\ ~p.timer
    BY <1>1, <1>3, <2>3, Outcomes
  <2>6. p.stage = "done" /\ p.count = o.count
    BY <1>1, <2>4 DEF Same
  <2>7. p.current >= p.expected /\ Len(p.responses) >= p.clients
    BY <1>1, <1>3 DEF Complete, OpType
  <2>8. ~p.timedOut
    BY <1>1, <1>3 DEF Complete
  <2> HIDE DEF p
  <2> QED BY <1>1, <2>4, <2>5, <2>6, <2>7, <2>8, Outcomes DEF AckChanged, AckInv, p
<1> QED BY <1>2, <1>3

LEMMA ClientCountOp ==
  ASSUME NEW o \in OpType, NEW n \in Nat, o.kind = "ack", OpInv(o)
  PROVE  LET p == ClientCount(o, n)
         IN  p \in OpType /\ Same(o, p) /\ OpInv(p)
<1> DEFINE c == Counted(o, n)
<1>1. ClientCount(o, n) = CheckCompleteness(c)
  BY DEF ClientCount, Counted
<1>2. /\ c \in OpType /\ Same(o, c) /\ c.settled = o.settled /\ c.expected = o.expected
      /\ c.current = o.current + 1 /\ c.responses = o.responses
      /\ (c.pending <=> o.pending) /\ (c.timedOut <=> o.timedOut) /\ (c.timer <=> o.timer)
  BY CountedOp
<1> HIDE DEF c
<1>3. AckInv(o)
  BY DEF OpInv
<1>4. o.settled = <<"ok">> => c.current > c.expected
  BY <1>2, <1>3 DEF AckInv, OpType
<1>5. c.current > c.expected => c.current # c.expected /\ c.current >= c.expected
  BY <1>2 DEF OpType
<1>6. AckChanged(c)
  BY <1>2, <1>3, <1>4, <1>5 DEF AckChanged, AckInv, Same, Keeps
<1>7. /\ CheckCompleteness(c) \in OpType /\ Same(c, CheckCompleteness(c))
      /\ AckInv(CheckCompleteness(c))
  BY <1>2, <1>6, CheckOp, CheckInv
<1>8. Same(o, CheckCompleteness(c))
  BY <1>2, <1>7 DEF Same, Keeps
<1> QED BY <1>1, <1>7, <1>8 DEF OpInv, Asks, Same, Keeps

LEMMA ClientAckOp ==
  ASSUME NEW o \in OpType, NEW x \in Process, o.kind = "ack", OpInv(o)
  PROVE  LET p == ClientAck(o, x)
         IN  p \in OpType /\ Same(o, p) /\ OpInv(p)
<1> DEFINE c == Acked(o, x)
<1>1. ClientAck(o, x) = CheckCompleteness(c)
  BY DEF ClientAck, Acked
<1>2. /\ c \in OpType /\ Same(o, c) /\ c.settled = o.settled /\ c.expected = o.expected
      /\ c.current = o.current /\ c.clients = o.clients /\ c.responses = Append(o.responses, x)
      /\ (c.pending <=> o.pending) /\ (c.timedOut <=> o.timedOut) /\ (c.timer <=> o.timer)
  BY AckedOp
<1> HIDE DEF c
<1>3. AckInv(o)
  BY DEF OpInv
<1>4. Len(c.responses) = Len(o.responses) + 1 /\ Len(o.responses) \in Nat
  BY <1>2, Push DEF OpType
<1>5. o.settled = <<"ok">> /\ o.current = o.expected => Len(c.responses) > c.clients
  BY <1>2, <1>3, <1>4 DEF AckInv, OpType
<1>6. AckChanged(c)
  BY <1>2, <1>3, <1>5 DEF AckChanged, AckInv, Same, Keeps
<1>7. /\ CheckCompleteness(c) \in OpType /\ Same(c, CheckCompleteness(c))
      /\ AckInv(CheckCompleteness(c))
  BY <1>2, <1>6, CheckOp, CheckInv
<1>8. Same(o, CheckCompleteness(c))
  BY <1>2, <1>7 DEF Same, Keeps
<1> QED BY <1>1, <1>7, <1>8 DEF OpInv, Asks, Same, Keeps

LEMMA SettleOp ==
  ASSUME NEW o \in OpType, NEW outcome \in {"ok", "error"}
  PROVE  LET p == Settle(o, outcome)
         IN  /\ p \in OpType /\ Same(o, p) /\ p.settled = Append(o.settled, outcome)
             /\ ~p.timer /\ ~p.pending /\ (p.timedOut <=> o.timedOut)
             /\ p.expected = o.expected /\ p.current = o.current /\ p.clients = o.clients
             /\ p.responses = o.responses
<1>1. Settle(o, outcome) = Over(Ended(o, outcome))
  BY DEF Settle, Over, Ended
<1> DEFINE e == Ended(o, outcome)
           p == Over(e)
<1>2. /\ e \in OpType /\ Same(o, e) /\ e.settled = Append(o.settled, outcome)
      /\ ~e.timer /\ (e.timedOut <=> o.timedOut)
      /\ e.expected = o.expected /\ e.current = o.current /\ e.clients = o.clients
      /\ e.responses = o.responses
  BY EndedOp
<1> HIDE DEF e
<1>3. /\ p \in OpType /\ Same(e, p) /\ p.settled = e.settled
      /\ ~p.pending /\ (p.timer <=> e.timer) /\ (p.timedOut <=> e.timedOut)
      /\ p.expected = e.expected /\ p.current = e.current /\ p.clients = e.clients
      /\ p.responses = e.responses
  BY <1>2, OverOp
<1> HIDE DEF p
<1>4. Same(o, p)
  BY <1>2, <1>3 DEF Same, Keeps
<1> QED BY <1>1, <1>2, <1>3, <1>4 DEF p, e

\* A pending request ends, by its timeout or its last answer.
LEMMA SettleInv ==
  ASSUME NEW o \in OpType, Asks(o), o.stage = "done", o.settled = <<>>,
         o.current = Len(o.responses), o.local => o.responses = <<>>, NEW outcome \in {"ok", "error"},
         outcome = "ok" /\ ~o.local => Len(o.responses) = o.count - 1
  PROVE  OpInv(Settle(o, outcome))
<1> DEFINE p == Settle(o, outcome)
<1>1. /\ p \in OpType /\ Same(o, p) /\ p.settled = Append(o.settled, outcome)
      /\ ~p.timer /\ ~p.pending
      /\ p.current = o.current /\ p.responses = o.responses
  BY SettleOp
<1> HIDE DEF p
<1>2. p.settled = <<outcome>> /\ Len(p.settled) = 1
  BY <1>1, Outcomes
<1>3. p.settled = <<"ok">> => outcome = "ok"
  BY <1>2, Outcomes
<1>4. AskInv(p)
  BY <1>1, <1>2, <1>3 DEF AskInv, Same, Keeps
<1> QED BY <1>1, <1>4 DEF OpInv, Asks, Same, Keeps, p

LEMMA ResponseOp ==
  ASSUME NEW o \in OpType, NEW x \in Process, Asks(o), OpInv(o)
  PROVE  LET p == Response(o, x)
         IN  p \in OpType /\ Same(o, p) /\ OpInv(p)
<1> DEFINE a == Answered(o, x)
<1>1. Response(o, x) = IF ~o.pending THEN o
                       ELSE IF a.current = a.expected THEN Settle(a, "ok") ELSE a
  BY DEF Response, Answered
<1>2. /\ a \in OpType /\ Same(o, a) /\ a.settled = o.settled /\ a.expected = o.expected
      /\ a.current = o.current + 1 /\ a.responses = Append(o.responses, x)
      /\ (a.pending <=> o.pending) /\ (a.timer <=> o.timer)
  BY AnsweredOp
<1> HIDE DEF a
<1>3. CASE ~o.pending
  BY <1>1, <1>3 DEF Same, Keeps
<1>4. CASE o.pending
  <2>1. AskInv(o)
    BY DEF OpInv
  <2>2. o.timer /\ o.settled = <<>> /\ ~o.local
    BY <1>4, <2>1 DEF AskInv
  <2>3. o.stage = "done"
    BY <2>1, <2>2 DEF AskInv, OpType
  <2>4. a.current = Len(a.responses) /\ a.expected = o.count - 1
    BY <1>2, <1>4, <2>1, Push DEF AskInv, OpType
  <2>5. Asks(a) /\ a.stage = "done" /\ a.settled = <<>> /\ ~a.local /\ a.count = o.count
    BY <1>2, <2>2, <2>3 DEF Same, Keeps, Asks
  <2>6. CASE a.current = a.expected
    <3>1. OpInv(Settle(a, "ok"))
      BY <1>2, <2>4, <2>5, <2>6, SettleInv
    <3>2. Settle(a, "ok") \in OpType /\ Same(a, Settle(a, "ok"))
      BY <1>2, SettleOp
    <3> QED BY <1>1, <1>2, <1>4, <2>6, <3>1, <3>2 DEF Same, Keeps
  <2>7. CASE a.current # a.expected
    <3>1. AskInv(a)
      BY <1>2, <1>4, <2>2, <2>4, <2>5, <2>7, Outcomes DEF AskInv
    <3>2. OpInv(a)
      BY <2>5, <3>1 DEF OpInv, Asks
    <3> QED BY <1>1, <1>2, <1>4, <2>7, <3>2
  <2> QED BY <2>6, <2>7
<1> QED BY <1>3, <1>4

LEMMA TimeoutOp ==
  ASSUME NEW o \in OpType, o.kind \in {"ack", "fetch", "emit"}, o.kind # "ack", OpInv(o), o.timer
  PROVE  Settle(o, "error") \in OpType /\ Same(o, Settle(o, "error")) /\ OpInv(Settle(o, "error"))
<1>1. Asks(o) /\ AskInv(o)
  BY DEF OpInv, Asks
<1>2. o.settled = <<>> /\ o.stage = "done" /\ o.current = Len(o.responses)
  BY <1>1 DEF AskInv, OpType
<1>3. o.local => o.responses = <<>>
  BY <1>1 DEF AskInv
<1>4. "error" # "ok"
  OBVIOUS
<1> QED BY <1>1, <1>2, <1>3, <1>4, SettleOp, SettleInv

LEMMA AckTimeoutOp ==
  ASSUME NEW o \in OpType, o.kind = "ack", OpInv(o), o.timer
  PROVE  Expired(o) \in OpType /\ Same(o, Expired(o)) /\ OpInv(Expired(o))
<1> DEFINE p == Expired(o)
<1>1. AckInv(o) /\ o.settled = <<>>
  BY DEF OpInv, AckInv
<1>2. /\ p \in OpType /\ Same(o, p) /\ p.settled = Append(o.settled, "error") /\ ~p.timer
      /\ p.timedOut /\ p.expected = o.expected
  BY ExpiredOp
<1> HIDE DEF p
<1>3. p.settled = <<"error">> /\ Len(p.settled) = 1
  BY <1>1, <1>2, Outcomes
<1>4. AckInv(p)
  BY <1>1, <1>2, <1>3, Outcomes DEF AckInv, Same, Keeps
<1> QED BY <1>2, <1>4 DEF OpInv, Asks, Same, Keeps, p

LEMMA AckCleanupOp ==
  ASSUME NEW o \in OpType, o.kind = "ack", OpInv(o), ~o.timer
  PROVE  Over(o) \in OpType /\ Same(o, Over(o)) /\ OpInv(Over(o))
<1> DEFINE p == Over(o)
<1>1. AckInv(o) /\ o.settled # <<>>
  BY Outcomes DEF OpInv, AckInv
<1>2. /\ p \in OpType /\ Same(o, p) /\ p.settled = o.settled /\ p.expected = o.expected
      /\ p.current = o.current /\ p.clients = o.clients /\ p.responses = o.responses
      /\ (p.timedOut <=> o.timedOut) /\ (p.timer <=> o.timer)
  BY OverOp
<1> HIDE DEF p
<1>3. AckInv(p)
  BY <1>1, <1>2 DEF AckInv, Same, Keeps
<1> QED BY <1>2, <1>3 DEF OpInv, Asks, Same, Keeps, p

LEMMA UnlikeInv ==
  ASSUME NEW o \in OpType, OpInv(o)
  PROVE  Unlike(o) \in OpType /\ Keeps(o, Unlike(o)) /\ Unlike(o).stage = o.stage /\ OpInv(Unlike(o))
<1> DEFINE p == Unlike(o)
<1>1. /\ p \in OpType /\ Keeps(o, p) /\ p.settled = o.settled /\ p.expected = o.expected
      /\ p.current = o.current /\ p.clients = o.clients /\ p.responses = o.responses
      /\ p.stage = o.stage /\ p.count = o.count
      /\ (p.pending <=> o.pending) /\ (p.timedOut <=> o.timedOut) /\ (p.timer <=> o.timer)
  BY UnlikeOp
<1> HIDE DEF p
<1>2. /\ AskInv(o) => AskInv(p)
      /\ AckInv(o) => AckInv(p)
  BY <1>1 DEF AskInv, AckInv, Keeps
<1> QED BY <1>1, <1>2 DEF OpInv, Asks, Keeps, p

\* Redis counts once: before, the call was only asked.
LEMMA NumberedInv ==
  ASSUME NEW o \in OpType, OpInv(o), o.stage = "asked", NEW n \in Nat
  PROVE  Numbered(o, n) \in OpType /\ Keeps(o, Numbered(o, n)) /\ OpInv(Numbered(o, n))
<1> DEFINE p == Numbered(o, n)
<1>1. /\ p \in OpType /\ Keeps(o, p) /\ p.settled = o.settled /\ p.expected = o.expected
      /\ p.current = o.current /\ p.clients = o.clients /\ p.responses = o.responses
      /\ p.stage = "counted" /\ p.count = n
      /\ (p.pending <=> o.pending) /\ (p.timedOut <=> o.timedOut) /\ (p.timer <=> o.timer)
  BY NumberedOp
<1> HIDE DEF p
<1>2. /\ AskInv(o) => AskInv(p)
      /\ AckInv(o) => AckInv(p)
  BY <1>1, Outcomes DEF AskInv, AckInv, Keeps
<1> QED BY <1>1, <1>2 DEF OpInv, Asks, Keeps, p

\* The continuation of serverCount().
Continued(o) ==
  LET d == Replied(o)
      alone == o.kind # "ack" /\ o.count = 1 IN
  IF alone THEN Settle(d, "ok")
  ELSE IF o.kind = "ack" THEN CheckCompleteness(Expecting(d, o.count))
  ELSE Pending(Armed(Expecting(d, o.count - 1)), TRUE)

LEMMA ContinuedOp ==
  ASSUME NEW o \in OpType, OpInv(o), o.stage = "counted", o.kind \in {"ack", "fetch", "emit"}
  PROVE  LET p == Continued(o)
         IN  /\ p \in OpType /\ Keeps(o, p) /\ p.stage = "done" /\ OpInv(p)
             /\ p.count = o.count /\ p.cluster = o.cluster
<1> DEFINE d == Replied(o)
<1>1. /\ d \in OpType /\ Keeps(o, d) /\ d.settled = o.settled /\ d.expected = o.expected
      /\ d.current = o.current /\ d.clients = o.clients /\ d.responses = o.responses
      /\ d.stage = "done" /\ d.count = o.count /\ d.cluster = o.cluster
      /\ (d.pending <=> o.pending) /\ (d.timedOut <=> o.timedOut) /\ (d.timer <=> o.timer)
  BY RepliedOp
<1>2. /\ Continued(o) = IF o.kind # "ack" /\ o.count = 1 THEN Settle(d, "ok")
                        ELSE IF o.kind = "ack" THEN CheckCompleteness(Expecting(d, o.count))
                        ELSE Pending(Armed(Expecting(d, o.count - 1)), TRUE)
      /\ o.count \in Nat
  BY DEF Continued, OpType
<1> HIDE DEF d
<1>3. CASE o.kind = "ack"
  <2> DEFINE e == Expecting(d, o.count)
             p == CheckCompleteness(e)
  <2>1. /\ e \in OpType /\ Same(d, e) /\ e.settled = d.settled /\ e.expected = o.count
        /\ e.current = d.current /\ e.clients = d.clients /\ e.responses = d.responses
        /\ (e.pending <=> d.pending) /\ (e.timedOut <=> d.timedOut) /\ (e.timer <=> d.timer)
    BY <1>1, <1>2, ExpectingOp
  <2> HIDE DEF e
  <2>2. AckInv(o) /\ o.settled # <<"ok">>
    BY <1>3 DEF OpInv, AckInv
  <2>3. AckChanged(e)
    BY <1>1, <2>1, <2>2 DEF AckChanged, AckInv, Same, Keeps
  <2>4. p \in OpType /\ Same(e, p) /\ AckInv(p)
    BY <2>1, <2>3, CheckOp, CheckInv
  <2>5. Continued(o) = p
    BY <1>2, <1>3 DEF e
  <2> HIDE DEF p
  <2> QED BY <1>1, <1>3, <2>1, <2>4, <2>5 DEF OpInv, Asks, Same, Keeps
<1>4. CASE Asks(o)
  <2>1. /\ AskInv(o) /\ o.kind # "ack" /\ o.settled = <<>> /\ ~o.local /\ o.responses = <<>>
        /\ o.current = 0 /\ Len(o.responses) = 0
    BY <1>4, Outcomes DEF OpInv, AskInv, Asks
  <2>2. CASE o.count = 1
    <3>1. Continued(o) = Settle(d, "ok")
      BY <1>2, <2>1, <2>2
    <3>2. Asks(d) /\ (d.local <=> o.local)
      BY <1>1, <1>4 DEF Keeps, Asks
    <3>3. OpInv(Settle(d, "ok"))
      BY <1>1, <2>1, <2>2, <3>2, SettleInv
    <3>4. Settle(d, "ok") \in OpType /\ Same(d, Settle(d, "ok"))
      BY <1>1, SettleOp
    <3> QED BY <1>1, <3>1, <3>3, <3>4 DEF Same, Keeps
  <2>3. CASE o.count # 1
    <3> DEFINE e == Expecting(d, o.count - 1)
               a == Armed(e)
               p == Pending(a, TRUE)
    <3>0. Continued(o) = p
      BY <1>2, <2>1, <2>3
    <3>1. /\ e \in OpType /\ Same(d, e) /\ e.settled = d.settled /\ e.expected = o.count - 1
          /\ e.current = d.current /\ e.responses = d.responses
      <4>1. o.count - 1 \in Int
        BY <1>2
      <4> QED BY <1>1, <4>1, ExpectingOp
    <3> HIDE DEF e
    <3>2. /\ a \in OpType /\ Same(e, a) /\ a.settled = e.settled /\ a.expected = e.expected
          /\ a.current = e.current /\ a.responses = e.responses /\ a.timer
      BY <3>1, ArmedOp
    <3> HIDE DEF a
    <3>3. /\ p \in OpType /\ Same(a, p) /\ p.settled = a.settled /\ p.expected = a.expected
          /\ p.current = a.current /\ p.responses = a.responses /\ (p.timer <=> a.timer)
          /\ (p.pending <=> TRUE)
      BY <3>2, PendingOp
    <3> HIDE DEF p
    <3>4. /\ Keeps(o, p) /\ p.stage = "done" /\ p.count = o.count /\ p.cluster = o.cluster
      BY <1>1, <3>1, <3>2, <3>3 DEF Same, Keeps
    <3>5. /\ p.settled = <<>> /\ p.expected = p.count - 1 /\ p.current = 0 /\ p.responses = <<>>
          /\ p.timer /\ p.pending /\ ~p.local /\ p.current # p.expected
      BY <1>1, <1>2, <2>1, <2>3, <3>1, <3>2, <3>3, <3>4 DEF Keeps
    <3>6. AskInv(p)
      BY <3>4, <3>5, Outcomes DEF AskInv
    <3> QED BY <1>4, <3>0, <3>3, <3>4, <3>6 DEF OpInv, Asks, Keeps
  <2> QED BY <2>2, <2>3
<1> QED BY <1>3, <1>4 DEF Asks

\* The calls as they begin.
LEMMA NewCall ==
  ASSUME NEW k \in Kinds, NEW s \in Servers, NEW l \in BOOLEAN,
         NEW r \in Rooms \union {All}, NEW a \in Rooms \union {All}
  PROVE  LET o == NewOp(k, s, l, r, a)
         IN  /\ o \in OpType /\ o.kind = k /\ o.from = s /\ (o.local <=> l) /\ o.stage = "done"
             /\ o.settled = <<>> /\ o.expected = -1 /\ o.current = 0 /\ o.clients = 0
             /\ o.responses = <<>> /\ ~o.pending /\ ~o.timer /\ ~o.timedOut
             /\ o.cluster = (IF s \in On THEN On ELSE {}) /\ o.to = r
<1> DEFINE o == NewOp(k, s, l, r, a)
           c == IF s \in On THEN On ELSE {}
<1>1. c \in SUBSET Servers
  BY DEF On
<1>2. <<>> \in Seq(Process) /\ <<>> \in Seq({"ok", "error"})
  OBVIOUS
<1>3. o = [kind |-> k, from |-> s, local |-> l, to |-> r, room |-> a,
           stage |-> "done", count |-> 0, expected |-> -1, current |-> 0, clients |-> 0,
           responses |-> <<>>, pending |-> FALSE, timer |-> FALSE, timedOut |-> FALSE,
           settled |-> <<>>, cluster |-> c]
  BY DEF NewOp
<1> HIDE DEF c
<1>4. o \in OpType
  BY <1>1, <1>2, <1>3 DEF OpType
<1>5. /\ o.kind = k /\ o.from = s /\ o.stage = "done" /\ o.to = r
      /\ o.settled = <<>> /\ o.expected = -1 /\ o.current = 0 /\ o.clients = 0
      /\ o.responses = <<>> /\ o.cluster = c
  BY <1>3
<1>6. (o.local <=> l) /\ ~o.pending /\ ~o.timer /\ ~o.timedOut
  BY <1>3
<1> HIDE DEF o
<1> QED BY <1>4, <1>5, <1>6 DEF o, c

\* A broadcast, a room operation, or a message that asks for no answer.
LEMMA PlainCall ==
  ASSUME NEW k \in Kinds \ {"ack", "fetch", "emit"}, NEW s \in Servers, NEW l \in BOOLEAN,
         NEW r \in Rooms \union {All}, NEW a \in Rooms \union {All}
  PROVE  OpInv(NewOp(k, s, l, r, a))
<1>1. LET o == NewOp(k, s, l, r, a) IN o.kind = k /\ o.stage = "done" /\ o.settled = <<>> /\ ~o.timer
  BY NewCall
<1> QED BY <1>1 DEF OpInv, Asks

AckCall(s, l, r) == Pending(Armed(Asked(NewOp("ack", s, l, r, All))), ~l)

LEMMA AckCallOp ==
  ASSUME NEW s \in Servers, NEW l \in BOOLEAN, NEW r \in Rooms \union {All}
  PROVE  LET o == AckCall(s, l, r)
         IN  /\ o \in OpType /\ o.kind = "ack" /\ o.from = s /\ (o.local <=> l) /\ o.stage = "asked"
             /\ o.settled = <<>> /\ o.current = 0 /\ o.clients = 0 /\ o.responses = <<>>
             /\ o.cluster = (IF s \in On THEN On ELSE {}) /\ OpInv(o)
<1> DEFINE b == NewOp("ack", s, l, r, All)
           e == Asked(b)
           f == Armed(e)
           o == Pending(f, ~l)
<1>1. /\ b \in OpType /\ b.kind = "ack" /\ b.from = s /\ (b.local <=> l)
      /\ b.settled = <<>> /\ b.expected = -1 /\ b.current = 0 /\ b.clients = 0
      /\ b.responses = <<>> /\ ~b.timedOut /\ b.cluster = IF s \in On THEN On ELSE {}
  BY NewCall DEF Kinds
<1> HIDE DEF b
<1>2. /\ e \in OpType /\ Keeps(b, e) /\ e.settled = b.settled /\ e.expected = b.expected
      /\ e.current = b.current /\ e.clients = b.clients /\ e.responses = b.responses
      /\ e.stage = "asked" /\ e.cluster = b.cluster /\ (e.timedOut <=> b.timedOut)
  BY <1>1, AskedOp
<1> HIDE DEF e
<1>3. /\ f \in OpType /\ Same(e, f) /\ f.settled = e.settled /\ f.expected = e.expected
      /\ f.current = e.current /\ f.clients = e.clients /\ f.responses = e.responses
      /\ f.timer /\ (f.timedOut <=> e.timedOut)
  BY <1>2, ArmedOp
<1> HIDE DEF f
<1>4. /\ o \in OpType /\ Same(f, o) /\ o.settled = f.settled /\ o.expected = f.expected
      /\ o.current = f.current /\ o.clients = f.clients /\ o.responses = f.responses
      /\ (o.pending <=> ~l) /\ (o.timer <=> f.timer) /\ (o.timedOut <=> f.timedOut)
  BY <1>3, PendingOp
<1> HIDE DEF o
<1>5. /\ o.kind = "ack" /\ o.from = s /\ (o.local <=> l) /\ o.stage = "asked"
      /\ o.settled = <<>> /\ o.current = 0 /\ o.clients = 0 /\ o.responses = <<>>
      /\ o.cluster = b.cluster /\ o.expected = -1 /\ o.timer /\ ~o.timedOut
  BY <1>1, <1>2, <1>3, <1>4 DEF Same, Keeps
<1>6. OpInv(o)
  BY <1>4, <1>5, Outcomes DEF OpInv, AckInv, Asks
<1> QED BY <1>1, <1>4, <1>5, <1>6 DEF AckCall, o, f, e, b

AskCall(k, s, l) ==
  LET o == NewOp(k, s, l, All, All) IN IF l THEN Settle(o, "ok") ELSE Asked(o)

LEMMA AskCallOp ==
  ASSUME NEW k \in {"fetch", "emit"}, NEW s \in Servers, NEW l \in BOOLEAN
  PROVE  LET o == AskCall(k, s, l)
         IN  /\ o \in OpType /\ o.kind = k /\ o.from = s /\ (o.local <=> l)
             /\ o.stage = (IF l THEN "done" ELSE "asked")
             /\ o.settled = (IF l THEN <<"ok">> ELSE <<>>) /\ o.responses = <<>>
             /\ o.cluster = (IF s \in On THEN On ELSE {}) /\ OpInv(o)
<1> DEFINE b == NewOp(k, s, l, All, All)
           e == Asked(b)
           f == Settle(b, "ok")
<1>1. /\ b \in OpType /\ b.kind = k /\ b.from = s /\ (b.local <=> l) /\ b.stage = "done"
      /\ b.settled = <<>> /\ b.expected = -1 /\ b.current = 0
      /\ b.responses = <<>> /\ ~b.pending /\ ~b.timer /\ b.cluster = IF s \in On THEN On ELSE {}
  BY NewCall DEF Kinds
<1>2. AskCall(k, s, l) = IF l THEN f ELSE e
  BY DEF AskCall
<1> HIDE DEF b
<1>3. CASE l
  <2>1. /\ f \in OpType /\ Same(b, f) /\ f.settled = Append(b.settled, "ok")
        /\ f.responses = b.responses
    BY <1>1, SettleOp
  <2>2. OpInv(f)
    BY <1>1, <1>3, SettleInv, Outcomes DEF Asks
  <2> HIDE DEF f
  <2> QED BY <1>1, <1>2, <1>3, <2>1, <2>2, Outcomes DEF Same, Keeps
<1>4. CASE ~l
  <2>1. /\ e \in OpType /\ Keeps(b, e) /\ e.settled = b.settled /\ e.expected = b.expected
        /\ e.current = b.current /\ e.responses = b.responses
        /\ e.stage = "asked" /\ e.cluster = b.cluster
        /\ (e.pending <=> b.pending) /\ (e.timer <=> b.timer)
    BY <1>1, AskedOp
  <2> HIDE DEF e
  <2>2. OpInv(e)
    BY <1>1, <1>4, <2>1, Outcomes DEF OpInv, AskInv, Asks, Keeps
  <2> QED BY <1>1, <1>2, <1>4, <2>1, <2>2 DEF Keeps
<1> QED BY <1>3, <1>4

-----------------------------------------------------------------------------
(* The calls and the messages about them.                                  *)

Extends(os, os2) ==
  /\ DOMAIN os \subseteq DOMAIN os2
  /\ \A i \in DOMAIN os :
       Keeps(os[i], os2[i]) /\ (os[i].stage = "done" => os2[i].stage = "done")

\* A call that waits for Redis to count goes on waiting.
StaysAsked(os, os2) == \A i \in DOMAIN os : os[i].stage = "asked" => os2[i].stage = "asked"

LEMMA Refl == ASSUME NEW os PROVE Extends(os, os) /\ StaysAsked(os, os)
BY DEF Extends, StaysAsked, Keeps

LEMMA AppendOps ==
  ASSUME Typed, Ops, NEW o \in OpType, OpInv(o), ops' = Append(ops, o)
  PROVE  /\ ops' \in Seq(OpType) /\ Ops' /\ Extends(ops, ops') /\ StaysAsked(ops, ops')
         /\ NextCall \in Nat /\ NextCall \notin DOMAIN ops
         /\ NextCall \in DOMAIN ops' /\ ops'[NextCall] = o
         /\ \A i \in DOMAIN ops : i \in DOMAIN ops' /\ ops'[i] = ops[i]
         /\ \A i \in DOMAIN ops' : i \in DOMAIN ops \/ i = NextCall
<1>1. /\ ops' \in Seq(OpType) /\ NextCall \notin DOMAIN ops
      /\ NextCall \in DOMAIN ops' /\ ops'[NextCall] = o
      /\ \A i \in DOMAIN ops : i \in DOMAIN ops' /\ ops'[i] = ops[i]
      /\ \A i \in DOMAIN ops' : i \in DOMAIN ops \/ i = NextCall
  BY Push DEF Typed, NextCall
<1>2. NextCall \in Nat
  BY DEF NextCall, Typed
<1>3. Ops'
  BY <1>1 DEF Ops
<1>4. Extends(ops, ops') /\ StaysAsked(ops, ops')
  BY <1>1 DEF Extends, StaysAsked, Keeps
<1> QED BY <1>1, <1>2, <1>3, <1>4

LEMMA ReplaceOp ==
  ASSUME Typed, Ops, NEW i \in DOMAIN ops, NEW o \in OpType, Keeps(ops[i], o), OpInv(o),
         ops[i].stage = "done" => o.stage = "done", ops' = [ops EXCEPT ![i] = o]
  PROVE  /\ ops' \in Seq(OpType) /\ Ops' /\ Extends(ops, ops')
         /\ (ops[i].stage = "asked" => o.stage = "asked") => StaysAsked(ops, ops')
         /\ DOMAIN ops' = DOMAIN ops
         /\ \A j \in DOMAIN ops : ops'[j] = IF j = i THEN o ELSE ops[j]
<1>1. ops' \in Seq(OpType) /\ DOMAIN ops' = DOMAIN ops
  BY DEF Typed
<1>2. \A j \in DOMAIN ops : ops'[j] = IF j = i THEN o ELSE ops[j]
  OBVIOUS
<1>3. Ops'
  BY <1>1, <1>2 DEF Ops
<1>4. Extends(ops, ops')
  BY <1>1, <1>2 DEF Extends, Keeps
<1> QED BY <1>1, <1>2, <1>3, <1>4 DEF StaysAsked

LEMMA MessagesKept ==
  ASSUME NEW os, NEW os2, Extends(os, os2), NEW h, NEW p, NEW b, Messages(os, h, p, b)
  PROVE  Messages(os2, h, p, b)
<1>1. ASSUME NEW s, NEW m, PipeMessage(os, h, s, m) PROVE PipeMessage(os2, h, s, m)
  BY <1>1 DEF PipeMessage, Extends, Keeps, Asks
<1>2. ASSUME NEW s, NEW m, InboxMessage(os, h, s, m) PROVE InboxMessage(os2, h, s, m)
  BY <1>2 DEF InboxMessage, Extends, Keeps, Asks
<1> QED BY <1>1, <1>2 DEF Messages

LEMMA OthersKept ==
  ASSUME NEW os, NEW os2, Extends(os, os2)
  PROVE  /\ \A s, q : Delays(os, s, q) => Delays(os2, s, q)
         /\ \A w, g : Known(os, w, g) => Known(os2, w, g)
<1>1. ASSUME NEW s, NEW q, Delays(os, s, q) PROVE Delays(os2, s, q)
  BY <1>1 DEF Delays, Extends, Keeps
<1>2. ASSUME NEW x, NEW i, Waits(os, x, i) PROVE Waits(os2, x, i)
  BY <1>2 DEF Waits, Extends, Keeps
<1> QED BY <1>1, <1>2 DEF Extends, Known

LEMMA NumsubsKept ==
  ASSUME NEW os, NEW os2, StaysAsked(os, os2), NEW q, Numsubs(os, q),
         \A k \in DOMAIN q : q[k].op \in DOMAIN os
  PROVE  Numsubs(os2, q)
BY DEF Numsubs, StaysAsked

\* The commands and messages under way, p and b, are about the calls os.
Links(os, h, p, b) ==
  /\ p \in [Servers -> Seq(MessageType)] /\ b \in [Servers -> Seq(MessageType)]
  /\ Messages(os, h, p, b)
  /\ \A x \in Servers : Numsubs(os, p[x])

\* What server s may publish: it asks for a number of servers once.
Sendable(os, h, p, s, msgs) ==
  /\ msgs \in Seq(MessageType)
  /\ \A j \in DOMAIN msgs : PipeMessage(os, h, s, msgs[j])
  /\ Numsubs(os, msgs)
  /\ \A j \in DOMAIN msgs : msgs[j].type = "numsub" =>
        \A k \in DOMAIN p[s] : p[s][k].op # msgs[j].op

Sent(p, s, msgs) == [p EXCEPT ![s] = @ \o msgs]

\* The messages msgs are published on the connection of server s.
LEMMA PublishMessages ==
  ASSUME NEW os, NEW h, NEW b, NEW p, Links(os, h, p, b), NEW s \in Servers,
         NEW msgs, Sendable(os, h, p, s, msgs)
  PROVE  Links(os, h, Sent(p, s, msgs), b)
<1> USE DEF Links, Sendable
<1> DEFINE q == p[s]
           r == q \o msgs
           p2 == [p EXCEPT ![s] = r]
<1>1. q \in Seq(MessageType)
  OBVIOUS
<1>2. /\ r \in Seq(MessageType)
      /\ \A k \in DOMAIN q : k \in DOMAIN r /\ r[k] = q[k]
      /\ \A j \in DOMAIN msgs : r[Len(q) + j] = msgs[j]
      /\ \A k \in DOMAIN r : k \in DOMAIN q \/ \E j \in DOMAIN msgs : k = Len(q) + j
  BY <1>1, Joined
<1>3. \A x \in Servers : p2[x] = IF x = s THEN r ELSE p[x]
  OBVIOUS
<1>4. p2 \in [Servers -> Seq(MessageType)]
  <2> HIDE DEF r
  <2> QED BY <1>2
<1>5. \A k \in DOMAIN q : PipeMessage(os, h, s, q[k])
  BY DEF Messages
<1>6. Numsubs(os, q)
  OBVIOUS
<1> HIDE DEF r, q
<1>7. \A k \in DOMAIN r : PipeMessage(os, h, s, r[k])
  BY <1>2, <1>5
<1>8. Numsubs(os, r)
  <2>1. \A k \in DOMAIN r : r[k].type = "numsub" => os[r[k].op].stage = "asked"
    <3> HIDE DEF Links, Sendable
    <3>1. Numsubs(os, msgs)
      BY DEF Sendable
    <3> QED BY <1>2, <1>6, <3>1 DEF Numsubs
  <2>2. ASSUME NEW k \in DOMAIN r, NEW l \in DOMAIN r, r[k].type = "numsub", r[l].type = "numsub",
               r[k].op = r[l].op
        PROVE  k = l
    <3>1. CASE k \in DOMAIN q /\ l \in DOMAIN q
      BY <1>2, <1>6, <2>2, <3>1 DEF Numsubs
    <3>2. CASE k \in DOMAIN q /\ l \notin DOMAIN q
      BY <1>2, <2>2, <3>2 DEF q
    <3>3. CASE k \notin DOMAIN q /\ l \in DOMAIN q
      BY <1>2, <2>2, <3>3 DEF q
    <3>4. CASE k \notin DOMAIN q /\ l \notin DOMAIN q
      BY <1>2, <2>2, <3>4 DEF Numsubs
    <3> QED BY <3>1, <3>2, <3>3, <3>4
  <2> QED BY <2>1, <2>2 DEF Numsubs
<1>9. Messages(os, h, p2, b)
  BY <1>3, <1>7 DEF Messages
<1>10. \A x \in Servers : Numsubs(os, p2[x])
  BY <1>3, <1>8
<1> QED BY <1>4, <1>9, <1>10 DEF r, q, Sent

\* Nobody else asks for the number of servers on behalf of call i.
AskedNowhere(p, i) ==
  \A x \in Servers : \A k \in DOMAIN p[x] : p[x][k].type = "numsub" => p[x][k].op # i

Taken(p, s) == [p EXCEPT ![s] = Tail(@)]

\* Redis takes the first command of a connection.
LEMMA TakeMessage ==
  ASSUME NEW os, NEW h, NEW b, NEW p, Links(os, h, p, b), NEW s \in Servers, p[s] # <<>>
  PROVE  LET m == Head(p[s])
         IN  /\ Links(os, h, Taken(p, s), b)
             /\ m \in MessageType /\ PipeMessage(os, h, s, m)
             /\ m.type = "numsub" => os[m.op].stage = "asked" /\ AskedNowhere(Taken(p, s), m.op)
<1> USE DEF Links
<1> DEFINE q == p[s]
           r == Tail(q)
           m == Head(q)
           p2 == [p EXCEPT ![s] = r]
<1>1. q \in Seq(MessageType) /\ q # <<>>
  OBVIOUS
<1>2. /\ m \in MessageType /\ 1 \in DOMAIN q /\ q[1] = m /\ r \in Seq(MessageType)
      /\ \A k \in DOMAIN r : k + 1 \in DOMAIN q /\ r[k] = q[k + 1]
  BY <1>1, Pop
<1>3. \A x \in Servers : p2[x] = IF x = s THEN r ELSE p[x]
  OBVIOUS
<1>4. p2 \in [Servers -> Seq(MessageType)]
  <2> HIDE DEF r
  <2> QED BY <1>2
<1>5. \A k \in DOMAIN r : k \in Nat /\ k > 0
  <2>1. DOMAIN r = 1 .. Len(r)
    BY <1>2
  <2> QED BY <2>1
<1>6. (\A k \in DOMAIN q : PipeMessage(os, h, s, q[k])) /\ Numsubs(os, q)
  BY DEF Messages
<1>7. p2 = Taken(p, s) /\ m = Head(p[s])
  BY DEF Taken
<1>8. \A x \in Servers : x # s => \A k \in DOMAIN p[x] :
        PipeMessage(os, h, x, p[x][k]) /\ p[x][k].type = "numsub" => os[p[x][k].op].from = x
  BY DEF PipeMessage
<1>9. m.type = "numsub" => os[m.op].from = s
  BY <1>2, <1>6 DEF PipeMessage
<1> HIDE DEF r, q, m
<1>10. Messages(os, h, p2, b)
  BY <1>2, <1>3, <1>6 DEF Messages
<1>11. Numsubs(os, r)
  <2>1. \A k, l \in DOMAIN r : k + 1 = l + 1 => k = l
    BY <1>5
  <2> QED BY <1>2, <1>6, <2>1 DEF Numsubs
<1>12. \A x \in Servers : Numsubs(os, p2[x])
  BY <1>3, <1>11
<1>13. PipeMessage(os, h, s, m)
  BY <1>2, <1>6
<1>14. ASSUME m.type = "numsub"
       PROVE  os[m.op].stage = "asked" /\ AskedNowhere(p2, m.op)
  <2>1. os[m.op].stage = "asked"
    BY <1>2, <1>6, <1>14 DEF Numsubs
  <2>2. ASSUME NEW k \in DOMAIN r, r[k].type = "numsub" PROVE r[k].op # m.op
    <3>1. k + 1 # 1
      BY <1>5
    <3> QED BY <1>2, <1>6, <1>14, <2>2, <3>1 DEF Numsubs
  <2>3. ASSUME NEW x \in Servers, x # s, NEW k \in DOMAIN p[x], p[x][k].type = "numsub"
        PROVE  p[x][k].op # m.op
    BY <1>8, <1>9, <1>14, <2>3 DEF Messages
  <2> QED BY <1>3, <2>1, <2>2, <2>3 DEF AskedNowhere
<1> QED BY <1>4, <1>7, <1>10, <1>12, <1>13, <1>14, <1>2

\* A server reads the first message of its subscription.
LEMMA ReadMessage ==
  ASSUME NEW os, NEW h, NEW p, NEW b, Links(os, h, p, b), NEW s \in Servers, b[s] # <<>>
  PROVE  LET m == Head(b[s])
         IN  Links(os, h, p, Taken(b, s)) /\ m \in MessageType /\ InboxMessage(os, h, s, m)
<1> USE DEF Links
<1> DEFINE q == b[s]
           r == Tail(q)
           m == Head(q)
           b2 == [b EXCEPT ![s] = r]
<1>1. q \in Seq(MessageType) /\ q # <<>>
  OBVIOUS
<1>2. /\ m \in MessageType /\ 1 \in DOMAIN q /\ q[1] = m /\ r \in Seq(MessageType)
      /\ \A k \in DOMAIN r : k + 1 \in DOMAIN q /\ r[k] = q[k + 1]
  BY <1>1, Pop
<1>3. \A x \in Servers : b2[x] = IF x = s THEN r ELSE b[x]
  OBVIOUS
<1>4. b2 \in [Servers -> Seq(MessageType)]
  <2> HIDE DEF r
  <2> QED BY <1>2
<1>5. \A k \in DOMAIN q : InboxMessage(os, h, s, q[k])
  BY DEF Messages
<1>6. b2 = Taken(b, s) /\ m = Head(b[s])
  BY DEF Taken
<1> HIDE DEF r, q, m
<1>7. Messages(os, h, p, b2)
  BY <1>2, <1>3, <1>5 DEF Messages
<1>8. 1 \in DOMAIN q /\ q[1] = m /\ m \in MessageType
  BY <1>2
<1>9. InboxMessage(os, h, s, m)
  BY <1>5, <1>8
<1>10. Links(os, h, p, b2)
  BY <1>4, <1>7
<1> QED BY <1>6, <1>8, <1>9, <1>10

\* A message that Redis routes reaches those it fits.
Routed(b, to, m) == [t \in Servers |-> IF t \in to THEN Append(b[t], m) ELSE b[t]]

LEMMA RouteMessage ==
  ASSUME NEW os, NEW h, NEW p, NEW b, Links(os, h, p, b), NEW m \in MessageType,
         NEW to \in SUBSET Servers, \A t \in to : InboxMessage(os, h, t, m)
  PROVE  Links(os, h, p, Routed(b, to, m))
<1> USE DEF Links, Routed
<1> DEFINE b2 == [t \in Servers |-> IF t \in to THEN Append(b[t], m) ELSE b[t]]
<1>1. \A t \in Servers : Append(b[t], m) \in Seq(MessageType)
  BY Push
<1>2. b2 \in [Servers -> Seq(MessageType)]
  BY <1>1
<1>3. ASSUME NEW t \in Servers, NEW k \in DOMAIN b2[t] PROVE InboxMessage(os, h, t, b2[t][k])
  <2>1. CASE t \in to
    BY <1>3, <2>1, Push DEF Messages
  <2>2. CASE t \notin to
    BY <1>3, <2>2 DEF Messages
  <2> QED BY <2>1, <2>2
<1> QED BY <1>2, <1>3 DEF Messages

-----------------------------------------------------------------------------
(* What a server does with its own sockets.                                *)

\* Whom call o reaches on server s.
Heard(s, o) == Reached(s, o) \union (IF o.kind \in {"emit", "tell"} THEN {s} ELSE {})

LEMMA ReachedClients ==
  ASSUME Typed, NEW s, NEW o
  PROVE  /\ Reached(s, o) \subseteq Clients /\ Cardinality(Reached(s, o)) \in Nat
         /\ \A c \in Reached(s, o) : home[c] = s
<1>1. Reached(s, o) \subseteq Clients /\ \A c \in Reached(s, o) : home[c] = s
  BY DEF Reached, Typed
<1>2. IsFiniteSet(Reached(s, o))
  BY <1>1, ClusterAssumption, FS_Subset
<1> QED BY <1>1, <1>2, FS_CardinalityType

LEMMA Applied ==
  ASSUME Typed, NEW s \in Servers, NEW i \in Nat, NEW o, Apply(s, i, o)
  PROVE  /\ alive' \subseteq Clients /\ alive' \subseteq alive /\ log' \in [Process -> Seq(Nat)]
         /\ \A x \in Process : log'[x] = IF x \in Heard(s, o) THEN Append(log[x], i) ELSE log[x]
         /\ waiting' = IF o.kind \in {"ack", "emit"} THEN waiting \union (Heard(s, o) \X {i})
                       ELSE waiting
         /\ waiting' \subseteq Process \X Nat
<1> DEFINE H == Heard(s, o)
<1>1. H = Reached(s, o) \union IF o.kind \in {"emit", "tell"} THEN {s} ELSE {}
  BY DEF Heard
<1>2. H \subseteq Process
  BY <1>1, ReachedClients DEF Process
<1>3. /\ log' = [x \in Clients \union Servers |-> IF x \in H THEN Append(log[x], i) ELSE log[x]]
      /\ waiting' = IF o.kind \in {"ack", "emit"} THEN waiting \union (H \X {i}) ELSE waiting
      /\ alive' = IF o.kind = "disconnect" THEN alive \ Reached(s, o) ELSE alive
  BY <1>1 DEF Apply
<1> HIDE DEF H
<1>4. \A x \in Process : Append(log[x], i) \in Seq(Nat) /\ log[x] \in Seq(Nat)
  BY Push DEF Typed
<1>5. log' \in [Process -> Seq(Nat)] /\ \A x \in Process : log'[x] = IF x \in H THEN Append(log[x], i) ELSE log[x]
  BY <1>3, <1>4 DEF Process
<1>6. waiting' \subseteq Process \X Nat
  BY <1>2, <1>3 DEF Typed
<1> QED BY <1>3, <1>5, <1>6 DEF Typed, H

LEMMA AppliedKnown ==
  ASSUME Typed, NEW os, Known(os, waiting, log), NEW s \in Servers, NEW i \in DOMAIN os, i \in Nat,
         Apply(s, i, os[i]),
         os[i].kind = "emit" => s # os[i].from /\ os[i].stage = "done" /\ ~os[i].local
  PROVE  Known(os, waiting', log')
<1> DEFINE H == Heard(s, os[i])
<1>1. /\ \A x \in Process : log'[x] = IF x \in H THEN Append(log[x], i) ELSE log[x]
      /\ waiting' = IF os[i].kind \in {"ack", "emit"} THEN waiting \union (H \X {i}) ELSE waiting
  BY Applied
<1>2. \A x \in H : /\ os[i].kind = "ack" => x \in Clients
                   /\ os[i].kind = "emit" => x = s
  BY ReachedClients DEF Heard, Reached
<1> HIDE DEF H
<1>3. ASSUME NEW x \in Process, NEW j \in Nat, <<x, j>> \in waiting' PROVE Waits(os, x, j)
  <2>1. CASE <<x, j>> \in waiting
    BY <2>1 DEF Known
  <2>2. CASE os[i].kind \in {"ack", "emit"} /\ x \in H /\ j = i
    BY <1>2, <2>2 DEF Waits
  <2> QED BY <1>1, <1>3, <2>1, <2>2
<1>4. ASSUME NEW x \in Process, NEW k \in DOMAIN log'[x] PROVE log'[x][k] \in DOMAIN os
  <2>1. log[x] \in Seq(Nat) /\ \A l \in DOMAIN log[x] : log[x][l] \in DOMAIN os
    BY DEF Typed, Known
  <2>2. CASE x \in H
    <3>1. log'[x] = Append(log[x], i)
      BY <1>1, <2>2
    <3>2. /\ \A l \in DOMAIN log[x] : Append(log[x], i)[l] = log[x][l]
          /\ \A l \in DOMAIN Append(log[x], i) : l \in DOMAIN log[x] \/ l = Len(log[x]) + 1
          /\ Append(log[x], i)[Len(log[x]) + 1] = i
      BY <2>1, Push
    <3> QED BY <1>4, <2>1, <3>1, <3>2
  <2>3. CASE x \notin H
    BY <1>1, <1>4, <2>1, <2>3
  <2> QED BY <2>2, <2>3
<1> QED BY <1>3, <1>4 DEF Known

-----------------------------------------------------------------------------
(* The steps.                                                              *)

\* What is under way and known is about the calls os2 too.
LEMMA ReferencesKept ==
  ASSUME IInv, NEW os2, Extends(ops, os2), StaysAsked(ops, os2)
  PROVE  /\ Links(os2, home, pipe, inbox) /\ Known(os2, waiting, log)
         /\ \A s \in Servers : Delays(os2, s, delayed[s])
<1>1. \A s \in Servers : \A k \in DOMAIN pipe[s] : pipe[s][k].op \in DOMAIN ops
  BY DEF IInv, References, Messages, PipeMessage
<1>2. \A s \in Servers : Numsubs(os2, pipe[s])
  BY <1>1, NumsubsKept DEF IInv, References
<1>3. Messages(os2, home, pipe, inbox)
  BY MessagesKept DEF IInv, References
<1>4. Known(os2, waiting, log) /\ \A s \in Servers : Delays(os2, s, delayed[s])
  BY OthersKept DEF IInv, References
<1>5. pipe \in [Servers -> Seq(MessageType)] /\ inbox \in [Servers -> Seq(MessageType)]
  BY DEF IInv, Typed
<1> QED BY <1>2, <1>3, <1>4, <1>5 DEF Links

\* The parts of the invariant, put together after a step.
LEMMA Together ==
  ASSUME ops' \in Seq(OpType), Ops', Links(ops', home', pipe', inbox'), Known(ops', waiting', log'),
         delayed' \in [Servers -> Seq(Nat)], \A s \in Servers : Delays(ops', s, delayed'[s]),
         sub' \in [Servers -> {"off", "pattern", "on", "gone"}],
         home' \in [Clients -> Servers], alive' \subseteq Clients,
         waiting' \subseteq Process \X Nat, log' \in [Process -> Seq(Nat)]
  PROVE  IInv'
<1>1. pipe' \in [Servers -> Seq(MessageType)] /\ inbox' \in [Servers -> Seq(MessageType)]
  BY DEF Links
<1>2. Typed'
  BY <1>1 DEF Typed
<1>3. References'
  BY DEF References, Links
<1> QED BY <1>2, <1>3 DEF IInv

\* A step that only changes one call.
LEMMA CallChanges ==
  ASSUME IInv, NEW i \in DOMAIN ops, NEW o \in OpType, Same(ops[i], o), OpInv(o),
         ops' = [ops EXCEPT ![i] = o],
         UNCHANGED <<sub, pipe, inbox, delayed, home, alive, waiting, log>>
  PROVE  IInv'
<1>1. ops' \in Seq(OpType) /\ Ops' /\ Extends(ops, ops') /\ StaysAsked(ops, ops')
  BY ReplaceOp DEF IInv, Same
<1>2. /\ Links(ops', home, pipe, inbox) /\ Known(ops', waiting, log)
      /\ \A s \in Servers : Delays(ops', s, delayed[s])
  BY <1>1, ReferencesKept
<1> QED BY <1>1, <1>2, Together DEF IInv, Typed

LEMMA RequestMessage ==
  ASSUME NEW s \in Servers, NEW i \in Nat
  PROVE  /\ Request(s, i) \in MessageType /\ Numsub(s, i) \in MessageType
         /\ Request(s, i).type = "request" /\ Request(s, i).op = i /\ Request(s, i).by = s
         /\ Numsub(s, i).type = "numsub" /\ Numsub(s, i).op = i /\ Numsub(s, i).by = s
         /\ Request(s, i).n = 0
BY DEF Request, Numsub, Message, MessageType, Process

\* A call published with a request, if r, and a question for the number of
\* servers, if q.
CallMessages(s, r, q) ==
  CASE r /\ q -> <<Request(s, NextCall)>> \o <<Numsub(s, NextCall)>>
    [] r /\ ~q -> <<Request(s, NextCall)>>
    [] ~r /\ q -> <<Numsub(s, NextCall)>>
    [] ~r /\ ~q -> <<>>

LEMMA CallPublished ==
  ASSUME IInv, NEW s \in Servers, NEW o \in OpType, OpInv(o), o.from = s,
         NEW r \in BOOLEAN, NEW q \in BOOLEAN, r => ~o.local /\ (Asks(o) => o.stage = "done"),
         q => o.stage = "asked", ops' = Append(ops, o), pipe' = Published(s, CallMessages(s, r, q))
  PROVE  /\ ops' \in Seq(OpType) /\ Ops' /\ Extends(ops, ops')
         /\ Links(ops', home, pipe', inbox) /\ Known(ops', waiting, log)
         /\ \A x \in Servers : Delays(ops', x, delayed[x])
         /\ NextCall \in DOMAIN ops' /\ ops'[NextCall] = o /\ NextCall \in Nat
<1>1. /\ ops' \in Seq(OpType) /\ Ops' /\ Extends(ops, ops') /\ StaysAsked(ops, ops')
      /\ NextCall \in Nat /\ NextCall \notin DOMAIN ops
      /\ NextCall \in DOMAIN ops' /\ ops'[NextCall] = o
  BY AppendOps DEF IInv
<1>2. /\ Links(ops', home, pipe, inbox) /\ Known(ops', waiting, log)
      /\ \A x \in Servers : Delays(ops', x, delayed[x])
  BY <1>1, ReferencesKept
<1> DEFINE i == NextCall
           m == Request(s, i)
           n == Numsub(s, i)
           msgs == CallMessages(s, r, q)
<1>3. /\ m \in MessageType /\ n \in MessageType /\ m.type = "request" /\ m.op = i /\ m.by = s
      /\ n.type = "numsub" /\ n.op = i /\ n.by = s
  BY <1>1, RequestMessage
<1>4. msgs = CASE r /\ q -> <<m>> \o <<n>> [] r /\ ~q -> <<m>> [] ~r /\ q -> <<n>> [] ~r /\ ~q -> <<>>
  BY DEF CallMessages
<1> HIDE DEF m, n, msgs, i
<1>5. /\ msgs \in Seq(MessageType)
      /\ \A j \in DOMAIN msgs : (r /\ msgs[j] = m) \/ (q /\ msgs[j] = n)
      /\ \A j, k \in DOMAIN msgs : msgs[j] = n /\ msgs[k] = n /\ m # n => j = k
  <2>1. CASE r /\ q
    <3>1. msgs = <<m, n>>
      BY <1>3, <1>4, <2>1, Pair
    <3> QED BY <1>3, <2>1, <3>1
  <2>2. CASE r /\ ~q
    <3>1. msgs = <<m>>
      BY <1>4, <2>2
    <3> QED BY <1>3, <2>2, <3>1
  <2>3. CASE ~r /\ q
    <3>1. msgs = <<n>>
      BY <1>4, <2>3
    <3> QED BY <1>3, <2>3, <3>1
  <2>4. CASE ~r /\ ~q
    <3>1. msgs = <<>>
      BY <1>4, <2>4
    <3> QED BY <3>1
  <2> QED BY <2>1, <2>2, <2>3, <2>4
<1>6. /\ r => PipeMessage(ops', home, s, m)
      /\ q => PipeMessage(ops', home, s, n) /\ ops'[n.op].stage = "asked"
  BY <1>1, <1>3 DEF PipeMessage, i
<1>7. \A j \in DOMAIN msgs : PipeMessage(ops', home, s, msgs[j])
  BY <1>5, <1>6
<1>8. Numsubs(ops', msgs)
  BY <1>3, <1>5, <1>6 DEF Numsubs
<1>9. \A k \in DOMAIN pipe[s] : pipe[s][k].op # i
  BY <1>1 DEF IInv, References, Messages, PipeMessage, i
<1>10. \A j \in DOMAIN msgs : msgs[j].type = "numsub" => msgs[j].op = i
  BY <1>3, <1>5
<1>11. pipe \in [Servers -> Seq(MessageType)] /\ pipe' = Sent(pipe, s, msgs)
  BY DEF IInv, Typed, Published, Sent, msgs
<1>13. \A j \in DOMAIN msgs : msgs[j].type = "numsub" =>
          \A k \in DOMAIN pipe[s] : pipe[s][k].op # msgs[j].op
  BY <1>9, <1>10
<1>14. msgs \in Seq(MessageType)
  BY <1>5
<1>15. Sendable(ops', home, pipe, s, msgs)
  BY <1>7, <1>8, <1>13, <1>14 DEF Sendable
<1> HIDE DEF msgs
<1>16. Links(ops', home, pipe', inbox)
  BY <1>2, <1>11, <1>15, PublishMessages
<1> QED BY <1>1, <1>2, <1>16 DEF i

\* Whose delayed broadcasts d are, on every server.
Delayed(os, d) ==
  d \in [Servers -> Seq(Nat)] /\ \A s \in Servers : Delays(os, s, d[s])

Later(d, s, i) == [d EXCEPT ![s] = Append(@, i)]

LEMMA DelayedAgain ==
  ASSUME NEW os, NEW d, Delayed(os, d), NEW s \in Servers, NEW i \in DOMAIN os, i \in Nat,
         os[i].kind \in {"broadcast", "ack"}, os[i].from = s
  PROVE  Delayed(os, Later(d, s, i))
<1> DEFINE q == d[s]
           r == Append(q, i)
<1>1. q \in Seq(Nat) /\ Delays(os, s, q)
  BY DEF Delayed
<1>2. r \in Seq(Nat) /\ \A k \in DOMAIN r : (k \in DOMAIN q /\ r[k] = q[k]) \/ r[k] = i
  BY <1>1, Push
<1> HIDE DEF r, q
<1>3. Delays(os, s, r)
  BY <1>1, <1>2 DEF Delays
<1>4. Later(d, s, i) = [d EXCEPT ![s] = r]
  BY DEF Later, r, q
<1> QED BY <1>2, <1>3, <1>4 DEF Delayed

LEMMA DelayedLess ==
  ASSUME NEW os, NEW d, Delayed(os, d), NEW s \in Servers, d[s] # <<>>
  PROVE  LET i == Head(d[s])
         IN  /\ Delayed(os, Taken(d, s))
             /\ i \in Nat /\ i \in DOMAIN os /\ os[i].kind \in {"broadcast", "ack"} /\ os[i].from = s
<1> DEFINE q == d[s]
           r == Tail(q)
           i == Head(q)
<1>1. q \in Seq(Nat) /\ Delays(os, s, q) /\ q # <<>>
  BY DEF Delayed
<1>2. /\ i \in Nat /\ 1 \in DOMAIN q /\ q[1] = i /\ r \in Seq(Nat)
      /\ \A k \in DOMAIN r : k + 1 \in DOMAIN q /\ r[k] = q[k + 1]
  BY <1>1, Pop
<1>3. Taken(d, s) = [d EXCEPT ![s] = r] /\ i = Head(d[s])
  BY DEF Taken
<1> HIDE DEF r, q, i
<1>4. Delays(os, s, r)
  BY <1>1, <1>2 DEF Delays
<1>5. Delayed(os, Taken(d, s))
  BY <1>2, <1>3, <1>4 DEF Delayed
<1>6. i \in DOMAIN os /\ os[i].kind \in {"broadcast", "ack"} /\ os[i].from = s
  BY <1>1, <1>2 DEF Delays
<1> QED BY <1>2, <1>3, <1>5, <1>6

LEMMA DoBroadcast ==
  ASSUME IInv, NEW s \in Servers, NEW l \in BOOLEAN, NEW r \in Rooms \union {All}, Broadcast(s, l, r)
  PROVE  IInv'
<1> DEFINE o == NewOp("broadcast", s, l, r, All)
<1>1. o \in OpType /\ o.kind = "broadcast" /\ o.from = s /\ (o.local <=> l) /\ OpInv(o)
  BY NewCall, PlainCall DEF Kinds
<1>2. ops' = Append(ops, o) /\ pipe' = Published(s, Requested(s, l))
  BY DEF Broadcast
<1> HIDE DEF o
<1>3. Requested(s, l) = CallMessages(s, ~l, FALSE)
  BY DEF Requested, CallMessages
<1>4. ~Asks(o)
  BY <1>1 DEF Asks
<1>5. /\ ops' \in Seq(OpType) /\ Ops' /\ Links(ops', home, pipe', inbox)
      /\ Known(ops', waiting, log) /\ \A x \in Servers : Delays(ops', x, delayed[x])
      /\ NextCall \in DOMAIN ops' /\ ops'[NextCall] = o /\ NextCall \in Nat
  BY <1>1, <1>2, <1>3, <1>4, CallPublished
<1>6. delayed' = Later(delayed, s, NextCall) /\ UNCHANGED <<sub, inbox, home, alive, waiting, log>>
  BY DEF Broadcast, Later, fixed, sockets
<1>7. Delayed(ops', delayed')
  BY <1>1, <1>5, <1>6, DelayedAgain DEF IInv, Typed, Delayed
<1> QED BY <1>5, <1>6, <1>7, Together DEF IInv, Typed, Delayed

LEMMA DoBroadcastWithAck ==
  ASSUME IInv, NEW s \in Servers, NEW l \in BOOLEAN, NEW r \in Rooms \union {All},
         BroadcastWithAck(s, l, r)
  PROVE  IInv'
<1> DEFINE o == AckCall(s, l, r)
<1>1. o \in OpType /\ o.kind = "ack" /\ o.from = s /\ (o.local <=> l) /\ o.stage = "asked" /\ OpInv(o)
  BY AckCallOp
<1>2. ops' = Append(ops, o) /\ pipe' = Published(s, Requested(s, l) \o <<Numsub(s, NextCall)>>)
  BY DEF BroadcastWithAck, AckCall, Asked, Armed, Pending
<1> HIDE DEF o
<1>3. Requested(s, l) \o <<Numsub(s, NextCall)>> = CallMessages(s, ~l, TRUE)
  <2>1. <<Numsub(s, NextCall)>> \in Seq({Numsub(s, NextCall)})
    OBVIOUS
  <2>2. <<>> \o <<Numsub(s, NextCall)>> = <<Numsub(s, NextCall)>>
    BY <2>1, ConcatEmptySeq
  <2> QED BY <2>2 DEF Requested, CallMessages
<1>4. ~Asks(o)
  BY <1>1 DEF Asks
<1>5. /\ ops' \in Seq(OpType) /\ Ops' /\ Links(ops', home, pipe', inbox)
      /\ Known(ops', waiting, log) /\ \A x \in Servers : Delays(ops', x, delayed[x])
      /\ NextCall \in DOMAIN ops' /\ ops'[NextCall] = o /\ NextCall \in Nat
  BY <1>1, <1>2, <1>3, <1>4, CallPublished
<1>6. delayed' = Later(delayed, s, NextCall) /\ UNCHANGED <<sub, inbox, home, alive, waiting, log>>
  BY DEF BroadcastWithAck, Later, fixed, sockets
<1>7. Delayed(ops', delayed')
  BY <1>1, <1>5, <1>6, DelayedAgain DEF IInv, Typed, Delayed
<1> QED BY <1>5, <1>6, <1>7, Together DEF IInv, Typed, Delayed

LEMMA DoRoomCall ==
  ASSUME IInv, NEW s \in Servers, NEW l \in BOOLEAN, NEW r \in Rooms \union {All},
         NEW k \in {"join", "leave", "disconnect"}, NEW a \in Rooms \union {All},
         RoomCall(s, k, l, r, a)
  PROVE  IInv'
<1> DEFINE o == NewOp(k, s, l, r, a)
<1>0. k \in Kinds /\ k \in Kinds \ {"ack", "fetch", "emit"}
  BY DEF Kinds
<1>1. o \in OpType /\ o.kind = k /\ o.from = s /\ (o.local <=> l) /\ OpInv(o)
  BY <1>0, NewCall, PlainCall
<1>2. /\ ops' = Append(ops, o) /\ pipe' = Published(s, Requested(s, l)) /\ Apply(s, NextCall, o)
      /\ UNCHANGED <<sub, inbox, home, delayed>>
  BY DEF RoomCall, fixed
<1> HIDE DEF o
<1>3. Requested(s, l) = CallMessages(s, ~l, FALSE)
  BY DEF Requested, CallMessages
<1>4. ~Asks(o) /\ o.kind # "ack" /\ o.kind # "emit"
  BY <1>1 DEF Asks
<1>5. /\ ops' \in Seq(OpType) /\ Ops' /\ Links(ops', home, pipe', inbox)
      /\ Known(ops', waiting, log) /\ \A x \in Servers : Delays(ops', x, delayed[x])
      /\ NextCall \in DOMAIN ops' /\ ops'[NextCall] = o /\ NextCall \in Nat
  BY <1>1, <1>2, <1>3, <1>4, CallPublished
<1>6. Typed
  BY DEF IInv
<1>7. Known(ops', waiting', log')
  BY <1>2, <1>4, <1>5, <1>6, AppliedKnown
<1>8. alive' \subseteq Clients /\ log' \in [Process -> Seq(Nat)] /\ waiting' \subseteq Process \X Nat
  BY <1>2, <1>5, <1>6, Applied
<1> QED BY <1>2, <1>5, <1>6, <1>7, <1>8, Together DEF Typed

LEMMA DoAsk ==
  ASSUME IInv, NEW s \in Servers, NEW k \in {"fetch", "emit"}, NEW l \in BOOLEAN, Ask(s, k, l)
  PROVE  IInv'
<1> DEFINE o == AskCall(k, s, l)
<1>1. o \in OpType /\ o.from = s /\ (~l => o.stage = "asked") /\ OpInv(o)
  BY AskCallOp
<1>2. /\ ops' = Append(ops, o)
      /\ pipe' = Published(s, IF l THEN <<>> ELSE <<Numsub(s, NextCall)>>)
      /\ UNCHANGED <<sub, inbox, home, delayed, alive, waiting, log>>
  BY DEF Ask, AskCall, Asked, fixed, sockets
<1> HIDE DEF o
<1>3. (IF l THEN <<>> ELSE <<Numsub(s, NextCall)>>) = CallMessages(s, FALSE, ~l)
  BY DEF CallMessages
<1>4. /\ ops' \in Seq(OpType) /\ Ops' /\ Links(ops', home, pipe', inbox)
      /\ Known(ops', waiting, log) /\ \A x \in Servers : Delays(ops', x, delayed[x])
  BY <1>1, <1>2, <1>3, CallPublished
<1> QED BY <1>2, <1>4, Together DEF IInv, Typed

LEMMA DoTell ==
  ASSUME IInv, NEW s \in Servers, Tell(s)
  PROVE  IInv'
<1> DEFINE o == NewOp("tell", s, FALSE, All, All)
<1>0. "tell" \in Kinds /\ "tell" \in Kinds \ {"ack", "fetch", "emit"} /\ FALSE \in BOOLEAN
      /\ All \in Rooms \union {All}
  BY DEF Kinds
<1>1. o \in OpType /\ o.kind = "tell" /\ o.from = s /\ ~o.local /\ OpInv(o)
  <2>1. \A l \in BOOLEAN : LET c == NewOp("tell", s, l, All, All)
                           IN  c \in OpType /\ c.kind = "tell" /\ c.from = s /\ (c.local <=> l)
    BY <1>0, NewCall
  <2>2. OpInv(NewOp("tell", s, FALSE, All, All))
    BY <1>0, PlainCall
  <2> QED BY <2>1, <2>2
<1>2. /\ ops' = Append(ops, o) /\ pipe' = Published(s, Requested(s, FALSE))
      /\ UNCHANGED <<sub, inbox, home, delayed, alive, waiting, log>>
  BY DEF Tell, fixed, sockets
<1> HIDE DEF o
<1>3. Requested(s, FALSE) = CallMessages(s, TRUE, FALSE)
  BY DEF Requested, CallMessages
<1>4. ~Asks(o)
  BY <1>1 DEF Asks
<1>5. /\ ops' \in Seq(OpType) /\ Ops' /\ Links(ops', home, pipe', inbox)
      /\ Known(ops', waiting, log) /\ \A x \in Servers : Delays(ops', x, delayed[x])
  BY <1>1, <1>2, <1>3, <1>4, CallPublished
<1> QED BY <1>2, <1>5, Together DEF IInv, Typed

\* Messages published about calls that go on as they were, none of them a NUMSUB.
LEMMA PublishResponses ==
  ASSUME NEW os, NEW h, NEW b, NEW p, Links(os, h, p, b), NEW s \in Servers,
         NEW msgs \in Seq(MessageType),
         \A j \in DOMAIN msgs : PipeMessage(os, h, s, msgs[j]) /\ msgs[j].type # "numsub"
  PROVE  Links(os, h, Sent(p, s, msgs), b)
<1>1. Sendable(os, h, p, s, msgs)
  BY DEF Sendable, Numsubs
<1> QED BY <1>1, PublishMessages

LEMMA SendNothing ==
  ASSUME NEW p \in [Servers -> Seq(MessageType)], NEW s \in Servers
  PROVE  Sent(p, s, <<>>) = p
<1>1. p[s] \o <<>> = p[s]
  BY ConcatEmptySeq
<1> QED BY <1>1 DEF Sent

LEMMA DoCountReply ==
  ASSUME IInv, NEW i \in DOMAIN ops, CountReply(i)
  PROVE  IInv'
<1> DEFINE o == ops[i]
           p == Continued(o)
           alone == o.kind # "ack" /\ o.count = 1
           msgs == IF alone \/ o.kind = "ack" THEN <<>> ELSE <<Request(o.from, i)>>
<1>1. o \in OpType /\ OpInv(o) /\ o.stage = "counted" /\ i \in Nat /\ o.from \in Servers
  <2>1. o \in OpType /\ OpInv(o) /\ i \in Nat
    BY DEF IInv, Typed, Ops
  <2>2. o.from \in Servers
    BY <2>1 DEF OpType
  <2> QED BY <2>1, <2>2 DEF CountReply
<1>2. o.kind \in {"ack", "fetch", "emit"}
  BY <1>1 DEF OpInv
<1>3. p \in OpType /\ Keeps(o, p) /\ p.stage = "done" /\ OpInv(p)
  BY <1>1, <1>2, ContinuedOp
<1>4. ops' = [ops EXCEPT ![i] = p]
  BY DEF CountReply, Continued, Replied, Expecting, Armed, Pending
<1>5. /\ pipe' = Sent(pipe, o.from, msgs)
      /\ UNCHANGED <<sub, inbox, home, delayed, alive, waiting, log>>
  BY DEF CountReply, Published, Sent, fixed, sockets
<1> HIDE DEF p
<1>6. /\ ops' \in Seq(OpType) /\ Ops' /\ Extends(ops, ops') /\ StaysAsked(ops, ops')
      /\ DOMAIN ops' = DOMAIN ops /\ ops'[i] = p
  BY <1>1, <1>3, <1>4, ReplaceOp DEF IInv
<1>7. /\ Links(ops', home, pipe, inbox) /\ Known(ops', waiting, log)
      /\ \A x \in Servers : Delays(ops', x, delayed[x])
  BY <1>6, ReferencesKept
<1> DEFINE m == Request(o.from, i)
<1>8. m \in MessageType /\ m.type = "request" /\ m.op = i /\ m.by = o.from
  BY <1>1, RequestMessage
<1> HIDE DEF m
<1>9. o.kind # "ack" => Asks(o) /\ AskInv(o) /\ ~o.local
  BY <1>1, <1>2 DEF OpInv, AskInv, Asks
<1>10. o.kind # "ack" => PipeMessage(ops', home, o.from, m)
  BY <1>3, <1>6, <1>8, <1>9 DEF PipeMessage, Keeps, Asks
<1>11. msgs = IF alone \/ o.kind = "ack" THEN <<>> ELSE <<m>>
  BY DEF m
<1> HIDE DEF msgs
<1>12. msgs \in Seq(MessageType) /\ \A j \in DOMAIN msgs : msgs[j] = m /\ o.kind # "ack"
  BY <1>8, <1>11
<1>13. Links(ops', home, pipe', inbox)
  BY <1>1, <1>5, <1>7, <1>8, <1>10, <1>12, PublishResponses
<1> QED BY <1>5, <1>6, <1>7, <1>13, Together DEF IInv, Typed

LEMMA DoRunDelayed ==
  ASSUME IInv, NEW s \in Servers, RunDelayed(s)
  PROVE  IInv'
<1> DEFINE i == Head(delayed[s])
           o == ops[i]
<1>1. Typed /\ Ops /\ delayed[s] # <<>> /\ Delayed(ops, delayed) /\ Known(ops, waiting, log)
      /\ Links(ops, home, pipe, inbox)
  BY DEF IInv, References, Typed, Delayed, Links, RunDelayed
<1>2. /\ Delayed(ops, Taken(delayed, s)) /\ i \in Nat /\ i \in DOMAIN ops
      /\ o.kind \in {"broadcast", "ack"}
  BY <1>1, DelayedLess
<1>3. /\ delayed' = Taken(delayed, s) /\ Apply(s, i, o)
      /\ ops' = IF o.kind = "broadcast" THEN ops
                ELSE [ops EXCEPT ![i] = ClientCount(@, Cardinality(Reached(s, o)))]
      /\ UNCHANGED <<sub, pipe, inbox, home>>
  BY DEF RunDelayed, Taken, fixed
<1>4. /\ alive' \subseteq Clients /\ log' \in [Process -> Seq(Nat)] /\ waiting' \subseteq Process \X Nat
      /\ Known(ops, waiting', log')
  BY <1>1, <1>2, <1>3, Applied, AppliedKnown
<1>5. /\ ops' \in Seq(OpType) /\ Ops' /\ Extends(ops, ops') /\ StaysAsked(ops, ops')
  <2>1. CASE o.kind = "broadcast"
    BY <1>1, <1>3, <2>1, Refl DEF Ops, Typed
  <2>2. CASE o.kind = "ack"
    <3> DEFINE n == Cardinality(Reached(s, o))
               p == ClientCount(o, n)
    <3>1. n \in Nat /\ o \in OpType /\ OpInv(o)
      BY <1>1, <1>2, ReachedClients DEF Typed, Ops
    <3>2. p \in OpType /\ Same(o, p) /\ OpInv(p)
      BY <2>2, <3>1, ClientCountOp
    <3>3. ops' = [ops EXCEPT ![i] = p]
      BY <1>3, <2>2
    <3> HIDE DEF p
    <3> QED BY <1>1, <1>2, <3>2, <3>3, ReplaceOp DEF Same
  <2> QED BY <1>2, <2>1, <2>2
<1>6. Links(ops', home, pipe, inbox)
  BY <1>5, ReferencesKept
<1>7. Known(ops', waiting', log') /\ \A x \in Servers : Delays(ops', x, delayed'[x])
  BY <1>2, <1>3, <1>4, <1>5, OthersKept DEF Delayed
<1> QED BY <1>1, <1>2, <1>3, <1>4, <1>5, <1>6, <1>7, Together DEF Typed, Delayed

LEMMA DoTimeouts ==
  ASSUME IInv, NEW i \in DOMAIN ops, Timeout(i) \/ AckTimeout(i) \/ AckCleanup(i)
  PROVE  IInv'
<1> DEFINE o == ops[i]
<1>1. o \in OpType /\ OpInv(o)
  BY DEF IInv, Typed, Ops
<1>2. CASE Timeout(i)
  <2>1. /\ o.timer /\ o.kind # "ack" /\ ops' = [ops EXCEPT ![i] = Settle(o, "error")]
        /\ UNCHANGED <<sub, pipe, inbox, delayed, home, alive, waiting, log>>
    BY <1>2 DEF Timeout, servers, fixed, sockets
  <2>2. o.kind \in {"ack", "fetch", "emit"}
    BY <1>1, <2>1 DEF OpInv, OpType
  <2> QED BY <1>1, <2>1, <2>2, TimeoutOp, CallChanges
<1>3. CASE AckTimeout(i)
  <2>1. /\ o.timer /\ o.kind = "ack"
        /\ UNCHANGED <<sub, pipe, inbox, delayed, home, alive, waiting, log>>
    BY <1>3 DEF AckTimeout, servers, fixed, sockets
  <2>2. ops' = [ops EXCEPT ![i] = Expired(o)]
    BY <1>3 DEF AckTimeout, Expired
  <2> QED BY <1>1, <2>1, <2>2, AckTimeoutOp, CallChanges
<1>4. CASE AckCleanup(i)
  <2>1. /\ ~o.timer /\ o.kind = "ack" /\ ops' = [ops EXCEPT ![i] = Over(o)]
        /\ UNCHANGED <<sub, pipe, inbox, delayed, home, alive, waiting, log>>
    BY <1>4 DEF AckCleanup, Over, servers, fixed, sockets
  <2> QED BY <1>1, <2>1, AckCleanupOp, CallChanges
<1> QED BY <1>2, <1>3, <1>4

\* Responses to request i of o, by a server s that is not its own.
LEMMA ReplyMessages ==
  ASSUME Typed, NEW s \in Servers, NEW i \in DOMAIN ops, i \in Nat, ops[i].from # s, ~ops[i].local,
         Asks(ops[i]) => ops[i].stage = "done"
  PROVE  LET msgs == Replies(s, i, ops[i])
         IN  /\ msgs \in Seq(MessageType)
             /\ \A j \in DOMAIN msgs : PipeMessage(ops, home, s, msgs[j]) /\ msgs[j].type # "numsub"
<1> DEFINE o == ops[i]
           n == Cardinality(Reached(s, o))
           c == Message("count", i, s, n)
           a == Message("answer", i, s, 0)
           msgs == Replies(s, i, o)
<1>1. n \in Nat
  BY ReachedClients
<1>2. msgs = CASE o.kind = "ack" -> <<c>> [] o.kind = "fetch" -> <<a>> [] OTHER -> <<>>
  BY DEF Replies
<1> HIDE DEF n
<1>3. /\ c \in MessageType /\ c.type = "count" /\ c.op = i /\ c.by = s
      /\ a \in MessageType /\ a.type = "answer" /\ a.op = i /\ a.by = s
  BY <1>1 DEF Message, MessageType, Process
<1> HIDE DEF c, a
<1>4. CASE o.kind = "ack"
  <2>1. PipeMessage(ops, home, s, c)
    BY <1>3, <1>4 DEF PipeMessage
  <2>2. msgs = <<c>>
    BY <1>2, <1>4
  <2> HIDE DEF msgs
  <2>3. msgs \in Seq(MessageType) /\ \A j \in DOMAIN msgs : msgs[j] = c
    BY <1>3, <2>2
  <2> QED BY <1>3, <2>1, <2>3 DEF msgs
<1>5. CASE o.kind = "fetch"
  <2>1. PipeMessage(ops, home, s, a)
    BY <1>3, <1>5 DEF PipeMessage, Asks
  <2>2. msgs = <<a>>
    BY <1>2, <1>5
  <2> HIDE DEF msgs
  <2>3. msgs \in Seq(MessageType) /\ \A j \in DOMAIN msgs : msgs[j] = a
    BY <1>3, <2>2
  <2> QED BY <1>3, <2>1, <2>3 DEF msgs
<1>6. CASE o.kind # "ack" /\ o.kind # "fetch"
  <2>1. msgs = <<>>
    BY <1>2, <1>6
  <2> HIDE DEF msgs
  <2> QED BY <2>1 DEF msgs
<1> QED BY <1>4, <1>5, <1>6

LEMMA UnderWay == ASSUME IInv PROVE Links(ops, home, pipe, inbox) /\ Delayed(ops, delayed)
BY DEF IInv, References, Typed, Delayed, Links

LEMMA DoReceiveRequest ==
  ASSUME IInv, NEW s \in Servers, ReceiveRequest(s)
  PROVE  IInv'
<1> DEFINE m == Head(inbox[s])
           i == m.op
           o == ops[i]
           msgs == Replies(s, i, o)
<1>1. Typed /\ Ops /\ Known(ops, waiting, log) /\ Links(ops, home, pipe, inbox) /\ Delayed(ops, delayed)
  BY UnderWay DEF IInv, References
<1>2. /\ inbox[s] # <<>> /\ m.type = "request" /\ inbox' = Taken(inbox, s) /\ Apply(s, i, o)
      /\ pipe' = Sent(pipe, s, msgs) /\ o.from # s /\ UNCHANGED <<sub, delayed, home, ops>>
  BY DEF ReceiveRequest, Serve, Incoming, Read, Taken, Published, Sent, fixed
<1>3. /\ Links(ops, home, pipe, inbox') /\ m \in MessageType /\ InboxMessage(ops, home, s, m)
  BY <1>1, <1>2, ReadMessage
<1>4. i \in DOMAIN ops /\ i \in Nat /\ ~o.local /\ (Asks(o) => o.stage = "done")
  BY <1>2, <1>3 DEF InboxMessage, MessageType
<1> HIDE DEF m
<1>5. /\ alive' \subseteq Clients /\ log' \in [Process -> Seq(Nat)] /\ waiting' \subseteq Process \X Nat
  BY <1>1, <1>2, <1>4, Applied
<1>6. Known(ops, waiting', log')
  BY <1>1, <1>2, <1>4, AppliedKnown DEF Asks
<1>7. /\ msgs \in Seq(MessageType)
      /\ \A j \in DOMAIN msgs : PipeMessage(ops, home, s, msgs[j]) /\ msgs[j].type # "numsub"
  BY <1>1, <1>2, <1>4, ReplyMessages
<1> HIDE DEF msgs
<1>8. Links(ops, home, pipe', inbox')
  BY <1>2, <1>3, <1>7, PublishResponses
<1> QED BY <1>1, <1>2, <1>5, <1>6, <1>8, Together DEF Typed, Ops, Delayed

LEMMA DoIgnoreSelf ==
  ASSUME IInv, NEW s \in Servers, IgnoreSelf(s)
  PROVE  IInv'
<1>1. Links(ops, home, pipe, inbox) /\ Delayed(ops, delayed)
  BY UnderWay
<1>2. /\ inbox[s] # <<>> /\ inbox' = Taken(inbox, s)
      /\ UNCHANGED <<sub, pipe, delayed, home, alive, waiting, log, ops>>
  BY DEF IgnoreSelf, Incoming, Read, Taken, fixed, sockets
<1>3. Links(ops, home, pipe, inbox')
  BY <1>1, <1>2, ReadMessage
<1> QED BY <1>1, <1>2, <1>3, Together DEF IInv, References, Typed, Ops, Delayed

\* What a response does to the call it is for.
Responded(o, m) ==
  CASE m.type = "answer" -> Response(o, m.by)
    [] m.type = "count" /\ o.pending -> ClientCount(o, m.n)
    [] m.type = "ack" /\ o.pending -> ClientAck(o, m.by)
    [] OTHER -> o

LEMMA RespondedOp ==
  ASSUME NEW os, NEW h, NEW s \in Servers, NEW m \in MessageType, InboxMessage(os, h, s, m),
         os[m.op] \in OpType, OpInv(os[m.op]), m.type # "request"
  PROVE  LET o == os[m.op]  p == Responded(o, m)
         IN  p \in OpType /\ Same(o, p) /\ OpInv(p)
<1> DEFINE o == os[m.op]
<1>1. m.by \in Process /\ m.n \in Nat
  BY DEF MessageType
<1>2. /\ m.type \in {"count", "answer", "ack"}
      /\ m.type = "answer" => Asks(o)
      /\ m.type # "answer" => o.kind = "ack"
  BY DEF InboxMessage
<1>3. Same(o, o)
  BY DEF Same, Keeps
<1> HIDE DEF o
<1>4. CASE m.type = "answer"
  <2>1. Responded(o, m) = Response(o, m.by)
    BY <1>4 DEF Responded
  <2> QED BY <1>1, <1>2, <1>4, <2>1, ResponseOp DEF o
<1>5. CASE m.type = "count" /\ o.pending
  <2>1. Responded(o, m) = ClientCount(o, m.n)
    BY <1>5 DEF Responded
  <2> QED BY <1>1, <1>2, <1>5, <2>1, ClientCountOp DEF o
<1>6. CASE m.type = "ack" /\ o.pending
  <2>1. Responded(o, m) = ClientAck(o, m.by)
    BY <1>6 DEF Responded
  <2> QED BY <1>1, <1>2, <1>6, <2>1, ClientAckOp DEF o
<1>7. CASE m.type # "answer" /\ ~o.pending
  <2>1. Responded(o, m) = o
    BY <1>7 DEF Responded
  <2> QED BY <1>3, <2>1 DEF o
<1> QED BY <1>2, <1>4, <1>5, <1>6, <1>7

LEMMA DoReceiveResponse ==
  ASSUME IInv, NEW s \in Servers, ReceiveResponse(s)
  PROVE  IInv'
<1> DEFINE m == Head(inbox[s])
           o == ops[m.op]
           p == Responded(o, m)
<1>1. Typed /\ Ops /\ Links(ops, home, pipe, inbox) /\ Delayed(ops, delayed)
  BY UnderWay DEF IInv, References
<1>2. /\ inbox[s] # <<>> /\ inbox' = Taken(inbox, s) /\ m.type # "request"
      /\ UNCHANGED <<sub, pipe, delayed, home, alive, waiting, log>>
  BY DEF ReceiveResponse, Incoming, Read, Taken, fixed, sockets
<1>3. ops' = [ops EXCEPT ![m.op] = p]
  BY DEF ReceiveResponse, Responded
<1>4. /\ Links(ops, home, pipe, inbox') /\ m \in MessageType /\ InboxMessage(ops, home, s, m)
  BY <1>1, <1>2, ReadMessage
<1>5. m.op \in DOMAIN ops
  BY <1>4 DEF InboxMessage
<1> HIDE DEF m
<1>6. o \in OpType /\ OpInv(o)
  BY <1>1, <1>5 DEF Typed, Ops
<1>7. p \in OpType /\ Same(o, p) /\ OpInv(p)
  BY <1>2, <1>4, <1>6, RespondedOp
<1> HIDE DEF p
<1>8. /\ ops' \in Seq(OpType) /\ Ops' /\ Extends(ops, ops') /\ StaysAsked(ops, ops')
  BY <1>1, <1>3, <1>5, <1>7, ReplaceOp DEF Same
<1>9. /\ Links(ops', home, pipe, inbox) /\ Known(ops', waiting, log)
      /\ \A x \in Servers : Delays(ops', x, delayed[x])
  BY <1>8, ReferencesKept
<1>10. Links(ops', home, pipe, inbox')
  BY <1>2, <1>9, ReadMessage
<1> QED BY <1>1, <1>2, <1>8, <1>9, <1>10, Together DEF Typed

LEMMA DoAnswer ==
  ASSUME IInv, NEW x \in Process, NEW i \in DOMAIN ops, Answer(x, i)
  PROVE  IInv'
<1> DEFINE o == ops[i]
           s == IF x \in Clients THEN home[x] ELSE x
           m == Message(IF o.kind = "ack" THEN "ack" ELSE "answer", i, x, 0)
<1>1. /\ Typed /\ Ops /\ Known(ops, waiting, log) /\ i \in Nat /\ o \in OpType /\ OpInv(o)
      /\ Links(ops, home, pipe, inbox) /\ Delayed(ops, delayed)
  BY UnderWay DEF IInv, References, Typed, Ops
<1>2. /\ <<x, i>> \in waiting /\ waiting' = waiting \ {<<x, i>>}
      /\ UNCHANGED <<sub, inbox, delayed, home, alive, log>>
      /\ s = o.from => ops' = [ops EXCEPT ![i] = ClientAck(o, x)] /\ UNCHANGED pipe
      /\ s # o.from => UNCHANGED ops /\ pipe' = Sent(pipe, s, <<m>>)
  BY DEF Answer, Published, Sent, fixed
<1>3. Waits(ops, x, i)
  BY <1>1, <1>2 DEF Known
<1>4. /\ o.kind = "ack" => x \in Clients /\ s = home[x]
      /\ o.kind # "ack" => /\ o.kind = "emit" /\ o.stage = "done" /\ ~o.local
                           /\ x \in Servers /\ s = x /\ s # o.from
  BY <1>3, ClusterAssumption DEF Waits
<1>5. s \in Servers
  BY <1>1, <1>4 DEF Typed
<1> HIDE DEF s
<1>6. waiting' \subseteq Process \X Nat /\ waiting' \subseteq waiting
  BY <1>1, <1>2 DEF Typed
<1>7. Known(ops, waiting', log)
  BY <1>1, <1>6 DEF Known
<1>8. CASE s = o.from
  <2>1. ClientAck(o, x) \in OpType /\ Same(o, ClientAck(o, x)) /\ OpInv(ClientAck(o, x))
    BY <1>1, <1>4, <1>8, ClientAckOp
  <2>2. /\ ops' \in Seq(OpType) /\ Ops' /\ Extends(ops, ops') /\ StaysAsked(ops, ops')
    BY <1>1, <1>2, <1>8, <2>1, ReplaceOp DEF Same
  <2>3. /\ Links(ops', home, pipe, inbox) /\ \A y \in Servers : Delays(ops', y, delayed[y])
    BY <2>2, ReferencesKept
  <2>4. Known(ops', waiting', log)
    BY <1>7, <2>2, OthersKept
  <2> QED BY <1>1, <1>2, <1>6, <1>8, <2>2, <2>3, <2>4, Together DEF Typed
<1>9. CASE s # o.from
  <2>1. m \in MessageType /\ m.op = i /\ m.by = x /\ m.type = IF o.kind = "ack" THEN "ack" ELSE "answer"
    BY <1>1 DEF Message, MessageType
  <2> HIDE DEF m
  <2>2. PipeMessage(ops, home, s, m) /\ m.type # "numsub"
    BY <1>4, <1>9, <2>1 DEF PipeMessage, Asks
  <2>3. <<m>> \in Seq(MessageType) /\ \A j \in DOMAIN <<m>> : <<m>>[j] = m
    BY <2>1
  <2>4. \A j \in DOMAIN <<m>> : PipeMessage(ops, home, s, <<m>>[j]) /\ <<m>>[j].type # "numsub"
    BY <2>2, <2>3
  <2>5. Links(ops, home, pipe', inbox)
    BY <1>1, <1>2, <1>5, <1>9, <2>3, <2>4, PublishResponses
  <2> QED BY <1>1, <1>2, <1>6, <1>7, <1>9, <2>5, Together DEF Typed, Ops, Delayed
<1> QED BY <1>8, <1>9

LEMMA DoRedisCounts ==
  ASSUME IInv, NEW s \in Servers, RedisCounts(s)
  PROVE  IInv'
<1> DEFINE m == Head(pipe[s])
           i == m.op
           p == Numbered(ops[i], Cardinality(On))
           q == Taken(pipe, s)
<1>1. Typed /\ Ops /\ Links(ops, home, pipe, inbox) /\ Known(ops, waiting, log) /\ Delayed(ops, delayed)
  BY UnderWay DEF IInv, References
<1>2. /\ pipe[s] # <<>> /\ m.type = "numsub" /\ pipe' = q
      /\ ops' = [ops EXCEPT ![i] = p]
      /\ UNCHANGED <<sub, inbox, delayed, home, alive, waiting, log>>
  BY DEF RedisCounts, Taken, Numbered, fixed, sockets
<1>3. /\ Links(ops, home, q, inbox) /\ m \in MessageType /\ PipeMessage(ops, home, s, m)
      /\ ops[i].stage = "asked" /\ AskedNowhere(q, i)
  BY <1>1, <1>2, TakeMessage
<1>4. i \in DOMAIN ops
  BY <1>3 DEF PipeMessage
<1> HIDE DEF q, m
<1>5. IsFiniteSet(On) /\ Cardinality(On) \in Nat
  BY ClusterAssumption, FS_Subset, FS_CardinalityType DEF On
<1>6. ops[i] \in OpType /\ OpInv(ops[i])
  BY <1>1, <1>4 DEF Typed, Ops
<1>7. p \in OpType /\ Keeps(ops[i], p) /\ OpInv(p)
  BY <1>3, <1>5, <1>6, NumberedInv
<1> HIDE DEF p
<1>8. /\ ops' \in Seq(OpType) /\ Ops' /\ Extends(ops, ops')
      /\ \A j \in DOMAIN ops : ops'[j] = IF j = i THEN p ELSE ops[j]
  BY <1>1, <1>2, <1>3, <1>4, <1>7, ReplaceOp
<1>9. Messages(ops', home, q, inbox)
  BY <1>3, <1>8, MessagesKept DEF Links
<1>10. ASSUME NEW x \in Servers PROVE Numsubs(ops', q[x])
  <2>1. \A k \in DOMAIN q[x] : q[x][k].op \in DOMAIN ops
    BY <1>3 DEF Links, Messages, PipeMessage
  <2>2. Numsubs(ops, q[x])
    BY <1>3 DEF Links
  <2>3. \A k \in DOMAIN q[x] : q[x][k].type = "numsub" => q[x][k].op # i
    BY <1>3 DEF AskedNowhere
  <2> QED BY <1>8, <2>1, <2>2, <2>3 DEF Numsubs
<1>11. Links(ops', home, q, inbox)
  BY <1>3, <1>9, <1>10 DEF Links
<1>12. Known(ops', waiting, log) /\ \A y \in Servers : Delays(ops', y, delayed[y])
  BY <1>1, <1>8, OthersKept DEF Delayed
<1> QED BY <1>1, <1>2, <1>8, <1>11, <1>12, Together DEF Typed

LEMMA DoRedisRoutes ==
  ASSUME IInv, NEW s \in Servers, RedisRoutes(s)
  PROVE  IInv'
<1> DEFINE m == Head(pipe[s])
           o == ops[m.op]
           half == {t \in Servers : sub[t] = "pattern" /\ o.kind = "broadcast"}
           q == Taken(pipe, s)
<1>1. Links(ops, home, pipe, inbox) /\ Delayed(ops, delayed)
  BY UnderWay
<1>2. /\ pipe[s] # <<>> /\ m.type # "numsub" /\ pipe' = q
      /\ UNCHANGED <<sub, delayed, home, alive, waiting, log, ops>>
  BY DEF RedisRoutes, Taken, fixed, sockets
<1>3. PICK H \in SUBSET half :
        LET to == IF m.type = "request" THEN On \union H ELSE On \intersect {o.from} IN
        inbox' = [t \in Servers |-> IF t \in to THEN Append(inbox[t], m) ELSE inbox[t]]
  BY DEF RedisRoutes
<1> DEFINE to == IF m.type = "request" THEN On \union H ELSE On \intersect {o.from}
<1>4. inbox' = Routed(inbox, to, m)
  BY <1>3 DEF Routed
<1>5. to \in SUBSET Servers /\ (m.type # "request" => \A t \in to : t = o.from)
  BY DEF On
<1>6. /\ Links(ops, home, q, inbox) /\ m \in MessageType /\ PipeMessage(ops, home, s, m)
  BY <1>1, <1>2, TakeMessage
<1> HIDE DEF to, q, m
<1>7. \A t \in to : InboxMessage(ops, home, t, m)
  BY <1>2, <1>5, <1>6 DEF PipeMessage, InboxMessage
<1>8. Links(ops, home, q, inbox')
  BY <1>4, <1>5, <1>6, <1>7, RouteMessage
<1> QED BY <1>1, <1>2, <1>8, Together DEF IInv, References, Typed, Ops, Delayed

\* The servers that listen change: the calls not settled are compared no more.
LEMMA DisturbedOps ==
  ASSUME IInv, ops' = Disturbed
  PROVE  /\ ops' \in Seq(OpType) /\ Ops' /\ Extends(ops, ops') /\ StaysAsked(ops, ops')
<1>1. ops' = [i \in DOMAIN ops |-> IF ops[i].settled = <<>> THEN Unlike(ops[i]) ELSE ops[i]]
  BY DEF Disturbed, Unlike
<1>2. ASSUME NEW i \in DOMAIN ops
      PROVE  /\ ops'[i] \in OpType /\ Keeps(ops[i], ops'[i]) /\ ops'[i].stage = ops[i].stage
             /\ OpInv(ops'[i])
  <2>1. ops[i] \in OpType /\ OpInv(ops[i])
    BY DEF IInv, Typed, Ops
  <2>2. Keeps(ops[i], ops[i])
    BY DEF Keeps
  <2>3. ops'[i] = IF ops[i].settled = <<>> THEN Unlike(ops[i]) ELSE ops[i]
    BY <1>1
  <2> QED BY <2>1, <2>2, <2>3, UnlikeInv
<1>3. DOMAIN ops' = DOMAIN ops
  BY <1>1
<1>4. DOMAIN ops = 1 .. Len(ops) /\ Len(ops) \in Nat
  BY DEF IInv, Typed
<1>5. ops' = [i \in 1 .. Len(ops) |-> ops'[i]]
  BY <1>1, <1>4
<1>6. ops' \in [1 .. Len(ops) -> OpType]
  BY <1>2, <1>4, <1>5
<1>7. ops' \in Seq(OpType)
  BY <1>4, <1>6, SeqDef
<1> QED BY <1>2, <1>3, <1>7 DEF Ops, Extends, StaysAsked

LEMMA DoSubscribe ==
  ASSUME IInv, NEW s \in Servers, Subscribe(s)
  PROVE  IInv'
<1>1. sub' \in [Servers -> {"off", "pattern", "on", "gone"}]
  BY DEF IInv, Typed, Subscribe
<1>2. /\ UNCHANGED ops \/ ops' = Disturbed
      /\ UNCHANGED <<pipe, inbox, delayed, home, alive, waiting, log>>
  BY DEF Subscribe, Changes, sockets
<1>3. ops' \in Seq(OpType) /\ Ops' /\ Extends(ops, ops') /\ StaysAsked(ops, ops')
  <2>1. CASE UNCHANGED ops
    BY <2>1, Refl DEF IInv, Typed, Ops
  <2> QED BY <1>2, <2>1, DisturbedOps
<1>4. /\ Links(ops', home, pipe, inbox) /\ Known(ops', waiting, log)
      /\ \A x \in Servers : Delays(ops', x, delayed[x])
  BY <1>3, ReferencesKept
<1> QED BY <1>1, <1>2, <1>3, <1>4, Together DEF IInv, Typed

Emptied(p, s) == [p EXCEPT ![s] = <<>>]

LEMMA EmptiedLinks ==
  ASSUME NEW os, NEW h, NEW b, NEW p, Links(os, h, p, b), NEW s \in Servers
  PROVE  Links(os, h, Emptied(p, s), Emptied(b, s))
<1>1. <<>> \in Seq(MessageType) /\ DOMAIN <<>> = {}
  OBVIOUS
<1>2. /\ Emptied(p, s) \in [Servers -> Seq(MessageType)] /\ Emptied(b, s) \in [Servers -> Seq(MessageType)]
      /\ \A x \in Servers : /\ Emptied(p, s)[x] = IF x = s THEN <<>> ELSE p[x]
                            /\ Emptied(b, s)[x] = IF x = s THEN <<>> ELSE b[x]
  BY <1>1 DEF Links, Emptied
<1>3. Messages(os, h, Emptied(p, s), Emptied(b, s))
  BY <1>1, <1>2 DEF Links, Messages
<1>4. Numsubs(os, <<>>)
  BY <1>1 DEF Numsubs
<1> QED BY <1>2, <1>3, <1>4 DEF Links

LEMMA DoCrash ==
  ASSUME IInv, NEW s \in Servers, Crash(s)
  PROVE  IInv'
<1>1. sub' \in [Servers -> {"off", "pattern", "on", "gone"}]
  BY DEF IInv, Typed, Crash
<1>2. /\ UNCHANGED ops \/ ops' = Disturbed
      /\ pipe' = Emptied(pipe, s) /\ inbox' = Emptied(inbox, s) /\ delayed' = [delayed EXCEPT ![s] = <<>>]
      /\ alive' \subseteq alive
      /\ UNCHANGED <<home, waiting, log>>
  BY DEF Crash, Changes, Emptied
<1>3. ops' \in Seq(OpType) /\ Ops' /\ Extends(ops, ops') /\ StaysAsked(ops, ops')
  <2>1. CASE UNCHANGED ops
    BY <2>1, Refl DEF IInv, Typed, Ops
  <2> QED BY <1>2, <2>1, DisturbedOps
<1>4. /\ Links(ops', home, pipe, inbox) /\ Known(ops', waiting, log)
      /\ \A x \in Servers : Delays(ops', x, delayed[x])
  BY <1>3, ReferencesKept
<1>5. Links(ops', home, pipe', inbox')
  BY <1>2, <1>4, EmptiedLinks
<1>6. delayed' \in [Servers -> Seq(Nat)] /\ \A x \in Servers : Delays(ops', x, delayed'[x])
  <2>1. <<>> \in Seq(Nat) /\ Delays(ops', s, <<>>)
    BY DEF Delays
  <2> QED BY <1>2, <1>4, <2>1 DEF IInv, Typed
<1>7. alive' \subseteq Clients
  BY <1>2 DEF IInv, Typed
<1> QED BY <1>1, <1>2, <1>3, <1>4, <1>5, <1>6, <1>7, Together DEF IInv, Typed

\* Nothing of what the invariant is about changes, but that clients leave.
LEMMA OthersStay ==
  ASSUME IInv, UNCHANGED <<sub, pipe, inbox, delayed, home, waiting, log, ops>>, alive' \subseteq alive
  PROVE  IInv'
<1>1. Typed'
  BY DEF IInv, Typed
<1>2. References' /\ Ops'
  BY DEF IInv, References, Ops
<1> QED BY <1>1, <1>2 DEF IInv

-----------------------------------------------------------------------------
LEMMA InitInv == Init => IInv
<1> SUFFICES ASSUME Init PROVE IInv
  OBVIOUS
<1>1. <<>> \in Seq(MessageType) /\ <<>> \in Seq(Nat) /\ <<>> \in Seq(OpType) /\ DOMAIN <<>> = {}
  OBVIOUS
<1>2. Typed
  BY <1>1 DEF Init, Typed, Process
<1>3. Messages(ops, home, pipe, inbox) /\ \A s \in Servers : Numsubs(ops, pipe[s])
  BY <1>1 DEF Init, Messages, Numsubs
<1>4. Known(ops, waiting, log) /\ \A s \in Servers : Delays(ops, s, delayed[s])
  BY <1>1 DEF Init, Known, Delays, Process
<1>5. Ops
  BY <1>1 DEF Init, Ops
<1> QED BY <1>2, <1>3, <1>4, <1>5 DEF IInv, References

LEMMA CallStep ==
  ASSUME IInv, NEW s \in Servers, Calls(s)
  PROVE  IInv'
<1>1. CASE Tell(s)
  BY <1>1, DoTell
<1>2. ASSUME NEW k \in {"fetch", "emit"}, NEW l \in BOOLEAN, Ask(s, k, l) PROVE IInv'
  BY <1>2, DoAsk
<1>3. ASSUME NEW l \in BOOLEAN, NEW r \in Rooms \union {All}, Broadcast(s, l, r) PROVE IInv'
  BY <1>3, DoBroadcast
<1>4. ASSUME NEW l \in BOOLEAN, NEW r \in Rooms \union {All}, BroadcastWithAck(s, l, r) PROVE IInv'
  BY <1>4, DoBroadcastWithAck
<1>5. ASSUME NEW l \in BOOLEAN, NEW r \in Rooms \union {All}, NEW k \in {"join", "leave", "disconnect"},
             NEW a \in Rooms \union {All}, RoomCall(s, k, l, r, a)
      PROVE  IInv'
  BY <1>5, DoRoomCall
<1> QED BY <1>1, <1>2, <1>3, <1>4, <1>5 DEF Calls

LEMMA NextInv ==
  ASSUME IInv, [Next]_vars
  PROVE  IInv'
<1>1. ASSUME NEW s \in Servers, \/ Calls(s) \/ RunDelayed(s) \/ ReceiveRequest(s) \/ IgnoreSelf(s)
                                \/ ReceiveResponse(s) \/ RedisCounts(s) \/ RedisRoutes(s)
                                \/ Subscribe(s) \/ Crash(s)
      PROVE  IInv'
  BY <1>1, CallStep, DoRunDelayed, DoReceiveRequest, DoIgnoreSelf, DoReceiveResponse, DoRedisCounts,
     DoRedisRoutes, DoSubscribe, DoCrash
<1>2. ASSUME NEW i \in DOMAIN ops, CountReply(i) \/ Timeout(i) \/ AckTimeout(i) \/ AckCleanup(i)
      PROVE  IInv'
  BY <1>2, DoCountReply, DoTimeouts
<1>3. ASSUME NEW x \in Clients \union Servers, NEW i \in DOMAIN ops, Answer(x, i) PROVE IInv'
  BY <1>3, DoAnswer DEF Process
<1>4. ASSUME NEW c \in Clients, ClientLeaves(c) PROVE IInv'
  BY <1>4, OthersStay DEF ClientLeaves, Changes, servers
<1>5. CASE UNCHANGED vars
  BY <1>5, OthersStay DEF vars, servers, fixed, sockets
<1> QED BY <1>1, <1>2, <1>3, <1>4, <1>5 DEF Next

\* Every message, delayed broadcast and acknowledgement is about a call it fits,
\* and every call is at one of the points its code can be at.
THEOREM CallInvariant == Spec => []IInv
<1>1. IInv /\ [Next]_vars => IInv'
  BY NextInv
<1> QED BY <1>1, InitInv, PTL DEF Spec

\* A callback is called exactly once (adapter.ts:484-507, 555-579, 843-850;
\* broadcast-operator.ts:229): until it is, its timer is armed or the number of
\* servers is on its way, whatever the messages that come late.
THEOREM CallbacksOnce == Spec => []EndsOnce
<1>1. IInv => EndsOnce
  <2> SUFFICES ASSUME IInv, NEW i \in Calling
               PROVE  LET o == ops[i] IN
                      /\ Len(o.settled) =
                           IF o.timer \/ (o.kind # "ack" /\ o.stage # "done") THEN 0 ELSE 1
                      /\ o.kind # "ack" => o.pending = o.timer
    BY DEF EndsOnce
  <2> DEFINE o == ops[i]
  <2>1. o \in OpType /\ OpInv(o) /\ o.kind \in {"ack", "fetch", "emit"}
    BY DEF Calling, IInv, Typed, Ops
  <2> HIDE DEF o
  <2>2. o.kind = "ack" => Len(o.settled) = IF o.timer THEN 0 ELSE 1
    BY <2>1, Outcomes DEF OpInv, AckInv
  <2>3. o.kind # "ack" => Len(o.settled) = IF o.timer \/ o.stage # "done" THEN 0 ELSE 1
    BY <2>1, Outcomes DEF OpInv, AskInv, Asks
  <2>4. o.kind # "ack" => o.pending = o.timer
    <3>1. o.pending \in BOOLEAN /\ o.timer \in BOOLEAN
      BY <2>1 DEF OpType
    <3>2. o.kind # "ack" => (o.pending <=> o.timer)
      BY <2>1 DEF OpInv, AskInv, Asks
    <3> QED BY <3>1, <3>2
  <2> QED BY <2>2, <2>3, <2>4 DEF o
<1> QED BY <1>1, CallInvariant, PTL

-----------------------------------------------------------------------------
(***************************************************************************)
(* InOrderOnce holds for any cluster, any calls and any changes: the calls *)
(* of one server reach each client and each listener in order, once.       *)
(*                                                                         *)
(* Between servers, a request that is ahead of another of the same server, *)
(* in its connection to Redis, in a subscription or in a log, was made     *)
(* before it, unless the other one first asked for the count of servers    *)
(* (Fits).  At home, delayed broadcasts are in order, and only room        *)
(* operations were applied before them (AtHome).                           *)
(***************************************************************************)

RoomKinds == {"join", "leave", "disconnect"}

\* Request i may be ahead of request j on the way to another server.
Fits(os, i, j) ==
  os[i].from = os[j].from => i < j \/ (~Asks(os[i]) /\ Asks(os[j]))

\* Call i may be applied on its own server before the delayed broadcast j.
AtHome(os, i, j) ==
  os[i].from = os[j].from =>
    i < j \/ (os[i].kind \in RoomKinds /\ os[j].kind \in {"broadcast", "ack"})

\* Call i may have reached x before call j.
Lands(os, h, x, i, j) ==
  os[i].from = os[j].from =>
    \/ i < j
    \/ /\ i # j /\ x \in Clients /\ h[x] = os[i].from
       /\ os[i].kind \in RoomKinds /\ os[j].kind \in {"broadcast", "ack"}
    \/ os[i].kind = "tell" /\ os[j].kind = "emit"

Before(os, i, q) == \A l \in DOMAIN q : q[l].type = "request" => Fits(os, i, q[l].op)
Ahead(os, q, r) == \A k \in DOMAIN q : q[k].type = "request" => Before(os, q[k].op, r)
Path(os, q) ==
  \A k, l \in DOMAIN q :
    q[k].type = "request" /\ q[l].type = "request" /\ k < l => Fits(os, q[k].op, q[l].op)

BeforeHere(os, i, q) == \A l \in DOMAIN q : AtHome(os, i, q[l])
Rising(q) == \A k, l \in DOMAIN q : k < l => q[k] < q[l]

\* Where x is.
Place(h, x) == IF x \in Clients THEN h[x] ELSE x

\* Call i, which has reached x, against what is still to come.
Landed(os, h, p, b, d, x, i) ==
  LET t == Place(h, x) IN
  /\ i \in DOMAIN os
  /\ x \in Servers => os[i].kind \in {"emit", "tell"} /\ os[i].from # x
  /\ x \in Clients => os[i].kind \notin {"fetch", "emit", "tell"}
  /\ Asks(os[i]) => os[i].stage = "done" /\ ~os[i].local
  /\ os[i].from # t => Before(os, i, b[t]) /\ \A s \in Servers : Before(os, i, p[s])
  /\ os[i].from = t => BeforeHere(os, i, d[t])

Queues(os, p, b, d) ==
  /\ \A s \in Servers : Path(os, p[s]) /\ Path(os, b[s]) /\ Rising(d[s])
  /\ \A s, t \in Servers : Ahead(os, b[t], p[s])

Logs(os, h, p, b, d, g) ==
  \A x \in Process : \A k \in DOMAIN g[x] :
    /\ Landed(os, h, p, b, d, x, g[x][k])
    /\ \A l \in DOMAIN g[x] : k < l => Lands(os, h, x, g[x][k], g[x][l])

Order(os, h, p, b, d, g) == Queues(os, p, b, d) /\ Logs(os, h, p, b, d, g)

\* The answers to the questions for a number of servers are used in order.
CountsInOrder(os) ==
  \A i, j \in DOMAIN os :
    i < j /\ os[i].from = os[j].from /\ os[i].kind \in {"ack", "fetch", "emit"} /\ ~os[i].local
      /\ Asks(os[j]) /\ ~os[j].local /\ os[j].stage = "done" => os[i].stage = "done"

Ordered == Order(ops, home, pipe, inbox, delayed, log) /\ CountsInOrder(ops)

-----------------------------------------------------------------------------
(* Sequences that lose their beginning, or get something at their end.     *)

Part(q, r) == q = r \/ q = <<>> \/ (r # <<>> /\ q = Tail(r))

LEMMA Shift ==
  ASSUME NEW S, NEW r \in Seq(S), NEW q, Part(q, r)
  PROVE  \E c \in {0, 1} : \A k \in DOMAIN q : k \in Nat /\ k + c \in DOMAIN r /\ q[k] = r[k + c]
<1>1. CASE q = r
  <2>1. \A k \in DOMAIN q : k \in Nat /\ k + 0 \in DOMAIN r /\ q[k] = r[k + 0]
    BY <1>1
  <2> QED BY <2>1
<1>2. CASE q = <<>>
  BY <1>2
<1>3. CASE r # <<>> /\ q = Tail(r)
  <2>1. q \in Seq(S) /\ \A k \in DOMAIN q : k + 1 \in DOMAIN r /\ q[k] = r[k + 1]
    BY <1>3, Pop
  <2>2. \A k \in DOMAIN q : k \in Nat
    BY <2>1
  <2> QED BY <2>1, <2>2
<1> QED BY <1>1, <1>2, <1>3 DEF Part

LEMMA PartOrder ==
  ASSUME NEW S, NEW r \in Seq(S), NEW q, Part(q, r), NEW os
  PROVE  /\ Path(os, r) => Path(os, q)
         /\ Rising(r) => Rising(q)
         /\ \A i : Before(os, i, r) => Before(os, i, q)
         /\ \A i : BeforeHere(os, i, r) => BeforeHere(os, i, q)
         /\ \A t : Ahead(os, r, t) => Ahead(os, q, t)
<1>1. PICK c \in {0, 1} : \A k \in DOMAIN q : k \in Nat /\ k + c \in DOMAIN r /\ q[k] = r[k + c]
  BY Shift
<1>2. \A k, l \in DOMAIN q : k < l => k + c < l + c
  BY <1>1
<1>3. Path(os, r) => Path(os, q)
  BY <1>1, <1>2 DEF Path
<1>4. Rising(r) => Rising(q)
  BY <1>1, <1>2 DEF Rising
<1>5. \A i : Before(os, i, r) => Before(os, i, q)
  BY <1>1 DEF Before
<1>6. \A i : BeforeHere(os, i, r) => BeforeHere(os, i, q)
  BY <1>1 DEF BeforeHere
<1>7. \A t : Ahead(os, r, t) => Ahead(os, q, t)
  BY <1>1 DEF Ahead
<1> QED BY <1>3, <1>4, <1>5, <1>6, <1>7

LEMMA HeadOrder ==
  ASSUME NEW S, NEW q \in Seq(S), q # <<>>, NEW os, Head(q).type = "request"
  PROVE  /\ Path(os, q) => Before(os, Head(q).op, Tail(q))
         /\ \A r : Ahead(os, q, r) => Before(os, Head(q).op, r)
         /\ \A i : Before(os, i, q) => Fits(os, i, Head(q).op)
<1>1. /\ 1 \in DOMAIN q /\ q[1] = Head(q) /\ Tail(q) \in Seq(S)
      /\ \A k \in DOMAIN Tail(q) : k + 1 \in DOMAIN q /\ Tail(q)[k] = q[k + 1]
  BY Pop
<1>2. \A k \in DOMAIN Tail(q) : 1 < k + 1
  BY <1>1
<1> DEFINE t == Tail(q)
           m == Head(q)
<1> HIDE DEF t, m
<1>3. Path(os, q) => Before(os, m.op, t)
  BY <1>1, <1>2 DEF Path, Before, t, m
<1>4. \A r : Ahead(os, q, r) => Before(os, m.op, r)
  BY <1>1 DEF Ahead, m
<1>5. \A i : Before(os, i, q) => Fits(os, i, m.op)
  BY <1>1 DEF Before, m
<1> QED BY <1>3, <1>4, <1>5 DEF t, m

LEMMA JoinOrder ==
  ASSUME NEW S, NEW q \in Seq(S), NEW r \in Seq(S), NEW os
  PROVE  /\ Path(os, q) /\ Path(os, r) /\ Ahead(os, q, r) => Path(os, q \o r)
         /\ \A i : Before(os, i, q) /\ Before(os, i, r) => Before(os, i, q \o r)
         /\ \A t : Ahead(os, q, t) /\ Ahead(os, r, t) => Ahead(os, q \o r, t)
         /\ \A t : Ahead(os, t, q) /\ Ahead(os, t, r) => Ahead(os, t, q \o r)
<1> DEFINE u == q \o r
<1>1. /\ \A k \in DOMAIN q : u[k] = q[k]
      /\ \A j \in DOMAIN r : u[Len(q) + j] = r[j]
      /\ \A k \in DOMAIN u : k \in DOMAIN q \/ \E j \in DOMAIN r : k = Len(q) + j
  BY Joined
<1>2. Len(q) \in Nat /\ (\A j \in DOMAIN r : j \in Nat /\ j > 0) /\ \A k \in DOMAIN q : k \in Nat /\ k <= Len(q)
  OBVIOUS
<1> HIDE DEF u
<1>3. \A i : Before(os, i, q) /\ Before(os, i, r) => Before(os, i, u)
  BY <1>1 DEF Before
<1>4. \A t : Ahead(os, q, t) /\ Ahead(os, r, t) => Ahead(os, u, t)
  BY <1>1 DEF Ahead
<1>5. \A t : Ahead(os, t, q) /\ Ahead(os, t, r) => Ahead(os, t, u)
  BY <1>3 DEF Ahead
<1>6. ASSUME Path(os, q), Path(os, r), Ahead(os, q, r) PROVE Path(os, u)
  <2> SUFFICES ASSUME NEW k \in DOMAIN u, NEW l \in DOMAIN u,
                      u[k].type = "request", u[l].type = "request", k < l
               PROVE  Fits(os, u[k].op, u[l].op)
    BY DEF Path
  <2>1. CASE k \in DOMAIN q /\ l \in DOMAIN q
    BY <1>1, <1>6, <2>1 DEF Path
  <2>2. CASE k \in DOMAIN q /\ l \notin DOMAIN q
    BY <1>1, <1>6, <2>2 DEF Ahead, Before
  <2>3. CASE k \notin DOMAIN q
    <3>1. PICK j \in DOMAIN r : k = Len(q) + j
      BY <1>1, <2>3
    <3>2. l \notin DOMAIN q
      BY <1>2, <3>1
    <3>3. PICK n \in DOMAIN r : l = Len(q) + n
      BY <1>1, <3>2
    <3>4. j < n
      BY <1>2, <3>1, <3>3
    <3> QED BY <1>1, <1>6, <3>1, <3>3, <3>4 DEF Path
  <2> QED BY <2>1, <2>2, <2>3
<1> QED BY <1>3, <1>4, <1>5, <1>6 DEF u

LEMMA RisingAppend ==
  ASSUME NEW q \in Seq(Nat), NEW i \in Nat, Rising(q), \A k \in DOMAIN q : q[k] < i
  PROVE  Rising(Append(q, i))
<1> DEFINE r == Append(q, i)
<1>1. /\ \A k \in DOMAIN q : r[k] = q[k]
      /\ \A k \in DOMAIN r : k \in DOMAIN q \/ k = Len(q) + 1
      /\ r[Len(q) + 1] = i
  BY Push
<1>2. Len(q) \in Nat /\ \A k \in DOMAIN q : k \in Nat /\ k <= Len(q)
  OBVIOUS
<1> HIDE DEF r
<1>3. \A k, l \in DOMAIN r : k < l => k \in DOMAIN q
  BY <1>1, <1>2
<1>4. Rising(r)
  BY <1>1, <1>3 DEF Rising
<1> QED BY <1>4 DEF r

LEMMA HomeAppend ==
  ASSUME NEW q \in Seq(Nat), NEW i \in Nat, NEW os, NEW j, BeforeHere(os, j, q), AtHome(os, j, i)
  PROVE  BeforeHere(os, j, Append(q, i))
<1> DEFINE r == Append(q, i)
<1>1. /\ \A k \in DOMAIN q : r[k] = q[k]
      /\ \A k \in DOMAIN r : k \in DOMAIN q \/ k = Len(q) + 1
      /\ r[Len(q) + 1] = i
  BY Push
<1> HIDE DEF r
<1>2. BeforeHere(os, j, r)
  BY <1>1 DEF BeforeHere
<1> QED BY <1>2 DEF r

LEMMA One ==
  ASSUME NEW m \in MessageType, NEW os
  PROVE  /\ <<m>> \in Seq(MessageType) /\ Path(os, <<m>>)
         /\ \A i : Fits(os, i, m.op) \/ m.type # "request" => Before(os, i, <<m>>)
         /\ \A r : Before(os, m.op, r) \/ m.type # "request" => Ahead(os, <<m>>, r)
<1> DEFINE q == <<m>>
<1>1. q \in Seq(MessageType) /\ DOMAIN q = {1} /\ q[1] = m
  OBVIOUS
<1> HIDE DEF q
<1>2. Path(os, q)
  BY <1>1 DEF Path
<1>3. \A i : Fits(os, i, m.op) \/ m.type # "request" => Before(os, i, q)
  BY <1>1 DEF Before
<1>4. \A r : Before(os, m.op, r) \/ m.type # "request" => Ahead(os, q, r)
  BY <1>1 DEF Ahead
<1> QED BY <1>1, <1>2, <1>3, <1>4 DEF q

-----------------------------------------------------------------------------
(* The order through a step.                                               *)

\* No step changes what the order looks at in a call.
LEMMA SameOrder ==
  ASSUME NEW os, NEW os2, Extends(os, os2), NEW i \in DOMAIN os, NEW j \in DOMAIN os
  PROVE  /\ Fits(os, i, j) => Fits(os2, i, j)
         /\ AtHome(os, i, j) => AtHome(os2, i, j)
         /\ \A h, x : Lands(os, h, x, i, j) => Lands(os2, h, x, i, j)
<1>1. /\ os2[i].kind = os[i].kind /\ os2[i].from = os[i].from
      /\ os2[j].kind = os[j].kind /\ os2[j].from = os[j].from
  BY DEF Extends, Keeps
<1>2. Fits(os, i, j) => Fits(os2, i, j)
  BY <1>1 DEF Fits, Asks
<1>3. AtHome(os, i, j) => AtHome(os2, i, j)
  BY <1>1 DEF AtHome
<1>4. ASSUME NEW h, NEW x, Lands(os, h, x, i, j) PROVE Lands(os2, h, x, i, j)
  BY <1>1, <1>4 DEF Lands
<1> QED BY <1>2, <1>3, <1>4

\* What is under way, and what reached a client or a server, is about calls.
Referring(os, p, b, d) ==
  \A s \in Servers :
    /\ p[s] \in Seq(MessageType) /\ \A k \in DOMAIN p[s] : p[s][k].op \in DOMAIN os
    /\ b[s] \in Seq(MessageType) /\ \A k \in DOMAIN b[s] : b[s][k].op \in DOMAIN os
    /\ d[s] \in Seq(Nat) /\ \A k \in DOMAIN d[s] : d[s][k] \in DOMAIN os

LEMMA Refers == ASSUME IInv PROVE Referring(ops, pipe, inbox, delayed)
<1>1. ASSUME NEW s \in Servers
      PROVE  /\ pipe[s] \in Seq(MessageType) /\ \A k \in DOMAIN pipe[s] : pipe[s][k].op \in DOMAIN ops
             /\ inbox[s] \in Seq(MessageType) /\ \A k \in DOMAIN inbox[s] : inbox[s][k].op \in DOMAIN ops
             /\ delayed[s] \in Seq(Nat) /\ \A k \in DOMAIN delayed[s] : delayed[s][k] \in DOMAIN ops
  <2>1. pipe[s] \in Seq(MessageType) /\ inbox[s] \in Seq(MessageType) /\ delayed[s] \in Seq(Nat)
    BY DEF IInv, Typed
  <2>2. \A k \in DOMAIN pipe[s] : pipe[s][k].op \in DOMAIN ops
    BY DEF IInv, References, Messages, PipeMessage
  <2>3. \A k \in DOMAIN inbox[s] : inbox[s][k].op \in DOMAIN ops
    BY DEF IInv, References, Messages, InboxMessage
  <2>4. \A k \in DOMAIN delayed[s] : delayed[s][k] \in DOMAIN ops
    BY DEF IInv, References, Delays
  <2> QED BY <2>1, <2>2, <2>3, <2>4
<1> QED BY <1>1 DEF Referring

LEMMA OrderKept ==
  ASSUME NEW os, NEW os2, Extends(os, os2), NEW h, NEW p, NEW b, NEW d, NEW g,
         Referring(os, p, b, d), h \in [Clients -> Servers], Order(os, h, p, b, d, g)
  PROVE  Order(os2, h, p, b, d, g)
<1>1. \A i, j \in DOMAIN os : /\ Fits(os, i, j) => Fits(os2, i, j)
                              /\ AtHome(os, i, j) => AtHome(os2, i, j)
                              /\ \A x : Lands(os, h, x, i, j) => Lands(os2, h, x, i, j)
  BY SameOrder
<1>2. \A s \in Servers : /\ \A k \in DOMAIN p[s] : p[s][k].op \in DOMAIN os
                         /\ \A k \in DOMAIN b[s] : b[s][k].op \in DOMAIN os
                         /\ \A k \in DOMAIN d[s] : d[s][k] \in DOMAIN os
  BY DEF Referring
<1>3. \A s \in Servers : \A i \in DOMAIN os : /\ Before(os, i, p[s]) => Before(os2, i, p[s])
                                              /\ Before(os, i, b[s]) => Before(os2, i, b[s])
                                              /\ BeforeHere(os, i, d[s]) => BeforeHere(os2, i, d[s])
  BY <1>1, <1>2 DEF Before, BeforeHere
<1>4. Queues(os2, p, b, d)
  <2>1. \A s \in Servers : /\ Path(os, p[s]) => Path(os2, p[s])
                           /\ Path(os, b[s]) => Path(os2, b[s])
    BY <1>1, <1>2 DEF Path
  <2>2. \A s, t \in Servers : Ahead(os, b[t], p[s]) => Ahead(os2, b[t], p[s])
    BY <1>2, <1>3 DEF Ahead
  <2> QED BY <2>1, <2>2 DEF Order, Queues
<1>5. ASSUME NEW x \in Process, NEW i, Landed(os, h, p, b, d, x, i)
      PROVE  Landed(os2, h, p, b, d, x, i)
  <2>1. Place(h, x) \in Servers
    BY DEF Place, Process
  <2>2. /\ i \in DOMAIN os /\ i \in DOMAIN os2 /\ os2[i].kind = os[i].kind /\ os2[i].from = os[i].from
        /\ (os2[i].local <=> os[i].local) /\ (os[i].stage = "done" => os2[i].stage = "done")
    BY <1>5 DEF Landed, Extends, Keeps
  <2>5. Asks(os2[i]) => os2[i].stage = "done" /\ ~os2[i].local
    BY <1>5, <2>2 DEF Landed, Asks
  <2> DEFINE t == Place(h, x)
  <2> HIDE DEF t
  <2>3. /\ os[i].from # t => Before(os, i, b[t]) /\ \A s \in Servers : Before(os, i, p[s])
        /\ os[i].from = t => BeforeHere(os, i, d[t])
    BY <1>5 DEF Landed, t
  <2>4. /\ os2[i].from # t => Before(os2, i, b[t]) /\ \A s \in Servers : Before(os2, i, p[s])
        /\ os2[i].from = t => BeforeHere(os2, i, d[t])
    BY <1>3, <2>1, <2>2, <2>3 DEF t
  <2> QED BY <1>5, <2>2, <2>4, <2>5 DEF Landed, t
<1>6. ASSUME NEW x \in Process, NEW k \in DOMAIN g[x]
      PROVE  /\ Landed(os2, h, p, b, d, x, g[x][k])
             /\ \A l \in DOMAIN g[x] : k < l => Lands(os2, h, x, g[x][k], g[x][l])
  <2>1. \A l \in DOMAIN g[x] : Landed(os, h, p, b, d, x, g[x][l]) /\ g[x][l] \in DOMAIN os
    BY DEF Order, Logs, Landed
  <2>2. \A l \in DOMAIN g[x] : k < l => Lands(os, h, x, g[x][k], g[x][l])
    BY DEF Order, Logs
  <2> QED BY <1>1, <1>5, <2>1, <2>2
<1> QED BY <1>4, <1>6 DEF Order, Logs

\* Nothing that is taken away puts the rest out of order.
LEMMA OrderLess ==
  ASSUME NEW os, NEW h \in [Clients -> Servers], NEW p, NEW b, NEW d, NEW g, NEW q, NEW c, NEW e,
         Referring(os, p, b, d), Order(os, h, p, b, d, g),
         \A s \in Servers : Part(q[s], p[s]) /\ Part(c[s], b[s]) /\ Part(e[s], d[s])
  PROVE  Order(os, h, q, c, e, g)
<1>1. ASSUME NEW s \in Servers
      PROVE  /\ Path(os, p[s]) => Path(os, q[s])
             /\ \A i : Before(os, i, p[s]) => Before(os, i, q[s])
  <2>1. p[s] \in Seq(MessageType)
    BY DEF Referring
  <2> QED BY <2>1, PartOrder
<1>2. ASSUME NEW s \in Servers
      PROVE  /\ Path(os, b[s]) => Path(os, c[s])
             /\ \A i : Before(os, i, b[s]) => Before(os, i, c[s])
             /\ \A r : Ahead(os, b[s], r) => Ahead(os, c[s], r)
  <2>1. b[s] \in Seq(MessageType)
    BY DEF Referring
  <2> QED BY <2>1, PartOrder
<1>3. ASSUME NEW s \in Servers
      PROVE  /\ Rising(d[s]) => Rising(e[s])
             /\ \A i : BeforeHere(os, i, d[s]) => BeforeHere(os, i, e[s])
  <2>1. d[s] \in Seq(Nat)
    BY DEF Referring
  <2> QED BY <2>1, PartOrder
<1>4. \A s, t \in Servers : Ahead(os, b[t], p[s]) => Ahead(os, c[t], q[s])
  <2>1. \A s, t \in Servers : Ahead(os, b[t], p[s]) => Ahead(os, b[t], q[s])
    BY <1>1 DEF Ahead
  <2> QED BY <1>2, <2>1
<1>5. Queues(os, q, c, e)
  BY <1>1, <1>2, <1>3, <1>4 DEF Order, Queues
<1>6. ASSUME NEW x \in Process, NEW i, Landed(os, h, p, b, d, x, i)
      PROVE  Landed(os, h, q, c, e, x, i)
  <2>1. Place(h, x) \in Servers
    BY DEF Place, Process
  <2> QED BY <1>1, <1>2, <1>3, <1>6, <2>1 DEF Landed
<1> QED BY <1>5, <1>6 DEF Order, Logs

\* Request i may follow whatever is under way or has arrived.
Last(os, p, b, g, i) ==
  /\ \A s \in Servers : /\ \A k \in DOMAIN p[s] : p[s][k].type = "request" => Fits(os, p[s][k].op, i)
                        /\ \A k \in DOMAIN b[s] : b[s][k].type = "request" => Fits(os, b[s][k].op, i)
  /\ \A x \in Process : \A k \in DOMAIN g[x] : Fits(os, g[x][k], i)

\* Message m is published, a request only if it may follow the others.
LEMMA OrderSent ==
  ASSUME NEW os, NEW h \in [Clients -> Servers], NEW p \in [Servers -> Seq(MessageType)],
         NEW b, NEW d, NEW g, Order(os, h, p, b, d, g),
         NEW s \in Servers, NEW m \in MessageType, m.type = "request" => Last(os, p, b, g, m.op)
  PROVE  Order(os, h, Sent(p, s, <<m>>), b, d, g)
<1> DEFINE n == <<m>>
           r == p[s] \o n
           q == Sent(p, s, n)
<1>1. q = [p EXCEPT ![s] = r]
  BY DEF Sent
<1>2. \A x \in Servers : q[x] = IF x = s THEN r ELSE p[x]
  BY <1>1
<1>3. p[s] \in Seq(MessageType)
  OBVIOUS
<1>4. n \in Seq(MessageType) /\ Path(os, n) /\ \A i : Fits(os, i, m.op) \/ m.type # "request" => Before(os, i, n)
  BY One
<1> HIDE DEF n
<1>5. /\ Path(os, p[s]) /\ Path(os, n) /\ Ahead(os, p[s], n) => Path(os, r)
      /\ \A i : Before(os, i, p[s]) /\ Before(os, i, n) => Before(os, i, r)
      /\ \A t : Ahead(os, t, p[s]) /\ Ahead(os, t, n) => Ahead(os, t, r)
  BY <1>3, <1>4, JoinOrder
<1> HIDE DEF r, q
<1>6. /\ Ahead(os, p[s], n) /\ \A t \in Servers : Ahead(os, b[t], n)
      /\ \A x \in Process : \A k \in DOMAIN g[x] : Before(os, g[x][k], n)
  BY <1>4 DEF Ahead, Last
<1>7. Path(os, r) /\ \A t \in Servers : Ahead(os, b[t], r)
  BY <1>4, <1>5, <1>6 DEF Order, Queues
<1>8. Queues(os, q, b, d)
  BY <1>2, <1>7 DEF Order, Queues
<1>9. ASSUME NEW x \in Process, NEW k \in DOMAIN g[x]
      PROVE  Landed(os, h, q, b, d, x, g[x][k])
  <2> DEFINE i == g[x][k]
  <2>1. Landed(os, h, p, b, d, x, i) /\ Before(os, i, n)
    BY <1>6 DEF Order, Logs
  <2> HIDE DEF i
  <2>2. \A y \in Servers : Before(os, i, p[y]) => Before(os, i, q[y])
    BY <1>2, <1>5, <2>1
  <2>3. Landed(os, h, q, b, d, x, i)
    BY <2>1, <2>2 DEF Landed
  <2> QED BY <2>3 DEF i
<1>10. Order(os, h, q, b, d, g)
  BY <1>8, <1>9 DEF Order, Logs
<1> QED BY <1>10 DEF q, n

LEMMA SentTwice ==
  ASSUME NEW p \in [Servers -> Seq(MessageType)], NEW s \in Servers, NEW m \in MessageType, NEW n \in MessageType
  PROVE  Sent(p, s, <<m>> \o <<n>>) = Sent(Sent(p, s, <<m>>), s, <<n>>)
<1>1. <<m>> \in Seq(MessageType) /\ <<n>> \in Seq(MessageType) /\ p[s] \in Seq(MessageType)
  OBVIOUS
<1> DEFINE u == <<m>>
           v == <<n>>
<1> HIDE DEF u, v
<1>2. p[s] \o (u \o v) = (p[s] \o u) \o v
  BY <1>1, ConcatAssociative DEF u, v
<1>3. Sent(p, s, u)[s] = p[s] \o u
  BY DEF Sent
<1>4. Sent(Sent(p, s, u), s, v) = [p EXCEPT ![s] = (p[s] \o u) \o v]
  BY <1>3 DEF Sent
<1>5. Sent(p, s, u \o v) = [p EXCEPT ![s] = p[s] \o (u \o v)]
  BY DEF Sent
<1> QED BY <1>2, <1>4, <1>5 DEF u, v

\* A new call i is published with what CallMessages names.
LEMMA OrderCall ==
  ASSUME NEW os, NEW h \in [Clients -> Servers], NEW p \in [Servers -> Seq(MessageType)],
         NEW b, NEW d, NEW g, Order(os, h, p, b, d, g), NEW s \in Servers,
         NEW r \in BOOLEAN, NEW q \in BOOLEAN, NextCall \in Nat, Last(os, p, b, g, NextCall)
  PROVE  Order(os, h, Sent(p, s, CallMessages(s, r, q)), b, d, g)
<1> DEFINE m == Request(s, NextCall)
           n == Numsub(s, NextCall)
<1>1. m \in MessageType /\ n \in MessageType /\ m.op = NextCall /\ n.type = "numsub"
  BY RequestMessage
<1> DEFINE msgs == CallMessages(s, r, q)
<1>2. msgs = CASE r /\ q -> <<m>> \o <<n>> [] r /\ ~q -> <<m>> [] ~r /\ q -> <<n>> [] ~r /\ ~q -> <<>>
  BY DEF CallMessages
<1> HIDE DEF m, n, msgs
<1>3. Order(os, h, Sent(p, s, <<m>>), b, d, g)
  BY <1>1, OrderSent
<1>4. ASSUME NEW p2 \in [Servers -> Seq(MessageType)], Order(os, h, p2, b, d, g)
      PROVE  Order(os, h, Sent(p2, s, <<n>>), b, d, g)
  <2>1. n.type # "request"
    BY <1>1
  <2> QED BY <1>1, <1>4, <2>1, OrderSent
<1>5. CASE r /\ q
  <2> DEFINE p2 == Sent(p, s, <<m>>)
  <2>1. p2 \in [Servers -> Seq(MessageType)]
    <3>1. <<m>> \in Seq(MessageType) /\ p[s] \in Seq(MessageType)
      BY <1>1
    <3> DEFINE u == p[s] \o <<m>>
    <3>2. u \in Seq(MessageType)
      BY <3>1, Joined
    <3>3. p2 = [p EXCEPT ![s] = u]
      BY DEF Sent
    <3> HIDE DEF u
    <3> QED BY <3>2, <3>3
  <2>2. Sent(p, s, msgs) = Sent(p2, s, <<n>>)
    BY <1>1, <1>2, <1>5, SentTwice
  <2> HIDE DEF p2
  <2>3. Order(os, h, p2, b, d, g)
    BY <1>3 DEF p2
  <2> QED BY <1>4, <2>1, <2>2, <2>3 DEF msgs
<1>6. CASE r /\ ~q
  <2>1. msgs = <<m>>
    BY <1>2, <1>6
  <2> QED BY <1>3, <2>1 DEF msgs
<1>7. CASE ~r /\ q
  <2>1. msgs = <<n>>
    BY <1>2, <1>7
  <2> QED BY <1>4, <2>1 DEF msgs
<1>8. CASE ~r /\ ~q
  <2>1. msgs = <<>>
    BY <1>2, <1>8
  <2>2. Sent(p, s, msgs) = p
    BY <2>1, SendNothing
  <2> QED BY <2>2 DEF msgs
<1> QED BY <1>5, <1>6, <1>7, <1>8

\* What a server answers is no request.
LEMMA OrderReplies ==
  ASSUME NEW os, NEW h \in [Clients -> Servers], NEW p \in [Servers -> Seq(MessageType)],
         NEW b, NEW d, NEW g, Order(os, h, p, b, d, g), NEW s \in Servers,
         NEW i \in Nat, NEW o, Cardinality(Reached(s, o)) \in Nat
  PROVE  Order(os, h, Sent(p, s, Replies(s, i, o)), b, d, g)
<1> DEFINE n == Cardinality(Reached(s, o))
           c == Message("count", i, s, n)
           a == Message("answer", i, s, 0)
           msgs == Replies(s, i, o)
<1>1. msgs = CASE o.kind = "ack" -> <<c>> [] o.kind = "fetch" -> <<a>> [] OTHER -> <<>>
  BY DEF Replies
<1> HIDE DEF n, msgs
<1>2. c \in MessageType /\ c.type # "request" /\ a \in MessageType /\ a.type # "request"
  BY DEF Message, MessageType, Process, n
<1> HIDE DEF c, a
<1>3. Order(os, h, Sent(p, s, <<c>>), b, d, g) /\ Order(os, h, Sent(p, s, <<a>>), b, d, g)
  BY <1>2, OrderSent
<1>4. Sent(p, s, <<>>) = p
  BY SendNothing
<1>5. msgs = <<c>> \/ msgs = <<a>> \/ msgs = <<>>
  BY <1>1
<1> QED BY <1>3, <1>4, <1>5 DEF msgs

\* Redis takes message m of server s and routes it to the servers in `to`.
LEMMA OrderRouted ==
  ASSUME NEW os, NEW h \in [Clients -> Servers], NEW p, NEW b, NEW d, NEW g,
         Referring(os, p, b, d), Order(os, h, p, b, d, g), NEW s \in Servers, p[s] # <<>>,
         \A x \in Servers : \A k \in DOMAIN p[x] :
           p[x][k].type = "request" => os[p[x][k].op].from = x,
         DOMAIN p = Servers, NEW to \in SUBSET Servers
  PROVE  Order(os, h, Taken(p, s), Routed(b, to, Head(p[s])), d, g)
<1> DEFINE m == Head(p[s])
           q == Taken(p, s)
           c == Routed(b, to, m)
<1>1. \A x \in Servers : q[x] = IF x = s THEN Tail(p[s]) ELSE p[x]
  BY DEF Taken
<1>2. \A x \in Servers : c[x] = IF x \in to THEN Append(b[x], m) ELSE b[x]
  BY DEF Routed
<1>3. /\ \A x \in Servers : p[x] \in Seq(MessageType) /\ b[x] \in Seq(MessageType)
      /\ p[s] # <<>> /\ m \in MessageType
  <2>1. \A x \in Servers : p[x] \in Seq(MessageType) /\ b[x] \in Seq(MessageType)
    BY DEF Referring
  <2>2. m \in MessageType
    BY <2>1, Pop
  <2> QED BY <2>1, <2>2
<1>4. m.type = "request" =>
        /\ os[m.op].from = s /\ Before(os, m.op, Tail(p[s]))
        /\ \A t \in Servers : \A k \in DOMAIN b[t] : b[t][k].type = "request" => Fits(os, b[t][k].op, m.op)
        /\ \A i : Before(os, i, p[s]) => Fits(os, i, m.op)
  <2> HAVE m.type = "request"
  <2>1. 1 \in DOMAIN p[s] /\ p[s][1] = m
    BY <1>3, Pop
  <2>2. /\ Path(os, p[s]) => Before(os, m.op, Tail(p[s]))
        /\ \A i : Before(os, i, p[s]) => Fits(os, i, m.op)
    BY <1>3, HeadOrder
  <2> HIDE DEF m
  <2>3. Path(os, p[s]) /\ \A t \in Servers : Ahead(os, b[t], p[s])
    BY DEF Order, Queues
  <2>4. os[m.op].from = s
    BY <2>1
  <2>5. \A t \in Servers : \A k \in DOMAIN b[t] : b[t][k].type = "request" => Fits(os, b[t][k].op, m.op)
    BY <2>2, <2>3 DEF Ahead
  <2> QED BY <2>2, <2>3, <2>4, <2>5
<1> HIDE DEF m, q, c
<1>5. m.type = "request" => \A x \in Servers : Before(os, m.op, q[x])
  <2> SUFFICES ASSUME m.type = "request", NEW x \in Servers PROVE Before(os, m.op, q[x])
    OBVIOUS
  <2>1. CASE x = s
    BY <1>1, <1>4, <2>1
  <2>2. CASE x # s
    BY <1>1, <1>4, <2>2 DEF Before, Fits
  <2> QED BY <2>1, <2>2
<1>6. \A x \in Servers : Part(q[x], p[x]) /\ Part(b[x], b[x]) /\ Part(d[x], d[x])
  BY <1>1, <1>3 DEF Part
<1>7. Order(os, h, q, b, d, g)
  BY <1>6, OrderLess
<1>8. \A x \in Servers : Append(b[x], m) = b[x] \o <<m>>
  BY <1>3, AppendIsConcat
<1> DEFINE n == <<m>>
<1>9. /\ n \in Seq(MessageType) /\ Path(os, n)
      /\ \A i : Fits(os, i, m.op) \/ m.type # "request" => Before(os, i, n)
      /\ \A r : Before(os, m.op, r) \/ m.type # "request" => Ahead(os, n, r)
  BY <1>3, One
<1>10. \A x \in Servers : c[x] = IF x \in to THEN b[x] \o n ELSE b[x]
  BY <1>2, <1>8
<1> HIDE DEF n
<1>11. ASSUME NEW x \in Servers
       PROVE  /\ Path(os, b[x]) /\ Path(os, n) /\ Ahead(os, b[x], n) => Path(os, b[x] \o n)
              /\ \A i : Before(os, i, b[x]) /\ Before(os, i, n) => Before(os, i, b[x] \o n)
              /\ \A t : Ahead(os, b[x], t) /\ Ahead(os, n, t) => Ahead(os, b[x] \o n, t)
  BY <1>3, <1>9, JoinOrder
<1>12. \A x \in Servers : Ahead(os, b[x], n) /\ Ahead(os, n, q[x])
  BY <1>4, <1>5, <1>9 DEF Ahead
<1>13. Queues(os, q, c, d)
  BY <1>7, <1>9, <1>10, <1>11, <1>12 DEF Order, Queues
<1>14. ASSUME NEW x \in Process, NEW k \in DOMAIN g[x]
       PROVE  Landed(os, h, q, c, d, x, g[x][k])
  <2> DEFINE i == g[x][k]
             t == Place(h, x)
  <2>1. Landed(os, h, p, b, d, x, i) /\ Landed(os, h, q, b, d, x, i) /\ t \in Servers
    BY <1>7 DEF Order, Logs, Place, Process
  <2> HIDE DEF i
  <2>2. os[i].from # t => Before(os, i, c[t])
    <3> HAVE os[i].from # t
    <3>1. Before(os, i, b[t]) /\ Before(os, i, p[s])
      BY <2>1 DEF Landed
    <3>2. Before(os, i, n)
      BY <1>4, <1>9, <3>1
    <3> QED BY <1>10, <1>11, <2>1, <3>1, <3>2
  <2>3. Landed(os, h, q, c, d, x, i)
    BY <2>1, <2>2 DEF Landed
  <2> QED BY <2>3 DEF i
<1>15. Order(os, h, q, c, d, g)
  BY <1>7, <1>13, <1>14 DEF Order, Logs
<1> QED BY <1>15 DEF q, c, m

\* Call i waits to be applied at home, after all that came before.
LEMMA OrderLater ==
  ASSUME NEW os, NEW h \in [Clients -> Servers], NEW p, NEW b, NEW d, NEW g,
         Referring(os, p, b, d), Order(os, h, p, b, d, g), NEW s \in Servers, DOMAIN d = Servers,
         NEW i \in Nat, \A k \in DOMAIN d[s] : d[s][k] < i,
         \A x \in Process : \A k \in DOMAIN g[x] : g[x][k] < i
  PROVE  Order(os, h, p, b, Later(d, s, i), g)
<1> DEFINE e == Later(d, s, i)
           r == Append(d[s], i)
<1>1. \A x \in Servers : e[x] = IF x = s THEN r ELSE d[x]
  BY DEF Later
<1>2. d[s] \in Seq(Nat) /\ Rising(d[s])
  BY DEF Referring, Order, Queues
<1>3. Rising(r)
  BY <1>2, RisingAppend
<1>4. \A j : BeforeHere(os, j, d[s]) /\ AtHome(os, j, i) => BeforeHere(os, j, r)
  BY <1>2, HomeAppend
<1> HIDE DEF e, r
<1>5. Queues(os, p, b, e)
  BY <1>1, <1>3 DEF Order, Queues
<1>6. ASSUME NEW x \in Process, NEW k \in DOMAIN g[x]
      PROVE  Landed(os, h, p, b, e, x, g[x][k])
  <2> DEFINE j == g[x][k]
  <2>1. Landed(os, h, p, b, d, x, j) /\ j < i
    BY DEF Order, Logs
  <2> HIDE DEF j
  <2>2. AtHome(os, j, i)
    BY <2>1 DEF AtHome
  <2>3. \A y \in Servers : BeforeHere(os, j, d[y]) => BeforeHere(os, j, e[y])
    BY <1>1, <1>4, <2>2
  <2>4. Place(h, x) \in Servers
    BY DEF Place, Process
  <2>5. Landed(os, h, p, b, e, x, j)
    BY <2>1, <2>3, <2>4 DEF Landed
  <2> QED BY <2>5 DEF j
<1>7. Order(os, h, p, b, e, g)
  BY <1>5, <1>6 DEF Order, Logs
<1> QED BY <1>7 DEF e

\* Call i reaches the clients and servers H.
LEMMA OrderLands ==
  ASSUME NEW os, NEW h, NEW p, NEW b, NEW d, NEW g \in [Process -> Seq(Nat)],
         Order(os, h, p, b, d, g), NEW i \in Nat, NEW H, NEW g2,
         \A x \in Process : g2[x] = IF x \in H THEN Append(g[x], i) ELSE g[x],
         \A x \in H : /\ Landed(os, h, p, b, d, x, i)
                      /\ \A k \in DOMAIN g[x] : Lands(os, h, x, g[x][k], i)
  PROVE  Order(os, h, p, b, d, g2)
<1>1. ASSUME NEW x \in Process, NEW k \in DOMAIN g2[x]
      PROVE  /\ Landed(os, h, p, b, d, x, g2[x][k])
             /\ \A l \in DOMAIN g2[x] : k < l => Lands(os, h, x, g2[x][k], g2[x][l])
  <2>1. CASE x \notin H
    BY <1>1, <2>1 DEF Order, Logs
  <2>2. CASE x \in H
    <3> DEFINE r == Append(g[x], i)
    <3>1. /\ \A n \in DOMAIN g[x] : r[n] = g[x][n]
          /\ \A n \in DOMAIN r : n \in DOMAIN g[x] \/ n = Len(g[x]) + 1
          /\ r[Len(g[x]) + 1] = i
      BY Push
    <3>2. Len(g[x]) \in Nat /\ \A n \in DOMAIN g[x] : n \in Nat /\ n <= Len(g[x])
      OBVIOUS
    <3>3. g2[x] = r
      BY <2>2
    <3> HIDE DEF r
    <3>4. \A n \in DOMAIN g[x] : Landed(os, h, p, b, d, x, g[x][n])
                                 /\ \A l \in DOMAIN g[x] : n < l => Lands(os, h, x, g[x][n], g[x][l])
      BY DEF Order, Logs
    <3>5. \A n, l \in DOMAIN r : n < l => n \in DOMAIN g[x]
      BY <3>1, <3>2
    <3> QED BY <1>1, <2>2, <3>1, <3>3, <3>4, <3>5
  <2> QED BY <2>1, <2>2
<1> QED BY <1>1 DEF Order, Logs

-----------------------------------------------------------------------------
(* The steps.                                                              *)

\* A step of a call that neither begins nor ends its wait for a count.
LEMMA StillCounts ==
  ASSUME CountsInOrder(ops), DOMAIN ops' = DOMAIN ops,
         \A i \in DOMAIN ops : Keeps(ops[i], ops'[i]) /\ (ops'[i].stage = "done" => ops[i].stage = "done"),
         Extends(ops, ops')
  PROVE  CountsInOrder(ops')
<1> SUFFICES ASSUME NEW i \in DOMAIN ops, NEW j \in DOMAIN ops, i < j, ops'[i].from = ops'[j].from,
                    ops'[i].kind \in {"ack", "fetch", "emit"}, ~ops'[i].local,
                    Asks(ops'[j]), ~ops'[j].local, ops'[j].stage = "done"
             PROVE  ops'[i].stage = "done"
  BY DEF CountsInOrder
<1>1. /\ ops[i].from = ops[j].from /\ ops[i].kind \in {"ack", "fetch", "emit"} /\ ~ops[i].local
      /\ Asks(ops[j]) /\ ~ops[j].local /\ ops[j].stage = "done"
  BY DEF Keeps, Asks
<1>2. ops[i].stage = "done"
  BY <1>1 DEF CountsInOrder
<1> QED BY <1>2 DEF Extends

LEMMA RefersNext == ASSUME IInv' PROVE Referring(ops', pipe', inbox', delayed')
<1>1. ASSUME NEW s \in Servers
      PROVE  /\ pipe'[s] \in Seq(MessageType) /\ \A k \in DOMAIN pipe'[s] : pipe'[s][k].op \in DOMAIN ops'
             /\ inbox'[s] \in Seq(MessageType) /\ \A k \in DOMAIN inbox'[s] : inbox'[s][k].op \in DOMAIN ops'
             /\ delayed'[s] \in Seq(Nat) /\ \A k \in DOMAIN delayed'[s] : delayed'[s][k] \in DOMAIN ops'
  <2>1. pipe'[s] \in Seq(MessageType) /\ inbox'[s] \in Seq(MessageType) /\ delayed'[s] \in Seq(Nat)
    BY DEF IInv, Typed
  <2>2. \A k \in DOMAIN pipe'[s] : pipe'[s][k].op \in DOMAIN ops'
    BY DEF IInv, References, Messages, PipeMessage
  <2>3. \A k \in DOMAIN inbox'[s] : inbox'[s][k].op \in DOMAIN ops'
    BY DEF IInv, References, Messages, InboxMessage
  <2>4. \A k \in DOMAIN delayed'[s] : delayed'[s][k] \in DOMAIN ops'
    BY DEF IInv, References, Delays
  <2> QED BY <2>1, <2>2, <2>3, <2>4
<1> QED BY <1>1 DEF Referring

\* A step that begins no call.
LEMMA OrderStep ==
  ASSUME IInv, IInv', home' = home, Extends(ops, ops'), DOMAIN ops' = DOMAIN ops,
         Order(ops, home, pipe', inbox', delayed', log'), CountsInOrder(ops')
  PROVE  Ordered'
<1>1. Referring(ops', pipe', inbox', delayed')
  BY RefersNext
<1>2. Referring(ops, pipe', inbox', delayed')
  BY <1>1 DEF Referring
<1>3. home \in [Clients -> Servers]
  BY DEF IInv, Typed
<1>4. Order(ops', home', pipe', inbox', delayed', log')
  BY <1>2, <1>3, OrderKept
<1> QED BY <1>4 DEF Ordered

\* A step that changes calls, but neither begins one nor ends its wait for a count.
LEMMA OrderStill ==
  ASSUME IInv, IInv', Ordered, home' = home, Extends(ops, ops'), DOMAIN ops' = DOMAIN ops,
         \A i \in DOMAIN ops : ops'[i].stage = "done" => ops[i].stage = "done",
         Order(ops, home, pipe', inbox', delayed', log')
  PROVE  Ordered'
<1>1. \A i \in DOMAIN ops : Keeps(ops[i], ops'[i])
  BY DEF Extends
<1>2. CountsInOrder(ops')
  BY <1>1, StillCounts DEF Ordered
<1> QED BY <1>2, OrderStep

\* Only messages and delayed broadcasts are taken away.
LEMMA OrderTaken ==
  ASSUME IInv, Ordered, NEW q, NEW c, NEW e,
         \A s \in Servers : Part(q[s], pipe[s]) /\ Part(c[s], inbox[s]) /\ Part(e[s], delayed[s])
  PROVE  Order(ops, home, q, c, e, log)
<1>1. Referring(ops, pipe, inbox, delayed) /\ home \in [Clients -> Servers]
  BY Refers DEF IInv, Typed
<1>2. Order(ops, home, pipe, inbox, delayed, log)
  BY DEF Ordered
<1> QED BY <1>1, <1>2, OrderLess

LEMMA TakenPart ==
  ASSUME NEW p, NEW s \in Servers, DOMAIN p = Servers, p[s] # <<>>
  PROVE  \A x \in Servers : Part(Taken(p, s)[x], p[x])
BY DEF Taken, Part

LEMMA OneStill ==
  ASSUME IInv, NEW i \in DOMAIN ops, NEW o, Keeps(ops[i], o), o.stage = ops[i].stage,
         ops' = [ops EXCEPT ![i] = o]
  PROVE  /\ Extends(ops, ops') /\ DOMAIN ops' = DOMAIN ops
         /\ \A j \in DOMAIN ops : ops'[j].stage = "done" => ops[j].stage = "done"
<1>1. DOMAIN ops' = DOMAIN ops /\ \A j \in DOMAIN ops : ops'[j] = IF j = i THEN o ELSE ops[j]
  BY DEF IInv, Typed
<1> QED BY <1>1 DEF Extends, Keeps

LEMMA OrderTimeouts ==
  ASSUME IInv, IInv', Ordered, NEW i \in DOMAIN ops, Timeout(i) \/ AckTimeout(i) \/ AckCleanup(i)
  PROVE  Ordered'
<1> DEFINE o == ops[i]
<1>1. o \in OpType /\ OpInv(o)
  BY DEF IInv, Typed, Ops
<1>2. UNCHANGED <<pipe, inbox, delayed, home, log>>
  BY DEF Timeout, AckTimeout, AckCleanup, servers, fixed, sockets
<1>3. \E p : Keeps(o, p) /\ p.stage = o.stage /\ ops' = [ops EXCEPT ![i] = p]
  <2>1. CASE Timeout(i)
    <3>1. o.timer /\ o.kind # "ack" /\ ops' = [ops EXCEPT ![i] = Settle(o, "error")]
      BY <2>1 DEF Timeout
    <3>2. o.kind \in {"ack", "fetch", "emit"}
      BY <1>1, <3>1 DEF OpInv, OpType
    <3>3. Same(o, Settle(o, "error"))
      BY <1>1, <3>1, <3>2, TimeoutOp
    <3> QED BY <3>1, <3>3 DEF Same
  <2>2. CASE AckTimeout(i)
    <3>1. o.timer /\ o.kind = "ack" /\ ops' = [ops EXCEPT ![i] = Expired(o)]
      BY <2>2 DEF AckTimeout, Expired
    <3>2. Same(o, Expired(o))
      BY <1>1, <3>1, AckTimeoutOp
    <3> QED BY <3>1, <3>2 DEF Same
  <2>3. CASE AckCleanup(i)
    <3>1. ~o.timer /\ o.kind = "ack" /\ ops' = [ops EXCEPT ![i] = Over(o)]
      BY <2>3 DEF AckCleanup, Over
    <3>2. Same(o, Over(o))
      BY <1>1, <3>1, AckCleanupOp
    <3> QED BY <3>1, <3>2 DEF Same
  <2> QED BY <2>1, <2>2, <2>3
<1>4. PICK p : Keeps(o, p) /\ p.stage = o.stage /\ ops' = [ops EXCEPT ![i] = p]
  BY <1>3
<1>5. Order(ops, home, pipe', inbox', delayed', log')
  BY <1>2 DEF Ordered
<1>6. /\ Extends(ops, ops') /\ DOMAIN ops' = DOMAIN ops
      /\ \A j \in DOMAIN ops : ops'[j].stage = "done" => ops[j].stage = "done"
  BY <1>4, OneStill
<1> QED BY <1>2, <1>5, <1>6, OrderStill

LEMMA OrderIgnoreSelf ==
  ASSUME IInv, IInv', Ordered, NEW s \in Servers, IgnoreSelf(s)
  PROVE  Ordered'
<1>1. /\ inbox[s] # <<>> /\ inbox' = Taken(inbox, s)
      /\ UNCHANGED <<pipe, delayed, home, log, ops>>
  BY DEF IgnoreSelf, Incoming, Read, Taken, fixed, sockets
<1>2. DOMAIN inbox = Servers
  BY DEF IInv, Typed
<1>3. \A x \in Servers : Part(inbox'[x], inbox[x]) /\ Part(pipe[x], pipe[x]) /\ Part(delayed[x], delayed[x])
  BY <1>1, <1>2, TakenPart DEF Part
<1>4. Order(ops, home, pipe, inbox', delayed, log)
  BY <1>3, OrderTaken
<1>5. Extends(ops, ops')
  BY <1>1, Refl
<1> QED BY <1>1, <1>4, <1>5, OrderStill

LEMMA OrderReceiveResponse ==
  ASSUME IInv, IInv', Ordered, NEW s \in Servers, ReceiveResponse(s)
  PROVE  Ordered'
<1> DEFINE m == Head(inbox[s])
           o == ops[m.op]
           p == Responded(o, m)
<1>1. /\ inbox[s] # <<>> /\ inbox' = Taken(inbox, s) /\ m.type # "request"
      /\ UNCHANGED <<pipe, delayed, home, log>>
  BY DEF ReceiveResponse, Incoming, Read, Taken, fixed, sockets
<1>2. ops' = [ops EXCEPT ![m.op] = p]
  BY DEF ReceiveResponse, Responded
<1>3. m \in MessageType /\ InboxMessage(ops, home, s, m)
  BY <1>1, UnderWay, ReadMessage
<1>4. m.op \in DOMAIN ops
  BY <1>3 DEF InboxMessage
<1>5. DOMAIN inbox = Servers
  BY DEF IInv, Typed
<1>6. \A x \in Servers : Part(inbox'[x], inbox[x]) /\ Part(pipe[x], pipe[x]) /\ Part(delayed[x], delayed[x])
  BY <1>1, <1>5, TakenPart DEF Part
<1>7. Order(ops, home, pipe, inbox', delayed, log)
  BY <1>6, OrderTaken
<1> HIDE DEF m
<1>8. o \in OpType /\ OpInv(o)
  BY <1>4 DEF IInv, Typed, Ops
<1>9. Same(o, p)
  BY <1>1, <1>3, <1>8, RespondedOp
<1> HIDE DEF p
<1>10. /\ Extends(ops, ops') /\ DOMAIN ops' = DOMAIN ops
       /\ \A j \in DOMAIN ops : ops'[j].stage = "done" => ops[j].stage = "done"
  BY <1>2, <1>4, <1>9, OneStill DEF Same
<1> QED BY <1>1, <1>7, <1>10, OrderStill

LEMMA OrderRedisCounts ==
  ASSUME IInv, IInv', Ordered, NEW s \in Servers, RedisCounts(s)
  PROVE  Ordered'
<1> DEFINE m == Head(pipe[s])
           i == m.op
           o == ops[i]
           p == Numbered(o, Cardinality(On))
<1>1. /\ pipe[s] # <<>> /\ m.type = "numsub" /\ pipe' = Taken(pipe, s)
      /\ ops' = [ops EXCEPT ![i] = p] /\ UNCHANGED <<inbox, delayed, home, log>>
  BY DEF RedisCounts, Taken, Numbered, fixed, sockets
<1>2. PipeMessage(ops, home, s, m) /\ o.stage = "asked"
  BY <1>1, UnderWay, TakeMessage
<1>3. i \in DOMAIN ops
  BY <1>2 DEF PipeMessage
<1>4. DOMAIN pipe = Servers
  BY DEF IInv, Typed
<1>5. \A x \in Servers : Part(pipe'[x], pipe[x]) /\ Part(inbox[x], inbox[x]) /\ Part(delayed[x], delayed[x])
  BY <1>1, <1>4, TakenPart DEF Part
<1>6. Order(ops, home, pipe', inbox, delayed, log)
  BY <1>5, OrderTaken
<1> HIDE DEF m
<1>7. o \in OpType /\ OpInv(o)
  BY <1>3 DEF IInv, Typed, Ops
<1>8. Cardinality(On) \in Nat
  BY ClusterAssumption, FS_Subset, FS_CardinalityType DEF On
<1>9. Keeps(o, p) /\ p.stage = "counted"
  BY <1>7, <1>8, NumberedOp
<1> HIDE DEF p
<1>10. DOMAIN ops' = DOMAIN ops /\ \A j \in DOMAIN ops : ops'[j] = IF j = i THEN p ELSE ops[j]
  BY <1>1 DEF IInv, Typed
<1>11. \A j \in DOMAIN ops : ops'[j].stage = "done" => ops[j].stage = "done"
  BY <1>9, <1>10
<1>12. Extends(ops, ops')
  BY <1>2, <1>3, <1>9, <1>10 DEF Extends, Keeps
<1> QED BY <1>1, <1>6, <1>10, <1>11, <1>12, OrderStill

LEMMA OrderRedisRoutes ==
  ASSUME IInv, IInv', Ordered, NEW s \in Servers, RedisRoutes(s)
  PROVE  Ordered'
<1> DEFINE m == Head(pipe[s])
           o == ops[m.op]
           half == {t \in Servers : sub[t] = "pattern" /\ o.kind = "broadcast"}
<1>1. /\ pipe[s] # <<>> /\ pipe' = Taken(pipe, s)
      /\ UNCHANGED <<delayed, home, log, ops>>
  BY DEF RedisRoutes, Taken, fixed, sockets
<1>2. PICK H \in SUBSET half :
        LET to == IF m.type = "request" THEN On \union H ELSE On \intersect {o.from} IN
        inbox' = [t \in Servers |-> IF t \in to THEN Append(inbox[t], m) ELSE inbox[t]]
  BY DEF RedisRoutes
<1> DEFINE to == IF m.type = "request" THEN On \union H ELSE On \intersect {o.from}
<1>3. inbox' = Routed(inbox, to, m)
  BY <1>2 DEF Routed
<1>4. to \in SUBSET Servers
  BY DEF On
<1> HIDE DEF to, half
<1>5. \A x \in Servers : \A k \in DOMAIN pipe[x] :
        pipe[x][k].type = "request" => ops[pipe[x][k].op].from = x
  BY DEF IInv, References, Messages, PipeMessage
<1>6. /\ Referring(ops, pipe, inbox, delayed) /\ home \in [Clients -> Servers]
      /\ DOMAIN pipe = Servers /\ Order(ops, home, pipe, inbox, delayed, log)
  BY Refers DEF IInv, Typed, Ordered
<1>7. Order(ops, home, Taken(pipe, s), Routed(inbox, to, m), delayed, log)
  BY <1>1, <1>4, <1>5, <1>6, OrderRouted
<1>8. Order(ops, home, pipe', inbox', delayed', log')
  BY <1>1, <1>3, <1>7
<1>9. Extends(ops, ops')
  BY <1>1, Refl
<1> QED BY <1>1, <1>8, <1>9, OrderStill

\* The servers that listen change.
LEMMA DisturbedStill ==
  ASSUME IInv, UNCHANGED ops \/ ops' = Disturbed
  PROVE  /\ Extends(ops, ops') /\ DOMAIN ops' = DOMAIN ops
         /\ \A j \in DOMAIN ops : ops'[j].stage = "done" => ops[j].stage = "done"
<1>1. CASE UNCHANGED ops
  BY <1>1, Refl
<1>2. CASE ops' = Disturbed
  <2>1. Extends(ops, ops') /\ DOMAIN ops' = DOMAIN ops
    BY <1>2, DisturbedOps DEF Disturbed
  <2>2. ops' = [i \in DOMAIN ops |-> IF ops[i].settled = <<>> THEN Unlike(ops[i]) ELSE ops[i]]
    BY <1>2 DEF Disturbed, Unlike
  <2>3. ASSUME NEW j \in DOMAIN ops PROVE ops'[j].stage = ops[j].stage
    <3>1. ops[j] \in OpType
      BY DEF IInv, Typed
    <3>2. Unlike(ops[j]).stage = ops[j].stage
      BY <3>1, UnlikeOp
    <3> QED BY <2>2, <3>2
  <2> QED BY <2>1, <2>3
<1> QED BY <1>1, <1>2

LEMMA OrderSubscribe ==
  ASSUME IInv, IInv', Ordered, NEW s \in Servers, Subscribe(s)
  PROVE  Ordered'
<1>1. (UNCHANGED ops \/ ops' = Disturbed) /\ UNCHANGED <<pipe, inbox, delayed, home, log>>
  BY DEF Subscribe, Changes, sockets
<1>2. Order(ops, home, pipe', inbox', delayed', log')
  BY <1>1 DEF Ordered
<1> QED BY <1>1, <1>2, DisturbedStill, OrderStill

LEMMA OrderCrash ==
  ASSUME IInv, IInv', Ordered, NEW s \in Servers, Crash(s)
  PROVE  Ordered'
<1>1. /\ UNCHANGED ops \/ ops' = Disturbed
      /\ pipe' = Emptied(pipe, s) /\ inbox' = Emptied(inbox, s) /\ delayed' = Emptied(delayed, s)
      /\ UNCHANGED <<home, log>>
  BY DEF Crash, Changes, Emptied
<1>2. DOMAIN pipe = Servers /\ DOMAIN inbox = Servers /\ DOMAIN delayed = Servers
  BY DEF IInv, Typed
<1>3. \A x \in Servers : Part(pipe'[x], pipe[x]) /\ Part(inbox'[x], inbox[x]) /\ Part(delayed'[x], delayed[x])
  BY <1>1, <1>2 DEF Emptied, Part
<1>4. Order(ops, home, pipe', inbox', delayed', log)
  BY <1>3, OrderTaken
<1> QED BY <1>1, <1>4, DisturbedStill, OrderStill

LEMMA OrderStay ==
  ASSUME IInv, IInv', Ordered, UNCHANGED <<pipe, inbox, delayed, home, log, ops>>
  PROVE  Ordered'
<1>1. Order(ops, home, pipe', inbox', delayed', log') /\ Extends(ops, ops')
  BY Refl DEF Ordered
<1> QED BY <1>1, OrderStill

LEMMA OrderRunDelayed ==
  ASSUME IInv, IInv', Ordered, NEW s \in Servers, RunDelayed(s)
  PROVE  Ordered'
<1> DEFINE q == delayed[s]
           i == Head(q)
           o == ops[i]
<1>1. /\ Typed /\ Ops /\ q # <<>> /\ q \in Seq(Nat) /\ Delayed(ops, delayed)
      /\ home \in [Clients -> Servers] /\ log \in [Process -> Seq(Nat)]
  BY UnderWay DEF IInv, References, Typed, RunDelayed
<1>2. i \in Nat /\ i \in DOMAIN ops /\ o.kind \in {"broadcast", "ack"} /\ o.from = s
  BY <1>1, DelayedLess
<1>3. /\ delayed' = Taken(delayed, s) /\ Apply(s, i, o)
      /\ ops' = IF o.kind = "broadcast" THEN ops
                ELSE [ops EXCEPT ![i] = ClientCount(@, Cardinality(Reached(s, o)))]
      /\ UNCHANGED <<sub, pipe, inbox, home>>
  BY DEF RunDelayed, Taken, fixed
<1>4. DOMAIN delayed = Servers
  BY DEF IInv, Typed
<1>5. \A x \in Servers : Part(inbox[x], inbox[x]) /\ Part(pipe[x], pipe[x]) /\ Part(delayed'[x], delayed[x])
  BY <1>1, <1>3, <1>4, TakenPart DEF Part
<1>6. Order(ops, home, pipe, inbox, delayed', log)
  BY <1>5, OrderTaken
<1>7. /\ 1 \in DOMAIN q /\ q[1] = i /\ Tail(q) \in Seq(Nat)
      /\ \A k \in DOMAIN Tail(q) : k + 1 \in DOMAIN q /\ Tail(q)[k] = q[k + 1]
  BY <1>1, Pop
<1>8. \A k \in DOMAIN Tail(q) : 1 < k + 1
  BY <1>7
<1>9. delayed'[s] = Tail(q)
  BY <1>3, <1>4 DEF Taken
<1>10. \A k \in DOMAIN delayed'[s] : i < delayed'[s][k]
  <2>1. Rising(q)
    BY DEF Ordered, Order, Queues
  <2> DEFINE r == Tail(q)
  <2>2. \A k \in DOMAIN r : k + 1 \in DOMAIN q /\ r[k] = q[k + 1] /\ 1 < k + 1
    BY <1>7, <1>8
  <2> HIDE DEF r
  <2>3. \A k \in DOMAIN r : q[1] < r[k]
    BY <1>7, <2>1, <2>2 DEF Rising
  <2> QED BY <1>7, <1>9, <2>3 DEF r
<1> DEFINE H == Heard(s, o)
<1>11. \A x \in H : x \in Clients /\ home[x] = s
  BY <1>1, <1>2, ReachedClients DEF Heard
<1>12. \A x \in Process : log'[x] = IF x \in H THEN Append(log[x], i) ELSE log[x]
  BY <1>1, <1>2, <1>3, Applied
<1> HIDE DEF H
<1>13. ASSUME NEW x \in H
       PROVE  /\ Landed(ops, home, pipe, inbox, delayed', x, i)
              /\ \A k \in DOMAIN log[x] : Lands(ops, home, x, log[x][k], i)
  <2>1. x \in Clients /\ x \notin Servers /\ Place(home, x) = s /\ x \in Process
    BY <1>11, ClusterAssumption DEF Place, Process
  <2>2. BeforeHere(ops, i, delayed'[s])
    BY <1>10 DEF BeforeHere, AtHome
  <2>3. Landed(ops, home, pipe, inbox, delayed', x, i)
    BY <1>2, <2>1, <2>2 DEF Landed, Asks
  <2>4. ASSUME NEW k \in DOMAIN log[x] PROVE Lands(ops, home, x, log[x][k], i)
    <3> DEFINE j == log[x][k]
    <3>1. Landed(ops, home, pipe, inbox, delayed, x, j)
      BY <2>1 DEF Ordered, Order, Logs
    <3> HIDE DEF j
    <3>2. ops[j].from = s => AtHome(ops, j, i)
      <4>1. ops[j].from = s => BeforeHere(ops, j, q)
        BY <2>1, <3>1 DEF Landed
      <4> HIDE DEF q, i
      <4> QED BY <1>7, <4>1 DEF BeforeHere
    <3> HIDE DEF q, i
    <3>3. Lands(ops, home, x, j, i)
      BY <1>2, <1>11, <2>1, <3>2 DEF Lands, AtHome, RoomKinds
    <3> QED BY <3>3 DEF j
  <2> QED BY <2>3, <2>4
<1>14. Order(ops, home, pipe, inbox, delayed', log')
  BY <1>1, <1>2, <1>6, <1>12, <1>13, OrderLands
<1>15. /\ Extends(ops, ops') /\ DOMAIN ops' = DOMAIN ops
       /\ \A j \in DOMAIN ops : ops'[j].stage = "done" => ops[j].stage = "done"
  <2>1. CASE o.kind = "broadcast"
    <3>1. ops' = ops
      BY <1>3, <2>1
    <3> QED BY <3>1, Refl
  <2>2. CASE o.kind = "ack"
    <3> DEFINE n == Cardinality(Reached(s, o))
               p == ClientCount(o, n)
    <3>1. n \in Nat /\ o \in OpType /\ OpInv(o)
      BY <1>1, <1>2, ReachedClients DEF Typed, Ops
    <3>2. Same(o, p)
      BY <2>2, <3>1, ClientCountOp
    <3>3. ops' = [ops EXCEPT ![i] = p]
      BY <1>3, <2>2
    <3> HIDE DEF p
    <3>4. Keeps(o, p) /\ p.stage = o.stage
      BY <3>2 DEF Same
    <3> QED BY <1>2, <3>3, <3>4, OneStill
  <2> QED BY <1>2, <2>1, <2>2
<1> QED BY <1>3, <1>14, <1>15, OrderStill

LEMMA OrderReceiveRequest ==
  ASSUME IInv, IInv', Ordered, NEW s \in Servers, ReceiveRequest(s)
  PROVE  Ordered'
<1> DEFINE q == inbox[s]
           m == Head(q)
           i == m.op
           o == ops[i]
<1>1. /\ Typed /\ Ops /\ home \in [Clients -> Servers] /\ log \in [Process -> Seq(Nat)]
      /\ DOMAIN inbox = Servers /\ q \in Seq(MessageType) /\ pipe \in [Servers -> Seq(MessageType)]
  BY DEF IInv, Typed
<1>2. /\ q # <<>> /\ m.type = "request" /\ inbox' = Taken(inbox, s) /\ Apply(s, i, o)
      /\ pipe' = Sent(pipe, s, Replies(s, i, o)) /\ o.from # s /\ UNCHANGED <<delayed, home, ops>>
  BY DEF ReceiveRequest, Serve, Incoming, Read, Taken, Published, Sent, fixed
<1>3. m \in MessageType /\ InboxMessage(ops, home, s, m)
  BY <1>2, UnderWay, ReadMessage
<1>4. i \in DOMAIN ops /\ i \in Nat /\ ~o.local /\ (Asks(o) => o.stage = "done")
  BY <1>2, <1>3 DEF InboxMessage, MessageType
<1>5. \A x \in Servers : Part(inbox'[x], inbox[x]) /\ Part(pipe[x], pipe[x]) /\ Part(delayed[x], delayed[x])
  BY <1>1, <1>2, TakenPart DEF Part
<1>6. Order(ops, home, pipe, inbox', delayed, log)
  BY <1>5, OrderTaken
<1>7. /\ Path(ops, q) => Before(ops, i, Tail(q))
      /\ \A r : Ahead(ops, q, r) => Before(ops, i, r)
      /\ \A j : Before(ops, j, q) => Fits(ops, j, i)
  BY <1>1, <1>2, HeadOrder
<1>8. inbox'[s] = Tail(q)
  BY <1>1, <1>2 DEF Taken
<1>9. Before(ops, i, inbox'[s]) /\ \A x \in Servers : Before(ops, i, pipe[x])
  BY <1>7, <1>8 DEF Ordered, Order, Queues
<1> HIDE DEF q, m, i
<1> DEFINE H == Heard(s, o)
<1>10. \A x \in H : \/ (x \in Clients /\ x \notin Servers /\ home[x] = s
                        /\ o.kind \notin {"fetch", "emit", "tell"})
                    \/ (x = s /\ x \notin Clients /\ o.kind \in {"emit", "tell"})
  BY <1>1, ReachedClients, ClusterAssumption DEF Heard, Reached
<1>11. \A x \in Process : log'[x] = IF x \in H THEN Append(log[x], i) ELSE log[x]
  BY <1>1, <1>2, <1>4, Applied
<1> HIDE DEF H
<1>12. ASSUME NEW x \in H
       PROVE  /\ Landed(ops, home, pipe, inbox', delayed, x, i)
              /\ \A k \in DOMAIN log[x] : Lands(ops, home, x, log[x][k], i)
  <2>1. Place(home, x) = s /\ x \in Process
    BY <1>10 DEF Place, Process
  <2>2. Landed(ops, home, pipe, inbox', delayed, x, i)
    BY <1>2, <1>4, <1>9, <1>10, <2>1 DEF Landed
  <2>3. ASSUME NEW k \in DOMAIN log[x] PROVE Lands(ops, home, x, log[x][k], i)
    <3> DEFINE j == log[x][k]
    <3>1. Landed(ops, home, pipe, inbox, delayed, x, j)
      BY <2>1 DEF Ordered, Order, Logs
    <3> HIDE DEF j
    <3>2. ops[j].from = o.from => Fits(ops, j, i)
      <4>1. ops[j].from # s => Before(ops, j, q)
        BY <2>1, <3>1 DEF Landed, q
      <4> QED BY <1>2, <1>7, <4>1
    <3>3. x \in Servers => ops[j].kind \in {"emit", "tell"}
      BY <3>1 DEF Landed
    <3>4. Lands(ops, home, x, j, i)
      BY <1>10, <3>2, <3>3 DEF Lands, Fits, Asks
    <3> QED BY <3>4 DEF j
  <2> QED BY <2>2, <2>3
<1>13. Order(ops, home, pipe, inbox', delayed, log')
  BY <1>1, <1>4, <1>6, <1>11, <1>12, OrderLands
<1>14. Cardinality(Reached(s, o)) \in Nat
  BY <1>1, ReachedClients
<1>15. Order(ops, home, pipe', inbox', delayed', log')
  BY <1>1, <1>2, <1>4, <1>13, <1>14, OrderReplies
<1>16. Extends(ops, ops')
  BY <1>2, Refl
<1> QED BY <1>2, <1>15, <1>16, OrderStill

LEMMA OrderAnswer ==
  ASSUME IInv, IInv', Ordered, NEW x \in Process, NEW i \in DOMAIN ops, Answer(x, i)
  PROVE  Ordered'
<1> DEFINE o == ops[i]
           s == IF x \in Clients THEN home[x] ELSE x
           m == Message(IF o.kind = "ack" THEN "ack" ELSE "answer", i, x, 0)
<1>1. /\ Known(ops, waiting, log) /\ i \in Nat /\ o \in OpType /\ OpInv(o)
      /\ home \in [Clients -> Servers] /\ pipe \in [Servers -> Seq(MessageType)]
  BY DEF IInv, References, Typed, Ops
<1>2. /\ <<x, i>> \in waiting
      /\ UNCHANGED <<inbox, delayed, home, log>>
      /\ s = o.from => ops' = [ops EXCEPT ![i] = ClientAck(o, x)] /\ UNCHANGED pipe
      /\ s # o.from => UNCHANGED ops /\ pipe' = Sent(pipe, s, <<m>>)
  BY DEF Answer, Published, Sent, fixed
<1>3. Waits(ops, x, i) /\ s \in Servers
  BY <1>1, <1>2 DEF Known, Process
<1>4. s = o.from => o.kind = "ack"
  BY <1>3, ClusterAssumption DEF Waits
<1>5. Order(ops, home, pipe, inbox, delayed, log)
  BY DEF Ordered
<1>6. CASE s = o.from
  <2>1. Same(o, ClientAck(o, x))
    BY <1>1, <1>4, <1>6, ClientAckOp
  <2>2. /\ Extends(ops, ops') /\ DOMAIN ops' = DOMAIN ops
        /\ \A j \in DOMAIN ops : ops'[j].stage = "done" => ops[j].stage = "done"
    BY <1>2, <1>6, <2>1, OneStill DEF Same
  <2>3. Order(ops, home, pipe', inbox', delayed', log')
    BY <1>2, <1>5, <1>6
  <2> QED BY <1>2, <2>2, <2>3, OrderStill
<1>7. CASE s # o.from
  <2>1. m \in MessageType /\ m.type # "request"
    BY <1>1 DEF Message, MessageType
  <2> HIDE DEF m, s
  <2>2. Order(ops, home, Sent(pipe, s, <<m>>), inbox, delayed, log)
    BY <1>1, <1>3, <1>5, <2>1, OrderSent
  <2>3. Order(ops, home, pipe', inbox', delayed', log') /\ Extends(ops, ops')
    BY <1>2, <1>7, <2>2, Refl
  <2> QED BY <1>2, <1>7, <2>3, OrderStill
<1> QED BY <1>6, <1>7

\* The continuation of a count comes after those of the calls before it.
LEMMA OrderCountReply ==
  ASSUME IInv, IInv', Ordered, NEW i \in DOMAIN ops, CountReply(i)
  PROVE  Ordered'
<1> DEFINE o == ops[i]
           f == o.from
           p == Continued(o)
           alone == o.kind # "ack" /\ o.count = 1
           m == Request(f, i)
<1>1. /\ o \in OpType /\ OpInv(o) /\ o.stage = "counted" /\ i \in Nat /\ f \in Servers
      /\ \A j \in DOMAIN ops : j < i /\ ops[j].from = f => ops[j].stage = "done"
  <2>1. o \in OpType /\ OpInv(o) /\ i \in Nat /\ DOMAIN ops \subseteq Nat \ {0}
    BY DEF IInv, Typed, Ops
  <2>2. f \in Servers
    BY <2>1 DEF OpType
  <2>3. \A j \in DOMAIN ops : j < i => j \in 1 .. i - 1
    BY <2>1
  <2> QED BY <2>1, <2>2, <2>3 DEF CountReply
<1>2. o.kind \in {"ack", "fetch", "emit"}
  BY <1>1 DEF OpInv
<1>3. Keeps(o, p) /\ p.stage = "done"
  BY <1>1, <1>2, ContinuedOp
<1>4. ops' = [ops EXCEPT ![i] = p]
  BY DEF CountReply, Continued, Replied, Expecting, Armed, Pending
<1>5. /\ pipe' = Sent(pipe, f, IF alone \/ o.kind = "ack" THEN <<>> ELSE <<m>>)
      /\ UNCHANGED <<inbox, home, delayed, log>>
  BY DEF CountReply, Published, Sent, fixed, sockets
<1> HIDE DEF p
<1>6. DOMAIN ops' = DOMAIN ops /\ \A j \in DOMAIN ops : ops'[j] = IF j = i THEN p ELSE ops[j]
  BY <1>4 DEF IInv, Typed
<1>7. Extends(ops, ops')
  BY <1>3, <1>6 DEF Extends, Keeps
<1>8. CountsInOrder(ops')
  <2> SUFFICES ASSUME NEW j \in DOMAIN ops, NEW k \in DOMAIN ops, j < k, ops'[j].from = ops'[k].from,
                      ops'[j].kind \in {"ack", "fetch", "emit"}, ~ops'[j].local,
                      Asks(ops'[k]), ~ops'[k].local, ops'[k].stage = "done"
               PROVE  ops'[j].stage = "done"
    BY <1>6 DEF CountsInOrder
  <2>1. /\ ops[j].from = ops[k].from /\ ops[j].kind \in {"ack", "fetch", "emit"} /\ ~ops[j].local
        /\ Asks(ops[k]) /\ ~ops[k].local
    BY <1>7 DEF Extends, Keeps, Asks
  <2>2. CASE k = i
    BY <1>1, <1>3, <1>6, <2>1, <2>2
  <2>3. CASE k # i
    <3>1. ops[k].stage = "done"
      BY <1>6, <2>3
    <3>2. ops[j].stage = "done"
      BY <2>1, <3>1 DEF Ordered, CountsInOrder
    <3> QED BY <1>7, <3>2 DEF Extends
  <2> QED BY <2>2, <2>3
<1>9. pipe \in [Servers -> Seq(MessageType)] /\ Order(ops, home, pipe, inbox, delayed, log)
      /\ home \in [Clients -> Servers]
  BY DEF IInv, Typed, Ordered
<1>10. o.kind # "ack" => Asks(o) /\ ~o.local
  BY <1>1, <1>2 DEF OpInv, AskInv, Asks
<1>11. ASSUME o.kind # "ack", NEW j \in DOMAIN ops, Asks(ops[j]) => ops[j].stage = "done" /\ ~ops[j].local
       PROVE  Fits(ops, j, i)
  <2> SUFFICES ASSUME ops[j].from = f, Asks(ops[j]) PROVE j < i
    BY <1>10, <1>11 DEF Fits
  <2>1. j # i /\ j \in Nat
    BY <1>1, <1>11 DEF IInv, Typed
  <2>2. ~(i < j)
    BY <1>1, <1>2, <1>10, <1>11 DEF Ordered, CountsInOrder
  <2> QED BY <1>1, <2>1, <2>2
<1>12. o.kind # "ack" => Last(ops, pipe, inbox, log, i)
  <2> HAVE o.kind # "ack"
  <2>1. \A x \in Servers : \A k \in DOMAIN pipe[x] : pipe[x][k].type = "request" =>
          /\ pipe[x][k].op \in DOMAIN ops
          /\ Asks(ops[pipe[x][k].op]) => ops[pipe[x][k].op].stage = "done" /\ ~ops[pipe[x][k].op].local
    BY DEF IInv, References, Messages, PipeMessage
  <2>2. \A x \in Servers : \A k \in DOMAIN inbox[x] : inbox[x][k].type = "request" =>
          /\ inbox[x][k].op \in DOMAIN ops
          /\ Asks(ops[inbox[x][k].op]) => ops[inbox[x][k].op].stage = "done" /\ ~ops[inbox[x][k].op].local
    BY DEF IInv, References, Messages, InboxMessage
  <2>3. \A x \in Process : \A k \in DOMAIN log[x] :
          /\ log[x][k] \in DOMAIN ops
          /\ Asks(ops[log[x][k]]) => ops[log[x][k]].stage = "done" /\ ~ops[log[x][k]].local
    BY DEF Ordered, Order, Logs, Landed
  <2> HIDE DEF o
  <2> QED BY <1>11, <2>1, <2>2, <2>3 DEF Last
<1>13. Order(ops, home, pipe', inbox', delayed', log')
  <2>1. CASE alone \/ o.kind = "ack"
    <3>1. pipe' = pipe
      BY <1>1, <1>5, <1>9, <2>1, SendNothing
    <3> QED BY <1>5, <1>9, <3>1
  <2>2. CASE ~(alone \/ o.kind = "ack")
    <3>1. pipe' = Sent(pipe, f, <<m>>) /\ o.kind # "ack"
      BY <1>5, <2>2
    <3>2. m \in MessageType /\ m.op = i
      BY <1>1, RequestMessage
    <3> HIDE DEF m
    <3>3. Order(ops, home, Sent(pipe, f, <<m>>), inbox, delayed, log)
      BY <1>1, <1>9, <1>12, <3>1, <3>2, OrderSent
    <3> QED BY <1>5, <3>1, <3>3
  <2> QED BY <2>1, <2>2
<1> QED BY <1>5, <1>6, <1>7, <1>8, <1>13, OrderStep

\* The order when call o begins: nothing under way or done is later than it.
LEMMA OrderBegins ==
  ASSUME IInv, Ordered, NEW o \in OpType, OpInv(o), ops' = Append(ops, o),
         Asks(o) /\ ~o.local => o.stage # "done"
  PROVE  /\ Order(ops', home, pipe, inbox, delayed, log) /\ CountsInOrder(ops')
         /\ Last(ops', pipe, inbox, log, NextCall) /\ Referring(ops', pipe, inbox, delayed)
         /\ NextCall \in Nat /\ NextCall \in DOMAIN ops' /\ ops'[NextCall] = o
         /\ \A x \in Servers : \A k \in DOMAIN delayed[x] : delayed[x][k] < NextCall
         /\ \A x \in Process : \A k \in DOMAIN log[x] : log[x][k] < NextCall
<1>1. /\ Extends(ops, ops') /\ NextCall \in Nat /\ NextCall \in DOMAIN ops' /\ ops'[NextCall] = o
      /\ \A i \in DOMAIN ops : i \in DOMAIN ops' /\ ops'[i] = ops[i]
      /\ \A i \in DOMAIN ops' : i \in DOMAIN ops \/ i = NextCall
  BY AppendOps DEF IInv
<1>2. \A i \in DOMAIN ops : i < NextCall /\ i \in Nat
  BY DEF IInv, Typed, NextCall
<1>3. Referring(ops, pipe, inbox, delayed) /\ home \in [Clients -> Servers]
  BY Refers DEF IInv, Typed
<1>4. Order(ops', home, pipe, inbox, delayed, log)
  BY <1>1, <1>3, OrderKept DEF Ordered
<1>5. Referring(ops', pipe, inbox, delayed)
  BY <1>1, <1>3 DEF Referring
<1>6. \A x \in Servers : \A k \in DOMAIN delayed[x] : delayed[x][k] < NextCall
  BY <1>2, <1>3 DEF Referring
<1>7. \A x \in Process : \A k \in DOMAIN log[x] : log[x][k] < NextCall
  BY <1>2 DEF Ordered, Order, Logs, Landed
<1>8. Last(ops', pipe, inbox, log, NextCall)
  BY <1>2, <1>3, <1>7 DEF Last, Fits, Referring
<1>9. CountsInOrder(ops')
  <2> SUFFICES ASSUME NEW i \in DOMAIN ops', NEW j \in DOMAIN ops', i < j, ops'[i].from = ops'[j].from,
                      ops'[i].kind \in {"ack", "fetch", "emit"}, ~ops'[i].local,
                      Asks(ops'[j]), ~ops'[j].local, ops'[j].stage = "done"
               PROVE  ops'[i].stage = "done"
    BY DEF CountsInOrder
  <2>1. j \in DOMAIN ops
    BY <1>1
  <2>2. i \in DOMAIN ops
    BY <1>1, <1>2, <2>1
  <2> QED BY <1>1, <2>1, <2>2 DEF Ordered, CountsInOrder
<1> QED BY <1>1, <1>4, <1>5, <1>6, <1>7, <1>8, <1>9

\* Call o begins with what it publishes.
LEMMA OrderCalled ==
  ASSUME IInv, Ordered, NEW o \in OpType, OpInv(o), ops' = Append(ops, o), NEW s \in Servers,
         Asks(o) /\ ~o.local => o.stage # "done", NEW r \in BOOLEAN, NEW q \in BOOLEAN,
         pipe' = Published(s, CallMessages(s, r, q))
  PROVE  Order(ops', home, pipe', inbox, delayed, log) /\ CountsInOrder(ops')
<1>1. /\ Order(ops', home, pipe, inbox, delayed, log) /\ CountsInOrder(ops')
      /\ Last(ops', pipe, inbox, log, NextCall) /\ NextCall \in Nat
  BY OrderBegins
<1>2. /\ home \in [Clients -> Servers] /\ pipe \in [Servers -> Seq(MessageType)]
      /\ pipe' = Sent(pipe, s, CallMessages(s, r, q))
  BY DEF IInv, Typed, Published, Sent
<1>3. Order(ops', home, Sent(pipe, s, CallMessages(s, r, q)), inbox, delayed, log)
  BY <1>1, <1>2, OrderCall
<1> QED BY <1>1, <1>2, <1>3

\* A call that waits to be applied at home.
LEMMA OrderDelayed ==
  ASSUME IInv, Ordered, NEW o \in OpType, OpInv(o), ops' = Append(ops, o), NEW s \in Servers,
         ~Asks(o), NEW r \in BOOLEAN, NEW q \in BOOLEAN,
         pipe' = Published(s, CallMessages(s, r, q)),
         delayed' = Later(delayed, s, NextCall), UNCHANGED <<inbox, home, log>>
  PROVE  Ordered'
<1>1. /\ Order(ops', home, pipe, inbox, delayed, log) /\ CountsInOrder(ops')
      /\ Last(ops', pipe, inbox, log, NextCall) /\ Referring(ops', pipe, inbox, delayed)
      /\ NextCall \in Nat
      /\ \A k \in DOMAIN delayed[s] : delayed[s][k] < NextCall
      /\ \A x \in Process : \A k \in DOMAIN log[x] : log[x][k] < NextCall
  BY OrderBegins
<1>2. /\ home \in [Clients -> Servers] /\ DOMAIN delayed = Servers
      /\ pipe \in [Servers -> Seq(MessageType)]
      /\ pipe' = Sent(pipe, s, CallMessages(s, r, q))
  BY DEF IInv, Typed, Published, Sent
<1>3. Order(ops', home, pipe, inbox, delayed', log)
  BY <1>1, <1>2, OrderLater
<1>4. Order(ops', home, Sent(pipe, s, CallMessages(s, r, q)), inbox, delayed', log)
  BY <1>1, <1>2, <1>3, OrderCall
<1>5. Order(ops', home', pipe', inbox', delayed', log')
  BY <1>2, <1>4
<1> QED BY <1>1, <1>5 DEF Ordered

LEMMA OrderBroadcast ==
  ASSUME IInv, Ordered, NEW s \in Servers, NEW l \in BOOLEAN, NEW r \in Rooms \union {All},
         Broadcast(s, l, r)
  PROVE  Ordered'
<1> DEFINE o == NewOp("broadcast", s, l, r, All)
<1>1. o \in OpType /\ o.kind = "broadcast" /\ OpInv(o)
  BY NewCall, PlainCall DEF Kinds
<1>2. ops' = Append(ops, o) /\ pipe' = Published(s, Requested(s, l))
      /\ delayed' = Later(delayed, s, NextCall) /\ UNCHANGED <<inbox, home, log>>
  BY DEF Broadcast, Later, fixed, sockets
<1> HIDE DEF o
<1>3. Requested(s, l) = CallMessages(s, ~l, FALSE)
  BY DEF Requested, CallMessages
<1>4. ~Asks(o)
  BY <1>1 DEF Asks
<1> QED BY <1>1, <1>2, <1>3, <1>4, OrderDelayed

LEMMA OrderBroadcastWithAck ==
  ASSUME IInv, Ordered, NEW s \in Servers, NEW l \in BOOLEAN, NEW r \in Rooms \union {All},
         BroadcastWithAck(s, l, r)
  PROVE  Ordered'
<1> DEFINE o == AckCall(s, l, r)
<1>1. o \in OpType /\ o.kind = "ack" /\ OpInv(o)
  BY AckCallOp
<1>2. /\ ops' = Append(ops, o) /\ pipe' = Published(s, Requested(s, l) \o <<Numsub(s, NextCall)>>)
      /\ delayed' = Later(delayed, s, NextCall) /\ UNCHANGED <<inbox, home, log>>
  BY DEF BroadcastWithAck, AckCall, Asked, Armed, Pending, Later, fixed, sockets
<1> HIDE DEF o
<1>3. Requested(s, l) \o <<Numsub(s, NextCall)>> = CallMessages(s, ~l, TRUE)
  <2>1. <<Numsub(s, NextCall)>> \in Seq({Numsub(s, NextCall)})
    OBVIOUS
  <2>2. <<>> \o <<Numsub(s, NextCall)>> = <<Numsub(s, NextCall)>>
    BY <2>1, ConcatEmptySeq
  <2> QED BY <2>2 DEF Requested, CallMessages
<1>4. ~Asks(o)
  BY <1>1 DEF Asks
<1> QED BY <1>1, <1>2, <1>3, <1>4, OrderDelayed

LEMMA OrderAsk ==
  ASSUME IInv, Ordered, NEW s \in Servers, NEW k \in {"fetch", "emit"}, NEW l \in BOOLEAN, Ask(s, k, l)
  PROVE  Ordered'
<1> DEFINE o == AskCall(k, s, l)
<1>1. o \in OpType /\ (o.local <=> l) /\ (~l => o.stage = "asked") /\ OpInv(o)
  BY AskCallOp
<1>2. /\ ops' = Append(ops, o)
      /\ pipe' = Published(s, IF l THEN <<>> ELSE <<Numsub(s, NextCall)>>)
      /\ UNCHANGED <<inbox, home, delayed, log>>
  BY DEF Ask, AskCall, Asked, fixed, sockets
<1> HIDE DEF o
<1>3. (IF l THEN <<>> ELSE <<Numsub(s, NextCall)>>) = CallMessages(s, FALSE, ~l)
  BY DEF CallMessages
<1>4. Order(ops', home, pipe', inbox, delayed, log) /\ CountsInOrder(ops')
  BY <1>1, <1>2, <1>3, OrderCalled
<1> QED BY <1>2, <1>4 DEF Ordered

LEMMA OrderTell ==
  ASSUME IInv, Ordered, NEW s \in Servers, Tell(s)
  PROVE  Ordered'
<1> DEFINE o == NewOp("tell", s, FALSE, All, All)
<1>0. "tell" \in Kinds /\ "tell" \in Kinds \ {"ack", "fetch", "emit"} /\ FALSE \in BOOLEAN
      /\ All \in Rooms \union {All}
  BY DEF Kinds
<1>1. o \in OpType /\ o.kind = "tell" /\ OpInv(o)
  <2>1. \A l \in BOOLEAN : LET c == NewOp("tell", s, l, All, All)
                           IN  c \in OpType /\ c.kind = "tell" /\ c.from = s /\ (c.local <=> l)
    BY <1>0, NewCall
  <2>2. OpInv(NewOp("tell", s, FALSE, All, All))
    BY <1>0, PlainCall
  <2> QED BY <2>1, <2>2
<1>2. /\ ops' = Append(ops, o) /\ pipe' = Published(s, Requested(s, FALSE))
      /\ UNCHANGED <<inbox, home, delayed, log>>
  BY DEF Tell, fixed, sockets
<1> HIDE DEF o
<1>3. Requested(s, FALSE) = CallMessages(s, TRUE, FALSE)
  BY DEF Requested, CallMessages
<1>4. ~Asks(o)
  BY <1>1 DEF Asks
<1>5. Order(ops', home, pipe', inbox, delayed, log) /\ CountsInOrder(ops')
  BY <1>1, <1>2, <1>3, <1>4, OrderCalled
<1> QED BY <1>2, <1>5 DEF Ordered

\* A room operation overtakes the delayed broadcasts of its own server.
LEMMA OrderRoomCall ==
  ASSUME IInv, IInv', Ordered, NEW s \in Servers, NEW l \in BOOLEAN, NEW r \in Rooms \union {All},
         NEW k \in {"join", "leave", "disconnect"}, NEW a \in Rooms \union {All},
         RoomCall(s, k, l, r, a)
  PROVE  Ordered'
<1> DEFINE o == NewOp(k, s, l, r, a)
           i == NextCall
<1>0. k \in Kinds /\ k \in Kinds \ {"ack", "fetch", "emit"}
  BY DEF Kinds
<1>1. o \in OpType /\ o.kind = k /\ o.from = s /\ OpInv(o)
  BY <1>0, NewCall, PlainCall
<1>2. /\ ops' = Append(ops, o) /\ pipe' = Published(s, Requested(s, l)) /\ Apply(s, i, o)
      /\ UNCHANGED <<inbox, home, delayed>>
  BY DEF RoomCall, fixed
<1> HIDE DEF o
<1>3. Requested(s, l) = CallMessages(s, ~l, FALSE)
  BY DEF Requested, CallMessages
<1>4. ~Asks(o)
  BY <1>1 DEF Asks
<1>5. Order(ops', home, pipe', inbox, delayed, log) /\ CountsInOrder(ops')
  BY <1>1, <1>2, <1>3, <1>4, OrderCalled
<1>6. /\ i \in Nat /\ i \in DOMAIN ops' /\ ops'[i] = o
      /\ \A x \in Process : \A n \in DOMAIN log[x] : log[x][n] < i
  BY <1>1, <1>2, <1>4, OrderBegins
<1>7. Typed /\ log \in [Process -> Seq(Nat)]
  BY DEF IInv, Typed
<1> HIDE DEF i
<1> DEFINE H == Heard(s, o)
<1>8. \A x \in H : x \in Clients /\ home[x] = s
  BY <1>1, <1>7, ReachedClients DEF Heard
<1>9. \A x \in Process : log'[x] = IF x \in H THEN Append(log[x], i) ELSE log[x]
  BY <1>2, <1>6, <1>7, Applied
<1> HIDE DEF H
<1>10. BeforeHere(ops', i, delayed[s])
  <2>1. Delays(ops', s, delayed'[s])
    BY DEF IInv, References
  <2>2. \A n \in DOMAIN delayed[s] : ops'[delayed[s][n]].kind \in {"broadcast", "ack"}
    BY <1>2, <2>1 DEF Delays
  <2> QED BY <1>1, <1>6, <2>2 DEF BeforeHere, AtHome, RoomKinds
<1>11. ASSUME NEW x \in H
       PROVE  /\ Landed(ops', home, pipe', inbox, delayed, x, i)
              /\ \A n \in DOMAIN log[x] : Lands(ops', home, x, log[x][n], i)
  <2>1. x \in Clients /\ x \notin Servers /\ Place(home, x) = s /\ x \in Process
    BY <1>8, ClusterAssumption DEF Place, Process
  <2>2. Landed(ops', home, pipe', inbox, delayed, x, i)
    BY <1>1, <1>4, <1>6, <1>10, <2>1 DEF Landed
  <2>3. \A n \in DOMAIN log[x] : Lands(ops', home, x, log[x][n], i)
    BY <1>6, <2>1 DEF Lands
  <2> QED BY <2>2, <2>3
<1>12. Order(ops', home, pipe', inbox, delayed, log')
  BY <1>5, <1>6, <1>7, <1>9, <1>11, OrderLands
<1>13. Order(ops', home', pipe', inbox', delayed', log')
  BY <1>2, <1>12
<1> QED BY <1>5, <1>13 DEF Ordered

LEMMA OrderCalls ==
  ASSUME IInv, IInv', Ordered, NEW s \in Servers, Calls(s)
  PROVE  Ordered'
<1>1. CASE Tell(s)
  BY <1>1, OrderTell
<1>2. ASSUME NEW k \in {"fetch", "emit"}, NEW l \in BOOLEAN, Ask(s, k, l) PROVE Ordered'
  BY <1>2, OrderAsk
<1>3. ASSUME NEW l \in BOOLEAN, NEW r \in Rooms \union {All}, Broadcast(s, l, r) PROVE Ordered'
  BY <1>3, OrderBroadcast
<1>4. ASSUME NEW l \in BOOLEAN, NEW r \in Rooms \union {All}, BroadcastWithAck(s, l, r) PROVE Ordered'
  BY <1>4, OrderBroadcastWithAck
<1>5. ASSUME NEW l \in BOOLEAN, NEW r \in Rooms \union {All}, NEW k \in {"join", "leave", "disconnect"},
             NEW a \in Rooms \union {All}, RoomCall(s, k, l, r, a)
      PROVE  Ordered'
  BY <1>5, OrderRoomCall
<1> QED BY <1>1, <1>2, <1>3, <1>4, <1>5 DEF Calls

LEMMA OrderNext ==
  ASSUME IInv, IInv', Ordered, [Next]_vars
  PROVE  Ordered'
<1>1. ASSUME NEW s \in Servers, \/ Calls(s) \/ RunDelayed(s) \/ ReceiveRequest(s) \/ IgnoreSelf(s)
                                \/ ReceiveResponse(s) \/ RedisCounts(s) \/ RedisRoutes(s)
                                \/ Subscribe(s) \/ Crash(s)
      PROVE  Ordered'
  BY <1>1, OrderCalls, OrderRunDelayed, OrderReceiveRequest, OrderIgnoreSelf, OrderReceiveResponse,
     OrderRedisCounts, OrderRedisRoutes, OrderSubscribe, OrderCrash
<1>2. ASSUME NEW i \in DOMAIN ops, CountReply(i) \/ Timeout(i) \/ AckTimeout(i) \/ AckCleanup(i)
      PROVE  Ordered'
  BY <1>2, OrderCountReply, OrderTimeouts
<1>3. ASSUME NEW x \in Clients \union Servers, NEW i \in DOMAIN ops, Answer(x, i) PROVE Ordered'
  BY <1>3, OrderAnswer DEF Process
<1>4. ASSUME NEW c \in Clients, ClientLeaves(c) PROVE Ordered'
  BY <1>4, OrderStay DEF ClientLeaves, Changes, servers
<1>5. CASE UNCHANGED vars
  BY <1>5, OrderStay DEF vars, servers, fixed, sockets
<1> QED BY <1>1, <1>2, <1>3, <1>4, <1>5 DEF Next

LEMMA OrderInit == Init => Ordered
<1> SUFFICES ASSUME Init PROVE Ordered
  OBVIOUS
<1>1. /\ DOMAIN ops = {}
      /\ \A s \in Servers : /\ DOMAIN pipe[s] = {} /\ DOMAIN inbox[s] = {} /\ DOMAIN delayed[s] = {}
      /\ \A x \in Process : DOMAIN log[x] = {}
  BY DEF Init, Process
<1>2. Queues(ops, pipe, inbox, delayed)
  BY <1>1 DEF Queues, Path, Rising, Ahead
<1>3. Logs(ops, home, pipe, inbox, delayed, log)
  BY <1>1 DEF Logs
<1> QED BY <1>1, <1>2, <1>3 DEF Ordered, Order, CountsInOrder

\* The calls of one server reach each client and each listener in order and
\* none twice (adapter.ts:609, 657; mod.ts:131), with the two exceptions of the
\* code: room operations overtake delayed broadcasts at home, and what asks for
\* the count of servers is overtaken by what does not.
THEOREM CallsInOrder == Spec => []InOrderOnce
<1>1. IInv /\ Ordered => InOrderOnce
  <2> SUFFICES ASSUME IInv, Ordered, NEW x \in DOMAIN log, NEW p \in DOMAIN log[x], NEW q \in DOMAIN log[x],
                      p < q, ops[log[x][p]].from = ops[log[x][q]].from
               PROVE  LET first == ops[log[x][p]]  second == ops[log[x][q]] IN
                      \/ log[x][p] < log[x][q]
                      \/ /\ log[x][p] # log[x][q]
                         /\ x \in Clients /\ home[x] = first.from
                         /\ first.kind \in {"join", "leave", "disconnect"}
                         /\ second.kind \in {"broadcast", "ack"}
                      \/ first.kind = "tell" /\ second.kind = "emit"
    BY DEF InOrderOnce
  <2>1. x \in Process
    BY DEF IInv, Typed
  <2>2. Lands(ops, home, x, log[x][p], log[x][q])
    BY <2>1 DEF Ordered, Order, Logs
  <2> QED BY <2>2 DEF Lands, RoomKinds
<1>2. IInv /\ Ordered /\ [Next]_vars => IInv' /\ Ordered'
  BY NextInv, OrderNext
<1> QED BY <1>1, <1>2, InitInv, OrderInit, PTL DEF Spec
=============================================================================
