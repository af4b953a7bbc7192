---------------------------- MODULE ClusterAdapter ---------------------------
(***************************************************************************)
(* One namespace on several servers: Adapter (socket.io/lib/adapter.ts),   *)
(* the counting of acknowledgements in BroadcastOperator.emit              *)
(* (broadcast-operator.ts) and RedisAdapter (socket.io-redis-adapter),     *)
(* which joins the servers by a Redis that publishes and forgets.          *)
(*                                                                         *)
(* Every server writes its commands to one Redis connection, in order,     *)
(* and reads from another what its subscriptions bring, in Redis's order.  *)
(* Redis tells how many servers listen when the question reaches it; the   *)
(* answer is used later, when servers may have come and gone.  What the    *)
(* local adapter does with the sockets is one step here: InMemoryAdapter   *)
(* models its loop.                                                        *)
(***************************************************************************)
EXTENDS Integers, Sequences, FiniteSets

CONSTANTS
  Servers,   \* the processes of the cluster
  Clients,   \* the sockets of the namespace, on all servers
  Rooms,     \* the rooms the application names
  All,       \* the target of a call that names no room
  Scenarios  \* bounds, each a record: the kinds its first, second, ... call may
             \* have, how many changes there may be (steps of Subscribe, Crash
             \* and ClientLeaves), and how many servers take part

Kinds == {"broadcast", "ack", "join", "leave", "disconnect", "fetch", "emit", "tell"}

ASSUME ClusterAssumption ==
  /\ IsFiniteSet(Servers) /\ IsFiniteSet(Clients)
  /\ Servers \intersect Clients = {} /\ All \notin Rooms
  /\ Scenarios \subseteq [calls : Seq(SUBSET Kinds), changes : Nat, size : Nat]

VARIABLES
  sub,      \* per server: off, pattern (broadcast channel only), on, gone
  pipe,     \* per server: commands on their way to Redis
  inbox,    \* per server: what its subscription has still to read
  delayed,  \* per server: the setTimeout(0) of local broadcasts, in order
  home,     \* the server each client is connected to
  alive,    \* the clients that are connected
  rooms,    \* the rooms of each client
  waiting,  \* callbacks given and not yet called: <<client or server, call>>
  ops,      \* the calls of the application, with the state each one keeps
  scenario, \* the member of Scenarios chosen at the beginning
  changes,  \* how many changes there were
  log       \* history: per client and server, the calls that reached it

servers == <<sub, pipe, inbox, delayed>>
sockets == <<alive, rooms, waiting, log>>
fixed == <<home, scenario, changes>>
vars == <<servers, fixed, sockets, ops>>

On == {s \in Servers : sub[s] = "on"}

-----------------------------------------------------------------------------
(* The state of a call.                                                    *)

\* A call of server s: kind k, the local flag l, target r, the room a of a
\* join or leave.  cluster is a history: who listened, {} once that changed.
NewOp(k, s, l, r, a) ==
  [kind |-> k, from |-> s, local |-> l, to |-> r, room |-> a,
   stage |-> "done", count |-> 0, expected |-> -1, current |-> 0, clients |-> 0,
   responses |-> <<>>, pending |-> FALSE, timer |-> FALSE, timedOut |-> FALSE,
   settled |-> <<>>, cluster |-> IF s \in On THEN On ELSE {}]

\* The callback of a fetchSockets() or serverSideEmit() is called.
Settle(o, outcome) ==
  [o EXCEPT !.settled = Append(@, outcome), !.timer = FALSE, !.pending = FALSE]

\* A completeness that only looks at the clients known of.
CompleteByClients(o) ==
  IF ~o.timedOut /\ o.expected # -1 /\ Len(o.responses) = o.clients /\ o.timer
  THEN [o EXCEPT !.settled = Append(@, "ok"), !.timer = FALSE] ELSE o

\* checkCompleteness
CheckCompleteness(o) ==
  IF ~o.timedOut /\ o.expected = o.current /\ Len(o.responses) = o.clients
  THEN [o EXCEPT !.settled = Append(@, "ok"), !.timer = FALSE] ELSE o

\* clientCountCallback and ack of BroadcastOperator.emit
ClientCount(o, n) ==
  CheckCompleteness([o EXCEPT !.clients = @ + n, !.current = @ + 1])
ClientAck(o, c) == CheckCompleteness([o EXCEPT !.responses = Append(@, c)])

\* Adapter.onResponse for fetchSockets() and serverSideEmit()
Response(o, s) ==
  LET p == [o EXCEPT !.responses = Append(@, s), !.current = @ + 1] IN
  IF ~o.pending THEN o ELSE IF p.current = p.expected THEN Settle(p, "ok") ELSE p

\* History: the servers that listen change under the calls not yet settled.
Disturbed == [i \in DOMAIN ops |->
  IF ops[i].settled = <<>> THEN [ops[i] EXCEPT !.cluster = {}] ELSE ops[i]]

-----------------------------------------------------------------------------
(* What a server does with its own sockets, and what it publishes.         *)

Message(type, i, by, n) == [type |-> type, op |-> i, by |-> by, n |-> n]
Request(s, i) == Message("request", i, s, 0)
Numsub(s, i) == Message("numsub", i, s, 0)
Published(s, msgs) == [pipe EXCEPT ![s] = @ \o msgs]

Reached(s, o) ==
  {c \in alive : home[c] = s /\ o.kind \notin {"fetch", "emit", "tell"}
                             /\ (o.to # All => o.to \in rooms[c])}

\* The InMemoryAdapter's part of call i, and Namespace._onServerSideEmit.
Apply(s, i, o) ==
  LET M == Reached(s, o)
      heard == M \union IF o.kind \in {"emit", "tell"} THEN {s} ELSE {} IN
  /\ log' = [x \in Clients \union Servers |-> IF x \in heard THEN Append(log[x], i) ELSE log[x]]
  /\ rooms' = [c \in Clients |-> IF c \notin M THEN rooms[c]
                                 ELSE CASE o.kind = "join" -> rooms[c] \union {o.room}
                                        [] o.kind = "leave" -> rooms[c] \ {o.room}
                                        [] o.kind = "disconnect" -> {}
                                        [] OTHER -> rooms[c]]
  /\ alive' = IF o.kind = "disconnect" THEN alive \ M ELSE alive
  /\ waiting' = IF o.kind \in {"ack", "emit"} THEN waiting \union (heard \X {i}) ELSE waiting

-----------------------------------------------------------------------------
(* The application calls.                                                  *)

CanCall(s, k) ==
  Len(ops) < Len(scenario.calls) /\ k \in scenario.calls[Len(ops) + 1] /\ sub[s] # "gone"
NextCall == Len(ops) + 1
Requested(s, l) == IF l THEN <<>> ELSE <<Request(s, NextCall)>>

\* Adapter.broadcast
Broadcast(s, l, r) ==
  /\ CanCall(s, "broadcast")
  /\ ops' = Append(ops, NewOp("broadcast", s, l, r, All))
  /\ pipe' = Published(s, Requested(s, l))
  /\ delayed' = [delayed EXCEPT ![s] = Append(@, NextCall)]
  /\ UNCHANGED <<sub, inbox, fixed, sockets>>

\* A broadcastWithAck that reaches the local sockets in the call itself.
AckAtOnce(s, l, r) ==
  LET o == [NewOp("ack", s, l, r, All) EXCEPT !.stage = "asked", !.timer = TRUE, !.pending = ~l] IN
  /\ CanCall(s, "ack")
  /\ ops' = Append(ops, ClientCount(o, Cardinality(Reached(s, o)))) /\ Apply(s, NextCall, o)
  /\ pipe' = Published(s, Requested(s, l) \o <<Numsub(s, NextCall)>>)
  /\ UNCHANGED <<sub, inbox, delayed, fixed>>

\* BroadcastOperator.emit with a callback: its timer, Adapter.broadcastWithAck,
\* then serverCount()
BroadcastWithAck(s, l, r) ==
  /\ CanCall(s, "ack")
  /\ ops' = Append(ops, [NewOp("ack", s, l, r, All) EXCEPT
                           !.stage = "asked", !.timer = TRUE, !.pending = ~l])
  /\ pipe' = Published(s, Requested(s, l) \o <<Numsub(s, NextCall)>>)
  /\ delayed' = [delayed EXCEPT ![s] = Append(@, NextCall)]
  /\ UNCHANGED <<sub, inbox, fixed, sockets>>

\* Adapter.addSockets, delSockets, disconnectSockets
RoomCall(s, k, l, r, a) ==
  LET o == NewOp(k, s, l, r, a) IN
  /\ CanCall(s, k) /\ ops' = Append(ops, o)
  /\ Apply(s, NextCall, o)
  /\ pipe' = Published(s, Requested(s, l))
  /\ UNCHANGED <<sub, inbox, delayed, fixed>>

\* Adapter.fetchSockets, and serverSideEmit with a callback: they first ask
\* for the number of servers.  With the local flag, nobody is asked.
Ask(s, k, l) ==
  LET o == NewOp(k, s, l, All, All) IN
  /\ CanCall(s, k) /\ (k = "emit" => ~l)
  /\ ops' = Append(ops, IF l THEN Settle(o, "ok") ELSE [o EXCEPT !.stage = "asked"])
  /\ pipe' = Published(s, IF l THEN <<>> ELSE <<Numsub(s, NextCall)>>)
  /\ UNCHANGED <<sub, inbox, delayed, fixed, sockets>>

\* Adapter.serverSideEmit without a callback
Tell(s) ==
  /\ CanCall(s, "tell")
  /\ ops' = Append(ops, NewOp("tell", s, FALSE, All, All))
  /\ pipe' = Published(s, Requested(s, FALSE))
  /\ UNCHANGED <<sub, inbox, delayed, fixed, sockets>>

\* The continuation of serverCount(), in each of the three calls; the replies
\* of one connection come in order.
CountReply(i) ==
  LET o == [ops[i] EXCEPT !.stage = "done"]
      alone == o.kind # "ack" /\ o.count = 1 IN
  /\ ops[i].stage = "counted" /\ sub[o.from] # "gone"
  /\ \A j \in 1 .. i - 1 : ops[j].from = o.from => ops[j].stage = "done"
  /\ ops' = [ops EXCEPT ![i] =
       IF alone THEN Settle(o, "ok")
       ELSE IF o.kind = "ack" THEN CheckCompleteness([o EXCEPT !.expected = o.count])
       ELSE [o EXCEPT !.expected = o.count - 1, !.timer = TRUE, !.pending = TRUE]]
  /\ pipe' = Published(o.from, IF alone \/ o.kind = "ack" THEN <<>> ELSE <<Request(o.from, i)>>)
  /\ UNCHANGED <<sub, inbox, delayed, fixed, sockets>>

-----------------------------------------------------------------------------
(* Timers.                                                                 *)

\* The setTimeout(0) of broadcast and broadcastWithAck.
RunDelayed(s) ==
  LET i == Head(delayed[s]) IN
  /\ delayed[s] # <<>>
  /\ delayed' = [delayed EXCEPT ![s] = Tail(@)]
  /\ Apply(s, i, ops[i])
  /\ ops' = IF ops[i].kind = "broadcast" THEN ops
            ELSE [ops EXCEPT ![i] = ClientCount(@, Cardinality(Reached(s, ops[i])))]
  /\ UNCHANGED <<sub, pipe, inbox, fixed>>

\* A timeout that leaves the request where a late response finds it.
TimeoutForgets(i) ==
  /\ ops[i].timer /\ ops[i].kind # "ack" /\ sub[ops[i].from] # "gone"
  /\ ops' = [ops EXCEPT ![i] = [Settle(@, "error") EXCEPT !.pending = TRUE]]
  /\ UNCHANGED <<servers, fixed, sockets>>

\* The timeout of fetchSockets() and serverSideEmit().
Timeout(i) ==
  /\ ops[i].timer /\ ops[i].kind # "ack" /\ sub[ops[i].from] # "gone"
  /\ ops' = [ops EXCEPT ![i] = Settle(@, "error")]
  /\ UNCHANGED <<servers, fixed, sockets>>

\* The timeout of BroadcastOperator.emit.
AckTimeout(i) ==
  LET o == ops[i] IN
  /\ o.timer /\ o.kind = "ack" /\ sub[o.from] # "gone"
  /\ ops' = [ops EXCEPT ![i] = [o EXCEPT !.timedOut = TRUE, !.timer = FALSE,
                                        !.settled = Append(@, "error")]]
  /\ UNCHANGED <<servers, fixed, sockets>>

\* The timer of broadcastWithAck, set after that one for the same delay.
AckCleanup(i) ==
  /\ ops[i].kind = "ack" /\ ops[i].pending /\ ~ops[i].timer /\ sub[ops[i].from] # "gone"
  /\ ops' = [ops EXCEPT ![i].pending = FALSE]
  /\ UNCHANGED <<servers, fixed, sockets>>

-----------------------------------------------------------------------------
(* Messages of other servers: the loop over the subscription.              *)

Incoming(s) == sub[s] = "on" /\ inbox[s] # <<>>
Read(s) == inbox' = [inbox EXCEPT ![s] = Tail(@)]

\* Replies of a server that only reports the clients it has.
RepliesIfAny(s, i, o) ==
  LET n == Cardinality(Reached(s, o)) IN
  CASE o.kind = "ack" /\ n > 0 -> <<Message("count", i, s, n)>>
    [] o.kind = "fetch" -> <<Message("answer", i, s, 0)>>
    [] OTHER -> <<>>

\* The responses that serving request i publishes at once.
Replies(s, i, o) ==
  CASE o.kind = "ack" -> <<Message("count", i, s, Cardinality(Reached(s, o)))>>
    [] o.kind = "fetch" -> <<Message("answer", i, s, 0)>>
    [] OTHER -> <<>>

Serve(s) ==
  LET i == Head(inbox[s]).op IN
  /\ Incoming(s) /\ Head(inbox[s]).type = "request"
  /\ Read(s) /\ Apply(s, i, ops[i]) /\ pipe' = Published(s, Replies(s, i, ops[i]))
  /\ UNCHANGED <<sub, delayed, fixed, ops>>

\* A server that also serves the requests it sent itself.
ReceiveEcho(s) == Serve(s)

\* Adapter.onRequest for a request of another server
ReceiveRequest(s) == Serve(s) /\ ops[Head(inbox[s]).op].from # s

\* onRequest: ignore self
IgnoreSelf(s) ==
  /\ Incoming(s) /\ Head(inbox[s]).type = "request" /\ ops[Head(inbox[s]).op].from = s
  /\ Read(s)
  /\ UNCHANGED <<sub, pipe, delayed, fixed, sockets, ops>>

\* Adapter.onResponse
ReceiveResponse(s) ==
  LET m == Head(inbox[s]) IN
  /\ Incoming(s) /\ m.type # "request"
  /\ Read(s)
  /\ ops' = [ops EXCEPT ![m.op] =
       CASE m.type = "answer" -> Response(@, m.by)
         [] m.type = "count" /\ @.pending -> ClientCount(@, m.n)
         [] m.type = "ack" /\ @.pending -> ClientAck(@, m.by)
         [] OTHER -> @]
  /\ UNCHANGED <<sub, pipe, delayed, fixed, sockets>>

\* A client acknowledges a broadcast, or a listener answers serverSideEmit():
\* to the caller if it is on this server, else by a response.  A second answer
\* does nothing, by the acks of the socket and by `called`.
Answer(x, i) ==
  LET o == ops[i]  s == IF x \in Clients THEN home[x] ELSE x IN
  /\ <<x, i>> \in waiting /\ sub[s] # "gone" /\ (x \in Clients => x \in alive)
  /\ waiting' = waiting \ {<<x, i>>}
  /\ IF s = o.from
     THEN ops' = [ops EXCEPT ![i] = ClientAck(@, x)] /\ UNCHANGED pipe
     ELSE /\ UNCHANGED ops
          /\ pipe' = Published(s, <<Message(IF o.kind = "ack" THEN "ack" ELSE "answer", i, x, 0)>>)
  /\ UNCHANGED <<sub, inbox, delayed, fixed, alive, rooms, log>>

-----------------------------------------------------------------------------
(* Redis, and the servers that come and go.                                *)

\* PUBSUB NUMSUB: how many subscribe to the request channel now.
RedisCounts(s) ==
  LET i == Head(pipe[s]).op IN
  /\ pipe[s] # <<>> /\ Head(pipe[s]).type = "numsub"
  /\ pipe' = [pipe EXCEPT ![s] = Tail(@)]
  /\ ops' = [ops EXCEPT ![i] = [@ EXCEPT !.stage = "counted", !.count = Cardinality(On)]]
  /\ UNCHANGED <<sub, inbox, delayed, fixed, sockets>>

\* PUBLISH: a plain broadcast goes to the broadcast channel, other requests
\* to the request channel, a response to the channel of the one that asked.
\* A server whose SUBSCRIBE is under way may miss a broadcast: its client
\* takes one message for the reply to the command.
RedisRoutes(s) ==
  LET m == Head(pipe[s])  o == ops[m.op]
      half == {t \in Servers : sub[t] = "pattern" /\ o.kind = "broadcast"} IN
  /\ pipe[s] # <<>> /\ m.type # "numsub"
  /\ pipe' = [pipe EXCEPT ![s] = Tail(@)]
  /\ \E H \in SUBSET half :
       LET to == IF m.type = "request" THEN On \union H ELSE On \intersect {o.from} IN
       inbox' = [t \in Servers |-> IF t \in to THEN Append(inbox[t], m) ELSE inbox[t]]
  /\ UNCHANGED <<sub, delayed, fixed, sockets, ops>>

Changes == changes < scenario.changes /\ changes' = changes + 1 /\ UNCHANGED <<home, scenario>>

\* RedisAdapter's constructor: psubscribe, then subscribe.
Subscribe(s) ==
  /\ Changes
  /\ \/ sub[s] = "off" /\ sub' = [sub EXCEPT ![s] = "pattern"] /\ UNCHANGED ops
     \/ sub[s] = "pattern" /\ sub' = [sub EXCEPT ![s] = "on"] /\ ops' = Disturbed
  /\ UNCHANGED <<pipe, inbox, delayed, sockets>>

\* A server stops, with its clients and all it has not sent yet.
Crash(s) ==
  /\ Changes
  /\ sub[s] # "gone" /\ sub' = [sub EXCEPT ![s] = "gone"]
  /\ ops' = IF sub[s] = "on" THEN Disturbed ELSE ops
  /\ pipe' = [pipe EXCEPT ![s] = <<>>] /\ inbox' = [inbox EXCEPT ![s] = <<>>]
  /\ delayed' = [delayed EXCEPT ![s] = <<>>]
  /\ alive' = {c \in alive : home[c] # s}
  /\ UNCHANGED <<rooms, waiting, log>>

\* A client disconnects.
ClientLeaves(c) ==
  /\ Changes
  /\ c \in alive /\ alive' = alive \ {c} /\ rooms' = [rooms EXCEPT ![c] = {}]
  /\ UNCHANGED <<servers, waiting, log, ops>>

Init ==
  /\ scenario \in Scenarios /\ changes = 0
  /\ sub \in [Servers -> {"off", "pattern", "on", "gone"}]
  /\ Cardinality({s \in Servers : sub[s] # "gone"}) = scenario.size
  /\ pipe = [s \in Servers |-> <<>>] /\ inbox = pipe /\ delayed = pipe
  /\ home \in [Clients -> {s \in Servers : sub[s] # "gone"}] /\ alive = Clients
  /\ rooms \in [Clients -> SUBSET Rooms]
  /\ waiting = {} /\ ops = <<>>
  /\ log = [x \in Clients \union Servers |-> <<>>]

Calls(s) ==
  \/ Tell(s)
  \/ \E k \in {"fetch", "emit"}, l \in BOOLEAN : Ask(s, k, l)
  \/ \E l \in BOOLEAN, r \in Rooms \union {All} :
       \/ Broadcast(s, l, r)
       \/ BroadcastWithAck(s, l, r)
       \/ \E k \in {"join", "leave"}, a \in Rooms : RoomCall(s, k, l, r, a)
       \/ RoomCall(s, "disconnect", l, r, All)

Next ==
  \/ \E s \in Servers : \/ Calls(s) \/ RunDelayed(s)
                        \/ ReceiveRequest(s) \/ IgnoreSelf(s) \/ ReceiveResponse(s)
                        \/ RedisCounts(s) \/ RedisRoutes(s) \/ Subscribe(s) \/ Crash(s)
  \/ \E i \in DOMAIN ops : CountReply(i) \/ Timeout(i) \/ AckTimeout(i) \/ AckCleanup(i)
  \/ \E x \in Clients \union Servers, i \in DOMAIN ops : Answer(x, i)
  \/ \E c \in Clients : ClientLeaves(c)

Spec == Init /\ [][Next]_vars

-----------------------------------------------------------------------------
(* Properties.                                                             *)

Calling == {i \in DOMAIN ops : ops[i].kind \in {"ack", "fetch", "emit"}}
Values(q) == {q[k] : k \in DOMAIN q}
Distinct(q) == Cardinality(Values(q)) = Len(q)

\* The calls of one server reach each client and each listener in the order in
\* which they were made and none twice, although a broadcast is delayed where
\* it is made (adapter.ts:609), travels on a channel of its own (mod.ts:131) and
\* comes back to the server that sent it (adapter.ts:657).  Two exceptions
\* are the code's: at home, room operations overtake the delayed broadcasts; and
\* what serverSideEmit() sends without a callback overtakes what it sends with
\* one, after the count of servers.
InOrderOnce ==
  \A x \in DOMAIN log : \A p, q \in DOMAIN log[x] :
    LET first == ops[log[x][p]]  second == ops[log[x][q]] IN
    p < q /\ first.from = second.from =>
      \/ log[x][p] < log[x][q]
      \/ /\ log[x][p] # log[x][q]
         /\ x \in Clients /\ home[x] = first.from
         /\ first.kind \in {"join", "leave", "disconnect"}
         /\ second.kind \in {"broadcast", "ack"}
      \/ first.kind = "tell" /\ second.kind = "emit"

\* fetchSockets() and serverSideEmit() that succeed have the answer of every
\* other server, once each: if the cluster stayed the same, no answer was
\* counted for another, however late it was (onResponse, adapter.ts:829-853).
ResponsesExact ==
  \A i \in Calling :
    LET o == ops[i] IN
    o.kind # "ack" /\ ~o.local /\ o.settled = <<"ok">> /\ o.cluster # {} =>
      Distinct(o.responses) /\ Values(o.responses) = o.cluster \ {o.from}

\* A broadcast reported as acknowledged has been by every client it reaches, ever:
\* none acknowledged twice, and none still to be reached on a server that has
\* not told its number of clients (checkCompleteness, broadcast-operator.ts:229).
AckedMeansAnswered ==
  \A i \in Calling :
    LET o == ops[i] IN
    o.kind = "ack" /\ o.settled = <<"ok">> /\ o.cluster # {} =>
      /\ Distinct(o.responses)
      /\ Values(o.responses) = {c \in Clients : i \in Values(log[c])}

Quiet ==
  /\ \A s \in Servers : pipe[s] = <<>> /\ delayed[s] = <<>> /\ (s \in On => inbox[s] = <<>>)
  /\ \A i \in Calling : ops[i].stage = "done"
AllAnswered(i) == \A w \in waiting : w[2] # i

\* Once every message is read and every client or listener that was reached has
\* answered, a call has been settled: only a missing answer, or a change of the
\* cluster, leads to its timeout.  With the local flag this holds of a server that
\* is alone: the others are counted, but not asked (broadcast-operator.ts:261).
ClusterCompletes ==
  \A i \in Calling :
    LET o == ops[i] IN
    /\ o.cluster # {} /\ Quiet /\ AllAnswered(i)
    /\ o.local => o.cluster = {o.from}
    => o.settled # <<>>

\* The callback of a call is called exactly once: never again after its timeout
\* or its last answer, and as long as it has not been, a timer is armed or the
\* number of servers is still on its way.  The table of pending requests holds
\* just those whose timer is armed (adapter.ts:484-507, 555-579, 843-850).
EndsOnce ==
  \A i \in Calling :
    LET o == ops[i] IN
    /\ Len(o.settled) =
         IF o.timer \/ (o.kind # "ack" /\ o.stage # "done") THEN 0 ELSE 1
    /\ o.kind # "ack" => o.pending = o.timer
=============================================================================
