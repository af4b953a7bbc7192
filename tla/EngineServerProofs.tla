-------------------------- MODULE EngineServerProofs --------------------------
(***************************************************************************)
(* Registered, HeldIsPending and ConnectionFirst hold for any number of    *)
(* sessions and requests.  The properties are not inductive: they rest on  *)
(* what a session is before "connection" (Unannounced) and on the fact     *)
(* that only the request of its handshake knows it till then (Secret).     *)
(*                                                                         *)
(* Every step is a composition of helpers on a record of the state, so the *)
(* invariant Inv is one of records: each helper has a lemma that it keeps  *)
(* Inv, and an action the ones of the helpers it is built from.            *)
(***************************************************************************)
EXTENDS EngineServer, TLAPS

SessionType ==
  [readyState : {"absent", "open", "closing", "closed"}, via : {"polling", "websocket"},
   wsOpen : BOOLEAN, upgradeState : {"not_upgraded", "upgrading", "upgraded"},
   buffered : BOOLEAN, poll : Requests \union {NoRequest},
   announced : BOOLEAN, missed : BOOLEAN]

RequestType ==
  [kind : Kinds, sid : Sids \union {NoSid},
   step : {"idle", "headers", "allow", "handshaking", "held", "reading", "answered"},
   answer : {"none", "ok", "refused", "failed"}]

StateType ==
  [clients : SUBSET Sids, sess : [Sids -> SessionType], req : [Requests -> RequestType]]

Handshakes == {"handshake", "wsHandshake"}

\* The parts of the invariant, of a state st.
Known(st) == \A s \in Sids : s \in st.clients <=> st.sess[s].readyState \in {"open", "closing"}

Pending(st) ==
  \A s \in Sids : st.sess[s].poll # NoRequest =>
    LET q == st.req[st.sess[s].poll] IN q.step = "held" /\ q.sid = s

Held(st) ==
  \A r \in Requests : st.req[r].step = "held" =>
    LET s == st.req[r].sid
    IN  /\ s \in Sids
        /\ st.sess[s].poll = r /\ st.sess[s].via = "polling"
        /\ s \in st.clients \/ (st.req[r].kind = "handshake" /\ st.sess[s].readyState = "closed")

\* Until "connection" is emitted, the session is as its handshake left it but
\* for its end.
Unannounced(st) ==
  \A s \in Sids :
    /\ ~st.sess[s].announced =>
         /\ st.sess[s].poll = NoRequest /\ st.sess[s].upgradeState = "not_upgraded"
         /\ ~st.sess[s].wsOpen
    /\ st.sess[s].readyState = "absent" => ~st.sess[s].announced /\ st.sess[s].via = "polling"
    /\ ~st.sess[s].missed

\* And only the request r of that handshake knows the session.
SecretOf(st, r) ==
  LET q == st.req[r] IN
    /\ q.sid \in Sids => /\ st.sess[q.sid].readyState # "absent"
                         /\ st.sess[q.sid].announced \/ q.step = "handshaking"
    /\ q.step # "answered" => q.answer = "none"
    /\ q.step = "handshaking" =>
         /\ q.kind \in Handshakes /\ q.sid \in Sids
         /\ ~st.sess[q.sid].announced
         /\ st.sess[q.sid].via = IF q.kind = "handshake" THEN "polling" ELSE "websocket"
         /\ \A p \in Requests : st.req[p].sid = q.sid => p = r
    /\ q.step = "allow" => (q.sid = NoSid <=> q.kind \in Handshakes)
    /\ q.step = "headers" => (q.kind \in Handshakes => q.sid = NoSid)
    /\ q.step \in {"held", "reading"} => q.sid \in Sids

Secret(st) == \A r \in Requests : SecretOf(st, r)

Inv(st) ==
  st \in StateType /\ Known(st) /\ Pending(st) /\ Held(st) /\ Unannounced(st) /\ Secret(st)

IInv == Inv(State)

-----------------------------------------------------------------------------
(* What the helpers do to a state.                                         *)

\* A new record for one session.
Put(st, s, x) == [st EXCEPT !.sess = [st.sess EXCEPT ![s] = x]]

LEMMA PutInv ==
  ASSUME NEW st, Inv(st), NEW s \in Sids, NEW x \in SessionType,
         x.announced = st.sess[s].announced, ~x.missed, x.poll = st.sess[s].poll,
         \/ x.readyState = st.sess[s].readyState
         \/ {x.readyState, st.sess[s].readyState} \subseteq {"open", "closing"},
         x.via = st.sess[s].via \/ (st.sess[s].poll = NoRequest /\ st.sess[s].announced),
         ~x.announced => x.upgradeState = "not_upgraded" /\ ~x.wsOpen
  PROVE  Inv(Put(st, s, x))
<1> DEFINE n == Put(st, s, x)
<1>1. /\ n \in StateType /\ n.clients = st.clients /\ n.req = st.req
      /\ \A t \in Sids : n.sess[t] = IF t = s THEN x ELSE st.sess[t]
  BY DEF Inv, StateType, Put
<1> HIDE DEF n
<1>2. Known(n)
  BY <1>1 DEF Inv, Known
<1>3. Pending(n)
  BY <1>1 DEF Inv, Pending
<1>4. Held(n)
  BY <1>1, NoneAssumption DEF Inv, Held, Known
<1>5. Unannounced(n)
  BY <1>1 DEF Inv, Unannounced
<1>6. Secret(n)
  BY <1>1 DEF Inv, Secret, SecretOf
<1> QED BY <1>1, <1>2, <1>3, <1>4, <1>5, <1>6 DEF Inv, n

LEMMA AnswerInv ==
  ASSUME NEW st, Inv(st), NEW r \in Requests, NEW how \in {"ok", "refused", "failed"},
         st.req[r].step \notin {"handshaking", "held"}
  PROVE  Inv(Answer(st, r, how))
<1> DEFINE n == Answer(st, r, how)
           q == [st.req[r] EXCEPT !.step = "answered", !.answer = how]
<1>1. /\ n \in StateType /\ n.clients = st.clients /\ n.sess = st.sess
      /\ \A p \in Requests : n.req[p] = IF p = r THEN q ELSE st.req[p]
  <2>1. n = [st EXCEPT !.req = [st.req EXCEPT ![r] = q]] /\ q \in RequestType
    BY DEF Inv, StateType, RequestType, Answer
  <2> HIDE DEF n, q
  <2> QED BY <2>1 DEF Inv, StateType
<1>2. q.step = "answered" /\ q.sid = st.req[r].sid
  BY DEF Inv, StateType, RequestType
<1> HIDE DEF n, q
<1>3. Known(n)
  BY <1>1 DEF Inv, Known
<1>4. Pending(n)
  BY <1>1, <1>2 DEF Inv, Pending, StateType, SessionType
<1>5. Held(n)
  BY <1>1, <1>2 DEF Inv, Held
<1>6. Unannounced(n)
  BY <1>1 DEF Inv, Unannounced
<1>7. Secret(n)
  BY <1>1, <1>2 DEF Inv, Secret, SecretOf
<1> QED BY <1>1, <1>3, <1>4, <1>5, <1>6, <1>7 DEF Inv, n

LEMMA ReplyInv ==
  ASSUME NEW st, Inv(st), NEW s \in Sids
  PROVE  LET n == Reply(st, s)
         IN  /\ Inv(n) /\ n.clients = st.clients
             /\ \A t \in Sids : n.sess[t] = IF t = s THEN [st.sess[s] EXCEPT !.poll = NoRequest]
                                            ELSE st.sess[t]
<1> DEFINE n == Reply(st, s)
           r == st.sess[s].poll
           q == [st.req[r] EXCEPT !.step = "answered", !.answer = "ok"]
           x == [st.sess[s] EXCEPT !.poll = NoRequest]
<1>0. st \in StateType /\ st.sess[s] \in SessionType
  BY DEF Inv, StateType
<1>1. CASE r = NoRequest
  BY <1>0, <1>1 DEF Reply, StateType, SessionType
<1>2. CASE r # NoRequest
  <2>1. r \in Requests /\ st.req[r] \in RequestType /\ st.req[r].step = "held" /\ st.req[r].sid = s
    BY <1>0, <1>2 DEF StateType, SessionType, Inv, Pending
  <2>2. /\ q \in RequestType /\ q.step = "answered" /\ q.sid = s
        /\ x \in SessionType /\ x.poll = NoRequest /\ x.via = st.sess[s].via
        /\ x.readyState = st.sess[s].readyState /\ x.announced = st.sess[s].announced
        /\ x.missed = st.sess[s].missed /\ x.wsOpen = st.sess[s].wsOpen
        /\ x.upgradeState = st.sess[s].upgradeState
    BY <1>0, <2>1 DEF SessionType, RequestType
  <2>3. n = [st EXCEPT !.req = [st.req EXCEPT ![r] = q], !.sess = [st.sess EXCEPT ![s] = x]]
    BY <1>0, <1>2, <2>1 DEF Reply, Answer, StateType
  <2>4. /\ n \in StateType /\ n.clients = st.clients
        /\ \A t \in Sids : n.sess[t] = IF t = s THEN x ELSE st.sess[t]
        /\ \A p \in Requests : n.req[p] = IF p = r THEN q ELSE st.req[p]
    <3> HIDE DEF x, q, n
    <3> QED BY <1>0, <2>1, <2>2, <2>3 DEF StateType
  <2> HIDE DEF x, q, n
  <2>5. Known(n)
    BY <2>2, <2>4 DEF Inv, Known
  <2>6. Pending(n)
    <3>1. \A t \in Sids : st.sess[t].poll \in Requests \union {NoRequest}
      BY <1>0 DEF StateType, SessionType
    <3> QED BY <2>1, <2>2, <2>4, <3>1 DEF Inv, Pending
  <2>7. Held(n)
    BY <2>1, <2>2, <2>4 DEF Inv, Held
  <2>8. Unannounced(n)
    BY <2>2, <2>4 DEF Inv, Unannounced
  <2>9. Secret(n)
    <3>1. Secret(st) /\ st.sess[s].announced
      BY <1>2 DEF Inv, Unannounced
    <3>2. \A t \in Sids : /\ n.sess[t].announced <=> st.sess[t].announced
                         /\ n.sess[t].readyState = st.sess[t].readyState
                         /\ n.sess[t].via = st.sess[t].via
      BY <2>2, <2>4
    <3> SUFFICES ASSUME NEW p \in Requests PROVE SecretOf(n, p)
      BY DEF Secret
    <3>3. CASE p = r
      <4>1. n.req[p].sid = s /\ n.req[p].step = "answered" /\ SecretOf(st, r)
        BY <2>1, <2>2, <2>4, <3>1, <3>3 DEF Secret
      <4>2. st.sess[s].readyState # "absent"
        BY <2>1, <4>1 DEF SecretOf
      <4> QED BY <3>1, <3>2, <4>1, <4>2, NoneAssumption DEF SecretOf
    <3>4. CASE p # r
      <4>1. /\ n.req[p] = st.req[p] /\ SecretOf(st, p)
            /\ \A o \in Requests : n.req[o].sid = st.req[o].sid
        BY <2>1, <2>2, <2>4, <3>1, <3>4 DEF Secret
      <4> QED BY <3>2, <4>1 DEF SecretOf
    <3> QED BY <3>3, <3>4
  <2> QED BY <2>4, <2>5, <2>6, <2>7, <2>8, <2>9 DEF Inv, n, x
<1> QED BY <1>1, <1>2

LEMMA CloseSessionInv ==
  ASSUME NEW st, Inv(st), NEW s \in Sids, st.sess[s].readyState # "absent"
  PROVE  Inv(CloseSession(st, s))
<1> DEFINE m == Reply(st, s)
           x == [m.sess[s] EXCEPT !.readyState = "closed"]
           n == CloseSession(st, s)
<1>1. CASE st.sess[s].readyState = "closed"
  BY <1>1 DEF CloseSession
<1>2. CASE st.sess[s].readyState # "closed"
  <2>1. /\ Inv(m) /\ m.clients = st.clients
        /\ m.sess[s] = [st.sess[s] EXCEPT !.poll = NoRequest] /\ m \in StateType
    BY ReplyInv DEF Inv
  <2>2. st.sess[s] \in SessionType
    BY DEF Inv, StateType
  <2>3. /\ m.sess[s].poll = NoRequest /\ m.sess[s].readyState = st.sess[s].readyState
        /\ m.sess[s] \in SessionType
    BY <2>1, <2>2 DEF SessionType
  <2> HIDE DEF m
  <2>4. n = [m EXCEPT !.sess = [m.sess EXCEPT ![s] = x], !.clients = m.clients \ {s}]
    BY <1>2, <2>1 DEF CloseSession, StateType, m
  <2>5. /\ x \in SessionType /\ x.readyState = "closed" /\ x.poll = m.sess[s].poll
        /\ x.via = m.sess[s].via /\ x.announced = m.sess[s].announced /\ x.missed = m.sess[s].missed
        /\ x.wsOpen = m.sess[s].wsOpen /\ x.upgradeState = m.sess[s].upgradeState
    BY <2>3 DEF SessionType
  <2> HIDE DEF n, x
  <2>6. /\ n \in StateType /\ n.clients = m.clients \ {s} /\ n.req = m.req
        /\ \A t \in Sids : n.sess[t] = IF t = s THEN x ELSE m.sess[t]
    BY <2>1, <2>4, <2>5 DEF StateType
  <2>7. Known(n)
    BY <2>1, <2>5, <2>6 DEF Inv, Known
  <2>8. Pending(n)
    BY <2>1, <2>5, <2>6 DEF Inv, Pending
  <2>9. Held(n)
    <3> SUFFICES ASSUME NEW r \in Requests, n.req[r].step = "held"
                 PROVE  LET t == n.req[r].sid
                        IN  /\ t \in Sids
                            /\ n.sess[t].poll = r /\ n.sess[t].via = "polling"
                            /\ t \in n.clients
                                 \/ (n.req[r].kind = "handshake" /\ n.sess[t].readyState = "closed")
      BY DEF Held
    <3>1. /\ m.req[r].sid \in Sids /\ m.sess[m.req[r].sid].poll = r
          /\ m.sess[m.req[r].sid].via = "polling"
          /\ m.req[r].sid \in m.clients
               \/ (m.req[r].kind = "handshake" /\ m.sess[m.req[r].sid].readyState = "closed")
      BY <2>1, <2>6 DEF Inv, Held
    <3>2. m.req[r].sid # s
      BY <2>3, <3>1, NoneAssumption
    <3> QED BY <2>6, <3>1, <3>2
  <2>10. Unannounced(n)
    BY <2>1, <2>5, <2>6 DEF Inv, Unannounced
  <2>11. Secret(n)
    <3>1. Secret(m)
      BY <2>1 DEF Inv
    <3> QED BY <3>1, <2>5, <2>6 DEF Secret, SecretOf
  <2> QED BY <2>6, <2>7, <2>8, <2>9, <2>10, <2>11 DEF Inv, n
<1> QED BY <1>1, <1>2

\* Flush touches one session; what waits is written or it does nothing.
LEMMA FlushInv ==
  ASSUME NEW st, Inv(st), NEW s \in Sids, st.sess[s].readyState # "absent"
  PROVE  Inv(Flush(st, s))
<1> DEFINE m == Reply(st, s)
           x == [m.sess[s] EXCEPT !.buffered = FALSE]
           n == [m EXCEPT !.sess[s].buffered = FALSE]
<1>1. /\ Inv(m) /\ m.sess[s] = [st.sess[s] EXCEPT !.poll = NoRequest] /\ m \in StateType
  BY ReplyInv DEF Inv
<1>2. st.sess[s] \in SessionType
  BY DEF Inv, StateType
<1>3. m.sess[s] \in SessionType /\ m.sess[s].readyState # "absent"
  BY <1>1, <1>2 DEF SessionType
<1>4. n = Put(m, s, x)
  BY <1>1 DEF StateType, Put
<1> HIDE DEF m
<1>5. /\ x \in SessionType /\ x.readyState = m.sess[s].readyState /\ x.poll = m.sess[s].poll
      /\ x.via = m.sess[s].via /\ x.announced = m.sess[s].announced /\ x.missed = m.sess[s].missed
      /\ x.wsOpen = m.sess[s].wsOpen /\ x.upgradeState = m.sess[s].upgradeState
  BY <1>3 DEF SessionType
<1> HIDE DEF x, n
<1>6. Inv(n) /\ n.sess[s].readyState # "absent"
  <2>1. /\ ~m.sess[s].missed
        /\ ~m.sess[s].announced => m.sess[s].upgradeState = "not_upgraded" /\ ~m.sess[s].wsOpen
    BY <1>1 DEF Inv, Unannounced
  <2>3. Inv(Put(m, s, x))
    BY <1>1, <1>5, <2>1, PutInv
  <2>2. n.sess[s] = x
    BY <1>1, <1>4 DEF Put, StateType
  <2> QED BY <2>3, <2>2, <1>3, <1>4, <1>5
<1>7. Flush(st, s) \in {st, n, CloseSession(n, s)}
  BY DEF Flush, m, n
<1> QED BY <1>6, <1>7, CloseSessionInv

\* A request that nothing holds goes to the polling transport of its session.
LEMMA PollRequestInv ==
  ASSUME NEW st, NEW r \in Requests, NEW s \in Sids, Inv(st), st.req[r].step = "allow",
         st.req[r].sid = s, st.sess[s].via = "polling", s \in st.clients
  PROVE  Inv(PollRequest(st, r, s))
<1>1. /\ st.sess[s] \in SessionType /\ st.req[r] \in RequestType /\ st \in StateType
      /\ st.sess[s].readyState # "absent" /\ st.sess[s].announced
  BY DEF Inv, StateType, Known, Secret, SecretOf
<1>2. CASE st.sess[s].poll # NoRequest
  <2> DEFINE m == CloseSession(st, s)
  <2>1. Inv(m) /\ m.req[r].step = "allow"
    <3>1. m.req[r].step = "allow"
      BY <1>1, <1>2 DEF CloseSession, Reply, Answer, StateType, SessionType, Inv, Pending
    <3> QED BY <1>1, <3>1, CloseSessionInv
  <2> QED BY <1>2, <2>1, AnswerInv DEF PollRequest
<1>3. CASE st.sess[s].poll = NoRequest
  <2> DEFINE x == [st.sess[s] EXCEPT !.poll = r]
             q == [st.req[r] EXCEPT !.step = "held"]
             n == [st EXCEPT !.sess[s].poll = r, !.req[r].step = "held"]
  <2>1. /\ x \in SessionType /\ x.readyState = st.sess[s].readyState /\ x.poll = r
        /\ x.via = st.sess[s].via /\ x.announced = st.sess[s].announced /\ x.missed = st.sess[s].missed
        /\ x.wsOpen = st.sess[s].wsOpen /\ x.upgradeState = st.sess[s].upgradeState
        /\ q \in RequestType /\ q.step = "held" /\ q.sid = s /\ q.kind = st.req[r].kind
        /\ q.answer = "none"
    BY <1>1 DEF SessionType, RequestType, Inv, Secret, SecretOf
  <2>2. x.announced /\ ~x.missed /\ x.readyState # "absent"
    BY <1>1 DEF Inv, Unannounced, SessionType
  <2>3. n = [st EXCEPT !.sess = [st.sess EXCEPT ![s] = x], !.req = [st.req EXCEPT ![r] = q]]
    BY <1>1 DEF StateType
  <2> HIDE DEF x, q, n
  <2>4. /\ n \in StateType /\ n.clients = st.clients
        /\ \A t \in Sids : n.sess[t] = IF t = s THEN x ELSE st.sess[t]
        /\ \A p \in Requests : n.req[p] = IF p = r THEN q ELSE st.req[p]
    BY <1>1, <2>1, <2>3 DEF StateType
  <2>5. Known(n)
    BY <2>1, <2>4 DEF Inv, Known
  <2>6. Pending(n)
    BY <2>1, <2>4 DEF Inv, Pending, StateType, SessionType
  <2>7. Held(n)
    BY <1>3, <2>1, <2>4, NoneAssumption DEF Inv, Held
  <2>8. Unannounced(n)
    <3>1. Unannounced(st)
      BY DEF Inv
    <3> QED BY <1>1, <2>1, <2>2, <2>4, <3>1 DEF Unannounced
  <2>9. Secret(n)
    <3>1. Secret(st)
      BY DEF Inv
    <3>2. \A t \in Sids : /\ n.sess[t].announced <=> st.sess[t].announced
                         /\ n.sess[t].readyState = st.sess[t].readyState
                         /\ n.sess[t].via = st.sess[t].via
      BY <2>1, <2>4
    <3> SUFFICES ASSUME NEW p \in Requests PROVE SecretOf(n, p)
      BY DEF Secret
    <3>3. CASE p = r
      BY <1>1, <2>1, <2>4, <3>1, <3>2, <3>3 DEF Secret, SecretOf
    <3>4. CASE p # r
      <4>1. /\ n.req[p] = st.req[p] /\ SecretOf(st, p)
            /\ \A o \in Requests : n.req[o].sid = st.req[o].sid
        BY <2>1, <2>4, <3>1, <3>4 DEF Secret
      <4> QED BY <3>2, <4>1 DEF SecretOf
    <3> QED BY <3>3, <3>4
  <2>10. Inv(n) /\ n.sess[s].readyState # "absent"
    BY <1>1, <2>1, <2>4, <2>5, <2>6, <2>7, <2>8, <2>9 DEF Inv
  <2> QED BY <1>3, <2>10, FlushInv DEF PollRequest, n
<1> QED BY <1>2, <1>3

-----------------------------------------------------------------------------
(* What the other steps do.                                                *)

\* A request moves on to a step without a session, or keeps its own.
LEMMA SetRequest ==
  ASSUME NEW st, Inv(st), NEW r \in Requests, NEW q \in RequestType,
         st.req[r].step \notin {"handshaking", "held"},
         q.step \in {"headers", "allow", "reading"}, q.answer = "none",
         q.sid = NoSid \/ (q.sid \in Sids /\ st.sess[q.sid].announced),
         q.step = "allow" => (q.sid = NoSid <=> q.kind \in Handshakes),
         q.step = "headers" => (q.kind \in Handshakes => q.sid = NoSid),
         q.step = "reading" => q.sid \in Sids
  PROVE  Inv([st EXCEPT !.req = [st.req EXCEPT ![r] = q]])
<1> DEFINE n == [st EXCEPT !.req = [st.req EXCEPT ![r] = q]]
<1>1. /\ n \in StateType /\ n.clients = st.clients /\ n.sess = st.sess
      /\ \A p \in Requests : n.req[p] = IF p = r THEN q ELSE st.req[p]
  BY DEF Inv, StateType
<1> HIDE DEF n
<1>2. Known(n)
  BY <1>1 DEF Inv, Known
<1>3. Pending(n)
  BY <1>1 DEF Inv, Pending, StateType, SessionType
<1>4. Held(n)
  BY <1>1 DEF Inv, Held
<1>5. Unannounced(n)
  BY <1>1 DEF Inv, Unannounced
<1>6. Secret(n)
  BY <1>1, NoneAssumption DEF Inv, Secret, SecretOf, Unannounced
<1> QED BY <1>1, <1>2, <1>3, <1>4, <1>5, <1>6 DEF Inv, n

\* The state is a record of the variables, and so is the next one.
LEMMA StateFields ==
  ASSUME NEW st, st \in StateType, Becomes(st)
  PROVE  State' = st
BY DEF Becomes, State, StateType

LEMMA StepInv ==
  ASSUME NEW st, Inv(st), Becomes(st)
  PROVE  IInv'
<1>1. State' = st
  BY StateFields DEF Inv
<1> QED BY <1>1 DEF IInv

LEMMA MessageInv ==
  ASSUME NEW st, Inv(st), NEW s \in Sids, st.sess[s].announced
  PROVE  Inv(Message(st, s))
<1>1. st \in StateType /\ st.sess[s] \in SessionType /\ ~st.sess[s].missed
  BY DEF Inv, StateType, Unannounced
<1>2. CASE st.sess[s].readyState = "open"
  <2> DEFINE x == [st.sess[s] EXCEPT !.missed = FALSE]
  <2>1. x = st.sess[s]
    BY <1>1 DEF SessionType
  <2>2. Message(st, s) = st
    BY <1>1, <1>2, <2>1 DEF Message, StateType, SessionType
  <2> QED BY <2>2
<1>3. CASE st.sess[s].readyState # "open"
  BY <1>3 DEF Message
<1> QED BY <1>2, <1>3

\* The record of the variables, as the steps take it.
LEMMA StateNow ==
  ASSUME IInv
  PROVE  /\ Inv(State) /\ State.clients = clients /\ State.sess = sess /\ State.req = req
         /\ clients \in SUBSET Sids /\ sess \in [Sids -> SessionType]
         /\ req \in [Requests -> RequestType]
BY DEF IInv, Inv, State, StateType

LEMMA ToldAnnounced ==
  ASSUME IInv, NEW s \in Sids, Told(s)
  PROVE  sess[s].announced
<1>1. PICK r \in Requests : req[r].sid = s /\ req[r].kind \in Handshakes /\ req[r].answer = "ok"
  BY DEF Told, Handshakes
<1> QED BY <1>1, StateNow DEF Inv, Secret, SecretOf

LEMMA ArriveStep == ASSUME IInv, NEW r \in Requests, Arrive(r) PROVE IInv'
<1> USE StateNow
<1>1. PICK kind \in Kinds, s \in Sids \union {NoSid} :
        /\ kind \in {"handshake", "wsHandshake", "invalid"} => s = NoSid
        /\ s # NoSid => Told(s)
        /\ req' = [req EXCEPT ![r] = [Idle EXCEPT !.kind = kind, !.sid = s, !.step = "headers"]]
  BY DEF Arrive
<1> DEFINE q == [Idle EXCEPT !.kind = kind, !.sid = s, !.step = "headers"]
           n == [State EXCEPT !.req = [State.req EXCEPT ![r] = q]]
<1>2. q \in RequestType /\ q.step = "headers" /\ q.sid = s /\ q.kind = kind /\ q.answer = "none"
  BY <1>1 DEF Idle, RequestType
<1>3. s # NoSid => s \in Sids /\ sess[s].announced
  BY <1>1, ToldAnnounced
<1>4. Becomes(n)
  BY <1>1 DEF Becomes, State, Arrive
<1>5. req[r].step = "idle"
  BY DEF Arrive
<1> HIDE DEF q
<1>6. Inv(n)
  BY <1>1, <1>2, <1>3, <1>5, SetRequest DEF Handshakes
<1> QED BY <1>4, <1>6, StepInv

LEMMA AnswerStep ==
  ASSUME IInv, NEW r \in Requests, NEW how \in {"ok", "refused", "failed"},
         req[r].step \notin {"handshaking", "held"}, Becomes(Answer(State, r, how))
  PROVE  IInv'
BY StateNow, AnswerInv, StepInv

LEMMA HeadersEditedStep == ASSUME IInv, NEW r \in Requests, HeadersEdited(r) PROVE IInv'
<1> USE StateNow
<1>1. CASE Verify(r)
  <2> DEFINE q == [req[r] EXCEPT !.step = "allow"]
             n == [State EXCEPT !.req[r].step = "allow"]
  <2>1. /\ q \in RequestType /\ q.step = "allow" /\ q.sid = req[r].sid /\ q.kind = req[r].kind
        /\ q.answer = "none"
    BY DEF RequestType, HeadersEdited, Inv, Secret, SecretOf
  <2>2. n = [State EXCEPT !.req = [State.req EXCEPT ![r] = q]]
    BY DEF State
  <2>3. q.sid = NoSid <=> q.kind \in Handshakes
    BY <1>1, <2>1, NoneAssumption DEF Verify, HeadersEdited, Inv, Secret, SecretOf, Handshakes
  <2>4. q.sid = NoSid \/ (q.sid \in Sids /\ sess[q.sid].announced)
    BY <1>1, <2>1, NoneAssumption DEF Verify, HeadersEdited, Inv, Secret, SecretOf, Handshakes
  <2>5. req[r].step = "headers" /\ Becomes(n)
    BY <1>1 DEF HeadersEdited
  <2> HIDE DEF q, n
  <2> QED BY <2>1, <2>2, <2>3, <2>4, <2>5, SetRequest, StepInv
<1>2. CASE ~Verify(r)
  BY <1>2, AnswerStep DEF HeadersEdited
<1> QED BY <1>1, <1>2

LEMMA HandshakeStep ==
  ASSUME IInv, NEW r \in Requests, req[r].step = "allow", req[r].sid = NoSid, Handshake(r)
  PROVE  IInv'
<1> USE StateNow
<1>1. PICK s \in Sids :
        /\ sess[s].readyState = "absent"
        /\ clients' = clients \union {s}
        /\ req' = [req EXCEPT ![r].sid = s, ![r].step = "handshaking"]
        /\ sess' = [sess EXCEPT ![s] = [Absent EXCEPT !.readyState = "open", !.buffered = TRUE,
                       !.via = IF req[r].kind = "handshake" THEN "polling" ELSE "websocket"]]
  BY DEF Handshake
<1> DEFINE x == [Absent EXCEPT !.readyState = "open", !.buffered = TRUE,
                   !.via = IF req[r].kind = "handshake" THEN "polling" ELSE "websocket"]
           q == [req[r] EXCEPT !.sid = s, !.step = "handshaking"]
           n == [clients |-> clients \union {s}, sess |-> [sess EXCEPT ![s] = x],
                 req |-> [req EXCEPT ![r] = q]]
<1>2. /\ x \in SessionType /\ x.readyState = "open" /\ x.poll = NoRequest /\ ~x.announced
      /\ ~x.missed /\ ~x.wsOpen /\ x.upgradeState = "not_upgraded"
      /\ x.via = IF req[r].kind = "handshake" THEN "polling" ELSE "websocket"
  BY DEF SessionType, Absent
<1>3. /\ q \in RequestType /\ q.sid = s /\ q.step = "handshaking" /\ q.kind = req[r].kind
      /\ q.kind \in Handshakes /\ q.answer = "none"
  <2>1. req[r] \in RequestType /\ req[r].kind \in Handshakes /\ req[r].answer = "none"
    BY DEF Inv, Secret, SecretOf
  <2> QED BY <2>1 DEF RequestType
<1>4. [req EXCEPT ![r].sid = s, ![r].step = "handshaking"] = [req EXCEPT ![r] = q]
  BY DEF RequestType
<1>5. Becomes(n)
  BY <1>1, <1>4 DEF Becomes
<1> HIDE DEF x, q, n
<1>6. /\ n \in StateType /\ n.clients = clients \union {s}
      /\ \A t \in Sids : n.sess[t] = IF t = s THEN x ELSE sess[t]
      /\ \A p \in Requests : n.req[p] = IF p = r THEN q ELSE req[p]
  BY <1>2, <1>3 DEF StateType, n
\* Nobody knows a session that was not there.
<1>7. /\ \A p \in Requests : req[p].sid # s
      /\ sess[s].poll = NoRequest
  BY <1>1 DEF Inv, Secret, SecretOf, Unannounced
<1>8. Known(n)
  BY <1>2, <1>6 DEF Inv, Known
<1>9. Pending(n)
  <2>1. \A t \in Sids : sess[t].poll \in Requests \union {NoRequest}
    BY DEF SessionType
  <2> QED BY <1>2, <1>6, <1>7, <2>1 DEF Inv, Pending
<1>10. Held(n)
  <2>1. Held(State)
    BY DEF Inv
  <2> QED BY <1>3, <1>6, <1>7, <2>1 DEF Held
<1>11. Unannounced(n)
  <2>1. Unannounced(State)
    BY DEF Inv
  <2> QED BY <1>2, <1>6, <2>1 DEF Unannounced
<1>12. Secret(n)
  <2>1. Secret(State)
    BY DEF Inv
  <2> QED BY <1>2, <1>3, <1>6, <1>7, <2>1 DEF Secret, SecretOf
<1> QED BY <1>5, <1>6, <1>8, <1>9, <1>10, <1>11, <1>12, StepInv DEF Inv

LEMMA DispatchStep == ASSUME IInv, NEW r \in Requests, Dispatch(r) PROVE IInv'
<1> USE StateNow
<1> DEFINE s == req[r].sid
<1>1. /\ req[r].step = "allow" /\ req[r].answer = "none" /\ s \in Sids \union {NoSid}
      /\ req[r] \in RequestType
      /\ s \in Sids => sess[s].announced /\ sess[s].readyState # "absent"
  <2>1. SecretOf(State, r) /\ req[r].step = "allow"
    BY DEF Dispatch, Inv, Secret
  <2> QED BY <2>1 DEF SecretOf, RequestType
<1>2. CASE s = NoSid /\ Handshake(r)
  BY <1>1, <1>2, HandshakeStep
<1>3. CASE Becomes(Answer(State, r, "failed"))
  BY <1>1, <1>3, AnswerStep
<1>4. CASE s \in clients /\ Becomes(Answer(MaybeUpgrade(State, s), r, "ok"))
  <2> DEFINE x == [sess[s] EXCEPT !.upgradeState = "upgrading"]
             m == [State EXCEPT !.sess[s].upgradeState = "upgrading"]
  <2>1. s \in Sids /\ sess[s] \in SessionType /\ ~sess[s].missed /\ sess[s].announced
    BY <1>1, <1>4 DEF Inv, Unannounced
  <2>2. /\ x \in SessionType /\ x.readyState = sess[s].readyState /\ x.poll = sess[s].poll
        /\ x.via = sess[s].via /\ x.announced = sess[s].announced /\ ~x.missed /\ x.announced
    BY <2>1 DEF SessionType
  <2>3. m = Put(State, s, x)
    BY <2>1 DEF Put, State
  <2> HIDE DEF x, m
  <2>4. Inv(Put(State, s, x)) /\ m.req = req
    BY <2>1, <2>2, <2>3, PutInv DEF Put, State
  <2>5. MaybeUpgrade(State, s) \in {State, m}
    BY DEF MaybeUpgrade, m
  <2>6. Inv(MaybeUpgrade(State, s)) /\ MaybeUpgrade(State, s).req = req
    BY <2>3, <2>4, <2>5
  <2> QED BY <1>1, <1>4, <2>6, AnswerInv, StepInv
<1>5. CASE s \in clients /\ sess[s].via = "polling" /\ Becomes(PollRequest(State, r, s))
  BY <1>1, <1>5, PollRequestInv, StepInv
<1>6. CASE s \in clients /\ req[r].kind = "data" /\ Becomes([State EXCEPT !.req[r].step = "reading"])
  <2> DEFINE q == [req[r] EXCEPT !.step = "reading"]
             m == [State EXCEPT !.req[r].step = "reading"]
  <2>1. q \in RequestType /\ q.step = "reading" /\ q.sid = s /\ q.answer = "none" /\ s \in Sids
    BY <1>1, <1>6 DEF RequestType
  <2>2. m = [State EXCEPT !.req = [State.req EXCEPT ![r] = q]]
    BY DEF State
  <2> HIDE DEF q, m
  <2>3. Inv(m)
    BY <1>1, <2>1, <2>2, SetRequest
  <2> QED BY <1>6, <2>3, StepInv DEF m
<1> QED BY <1>2, <1>3, <1>4, <1>5, <1>6 DEF Dispatch

LEMMA HandshakeEditedStep == ASSUME IInv, NEW r \in Requests, HandshakeEdited(r) PROVE IInv'
<1> USE StateNow
<1> DEFINE s == req[r].sid
           a == [State EXCEPT !.sess[s].announced = TRUE]
           y == [sess[s] EXCEPT !.announced = TRUE]
<1>1. /\ req[r].step = "handshaking" /\ req[r].kind \in Handshakes /\ s \in Sids
      /\ ~sess[s].announced /\ \A p \in Requests : req[p].sid = s => p = r
      /\ sess[s].via = IF req[r].kind = "handshake" THEN "polling" ELSE "websocket"
      /\ sess[s].readyState # "absent"
  <2>1. SecretOf(State, r) /\ req[r].step = "handshaking"
    BY DEF HandshakeEdited, Inv, Secret
  <2> QED BY <2>1 DEF SecretOf
<1>2. /\ req[r] \in RequestType /\ sess[s] \in SessionType /\ sess[s].poll = NoRequest
      /\ ~sess[s].wsOpen /\ ~sess[s].missed /\ sess[s].upgradeState = "not_upgraded"
  BY <1>1 DEF Inv, Unannounced
<1>3. a.sess[s].poll = NoRequest /\ a = [State EXCEPT !.sess = [sess EXCEPT ![s] = y]]
  BY <1>1, <1>2 DEF State, SessionType
\* Both outcomes announce the session and move its one request.
<1>4. ASSUME NEW poll \in {NoRequest, r}, NEW step \in {"held", "answered"}, NEW how,
             how = IF step = "held" THEN "none" ELSE "ok",
             poll = IF step = "held" THEN r ELSE NoRequest,
             step = "held" => req[r].kind = "handshake"
      PROVE  LET x == [sess[s] EXCEPT !.announced = TRUE, !.poll = poll]
                 q == [req[r] EXCEPT !.step = step, !.answer = how]
             IN  Inv([clients |-> clients, sess |-> [sess EXCEPT ![s] = x], req |-> [req EXCEPT ![r] = q]])
  <2> DEFINE x == [sess[s] EXCEPT !.announced = TRUE, !.poll = poll]
             q == [req[r] EXCEPT !.step = step, !.answer = how]
             n == [clients |-> clients, sess |-> [sess EXCEPT ![s] = x], req |-> [req EXCEPT ![r] = q]]
  <2>1. /\ x \in SessionType /\ x.readyState = sess[s].readyState /\ x.poll = poll
        /\ x.via = sess[s].via /\ x.announced /\ ~x.missed
    BY <1>2 DEF SessionType
  <2>2. /\ q \in RequestType /\ q.step = step /\ q.sid = s /\ q.answer = how
        /\ q.kind = req[r].kind
    BY <1>2, <1>4 DEF RequestType
  <2> HIDE DEF x, q
  <2>3. /\ n \in StateType /\ n.clients = clients
        /\ \A t \in Sids : n.sess[t] = IF t = s THEN x ELSE sess[t]
        /\ \A p \in Requests : n.req[p] = IF p = r THEN q ELSE req[p]
    BY <1>1, <2>1, <2>2 DEF StateType, State
  <2> HIDE DEF n
  <2>4. Known(n)
    BY <2>1, <2>3 DEF Inv, Known
  <2>5. Pending(n)
    <3>1. Pending(State) /\ \A t \in Sids : sess[t].poll \in Requests \union {NoRequest}
      BY DEF Inv, SessionType
    <3> QED BY <1>1, <1>4, <2>1, <2>2, <2>3, <3>1, NoneAssumption DEF Pending
  <2>6. Held(n)
    <3>1. Held(State) /\ Known(State)
      BY DEF Inv
    <3>2. s \in clients \/ sess[s].readyState = "closed"
      BY <1>1, <1>2, <3>1 DEF Known, SessionType
    <3>3. \A p \in Requests : p # r => req[p].sid # s
      BY <1>1
    <3> QED BY <1>1, <1>4, <2>1, <2>2, <2>3, <3>1, <3>2, <3>3, NoneAssumption DEF Held
  <2>7. Unannounced(n)
    <3>1. Unannounced(State)
      BY DEF Inv
    <3> QED BY <1>1, <2>1, <2>3, <3>1 DEF Unannounced
  <2>8. Secret(n)
    <3> SUFFICES ASSUME NEW p \in Requests PROVE SecretOf(n, p)
      BY DEF Secret
    <3>1. CASE p = r
      BY <1>1, <1>4, <2>1, <2>2, <2>3, <3>1 DEF SecretOf
    <3>2. CASE p # r
      <4>1. SecretOf(State, p) /\ n.req[p] = req[p] /\ req[p].sid # s
        BY <1>1, <2>3, <3>2 DEF Inv, Secret
      <4>2. \A o \in Requests : n.req[o].sid = req[o].sid
        BY <2>2, <2>3
      <4> QED BY <2>3, <4>1, <4>2 DEF SecretOf
    <3> QED BY <3>1, <3>2
  <2> QED BY <2>3, <2>4, <2>5, <2>6, <2>7, <2>8 DEF Inv, n, x, q
<1>5. CASE req[r].kind = "handshake"
  <2> DEFINE m == [a EXCEPT !.sess[s].poll = r, !.req[r].step = "held"]
             x == [sess[s] EXCEPT !.announced = TRUE, !.poll = r]
             q == [req[r] EXCEPT !.step = "held", !.answer = "none"]
             n == [clients |-> clients, sess |-> [sess EXCEPT ![s] = x], req |-> [req EXCEPT ![r] = q]]
  <2>1. Inv(n)
    BY <1>4, <1>5
  <2>2. m = n
    <3>1. req[r].answer = "none" /\ q = [req[r] EXCEPT !.step = "held"]
      <4>1. req[r].answer = "none"
        BY <1>1 DEF Inv, Secret, SecretOf
      <4> QED BY <1>2, <4>1 DEF RequestType
    <3>2. x = [y EXCEPT !.poll = r]
      BY <1>2 DEF SessionType
    <3>3. a = [clients |-> clients, sess |-> [sess EXCEPT ![s] = y], req |-> req]
      BY <1>3 DEF State
    <3>4. [a EXCEPT !.sess[s].poll = r] =
            [clients |-> clients, sess |-> [sess EXCEPT ![s] = x], req |-> req]
      <4> HIDE DEF x, y, a
      <4> QED BY <1>1, <3>2, <3>3
    <3>5. [[clients |-> clients, sess |-> [sess EXCEPT ![s] = x], req |-> req]
             EXCEPT !.req[r].step = "held"] =
            [clients |-> clients, sess |-> [sess EXCEPT ![s] = x], req |-> [req EXCEPT ![r] = q]]
      <4> HIDE DEF x, q, y, a
      <4> QED BY <3>1
    <3>7. m = [[a EXCEPT !.sess[s].poll = r] EXCEPT !.req[r].step = "held"]
      OBVIOUS
    <3> HIDE DEF x, q, y, a, m
    <3> QED BY ONLY <3>4, <3>5, <3>7
  <2>3. n.sess[s].readyState = sess[s].readyState
    BY <1>1, <1>2 DEF State, SessionType
  <2>4. Becomes(Flush(m, s))
    BY <1>3, <1>5 DEF HandshakeEdited, PollRequest
  <2> HIDE DEF m, n
  <2> QED BY <1>1, <2>1, <2>2, <2>3, <2>4, FlushInv, StepInv
<1>6. CASE req[r].kind # "handshake"
  <2> DEFINE m == Answer(a, r, "ok")
             x == [sess[s] EXCEPT !.announced = TRUE, !.poll = NoRequest]
             q == [req[r] EXCEPT !.step = "answered", !.answer = "ok"]
             n == [clients |-> clients, sess |-> [sess EXCEPT ![s] = x], req |-> [req EXCEPT ![r] = q]]
  <2>1. Inv(n)
    BY <1>4
  <2>2. x = y
    BY <1>2 DEF SessionType
  <2>3. m = n
    <3>1. a = [clients |-> clients, sess |-> [sess EXCEPT ![s] = y], req |-> req]
      BY <1>3 DEF State
    <3>2. q = [[req[r] EXCEPT !.step = "answered"] EXCEPT !.answer = "ok"]
      OBVIOUS
    <3> DEFINE b == [clients |-> clients, sess |-> [sess EXCEPT ![s] = y], req |-> req]
               f == [req EXCEPT ![r] = [req[r] EXCEPT !.step = "answered"]]
    <3>3. [b EXCEPT !.req[r].step = "answered"] =
            [clients |-> clients, sess |-> [sess EXCEPT ![s] = y], req |-> f]
      <4> HIDE DEF y
      <4> QED OBVIOUS
    <3>4. f \in [Requests -> RequestType] /\ [f EXCEPT ![r] = [f[r] EXCEPT !.answer = "ok"]] = [req EXCEPT ![r] = q]
      BY <1>2, <3>2 DEF RequestType
    <3>5. [[clients |-> clients, sess |-> [sess EXCEPT ![s] = y], req |-> f] EXCEPT !.req[r].answer = "ok"] =
            [clients |-> clients, sess |-> [sess EXCEPT ![s] = y], req |-> [req EXCEPT ![r] = q]]
      <4> HIDE DEF y, f, q
      <4> QED BY <3>4
    <3>7. m = [[a EXCEPT !.req[r].step = "answered"] EXCEPT !.req[r].answer = "ok"]
      BY DEF Answer
    <3>8. a = b
      BY <3>1
    <3> HIDE DEF x, q, y, a, b, f, m
    <3> QED BY ONLY <2>2, <3>3, <3>5, <3>7, <3>8
  <2>4. Becomes(m)
    BY <1>6 DEF HandshakeEdited
  <2> HIDE DEF m, n
  <2> QED BY <2>1, <2>3, <2>4, StepInv
<1> QED BY <1>5, <1>6

LEMMA BodyReadStep == ASSUME IInv, NEW r \in Requests, BodyRead(r) PROVE IInv'
<1> USE StateNow
<1> DEFINE s == req[r].sid
           n == Answer(State, r, "ok")
<1>1. s \in Sids /\ sess[s].announced /\ sess[s].readyState # "absent" /\ req[r].step = "reading"
  <2>1. SecretOf(State, r) /\ req[r].step = "reading"
    BY DEF BodyRead, Inv, Secret
  <2> QED BY <2>1 DEF SecretOf
<1>2. Inv(n)
  BY <1>1, AnswerInv
<1>3. n.sess = sess
  BY DEF Answer, State
<1>4. Becomes(Message(n, s)) \/ Becomes(CloseSession(n, s)) \/ Becomes(n)
  BY DEF BodyRead
<1> HIDE DEF n
<1> QED BY <1>1, <1>2, <1>3, <1>4, MessageInv, CloseSessionInv, StepInv

-----------------------------------------------------------------------------
(* The sessions.                                                           *)

LEMMA SendStep == ASSUME IInv, NEW s \in Sids, Send(s) PROVE IInv'
<1> USE StateNow
<1> DEFINE x == [sess[s] EXCEPT !.buffered = TRUE]
           n == [State EXCEPT !.sess[s].buffered = TRUE]
<1>1. /\ x \in SessionType /\ x.readyState = sess[s].readyState /\ x.poll = sess[s].poll
      /\ x.via = sess[s].via /\ x.announced = sess[s].announced /\ x.missed = sess[s].missed
      /\ x.wsOpen = sess[s].wsOpen /\ x.upgradeState = sess[s].upgradeState
  BY DEF SessionType
<1>2. n = Put(State, s, x) /\ n.sess[s] = x
  BY DEF Put, State
<1>3. ~sess[s].missed /\ (~sess[s].announced => sess[s].upgradeState = "not_upgraded" /\ ~sess[s].wsOpen)
  BY DEF Inv, Unannounced
<1>4. sess[s].readyState = "open" /\ Becomes(Flush(n, s))
  BY DEF Send
<1> HIDE DEF x, n
<1>5. Inv(Put(State, s, x))
  BY <1>1, <1>3, PutInv
<1> QED BY <1>1, <1>2, <1>4, <1>5, FlushInv, StepInv

LEMMA UpgradeStep == ASSUME IInv, NEW s \in Sids, Upgrade(s) PROVE IInv'
<1> USE StateNow
<1> DEFINE m == Reply(State, s)
           y == m.sess[s]
           x == [y EXCEPT !.upgradeState = "upgraded", !.via = "websocket", !.wsOpen = TRUE]
           n == [m EXCEPT !.sess[s].upgradeState = "upgraded", !.sess[s].via = "websocket",
                   !.sess[s].wsOpen = TRUE]
<1>1. /\ sess[s].announced /\ ~sess[s].missed /\ sess[s] \in SessionType
      /\ sess[s].readyState \in {"open", "closing"} /\ Becomes(Flush(n, s))
  BY DEF Upgrade, Inv, Unannounced
<1>2. Inv(m) /\ m \in StateType /\ y = [sess[s] EXCEPT !.poll = NoRequest]
  BY ReplyInv DEF Inv
<1>3. /\ y \in SessionType /\ y.announced /\ ~y.missed /\ y.poll = NoRequest
      /\ y.readyState \in {"open", "closing"}
  BY <1>1, <1>2 DEF SessionType
<1> HIDE DEF m
<1>4. /\ x \in SessionType /\ x.announced = y.announced /\ ~x.missed /\ x.poll = y.poll
      /\ x.readyState = y.readyState /\ x.announced
  BY <1>3 DEF SessionType
<1>5. n = Put(m, s, x)
  <2> DEFINE y1 == [y EXCEPT !.upgradeState = "upgraded"]
             y2 == [y1 EXCEPT !.via = "websocket"]
  <2>1. [m EXCEPT !.sess[s].upgradeState = "upgraded"] = Put(m, s, y1)
    BY DEF Put
  <2>2. y1 \in SessionType /\ y2 \in SessionType /\ x = [y2 EXCEPT !.wsOpen = TRUE]
    BY <1>3 DEF SessionType
  <2> HIDE DEF y, x, y1
  <2>3. [Put(m, s, y1) EXCEPT !.sess[s].via = "websocket"] = Put(m, s, y2)
    BY <1>2, <2>2 DEF Put, StateType
  <2> HIDE DEF y2
  <2>4. [Put(m, s, y2) EXCEPT !.sess[s].wsOpen = TRUE] = Put(m, s, x)
    BY <1>2, <2>2 DEF Put, StateType
  <2>5. n = [[[m EXCEPT !.sess[s].upgradeState = "upgraded"] EXCEPT !.sess[s].via = "websocket"]
               EXCEPT !.sess[s].wsOpen = TRUE]
    OBVIOUS
  <2> HIDE DEF n
  <2> QED BY ONLY <2>1, <2>3, <2>4, <2>5
<1>6. n.sess[s] = x
  BY <1>2, <1>5 DEF Put, StateType
<1> HIDE DEF x, n
<1>7. Inv(Put(m, s, x))
  BY <1>2, <1>3, <1>4, PutInv
<1> QED BY <1>1, <1>3, <1>4, <1>5, <1>6, <1>7, FlushInv, StepInv

LEMMA WsOpenStep == ASSUME IInv, NEW s \in Sids, WsOpen(s) PROVE IInv'
<1> USE StateNow
<1> DEFINE x == [sess[s] EXCEPT !.wsOpen = TRUE]
           n == [State EXCEPT !.sess[s].wsOpen = TRUE]
<1>1. /\ sess[s].announced /\ ~sess[s].missed /\ sess[s].readyState # "absent"
      /\ Becomes(Flush(n, s))
  BY ToldAnnounced DEF WsOpen, Inv, Unannounced
<1>2. /\ x \in SessionType /\ x.readyState = sess[s].readyState /\ x.poll = sess[s].poll
      /\ x.via = sess[s].via /\ x.announced = sess[s].announced /\ x.missed = sess[s].missed
  BY DEF SessionType
<1>3. n = Put(State, s, x) /\ n.sess[s] = x
  BY DEF Put, State
<1> HIDE DEF x, n
<1>4. Inv(Put(State, s, x))
  BY <1>1, <1>2, PutInv
<1> QED BY <1>1, <1>2, <1>3, <1>4, FlushInv, StepInv

LEMMA WsMessageStep == ASSUME IInv, NEW s \in Sids, WsMessage(s) PROVE IInv'
<1>1. sess[s].announced
  BY StateNow DEF WsMessage, Inv, Unannounced
<1> QED BY <1>1, StateNow, MessageInv, StepInv DEF WsMessage

LEMMA LostStep == ASSUME IInv, NEW s \in Sids, Lost(s) PROVE IInv'
BY StateNow, CloseSessionInv, StepInv DEF Lost

LEMMA CloseOneStep == ASSUME IInv, NEW s \in Sids, CloseOne(s) PROVE IInv'
<1> USE StateNow
<1> DEFINE x == [sess[s] EXCEPT !.readyState = "closing"]
           n == [State EXCEPT !.sess[s].readyState = "closing"]
<1>1. sess[s].announced /\ ~sess[s].missed /\ sess[s].readyState # "absent"
  BY DEF CloseOne, Inv, Unannounced
<1>2. CASE sess[s].readyState # "open" \/ ~sess[s].buffered
  <2>1. CloseCalled(State, s) \in {State, CloseSession(State, s)}
    BY <1>2 DEF CloseCalled
  <2> QED BY <1>1, <2>1, CloseSessionInv, StepInv DEF CloseOne
<1>3. CASE sess[s].readyState = "open" /\ sess[s].buffered
  <2>1. /\ x \in SessionType /\ x.readyState = "closing" /\ x.poll = sess[s].poll
        /\ x.via = sess[s].via /\ x.announced = sess[s].announced /\ x.missed = sess[s].missed
    BY DEF SessionType
  <2>2. n = Put(State, s, x)
    BY DEF Put, State
  <2>3. Becomes(n)
    BY <1>3 DEF CloseOne, CloseCalled
  <2> HIDE DEF x, n
  <2>4. Inv(Put(State, s, x))
    BY <1>1, <1>3, <2>1, PutInv
  <2> QED BY <2>2, <2>3, <2>4, StepInv
<1> QED BY <1>2, <1>3

LEMMA CloseAllStep == ASSUME IInv, CloseAll PROVE IInv'
<1> USE StateNow
<1> DEFINE open == {s \in clients : sess[s].readyState = "open"}
           ends == {s \in open : ~sess[s].buffered}
           polls == {sess[s].poll : s \in ends}
           n == [clients |-> clients', sess |-> sess', req |-> req']
<1>1. /\ clients' = clients \ ends
      /\ sess' = [s \in Sids |->
           IF s \in ends THEN [sess[s] EXCEPT !.readyState = "closed", !.poll = NoRequest]
           ELSE IF s \in open THEN [sess[s] EXCEPT !.readyState = "closing"] ELSE sess[s]]
      /\ req' = [r \in Requests |->
           IF r \in polls THEN [req[r] EXCEPT !.step = "answered", !.answer = "ok"] ELSE req[r]]
  BY DEF CloseAll
<1>2. /\ ends \subseteq open /\ open \subseteq Sids
      /\ \A s \in open : sess[s].readyState = "open" /\ s \in clients
  OBVIOUS
\* What the sessions that end held.
<1>3. \A r \in Requests : r \in polls => req[r].step = "held" /\ req[r].sid \in ends
  BY <1>2, NoneAssumption DEF Inv, Pending
<1>4. \A s \in Sids : s \in ends /\ sess[s].poll # NoRequest => sess[s].poll \in polls
  OBVIOUS
<1>5. /\ sess' \in [Sids -> SessionType]
      /\ \A s \in Sids :
           /\ sess'[s].readyState = IF s \in ends THEN "closed"
                                    ELSE IF s \in open THEN "closing" ELSE sess[s].readyState
           /\ sess'[s].poll = IF s \in ends THEN NoRequest ELSE sess[s].poll
           /\ sess'[s].via = sess[s].via /\ sess'[s].wsOpen = sess[s].wsOpen
           /\ sess'[s].upgradeState = sess[s].upgradeState
           /\ sess'[s].announced = sess[s].announced /\ sess'[s].missed = sess[s].missed
  <2> HIDE DEF ends, open, polls
  <2>1. ASSUME NEW s \in Sids
        PROVE  /\ sess'[s] \in SessionType
               /\ sess'[s].readyState = IF s \in ends THEN "closed"
                                        ELSE IF s \in open THEN "closing" ELSE sess[s].readyState
               /\ sess'[s].poll = IF s \in ends THEN NoRequest ELSE sess[s].poll
               /\ sess'[s].via = sess[s].via /\ sess'[s].wsOpen = sess[s].wsOpen
               /\ sess'[s].upgradeState = sess[s].upgradeState
               /\ sess'[s].announced = sess[s].announced /\ sess'[s].missed = sess[s].missed
    <3>0. sess[s] \in SessionType
      OBVIOUS
    <3>1. CASE s \in ends
      <4>1. sess'[s] = [sess[s] EXCEPT !.readyState = "closed", !.poll = NoRequest]
        BY <1>1, <3>1
      <4> QED BY ONLY <3>0, <3>1, <4>1 DEF SessionType
    <3>2. CASE s \notin ends /\ s \in open
      <4>1. sess'[s] = [sess[s] EXCEPT !.readyState = "closing"]
        BY <1>1, <3>2
      <4> QED BY ONLY <3>0, <3>2, <4>1 DEF SessionType
    <3>3. CASE s \notin ends /\ s \notin open
      BY <1>1, <3>0, <3>3
    <3> QED BY <3>1, <3>2, <3>3
  <2>2. sess' \in [Sids -> SessionType]
    <3>1. sess' = [s \in Sids |-> sess'[s]]
      BY <1>1
    <3> QED BY <2>1, <3>1
  <2> QED BY <2>1, <2>2
<1>6. /\ req' \in [Requests -> RequestType]
      /\ \A r \in Requests :
           /\ req'[r].sid = req[r].sid /\ req'[r].kind = req[r].kind
           /\ req'[r].step = IF r \in polls THEN "answered" ELSE req[r].step
           /\ r \notin polls => req'[r] = req[r]
  <2> HIDE DEF ends, open, polls
  <2> QED BY <1>1 DEF RequestType
<1>7. /\ n.clients = clients \ ends /\ n.sess = sess' /\ n.req = req' /\ n \in StateType
  BY <1>1, <1>5, <1>6 DEF StateType
<1> HIDE DEF ends, open, polls, n
<1>8. Known(n)
  BY <1>2, <1>5, <1>7 DEF Inv, Known
<1>9. Pending(n)
  <2> SUFFICES ASSUME NEW s \in Sids, n.sess[s].poll # NoRequest
               PROVE  n.req[n.sess[s].poll].step = "held" /\ n.req[n.sess[s].poll].sid = s
    BY DEF Pending
  <2>1. s \notin ends /\ n.sess[s].poll = sess[s].poll /\ sess[s].poll \in Requests
    BY <1>5, <1>7 DEF SessionType
  <2>2. req[sess[s].poll].step = "held" /\ req[sess[s].poll].sid = s
    BY <2>1, <1>7, <1>5 DEF Inv, Pending
  <2>3. sess[s].poll \notin polls
    BY <1>3, <2>1, <2>2
  <2> QED BY <1>6, <1>7, <2>1, <2>2, <2>3
<1>10. Held(n)
  <2> SUFFICES ASSUME NEW r \in Requests, n.req[r].step = "held"
               PROVE  LET s == n.req[r].sid
                      IN  /\ s \in Sids
                          /\ n.sess[s].poll = r /\ n.sess[s].via = "polling"
                          /\ s \in n.clients
                               \/ (n.req[r].kind = "handshake" /\ n.sess[s].readyState = "closed")
    BY DEF Held
  <2>1. r \notin polls /\ n.req[r] = req[r] /\ req[r].step = "held"
    BY <1>6, <1>7
  <2>2. /\ req[r].sid \in Sids /\ sess[req[r].sid].poll = r /\ sess[req[r].sid].via = "polling"
        /\ req[r].sid \in clients
             \/ (req[r].kind = "handshake" /\ sess[req[r].sid].readyState = "closed")
    BY <2>1 DEF Inv, Held
  <2>3. req[r].sid \notin ends
    BY <1>4, <2>1, <2>2, NoneAssumption
  <2> QED BY <1>2, <1>5, <1>7, <2>1, <2>2, <2>3
<1>11. Unannounced(n)
  <2>1. Unannounced(State)
    BY DEF Inv
  <2>2. \A s \in Sids : n.sess[s].readyState = "absent" => sess[s].readyState = "absent"
    BY <1>5, <1>7
  <2> QED BY <1>5, <1>7, <2>1, <2>2 DEF Unannounced
<1>12. Secret(n)
  <2> SUFFICES ASSUME NEW r \in Requests PROVE SecretOf(n, r)
    BY DEF Secret
  <2>1. SecretOf(State, r) /\ \A s \in Sids : sess[s].readyState # "absent" => n.sess[s].readyState # "absent"
    BY <1>5, <1>7 DEF Inv, Secret
  <2>2. CASE r \in polls
    <3>1. n.req[r].step = "answered" /\ n.req[r].sid = req[r].sid /\ req[r].step = "held"
      BY <1>3, <1>6, <1>7, <2>2
    <3> QED BY <1>5, <1>7, <2>1, <3>1 DEF SecretOf
  <2>3. CASE r \notin polls
    <3>1. n.req[r] = req[r] /\ \A p \in Requests : n.req[p].sid = req[p].sid
      BY <1>6, <1>7, <2>3
    <3> QED BY <1>5, <1>7, <2>1, <3>1 DEF SecretOf
  <2> QED BY <2>2, <2>3
<1>13. Becomes(n)
  BY DEF Becomes, n
<1> QED BY <1>7, <1>8, <1>9, <1>10, <1>11, <1>12, <1>13, StepInv DEF Inv

-----------------------------------------------------------------------------
(* The invariant, and the properties that follow from it.                  *)

LEMMA InitInv == Init => IInv
<1> SUFFICES ASSUME Init PROVE Inv(State)
  BY DEF IInv
<1>1. /\ State.clients = {} /\ State.sess = [s \in Sids |-> Absent]
      /\ State.req = [r \in Requests |-> Idle]
      /\ Absent \in SessionType /\ Idle \in RequestType /\ Absent.poll = NoRequest
  BY DEF Init, State, Absent, SessionType, Idle, RequestType, Kinds
<1>2. State \in StateType
  BY <1>1 DEF StateType, State
<1>3. Known(State) /\ Pending(State) /\ Unannounced(State)
  BY <1>1 DEF Known, Pending, Unannounced, Absent
<1>4. Held(State) /\ Secret(State)
  BY <1>1, NoneAssumption DEF Held, Secret, SecretOf, Idle, Handshakes
<1> QED BY <1>2, <1>3, <1>4 DEF Inv

LEMMA NextInv == IInv /\ [Next]_vars => IInv'
<1> SUFFICES ASSUME IInv, [Next]_vars PROVE IInv'
  OBVIOUS
<1>1. ASSUME NEW r \in Requests, Arrive(r) \/ Continue(r) PROVE IInv'
  <2>1. CASE Arrive(r)
    BY <2>1, ArriveStep
  <2>2. CASE HeadersEdited(r)
    BY <2>2, HeadersEditedStep
  <2>3. CASE Forbidden(r)
    BY <2>3, AnswerStep DEF Forbidden
  <2>4. CASE Dispatch(r)
    BY <2>4, DispatchStep
  <2>5. CASE HandshakeEdited(r)
    BY <2>5, HandshakeEditedStep
  <2>6. CASE BodyRead(r)
    BY <2>6, BodyReadStep
  <2> QED BY <1>1, <2>1, <2>2, <2>3, <2>4, <2>5, <2>6 DEF Continue
<1>2. ASSUME NEW s \in Sids,
             Send(s) \/ Upgrade(s) \/ WsOpen(s) \/ WsMessage(s) \/ Lost(s) \/ CloseOne(s)
      PROVE  IInv'
  BY <1>2, SendStep, UpgradeStep, WsOpenStep, WsMessageStep, LostStep, CloseOneStep
<1>3. CASE CloseAll
  BY <1>3, CloseAllStep
<1>4. CASE UNCHANGED vars
  <2>1. State' = State
    BY <1>4 DEF vars, State
  <2> QED BY <2>1 DEF IInv
<1> QED BY <1>1, <1>2, <1>3, <1>4 DEF Next

\* The inductive invariant holds of every state of the server, whatever the
\* awaits of handleRequest are interleaved with.
THEOREM ServerInvariant == Spec => []IInv
<1> QED BY InitInv, NextInv, PTL DEF Spec

\* The server knows exactly the sessions that have not closed: those of
\* handshake on, until the "close" listener deletes them (server.ts).
THEOREM SessionsRegistered == Spec => []Registered
<1>1. IInv => Registered
  BY StateNow DEF Inv, Known, Registered
<1> QED BY <1>1, ServerInvariant, PTL

\* A request that is held is the one its own session's polling transport would
\* answer, whichever overlap, upgrade or close it went through.
THEOREM RequestsHeld == Spec => []HeldIsPending
<1>1. IInv => HeldIsPending
  BY StateNow DEF Inv, Held, HeldIsPending, Overtaken
<1> QED BY <1>1, ServerInvariant, PTL

\* handshake emits "connection" before any message of the session: no message
\* is emitted to nobody.
THEOREM ConnectionBeforeMessages == Spec => []ConnectionFirst
<1>1. IInv => ConnectionFirst
  BY StateNow DEF Inv, Unannounced, ConnectionFirst
<1> QED BY <1>1, ServerInvariant, PTL
=============================================================================
