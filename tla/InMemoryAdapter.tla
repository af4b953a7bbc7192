--------------------------- MODULE InMemoryAdapter --------------------------
(***************************************************************************)
(* The rooms of one namespace: the two maps of InMemoryAdapter in          *)
(* socket.io/lib/adapter.ts, the sockets of the namespace, and the loop    *)
(* (apply) by which broadcast, fetchSockets, addSockets, delSockets and    *)
(* disconnectSockets reach the sockets that match their options.           *)
(*                                                                         *)
(* All of it is synchronous, but the loop calls into the application: the  *)
(* outgoing listeners of a broadcast, the "disconnecting" and "disconnect" *)
(* listeners of a disconnection.  They may join, leave and disconnect, and *)
(* so change the maps under the loop, which iterates over the live Set of  *)
(* a room.  The loop is therefore modelled one callback at a time.         *)
(***************************************************************************)
EXTENDS Integers, FiniteSets

CONSTANTS
  Sids,       \* socket ids; a connected socket also joins the room of its id
  RoomNames,  \* the rooms the application names
  All         \* what the loop iterates over when the options name no room

AllRooms == RoomNames \union Sids

ASSUME NamesAssumption == RoomNames \intersect Sids = {} /\ All \notin AllRooms

VARIABLES
  rooms,    \* InMemoryAdapter.rooms: Map<Room, Set<SocketId>>
  sids,     \* InMemoryAdapter.sids: Map<SocketId, Set<Room>>
  sockets,  \* Namespace.sockets, the connected sockets
  life,     \* per socket: new, middleware, connected, gone (its join() a noop)
  op,       \* the operation whose loop is running, or "none"
  arg,      \* the room that addSockets or delSockets is about
  targets,  \* rooms of the options that the loop has still to visit
  except,   \* the result of computeExceptSids
  current,  \* the room (or All) whose Set the loop iterates over
  live,     \* is that Set still the one in the map?
  seen,     \* its elements that the iterator has passed
  ids,      \* the local variable ids of apply
  calling,  \* the socket whose callback is running, or All
  returned, \* has the callback taken its effect?
  count,    \* history: callbacks per socket
  quiet,    \* history: did no listener change anything since the loop began?
  expected, \* history: the sockets the options matched when the loop began
  kept      \* history: matched memberships <<sid, room>> that held ever since

maps == <<rooms, sids, sockets, life>>
loop == <<op, arg, targets, except, current, calling, returned>>
iterator == <<live, seen>>
history == <<count, quiet, expected, kept>>
vars == <<maps, loop, iterator, ids, history>>

-----------------------------------------------------------------------------
(* The two maps.                                                           *)

RoomsOf(s) == IF s \in DOMAIN sids THEN sids[s] ELSE {}
Members(r) == IF r \in DOMAIN rooms THEN rooms[r] ELSE {}

\* InMemoryAdapter.addAll
AddAll(s, R) ==
  /\ sids' = [x \in DOMAIN sids \union {s} |-> IF x = s THEN RoomsOf(s) \union R ELSE sids[x]]
  /\ rooms' = [r \in DOMAIN rooms \union R |-> IF r \in R THEN Members(r) \union {s} ELSE rooms[r]]

\* removeSidFromRoom for each of the rooms R: the rooms that remain
RemoveSidFromRooms(s, R) ==
  [r \in {x \in DOMAIN rooms : x \in R => rooms[x] \ {s} # {}} |->
     IF r \in R THEN rooms[r] \ {s} ELSE rooms[r]]

\* InMemoryAdapter.del
Del(s, r) ==
  /\ sids' = IF s \in DOMAIN sids THEN [sids EXCEPT ![s] = @ \ {r}] ELSE sids
  /\ rooms' = RemoveSidFromRooms(s, {r})

\* A delAll that leaves the rooms to themselves.
DelAllForgets(s) == sids' = [x \in DOMAIN sids \ {s} |-> sids[x]] /\ UNCHANGED rooms

\* InMemoryAdapter.delAll
DelAll(s) ==
  /\ sids' = [x \in DOMAIN sids \ {s} |-> sids[x]]
  /\ rooms' = RemoveSidFromRooms(s, RoomsOf(s))

\* Socket.join: a noop once _cleanup has run
Join(s, r) ==
  /\ IF life[s] = "gone" THEN UNCHANGED <<rooms, sids>> ELSE AddAll(s, {r})
  /\ UNCHANGED <<sockets, life>>

\* Socket.leave
Leave(s, r) == Del(s, r) /\ UNCHANGED <<sockets, life>>

\* Socket._onclose: _cleanup, then Namespace._remove
OnClose(s) ==
  /\ DelAll(s)
  /\ life' = [life EXCEPT ![s] = "gone"] /\ sockets' = sockets \ {s}

-----------------------------------------------------------------------------
(* The life of a socket in its namespace (Namespace._add).                 *)

Idle == op = "none" /\ UNCHANGED <<loop, iterator, ids, history>>

\* The Socket is constructed, and the middlewares may join rooms for it.
Create(s) ==
  /\ Idle /\ life[s] = "new"
  /\ life' = [life EXCEPT ![s] = "middleware"] /\ UNCHANGED <<rooms, sids, sockets>>

\* The middlewares passed: tracked, then _onconnect joins its own room.
Connect(s) ==
  /\ Idle /\ life[s] = "middleware"
  /\ sockets' = sockets \union {s} /\ life' = [life EXCEPT ![s] = "connected"]
  /\ AddAll(s, {s})

\* A middleware failed, or the connection closed meanwhile: _cleanup.
Reject(s) ==
  /\ Idle /\ life[s] = "middleware"
  /\ DelAll(s) /\ life' = [life EXCEPT ![s] = "gone"] /\ UNCHANGED sockets

\* A call of the application outside of any loop.
Application(s) ==
  /\ Idle /\ life[s] # "new"
  /\ \/ \E r \in RoomNames : Join(s, r)
     \/ \E r \in RoomNames \union {s} : Leave(s, r)
     \/ life[s] = "connected" /\ OnClose(s)

-----------------------------------------------------------------------------
(* The loop.                                                               *)

Matched(R, E) ==
  {s \in sockets : s \notin E /\ (R = {} => s \in DOMAIN sids)
                              /\ (R # {} => \E r \in R : s \in Members(r))}
Memberships(R, E) ==
  {m \in sockets \X (R \union {All}) :
     /\ m[1] \notin E
     /\ IF m[2] = All THEN R = {} /\ m[1] \in DOMAIN sids ELSE m[1] \in Members(m[2])}

\* computeExceptSids, on the rooms as they are when the loop begins
ComputeExceptSids(X) == UNION {Members(r) : r \in X}

\* An operation begins, with rooms R and except rooms X in its options.
Start(o, r, R, X) ==
  /\ op = "none" /\ op' = o /\ arg' = r
  /\ except' = ComputeExceptSids(X)
  /\ targets' = R /\ current' = All
  /\ live' = (R = {}) /\ seen' = {} /\ ids' = {}
  /\ calling' = All /\ returned' = FALSE
  /\ count' = [s \in Sids |-> 0] /\ quiet' = TRUE
  /\ expected' = Matched(R, ComputeExceptSids(X)) /\ kept' = Memberships(R, ComputeExceptSids(X))
  /\ UNCHANGED maps

\* The Set or Map the iterator walks.
Iterated == IF ~live THEN {} ELSE IF current = All THEN DOMAIN sids ELSE Members(current)

\* An iterated socket that the loop does not skip.
Callable(s) == s \in Iterated \ seen /\ s \in sockets /\ s \notin except /\ s \notin ids

\* A loop that ends with its first room.
NextRoomLast(r) ==
  /\ op # "none" /\ calling = All /\ \A s \in Sids : ~Callable(s)
  /\ r \in targets /\ targets' = {}
  /\ current' = r /\ live' = (r \in DOMAIN rooms) /\ seen' = {}
  /\ UNCHANGED <<maps, op, arg, except, calling, returned, ids, history>>

\* The next room: its Set, or nothing if it does not exist.
NextRoom(r) ==
  /\ op # "none" /\ calling = All /\ \A s \in Sids : ~Callable(s)
  /\ r \in targets /\ targets' = targets \ {r}
  /\ current' = r /\ live' = (r \in DOMAIN rooms) /\ seen' = {}
  /\ UNCHANGED <<maps, op, arg, except, calling, returned, ids, history>>

\* The callback is called.
Visit(s) ==
  /\ op # "none" /\ calling = All /\ Callable(s)
  /\ calling' = s /\ returned' = FALSE /\ seen' = seen \union {s}
  /\ count' = [count EXCEPT ![s] = @ + 1]
  /\ UNCHANGED <<maps, op, arg, targets, except, current, live, ids, quiet, expected, kept>>

\* What a change of the maps does to a running iterator: a deleted element
\* that is added again is visited again; a room deleted from the map leaves
\* the iterator with a Set that no one joins any more.
IteratorFollows ==
  /\ live' = (live /\ (current = All \/ current \in DOMAIN rooms'))
  /\ seen' = seen \intersect (IF current = All THEN DOMAIN sids'
                              ELSE IF current \in DOMAIN rooms' THEN rooms'[current] ELSE {})
  /\ kept' = {m \in kept : /\ m[1] \in sockets'
                           /\ m[2] = All \/ (m[2] \in DOMAIN rooms' /\ m[1] \in rooms'[m[2]])}

\* The effect of the callback on the maps.
Effect ==
  /\ calling # All /\ ~returned /\ returned' = TRUE
  /\ \/ op = "broadcast" /\ UNCHANGED maps
     \/ op = "join" /\ Join(calling, arg)
     \/ op = "leave" /\ Leave(calling, arg)
     \/ op = "disconnect" /\ OnClose(calling)
  /\ IteratorFollows
  /\ UNCHANGED <<op, arg, targets, except, current, calling, ids, count, quiet, expected>>

\* A listener that the callback runs changes the maps.  The one exception: a
\* "disconnecting" listener does not disconnect its own socket, which is still
\* connected when it runs and would be closed without end.
Listener(s) ==
  /\ calling # All /\ life[s] # "new"
  /\ op = "disconnect" \/ (op = "broadcast" /\ ~returned)
  /\ \/ \E r \in RoomNames : Join(s, r)
     \/ \E r \in RoomNames : Leave(s, r)
     \/ life[s] = "connected" /\ (op = "disconnect" => s # calling) /\ OnClose(s)
  /\ quiet' = FALSE /\ IteratorFollows
  /\ UNCHANGED <<loop, ids, count, expected>>

\* A return that does not remember whom it called.
ReturnForgets ==
  /\ calling # All /\ returned
  /\ calling' = All /\ returned' = FALSE
  /\ UNCHANGED <<maps, op, arg, targets, except, current, iterator, ids, history>>

\* The callback returns; apply remembers whom it called for other rooms.
Return ==
  /\ calling # All /\ returned
  /\ calling' = All /\ returned' = FALSE
  /\ ids' = IF current = All THEN ids ELSE ids \union {calling}
  /\ UNCHANGED <<maps, op, arg, targets, except, current, iterator, history>>

\* No room is left.
Finish ==
  /\ op # "none" /\ calling = All /\ targets = {} /\ \A s \in Sids : ~Callable(s)
  /\ op' = "none" /\ arg' = All /\ targets' = {} /\ except' = {} /\ current' = All
  /\ live' = FALSE /\ seen' = {} /\ ids' = {} /\ calling' = All /\ returned' = FALSE
  /\ count' = [s \in Sids |-> 0] /\ quiet' = TRUE /\ expected' = {} /\ kept' = {}
  /\ UNCHANGED maps

-----------------------------------------------------------------------------
Init ==
  /\ rooms = [r \in {} |-> {}] /\ sids = [s \in {} |-> {}] /\ sockets = {}
  /\ life = [s \in Sids |-> "new"]
  /\ op = "none" /\ arg = All /\ targets = {} /\ except = {} /\ current = All
  /\ live = FALSE /\ seen = {} /\ ids = {} /\ calling = All /\ returned = FALSE
  /\ count = [s \in Sids |-> 0] /\ quiet = TRUE /\ expected = {} /\ kept = {}

Starts ==
  \E R, X \in SUBSET AllRooms :
    \/ Start("broadcast", All, R, X)
    \/ Start("disconnect", All, R, X)
    \/ \E r \in RoomNames : Start("join", r, R, X) \/ Start("leave", r, R, X)

Next ==
  \/ \E s \in Sids : Create(s) \/ Connect(s) \/ Reject(s) \/ Application(s)
  \/ Starts
  \/ \E r \in AllRooms : NextRoom(r)
  \/ \E s \in Sids : Visit(s) \/ Listener(s)
  \/ Effect \/ Return \/ Finish

Spec == Init /\ [][Next]_vars

-----------------------------------------------------------------------------
Ops == {"none", "broadcast", "join", "leave", "disconnect"}

\* The types of the variables.
TypeOK ==
  /\ DOMAIN rooms \subseteq AllRooms /\ \A r \in DOMAIN rooms : rooms[r] \subseteq Sids
  /\ DOMAIN sids \subseteq Sids /\ \A s \in DOMAIN sids : sids[s] \subseteq AllRooms
  /\ sockets \subseteq Sids
  /\ life \in [Sids -> {"new", "middleware", "connected", "gone"}]
  /\ op \in Ops /\ arg \in AllRooms \union {All} /\ targets \subseteq AllRooms
  /\ except \subseteq Sids /\ current \in AllRooms \union {All}
  /\ live \in BOOLEAN /\ seen \subseteq Sids /\ ids \subseteq Sids
  /\ calling \in Sids \union {All} /\ returned \in BOOLEAN
  /\ count \in [Sids -> Nat] /\ quiet \in BOOLEAN
  /\ expected \subseteq Sids /\ kept \subseteq Sids \X (AllRooms \union {All})

\* The two maps are each other's inverse: delAll, which removes a socket only
\* from the rooms that sids names, removes it from every room it is in.
Duality ==
  \A s \in Sids, r \in AllRooms : s \in Members(r) <=> r \in RoomsOf(s)

\* A room exists exactly while someone is in it (create-room, delete-room).
NoEmptyRoom == \A r \in DOMAIN rooms : rooms[r] # {}

\* A socket that is gone is in no room and in no map, however its last calls
\* of join and leave were ordered with its end: nothing leaks.
GoneLeavesNothing ==
  \A s \in Sids :
    life[s] = "gone" => s \notin sockets /\ s \notin DOMAIN sids
                        /\ \A r \in DOMAIN rooms : s \notin rooms[r]

\* Every connected socket is an entry of sids, so that a broadcast without
\* rooms, which goes through sids and not through sockets, reaches it.
ConnectedInSids == sockets = {s \in Sids : life[s] = "connected"} /\ sockets \subseteq DOMAIN sids

\* "A client will be notified at most once" (namespace.ts:181), in however
\* many of the targeted rooms it is, and whatever the listeners do meanwhile;
\* and never one that the except rooms held when the operation began.
AtMostOnce == op # "none" => \A s \in Sids : count[s] <= (IF s \in except THEN 0 ELSE 1)

\* A socket that was in a targeted room all along is reached before the loop
\* ends, although listeners change the Set the loop iterates over; and if no
\* listener interferes, the operation reaches exactly the sockets that matched
\* when it began, although addSockets, delSockets and disconnectSockets change
\* the rooms they iterate over.
NoneMissed ==
  [][Finish => /\ \A m \in kept : count[m[1]] = 1
               /\ quiet => {s \in Sids : count[s] > 0} = expected]_vars
=============================================================================
