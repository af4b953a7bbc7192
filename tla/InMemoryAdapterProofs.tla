----------------------- MODULE InMemoryAdapterProofs ------------------------
(***************************************************************************)
(* Proofs about the rooms of a namespace, for any finite or infinite sets  *)
(* of sockets and rooms: the two maps stay each other's inverse, nothing   *)
(* remains of a socket that is gone, and whatever the listeners do while a *)
(* loop runs, the loop calls each socket at most once and misses none that *)
(* stayed where it was.                                                    *)
(***************************************************************************)
EXTENDS InMemoryAdapter, TLAPS

-----------------------------------------------------------------------------
(* The inductive invariant.                                                *)

\* What TypeOK says of the two maps.
RoomsType ==
  /\ DOMAIN rooms \subseteq AllRooms /\ \A r \in DOMAIN rooms : rooms[r] \subseteq Sids
  /\ DOMAIN sids \subseteq Sids /\ \A s \in DOMAIN sids : sids[s] \subseteq AllRooms

\* What TypeOK says of the sockets.
LifeType ==
  sockets \subseteq Sids /\ life \in [Sids -> {"new", "middleware", "connected", "gone"}]

\* What TypeOK says of the loop.
LoopType ==
  /\ op \in Ops /\ arg \in AllRooms \union {All} /\ targets \subseteq AllRooms
  /\ except \subseteq Sids /\ current \in AllRooms \union {All}
  /\ live \in BOOLEAN /\ seen \subseteq Sids /\ ids \subseteq Sids
  /\ calling \in Sids \union {All} /\ returned \in BOOLEAN
  /\ count \in [Sids -> Nat] /\ quiet \in BOOLEAN
  /\ expected \subseteq Sids /\ kept \subseteq Sids \X (AllRooms \union {All})

RoomsInv == RoomsType /\ Duality /\ NoEmptyRoom
MapsInv == RoomsInv /\ LifeType /\ GoneLeavesNothing /\ ConnectedInSids

\* The room of addSockets and delSockets is a room.
ArgIsRoom == op \in {"join", "leave"} => arg \in AllRooms

\* Whom the loop has called, it recognises: a socket called while the loop
\* goes through sids is one its iterator has passed, unless it is gone; one
\* called while it goes through rooms is in ids, or is being called.
CalledIsKnown ==
  \A s \in Sids : count[s] > 0 =>
    /\ count[s] = 1 /\ s \notin except
    /\ current = All => (s \in seen /\ s \in DOMAIN sids) \/ life[s] = "gone"
    /\ current # All => s = calling \/ s \in ids

\* The loop goes through sids or through rooms, not through both.
NotBoth == current = All => IF live THEN targets = {} ELSE \A s \in Sids : count[s] = 0

LoopInv == LoopType /\ ArgIsRoom /\ CalledIsKnown /\ NotBoth
IInv == MapsInv /\ LoopInv

-----------------------------------------------------------------------------
(* The operations on the two maps.                                         *)

\* addAll keeps the maps each other's inverse and adds at most the socket.
LEMMA AddAllRooms ==
  ASSUME RoomsInv, NEW s \in Sids, NEW R \in SUBSET AllRooms, R # {}, AddAll(s, R)
  PROVE  RoomsInv' /\ DOMAIN sids' = DOMAIN sids \union {s}
<1>1. /\ DOMAIN sids' = DOMAIN sids \union {s} /\ DOMAIN rooms' = DOMAIN rooms \union R
      /\ \A x \in DOMAIN sids' : sids'[x] = IF x = s THEN RoomsOf(s) \union R ELSE sids[x]
      /\ \A r \in DOMAIN rooms' : rooms'[r] = IF r \in R THEN Members(r) \union {s} ELSE rooms[r]
  BY DEF AddAll
<1>2. \A x \in Sids : RoomsOf(x)' = IF x = s THEN RoomsOf(s) \union R ELSE RoomsOf(x)
  BY <1>1 DEF RoomsOf
<1>3. \A r \in AllRooms : Members(r)' = IF r \in R THEN Members(r) \union {s} ELSE Members(r)
  BY <1>1 DEF Members
<1>4. RoomsType'
  BY <1>1 DEF RoomsInv, RoomsType, RoomsOf, Members
<1>5. Duality'
  BY <1>2, <1>3 DEF RoomsInv, Duality
<1>6. NoEmptyRoom'
  BY <1>1 DEF RoomsInv, NoEmptyRoom
<1> QED BY <1>1, <1>4, <1>5, <1>6 DEF RoomsInv

\* removeSidFromRoom, for a set of rooms: who is in which room afterwards.
LEMMA RemoveSid ==
  ASSUME RoomsInv, NEW s \in Sids, NEW R \in SUBSET AllRooms, rooms' = RemoveSidFromRooms(s, R)
  PROVE  /\ DOMAIN rooms' \subseteq AllRooms /\ \A r \in DOMAIN rooms' : rooms'[r] \subseteq Sids
         /\ NoEmptyRoom'
         /\ \A r \in AllRooms : Members(r)' = IF r \in R THEN Members(r) \ {s} ELSE Members(r)
<1>1. /\ DOMAIN rooms' = {x \in DOMAIN rooms : x \in R => rooms[x] \ {s} # {}}
      /\ \A r \in DOMAIN rooms' : rooms'[r] = IF r \in R THEN rooms[r] \ {s} ELSE rooms[r]
  BY DEF RemoveSidFromRooms
<1> QED BY <1>1 DEF RoomsInv, RoomsType, NoEmptyRoom, Members

\* del keeps the maps each other's inverse and the entries of sids.
LEMMA DelRooms ==
  ASSUME RoomsInv, NEW s \in Sids, NEW r \in AllRooms, Del(s, r)
  PROVE  RoomsInv' /\ DOMAIN sids' = DOMAIN sids
<1>1. /\ DOMAIN sids' = DOMAIN sids
      /\ \A x \in DOMAIN sids : sids'[x] = IF x = s THEN sids[s] \ {r} ELSE sids[x]
  BY DEF Del
<1>2. \A x \in Sids : RoomsOf(x)' = IF x = s THEN RoomsOf(x) \ {r} ELSE RoomsOf(x)
  BY <1>1 DEF RoomsOf
<1>3. /\ DOMAIN rooms' \subseteq AllRooms /\ \A x \in DOMAIN rooms' : rooms'[x] \subseteq Sids
      /\ NoEmptyRoom'
      /\ \A x \in AllRooms : Members(x)' = IF x \in {r} THEN Members(x) \ {s} ELSE Members(x)
  BY RemoveSid DEF Del
<1>4. RoomsType'
  BY <1>1, <1>3 DEF RoomsInv, RoomsType
<1>5. Duality'
  BY <1>2, <1>3 DEF RoomsInv, Duality
<1> QED BY <1>1, <1>3, <1>4, <1>5 DEF RoomsInv

\* delAll keeps the maps each other's inverse and removes just the socket.
LEMMA DelAllRooms ==
  ASSUME RoomsInv, NEW s \in Sids, DelAll(s)
  PROVE  RoomsInv' /\ DOMAIN sids' = DOMAIN sids \ {s}
<1>1. /\ DOMAIN sids' = DOMAIN sids \ {s}
      /\ \A x \in DOMAIN sids' : sids'[x] = sids[x]
  BY DEF DelAll
<1>2. \A x \in Sids : RoomsOf(x)' = IF x = s THEN {} ELSE RoomsOf(x)
  BY <1>1 DEF RoomsOf
<1>3. RoomsOf(s) \in SUBSET AllRooms
  BY DEF RoomsInv, RoomsType, RoomsOf
<1>4. /\ DOMAIN rooms' \subseteq AllRooms /\ \A r \in DOMAIN rooms' : rooms'[r] \subseteq Sids
      /\ NoEmptyRoom'
      /\ \A r \in AllRooms : Members(r)' = IF r \in RoomsOf(s) THEN Members(r) \ {s} ELSE Members(r)
  BY <1>3, RemoveSid DEF DelAll
<1>5. RoomsType'
  BY <1>1, <1>4 DEF RoomsInv, RoomsType
<1>6. Duality'
  <2> SUFFICES ASSUME NEW x \in Sids, NEW r \in AllRooms
               PROVE  x \in Members(r)' <=> r \in RoomsOf(x)'
    BY DEF Duality
  <2>1. x \in Members(r) <=> r \in RoomsOf(x)
    BY DEF RoomsInv, Duality
  <2> QED BY <2>1, <1>2, <1>4
<1> QED BY <1>1, <1>4, <1>5, <1>6 DEF RoomsInv

\* As the maps are each other's inverse, a socket without an entry in sids is
\* in no room.
LEMMA NotInSidsNotInRooms ==
  ASSUME RoomsInv, NEW s \in Sids, s \notin DOMAIN sids
  PROVE  \A r \in DOMAIN rooms : s \notin rooms[r]
BY DEF RoomsInv, RoomsType, Duality, RoomsOf, Members

-----------------------------------------------------------------------------
(* The operations on sockets.                                              *)

\* What every operation does to the maps: a socket that leaves sids is gone,
\* and a socket that is gone stays so.
MapsStep ==
  /\ MapsInv'
  /\ \A s \in Sids :
       life[s] = "gone" \/ (s \in DOMAIN sids /\ s \notin DOMAIN sids') => life'[s] = "gone"

\* Operations that only change the rooms.
LEMMA RoomsMaps ==
  ASSUME MapsInv, RoomsInv', UNCHANGED <<sockets, life>>, DOMAIN sids \subseteq DOMAIN sids',
         \A s \in Sids : life[s] = "gone" => s \notin DOMAIN sids'
  PROVE  MapsStep
<1>1. LifeType' /\ ConnectedInSids'
  BY DEF MapsInv, LifeType, ConnectedInSids
<1>2. GoneLeavesNothing'
  <2> SUFFICES ASSUME NEW s \in Sids, life'[s] = "gone"
               PROVE  s \notin sockets' /\ s \notin DOMAIN sids'
                      /\ \A r \in DOMAIN rooms' : s \notin rooms'[r]
    BY DEF GoneLeavesNothing
  <2>1. s \notin sockets' /\ s \notin DOMAIN sids'
    BY DEF MapsInv, GoneLeavesNothing
  <2>2. RoomsInv' /\ s \notin DOMAIN sids' => \A r \in DOMAIN rooms' : s \notin rooms'[r]
    BY DEF RoomsInv, RoomsType, Duality, RoomsOf, Members
  <2> QED BY <2>1, <2>2
<1> QED BY <1>1, <1>2 DEF MapsStep, MapsInv

LEMMA JoinMaps ==
  ASSUME MapsInv, NEW s \in Sids, NEW r \in AllRooms, Join(s, r)
  PROVE  MapsStep
<1>1. CASE life[s] = "gone"
  <2>1. UNCHANGED maps
    BY <1>1 DEF Join, maps
  <2>2. RoomsInv' /\ \A x \in Sids : life[x] = "gone" => x \notin DOMAIN sids'
    BY <2>1 DEF maps, MapsInv, RoomsInv, RoomsType, Duality, NoEmptyRoom, RoomsOf, Members,
                GoneLeavesNothing
  <2> QED BY <2>1, <2>2, RoomsMaps DEF maps
<1>2. CASE life[s] # "gone"
  <2>1. AddAll(s, {r}) /\ UNCHANGED <<sockets, life>> /\ {r} \in SUBSET AllRooms /\ {r} # {}
    BY <1>2 DEF Join
  <2>2. RoomsInv' /\ DOMAIN sids' = DOMAIN sids \union {s}
    BY <2>1, AddAllRooms DEF MapsInv
  <2>3. \A x \in Sids : life[x] = "gone" => x \notin DOMAIN sids'
    BY <1>2, <2>2 DEF MapsInv, GoneLeavesNothing
  <2> QED BY <2>1, <2>2, <2>3, RoomsMaps
<1> QED BY <1>1, <1>2

LEMMA LeaveMaps ==
  ASSUME MapsInv, NEW s \in Sids, NEW r \in AllRooms, Leave(s, r)
  PROVE  MapsStep
<1>1. RoomsInv' /\ DOMAIN sids' = DOMAIN sids /\ UNCHANGED <<sockets, life>>
  BY DelRooms DEF Leave, MapsInv
<1>2. \A x \in Sids : life[x] = "gone" => x \notin DOMAIN sids'
  BY <1>1 DEF MapsInv, GoneLeavesNothing
<1> QED BY <1>1, <1>2, RoomsMaps

\* _onclose, and the _cleanup of a socket that was rejected.
LEMMA OnCloseMaps ==
  ASSUME MapsInv, NEW s \in Sids, DelAll(s),
         life' = [life EXCEPT ![s] = "gone"], sockets' = sockets \ {s}
  PROVE  MapsStep
<1>1. RoomsInv' /\ DOMAIN sids' = DOMAIN sids \ {s}
  BY DelAllRooms DEF MapsInv
<1>2. life' \in [Sids -> {"new", "middleware", "connected", "gone"}]
      /\ \A x \in Sids : life'[x] = IF x = s THEN "gone" ELSE life[x]
  BY DEF MapsInv, LifeType
<1>3. LifeType' /\ ConnectedInSids'
  BY <1>1, <1>2 DEF MapsInv, LifeType, ConnectedInSids
<1>4. \A x \in Sids : life'[x] = "gone" => x \notin sockets' /\ x \notin DOMAIN sids'
  BY <1>1, <1>2 DEF MapsInv, GoneLeavesNothing
<1>5. GoneLeavesNothing'
  <2> SUFFICES ASSUME NEW x \in Sids, life'[x] = "gone"
               PROVE  \A r \in DOMAIN rooms' : x \notin rooms'[r]
    BY <1>4 DEF GoneLeavesNothing
  <2>1. x \notin DOMAIN sids'
    BY <1>4
  <2> QED BY <1>1, <2>1 DEF RoomsInv, RoomsType, Duality, RoomsOf, Members
<1>6. \A x \in Sids :
        life[x] = "gone" \/ (x \in DOMAIN sids /\ x \notin DOMAIN sids') => life'[x] = "gone"
  BY <1>1, <1>2
<1> QED BY <1>1, <1>3, <1>5, <1>6 DEF MapsStep, MapsInv
-----------------------------------------------------------------------------
(* The loop.                                                               *)

LEMMA IteratorType ==
  ASSUME LoopInv, IteratorFollows
  PROVE  /\ live' \in BOOLEAN /\ seen' \subseteq Sids
         /\ kept' \subseteq Sids \X (AllRooms \union {All})
BY DEF LoopInv, LoopType, IteratorFollows

\* A change of the maps, be it the effect of a callback or that of a listener,
\* leaves the loop with what it needs to recognise whom it has called.
LEMMA FollowsKnown ==
  ASSUME IInv, MapsStep, IteratorFollows,
         UNCHANGED <<op, arg, targets, except, current, calling, ids, count>>
  PROVE  ArgIsRoom' /\ CalledIsKnown' /\ NotBoth'
<1>1. ArgIsRoom'
  BY DEF IInv, LoopInv, ArgIsRoom
<1>2. current = All => live' = live /\ seen' = seen \intersect DOMAIN sids'
  BY DEF IInv, LoopInv, LoopType, IteratorFollows
<1>3. NotBoth'
  BY <1>2 DEF IInv, LoopInv, NotBoth
<1>4. CalledIsKnown'
  BY <1>2 DEF IInv, LoopInv, CalledIsKnown, MapsStep
<1> QED BY <1>1, <1>3, <1>4

\* Outside of a loop the maps change, and the loop's variables do not.
LEMMA IdleKnown ==
  ASSUME IInv, MapsStep, Idle
  PROVE  IInv'
<1>1. LoopType' /\ ArgIsRoom' /\ NotBoth'
  BY DEF IInv, LoopInv, LoopType, ArgIsRoom, NotBoth, Idle, loop, iterator, history
<1>2. CalledIsKnown'
  BY DEF IInv, LoopInv, CalledIsKnown, MapsStep, Idle, loop, iterator, history
<1> QED BY <1>1, <1>2 DEF IInv, LoopInv, MapsStep

\* Steps that leave the maps alone keep what is known of the maps.
LEMMA MapsUnchanged ==
  ASSUME MapsInv, UNCHANGED maps
  PROVE  MapsInv'
BY DEF maps, MapsInv, RoomsInv, RoomsType, Duality, NoEmptyRoom, RoomsOf, Members, LifeType,
       GoneLeavesNothing, ConnectedInSids

LEMMA InvInit == Init => IInv
<1> SUFFICES ASSUME Init PROVE IInv
  OBVIOUS
<1>1. DOMAIN rooms = {} /\ DOMAIN sids = {}
  BY DEF Init
<1>2. MapsInv
  BY <1>1 DEF Init, MapsInv, RoomsInv, RoomsType, Duality, NoEmptyRoom, RoomsOf, Members, LifeType,
              GoneLeavesNothing, ConnectedInSids
<1>3. LoopType
  BY DEF Init, LoopType, Ops
<1>4. ArgIsRoom /\ CalledIsKnown /\ NotBoth
  BY DEF Init, ArgIsRoom, CalledIsKnown, NotBoth
<1> QED BY <1>2, <1>3, <1>4 DEF IInv, LoopInv

LEMMA InvNext == IInv /\ [Next]_vars => IInv'
<1> SUFFICES ASSUME IInv, [Next]_vars PROVE IInv'
  OBVIOUS
<1> USE NamesAssumption
<1>1. ASSUME NEW s \in Sids, Create(s) PROVE IInv'
  <2>1. UNCHANGED <<rooms, sids, sockets>> /\ Idle /\ life[s] = "new"
        /\ life' = [life EXCEPT ![s] = "middleware"]
    BY <1>1 DEF Create
  <2>2. LifeType' /\ \A x \in Sids : life'[x] = IF x = s THEN "middleware" ELSE life[x]
    BY <2>1 DEF IInv, MapsInv, LifeType
  <2>3. RoomsInv'
    BY <2>1 DEF IInv, MapsInv, RoomsInv, RoomsType, Duality, NoEmptyRoom, RoomsOf, Members
  <2>4. ConnectedInSids' /\ GoneLeavesNothing'
    BY <2>1, <2>2 DEF IInv, MapsInv, ConnectedInSids, GoneLeavesNothing
  <2>5. MapsStep
    BY <2>1, <2>2, <2>3, <2>4 DEF MapsStep, MapsInv
  <2> QED BY <2>1, <2>5, IdleKnown
<1>2. ASSUME NEW s \in Sids, Connect(s) PROVE IInv'
  <2>1. AddAll(s, {s}) /\ Idle /\ life[s] = "middleware" /\ sockets' = sockets \union {s}
        /\ life' = [life EXCEPT ![s] = "connected"] /\ {s} \in SUBSET AllRooms
    BY <1>2 DEF Connect, AllRooms
  <2>2. LifeType' /\ \A x \in Sids : life'[x] = IF x = s THEN "connected" ELSE life[x]
    BY <2>1 DEF IInv, MapsInv, LifeType
  <2>3. RoomsInv' /\ DOMAIN sids' = DOMAIN sids \union {s}
    BY <2>1, AddAllRooms DEF IInv, MapsInv
  <2>4. ConnectedInSids'
    BY <2>1, <2>2, <2>3 DEF IInv, MapsInv, ConnectedInSids, LifeType
  <2>5. \A x \in Sids : life'[x] = "gone" => x \notin sockets' /\ x \notin DOMAIN sids'
    BY <2>1, <2>2, <2>3 DEF IInv, MapsInv, GoneLeavesNothing
  <2>6. GoneLeavesNothing'
    BY <2>3, <2>5 DEF GoneLeavesNothing, RoomsInv, RoomsType, Duality, RoomsOf, Members
  <2>7. MapsStep
    BY <2>1, <2>2, <2>3, <2>4, <2>6 DEF MapsStep, MapsInv
  <2> QED BY <2>1, <2>7, IdleKnown
<1>3. ASSUME NEW s \in Sids, Reject(s) PROVE IInv'
  <2>1. sockets' = sockets \ {s}
    BY <1>3 DEF Reject, IInv, MapsInv, ConnectedInSids
  <2> QED BY <1>3, <2>1, OnCloseMaps, IdleKnown DEF Reject, IInv
<1>4. ASSUME NEW s \in Sids, Application(s) PROVE IInv'
  <2>1. CASE \E r \in RoomNames : Join(s, r)
    BY <2>1, <1>4, JoinMaps, IdleKnown DEF Application, AllRooms, IInv
  <2>2. CASE \E r \in RoomNames \union {s} : Leave(s, r)
    BY <2>2, <1>4, LeaveMaps, IdleKnown DEF Application, AllRooms, IInv
  <2>3. CASE OnClose(s)
    BY <2>3, <1>4, OnCloseMaps, IdleKnown DEF Application, OnClose, IInv
  <2> QED BY <2>1, <2>2, <2>3, <1>4 DEF Application
<1>5. CASE Starts
  <2>1. PICK R \in SUBSET AllRooms, X \in SUBSET AllRooms, o \in Ops, r \in AllRooms \union {All} :
          Start(o, r, R, X) /\ (o \in {"join", "leave"} => r \in AllRooms)
    BY <1>5 DEF Starts, Ops, AllRooms
  <2>2. MapsInv'
    BY <2>1, MapsUnchanged DEF Start, IInv
  <2>3. /\ ComputeExceptSids(X) \subseteq Sids /\ Matched(R, ComputeExceptSids(X)) \subseteq Sids
        /\ Memberships(R, ComputeExceptSids(X)) \subseteq Sids \X (AllRooms \union {All})
    BY DEF ComputeExceptSids, Matched, Memberships, Members, IInv, MapsInv, RoomsInv, RoomsType,
           LifeType
  <2>4. LoopType'
    BY <2>1, <2>3 DEF Start, LoopType
  <2>5. ArgIsRoom'
    BY <2>1 DEF Start, ArgIsRoom
  <2>6. \A s \in Sids : count'[s] = 0
    BY <2>1 DEF Start
  <2>7. NotBoth'
    BY <2>1, <2>6 DEF Start, NotBoth
  <2>8. CalledIsKnown'
    BY <2>6 DEF CalledIsKnown
  <2> QED BY <2>2, <2>4, <2>5, <2>7, <2>8 DEF IInv, LoopInv
<1>6. ASSUME NEW r \in AllRooms, NextRoom(r) PROVE IInv'
  <2>1. MapsInv'
    BY <1>6, MapsUnchanged DEF NextRoom, IInv
  <2>2. LoopType'
    BY <1>6 DEF NextRoom, history, IInv, LoopInv, LoopType
  <2>3. ArgIsRoom' /\ NotBoth'
    BY <1>6 DEF NextRoom, history, IInv, LoopInv, ArgIsRoom, NotBoth
  <2>4. CalledIsKnown'
    BY <1>6 DEF NextRoom, history, IInv, LoopInv, LoopType, NotBoth, CalledIsKnown, AllRooms
  <2> QED BY <2>1, <2>2, <2>3, <2>4 DEF IInv, LoopInv
<1>7. ASSUME NEW s \in Sids, Visit(s) PROVE IInv'
  <2>1. MapsInv'
    BY <1>7, MapsUnchanged DEF Visit, IInv
  <2>2. count[s] = 0
    <3>1. s \notin seen /\ s \in sockets /\ s \notin except /\ s \notin ids /\ calling = All
      BY <1>7 DEF Visit, Callable
    <3>2. life[s] # "gone" /\ s # All /\ count[s] \in Nat
      BY <3>1 DEF IInv, MapsInv, ConnectedInSids, AllRooms, LoopInv, LoopType
    <3> QED BY <3>1, <3>2 DEF IInv, LoopInv, CalledIsKnown
  <2>3. count' \in [Sids -> Nat] /\ \A x \in Sids : count'[x] = IF x = s THEN 1 ELSE count[x]
    BY <1>7, <2>2 DEF Visit, IInv, LoopInv, LoopType
  <2>4. LoopType'
    BY <1>7, <2>3 DEF Visit, IInv, LoopInv, LoopType
  <2>5. ArgIsRoom'
    BY <1>7 DEF Visit, IInv, LoopInv, ArgIsRoom
  <2>6. current = All => live /\ s \in DOMAIN sids
    BY <1>7 DEF Visit, Callable, Iterated
  <2>7. NotBoth'
    BY <1>7, <2>6 DEF Visit, IInv, LoopInv, NotBoth
  <2>8. CalledIsKnown'
    BY <1>7, <2>3, <2>6 DEF Visit, Callable, maps, IInv, LoopInv, LoopType, CalledIsKnown, AllRooms
  <2> QED BY <2>1, <2>4, <2>5, <2>7, <2>8 DEF IInv, LoopInv
<1>8. ASSUME NEW s \in Sids, Listener(s) PROVE IInv'
  <2>1. MapsStep
    BY <1>8, JoinMaps, LeaveMaps, OnCloseMaps DEF Listener, OnClose, AllRooms, IInv
  <2>2. ArgIsRoom' /\ CalledIsKnown' /\ NotBoth'
    BY <1>8, <2>1, FollowsKnown DEF Listener, loop
  <2>3. LoopType'
    BY <1>8, IteratorType DEF Listener, loop, IInv, LoopInv, LoopType
  <2> QED BY <2>1, <2>2, <2>3 DEF IInv, LoopInv, MapsStep
<1>9. CASE Effect
  <2>1. calling \in Sids
    BY <1>9 DEF Effect, IInv, LoopInv, LoopType
  <2>2. MapsStep
    <3>1. CASE op = "broadcast" /\ UNCHANGED maps
      BY <3>1, MapsUnchanged DEF MapsStep, maps, IInv
    <3>2. CASE op = "join" /\ Join(calling, arg)
      BY <3>2, <2>1, JoinMaps DEF IInv, LoopInv, ArgIsRoom
    <3>3. CASE op = "leave" /\ Leave(calling, arg)
      BY <3>3, <2>1, LeaveMaps DEF IInv, LoopInv, ArgIsRoom
    <3>4. CASE OnClose(calling)
      BY <3>4, <2>1, OnCloseMaps DEF OnClose, IInv
    <3> QED BY <3>1, <3>2, <3>3, <3>4, <1>9 DEF Effect
  <2>3. ArgIsRoom' /\ CalledIsKnown' /\ NotBoth'
    BY <1>9, <2>2, FollowsKnown DEF Effect
  <2>4. LoopType'
    BY <1>9, IteratorType DEF Effect, IInv, LoopInv, LoopType
  <2> QED BY <2>2, <2>3, <2>4 DEF IInv, LoopInv, MapsStep
<1>10. CASE Return
  <2>1. MapsInv'
    BY <1>10, MapsUnchanged DEF Return, IInv
  <2>2. LoopType'
    BY <1>10 DEF Return, iterator, history, IInv, LoopInv, LoopType
  <2>3. ArgIsRoom' /\ NotBoth'
    BY <1>10 DEF Return, iterator, history, IInv, LoopInv, ArgIsRoom, NotBoth
  <2>4. CalledIsKnown'
    BY <1>10 DEF Return, iterator, history, maps, IInv, LoopInv, CalledIsKnown
  <2> QED BY <2>1, <2>2, <2>3, <2>4 DEF IInv, LoopInv
<1>11. CASE Finish
  <2>1. MapsInv'
    BY <1>11, MapsUnchanged DEF Finish, IInv
  <2>2. LoopType'
    BY <1>11 DEF Finish, LoopType, Ops
  <2>3. ArgIsRoom' /\ CalledIsKnown' /\ NotBoth'
    BY <1>11 DEF Finish, ArgIsRoom, CalledIsKnown, NotBoth
  <2> QED BY <2>1, <2>2, <2>3 DEF IInv, LoopInv
<1>12. CASE UNCHANGED vars
  <2>1. MapsInv'
    BY <1>12, MapsUnchanged DEF vars, IInv
  <2>2. LoopInv'
    BY <1>12 DEF vars, maps, loop, iterator, history, IInv, LoopInv, LoopType, ArgIsRoom,
                 CalledIsKnown, NotBoth
  <2> QED BY <2>1, <2>2 DEF IInv
<1> QED
  BY <1>1, <1>2, <1>3, <1>4, <1>5, <1>6, <1>7, <1>8, <1>9, <1>10, <1>11, <1>12 DEF Next

LEMMA Invariance == Spec => []IInv
BY InvInit, InvNext, PTL DEF Spec

-----------------------------------------------------------------------------
(* What follows for every number of sockets and rooms.                     *)

\* The variables keep their types.
THEOREM TypeCorrect == Spec => []TypeOK
<1>1. IInv => TypeOK
  BY DEF IInv, MapsInv, RoomsInv, RoomsType, LifeType, LoopInv, LoopType, TypeOK
<1> QED BY <1>1, Invariance, PTL

\* The two maps of InMemoryAdapter are each other's inverse, and a room exists
\* exactly while someone is in it.
THEOREM MapsAgree == Spec => [](Duality /\ NoEmptyRoom)
<1>1. IInv => Duality /\ NoEmptyRoom
  BY DEF IInv, MapsInv, RoomsInv
<1> QED BY <1>1, Invariance, PTL

\* Nothing remains of a socket that is gone, and a broadcast without rooms
\* finds every connected socket.
THEOREM SocketsAccounted == Spec => [](GoneLeavesNothing /\ ConnectedInSids)
<1>1. IInv => GoneLeavesNothing /\ ConnectedInSids
  BY DEF IInv, MapsInv
<1> QED BY <1>1, Invariance, PTL

\* "A client will be notified at most once" (namespace.ts:181), and a member
\* of an except room not at all: whatever joins, leaves and disconnections the
\* listeners interleave with the loop of apply.
THEOREM NotifiedAtMostOnce == Spec => []AtMostOnce
<1>1. IInv => AtMostOnce
  BY DEF IInv, LoopInv, LoopType, CalledIsKnown, AtMostOnce
<1> QED BY <1>1, Invariance, PTL

-----------------------------------------------------------------------------
(* Whom the loop reaches.                                                  *)

\* Whom the iterator has passed, or apply remembers, has been called.
CalledInv ==
  /\ \A s \in Sids : s \in seen \/ s \in ids \/ s = calling => count[s] > 0
  /\ current = All => ids = {}

\* A membership that lasts has been served, or the loop will come to it.
KeptInv ==
  \A m \in kept :
    /\ m[1] \in sockets /\ m[1] \notin except
    /\ m[2] # All => m[2] \in DOMAIN rooms /\ m[1] \in rooms[m[2]]
    /\ count[m[1]] > 0 \/ m[2] \in targets \/ (m[2] = current /\ live)

\* The loop will call s unless something changes.
Ahead(s) ==
  /\ op # "none" /\ s \in sockets /\ s \notin except
  /\ s \in Iterated \/ \E r \in targets : s \in Members(r)

\* While no listener interferes, the loop has called some of the sockets that
\* matched, and will call just the others.
QuietInv ==
  quiet => \A s \in Sids : /\ count[s] > 0 => s \in expected
                           /\ count[s] = 0 => (s \in expected <=> Ahead(s))

\* Outside of a loop nothing is kept.
IdleInv == op = "none" => kept = {}

ReachInv == CalledInv /\ KeptInv /\ QuietInv /\ IdleInv

\* An operation on the maps does not touch socket x.
Untouched(x) ==
  /\ x \in sockets' <=> x \in sockets
  /\ x \in DOMAIN sids' <=> x \in DOMAIN sids
  /\ \A r \in AllRooms : x \in Members(r)' <=> x \in Members(r)

LEMMA OthersUntouched ==
  ASSUME MapsInv, NEW s \in Sids, NEW r \in AllRooms, Join(s, r) \/ Leave(s, r) \/ OnClose(s)
  PROVE  \A x \in Sids \ {s} : Untouched(x)
<1>1. CASE Join(s, r)
  <2>1. CASE UNCHANGED <<rooms, sids>>
    BY <1>1, <2>1 DEF Join, Untouched, Members
  <2>2. CASE AddAll(s, {r})
    <3>1. /\ DOMAIN sids' = DOMAIN sids \union {s} /\ DOMAIN rooms' = DOMAIN rooms \union {r}
          /\ \A y \in DOMAIN rooms' :
               rooms'[y] = IF y \in {r} THEN Members(y) \union {s} ELSE rooms[y]
      BY <2>2 DEF AddAll
    <3>2. \A y \in AllRooms : Members(y)' = IF y \in {r} THEN Members(y) \union {s} ELSE Members(y)
      BY <3>1 DEF Members
    <3> QED BY <1>1, <3>1, <3>2 DEF Join, Untouched
  <2> QED BY <1>1, <2>1, <2>2 DEF Join
<1>2. CASE Leave(s, r)
  <2>1. Del(s, r) /\ UNCHANGED sockets /\ DOMAIN sids' = DOMAIN sids
    BY <1>2, DelRooms DEF Leave, MapsInv
  <2>2. \A y \in AllRooms : Members(y)' = IF y \in {r} THEN Members(y) \ {s} ELSE Members(y)
    BY <2>1, RemoveSid DEF Del, MapsInv
  <2> QED BY <2>1, <2>2 DEF Untouched
<1>3. CASE OnClose(s)
  <2>1. DelAll(s) /\ sockets' = sockets \ {s} /\ DOMAIN sids' = DOMAIN sids \ {s}
    BY <1>3, DelAllRooms DEF OnClose, MapsInv
  <2>2. RoomsOf(s) \in SUBSET AllRooms
    BY DEF MapsInv, RoomsInv, RoomsType, RoomsOf
  <2>3. \A y \in AllRooms : Members(y)' = IF y \in RoomsOf(s) THEN Members(y) \ {s} ELSE Members(y)
    BY <2>1, <2>2, RemoveSid DEF DelAll, MapsInv
  <2> QED BY <2>1, <2>3 DEF Untouched
<1> QED BY <1>1, <1>2, <1>3

\* A change of the maps does not make the loop forget what lasts.
LEMMA FollowsReach ==
  ASSUME IInv, CalledInv, KeptInv, IteratorFollows,
         UNCHANGED <<targets, except, current, calling, ids, count>>
  PROVE  CalledInv' /\ KeptInv'
<1>1. CalledInv'
  BY DEF CalledInv, IteratorFollows
<1>2. ASSUME NEW m \in kept'
      PROVE  /\ m[1] \in sockets' /\ m[1] \notin except'
             /\ m[2] # All => m[2] \in DOMAIN rooms' /\ m[1] \in rooms'[m[2]]
             /\ count'[m[1]] > 0 \/ m[2] \in targets' \/ (m[2] = current' /\ live')
  BY DEF KeptInv, IteratorFollows
<1> QED BY <1>1, <1>2 DEF KeptInv

\* What changes only a socket that has been called changes nothing ahead.
LEMMA FollowsQuiet ==
  ASSUME IInv, QuietInv, IteratorFollows, op # "none",
         UNCHANGED <<op, targets, except, current, count, quiet, expected>>,
         \A x \in Sids : count[x] = 0 => Untouched(x)
  PROVE  QuietInv'
<1> SUFFICES ASSUME quiet, NEW s \in Sids, count[s] = 0
             PROVE  Ahead(s)' <=> Ahead(s)
  BY DEF QuietInv
<1>1. Untouched(s)
  OBVIOUS
<1>2. s \in Iterated' <=> s \in Iterated
  <2>1. CASE current = All
    BY <1>1, <2>1 DEF Iterated, IteratorFollows, Untouched
  <2>2. CASE current # All
    <3>1. current \in AllRooms
      BY <2>2 DEF IInv, LoopInv, LoopType
    <3>2. s \in Members(current)' <=> s \in Members(current)
      BY <1>1, <3>1 DEF Untouched
    <3>3. live' <=> live /\ current \in DOMAIN rooms'
      BY <2>2 DEF IteratorFollows
    <3>4. s \in Members(current)' => current \in DOMAIN rooms'
      BY DEF Members
    <3> QED BY <2>2, <3>2, <3>3, <3>4 DEF Iterated
  <2> QED BY <2>1, <2>2
<1>3. \A r \in targets : s \in Members(r)' <=> s \in Members(r)
  BY <1>1 DEF Untouched, IInv, LoopInv, LoopType
<1> QED BY <1>1, <1>2, <1>3 DEF Ahead, Untouched

\* Where no socket is callable, whoever is iterated over has been called.
LEMMA Exhausted ==
  ASSUME IInv, CalledInv, calling = All, \A s \in Sids : ~Callable(s),
         NEW x \in Sids, x \in sockets, x \notin except, x \in Iterated
  PROVE  count[x] > 0
BY DEF CalledInv, Callable

LEMMA AllIsNoSid == All \notin Sids /\ All \notin AllRooms
BY NamesAssumption DEF AllRooms

LEMMA ReachInit == Init => ReachInv
<1> SUFFICES ASSUME Init PROVE ReachInv
  OBVIOUS
<1>1. CalledInv
  BY AllIsNoSid DEF Init, CalledInv
<1>2. KeptInv /\ IdleInv
  BY DEF Init, KeptInv, IdleInv
<1>3. \A s \in Sids : count[s] = 0
  BY DEF Init
<1>4. QuietInv
  BY <1>3 DEF Init, QuietInv, Ahead
<1> QED BY <1>1, <1>2, <1>4 DEF ReachInv

\* Outside of a loop nothing is to be reached.
LEMMA IdleReach ==
  ASSUME ReachInv, Idle
  PROVE  ReachInv'
<1>1. CalledInv'
  BY DEF ReachInv, CalledInv, Idle, loop, iterator, history
<1>2. KeptInv' /\ IdleInv'
  BY DEF ReachInv, KeptInv, IdleInv, Idle, loop, history
<1>3. QuietInv'
  BY DEF ReachInv, QuietInv, Ahead, Idle, loop, history
<1> QED BY <1>1, <1>2, <1>3 DEF ReachInv

\* When the loop begins, all that matches is ahead.
LEMMA StartReach ==
  ASSUME IInv, NEW R \in SUBSET AllRooms, NEW X, NEW o \in Ops \ {"none"}, NEW r, Start(o, r, R, X)
  PROVE  ReachInv'
<1> DEFINE E == ComputeExceptSids(X)
<1>1. /\ op' = o /\ except' = E /\ targets' = R /\ current' = All /\ live' = (R = {})
      /\ seen' = {} /\ ids' = {} /\ calling' = All
      /\ \A s \in Sids : count'[s] = 0
      /\ expected' = Matched(R, E) /\ kept' = Memberships(R, E) /\ UNCHANGED maps
  BY DEF Start
<1> HIDE DEF E
<1>2. CalledInv'
  BY <1>1, AllIsNoSid DEF CalledInv
<1>3. KeptInv'
  <2> SUFFICES ASSUME NEW m \in Memberships(R, E)
               PROVE  /\ m[1] \in sockets' /\ m[1] \notin except'
                      /\ m[2] # All => m[2] \in DOMAIN rooms' /\ m[1] \in rooms'[m[2]]
                      /\ m[2] \in targets' \/ (m[2] = current' /\ live')
    BY <1>1 DEF KeptInv
  <2>1. /\ m[1] \in sockets /\ m[2] \in R \union {All} /\ m[1] \notin E
        /\ IF m[2] = All THEN R = {} ELSE m[1] \in Members(m[2])
    BY DEF Memberships
  <2> QED BY <1>1, <2>1 DEF Members, maps
<1>4. QuietInv'
  <2> SUFFICES ASSUME NEW s \in Sids
               PROVE  s \in expected' <=> Ahead(s)'
    BY <1>1 DEF QuietInv
  <2>1. s \in Iterated' <=> R = {} /\ s \in DOMAIN sids
    BY <1>1 DEF Iterated, maps
  <2>2. Ahead(s)' <=> /\ s \in sockets /\ s \notin E
                      /\ s \in Iterated' \/ \E x \in R : s \in Members(x)
    BY <1>1 DEF Ahead, maps, Members
  <2> QED BY <1>1, <2>1, <2>2 DEF Matched
<1>5. IdleInv'
  BY <1>1 DEF IdleInv
<1> QED BY <1>2, <1>3, <1>4, <1>5 DEF ReachInv

\* The loop goes on to a room when it has called all of the last one.
LEMMA NextRoomReach ==
  ASSUME IInv, ReachInv, NEW r \in AllRooms, NextRoom(r)
  PROVE  ReachInv'
<1>1. /\ op # "none" /\ calling = All /\ \A s \in Sids : ~Callable(s)
      /\ r \in targets /\ targets' = targets \ {r}
      /\ current' = r /\ live' = (r \in DOMAIN rooms) /\ seen' = {}
      /\ UNCHANGED <<maps, op, except, calling, ids, history>>
  BY DEF NextRoom
<1>2. r # All
  BY AllIsNoSid
<1>3. \A x \in Sids : x \in sockets /\ x \notin except /\ x \in Iterated => count[x] > 0
  BY <1>1, Exhausted DEF ReachInv
<1>4. CalledInv'
  BY <1>1, <1>2 DEF ReachInv, CalledInv, history
<1>5. KeptInv'
  <2> SUFFICES ASSUME NEW m \in kept
               PROVE  /\ m[1] \in sockets' /\ m[1] \notin except'
                      /\ m[2] # All => m[2] \in DOMAIN rooms' /\ m[1] \in rooms'[m[2]]
                      /\ count'[m[1]] > 0 \/ m[2] \in targets' \/ (m[2] = current' /\ live')
    BY <1>1 DEF KeptInv, history
  <2>1. /\ m[1] \in sockets /\ m[1] \notin except
        /\ m[2] # All => m[2] \in DOMAIN rooms /\ m[1] \in rooms[m[2]]
        /\ count[m[1]] > 0 \/ m[2] \in targets \/ (m[2] = current /\ live)
    BY DEF ReachInv, KeptInv
  <2>2. m[1] \in Sids /\ m[1] \in DOMAIN sids
    BY <2>1 DEF IInv, MapsInv, LifeType, ConnectedInSids
  <2>3. m[2] = current /\ live => m[1] \in Iterated
    BY <2>1, <2>2 DEF Iterated, Members
  <2>4. m[2] = current /\ live => count[m[1]] > 0
    BY <1>3, <2>1, <2>2, <2>3
  <2>5. m[2] = r => current' = m[2] /\ live'
    BY <1>1, <1>2, <2>1
  <2> QED BY <1>1, <2>1, <2>4, <2>5 DEF maps, history
<1>6. QuietInv'
  <2> SUFFICES ASSUME NEW s \in Sids, count[s] = 0, s \in sockets, s \notin except
               PROVE  (s \in Iterated \/ \E x \in targets : s \in Members(x)) <=>
                      (s \in Iterated' \/ \E x \in targets' : s \in Members(x))
    BY <1>1 DEF ReachInv, QuietInv, Ahead, maps, history, Members
  <2>1. s \notin Iterated
    BY <1>3
  <2>2. s \in Iterated' <=> s \in Members(r)
    BY <1>1, <1>2 DEF Iterated, Members, maps
  <2> QED BY <1>1, <2>1, <2>2
<1>7. IdleInv'
  BY <1>1 DEF IdleInv
<1> QED BY <1>4, <1>5, <1>6, <1>7 DEF ReachInv

\* Whom the loop calls has matched, and is ahead no longer.
LEMMA VisitReach ==
  ASSUME IInv, ReachInv, NEW s \in Sids, Visit(s)
  PROVE  ReachInv'
<1>1. /\ op # "none" /\ calling = All /\ s \in Iterated \ seen /\ s \in sockets
      /\ s \notin except /\ s \notin ids
      /\ calling' = s /\ seen' = seen \union {s} /\ count' = [count EXCEPT ![s] = @ + 1]
      /\ UNCHANGED <<maps, op, targets, except, current, live, ids, quiet, expected, kept>>
  BY DEF Visit, Callable
<1>2. count \in [Sids -> Nat]
  BY DEF IInv, LoopInv, LoopType
<1>3. \A x \in Sids : count'[x] = IF x = s THEN count[s] + 1 ELSE count[x]
  BY <1>1, <1>2
<1>4. count'[s] > 0 /\ \A x \in Sids : count[x] > 0 => count'[x] > 0
  BY <1>2, <1>3
<1>5. CalledInv'
  BY <1>1, <1>4 DEF ReachInv, CalledInv
<1>6. KeptInv'
  <2> SUFFICES ASSUME NEW m \in kept
               PROVE  /\ m[1] \in sockets' /\ m[1] \notin except'
                      /\ m[2] # All => m[2] \in DOMAIN rooms' /\ m[1] \in rooms'[m[2]]
                      /\ count'[m[1]] > 0 \/ m[2] \in targets' \/ (m[2] = current' /\ live')
    BY <1>1 DEF KeptInv
  <2>1. m[1] \in Sids
    BY DEF ReachInv, KeptInv, IInv, MapsInv, LifeType
  <2> QED BY <1>1, <1>4, <2>1 DEF ReachInv, KeptInv, maps
<1>7. UNCHANGED Iterated /\ \A x \in Sids : Ahead(x)' <=> Ahead(x)
  BY <1>1 DEF Ahead, Iterated, Members, maps
<1>8. ASSUME quiet PROVE s \in expected
  <2>1. Ahead(s)
    BY <1>1 DEF Ahead
  <2>2. count[s] = 0 \/ count[s] > 0
    BY <1>2
  <2> QED BY <1>8, <2>1, <2>2 DEF ReachInv, QuietInv
<1>9. QuietInv'
  <2> SUFFICES ASSUME quiet, NEW x \in Sids
               PROVE  /\ count'[x] > 0 => x \in expected
                      /\ count'[x] = 0 => (x \in expected <=> Ahead(x)')
    BY <1>1 DEF QuietInv
  <2>1. CASE x = s
    BY <1>4, <1>8, <2>1
  <2>2. CASE x # s
    BY <1>3, <1>7, <2>2 DEF ReachInv, QuietInv
  <2> QED BY <2>1, <2>2
<1>10. IdleInv'
  BY <1>1 DEF IdleInv
<1> QED BY <1>5, <1>6, <1>9, <1>10 DEF ReachInv

\* The effect of a callback concerns the socket that is called.
LEMMA EffectReach ==
  ASSUME IInv, ReachInv, Effect
  PROVE  ReachInv'
<1>1. /\ calling # All /\ IteratorFollows
      /\ UNCHANGED <<op, targets, except, current, calling, ids, count, quiet, expected>>
  BY DEF Effect
<1>2. calling \in Sids
  BY <1>1 DEF IInv, LoopInv, LoopType
<1>3. count[calling] > 0
  BY <1>2 DEF ReachInv, CalledInv
<1>4. CalledInv' /\ KeptInv'
  BY <1>1, FollowsReach DEF ReachInv
<1>5. op # "none"
  BY DEF Effect
<1>6. \A x \in Sids \ {calling} : Untouched(x)
  <2>1. CASE UNCHANGED maps
    BY <2>1 DEF maps, Untouched, Members
  <2>2. CASE op \in {"join", "leave"} /\ (Join(calling, arg) \/ Leave(calling, arg))
    <3>1. arg \in AllRooms
      BY <2>2 DEF IInv, LoopInv, ArgIsRoom
    <3> QED BY <2>2, <3>1, <1>2, OthersUntouched DEF IInv
  <2>3. CASE OnClose(calling)
    <3>1. calling \in AllRooms
      BY <1>2 DEF AllRooms
    <3> QED BY <2>3, <3>1, <1>2, OthersUntouched DEF IInv
  <2> QED BY <2>1, <2>2, <2>3 DEF Effect
<1>7. \A x \in Sids : count[x] = 0 => Untouched(x)
  BY <1>3, <1>6
<1>8. QuietInv'
  BY <1>1, <1>5, <1>7, FollowsQuiet DEF ReachInv
<1>9. IdleInv'
  BY <1>1, <1>5 DEF IdleInv
<1> QED BY <1>4, <1>8, <1>9 DEF ReachInv

LEMMA ReachNext == IInv /\ ReachInv /\ [Next]_vars => ReachInv'
<1> SUFFICES ASSUME IInv, ReachInv, [Next]_vars PROVE ReachInv'
  OBVIOUS
<1>1. ASSUME NEW s \in Sids, Create(s) \/ Connect(s) \/ Reject(s) \/ Application(s) PROVE ReachInv'
  BY <1>1, IdleReach DEF Create, Connect, Reject, Application
<1>2. CASE Starts
  <2>1. PICK R \in SUBSET AllRooms, X \in SUBSET AllRooms, o \in Ops \ {"none"},
             r \in AllRooms \union {All} : Start(o, r, R, X)
    BY <1>2 DEF Starts, Ops, AllRooms
  <2> QED BY <2>1, StartReach
<1>3. ASSUME NEW r \in AllRooms, NextRoom(r) PROVE ReachInv'
  BY <1>3, NextRoomReach
<1>4. ASSUME NEW s \in Sids, Visit(s) PROVE ReachInv'
  BY <1>4, VisitReach
<1>5. ASSUME NEW s \in Sids, Listener(s) PROVE ReachInv'
  <2>1. UNCHANGED <<op, targets, except, current, calling, ids, count>>
        /\ IteratorFollows /\ quiet' = FALSE /\ op # "none"
    BY <1>5 DEF Listener, loop
  <2>2. CalledInv' /\ KeptInv'
    BY <2>1, FollowsReach DEF ReachInv
  <2> QED BY <2>1, <2>2 DEF ReachInv, QuietInv, IdleInv
<1>6. CASE Effect
  BY <1>6, EffectReach
<1>7. CASE Return
  <2>1. /\ calling' = All /\ ids' = (IF current = All THEN ids ELSE ids \union {calling})
        /\ UNCHANGED <<maps, op, targets, except, current, live, seen, count, quiet, expected, kept>>
    BY <1>7 DEF Return, iterator, history
  <2>2. CalledInv'
    BY <2>1, AllIsNoSid DEF ReachInv, CalledInv
  <2>3. KeptInv' /\ IdleInv'
    BY <2>1 DEF ReachInv, KeptInv, IdleInv, maps
  <2>4. QuietInv'
    BY <2>1 DEF ReachInv, QuietInv, Ahead, Iterated, Members, maps
  <2> QED BY <2>2, <2>3, <2>4 DEF ReachInv
<1>8. CASE Finish
  <2>1. /\ op' = "none" /\ current' = All /\ seen' = {} /\ ids' = {} /\ calling' = All
        /\ \A s \in Sids : count'[s] = 0
        /\ expected' = {} /\ kept' = {}
    BY <1>8 DEF Finish
  <2>2. CalledInv' /\ KeptInv' /\ IdleInv'
    BY <2>1, AllIsNoSid DEF CalledInv, KeptInv, IdleInv
  <2>3. QuietInv'
    BY <2>1 DEF QuietInv, Ahead
  <2> QED BY <2>2, <2>3 DEF ReachInv
<1>9. CASE UNCHANGED vars
  BY <1>9 DEF vars, maps, loop, iterator, history, ReachInv, CalledInv, KeptInv, QuietInv, IdleInv,
              Ahead, Iterated, Members
<1> QED
  BY <1>1, <1>2, <1>3, <1>4, <1>5, <1>6, <1>7, <1>8, <1>9 DEF Next

\* Where the loop ends, it has called all that lasted, and if no listener
\* interfered, just what had matched.
LEMMA FinishReaches ==
  ASSUME IInv, ReachInv, Finish
  PROVE  /\ \A m \in kept : count[m[1]] = 1
         /\ quiet => {s \in Sids : count[s] > 0} = expected
<1>1. calling = All /\ targets = {} /\ \A s \in Sids : ~Callable(s)
  BY DEF Finish
<1>2. \A x \in Sids : x \in sockets /\ x \notin except /\ x \in Iterated => count[x] > 0
  BY <1>1, Exhausted DEF ReachInv
<1>3. ASSUME NEW m \in kept PROVE count[m[1]] = 1
  <2>1. /\ m[1] \in sockets /\ m[1] \notin except
        /\ m[2] # All => m[2] \in DOMAIN rooms /\ m[1] \in rooms[m[2]]
        /\ count[m[1]] > 0 \/ (m[2] = current /\ live)
    BY <1>1 DEF ReachInv, KeptInv
  <2>2. m[1] \in Sids /\ m[1] \in DOMAIN sids
    BY <2>1 DEF IInv, MapsInv, LifeType, ConnectedInSids
  <2>3. m[2] = current /\ live => m[1] \in Iterated
    BY <2>1, <2>2 DEF Iterated, Members
  <2>4. count[m[1]] > 0
    BY <1>2, <2>1, <2>2, <2>3
  <2> QED BY <2>2, <2>4 DEF IInv, LoopInv, CalledIsKnown
<1>4. ASSUME quiet, NEW s \in Sids PROVE count[s] > 0 <=> s \in expected
  <2>1. Ahead(s) => count[s] > 0
    BY <1>1, <1>2 DEF Ahead
  <2>2. count[s] = 0 \/ count[s] > 0
    BY DEF IInv, LoopInv, LoopType
  <2> QED BY <1>4, <2>1, <2>2 DEF ReachInv, QuietInv
<1>5. expected \subseteq Sids
  BY DEF IInv, LoopInv, LoopType
<1> QED BY <1>3, <1>4, <1>5

\* A socket that stays in a targeted room is reached although the listeners
\* change the Set under the loop of apply, and without interference exactly
\* the sockets that matched are, although the operation itself joins, leaves
\* or disconnects the sockets it iterates over.
THEOREM NoneIsMissed == Spec => NoneMissed
<1>1. Init => IInv /\ ReachInv
  BY InvInit, ReachInit
<1>2. IInv /\ ReachInv /\ [Next]_vars => (IInv /\ ReachInv)'
  BY InvNext, ReachNext
<1>3. IInv /\ ReachInv /\ [Next]_vars =>
      [Finish => /\ \A m \in kept : count[m[1]] = 1
                 /\ quiet => {s \in Sids : count[s] > 0} = expected]_vars
  BY FinishReaches
<1> QED BY <1>1, <1>2, <1>3, PTL DEF Spec, NoneMissed
=============================================================================
