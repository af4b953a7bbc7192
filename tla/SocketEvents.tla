---------------------------- MODULE SocketEvents ----------------------------
(***************************************************************************)
(* One Socket as its application sees it: the listeners of EventEmitter    *)
(* (event-emitter/mod.ts), the catch-all listeners, the disconnection and  *)
(* the acknowledgements of socket.io/lib/socket.ts.                        *)
(*                                                                         *)
(* A listener is code of the application that runs in the middle of a      *)
(* dispatch, and may register and remove listeners, or disconnect.  So the *)
(* call stack is explicit: a frame is a loop over listeners in progress,   *)
(* and only the frame on top moves.  Packets and timers wait until the     *)
(* stack is empty.  Listeners do not throw.                                *)
(***************************************************************************)
EXTENDS Integers, Sequences, FiniteSets

CONSTANTS
  Fns,         \* the functions the application registers
  MaxEntries,  \* bound: registrations
  MaxArrays,   \* bound: arrays of catch-all listeners
  MaxPackets,  \* bound: events received
  MaxDepth,    \* bound: dispatches within one another
  MaxAcks      \* bound: events emitted with a callback

ASSUME BoundsAssumption ==
  /\ MaxEntries \in Nat /\ MaxArrays \in Nat \ {0} /\ MaxPackets \in Nat
  /\ MaxDepth \in Nat /\ MaxAcks \in Nat

VARIABLES
  connected,    \* Socket.connected
  entries,      \* the registrations, in order
  listeners,    \* EventEmitter._listeners
  arrays,       \* the arrays that were #anyIncomingListeners, the last is
  stack,        \* the dispatches in progress
  received,     \* how many events were received
  disconnects,  \* history: how often "disconnect" was emitted
  reentered,    \* history: was disconnect() called by a "disconnecting" listener?
  acks          \* _acks and its timers, by id

vars == <<connected, entries, listeners, arrays, stack, received, disconnects, reentered, acks>>
registry == <<entries, listeners, arrays>>
history == <<received, disconnects, reentered>>

\* The event of packets, and the reserved one.
Events == {"event", "disconnecting"}

\* A registration: who it calls, for what, once(), whether it was removed, and
\* how often it ran.
Entry(fn, of, once) == [fn |-> fn, of |-> of, once |-> once, gone |-> FALSE, runs |-> 0]

\* A dispatch: over what, the listeners there when it began, the array a
\* catch-all loop walks, how far it is, who it called, and is one running?
Frame(of) ==
  [of |-> of, start |-> IF of = "any" THEN arrays[Len(arrays)] ELSE listeners[of],
   array |-> Len(arrays), at |-> 0, called |-> <<>>, body |-> FALSE]

Top == stack[Len(stack)]
Popped == SubSeq(stack, 1, Len(stack) - 1)
SetTop(f) == [stack EXCEPT ![Len(stack)] = f]

\* Code of the application runs when no dispatch does, or within a listener.
AppRuns == IF stack = <<>> THEN TRUE ELSE Top.body

\* The first position in s of a listener that calls fn, if there is one.
FirstAt(s, fn) ==
  {k \in DOMAIN s : entries[s[k]].fn = fn /\ \A l \in 1..(k - 1) : entries[s[l]].fn # fn}

\* Array.splice(k - 1, 1)
Spliced(s, k) == [j \in 1..(Len(s) - 1) |-> IF j < k THEN s[j] ELSE s[j + 1]]

-----------------------------------------------------------------------------
(* Registering and removing.                                               *)

\* EventEmitter.on and once
On(of, fn, once) ==
  /\ AppRuns /\ Len(entries) < MaxEntries
  /\ entries' = Append(entries, Entry(fn, of, once))
  /\ listeners' = [listeners EXCEPT ![of] = Append(@, Len(entries) + 1)]
  /\ UNCHANGED <<connected, arrays, stack, history, acks>>

\* EventEmitter.off(event, listener): the first registration of the function.
Off(of, fn) ==
  /\ AppRuns
  /\ \E k \in FirstAt(listeners[of], fn) :
       /\ entries' = [entries EXCEPT ![listeners[of][k]].gone = TRUE]
       /\ listeners' = [listeners EXCEPT ![of] = Spliced(@, k)]
  /\ UNCHANGED <<connected, arrays, stack, history, acks>>

\* EventEmitter.off(event) and off()
OffAll(which) ==
  /\ AppRuns /\ \E of \in which : listeners[of] # <<>>
  /\ entries' = [i \in DOMAIN entries |->
                   IF \E of \in which : \E k \in DOMAIN listeners[of] : listeners[of][k] = i
                   THEN [entries[i] EXCEPT !.gone = TRUE] ELSE entries[i]]
  /\ listeners' = [of \in Events |-> IF of \in which THEN <<>> ELSE listeners[of]]
  /\ UNCHANGED <<connected, arrays, stack, history, acks>>

\* A registration that comes before the earlier ones.
OnAnyFirst(fn) ==
  /\ AppRuns /\ Len(entries) < MaxEntries
  /\ entries' = Append(entries, Entry(fn, "any", FALSE))
  /\ arrays' = [arrays EXCEPT ![Len(arrays)] = <<Len(entries) + 1>> \o @]
  /\ UNCHANGED <<connected, listeners, stack, history, acks>>

\* onAnyIncoming, and onAnyOutgoing with its own array
OnAny(fn) ==
  /\ AppRuns /\ Len(entries) < MaxEntries
  /\ entries' = Append(entries, Entry(fn, "any", FALSE))
  /\ arrays' = [arrays EXCEPT ![Len(arrays)] = Append(@, Len(entries) + 1)]
  /\ UNCHANGED <<connected, listeners, stack, history, acks>>

\* offAnyIncoming(listener): splice, in the array that a loop may be walking.
OffAny(fn) ==
  /\ AppRuns
  /\ \E k \in FirstAt(arrays[Len(arrays)], fn) :
       /\ entries' = [entries EXCEPT ![arrays[Len(arrays)][k]].gone = TRUE]
       /\ arrays' = [arrays EXCEPT ![Len(arrays)] = Spliced(@, k)]
  /\ UNCHANGED <<connected, listeners, stack, history, acks>>

\* offAnyIncoming(): a new array takes the place of the old.
OffAllAny ==
  /\ AppRuns /\ Len(arrays) < MaxArrays
  /\ entries' = [i \in DOMAIN entries |->
                   IF entries[i].of = "any" THEN [entries[i] EXCEPT !.gone = TRUE] ELSE entries[i]]
  /\ arrays' = Append(arrays, <<>>)
  /\ UNCHANGED <<connected, listeners, stack, history, acks>>

-----------------------------------------------------------------------------
(* Dispatching.                                                            *)

\* A loop of emit over the list itself.
WalksLive(f) == IF f.of = "any" THEN arrays[f.array] ELSE listeners[f.of]

\* What a loop walks: emit a copy, notifyIncomingListeners the array itself.
Walks(f) == IF f.of = "any" THEN arrays[f.array] ELSE f.start

\* A wrapper of once that removes the first registration of its function.
RemovedByFunction(i) ==
  IF entries[i].once THEN FirstAt(listeners[entries[i].of], entries[i].fn) ELSE {}

\* The wrapper of once removes itself before it calls the listener: where.
RemovedByCall(i) ==
  IF entries[i].once
  THEN {k \in DOMAIN listeners[entries[i].of] : listeners[entries[i].of][k] = i} ELSE {}

\* The loop on top calls its next listener.
Call ==
  /\ stack # <<>> /\ ~Top.body /\ Top.at < Len(Walks(Top))
  /\ LET i == Walks(Top)[Top.at + 1]
         of == entries[i].of
         removed == RemovedByCall(i)
     IN  /\ stack' = SetTop([Top EXCEPT !.at = @ + 1, !.called = Append(@, i), !.body = TRUE])
         /\ entries' = [j \in DOMAIN entries |->
                          [entries[j] EXCEPT !.runs = IF j = i THEN @ + 1 ELSE @,
                             !.gone = @ \/ \E k \in removed : listeners[of][k] = j]]
         /\ \/ removed = {} /\ UNCHANGED listeners
            \/ \E k \in removed : listeners' = [listeners EXCEPT ![of] = Spliced(@, k)]
  /\ UNCHANGED <<connected, arrays, history, acks>>

Return ==
  /\ stack # <<>> /\ Top.body /\ stack' = SetTop([Top EXCEPT !.body = FALSE])
  /\ UNCHANGED <<connected, registry, history, acks>>

\* Socket.onevent: the catch-all listeners come first.
Receive ==
  /\ stack = <<>> /\ connected /\ received < MaxPackets
  /\ received' = received + 1
  /\ stack' = <<Frame("any")>>
  /\ UNCHANGED <<connected, registry, disconnects, reentered, acks>>

\* An onevent that does not look at the socket again.
EmitAnyway == stack' = Append(Popped, Frame("event")) /\ UNCHANGED <<connected, disconnects>>

\* The rest of onevent: the event itself, if the socket is still connected.
EmitEvent ==
  /\ stack' = IF connected THEN Append(Popped, Frame("event")) ELSE Popped
  /\ UNCHANGED <<connected, disconnects>>

\* The loop on top is over: the rest of onevent, or of _onclose.
Finish ==
  /\ stack # <<>> /\ ~Top.body /\ Top.at >= Len(Walks(Top))
  /\ \/ Top.of = "any" /\ EmitEvent
     \/ Top.of = "event" /\ stack' = Popped /\ UNCHANGED <<connected, disconnects>>
     \/ /\ Top.of = "disconnecting" /\ stack' = Popped
        /\ connected' = FALSE /\ disconnects' = disconnects + 1
  /\ UNCHANGED <<registry, received, reentered, acks>>

\* Socket.disconnect and _onclose, up to the "disconnecting" event, during
\* which the socket counts as connected.  With an empty stack it is also the
\* DISCONNECT packet or the end of the connection.
Disconnect ==
  /\ AppRuns /\ connected /\ Len(stack) < MaxDepth
  /\ stack' = Append(stack, Frame("disconnecting"))
  /\ reentered' = (reentered \/ \E k \in DOMAIN stack : stack[k].of = "disconnecting")
  /\ UNCHANGED <<connected, registry, received, disconnects, acks>>

-----------------------------------------------------------------------------
(* Acknowledgements.                                                       *)

\* Socket.emit with a callback, registerAckCallback with or without a timeout.
EmitWithAck(timed) ==
  /\ AppRuns /\ Len(acks) < MaxAcks
  /\ acks' = Append(acks, [waits |-> TRUE, timer |-> timed, timed |-> timed, runs |-> 0])
  /\ UNCHANGED <<connected, registry, stack, history>>

\* An acknowledgement that leaves the timer armed.
OnAckTimerRuns(a) ==
  /\ stack = <<>> /\ connected /\ acks[a].waits
  /\ acks' = [acks EXCEPT ![a].waits = FALSE, ![a].runs = @ + 1]
  /\ UNCHANGED <<connected, registry, stack, history>>

\* Socket.onack: any other id is a bad ack.
OnAck(a) ==
  /\ stack = <<>> /\ connected /\ acks[a].waits
  /\ acks' = [acks EXCEPT ![a].waits = FALSE, ![a].timer = FALSE, ![a].runs = @ + 1]
  /\ UNCHANGED <<connected, registry, stack, history>>

\* The timer of registerAckCallback.
AckTimeout(a) ==
  /\ stack = <<>> /\ acks[a].timer
  /\ acks' = [acks EXCEPT ![a].timer = FALSE, ![a].waits = FALSE, ![a].runs = @ + 1]
  /\ UNCHANGED <<connected, registry, stack, history>>

-----------------------------------------------------------------------------
Init ==
  /\ connected = TRUE /\ entries = <<>> /\ listeners = [of \in Events |-> <<>>]
  /\ arrays = << <<>> >> /\ stack = <<>> /\ received = 0
  /\ disconnects = 0 /\ reentered = FALSE /\ acks = <<>>

Runs == Call \/ Return \/ Finish

Next ==
  \/ Runs \/ Receive \/ Disconnect
  \/ \E fn \in Fns :
       \/ \E of \in Events : Off(of, fn) \/ \E once \in BOOLEAN : On(of, fn, once)
       \/ OnAny(fn) \/ OffAny(fn)
  \/ \E which \in {{"event"}, {"disconnecting"}, Events} : OffAll(which)
  \/ OffAllAny
  \/ \E timed \in BOOLEAN : EmitWithAck(timed)
  \/ \E a \in DOMAIN acks : OnAck(a) \/ AckTimeout(a)

Spec == Init /\ [][Next]_vars

\* Listeners return, and timers fire.
FairSpec == Spec /\ WF_vars(Runs) /\ \A a \in 1..MaxAcks : WF_vars(a \in DOMAIN acks /\ AckTimeout(a))

-----------------------------------------------------------------------------
Count(s, i) == Cardinality({k \in DOMAIN s : s[k] = i})
Done(f) == ~f.body /\ f.at >= Len(Walks(f))
Stayed(f) == {i \in {f.start[k] : k \in DOMAIN f.start} : ~entries[i].gone}

\* A listener registered before an event and not removed during it is called
\* by it once, whatever the other listeners register and remove: emit walks a
\* copy of its list.
EmitReaches ==
  \A n \in DOMAIN stack : stack[n].of \in Events /\ Done(stack[n]) =>
    \A i \in Stayed(stack[n]) : Count(stack[n].called, i) = 1

\* The catch-all loop walks the array itself: a listener that is called is
\* called once, and one that stays is called unless another one was removed,
\* in which case the loop may skip it.
CatchAllReaches ==
  \A n \in DOMAIN stack : stack[n].of = "any" =>
    LET f == stack[n]
    IN  /\ \A i \in DOMAIN entries : Count(f.called, i) <= 1
        /\ Done(f) /\ (\A k \in DOMAIN f.start : ~entries[f.start[k]].gone) =>
             \A k \in DOMAIN f.start : Count(f.called, f.start[k]) = 1

\* A once-listener runs at most once, also where the same function is
\* registered twice; unless a "disconnecting" listener called disconnect(),
\* whose inner dispatch calls it before the outer one does.
OnceRunsOnce ==
  \A i \in DOMAIN entries :
    entries[i].once /\ (entries[i].of = "event" \/ ~reentered) => entries[i].runs <= 1

\* "disconnect" is emitted once, and it is the last event: no dispatch of a
\* packet's event begins once the socket is disconnected, be it by a catch-all
\* listener of that very packet.  One that a "disconnecting" listener calls
\* disconnect() in emits it twice.
DisconnectIsLast ==
  [][ /\ disconnects' > 1 => reentered'
      /\ ~connected /\ stack' # <<>> /\ stack'[Len(stack')].of = "event" =>
           \E k \in DOMAIN stack : stack[k].of = "event" ]_vars

\* The callback of an event emitted with a timeout runs, and then never again:
\* whichever of the answer, the timer and the end of the socket comes first.
AckEnds ==
  \A a \in 1..MaxAcks :
    a \in DOMAIN acks /\ acks[a].timed ~> [](a \in DOMAIN acks /\ acks[a].runs = 1)
=============================================================================
