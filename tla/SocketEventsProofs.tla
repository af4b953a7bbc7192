-------------------------- MODULE SocketEventsProofs --------------------------
(***************************************************************************)
(* EmitReaches, CatchAllReaches, OnceRunsOnce and DisconnectIsLast hold    *)
(* for any number of functions, registrations, packets and dispatches      *)
(* within one another, whatever the listeners do.                          *)
(*                                                                         *)
(* The invariant follows the dispatches in progress: what each has called, *)
(* and that the once-listeners it has still to call have not run.  The     *)
(* latter is true because a packet's event is dispatched only at the       *)
(* bottom of the stack, and "disconnecting" once unless it is reentered.   *)
(*                                                                         *)
(* Its parts are operators of what they read (the entries es, the arrays   *)
(* as, the listeners ls), so that the lemmas below speak of values and not *)
(* of steps.                                                               *)
(***************************************************************************)
EXTENDS SocketEvents, SequenceTheorems, FiniteSetTheorems, TLAPS

Kinds == Events \union {"any"}

EntryType == [fn : Fns, of : Kinds, once : BOOLEAN, gone : BOOLEAN, runs : Nat]

FrameType ==
  [of : Kinds, start : Seq(Nat), array : Nat, at : Nat, called : Seq(Nat), body : BOOLEAN]

TypeOK ==
  /\ connected \in BOOLEAN /\ entries \in Seq(EntryType)
  /\ listeners \in [Events -> Seq(Nat)] /\ arrays \in Seq(Seq(Nat)) /\ stack \in Seq(FrameType)
  /\ received \in Nat /\ disconnects \in Nat /\ reentered \in BOOLEAN

Distinct(s) == \A j, k \in DOMAIN s : s[j] = s[k] => j = k

\* The members of the list s are registrations for of.
ListOf(s, of, es) ==
  Distinct(s) /\ \A k \in DOMAIN s : s[k] \in DOMAIN es /\ es[s[k]].of = of

\* They are those that were not removed.
Listed(s, of, es) ==
  /\ ListOf(s, of, es)
  /\ \A i \in DOMAIN es : es[i].of = of => (~es[i].gone <=> \E k \in DOMAIN s : s[k] = i)

\* No catch-all is a once-listener; one is removed before it runs, and runs
\* once unless "disconnecting" is reentered.
OnceOK(es, re) ==
  \A i \in DOMAIN es : es[i].once =>
    /\ es[i].of \in Events /\ (es[i].runs > 0 => es[i].gone)
    /\ es[i].of = "event" \/ ~re => es[i].runs <= 1

ArraysOK(as, es) == Len(as) > 0 /\ \A m \in DOMAIN as : ListOf(as[m], "any", es)

Registry ==
  /\ \A of \in Events : Listed(listeners[of], of, entries)
  /\ OnceOK(entries, reentered) /\ ArraysOK(arrays, entries)

\* emit has called the first of the listeners it started with; the once-
\* listeners among the others have not run.
EmitFrame(f, es, re) ==
  /\ ListOf(f.start, f.of, es)
  /\ f.at <= Len(f.start) /\ Len(f.called) = f.at
  /\ \A k \in 1..f.at : f.called[k] = f.start[k]
  /\ \A k \in DOMAIN f.start :
       k > f.at /\ es[f.start[k]].once /\ (f.of = "event" \/ ~re) => es[f.start[k]].runs = 0

\* None of the catch-all listeners that a loop started with was removed.
Unremoved(f, es) == \A k \in DOMAIN f.start : ~es[f.start[k]].gone

\* The catch-all loop has not called what it has still to walk; what it started
\* with is there, in its place, unless one of those was removed.
AnyFrame(f, es, as) ==
  /\ f.array \in DOMAIN as /\ Len(f.called) = f.at /\ ListOf(f.called, "any", es)
  /\ \A j \in DOMAIN as[f.array], k \in DOMAIN f.called :
       j > f.at => as[f.array][j] # f.called[k]
  /\ \A k \in DOMAIN f.start : f.start[k] \in DOMAIN es /\ es[f.start[k]].of = "any"
  /\ Unremoved(f, es) =>
       \A k \in DOMAIN f.start :
         /\ k <= Len(as[f.array]) /\ as[f.array][k] = f.start[k]
         /\ k <= f.at => f.called[k] = f.start[k]

FrameOK(f, es, as, re) == IF f.of = "any" THEN AnyFrame(f, es, as) ELSE EmitFrame(f, es, re)

Frames == \A n \in DOMAIN stack : FrameOK(stack[n], entries, arrays, reentered)

\* A packet is dispatched at the bottom of the stack, and "disconnecting" once,
\* while the socket is connected, unless it is reentered.
Shape(st, re, conn) ==
  /\ \A n \in DOMAIN st : st[n].of # "disconnecting" => n = 1
  /\ ~re => \A m, n \in DOMAIN st :
       st[m].of = "disconnecting" /\ st[n].of = "disconnecting" => m = n /\ conn

Ended == (connected <=> disconnects = 0) /\ (disconnects > 1 => reentered)

IInv == TypeOK /\ Registry /\ Frames /\ Shape(stack, reentered, connected) /\ Ended

-----------------------------------------------------------------------------
(* Lists of registrations.                                                 *)

\* splice() takes one member out and moves those after it down.
LEMMA SplicedSeq ==
  ASSUME NEW s \in Seq(Nat), NEW k \in DOMAIN s
  PROVE  /\ Spliced(s, k) \in Seq(Nat) /\ Len(Spliced(s, k)) = Len(s) - 1
         /\ DOMAIN Spliced(s, k) = 1..(Len(s) - 1)
         /\ \A j \in 1..(Len(s) - 1) : Spliced(s, k)[j] = IF j < k THEN s[j] ELSE s[j + 1]
<1> DEFINE t == Spliced(s, k)
           m == Len(s) - 1
<1>1. Len(s) \in Nat /\ DOMAIN s = 1..Len(s) /\ k \in 1..Len(s) /\ m \in Nat
  BY LenProperties
<1>2. \A j \in 1..m : j \in 1..Len(s) /\ j + 1 \in 1..Len(s)
  BY <1>1
<1>3. \A j \in 1..Len(s) : s[j] \in Nat
  BY <1>1, ElementOfSeq
<1>4. t = [j \in 1..m |-> IF j < k THEN s[j] ELSE s[j + 1]]
  BY DEF Spliced
<1>5. t \in [1..m -> Nat]
  BY <1>2, <1>3, <1>4
<1>6. t \in Seq(Nat)
  BY <1>1, <1>5, SeqDef
<1>7. DOMAIN t = 1..m /\ Len(t) \in Nat /\ DOMAIN t = 1..Len(t)
  BY <1>5, <1>6, LenProperties
<1> HIDE DEF t, m
<1>8. Len(t) = m
  BY <1>1, <1>7
<1> QED BY <1>2, <1>4, <1>6, <1>7, <1>8 DEF t, m

LEMMA SplicedMembers ==
  ASSUME NEW s \in Seq(Nat), NEW k \in DOMAIN s, Distinct(s)
  PROVE  /\ Distinct(Spliced(s, k))
         /\ \A j \in DOMAIN Spliced(s, k) :
              Spliced(s, k)[j] # s[k] /\ \E l \in DOMAIN s : s[l] = Spliced(s, k)[j]
         /\ \A l \in DOMAIN s :
              l # k => \E j \in DOMAIN Spliced(s, k) : Spliced(s, k)[j] = s[l]
<1> DEFINE t == Spliced(s, k)
<1>1. Len(s) \in Nat /\ DOMAIN s = 1..Len(s) /\ k \in 1..Len(s)
  BY LenProperties
<1>2. /\ DOMAIN t = 1..(Len(s) - 1)
      /\ \A j \in 1..(Len(s) - 1) : t[j] = IF j < k THEN s[j] ELSE s[j + 1]
  BY SplicedSeq
<1> HIDE DEF t
<1> DEFINE at(j) == IF j < k THEN j ELSE j + 1
<1>0. \A j \in DOMAIN t : at(j) \in DOMAIN s /\ at(j) # k /\ t[j] = s[at(j)]
  BY <1>1, <1>2
<1>7. \A i, j \in DOMAIN t : at(i) = at(j) => i = j
  BY <1>1, <1>2
<1> HIDE DEF at
<1>3. Distinct(t)
  BY <1>0, <1>7 DEF Distinct
<1>4. ASSUME NEW j \in DOMAIN t
      PROVE  t[j] # s[k] /\ \E l \in DOMAIN s : s[l] = t[j]
  BY <1>0 DEF Distinct
<1>5. ASSUME NEW l \in DOMAIN s, l # k
      PROVE  \E j \in DOMAIN t : t[j] = s[l]
  <2>1. CASE l < k
    BY <1>1, <1>2, <1>5, <2>1
  <2>2. CASE ~(l < k)
    <3>1. l - 1 \in 1..(Len(s) - 1) /\ ~(l - 1 < k) /\ (l - 1) + 1 = l
      BY <1>1, <1>5, <2>2
    <3> QED BY <1>2, <3>1
  <2> QED BY <2>1, <2>2
<1> QED BY <1>3, <1>4, <1>5 DEF t

LEMMA AppendedSeq ==
  ASSUME NEW S, NEW s \in Seq(S), NEW e \in S
  PROVE  /\ Append(s, e) \in Seq(S) /\ Len(Append(s, e)) = Len(s) + 1
         /\ DOMAIN Append(s, e) = 1..(Len(s) + 1)
         /\ DOMAIN s = 1..Len(s) /\ Len(s) \in Nat
         /\ \A j \in DOMAIN s : j \in DOMAIN Append(s, e) /\ Append(s, e)[j] = s[j]
         /\ Append(s, e)[Len(s) + 1] = e
BY AppendProperties, LenProperties

\* No registration is forgotten, or becomes another; none comes back.
Grown(es, es2) ==
  /\ DOMAIN es \subseteq DOMAIN es2
  /\ \A i \in DOMAIN es :
       es2[i].of = es[i].of /\ es2[i].once = es[i].once /\ (es[i].gone => es2[i].gone)

\* No listener ran, and no once-listener is new among the catch-alls.
Quiet(es, es2) ==
  /\ Grown(es, es2)
  /\ \A i \in DOMAIN es : es2[i].runs = es[i].runs
  /\ \A i \in DOMAIN es2 : i \notin DOMAIN es =>
       es2[i].runs = 0 /\ (es2[i].once => es2[i].of \in Events)

LEMMA ListOfGrown ==
  ASSUME NEW s, NEW of, NEW es, NEW es2, ListOf(s, of, es), Grown(es, es2)
  PROVE  ListOf(s, of, es2)
BY DEF ListOf, Grown

LEMMA ListedGrown ==
  ASSUME NEW s, NEW of, NEW es, NEW es2, Listed(s, of, es), Grown(es, es2),
         \A i \in DOMAIN es2 : es2[i].of = of => i \in DOMAIN es /\ (es2[i].gone <=> es[i].gone)
  PROVE  Listed(s, of, es2)
BY ListOfGrown DEF Listed, Grown

LEMMA ListedSpliced ==
  ASSUME NEW s \in Seq(Nat), NEW k \in DOMAIN s, NEW of, NEW es, NEW es2,
         Listed(s, of, es), Grown(es, es2), DOMAIN es2 = DOMAIN es,
         \A i \in DOMAIN es : es2[i].gone <=> es[i].gone \/ i = s[k]
  PROVE  Listed(Spliced(s, k), of, es2)
<1> DEFINE t == Spliced(s, k)
<1>0. Distinct(s)
  BY DEF Listed, ListOf
<1>1. /\ Distinct(t)
      /\ \A j \in DOMAIN t : t[j] # s[k] /\ \E l \in DOMAIN s : s[l] = t[j]
      /\ \A l \in DOMAIN s : l # k => \E j \in DOMAIN t : t[j] = s[l]
  BY <1>0, SplicedMembers
<1> HIDE DEF t
<1>2. ListOf(t, of, es2)
  BY <1>1 DEF Listed, ListOf, Grown
<1>3. ASSUME NEW i \in DOMAIN es2, es2[i].of = of
      PROVE  ~es2[i].gone <=> \E j \in DOMAIN t : t[j] = i
  <2>1. /\ i \in DOMAIN es /\ (es2[i].gone <=> es[i].gone \/ i = s[k])
        /\ ~es[i].gone <=> \E l \in DOMAIN s : s[l] = i
    BY <1>3 DEF Listed, Grown
  <2>2. ASSUME ~es2[i].gone PROVE \E j \in DOMAIN t : t[j] = i
    BY <1>1, <2>1, <2>2
  <2>3. ASSUME NEW j \in DOMAIN t, t[j] = i PROVE ~es2[i].gone
    BY <1>1, <2>1, <2>3
  <2> QED BY <2>2, <2>3
<1> QED BY <1>2, <1>3 DEF Listed, t

LEMMA ListOfSpliced ==
  ASSUME NEW s \in Seq(Nat), NEW k \in DOMAIN s, NEW of, NEW es, ListOf(s, of, es)
  PROVE  ListOf(Spliced(s, k), of, es)
<1> DEFINE t == Spliced(s, k)
<1>1. /\ Distinct(t)
      /\ \A j \in DOMAIN t : t[j] # s[k] /\ \E l \in DOMAIN s : s[l] = t[j]
      /\ \A l \in DOMAIN s : l # k => \E j \in DOMAIN t : t[j] = s[l]
  BY SplicedMembers, Zenon DEF ListOf
<1> HIDE DEF t
<1> QED BY <1>1 DEF ListOf, t

LEMMA ListOfAppended ==
  ASSUME NEW s \in Seq(Nat), NEW i \in Nat, NEW of, NEW es, ListOf(s, of, es),
         i \in DOMAIN es, es[i].of = of, \A k \in DOMAIN s : s[k] # i
  PROVE  ListOf(Append(s, i), of, es)
<1> DEFINE t == Append(s, i)
<1>1. /\ DOMAIN t = 1..(Len(s) + 1) /\ DOMAIN s = 1..Len(s) /\ Len(s) \in Nat
      /\ \A j \in DOMAIN s : t[j] = s[j]
      /\ t[Len(s) + 1] = i
  BY AppendedSeq
<1> HIDE DEF t
<1>2. \A j \in DOMAIN t : j = Len(s) + 1 \/ j \in DOMAIN s
  BY <1>1
<1>3. Len(s) + 1 \notin DOMAIN s
  BY <1>1
<1>4. Distinct(t)
  BY ONLY <1>1, <1>2, <1>3, ListOf(s, of, es), \A k \in DOMAIN s : s[k] # i DEF Distinct, ListOf
<1>5. \A j \in DOMAIN t : t[j] \in DOMAIN es /\ es[t[j]].of = of
  BY <1>1, <1>2 DEF ListOf
<1> QED BY <1>4, <1>5 DEF ListOf, t

LEMMA ListedAppended ==
  ASSUME NEW s \in Seq(Nat), NEW i \in Nat, NEW of, NEW es, NEW es2,
         Listed(s, of, es), Grown(es, es2), i \notin DOMAIN es, i \in DOMAIN es2,
         \A j \in DOMAIN es2 : j # i => j \in DOMAIN es /\ es2[j].gone = es[j].gone,
         es2[i].of = of, ~es2[i].gone
  PROVE  Listed(Append(s, i), of, es2)
<1> DEFINE t == Append(s, i)
<1>1. \A j \in DOMAIN s : j \in DOMAIN t /\ t[j] = s[j]
  BY AppendedSeq
<1>2. Len(s) + 1 \in DOMAIN t /\ t[Len(s) + 1] = i /\ \A j \in DOMAIN t : j = Len(s) + 1 \/ j \in DOMAIN s
  BY AppendedSeq
<1>3. ListOf(t, of, es2)
  <2>1. ListOf(s, of, es)
    BY DEF Listed
  <2>2. ListOf(s, of, es2)
    BY <2>1, ListOfGrown
  <2>3. \A k \in DOMAIN s : s[k] # i
    BY <2>1 DEF ListOf
  <2> QED BY <2>2, <2>3, ListOfAppended
<1> HIDE DEF t
<1>4. ASSUME NEW j \in DOMAIN es2, es2[j].of = of
      PROVE  ~es2[j].gone <=> \E k \in DOMAIN t : t[k] = j
  <2>1. CASE j = i
    BY <1>2, <2>1
  <2>2. CASE j # i
    <3>1. j \in DOMAIN es /\ es[j].of = of /\ es2[j].gone = es[j].gone
      BY <1>4, <2>2 DEF Grown
    <3>2. ~es[j].gone <=> \E k \in DOMAIN s : s[k] = j
      BY <3>1 DEF Listed
    <3> QED BY <1>1, <1>2, <2>2, <3>1, <3>2
  <2> QED BY <2>1, <2>2
<1> QED BY <1>3, <1>4 DEF Listed, t

LEMMA ListedCleared ==
  ASSUME NEW s, NEW of, NEW es, NEW es2, Listed(s, of, es), Grown(es, es2), DOMAIN es2 = DOMAIN es,
         \A k \in DOMAIN s : es2[s[k]].gone
  PROVE  Listed(<<>>, of, es2)
<1>1. ListOf(<<>>, of, es2)
  BY DEF ListOf, Distinct
<1>2. ASSUME NEW i \in DOMAIN es2, es2[i].of = of PROVE es2[i].gone
  BY <1>2 DEF Listed, Grown
<1> QED BY <1>1, <1>2 DEF Listed

LEMMA OnceQuiet ==
  ASSUME NEW es, NEW es2, NEW re, NEW re2, OnceOK(es, re), Quiet(es, es2), re => re2,
         \A i \in DOMAIN es : es[i].runs \in Nat
  PROVE  OnceOK(es2, re2)
<1> SUFFICES ASSUME NEW i \in DOMAIN es2, es2[i].once
             PROVE  /\ es2[i].of \in Events /\ (es2[i].runs > 0 => es2[i].gone)
                    /\ es2[i].of = "event" \/ ~re2 => es2[i].runs <= 1
  BY DEF OnceOK
<1>1. CASE i \in DOMAIN es
  BY <1>1 DEF OnceOK, Quiet, Grown
<1>2. CASE i \notin DOMAIN es
  BY <1>2 DEF Quiet
<1> QED BY <1>1, <1>2

LEMMA ArraysGrown ==
  ASSUME NEW as, NEW es, NEW es2, ArraysOK(as, es), Grown(es, es2)
  PROVE  ArraysOK(as, es2)
BY ListOfGrown DEF ArraysOK

-----------------------------------------------------------------------------
(* Dispatches that a change of the registrations leaves as they were.      *)

LEMMA FrameQuiet ==
  ASSUME NEW f, NEW es, NEW es2, NEW as, NEW as2, NEW re, NEW re2,
         FrameOK(f, es, as, re), Quiet(es, es2), re => re2,
         f.of = "any" => f.array \in DOMAIN as2 /\ as2[f.array] = as[f.array]
  PROVE  FrameOK(f, es2, as2, re2)
<1>1. CASE f.of = "any"
  <2>1. AnyFrame(f, es, as) /\ f.array \in DOMAIN as2 /\ as2[f.array] = as[f.array] /\ Grown(es, es2)
    BY <1>1 DEF FrameOK, Quiet
  <2>2. ListOf(f.called, "any", es2)
    BY <2>1, ListOfGrown DEF AnyFrame
  <2>3. \A k \in DOMAIN f.start : f.start[k] \in DOMAIN es2 /\ es2[f.start[k]].of = "any"
    BY <2>1 DEF AnyFrame, Grown
  <2>4. Unremoved(f, es2) => Unremoved(f, es)
    BY <2>1 DEF Unremoved, AnyFrame, Grown
  <2>5. AnyFrame(f, es2, as2)
    BY ONLY <2>1, <2>2, <2>3, <2>4 DEF AnyFrame
  <2> QED BY <1>1, <2>5 DEF FrameOK
<1>2. CASE f.of # "any"
  <2>1. EmitFrame(f, es, re) /\ Grown(es, es2)
    BY <1>2 DEF FrameOK, Quiet
  <2>0. ListOf(f.start, f.of, es)
    BY <2>1 DEF EmitFrame
  <2>2. ListOf(f.start, f.of, es2) /\ \A k \in DOMAIN f.start : f.start[k] \in DOMAIN es
    <3>1. ListOf(f.start, f.of, es2)
      BY <2>0, <2>1, ListOfGrown
    <3> QED BY <2>0, <3>1 DEF ListOf
  <2>3. \A k \in DOMAIN f.start : /\ es2[f.start[k]].once = es[f.start[k]].once
                                  /\ es2[f.start[k]].runs = es[f.start[k]].runs
    BY <2>2 DEF Quiet, Grown
  <2>4. EmitFrame(f, es2, re2)
    BY <2>1, <2>2, <2>3 DEF EmitFrame
  <2> QED BY <1>2, <2>4 DEF FrameOK
<1> QED BY <1>1, <1>2

\* The array that a loop walks gets a new listener, at its end.
LEMMA AnyFrameAppended ==
  ASSUME NEW f \in FrameType, NEW es, NEW es2, NEW as \in Seq(Seq(Nat)), NEW as2, NEW i \in Nat,
         AnyFrame(f, es, as), Quiet(es, es2), i \notin DOMAIN es,
         f.array \in DOMAIN as2, as2[f.array] = Append(as[f.array], i)
  PROVE  AnyFrame(f, es2, as2)
<1> DEFINE a == as[f.array]
           b == as2[f.array]
<1>1. a \in Seq(Nat) /\ Grown(es, es2)
  BY ElementOfSeq, LenProperties DEF AnyFrame, Quiet
<1>2. /\ Len(a) \in Nat /\ DOMAIN a = 1..Len(a) /\ Len(b) = Len(a) + 1 /\ DOMAIN b = 1..(Len(a) + 1)
      /\ \A j \in DOMAIN a : b[j] = a[j]
      /\ b[Len(a) + 1] = i
  <2>1. b = Append(a, i)
    OBVIOUS
  <2> HIDE DEF a, b
  <2> QED BY <1>1, <2>1, AppendedSeq
<1>3. /\ ListOf(f.called, "any", es2) /\ \A k \in DOMAIN f.called : f.called[k] # i
      /\ \A k \in DOMAIN f.start : f.start[k] \in DOMAIN es2 /\ es2[f.start[k]].of = "any"
      /\ Unremoved(f, es2) => Unremoved(f, es)
  <2>1. ListOf(f.called, "any", es2)
    BY <1>1, ListOfGrown DEF AnyFrame
  <2>2. \A k \in DOMAIN f.called : f.called[k] # i
    BY DEF AnyFrame, ListOf
  <2>3. \A k \in DOMAIN f.start : f.start[k] \in DOMAIN es2 /\ es2[f.start[k]].of = "any"
    BY <1>1 DEF AnyFrame, Grown
  <2>4. Unremoved(f, es2) => Unremoved(f, es)
    BY <1>1 DEF Unremoved, AnyFrame, Grown
  <2> QED BY <2>1, <2>2, <2>3, <2>4
<1>4. /\ \A j \in DOMAIN a, k \in DOMAIN f.called : j > f.at => a[j] # f.called[k]
      /\ Unremoved(f, es) => \A k \in DOMAIN f.start :
           /\ k <= Len(a) /\ a[k] = f.start[k] /\ (k <= f.at => f.called[k] = f.start[k])
  BY DEF AnyFrame
<1> HIDE DEF a, b
<1>5. ASSUME NEW j \in DOMAIN b, NEW k \in DOMAIN f.called, j > f.at PROVE b[j] # f.called[k]
  <2>1. CASE j \in DOMAIN a
    BY <1>2, <1>4, <1>5, <2>1
  <2>2. CASE j \notin DOMAIN a
    <3>1. j = Len(a) + 1
      BY <1>2, <2>2
    <3> QED BY <1>2, <1>3, <3>1
  <2> QED BY <2>1, <2>2
<1>6. DOMAIN f.start = 1..Len(f.start) /\ Len(f.start) \in Nat
  BY LenProperties DEF FrameType
<1>7. ASSUME Unremoved(f, es2), NEW k \in DOMAIN f.start
      PROVE  k <= Len(b) /\ b[k] = f.start[k] /\ (k <= f.at => f.called[k] = f.start[k])
  <2>1. k <= Len(a) /\ a[k] = f.start[k] /\ (k <= f.at => f.called[k] = f.start[k])
    BY <1>3, <1>4, <1>7
  <2>2. k \in DOMAIN a /\ k <= Len(b)
    BY <1>2, <1>6, <2>1
  <2> QED BY <1>2, <2>1, <2>2
<1>8. f.array \in DOMAIN as2 /\ Len(f.called) = f.at
  BY DEF AnyFrame
<1> QED BY ONLY <1>3, <1>5, <1>7, <1>8 DEF AnyFrame, b

\* The array that a loop walks loses a listener.
LEMMA AnyFrameSpliced ==
  ASSUME NEW f \in FrameType, NEW es, NEW es2, NEW as \in Seq(Seq(Nat)), NEW as2,
         AnyFrame(f, es, as), Quiet(es, es2), NEW l \in DOMAIN as[f.array],
         f.array \in DOMAIN as2, as2[f.array] = Spliced(as[f.array], l), es2[as[f.array][l]].gone
  PROVE  AnyFrame(f, es2, as2)
<1> DEFINE a == as[f.array]
           b == as2[f.array]
<1>1. a \in Seq(Nat) /\ Grown(es, es2) /\ f.at \in Nat /\ l \in DOMAIN a
  <2>1. a \in Seq(Nat)
    BY ElementOfSeq, LenProperties DEF AnyFrame
  <2> QED BY <2>1 DEF Quiet, FrameType
<1>2. /\ Len(a) \in Nat /\ DOMAIN a = 1..Len(a) /\ Len(b) = Len(a) - 1 /\ DOMAIN b = 1..(Len(a) - 1)
      /\ \A j \in 1..(Len(a) - 1) : b[j] = IF j < l THEN a[j] ELSE a[j + 1]
  <2>1. b = Spliced(a, l)
    OBVIOUS
  <2> HIDE DEF a, b
  <2> QED BY <1>1, <2>1, SplicedSeq, LenProperties
<1>3. /\ ListOf(f.called, "any", es2)
      /\ \A k \in DOMAIN f.start : f.start[k] \in DOMAIN es2 /\ es2[f.start[k]].of = "any"
      /\ Unremoved(f, es2) => Unremoved(f, es)
  <2>1. ListOf(f.called, "any", es2)
    BY <1>1, ListOfGrown DEF AnyFrame
  <2>2. \A k \in DOMAIN f.start : f.start[k] \in DOMAIN es2 /\ es2[f.start[k]].of = "any"
    BY <1>1 DEF AnyFrame, Grown
  <2>3. Unremoved(f, es2) => Unremoved(f, es)
    BY <1>1 DEF Unremoved, AnyFrame, Grown
  <2> QED BY <2>1, <2>2, <2>3
<1>4. /\ \A j \in DOMAIN a, k \in DOMAIN f.called : j > f.at => a[j] # f.called[k]
      /\ Unremoved(f, es) => \A k \in DOMAIN f.start :
           /\ k <= Len(a) /\ a[k] = f.start[k] /\ (k <= f.at => f.called[k] = f.start[k])
      /\ es2[a[l]].gone
  BY DEF AnyFrame
<1> HIDE DEF a, b
<1>5. ASSUME NEW j \in DOMAIN b, NEW k \in DOMAIN f.called, j > f.at PROVE b[j] # f.called[k]
  <2>1. j \in DOMAIN a /\ j + 1 \in DOMAIN a /\ j + 1 > f.at
    BY <1>1, <1>2, <1>5
  <2>2. b[j] = a[j] \/ b[j] = a[j + 1]
    BY <1>2
  <2> QED BY <1>4, <1>5, <2>1, <2>2
<1>6. DOMAIN f.start = 1..Len(f.start) /\ Len(f.start) \in Nat
  BY LenProperties DEF FrameType
<1>7. ASSUME Unremoved(f, es2), NEW k \in DOMAIN f.start
      PROVE  k <= Len(b) /\ b[k] = f.start[k] /\ (k <= f.at => f.called[k] = f.start[k])
  <2>1. \A m \in DOMAIN f.start :
          m <= Len(a) /\ a[m] = f.start[m] /\ (m <= f.at => f.called[m] = f.start[m])
    BY <1>3, <1>4, <1>7
  <2>2. l \notin DOMAIN f.start
    BY <1>4, <1>7, <2>1 DEF Unremoved
  <2>3. k < l
    BY <1>1, <1>2, <1>6, <2>2
  <2>4. k \in 1..(Len(a) - 1)
    BY <1>1, <1>2, <1>6, <2>3
  <2> QED BY <1>2, <2>1, <2>3, <2>4
<1>8. f.array \in DOMAIN as2 /\ Len(f.called) = f.at
  BY DEF AnyFrame
<1> QED BY ONLY <1>3, <1>5, <1>7, <1>8 DEF AnyFrame, b

-----------------------------------------------------------------------------
(* What becomes of the entries.                                            *)

LEMMA NewEntry ==
  ASSUME NEW es \in Seq(EntryType), NEW fn \in Fns, NEW of \in Kinds, NEW once \in BOOLEAN,
         once => of \in Events
  PROVE  LET es2 == Append(es, Entry(fn, of, once))
             i == Len(es) + 1
         IN  /\ es2 \in Seq(EntryType) /\ Quiet(es, es2)
             /\ i \in Nat /\ i \notin DOMAIN es /\ i \in DOMAIN es2
             /\ \A j \in DOMAIN es2 : j # i => j \in DOMAIN es /\ es2[j].gone = es[j].gone
             /\ es2[i].of = of /\ ~es2[i].gone
<1> DEFINE e == Entry(fn, of, once)
           es2 == Append(es, e)
<1>1. e \in EntryType /\ e.of = of /\ e.runs = 0
  BY DEF Entry, EntryType
<1>2. e.once = once
  BY DEF Entry
<1>3. ~e.gone
  BY DEF Entry
<1> HIDE DEF e
<1>4. /\ es2 \in Seq(EntryType) /\ DOMAIN es2 = 1..(Len(es) + 1) /\ DOMAIN es = 1..Len(es)
      /\ Len(es) \in Nat /\ \A j \in DOMAIN es : j \in DOMAIN es2 /\ es2[j] = es[j]
      /\ es2[Len(es) + 1] = e
  BY <1>1, AppendedSeq
<1> HIDE DEF es2
<1>5. \A j \in DOMAIN es2 : j = Len(es) + 1 \/ j \in DOMAIN es
  BY <1>4
<1>6. Len(es) + 1 \in Nat /\ Len(es) + 1 \notin DOMAIN es /\ Len(es) + 1 \in DOMAIN es2
  BY <1>4
<1>7. Quiet(es, es2)
  <2>1. Grown(es, es2) /\ \A j \in DOMAIN es : es2[j].runs = es[j].runs
    BY <1>4 DEF Grown
  <2>2. \A j \in DOMAIN es2 : j \notin DOMAIN es => es2[j].runs = 0 /\ (es2[j].once => es2[j].of \in Events)
    BY ONLY <1>1, <1>2, <1>4, <1>5, once => of \in Events
  <2> QED BY <2>1, <2>2 DEF Quiet
<1> QED BY <1>1, <1>3, <1>4, <1>5, <1>6, <1>7 DEF es2, e

\* Every entry of R is removed.
RemovedAll(es, R) ==
  [i \in DOMAIN es |-> IF i \in R THEN [es[i] EXCEPT !.gone = TRUE] ELSE es[i]]

LEMMA RemovedEntries ==
  ASSUME NEW es \in Seq(EntryType), NEW R
  PROVE  /\ RemovedAll(es, R) \in Seq(EntryType) /\ Quiet(es, RemovedAll(es, R))
         /\ DOMAIN RemovedAll(es, R) = DOMAIN es
         /\ \A i \in DOMAIN es : RemovedAll(es, R)[i].gone <=> es[i].gone \/ i \in R
<1> DEFINE es2 == RemovedAll(es, R)
<1>1. DOMAIN es = 1..Len(es) /\ Len(es) \in Nat /\ \A i \in DOMAIN es : es[i] \in EntryType
  BY LenProperties, ElementOfSeq
<1>2. ASSUME NEW i \in DOMAIN es
      PROVE  /\ es2[i] \in EntryType /\ es2[i].of = es[i].of /\ es2[i].runs = es[i].runs
             /\ es2[i].once = es[i].once /\ (es2[i].gone <=> es[i].gone \/ i \in R)
  <2> DEFINE e == es[i]
             d == [e EXCEPT !.gone = TRUE]
  <2>1. d \in EntryType /\ d.of = e.of /\ d.runs = e.runs
    BY <1>1 DEF EntryType
  <2>2. d.once = e.once /\ d.gone
    BY <1>1 DEF EntryType
  <2>3. es2[i] = IF i \in R THEN d ELSE e
    BY DEF RemovedAll
  <2>4. e \in EntryType
    BY <1>1
  <2> HIDE DEF d, e
  <2>5. CASE i \in R
    BY <2>1, <2>2, <2>3, <2>5 DEF e
  <2>6. CASE i \notin R
    BY <2>3, <2>4, <2>6 DEF e
  <2> QED BY <2>5, <2>6
<1>3. DOMAIN es2 = DOMAIN es
  BY DEF RemovedAll
<1>4. es2 \in Seq(EntryType)
  <2>1. es2 = [i \in DOMAIN es |-> es2[i]]
    BY DEF RemovedAll
  <2>2. es2 \in [1..Len(es) -> EntryType]
    BY <1>1, <1>2, <2>1
  <2> QED BY <1>1, <2>2, SeqDef
<1>5. Quiet(es, es2)
  BY <1>2, <1>3 DEF Quiet, Grown
<1> HIDE DEF es2
<1> QED BY <1>2, <1>3, <1>4, <1>5 DEF es2

Removed(es, l) == [es EXCEPT ![l].gone = TRUE]

LEMMA RemovedEntry ==
  ASSUME NEW es \in Seq(EntryType), NEW l \in DOMAIN es
  PROVE  /\ Removed(es, l) \in Seq(EntryType) /\ Quiet(es, Removed(es, l))
         /\ DOMAIN Removed(es, l) = DOMAIN es
         /\ \A i \in DOMAIN es : Removed(es, l)[i].gone <=> es[i].gone \/ i = l
<1>1. Removed(es, l) = RemovedAll(es, {l})
  BY DEF Removed, RemovedAll
<1> QED BY <1>1, RemovedEntries

\* The entry i runs, and those of R are removed.
Called(es, i, R) ==
  [j \in DOMAIN es |-> [es[j] EXCEPT !.runs = IF j = i THEN @ + 1 ELSE @, !.gone = @ \/ j \in R]]

LEMMA CalledEntries ==
  ASSUME NEW es \in Seq(EntryType), NEW i, NEW R
  PROVE  /\ Called(es, i, R) \in Seq(EntryType) /\ Grown(es, Called(es, i, R))
         /\ DOMAIN Called(es, i, R) = DOMAIN es
         /\ \A j \in DOMAIN es :
              /\ Called(es, i, R)[j].gone <=> es[j].gone \/ j \in R
              /\ Called(es, i, R)[j].runs = IF j = i THEN es[j].runs + 1 ELSE es[j].runs
<1> DEFINE es2 == Called(es, i, R)
<1>1. DOMAIN es = 1..Len(es) /\ Len(es) \in Nat /\ \A j \in DOMAIN es : es[j] \in EntryType
  BY LenProperties, ElementOfSeq
<1>2. ASSUME NEW j \in DOMAIN es
      PROVE  /\ es2[j] \in EntryType /\ es2[j].of = es[j].of /\ es2[j].once = es[j].once
             /\ es2[j].gone <=> es[j].gone \/ j \in R
             /\ es2[j].runs = IF j = i THEN es[j].runs + 1 ELSE es[j].runs
  <2> DEFINE e == es[j]
             n == IF j = i THEN e.runs + 1 ELSE e.runs
             c == [e EXCEPT !.runs = n]
             g == c.gone \/ j \in R
             d == [c EXCEPT !.gone = g]
  <2>1. e \in EntryType
    BY <1>1
  <2>2. es2[j] = d
    BY DEF Called
  <2>3. n \in Nat
    BY <2>1 DEF EntryType
  <2>4. g \in BOOLEAN
    OBVIOUS
  <2> HIDE DEF n
  <2>5. c \in EntryType /\ c.of = e.of /\ c.runs = n
    BY <2>1, <2>3 DEF EntryType
  <2>6. c.once = e.once
    BY <2>1 DEF EntryType
  <2>7. c.gone = e.gone
    BY <2>1 DEF EntryType
  <2> HIDE DEF c, g
  <2>8. d \in EntryType /\ d.of = c.of /\ d.runs = c.runs
    BY <2>4, <2>5 DEF EntryType
  <2>9. d.once = c.once
    BY <2>5 DEF EntryType
  <2>10. d.gone = g
    BY <2>5 DEF EntryType
  <2> HIDE DEF d, es2
  <2>11. es2[j] \in EntryType /\ es2[j].of = e.of /\ es2[j].runs = n
    BY <2>2, <2>5, <2>8
  <2>12. es2[j].once = e.once
    BY <2>2, <2>6, <2>9
  <2>13. es2[j].gone <=> e.gone \/ j \in R
    BY <2>2, <2>7, <2>10 DEF g
  <2> QED BY <2>11, <2>12, <2>13 DEF n
<1>3. DOMAIN es2 = DOMAIN es
  BY DEF Called
<1>4. es2 \in Seq(EntryType)
  <2>1. es2 = [j \in DOMAIN es |-> es2[j]]
    BY DEF Called
  <2>2. es2 \in [1..Len(es) -> EntryType]
    BY <1>1, <1>2, <2>1
  <2> QED BY <1>1, <2>2, SeqDef
<1> HIDE DEF es2
<1>5. Grown(es, es2)
  BY <1>2, <1>3 DEF Grown
<1> QED BY <1>2, <1>3, <1>4, <1>5 DEF es2

LEMMA OnceCalled ==
  ASSUME NEW es \in Seq(EntryType), NEW re, NEW i \in DOMAIN es, NEW R, OnceOK(es, re),
         es[i].once => es[i].gone \/ i \in R,
         es[i].once /\ (es[i].of = "event" \/ ~re) => es[i].runs = 0
  PROVE  OnceOK(Called(es, i, R), re)
<1> DEFINE es2 == Called(es, i, R)
<1>1. /\ Grown(es, es2) /\ DOMAIN es2 = DOMAIN es
      /\ \A j \in DOMAIN es : /\ es2[j].gone <=> es[j].gone \/ j \in R
                              /\ es2[j].runs = IF j = i THEN es[j].runs + 1 ELSE es[j].runs
  BY CalledEntries
<1> HIDE DEF es2
<1> SUFFICES ASSUME NEW j \in DOMAIN es2, es2[j].once
             PROVE  /\ es2[j].of \in Events /\ (es2[j].runs > 0 => es2[j].gone)
                    /\ es2[j].of = "event" \/ ~re => es2[j].runs <= 1
  BY DEF OnceOK, es2
<1>2. CASE j = i
  BY <1>1, <1>2 DEF OnceOK, Grown
<1>3. CASE j # i
  BY <1>1, <1>3 DEF OnceOK, Grown
<1> QED BY <1>2, <1>3

-----------------------------------------------------------------------------
(* What a call does to the dispatches.                                     *)

\* The dispatch f, once it has called i.
Advanced(f, i) == [f EXCEPT !.at = @ + 1, !.called = Append(@, i), !.body = TRUE]

LEMMA AdvancedFields ==
  ASSUME NEW f \in FrameType, NEW i \in Nat
  PROVE  /\ Advanced(f, i) \in FrameType
         /\ Advanced(f, i).of = f.of /\ Advanced(f, i).start = f.start /\ Advanced(f, i).array = f.array
         /\ Advanced(f, i).at = f.at + 1 /\ Advanced(f, i).called = Append(f.called, i)
<1>1. f.at + 1 \in Nat /\ Append(f.called, i) \in Seq(Nat)
  BY AppendProperties DEF FrameType
<1> DEFINE n == f.at + 1
           s == Append(f.called, i)
           c == [f EXCEPT !.at = n]
           d == [c EXCEPT !.called = s]
           e == [d EXCEPT !.body = TRUE]
<1>2. Advanced(f, i) = e
  BY DEF Advanced, FrameType
<1> HIDE DEF n, s
<1>3. c \in FrameType /\ c.of = f.of /\ c.start = f.start /\ c.array = f.array /\ c.at = n
  BY <1>1 DEF FrameType, n
<1> HIDE DEF c
<1>4. d \in FrameType /\ d.of = c.of /\ d.start = c.start /\ d.array = c.array /\ d.at = c.at /\ d.called = s
  BY <1>1, <1>3 DEF FrameType, s
<1> HIDE DEF d
<1>5. e \in FrameType /\ e.of = d.of /\ e.start = d.start /\ e.array = d.array /\ e.at = d.at
      /\ e.called = d.called
  BY <1>4 DEF FrameType
<1> HIDE DEF e
<1> QED BY <1>2, <1>3, <1>4, <1>5 DEF n, s

LEMMA EmitCalls ==
  ASSUME NEW f \in FrameType, NEW es \in Seq(EntryType), NEW re, NEW R, EmitFrame(f, es, re),
         f.at < Len(f.start)
  PROVE  EmitFrame(Advanced(f, f.start[f.at + 1]), Called(es, f.start[f.at + 1], R), re)
<1> DEFINE i == f.start[f.at + 1]
           es2 == Called(es, i, R)
           g == Advanced(f, i)
           s == f.start
<1>1. /\ s \in Seq(Nat) /\ Len(s) \in Nat /\ DOMAIN s = 1..Len(s) /\ f.at \in Nat
      /\ f.called \in Seq(Nat) /\ f.at + 1 \in DOMAIN s
  BY LenProperties DEF FrameType
<1>2. ListOf(s, f.of, es)
  BY DEF EmitFrame
<1>3. i \in Nat /\ i \in DOMAIN es
  BY <1>1, <1>2, ElementOfSeq DEF ListOf
<1>4. /\ Grown(es, es2) /\ DOMAIN es2 = DOMAIN es
      /\ \A j \in DOMAIN es : j # i => es2[j].runs = es[j].runs
  BY <1>3, CalledEntries
<1>5. /\ g.of = f.of /\ g.start = s /\ g.at = f.at + 1 /\ g.called = Append(f.called, i)
  BY <1>3, AdvancedFields
<1>6. /\ Len(g.called) = f.at + 1 /\ g.called[f.at + 1] = i
      /\ \A k \in 1..f.at : g.called[k] = f.called[k]
  <2>1. Len(f.called) = f.at
    BY DEF EmitFrame
  <2> HIDE DEF g, i
  <2> QED BY <1>1, <1>3, <1>5, <2>1, AppendProperties
<1>7. ListOf(s, f.of, es2)
  BY <1>2, <1>4, ListOfGrown
<1>8. ASSUME NEW k \in DOMAIN s, k > f.at + 1, es2[s[k]].once, f.of = "event" \/ ~re
      PROVE  es2[s[k]].runs = 0
  <2>1. s[k] # i /\ s[k] \in DOMAIN es
    BY <1>1, <1>2, <1>8 DEF ListOf, Distinct
  <2>2. k > f.at
    BY <1>1, <1>8
  <2>3. es2[s[k]].once = es[s[k]].once /\ es2[s[k]].runs = es[s[k]].runs
    BY ONLY <1>4, <2>1 DEF Grown
  <2> QED BY <1>8, <2>2, <2>3 DEF EmitFrame
<1>9. \A k \in 1..(f.at + 1) : g.called[k] = s[k]
  <2>1. \A k \in 1..f.at : f.called[k] = s[k]
    BY DEF EmitFrame
  <2>2. g.called[f.at + 1] = s[f.at + 1]
    BY <1>6
  <2> HIDE DEF g, s, i
  <2>3. \A k \in 1..(f.at + 1) : k = f.at + 1 \/ k \in 1..f.at
    BY <1>1
  <2> QED BY ONLY <1>6, <2>1, <2>2, <2>3
<1>10. f.at + 1 <= Len(s)
  BY <1>1
<1> HIDE DEF g, s, es2
<1> QED BY <1>5, <1>6, <1>7, <1>8, <1>9, <1>10 DEF EmitFrame, g, es2

LEMMA AnyCalls ==
  ASSUME NEW f \in FrameType, NEW es \in Seq(EntryType), NEW as \in Seq(Seq(Nat)), NEW R,
         AnyFrame(f, es, as), ArraysOK(as, es), f.at < Len(as[f.array])
  PROVE  AnyFrame(Advanced(f, as[f.array][f.at + 1]), Called(es, as[f.array][f.at + 1], R), as)
<1> DEFINE a == as[f.array]
           i == a[f.at + 1]
           es2 == Called(es, i, R)
           g == Advanced(f, i)
<1>1. a \in Seq(Nat) /\ ListOf(a, "any", es) /\ f.array \in DOMAIN as
  BY ElementOfSeq, LenProperties DEF AnyFrame, ArraysOK
<1>2. /\ Len(a) \in Nat /\ DOMAIN a = 1..Len(a) /\ f.at \in Nat /\ f.at + 1 \in DOMAIN a
      /\ f.called \in Seq(Nat) /\ i \in Nat
  <2>1. f.at \in Nat /\ f.called \in Seq(Nat)
    BY DEF FrameType
  <2>2. Len(a) \in Nat /\ DOMAIN a = 1..Len(a) /\ f.at < Len(a)
    BY <1>1, LenProperties
  <2>3. f.at + 1 \in DOMAIN a
    <3> HIDE DEF a
    <3> QED BY <2>1, <2>2
  <2>4. i \in Nat
    BY <1>1, <2>2, <2>3, ElementOfSeq
  <2> QED BY <2>1, <2>2, <2>3, <2>4
<1>3. i \in DOMAIN es /\ es[i].of = "any"
  BY <1>1, <1>2 DEF ListOf
<1>4. Grown(es, es2) /\ DOMAIN es2 = DOMAIN es
  BY CalledEntries
<1>5. /\ g.start = f.start /\ g.array = f.array /\ g.at = f.at + 1 /\ g.called = Append(f.called, i)
  BY <1>2, AdvancedFields
<1>6. /\ Len(f.called) = f.at /\ ListOf(f.called, "any", es)
      /\ \A j \in DOMAIN a, k \in DOMAIN f.called : j > f.at => a[j] # f.called[k]
      /\ \A k \in DOMAIN f.start : f.start[k] \in DOMAIN es /\ es[f.start[k]].of = "any"
      /\ Unremoved(f, es) => \A k \in DOMAIN f.start :
           k <= Len(a) /\ a[k] = f.start[k] /\ (k <= f.at => f.called[k] = f.start[k])
  BY DEF AnyFrame
<1> HIDE DEF g, es2, i, a
<1>7. /\ Len(g.called) = f.at + 1 /\ DOMAIN g.called = 1..(f.at + 1) /\ g.called[f.at + 1] = i
      /\ \A k \in 1..f.at : g.called[k] = f.called[k]
      /\ DOMAIN f.called = 1..f.at
  BY <1>2, <1>5, <1>6, AppendProperties, LenProperties
<1>8. ListOf(g.called, "any", es2)
  <2>1. \A k \in DOMAIN f.called : f.called[k] # i
    BY <1>2, <1>6 DEF i
  <2>2. ListOf(g.called, "any", es)
    BY <1>2, <1>3, <1>5, <1>6, <2>1, ListOfAppended
  <2> QED BY <1>4, <2>2, ListOfGrown
<1>9. ASSUME NEW j \in DOMAIN a, NEW k \in DOMAIN g.called, j > f.at + 1 PROVE a[j] # g.called[k]
  <2>1. CASE k = f.at + 1
    <3>1. j # f.at + 1
      BY <1>2, <1>9
    <3> QED BY <1>1, <1>2, <1>7, <2>1, <3>1 DEF ListOf, Distinct, i
  <2>2. CASE k # f.at + 1
    <3>1. k \in 1..f.at /\ j > f.at
      BY <1>2, <1>7, <1>9, <2>2
    <3> QED BY <1>6, <1>7, <3>1
  <2> QED BY <2>1, <2>2
<1>10. \A k \in DOMAIN f.start : f.start[k] \in DOMAIN es2 /\ es2[f.start[k]].of = "any"
  BY <1>4, <1>6 DEF Grown
<1>11. ASSUME Unremoved(g, es2), NEW k \in DOMAIN f.start
       PROVE  k <= Len(a) /\ a[k] = f.start[k] /\ (k <= f.at + 1 => g.called[k] = f.start[k])
  <2>1. Unremoved(f, es)
    BY <1>4, <1>5, <1>6, <1>11 DEF Unremoved, Grown
  <2>2. k <= Len(a) /\ a[k] = f.start[k] /\ (k <= f.at => f.called[k] = f.start[k])
    BY <1>6, <2>1
  <2>3. DOMAIN f.start = 1..Len(f.start) /\ Len(f.start) \in Nat
    BY LenProperties DEF FrameType
  <2>4. CASE k = f.at + 1
    BY <1>7, <2>2, <2>4 DEF i
  <2>5. CASE k # f.at + 1
    <3>1. k <= f.at + 1 => k \in 1..f.at /\ k <= f.at
      BY <1>2, <2>3, <2>5
    <3> QED BY <1>7, <2>2, <3>1
  <2> QED BY <2>4, <2>5
<1>12. AnyFrame(g, es2, as)
  <2>1. g.array \in DOMAIN as /\ Len(g.called) = g.at
    BY <1>1, <1>5, <1>7
  <2>2. \A j \in DOMAIN as[g.array], k \in DOMAIN g.called : j > g.at => as[g.array][j] # g.called[k]
    BY <1>5, <1>9 DEF a
  <2>3. \A k \in DOMAIN g.start : g.start[k] \in DOMAIN es2 /\ es2[g.start[k]].of = "any"
    BY <1>5, <1>10
  <2>4. Unremoved(g, es2) => \A k \in DOMAIN g.start :
          /\ k <= Len(as[g.array]) /\ as[g.array][k] = g.start[k]
          /\ k <= g.at => g.called[k] = g.start[k]
    BY <1>5, <1>11 DEF a
  <2> QED BY ONLY <1>8, <2>1, <2>2, <2>3, <2>4 DEF AnyFrame
<1> QED BY <1>12 DEF g, es2, i, a

\* The dispatches that the one on top is within.
LEMMA OthersCalled ==
  ASSUME NEW f, NEW es \in Seq(EntryType), NEW as, NEW re, NEW i \in DOMAIN es, NEW R,
         FrameOK(f, es, as, re),
         f.of = es[i].of /\ es[i].once => f.of # "event" /\ re
  PROVE  FrameOK(f, Called(es, i, R), as, re)
<1> DEFINE es2 == Called(es, i, R)
<1>1. /\ Grown(es, es2) /\ DOMAIN es2 = DOMAIN es
      /\ \A j \in DOMAIN es : j # i => es2[j].runs = es[j].runs
  BY CalledEntries
<1> HIDE DEF es2
<1>2. CASE f.of = "any"
  <2>1. AnyFrame(f, es, as)
    BY <1>2 DEF FrameOK
  <2>2. ListOf(f.called, "any", es2)
    BY <1>1, <2>1, ListOfGrown DEF AnyFrame
  <2>3. \A k \in DOMAIN f.start : f.start[k] \in DOMAIN es2 /\ es2[f.start[k]].of = "any"
    BY <1>1, <2>1 DEF AnyFrame, Grown
  <2>4. Unremoved(f, es2) => Unremoved(f, es)
    BY <1>1, <2>1 DEF Unremoved, AnyFrame, Grown
  <2>5. AnyFrame(f, es2, as)
    BY ONLY <2>1, <2>2, <2>3, <2>4 DEF AnyFrame
  <2> QED BY <1>2, <2>5 DEF FrameOK, es2
<1>3. CASE f.of # "any"
  <2>1. EmitFrame(f, es, re)
    BY <1>3 DEF FrameOK
  <2>2. ListOf(f.start, f.of, es)
    BY <2>1 DEF EmitFrame
  <2>3. ListOf(f.start, f.of, es2)
    BY <1>1, <2>2, ListOfGrown
  <2>4. ASSUME NEW k \in DOMAIN f.start, k > f.at, es2[f.start[k]].once, f.of = "event" \/ ~re
        PROVE  es2[f.start[k]].runs = 0
    <3>1. f.start[k] \in DOMAIN es /\ es[f.start[k]].of = f.of
      BY <2>2 DEF ListOf
    <3>2. es[f.start[k]].once
      BY <1>1, <2>4, <3>1 DEF Grown
    <3>3. es[f.start[k]].runs = 0
      BY <2>1, <2>4, <3>2 DEF EmitFrame
    <3>4. f.start[k] # i
      BY <2>4, <3>1, <3>2
    <3> QED BY <1>1, <3>1, <3>3, <3>4
  <2>5. EmitFrame(f, es2, re)
    BY <2>1, <2>3, <2>4 DEF EmitFrame
  <2> QED BY <1>3, <2>5 DEF FrameOK, es2
<1> QED BY <1>2, <1>3

-----------------------------------------------------------------------------
(* Registering and removing preserves the invariant.                       *)

LEMMA RegistryChanges ==
  ASSUME IInv, UNCHANGED <<connected, stack, history>>,
         entries' \in Seq(EntryType), Quiet(entries, entries'),
         listeners' \in [Events -> Seq(Nat)], arrays' \in Seq(Seq(Nat)),
         \A of \in Events : Listed(listeners'[of], of, entries'), ArraysOK(arrays', entries'),
         \A n \in DOMAIN stack :
           stack[n].of = "any" => FrameOK(stack[n], entries', arrays', reentered)
  PROVE  IInv'
<1>1. TypeOK'
  BY DEF IInv, TypeOK, history
<1>2. \A i \in DOMAIN entries : entries[i].runs \in Nat
  <2>1. \A i \in DOMAIN entries : entries[i] \in EntryType
    BY LenProperties, ElementOfSeq DEF IInv, TypeOK
  <2> QED BY <2>1 DEF EntryType
<1>3. OnceOK(entries', reentered')
  <2>1. OnceOK(entries, reentered) /\ reentered' = reentered
    BY DEF IInv, Registry, history
  <2>2. OnceOK(entries', reentered)
    BY <1>2, <2>1, OnceQuiet
  <2> QED BY <2>1, <2>2
<1>4. Registry'
  BY <1>3 DEF Registry
<1>5. ASSUME NEW n \in DOMAIN stack PROVE FrameOK(stack[n], entries', arrays', reentered)
  <2>1. CASE stack[n].of = "any"
    BY <2>1
  <2>2. CASE stack[n].of # "any"
    BY <2>2, FrameQuiet DEF IInv, Frames
  <2> QED BY <2>1, <2>2
<1>6. Frames'
  BY <1>5 DEF Frames, history
<1>7. Shape(stack, reentered, connected)' /\ Ended'
  BY DEF IInv, Ended, history
<1> QED BY <1>1, <1>4, <1>6, <1>7 DEF IInv

\* Where the catch-alls do not change, neither do their loops.
LEMMA AnyFramesStay ==
  ASSUME IInv, arrays' = arrays, Quiet(entries, entries')
  PROVE  /\ ArraysOK(arrays', entries')
         /\ \A n \in DOMAIN stack :
              stack[n].of = "any" => FrameOK(stack[n], entries', arrays', reentered)
<1>1. ArraysOK(arrays', entries')
  BY ArraysGrown DEF IInv, Registry, Quiet
<1>2. ASSUME NEW n \in DOMAIN stack, stack[n].of = "any"
      PROVE  FrameOK(stack[n], entries', arrays', reentered)
  <2>1. FrameOK(stack[n], entries, arrays, reentered)
    BY DEF IInv, Frames
  <2>2. stack[n].array \in DOMAIN arrays
    BY <1>2, <2>1 DEF FrameOK, AnyFrame
  <2> QED BY <2>1, <2>2, FrameQuiet
<1> QED BY <1>1, <1>2

LEMMA OnOK ==
  ASSUME IInv, NEW of \in Events, NEW fn \in Fns, NEW once \in BOOLEAN, On(of, fn, once)
  PROVE  IInv'
<1> DEFINE i == Len(entries) + 1
<1>1. /\ entries \in Seq(EntryType) /\ listeners \in [Events -> Seq(Nat)] /\ of \in Kinds
      /\ \A o \in Events : Listed(listeners[o], o, entries)
  BY DEF IInv, TypeOK, Registry, Kinds
<1>2. /\ entries' \in Seq(EntryType) /\ Quiet(entries, entries') /\ Grown(entries, entries')
      /\ i \in Nat /\ i \notin DOMAIN entries /\ i \in DOMAIN entries'
      /\ \A j \in DOMAIN entries' :
           j # i => j \in DOMAIN entries /\ entries'[j].gone = entries[j].gone
      /\ entries'[i].of = of /\ ~entries'[i].gone
  <2>1. entries' = Append(entries, Entry(fn, of, once))
    BY DEF On
  <2> QED BY <1>1, <2>1, NewEntry DEF Quiet
<1>3. listeners' = [listeners EXCEPT ![of] = Append(listeners[of], i)]
  BY DEF On
<1> HIDE DEF i
<1>4. listeners' \in [Events -> Seq(Nat)]
  BY <1>1, <1>2, <1>3, AppendProperties
<1>5. ASSUME NEW o \in Events PROVE Listed(listeners'[o], o, entries')
  <2>1. CASE o = of
    <3>1. listeners'[o] = Append(listeners[o], i) /\ listeners[o] \in Seq(Nat)
      BY <1>1, <1>3, <2>1
    <3>2. Listed(listeners[o], o, entries) /\ entries'[i].of = o
      BY <1>1, <1>2, <2>1
    <3>3. Listed(Append(listeners[o], i), o, entries')
      BY ONLY <1>2, <3>1, <3>2, ListedAppended
    <3> QED BY <3>1, <3>3
  <2>2. CASE o # of
    <3>1. listeners'[o] = listeners[o]
      BY <1>1, <1>3, <2>2
    <3>2. \A j \in DOMAIN entries' :
            entries'[j].of = o => j \in DOMAIN entries /\ (entries'[j].gone <=> entries[j].gone)
      BY <1>2, <2>2
    <3>3. Listed(listeners[o], o, entries) /\ Grown(entries, entries')
      BY <1>1, <1>2
    <3>4. Listed(listeners[o], o, entries')
      BY ONLY <3>2, <3>3, ListedGrown
    <3> QED BY <3>1, <3>4
  <2> QED BY <2>1, <2>2
<1>6. arrays' = arrays /\ UNCHANGED <<connected, stack, history>> /\ arrays' \in Seq(Seq(Nat))
  BY DEF On, IInv, TypeOK
<1> QED BY <1>2, <1>4, <1>5, <1>6, AnyFramesStay, RegistryChanges

LEMMA OffOK ==
  ASSUME IInv, NEW of \in Events, NEW fn \in Fns, Off(of, fn)
  PROVE  IInv'
<1>1. /\ entries \in Seq(EntryType) /\ listeners \in [Events -> Seq(Nat)]
      /\ \A o \in Events : Listed(listeners[o], o, entries)
  BY DEF IInv, TypeOK, Registry
<1>2. PICK k \in DOMAIN listeners[of] :
        /\ entries' = [entries EXCEPT ![listeners[of][k]].gone = TRUE]
        /\ listeners' = [listeners EXCEPT ![of] = Spliced(listeners[of], k)]
  BY DEF Off, FirstAt
<1> DEFINE i == listeners[of][k]
<1>3. i \in DOMAIN entries /\ entries[i].of = of /\ listeners[of] \in Seq(Nat)
  BY <1>1 DEF Listed, ListOf
<1>4. /\ entries' \in Seq(EntryType) /\ Quiet(entries, entries') /\ Grown(entries, entries')
      /\ DOMAIN entries' = DOMAIN entries
      /\ \A j \in DOMAIN entries : entries'[j].gone <=> entries[j].gone \/ j = i
  <2>1. entries' = Removed(entries, i)
    BY <1>2 DEF Removed
  <2> HIDE DEF i
  <2>2. /\ entries' \in Seq(EntryType) /\ Quiet(entries, entries') /\ DOMAIN entries' = DOMAIN entries
        /\ \A j \in DOMAIN entries : entries'[j].gone <=> entries[j].gone \/ j = i
    BY ONLY <1>1, <1>3, <2>1, RemovedEntry
  <2> QED BY <2>2 DEF Quiet
<1>5. listeners' \in [Events -> Seq(Nat)]
  BY <1>1, <1>2, <1>3, SplicedSeq
<1>6. ASSUME NEW o \in Events PROVE Listed(listeners'[o], o, entries')
  <2>1. CASE o = of
    <3>1. listeners'[o] = Spliced(listeners[o], k)
      BY <1>1, <1>2, <2>1
    <3> QED BY <1>1, <1>3, <1>4, <2>1, <3>1, ListedSpliced
  <2>2. CASE o # of
    <3>1. listeners'[o] = listeners[o]
      BY <1>1, <1>2, <2>2
    <3>2. \A j \in DOMAIN entries' :
            entries'[j].of = o => j \in DOMAIN entries /\ (entries'[j].gone <=> entries[j].gone)
      <4> HIDE DEF i
      <4> QED BY <1>3, <1>4, <2>2 DEF Grown
    <3> QED BY <1>1, <1>4, <3>1, <3>2, ListedGrown
  <2> QED BY <2>1, <2>2
<1>7. arrays' = arrays /\ UNCHANGED <<connected, stack, history>> /\ arrays' \in Seq(Seq(Nat))
  BY DEF Off, IInv, TypeOK
<1> QED BY <1>4, <1>5, <1>6, <1>7, AnyFramesStay, RegistryChanges

LEMMA OffAllOK ==
  ASSUME IInv, NEW which \in SUBSET Events, OffAll(which)
  PROVE  IInv'
<1> DEFINE R == {i \in DOMAIN entries :
                   \E of \in which : \E k \in DOMAIN listeners[of] : listeners[of][k] = i}
<1>1. /\ entries \in Seq(EntryType) /\ listeners \in [Events -> Seq(Nat)]
      /\ \A o \in Events : Listed(listeners[o], o, entries)
  BY DEF IInv, TypeOK, Registry
<1>2. entries' = RemovedAll(entries, R)
  BY DEF OffAll, RemovedAll
<1>3. /\ entries' \in Seq(EntryType) /\ Quiet(entries, entries') /\ Grown(entries, entries')
      /\ DOMAIN entries' = DOMAIN entries
      /\ \A j \in DOMAIN entries : entries'[j].gone <=> entries[j].gone \/ j \in R
  <2> HIDE DEF R
  <2> QED BY <1>1, <1>2, RemovedEntries DEF Quiet
<1>4. listeners' = [of \in Events |-> IF of \in which THEN <<>> ELSE listeners[of]]
  BY DEF OffAll
<1>5. listeners' \in [Events -> Seq(Nat)]
  BY <1>1, <1>4
<1>6. ASSUME NEW o \in Events PROVE Listed(listeners'[o], o, entries')
  <2>1. Listed(listeners[o], o, entries)
    BY <1>1
  <2>2. CASE o \in which
    <3>1. \A k \in DOMAIN listeners[o] : listeners[o][k] \in R
      BY <2>1, <2>2 DEF Listed, ListOf
    <3>2. \A k \in DOMAIN listeners[o] : entries'[listeners[o][k]].gone
      BY <1>3, <2>1, <3>1 DEF Listed, ListOf
    <3>3. listeners'[o] = <<>>
      BY <1>4, <2>2
    <3>4. Listed(<<>>, o, entries')
      BY ONLY <1>3, <2>1, <3>2, ListedCleared
    <3> QED BY <3>3, <3>4
  <2>3. CASE o \notin which
    <3>1. listeners'[o] = listeners[o]
      BY <1>4, <2>3
    <3>2. ASSUME NEW j \in DOMAIN entries', entries'[j].of = o PROVE j \notin R
      <4>1. entries[j].of = o /\ j \in DOMAIN entries
        BY <1>3, <3>2 DEF Grown
      <4>2. \A of \in which : \A k \in DOMAIN listeners[of] : entries[listeners[of][k]].of = of
        BY <1>1 DEF Listed, ListOf
      <4> QED BY <2>3, <4>1, <4>2
    <3> HIDE DEF R
    <3>3. \A j \in DOMAIN entries' :
            entries'[j].of = o => j \in DOMAIN entries /\ (entries'[j].gone <=> entries[j].gone)
      BY <1>3, <3>2
    <3>4. Listed(listeners[o], o, entries')
      BY ONLY <1>3, <2>1, <3>3, ListedGrown
    <3> QED BY <3>1, <3>4
  <2> QED BY <2>2, <2>3
<1> HIDE DEF R
<1>7. arrays' = arrays /\ UNCHANGED <<connected, stack, history>> /\ arrays' \in Seq(Seq(Nat))
  BY DEF OffAll, IInv, TypeOK
<1> QED BY <1>3, <1>5, <1>6, <1>7, AnyFramesStay, RegistryChanges

\* Where only catch-alls change, the lists of the events do not.
LEMMA ListenersStay ==
  ASSUME IInv, listeners' = listeners, Grown(entries, entries'),
         \A i \in DOMAIN entries' : entries'[i].of # "any" =>
           i \in DOMAIN entries /\ (entries'[i].gone <=> entries[i].gone)
  PROVE  /\ listeners' \in [Events -> Seq(Nat)]
         /\ \A of \in Events : Listed(listeners'[of], of, entries')
<1>1. ASSUME NEW of \in Events PROVE Listed(listeners[of], of, entries')
  <2>1. Listed(listeners[of], of, entries) /\ of # "any"
    BY DEF IInv, Registry, Events
  <2> QED BY <2>1, ListedGrown
<1> QED BY <1>1 DEF IInv, TypeOK

LEMMA OnAnyOK ==
  ASSUME IInv, NEW fn \in Fns, OnAny(fn)
  PROVE  IInv'
<1> DEFINE i == Len(entries) + 1
           m == Len(arrays)
<1>1. /\ entries \in Seq(EntryType) /\ arrays \in Seq(Seq(Nat)) /\ stack \in Seq(FrameType)
      /\ ArraysOK(arrays, entries)
  BY DEF IInv, TypeOK, Registry
<1>2. /\ entries' \in Seq(EntryType) /\ Quiet(entries, entries') /\ Grown(entries, entries')
      /\ i \in Nat /\ i \notin DOMAIN entries /\ i \in DOMAIN entries'
      /\ \A j \in DOMAIN entries' :
           j # i => j \in DOMAIN entries /\ entries'[j].gone = entries[j].gone
      /\ entries'[i].of = "any"
  <2>1. \E of \in Kinds, once \in BOOLEAN :
          /\ of = "any" /\ (once => of \in Events)
          /\ entries' = Append(entries, Entry(fn, of, once))
    BY DEF OnAny, Kinds
  <2> QED BY <1>1, <2>1, NewEntry DEF Quiet
<1>3. arrays' = [arrays EXCEPT ![m] = Append(arrays[m], i)]
  BY DEF OnAny
<1>4. m \in DOMAIN arrays /\ arrays[m] \in Seq(Nat) /\ DOMAIN arrays = 1..Len(arrays)
  BY <1>1, LenProperties, ElementOfSeq DEF ArraysOK
<1> HIDE DEF i
<1>5. arrays' \in Seq(Seq(Nat)) /\ Len(arrays') = Len(arrays) /\ DOMAIN arrays' = DOMAIN arrays
  <2>1. Append(arrays[m], i) \in Seq(Nat)
    BY <1>2, <1>4, AppendProperties
  <2> HIDE DEF m
  <2>2. arrays' \in Seq(Seq(Nat)) /\ Len(arrays') = Len(arrays)
    BY <1>1, <1>3, <1>4, <2>1, ExceptSeq
  <2> QED BY <1>3, <2>2
<1>6. ASSUME NEW l \in DOMAIN arrays' PROVE ListOf(arrays'[l], "any", entries')
  <2>1. ListOf(arrays[l], "any", entries')
    BY <1>1, <1>2, <1>5, ListOfGrown DEF ArraysOK
  <2>2. CASE l = m
    <3>1. \A k \in DOMAIN arrays[l] : arrays[l][k] # i
      BY <1>1, <1>2, <1>5 DEF ArraysOK, ListOf
    <3>2. ListOf(Append(arrays[l], i), "any", entries')
      BY <1>2, <1>4, <2>1, <2>2, <3>1, ListOfAppended
    <3> QED BY <1>3, <1>4, <2>2, <3>2
  <2>3. CASE l # m
    BY <1>3, <1>5, <2>1, <2>3
  <2> QED BY <2>2, <2>3
<1>7. ArraysOK(arrays', entries')
  BY <1>1, <1>5, <1>6 DEF ArraysOK
<1>8. ASSUME NEW n \in DOMAIN stack, stack[n].of = "any"
      PROVE  FrameOK(stack[n], entries', arrays', reentered)
  <2> DEFINE f == stack[n]
  <2>1. FrameOK(f, entries, arrays, reentered) /\ f \in FrameType
    BY <1>1, ElementOfSeq, LenProperties DEF IInv, Frames
  <2>2. AnyFrame(f, entries, arrays) /\ f.array \in DOMAIN arrays'
    BY <1>5, <1>8, <2>1 DEF FrameOK, AnyFrame
  <2>3. CASE f.array = m
    <3>1. arrays'[f.array] = Append(arrays[f.array], i)
      BY <1>3, <1>4, <2>3
    <3> HIDE DEF f
    <3>2. AnyFrame(f, entries', arrays')
      BY <1>1, <1>2, <2>1, <2>2, <3>1, AnyFrameAppended
    <3> QED BY <1>8, <3>2 DEF FrameOK, f
  <2>4. CASE f.array # m
    <3>1. arrays'[f.array] = arrays[f.array]
      BY <1>3, <1>5, <2>2, <2>4
    <3> HIDE DEF f
    <3>2. FrameOK(f, entries', arrays', reentered)
      BY <1>2, <2>1, <2>2, <3>1, FrameQuiet
    <3> QED BY <3>2 DEF f
  <2> QED BY <2>3, <2>4
<1>9. listeners' = listeners /\ UNCHANGED <<connected, stack, history>>
  BY DEF OnAny
<1>10. /\ listeners' \in [Events -> Seq(Nat)]
       /\ \A of \in Events : Listed(listeners'[of], of, entries')
  <2>1. \A j \in DOMAIN entries' : entries'[j].of # "any" =>
           j \in DOMAIN entries /\ (entries'[j].gone <=> entries[j].gone)
    BY <1>2
  <2> QED BY <1>2, <1>9, <2>1, ListenersStay
<1> QED BY <1>2, <1>5, <1>7, <1>8, <1>9, <1>10, RegistryChanges

LEMMA OffAnyOK ==
  ASSUME IInv, NEW fn \in Fns, OffAny(fn)
  PROVE  IInv'
<1> DEFINE m == Len(arrays)
<1>1. /\ entries \in Seq(EntryType) /\ arrays \in Seq(Seq(Nat)) /\ stack \in Seq(FrameType)
      /\ ArraysOK(arrays, entries)
  BY DEF IInv, TypeOK, Registry
<1>2. PICK k \in DOMAIN arrays[m] :
        /\ entries' = [entries EXCEPT ![arrays[m][k]].gone = TRUE]
        /\ arrays' = [arrays EXCEPT ![m] = Spliced(arrays[m], k)]
  BY DEF OffAny, FirstAt
<1> DEFINE i == arrays[m][k]
<1>3. m \in DOMAIN arrays /\ arrays[m] \in Seq(Nat) /\ DOMAIN arrays = 1..Len(arrays)
  BY <1>1, LenProperties, ElementOfSeq DEF ArraysOK
<1>4. i \in DOMAIN entries /\ entries[i].of = "any"
  BY <1>1, <1>3 DEF ArraysOK, ListOf
<1>5. /\ entries' \in Seq(EntryType) /\ Quiet(entries, entries') /\ Grown(entries, entries')
      /\ DOMAIN entries' = DOMAIN entries
      /\ \A j \in DOMAIN entries : entries'[j].gone <=> entries[j].gone \/ j = i
  <2>1. entries' = Removed(entries, i)
    BY <1>2 DEF Removed
  <2> HIDE DEF i
  <2> QED BY <1>1, <1>4, <2>1, RemovedEntry DEF Quiet
<1>6. arrays' \in Seq(Seq(Nat)) /\ Len(arrays') = Len(arrays) /\ DOMAIN arrays' = DOMAIN arrays
  <2>1. Spliced(arrays[m], k) \in Seq(Nat)
    BY <1>3, SplicedSeq
  <2> HIDE DEF m
  <2>2. arrays' \in Seq(Seq(Nat)) /\ Len(arrays') = Len(arrays)
    BY <1>1, <1>2, <1>3, <2>1, ExceptSeq
  <2> QED BY <1>2, <2>2
<1>7. ASSUME NEW l \in DOMAIN arrays' PROVE ListOf(arrays'[l], "any", entries')
  <2>1. ListOf(arrays[l], "any", entries')
    BY <1>1, <1>5, <1>6, ListOfGrown DEF ArraysOK
  <2>2. CASE l = m
    <3>1. ListOf(Spliced(arrays[l], k), "any", entries')
      BY <1>3, <2>1, <2>2, ListOfSpliced
    <3> QED BY <1>2, <1>3, <2>2, <3>1
  <2>3. CASE l # m
    BY <1>2, <1>6, <2>1, <2>3
  <2> QED BY <2>2, <2>3
<1>8. ArraysOK(arrays', entries')
  BY <1>1, <1>6, <1>7 DEF ArraysOK
<1>9. ASSUME NEW n \in DOMAIN stack, stack[n].of = "any"
      PROVE  FrameOK(stack[n], entries', arrays', reentered)
  <2> DEFINE f == stack[n]
  <2>1. FrameOK(f, entries, arrays, reentered) /\ f \in FrameType
    BY <1>1, ElementOfSeq, LenProperties DEF IInv, Frames
  <2>2. AnyFrame(f, entries, arrays) /\ f.array \in DOMAIN arrays'
    BY <1>6, <1>9, <2>1 DEF FrameOK, AnyFrame
  <2>3. CASE f.array = m
    <3>1. /\ arrays'[f.array] = Spliced(arrays[f.array], k) /\ k \in DOMAIN arrays[f.array]
          /\ entries'[arrays[f.array][k]].gone
      BY <1>2, <1>3, <1>4, <1>5, <2>3
    <3> HIDE DEF f
    <3>2. AnyFrame(f, entries', arrays')
      BY <1>1, <1>5, <2>1, <2>2, <3>1, AnyFrameSpliced
    <3> QED BY <1>9, <3>2 DEF FrameOK, f
  <2>4. CASE f.array # m
    <3>1. arrays'[f.array] = arrays[f.array]
      BY <1>2, <1>6, <2>2, <2>4
    <3> HIDE DEF f
    <3>2. FrameOK(f, entries', arrays', reentered)
      BY <1>5, <2>1, <2>2, <3>1, FrameQuiet
    <3> QED BY <3>2 DEF f
  <2> QED BY <2>3, <2>4
<1>10. listeners' = listeners /\ UNCHANGED <<connected, stack, history>>
  BY DEF OffAny
<1>11. /\ listeners' \in [Events -> Seq(Nat)]
       /\ \A of \in Events : Listed(listeners'[of], of, entries')
  <2>1. \A j \in DOMAIN entries' : entries'[j].of # "any" =>
           j \in DOMAIN entries /\ (entries'[j].gone <=> entries[j].gone)
    <3> HIDE DEF i
    <3> QED BY <1>4, <1>5 DEF Grown
  <2> QED BY <1>5, <1>10, <2>1, ListenersStay
<1> QED BY <1>5, <1>6, <1>8, <1>9, <1>10, <1>11, RegistryChanges

LEMMA OffAllAnyOK ==
  ASSUME IInv, OffAllAny
  PROVE  IInv'
<1> DEFINE R == {i \in DOMAIN entries : entries[i].of = "any"}
<1>1. /\ entries \in Seq(EntryType) /\ arrays \in Seq(Seq(Nat)) /\ ArraysOK(arrays, entries)
  BY DEF IInv, TypeOK, Registry
<1>2. entries' = RemovedAll(entries, R) /\ arrays' = Append(arrays, <<>>)
  BY DEF OffAllAny, RemovedAll
<1>3. /\ entries' \in Seq(EntryType) /\ Quiet(entries, entries') /\ Grown(entries, entries')
      /\ DOMAIN entries' = DOMAIN entries
      /\ \A j \in DOMAIN entries : entries'[j].gone <=> entries[j].gone \/ entries[j].of = "any"
  <2>1. \A j \in DOMAIN entries : j \in R <=> entries[j].of = "any"
    OBVIOUS
  <2> HIDE DEF R
  <2> QED BY <1>1, <1>2, <2>1, RemovedEntries DEF Quiet
<1> HIDE DEF R
<1>4. /\ arrays' \in Seq(Seq(Nat)) /\ DOMAIN arrays' = 1..(Len(arrays) + 1)
      /\ Len(arrays') = Len(arrays) + 1 /\ Len(arrays) \in Nat
      /\ \A m \in DOMAIN arrays : m \in DOMAIN arrays' /\ arrays'[m] = arrays[m]
      /\ arrays'[Len(arrays) + 1] = <<>> /\ DOMAIN arrays = 1..Len(arrays)
  <2>1. <<>> \in Seq(Nat)
    OBVIOUS
  <2> QED BY <1>1, <1>2, <2>1, AppendedSeq
<1>5. ASSUME NEW l \in DOMAIN arrays' PROVE ListOf(arrays'[l], "any", entries')
  <2>1. CASE l \in DOMAIN arrays
    BY <1>1, <1>3, <1>4, <2>1, ListOfGrown DEF ArraysOK
  <2>2. CASE l \notin DOMAIN arrays
    <3>1. l = Len(arrays) + 1
      BY <1>4, <2>2
    <3> QED BY <1>4, <3>1 DEF ListOf, Distinct
  <2> QED BY <2>1, <2>2
<1>6. ArraysOK(arrays', entries')
  BY <1>1, <1>4, <1>5 DEF ArraysOK
<1>7. ASSUME NEW n \in DOMAIN stack, stack[n].of = "any"
      PROVE  FrameOK(stack[n], entries', arrays', reentered)
  <2>1. FrameOK(stack[n], entries, arrays, reentered)
    BY DEF IInv, Frames
  <2>2. stack[n].array \in DOMAIN arrays
    BY <1>7, <2>1 DEF FrameOK, AnyFrame
  <2>3. stack[n].array \in DOMAIN arrays' /\ arrays'[stack[n].array] = arrays[stack[n].array]
    BY <1>4, <2>2
  <2> QED BY ONLY <1>3, <2>1, <2>3, FrameQuiet
<1>8. listeners' = listeners /\ UNCHANGED <<connected, stack, history>>
  BY DEF OffAllAny
<1>9. /\ listeners' \in [Events -> Seq(Nat)]
      /\ \A of \in Events : Listed(listeners'[of], of, entries')
  <2>1. \A j \in DOMAIN entries' : entries'[j].of # "any" =>
           j \in DOMAIN entries /\ (entries'[j].gone <=> entries[j].gone)
    BY <1>3 DEF Grown
  <2> QED BY <1>3, <1>8, <2>1, ListenersStay
<1> QED BY <1>3, <1>4, <1>6, <1>7, <1>8, <1>9, RegistryChanges

-----------------------------------------------------------------------------
(* The dispatches preserve the invariant.                                  *)

LEMMA TopFacts ==
  ASSUME IInv, stack # <<>>
  PROVE  /\ stack \in Seq(FrameType) /\ Len(stack) \in Nat /\ DOMAIN stack = 1..Len(stack)
         /\ Len(stack) > 0 /\ Len(stack) \in DOMAIN stack /\ Top \in FrameType
         /\ FrameOK(Top, entries, arrays, reentered)
<1>1. stack \in Seq(FrameType) /\ Len(stack) \in Nat /\ DOMAIN stack = 1..Len(stack) /\ Len(stack) > 0
  BY LenProperties, EmptySeq DEF IInv, TypeOK
<1>2. Len(stack) \in DOMAIN stack
  BY <1>1
<1> QED BY <1>1, <1>2, ElementOfSeq DEF Top, IInv, Frames

LEMMA SetTopFacts ==
  ASSUME IInv, stack # <<>>, NEW f \in FrameType
  PROVE  /\ SetTop(f) \in Seq(FrameType) /\ DOMAIN SetTop(f) = DOMAIN stack
         /\ Len(SetTop(f)) = Len(stack)
         /\ \A n \in DOMAIN stack : SetTop(f)[n] = IF n = Len(stack) THEN f ELSE stack[n]
BY TopFacts, ExceptSeq DEF SetTop

LEMMA PoppedFacts ==
  ASSUME IInv, stack # <<>>
  PROVE  /\ Popped \in Seq(FrameType) /\ DOMAIN Popped = 1..(Len(stack) - 1)
         /\ Len(Popped) = Len(stack) - 1
         /\ \A n \in DOMAIN Popped : n \in DOMAIN stack /\ Popped[n] = stack[n] /\ n # Len(stack)
<1>1. stack \in Seq(FrameType) /\ Len(stack) \in Nat /\ Len(stack) > 0 /\ DOMAIN stack = 1..Len(stack)
  BY TopFacts
<1> DEFINE m == Len(stack) - 1
<1>2. m \in Nat /\ \A n \in 1..m : stack[n] \in FrameType
  BY <1>1, ElementOfSeq
<1>3. /\ Popped \in Seq(FrameType) /\ Len(Popped) = m
      /\ \A n \in 1..m : Popped[n] = stack[n]
  <2>1. Popped = SubSeq(stack, 1, m)
    BY DEF Popped
  <2> HIDE DEF m
  <2>2. /\ SubSeq(stack, 1, m) \in Seq(FrameType)
        /\ Len(SubSeq(stack, 1, m)) = IF 1 <= m THEN m - 1 + 1 ELSE 0
        /\ \A n \in 1..(m - 1 + 1) : SubSeq(stack, 1, m)[n] = stack[1 + n - 1]
    BY <1>2, SubSeqProperties
  <2> QED BY <1>2, <2>1, <2>2
<1>4. DOMAIN Popped = 1..m
  BY <1>3, LenProperties
<1> QED BY <1>1, <1>3, <1>4

LEMMA NewFrame ==
  ASSUME TypeOK, Registry, NEW of \in Kinds, NEW re
  PROVE  /\ Frame(of) \in FrameType /\ Frame(of).of = of
         /\ FrameOK(Frame(of), entries, arrays, re)
<1> DEFINE f == Frame(of)
           m == Len(arrays)
           s == IF of = "any" THEN arrays[m] ELSE listeners[of]
<1>1. m \in DOMAIN arrays /\ m \in Nat /\ arrays[m] \in Seq(Nat) /\ ListOf(arrays[m], "any", entries)
  <2>1. m \in Nat /\ m > 0 /\ DOMAIN arrays = 1..m
    BY LenProperties DEF TypeOK, Registry, ArraysOK
  <2>2. m \in DOMAIN arrays
    BY <2>1
  <2> QED BY <2>1, <2>2, ElementOfSeq DEF TypeOK, Registry, ArraysOK
<1>2. of # "any" => of \in Events
  BY DEF Kinds
<1>3. s \in Seq(Nat) /\ ListOf(s, of, entries)
  BY <1>1, <1>2 DEF TypeOK, Registry, Listed
<1>4. f = [of |-> of, start |-> s, array |-> m, at |-> 0, called |-> <<>>, body |-> FALSE]
  BY DEF Frame
<1> HIDE DEF f
<1>5. /\ f.of = of /\ f.start = s /\ f.array = m /\ f.at = 0 /\ f.called = <<>>
      /\ f \in FrameType
  <2> HIDE DEF s, m
  <2>1. <<>> \in Seq(Nat)
    OBVIOUS
  <2> QED BY <1>1, <1>3, <1>4, <2>1 DEF FrameType
<1>6. Len(s) \in Nat /\ DOMAIN s = 1..Len(s) /\ Len(<<>>) = 0 /\ DOMAIN <<>> = {}
  <2>1. Len(s) \in Nat /\ DOMAIN s = 1..Len(s)
    BY <1>3, LenProperties
  <2> QED BY <2>1, EmptySeq
<1>7. CASE of = "any"
  <2>1. s = arrays[m]
    BY <1>7
  <2>2. ListOf(<<>>, "any", entries)
    BY <1>6 DEF ListOf, Distinct
  <2>3. \A k \in DOMAIN s : s[k] \in DOMAIN entries /\ entries[s[k]].of = "any"
    BY <1>3, <1>7 DEF ListOf
  <2>4. \A k \in DOMAIN s : k <= Len(s) /\ ~(k <= 0)
    BY <1>6
  <2> HIDE DEF s, m
  <2>5. AnyFrame(f, entries, arrays)
    BY ONLY <1>1, <1>5, <1>6, <2>1, <2>2, <2>3, <2>4 DEF AnyFrame
  <2> QED BY <1>5, <1>7, <2>5 DEF FrameOK, f
<1>8. CASE of # "any"
  <2>1. ASSUME NEW k \in DOMAIN s, entries[s[k]].once PROVE entries[s[k]].runs = 0
    <3>1. Listed(s, of, entries)
      BY <1>2, <1>8 DEF Registry
    <3>2. s[k] \in DOMAIN entries /\ ~entries[s[k]].gone
      BY <3>1 DEF Listed, ListOf
    <3>3. entries[s[k]].runs \in Nat
      <4>1. entries[s[k]] \in EntryType
        BY <3>2, ElementOfSeq, LenProperties DEF TypeOK
      <4> QED BY <4>1 DEF EntryType
    <3> HIDE DEF s
    <3>4. ~(entries[s[k]].runs > 0)
      BY <2>1, <3>2 DEF Registry, OnceOK
    <3> QED BY <3>3, <3>4
  <2> HIDE DEF s, m
  <2>2. EmitFrame(f, entries, re)
    BY <1>3, <1>5, <1>6, <2>1 DEF EmitFrame
  <2> QED BY <1>5, <1>8, <2>2 DEF FrameOK, f
<1> QED BY <1>5, <1>7, <1>8 DEF f

\* A step that changes the stack alone, and what it goes with.
LEMMA StackChanges ==
  ASSUME IInv, UNCHANGED registry, stack' \in Seq(FrameType),
         connected' \in BOOLEAN, disconnects' \in Nat, received' \in Nat, reentered' \in BOOLEAN,
         reentered => reentered', Ended',
         \A n \in DOMAIN stack' : FrameOK(stack'[n], entries, arrays, reentered'),
         Shape(stack', reentered', connected')
  PROVE  IInv'
<1>1. TypeOK'
  BY DEF IInv, TypeOK, registry
<1>2. OnceOK(entries, reentered')
  BY DEF IInv, Registry, OnceOK
<1>3. Registry'
  BY <1>2 DEF IInv, Registry, registry
<1>4. Frames'
  BY DEF Frames, registry
<1> QED BY <1>1, <1>3, <1>4 DEF IInv

LEMMA ReturnOK ==
  ASSUME IInv, Return
  PROVE  IInv'
<1> DEFINE f == Top
           g == [f EXCEPT !.body = FALSE]
<1>1. /\ stack # <<>> /\ stack' = SetTop(g) /\ UNCHANGED <<connected, registry, history>>
  BY DEF Return
<1>2. /\ f \in FrameType /\ FrameOK(f, entries, arrays, reentered) /\ f = stack[Len(stack)]
      /\ Len(stack) \in DOMAIN stack
  BY <1>1, TopFacts DEF Top
<1> HIDE DEF f
<1>3. /\ g \in FrameType /\ g.of = f.of /\ g.start = f.start /\ g.array = f.array
      /\ g.at = f.at /\ g.called = f.called
  BY <1>2 DEF FrameType
<1> HIDE DEF g
<1>4. FrameOK(g, entries, arrays, reentered)
  BY <1>2, <1>3 DEF FrameOK, EmitFrame, AnyFrame, Unremoved
<1>5. /\ stack' \in Seq(FrameType) /\ DOMAIN stack' = DOMAIN stack
      /\ \A n \in DOMAIN stack : stack'[n] = IF n = Len(stack) THEN g ELSE stack[n]
  BY <1>1, <1>3, SetTopFacts
<1>6. \A n \in DOMAIN stack' : FrameOK(stack'[n], entries, arrays, reentered)
  BY <1>4, <1>5 DEF IInv, Frames
<1>7. Shape(stack', reentered, connected)
  <2>1. \A n \in DOMAIN stack : stack'[n].of = stack[n].of
    BY <1>2, <1>3, <1>5
  <2> QED BY <1>5, <2>1 DEF IInv, Shape
<1>8. /\ connected' = connected /\ reentered' = reentered /\ disconnects' = disconnects
      /\ received' = received /\ UNCHANGED registry
  BY <1>1 DEF history
<1>9. Ended' /\ connected' \in BOOLEAN /\ disconnects' \in Nat /\ received' \in Nat /\ reentered' \in BOOLEAN
  BY <1>8 DEF IInv, Ended, TypeOK
<1> QED BY <1>5, <1>6, <1>7, <1>8, <1>9, StackChanges

LEMMA ReceiveOK ==
  ASSUME IInv, Receive
  PROVE  IInv'
<1>1. /\ stack' = <<Frame("any")>> /\ UNCHANGED <<connected, registry, disconnects, reentered>>
      /\ received' = received + 1
  BY DEF Receive
<1>2. /\ Frame("any") \in FrameType /\ Frame("any").of = "any"
      /\ FrameOK(Frame("any"), entries, arrays, reentered)
  BY NewFrame DEF IInv, Kinds
<1> DEFINE f == Frame("any")
<1> HIDE DEF f
<1>3. stack' \in Seq(FrameType) /\ DOMAIN stack' = {1} /\ stack'[1] = f
  <2>1. stack' = <<f>> /\ f \in FrameType
    BY <1>1, <1>2 DEF f
  <2> QED BY <2>1
<1>4. \A n \in DOMAIN stack' : n = 1 /\ FrameOK(stack'[n], entries, arrays, reentered)
  BY <1>2, <1>3 DEF f
<1>5. Shape(stack', reentered, connected)
  BY <1>2, <1>3 DEF Shape, f
<1>6. Ended' /\ connected' \in BOOLEAN /\ disconnects' \in Nat /\ received' \in Nat /\ reentered' \in BOOLEAN
  BY <1>1 DEF IInv, Ended, TypeOK
<1> QED BY <1>1, <1>3, <1>4, <1>5, <1>6, StackChanges

LEMMA PushedFacts ==
  ASSUME TypeOK, NEW st \in Seq(FrameType), NEW f \in FrameType
  PROVE  /\ Append(st, f) \in Seq(FrameType) /\ DOMAIN Append(st, f) = 1..(Len(st) + 1)
         /\ Len(st) \in Nat /\ DOMAIN st = 1..Len(st)
         /\ \A n \in DOMAIN Append(st, f) :
              IF n = Len(st) + 1 THEN Append(st, f)[n] = f ELSE n \in DOMAIN st /\ Append(st, f)[n] = st[n]
<1>1. /\ Append(st, f) \in Seq(FrameType) /\ DOMAIN Append(st, f) = 1..(Len(st) + 1)
      /\ DOMAIN st = 1..Len(st) /\ Len(st) \in Nat
      /\ \A j \in DOMAIN st : Append(st, f)[j] = st[j]
      /\ Append(st, f)[Len(st) + 1] = f
  BY AppendedSeq
<1>2. \A n \in 1..(Len(st) + 1) : n = Len(st) + 1 \/ n \in 1..Len(st)
  BY <1>1
<1> QED BY <1>1, <1>2

LEMMA DisconnectOK ==
  ASSUME IInv, Disconnect
  PROVE  IInv'
<1> DEFINE f == Frame("disconnecting")
<1>1. /\ stack' = Append(stack, f) /\ UNCHANGED <<connected, registry, received, disconnects>>
      /\ connected
      /\ reentered' = (reentered \/ \E k \in DOMAIN stack : stack[k].of = "disconnecting")
  BY DEF Disconnect
<1>2. /\ f \in FrameType /\ f.of = "disconnecting"
      /\ FrameOK(f, entries, arrays, reentered')
  <2>1. "disconnecting" \in Kinds
    BY DEF Kinds, Events
  <2> QED BY <2>1, NewFrame DEF IInv
<1> HIDE DEF f
<1>3. stack \in Seq(FrameType) /\ reentered \in BOOLEAN
  BY DEF IInv, TypeOK
<1>4. reentered' \in BOOLEAN /\ (reentered => reentered')
  BY <1>1, <1>3
<1>5. /\ stack' \in Seq(FrameType)
      /\ \A n \in DOMAIN stack' :
           IF n = Len(stack) + 1 THEN stack'[n] = f ELSE n \in DOMAIN stack /\ stack'[n] = stack[n]
  BY <1>1, <1>2, <1>3, PushedFacts DEF IInv
<1>6. ASSUME NEW n \in DOMAIN stack' PROVE FrameOK(stack'[n], entries, arrays, reentered')
  <2>1. CASE n = Len(stack) + 1
    BY <1>2, <1>5, <2>1
  <2>2. CASE n # Len(stack) + 1
    <3>1. n \in DOMAIN stack /\ stack'[n] = stack[n]
      BY <1>5, <2>2
    <3>2. FrameOK(stack[n], entries, arrays, reentered)
      BY <3>1 DEF IInv, Frames
    <3>3. Quiet(entries, entries)
      BY DEF Quiet, Grown
    <3>4. stack[n].of = "any" => stack[n].array \in DOMAIN arrays
      BY <3>2 DEF FrameOK, AnyFrame
    <3> QED BY <1>4, <3>1, <3>2, <3>3, <3>4, FrameQuiet
  <2> QED BY <2>1, <2>2
<1>7. Shape(stack', reentered', connected)
  <2>1. Shape(stack, reentered, connected)
    BY DEF IInv
  <2>2. \A n \in DOMAIN stack' : stack'[n].of # "disconnecting" => n = 1
    BY <1>2, <1>5, <2>1 DEF Shape
  <2>3. ASSUME ~reentered', NEW n \in DOMAIN stack', stack'[n].of = "disconnecting"
        PROVE  n = Len(stack) + 1
    BY <1>1, <1>5, <2>3
  <2> QED BY <1>1, <2>2, <2>3 DEF Shape
<1>8. Ended' /\ connected' \in BOOLEAN /\ disconnects' \in Nat /\ received' \in Nat
  BY <1>1, <1>4 DEF IInv, Ended, TypeOK
<1> QED BY <1>1, <1>4, <1>5, <1>6, <1>7, <1>8, StackChanges

LEMMA FinishOK ==
  ASSUME IInv, Finish
  PROVE  IInv'
<1>1. /\ stack # <<>> /\ UNCHANGED <<registry, received, reentered>>
      /\ received' \in Nat /\ reentered' \in BOOLEAN
  BY DEF Finish, IInv, TypeOK
<1>2. /\ Len(stack) \in Nat /\ DOMAIN stack = 1..Len(stack) /\ Len(stack) > 0
      /\ Len(stack) \in DOMAIN stack /\ Top = stack[Len(stack)]
  BY <1>1, TopFacts DEF Top
<1>3. /\ Popped \in Seq(FrameType) /\ DOMAIN Popped = 1..(Len(stack) - 1) /\ Len(Popped) = Len(stack) - 1
      /\ \A n \in DOMAIN Popped : n \in DOMAIN stack /\ Popped[n] = stack[n] /\ n # Len(stack)
  BY <1>1, PoppedFacts
<1>4. Shape(stack, reentered, connected)
  BY DEF IInv
<1>5. \A n \in DOMAIN stack : FrameOK(stack[n], entries, arrays, reentered')
  BY <1>1 DEF IInv, Frames
<1>6. \A n \in DOMAIN Popped : FrameOK(Popped[n], entries, arrays, reentered')
  BY <1>3, <1>5
<1>7. ASSUME stack' = Popped, UNCHANGED <<connected, disconnects>>
      PROVE  IInv'
  <2>1. Shape(stack', reentered', connected')
    BY <1>1, <1>3, <1>4, <1>7 DEF Shape
  <2>2. Ended' /\ connected' \in BOOLEAN /\ disconnects' \in Nat
    BY <1>1, <1>7 DEF IInv, Ended, TypeOK
  <2> QED BY <1>1, <1>3, <1>6, <1>7, <2>1, <2>2, StackChanges
<1>8. CASE Top.of = "any" /\ EmitEvent
  <2>1. CASE ~connected
    <3>1. stack' = Popped /\ UNCHANGED <<connected, disconnects>>
      BY <1>8, <2>1 DEF EmitEvent
    <3> QED BY <1>7, <3>1
  <2>2. CASE connected
    <3> DEFINE f == Frame("event")
    <3>1. stack' = Append(Popped, f) /\ UNCHANGED <<connected, disconnects>>
      BY <1>8, <2>2 DEF EmitEvent
    <3>2. f \in FrameType /\ f.of = "event" /\ FrameOK(f, entries, arrays, reentered')
      <4>1. "event" \in Kinds
        BY DEF Kinds, Events
      <4> QED BY <4>1, NewFrame DEF IInv
    <3> HIDE DEF f
    <3>3. Len(stack) = 1
      BY <1>2, <1>4, <1>8 DEF Shape
    <3>4. DOMAIN Popped = {} /\ Len(Popped) = 0
      BY <1>3, <3>3
    <3>5. stack' \in Seq(FrameType) /\ \A n \in DOMAIN stack' : n = 1 /\ stack'[n] = f
      <4>1. TypeOK
        BY DEF IInv
      <4>2. /\ stack' \in Seq(FrameType) /\ DOMAIN stack' = 1..(0 + 1)
            /\ \A n \in DOMAIN stack' :
                 IF n = 0 + 1 THEN stack'[n] = f ELSE n \in DOMAIN Popped /\ stack'[n] = Popped[n]
        BY <1>3, <3>1, <3>2, <3>4, <4>1, PushedFacts
      <4> QED BY <3>4, <4>2
    <3>6. Shape(stack', reentered', connected')
      BY <3>2, <3>5 DEF Shape
    <3>7. Ended' /\ connected' \in BOOLEAN /\ disconnects' \in Nat
      BY <1>1, <3>1 DEF IInv, Ended, TypeOK
    <3>8. \A n \in DOMAIN stack' : FrameOK(stack'[n], entries, arrays, reentered')
      BY <3>2, <3>5
    <3> QED BY <1>1, <3>5, <3>6, <3>7, <3>8, StackChanges
  <2> QED BY <2>1, <2>2
<1>9. CASE Top.of = "event" /\ stack' = Popped /\ UNCHANGED <<connected, disconnects>>
  BY <1>7, <1>9
<1>10. CASE /\ Top.of = "disconnecting" /\ stack' = Popped
            /\ connected' = FALSE /\ disconnects' = disconnects + 1
  <2>1. ~reentered => connected /\ \A n \in DOMAIN Popped : Popped[n].of # "disconnecting"
    BY <1>2, <1>3, <1>4, <1>10 DEF Shape
  <2>2. Shape(stack', reentered', connected')
    BY <1>1, <1>3, <1>4, <1>10, <2>1 DEF Shape
  <2>3. disconnects \in Nat /\ (connected <=> disconnects = 0)
    BY DEF IInv, TypeOK, Ended
  <2>4. Ended' /\ connected' \in BOOLEAN /\ disconnects' \in Nat
    <3>1. disconnects' > 1 => reentered'
      BY <1>1, <1>10, <2>1, <2>3
    <3>2. disconnects' # 0 /\ disconnects' \in Nat /\ ~connected'
      BY <1>10, <2>3
    <3>3. connected' \in BOOLEAN
      BY <1>10
    <3> QED BY <3>1, <3>2, <3>3 DEF Ended
  <2> QED BY <1>1, <1>3, <1>6, <1>10, <2>2, <2>4, StackChanges
<1> QED BY <1>8, <1>9, <1>10 DEF Finish

\* The listener that a loop calls, and those it removes: itself, if it is a
\* once-listener that was not removed.
LEMMA CallOK ==
  ASSUME IInv, Call
  PROVE  IInv'
<1> DEFINE f == Top
           i == Walks(f)[f.at + 1]
           of == entries[i].of
           removed == RemovedByCall(i)
           R == {j \in DOMAIN entries : \E k \in removed : listeners[of][k] = j}
           g == [f EXCEPT !.at = @ + 1, !.called = Append(@, i), !.body = TRUE]
<1>1. /\ stack # <<>> /\ f.at < Len(Walks(f)) /\ UNCHANGED <<connected, arrays, history>>
      /\ stack' = SetTop(g)
      /\ entries' = [j \in DOMAIN entries |->
                       [entries[j] EXCEPT !.runs = IF j = i THEN @ + 1 ELSE @,
                          !.gone = @ \/ \E k \in removed : listeners[of][k] = j]]
      /\ \/ removed = {} /\ UNCHANGED listeners
         \/ \E k \in removed : listeners' = [listeners EXCEPT ![of] = Spliced(listeners[of], k)]
  BY DEF Call
<1>2. g = Advanced(f, i) /\ entries' = Called(entries, i, R)
  BY <1>1 DEF Advanced, Called
<1>3. /\ entries \in Seq(EntryType) /\ arrays \in Seq(Seq(Nat)) /\ stack \in Seq(FrameType)
      /\ listeners \in [Events -> Seq(Nat)] /\ reentered \in BOOLEAN
      /\ OnceOK(entries, reentered) /\ ArraysOK(arrays, entries)
      /\ \A o \in Events : Listed(listeners[o], o, entries)
  BY DEF IInv, TypeOK, Registry
<1>4. f \in FrameType /\ FrameOK(f, entries, arrays, reentered) /\ f.at \in Nat
      /\ f = stack[Len(stack)] /\ Len(stack) \in DOMAIN stack
  BY <1>1, TopFacts DEF Top, FrameType
<1>5. /\ i \in Nat /\ i \in DOMAIN entries /\ of = f.of
      /\ f.of # "any" => f.at < Len(f.start) /\ i = f.start[f.at + 1] /\ f.at + 1 \in DOMAIN f.start
      /\ f.of = "any" => f.at < Len(arrays[f.array]) /\ i = arrays[f.array][f.at + 1]
  <2>1. CASE f.of = "any"
    <3> DEFINE a == arrays[f.array]
    <3>1. Walks(f) = a /\ f.array \in DOMAIN arrays
      BY <1>4, <2>1 DEF Walks, FrameOK, AnyFrame
    <3>2. a \in Seq(Nat) /\ ListOf(a, "any", entries)
      BY <1>3, <3>1, ElementOfSeq, LenProperties DEF ArraysOK
    <3> HIDE DEF f
    <3>3. f.at < Len(a) /\ i = a[f.at + 1]
      BY <1>1, <3>1
    <3> HIDE DEF a, i
    <3>4. f.at + 1 \in DOMAIN a
      BY <1>4, <3>2, <3>3, LenProperties
    <3> QED BY <2>1, <3>2, <3>3, <3>4, ElementOfSeq, LenProperties DEF ListOf, a
  <2>2. CASE f.of # "any"
    <3> DEFINE a == f.start
    <3>1. Walks(f) = a
      BY <2>2 DEF Walks
    <3>2. a \in Seq(Nat) /\ ListOf(a, f.of, entries)
      BY <1>4, <2>2 DEF FrameOK, EmitFrame, FrameType
    <3> HIDE DEF f
    <3>3. f.at < Len(a) /\ i = a[f.at + 1]
      BY <1>1, <3>1
    <3> HIDE DEF a, i
    <3>4. f.at + 1 \in DOMAIN a
      BY <1>4, <3>2, <3>3, LenProperties
    <3> QED BY <2>2, <3>2, <3>3, <3>4, ElementOfSeq, LenProperties DEF ListOf, a
  <2> QED BY <2>1, <2>2
<1> HIDE DEF g, f
<1>6. entries[i].once /\ (of = "event" \/ ~reentered) => entries[i].runs = 0
  <2> SUFFICES ASSUME entries[i].once, of = "event" \/ ~reentered PROVE entries[i].runs = 0
    OBVIOUS
  <2>1. of # "any"
    BY <1>3, <1>5 DEF OnceOK, Events
  <2>2. /\ f.of # "any" /\ EmitFrame(f, entries, reentered) /\ f.at + 1 \in DOMAIN f.start
        /\ i = f.start[f.at + 1] /\ f.at + 1 > f.at
    BY <1>4, <1>5, <2>1 DEF FrameOK
  <2> HIDE DEF i
  <2>3. entries[f.start[f.at + 1]].once /\ (f.of = "event" \/ ~reentered)
    BY <1>5, <2>2
  <2>4. entries[f.start[f.at + 1]].runs = 0
    BY ONLY <2>2, <2>3 DEF EmitFrame
  <2> QED BY <2>2, <2>4
<1>7. /\ entries[i].once => of \in Events
      /\ \A k \in removed : entries[i].once /\ k \in DOMAIN listeners[of] /\ listeners[of][k] = i
      /\ removed = {} /\ entries[i].once => entries[i].gone
  <2>1. entries[i].once => of \in Events
    BY <1>3, <1>5 DEF OnceOK
  <2>2. \A k \in removed : entries[i].once /\ k \in DOMAIN listeners[of] /\ listeners[of][k] = i
    BY DEF RemovedByCall
  <2>3. ASSUME removed = {}, entries[i].once PROVE entries[i].gone
    <3>1. Listed(listeners[of], of, entries)
      BY <1>3, <2>1, <2>3
    <3>2. ~ \E k \in DOMAIN listeners[of] : listeners[of][k] = i
      BY <2>3 DEF RemovedByCall
    <3> HIDE DEF i
    <3> QED BY <1>5, <3>1, <3>2 DEF Listed
  <2> QED BY <2>1, <2>2, <2>3
<1>8. /\ removed = {} => \A j : j \notin R
      /\ removed # {} => \A j \in DOMAIN entries : j \in R <=> j = i
  <2>1. \A j \in DOMAIN entries : j \in R <=> \E k \in removed : listeners[of][k] = j
    OBVIOUS
  <2>2. \A k \in removed : listeners[of][k] = i
    BY <1>7
  <2>3. ASSUME removed = {} PROVE \A j : j \notin R
    BY <2>3
  <2> HIDE DEF R, removed, i
  <2> QED BY <2>1, <2>2, <2>3
<1> HIDE DEF R, removed, i
<1>9. /\ entries' \in Seq(EntryType) /\ Grown(entries, entries') /\ DOMAIN entries' = DOMAIN entries
      /\ \A j \in DOMAIN entries : entries'[j].gone <=> entries[j].gone \/ j \in R
  BY ONLY <1>2, <1>3, CalledEntries
<1>10. OnceOK(entries', reentered)
  <2>1. entries[i].once => entries[i].gone \/ i \in R
    BY <1>5, <1>7, <1>8
  <2> QED BY ONLY <1>2, <1>3, <1>5, <1>6, <2>1, OnceCalled
<1>11. /\ listeners' \in [Events -> Seq(Nat)]
       /\ \A o \in Events : Listed(listeners'[o], o, entries')
  <2>1. CASE removed = {}
    <3>1. listeners' = listeners
      BY <1>1, <2>1
    <3>2. ASSUME NEW o \in Events PROVE Listed(listeners[o], o, entries')
      <4>1. \A j \in DOMAIN entries' :
              entries'[j].of = o => j \in DOMAIN entries /\ (entries'[j].gone <=> entries[j].gone)
        BY <1>8, <1>9, <2>1
      <4>2. Listed(listeners[o], o, entries)
        BY <1>3
      <4> QED BY ONLY <1>9, <4>1, <4>2, ListedGrown
    <3> QED BY <1>3, <3>1, <3>2
  <2>2. CASE removed # {}
    <3>1. PICK k \in removed : listeners' = [listeners EXCEPT ![of] = Spliced(listeners[of], k)]
      BY <1>1, <2>2
    <3>2. of \in Events /\ k \in DOMAIN listeners[of] /\ listeners[of][k] = i
      BY <1>7
    <3>3. listeners' \in [Events -> Seq(Nat)]
      <4>1. Spliced(listeners[of], k) \in Seq(Nat)
        BY <1>3, <3>2, SplicedSeq
      <4> HIDE DEF of
      <4> QED BY <1>3, <3>1, <4>1
    <3>4. ASSUME NEW o \in Events PROVE Listed(listeners'[o], o, entries')
      <4>1. CASE o = of
        <5>1. listeners'[o] = Spliced(listeners[o], k) /\ listeners[o] \in Seq(Nat)
          BY <1>3, <3>1, <4>1
        <5>2. Listed(listeners[o], o, entries) /\ k \in DOMAIN listeners[o]
          BY <1>3, <3>2, <4>1
        <5>3. \A j \in DOMAIN entries : entries'[j].gone <=> entries[j].gone \/ j = listeners[o][k]
          BY <1>8, <1>9, <2>2, <3>2, <4>1
        <5>4. Listed(Spliced(listeners[o], k), o, entries')
          BY ONLY <1>9, <5>1, <5>2, <5>3, ListedSpliced
        <5> QED BY <5>1, <5>4
      <4>2. CASE o # of
        <5>1. listeners'[o] = listeners[o]
          BY <1>3, <3>1, <4>2
        <5>2. \A j \in DOMAIN entries' :
                entries'[j].of = o => j \in DOMAIN entries /\ (entries'[j].gone <=> entries[j].gone)
          BY <1>5, <1>8, <1>9, <2>2, <4>2 DEF Grown
        <5>3. Listed(listeners[o], o, entries)
          BY <1>3
        <5>4. Listed(listeners[o], o, entries')
          BY ONLY <1>9, <5>2, <5>3, ListedGrown
        <5> QED BY <5>1, <5>4
      <4> QED BY <4>1, <4>2
    <3> QED BY <3>3, <3>4
  <2> QED BY <2>1, <2>2
<1>12. ArraysOK(arrays', entries')
  <2>1. arrays' = arrays
    BY <1>1
  <2> QED BY ONLY <1>3, <1>9, <2>1, ArraysGrown
<1>13. /\ g \in FrameType /\ g.of = f.of
       /\ FrameOK(g, entries', arrays, reentered)
  <2>1. g \in FrameType /\ g.of = f.of
    BY <1>2, <1>4, <1>5, AdvancedFields
  <2>2. CASE f.of = "any"
    <3>1. AnyFrame(f, entries, arrays) /\ f.at < Len(arrays[f.array]) /\ i = arrays[f.array][f.at + 1]
      BY <1>4, <1>5, <2>2 DEF FrameOK
    <3>2. AnyFrame(Advanced(f, i), Called(entries, i, R), arrays)
      BY ONLY <1>3, <1>4, <3>1, AnyCalls
    <3> QED BY <1>2, <2>1, <2>2, <3>2 DEF FrameOK
  <2>3. CASE f.of # "any"
    <3>1. EmitFrame(f, entries, reentered) /\ f.at < Len(f.start) /\ i = f.start[f.at + 1]
      BY <1>4, <1>5, <2>3 DEF FrameOK
    <3>2. EmitFrame(Advanced(f, i), Called(entries, i, R), reentered)
      BY ONLY <1>3, <1>4, <3>1, EmitCalls
    <3> QED BY <1>2, <2>1, <2>3, <3>2 DEF FrameOK
  <2> QED BY <2>1, <2>2, <2>3
<1>14. /\ stack' \in Seq(FrameType) /\ DOMAIN stack' = DOMAIN stack
       /\ \A n \in DOMAIN stack : stack'[n] = IF n = Len(stack) THEN g ELSE stack[n]
  BY <1>1, <1>13, SetTopFacts
<1>15. ASSUME NEW n \in DOMAIN stack PROVE FrameOK(stack'[n], entries', arrays, reentered)
  <2>1. CASE n = Len(stack)
    BY <1>13, <1>14, <2>1
  <2>2. CASE n # Len(stack)
    <3>1. stack'[n] = stack[n] /\ FrameOK(stack[n], entries, arrays, reentered)
      BY <1>14, <2>2 DEF IInv, Frames
    <3>2. stack[n].of = entries[i].of /\ entries[i].once => stack[n].of # "event" /\ reentered
      <4> SUFFICES ASSUME stack[n].of = entries[i].of, entries[i].once
                   PROVE  stack[n].of # "event" /\ reentered
        OBVIOUS
      <4>1. stack[n].of = f.of /\ f.of \in Events
        BY <1>5, <1>7
      <4>2. Shape(stack, reentered, connected)
        BY DEF IInv
      <4>3. f.of # "event"
        BY <1>4, <2>2, <4>1, <4>2 DEF Shape
      <4>4. f.of = "disconnecting"
        BY <4>1, <4>3 DEF Events
      <4> QED BY <1>4, <2>2, <4>1, <4>2, <4>4 DEF Shape
    <3>3. FrameOK(stack[n], Called(entries, i, R), arrays, reentered)
      BY ONLY <1>3, <1>5, <3>1, <3>2, OthersCalled
    <3> QED BY <1>2, <3>1, <3>3
  <2> QED BY <2>1, <2>2
<1>16. Shape(stack', reentered, connected)
  <2>1. \A n \in DOMAIN stack : stack'[n].of = stack[n].of
    BY <1>4, <1>13, <1>14
  <2> QED BY <1>14, <2>1 DEF IInv, Shape
<1>17. /\ connected' = connected /\ arrays' = arrays /\ reentered' = reentered
       /\ received' = received /\ disconnects' = disconnects
  BY <1>1 DEF history
<1>18. TypeOK'
  BY <1>9, <1>11, <1>14, <1>17 DEF IInv, TypeOK
<1>19. Registry'
  BY <1>10, <1>11, <1>12, <1>17 DEF Registry
<1>20. Frames'
  BY <1>14, <1>15, <1>17 DEF Frames
<1>21. Shape(stack, reentered, connected)' /\ Ended'
  BY <1>16, <1>17 DEF IInv, Ended
<1> QED BY <1>18, <1>19, <1>20, <1>21 DEF IInv

-----------------------------------------------------------------------------
LEMMA InitOK ==
  Init => IInv
<1> SUFFICES ASSUME Init PROVE IInv
  OBVIOUS
<1>1. /\ <<>> \in Seq(EntryType) /\ <<>> \in Seq(FrameType) /\ <<>> \in Seq(Nat)
      /\ DOMAIN <<>> = {}
  OBVIOUS
<1>2. /\ << <<>> >> \in Seq(Seq(Nat)) /\ Len(<< <<>> >>) = 1 /\ DOMAIN << <<>> >> = {1}
      /\ << <<>> >>[1] = <<>>
  BY <1>1
<1>3. /\ connected = TRUE /\ entries = <<>> /\ listeners = [of \in Events |-> <<>>]
      /\ arrays = << <<>> >> /\ stack = <<>> /\ received = 0 /\ disconnects = 0 /\ reentered = FALSE
  BY DEF Init
<1>4. TypeOK
  BY <1>1, <1>2, <1>3 DEF TypeOK
<1>5. \A s, of, es : s = <<>> => ListOf(s, of, es)
  BY <1>1 DEF ListOf, Distinct
<1>6. Registry
  <2>1. \A of \in Events : Listed(listeners[of], of, entries)
    BY <1>1, <1>3, <1>5 DEF Listed
  <2>2. OnceOK(entries, reentered)
    BY <1>1, <1>3 DEF OnceOK
  <2>3. ArraysOK(arrays, entries)
    BY <1>2, <1>3, <1>5 DEF ArraysOK
  <2> QED BY <2>1, <2>2, <2>3 DEF Registry
<1>7. Frames /\ Shape(stack, reentered, connected) /\ Ended
  BY <1>1, <1>3 DEF Frames, Shape, Ended
<1> QED BY <1>4, <1>6, <1>7 DEF IInv

LEMMA StutterOK ==
  ASSUME IInv,
         UNCHANGED <<connected, entries, listeners, arrays, stack, received, disconnects, reentered>>
  PROVE  IInv'
BY DEF IInv, TypeOK, Registry, Frames, Ended

LEMMA NextOK ==
  IInv /\ [Next]_vars => IInv'
<1> SUFFICES ASSUME IInv, [Next]_vars PROVE IInv'
  OBVIOUS
<1>1. CASE UNCHANGED vars
  BY <1>1, StutterOK DEF vars
<1>2. CASE Runs
  BY <1>2, CallOK, ReturnOK, FinishOK DEF Runs
<1>3. CASE Receive
  BY <1>3, ReceiveOK
<1>4. CASE Disconnect
  BY <1>4, DisconnectOK
<1>5. ASSUME NEW fn \in Fns, NEW of \in Events, Off(of, fn) PROVE IInv'
  BY <1>5, OffOK
<1>6. ASSUME NEW fn \in Fns, NEW of \in Events, NEW once \in BOOLEAN, On(of, fn, once) PROVE IInv'
  BY <1>6, OnOK
<1>7. ASSUME NEW fn \in Fns, OnAny(fn) PROVE IInv'
  BY <1>7, OnAnyOK
<1>8. ASSUME NEW fn \in Fns, OffAny(fn) PROVE IInv'
  BY <1>8, OffAnyOK
<1>9. ASSUME NEW which \in {{"event"}, {"disconnecting"}, Events}, OffAll(which) PROVE IInv'
  <2>1. which \in SUBSET Events
    BY DEF Events
  <2> QED BY <1>9, <2>1, OffAllOK
<1>10. CASE OffAllAny
  BY <1>10, OffAllAnyOK
<1>11. ASSUME NEW timed \in BOOLEAN, EmitWithAck(timed) PROVE IInv'
  BY <1>11, StutterOK DEF EmitWithAck, registry, history
<1>12. ASSUME NEW a \in DOMAIN acks, OnAck(a) PROVE IInv'
  BY <1>12, StutterOK DEF OnAck, registry, history
<1>13. ASSUME NEW a \in DOMAIN acks, AckTimeout(a) PROVE IInv'
  BY <1>13, StutterOK DEF AckTimeout, registry, history
<1> QED
  BY <1>1, <1>2, <1>3, <1>4, <1>5, <1>6, <1>7, <1>8, <1>9, <1>10, <1>11, <1>12, <1>13 DEF Next

\* In every reachable state the listeners of an event are its registrations
\* that were not removed, every dispatch in progress has called the first of
\* those it walks and no once-listener it has still to call has run, and the
\* socket is connected until "disconnect" was emitted.
THEOREM DispatchInvariant == Spec => []IInv
<1>1. Init => IInv
  BY InitOK
<1>2. IInv /\ [Next]_vars => IInv'
  BY NextOK
<1> QED BY <1>1, <1>2, PTL DEF Spec

-----------------------------------------------------------------------------
LEMMA CountDistinct ==
  ASSUME NEW s, Distinct(s), NEW i
  PROVE  /\ Count(s, i) \in {0, 1}
         /\ (\E k \in DOMAIN s : s[k] = i) => Count(s, i) = 1
<1> DEFINE K == {k \in DOMAIN s : s[k] = i}
<1>1. CASE K = {}
  <2>1. ~ \E k \in DOMAIN s : s[k] = i
    BY <1>1
  <2>2. Count(s, i) = 0
    BY <1>1, FS_EmptySet DEF Count
  <2> QED BY <2>1, <2>2
<1>2. CASE K # {}
  <2>1. PICK k \in K : TRUE
    BY <1>2
  <2>2. K = {k}
    BY <2>1 DEF Distinct
  <2>3. Count(s, i) = 1
    BY <2>2, FS_Singleton DEF Count
  <2> QED BY <2>3
<1> QED BY <1>1, <1>2

\* emit calls once each of the listeners it started with that were not removed
\* while it ran, whatever the others registered and removed.
THEOREM EveryListenerReached == Spec => []EmitReaches
<1>1. IInv => EmitReaches
  <2> SUFFICES ASSUME IInv, NEW n \in DOMAIN stack, stack[n].of \in Events, Done(stack[n]),
                      NEW i \in Stayed(stack[n])
               PROVE  Count(stack[n].called, i) = 1
    BY DEF EmitReaches
  <2> DEFINE f == stack[n]
  <2>1. f.of # "any" /\ f \in FrameType
    BY LenProperties, ElementOfSeq DEF IInv, TypeOK, Events
  <2>2. EmitFrame(f, entries, reentered)
    BY <2>1 DEF IInv, Frames, FrameOK
  <2>3. f.at >= Len(f.start)
    BY <2>1 DEF Done, Walks
  <2>4. \E k \in DOMAIN f.start : f.start[k] = i
    BY DEF Stayed
  <2> HIDE DEF f
  <2>5. /\ DOMAIN f.start = 1..Len(f.start) /\ DOMAIN f.called = 1..Len(f.called)
        /\ Len(f.start) \in Nat /\ f.at \in Nat
    BY <2>1, LenProperties DEF FrameType
  <2>6. /\ f.at = Len(f.start) /\ DOMAIN f.called = DOMAIN f.start
        /\ \A k \in DOMAIN f.start : f.called[k] = f.start[k]
    BY <2>2, <2>3, <2>5 DEF EmitFrame
  <2>7. Distinct(f.called)
    BY <2>2, <2>6 DEF EmitFrame, ListOf, Distinct
  <2>8. \E k \in DOMAIN f.called : f.called[k] = i
    BY <2>4, <2>6
  <2> QED BY <2>7, <2>8, CountDistinct DEF f
<1> QED BY <1>1, DispatchInvariant, PTL

\* The catch-all loop calls a listener at most once; where none of those it
\* started with was removed, it calls every one.
THEOREM CatchAllsReached == Spec => []CatchAllReaches
<1>1. IInv => CatchAllReaches
  <2> SUFFICES ASSUME IInv, NEW n \in DOMAIN stack, stack[n].of = "any"
               PROVE  /\ \A i \in DOMAIN entries : Count(stack[n].called, i) <= 1
                      /\ Done(stack[n]) /\ (\A k \in DOMAIN stack[n].start : ~entries[stack[n].start[k]].gone) =>
                           \A k \in DOMAIN stack[n].start : Count(stack[n].called, stack[n].start[k]) = 1
    BY DEF CatchAllReaches
  <2> DEFINE f == stack[n]
  <2>1. f \in FrameType
    BY LenProperties, ElementOfSeq DEF IInv, TypeOK
  <2>2. AnyFrame(f, entries, arrays)
    BY DEF IInv, Frames, FrameOK
  <2>3. Done(f) => f.at >= Len(arrays[f.array])
    BY DEF Done, Walks
  <2> HIDE DEF f
  <2>4. Distinct(f.called)
    BY <2>2 DEF AnyFrame, ListOf
  <2>5. \A i \in DOMAIN entries : Count(f.called, i) <= 1
    BY <2>4, CountDistinct
  <2>6. ASSUME Done(f), \A k \in DOMAIN f.start : ~entries[f.start[k]].gone, NEW k \in DOMAIN f.start
        PROVE  Count(f.called, f.start[k]) = 1
    <3>1. k <= Len(arrays[f.array]) /\ (k <= f.at => f.called[k] = f.start[k])
      BY <2>2, <2>6 DEF AnyFrame, Unremoved
    <3>2. /\ DOMAIN f.start = 1..Len(f.start) /\ DOMAIN f.called = 1..Len(f.called)
          /\ Len(f.start) \in Nat /\ f.at \in Nat /\ Len(f.called) = f.at
      BY <2>1, <2>2, LenProperties DEF FrameType, AnyFrame
    <3>3. Len(arrays[f.array]) \in Nat
      <4>1. arrays[f.array] \in Seq(Nat)
        BY <2>2, ElementOfSeq, LenProperties DEF AnyFrame, IInv, TypeOK
      <4> QED BY <4>1, LenProperties
    <3>4. k \in DOMAIN f.called /\ f.called[k] = f.start[k]
      BY <2>3, <2>6, <3>1, <3>2, <3>3
    <3> QED BY <2>4, <3>4, CountDistinct
  <2> QED BY <2>5, <2>6 DEF f
<1> QED BY <1>1, DispatchInvariant, PTL

\* A once-listener runs at most once, unless it is one of "disconnecting" and
\* a "disconnecting" listener called disconnect().
THEOREM OnceListeners == Spec => []OnceRunsOnce
<1>1. IInv => OnceRunsOnce
  BY DEF IInv, Registry, OnceOK, OnceRunsOnce
<1> QED BY <1>1, DispatchInvariant, PTL

\* A step of a disconnected socket begins no dispatch of a packet's event.
LEMMA NoEventBegins ==
  ASSUME IInv, Next, ~connected, stack' # <<>>, stack'[Len(stack')].of = "event"
  PROVE  \E k \in DOMAIN stack : stack[k].of = "event"
<1>1. ASSUME stack' = stack PROVE \E k \in DOMAIN stack : stack[k].of = "event"
  <2>1. stack # <<>> /\ stack[Len(stack)].of = "event"
    BY <1>1
  <2> QED BY <2>1, TopFacts
<1>2. ASSUME stack # <<>>, NEW f \in FrameType, f.of = Top.of, stack' = SetTop(f)
      PROVE  \E k \in DOMAIN stack : stack[k].of = "event"
  <2>1. Len(stack) \in DOMAIN stack /\ Len(SetTop(f)) = Len(stack) /\ SetTop(f)[Len(stack)] = f
    BY <1>2, TopFacts, SetTopFacts
  <2> QED BY <1>2, <2>1 DEF Top
<1>3. CASE Call
  <2> DEFINE f == Top
             i == Walks(f)[f.at + 1]
             g == [f EXCEPT !.at = @ + 1, !.called = Append(@, i), !.body = TRUE]
  <2>1. stack # <<>> /\ stack' = SetTop(g)
    BY <1>3 DEF Call
  <2>2. IInv'
    BY <1>3, CallOK
  <2>3. f \in FrameType /\ Len(stack) \in DOMAIN stack
    BY <2>1, TopFacts
  <2>4. g.of = f.of
    BY <2>3 DEF FrameType
  <2>5. Len(stack') = Len(stack) /\ stack'[Len(stack)] = g
    <3>1. stack \in Seq(FrameType) /\ DOMAIN stack = 1..Len(stack) /\ Len(stack) \in Nat
      BY <2>1, TopFacts
    <3> HIDE DEF g
    <3>2. stack' = [stack EXCEPT ![Len(stack)] = g]
      BY <2>1 DEF SetTop
    <3>3. DOMAIN stack' = DOMAIN stack /\ stack'[Len(stack)] = g
      BY <2>3, <3>2
    <3>4. Len(stack') \in Nat /\ DOMAIN stack' = 1..Len(stack')
      BY <2>2, LenProperties DEF IInv, TypeOK
    <3> QED BY <3>1, <3>3, <3>4
  <2> QED BY <2>3, <2>4, <2>5 DEF Top
<1>4. CASE Return
  <2> DEFINE g == [Top EXCEPT !.body = FALSE]
  <2>1. stack # <<>> /\ stack' = SetTop(g)
    BY <1>4 DEF Return
  <2>2. Top \in FrameType
    BY <2>1, TopFacts
  <2>3. g \in FrameType /\ g.of = Top.of
    BY <2>2 DEF FrameType
  <2> HIDE DEF g
  <2> QED BY <1>2, <2>1, <2>3
<1>5. CASE Finish
  <2>1. stack # <<>>
    BY <1>5 DEF Finish
  <2>2. stack' = Popped
    BY <1>5 DEF Finish, EmitEvent
  <2>3. /\ Popped \in Seq(FrameType) /\ DOMAIN Popped = 1..Len(Popped)
        /\ \A n \in DOMAIN Popped : n \in DOMAIN stack /\ Popped[n] = stack[n]
    BY <2>1, PoppedFacts
  <2>4. Len(Popped) \in DOMAIN Popped
    BY <2>2, <2>3, EmptySeq, LenProperties
  <2> QED BY <2>2, <2>3, <2>4
<1>6. CASE Receive \/ Disconnect
  BY <1>6 DEF Receive, Disconnect
<1>7. CASE ~(Call \/ Return \/ Finish \/ Receive \/ Disconnect)
  <2>1. stack' = stack
    BY <1>7 DEF Next, Runs, Off, On, OnAny, OffAny, OffAll, OffAllAny, EmitWithAck, OnAck, AckTimeout
  <2> QED BY <1>1, <2>1
<1> QED BY <1>3, <1>4, <1>5, <1>6, <1>7

\* "disconnect" is emitted once, unless disconnect() was called within
\* "disconnecting", and it is the last event: the dispatch of a packet that
\* has not begun by then never does.
THEOREM NothingAfterDisconnect == Spec => DisconnectIsLast
<1>1. IInv /\ IInv' /\ [Next]_vars =>
        [ /\ disconnects' > 1 => reentered'
          /\ ~connected /\ stack' # <<>> /\ stack'[Len(stack')].of = "event" =>
               \E k \in DOMAIN stack : stack[k].of = "event" ]_vars
  BY NoEventBegins DEF IInv, Ended
<1> QED BY <1>1, DispatchInvariant, PTL DEF Spec, DisconnectIsLast
=============================================================================
