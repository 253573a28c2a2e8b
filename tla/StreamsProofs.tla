---------------------------- MODULE StreamsProofs ----------------------------
(***************************************************************************)
(* Proofs about Streams and DesktopClient, for any sessions, responses,    *)
(* commands and clients: the registry and the transport agree, every       *)
(* stream gets its share of the pushes, and the app's side keeps its types *)
(* whatever the hub does.  At the end, the same of the admin page's token  *)
(* table, for any peers, and of Recovery.                                  *)
(***************************************************************************)
EXTENDS Recovery, SharedFacts

-----------------------------------------------------------------------------
(* The inductive invariant of the hub's part.                              *)

HubTypes ==
  /\ up \in BOOLEAN
  /\ known \subseteq SessionIds /\ named \subseteq known
  /\ stream \in [SessionIds -> Conns \cup {None}]
  /\ live \subseteq SessionIds
  /\ opened \in [Conns -> SessionIds \cup {None}]
  /\ cursor \in Nat

BindingsOK == bound \in Seq(known) /\ IsInjective(bound)

\* The streams of the peer, in the order in which pushes go to them.
Turning == KeepIn(bound, named \cap live)

\* The places from a up to the cursor, around the end of the list: those whose
\* stream got a push that not all of them got.
Had(a, c, i) == IF a <= c THEN a <= i /\ i < c ELSE i < c \/ a <= i

TurnsOK ==
  /\ hits \in [SessionIds -> 0..1]
  /\ LET n == Len(Turning) IN
       n > 0 => \E a \in 0..(n - 1) : \A i \in 0..(n - 1) :
                  hits[Turning[i + 1]] = IF Had(a, cursor % n, i) THEN 1 ELSE 0

HubInv == HubTypes /\ BindingsOK /\ StreamsAgree /\ TurnsOK

-----------------------------------------------------------------------------
(* Remainders.                                                             *)

LEMMA Remainders ==
  ASSUME NEW n \in Nat \ {0}
  PROVE  /\ \A c \in Nat : c % n \in 0..(n - 1)
         /\ \A c \in 0..(n - 1) : c % n = c
         /\ n % n = 0
<1>1. \A c \in Nat : c % n \in 0..(n - 1)
  OBVIOUS
<1>2. \A c \in 0..(n - 1) : c % n = c
  OBVIOUS
<1>3. n % n = 0
  OBVIOUS
<1> QED BY <1>1, <1>2, <1>3

-----------------------------------------------------------------------------
(* The streams whose turn it may be.                                       *)

\* What the bindings b of the sessions in K list, for the named m and the live l.
LEMMA ListFacts ==
  ASSUME NEW K, K \subseteq SessionIds, NEW b \in Seq(K), IsInjective(b), NEW m, NEW l
  PROVE  /\ KeepIn(b, m) \in Seq(K) /\ Elements(KeepIn(b, m)) = Elements(b) \cap m
         /\ KeepIn(b, m \cap l) \in Seq(SessionIds) /\ IsInjective(KeepIn(b, m \cap l))
         /\ Elements(KeepIn(b, m \cap l)) = Elements(b) \cap m \cap l
         /\ KeepIn(KeepIn(b, m), l) = KeepIn(b, m \cap l)
         /\ Elements(b) \subseteq K
<1>1. Elements(KeepIn(b, m)) = Elements(b) \cap m /\ KeepIn(b, m) \in Seq(K \cap m)
  BY KeepInElements
<1> DEFINE S == m \cap l
<1>2. /\ Elements(KeepIn(b, S)) = Elements(b) \cap S
      /\ KeepIn(b, S) \in Seq(K \cap S)
      /\ IsInjective(KeepIn(b, S))
  <2> HIDE DEF S
  <2> QED BY KeepInElements
<1>3. KeepIn(KeepIn(b, m), l) = KeepIn(b, S)
  BY KeepInTwice
<1>4. Elements(b) \subseteq K
  BY DEF Elements
<1>5. Elements(b) \cap S = Elements(b) \cap m \cap l
  OBVIOUS
<1> HIDE DEF S
<1>6. KeepIn(b, m) \in Seq(K) /\ KeepIn(b, S) \in Seq(SessionIds)
  BY <1>1, <1>2, SeqDef
<1>7. /\ KeepIn(b, S) \in Seq(SessionIds) /\ IsInjective(KeepIn(b, S))
      /\ Elements(KeepIn(b, S)) = Elements(b) \cap m \cap l
      /\ KeepIn(KeepIn(b, m), l) = KeepIn(b, S)
  BY <1>2, <1>3, <1>5, <1>6
<1> QED BY <1>1, <1>4, <1>6, <1>7 DEF S

\* Turning lists the streams of the peer, each once; it is the pool of a push.
LEMMA TurningFacts ==
  ASSUME HubTypes, BindingsOK
  PROVE  /\ Attached \in Seq(known) /\ Elements(Attached) = Elements(bound) \cap named
         /\ Turning \in Seq(SessionIds) /\ IsInjective(Turning)
         /\ Elements(Turning) = Streaming
         /\ Streaming = Elements(bound) \cap named \cap live
         /\ KeepIn(Attached, live) = Turning
         /\ Elements(bound) \subseteq known
<1>1. known \subseteq SessionIds /\ bound \in Seq(known) /\ IsInjective(bound)
  BY DEF BindingsOK, HubTypes
<1> DEFINE b == bound
           m == named
           l == live
           K == known
<1>2. K \subseteq SessionIds /\ b \in Seq(K) /\ IsInjective(b)
  BY <1>1
<1> HIDE DEF b, m, l, K
<1>3. /\ KeepIn(b, m) \in Seq(K) /\ Elements(KeepIn(b, m)) = Elements(b) \cap m
      /\ KeepIn(b, m \cap l) \in Seq(SessionIds) /\ IsInjective(KeepIn(b, m \cap l))
      /\ Elements(KeepIn(b, m \cap l)) = Elements(b) \cap m \cap l
      /\ KeepIn(KeepIn(b, m), l) = KeepIn(b, m \cap l)
      /\ Elements(b) \subseteq K
  BY <1>2, ListFacts, Zenon
<1>4. Attached = KeepIn(b, m) /\ Turning = KeepIn(b, m \cap l)
  BY DEF b, m, l, Attached, Turning
<1>5. Streaming = Elements(KeepIn(b, m)) \cap l
  BY <1>4 DEF Streaming, l
<1> QED BY <1>3, <1>4, <1>5 DEF b, m, l, K

\* The same of the next state.
LEMMA TurningNext ==
  ASSUME HubTypes', BindingsOK'
  PROVE  /\ Turning' \in Seq(SessionIds)
         /\ Streaming' = Elements(bound') \cap named' \cap live'
<1>1. known' \subseteq SessionIds /\ bound' \in Seq(known') /\ IsInjective(bound')
  BY DEF BindingsOK, HubTypes
<1> DEFINE b == bound'
           m == named'
           l == live'
           K == known'
<1>2. K \subseteq SessionIds /\ b \in Seq(K) /\ IsInjective(b)
  BY <1>1
<1> HIDE DEF b, m, l, K
<1>3. /\ KeepIn(b, m) \in Seq(K) /\ Elements(KeepIn(b, m)) = Elements(b) \cap m
      /\ KeepIn(b, m \cap l) \in Seq(SessionIds) /\ IsInjective(KeepIn(b, m \cap l))
      /\ Elements(KeepIn(b, m \cap l)) = Elements(b) \cap m \cap l
      /\ KeepIn(KeepIn(b, m), l) = KeepIn(b, m \cap l)
      /\ Elements(b) \subseteq K
  BY <1>2, ListFacts, Zenon
<1>4. Turning' = KeepIn(b, m \cap l)
  BY DEF b, m, l, Turning
<1>5. Streaming' = Elements(KeepIn(b, m)) \cap l
  BY DEF Streaming, Attached, b, m, l
<1> QED BY <1>3, <1>4, <1>5 DEF b, m, l, K

\* The same streams in the same order, and nothing counted.
LEMMA TurnsStay ==
  ASSUME TurnsOK, hits' = hits, cursor' = cursor, Turning' = Turning
  PROVE  TurnsOK'
BY DEF TurnsOK

\* A new count.
LEMMA TurnsStart ==
  ASSUME hits' = [s \in SessionIds |-> 0], cursor' \in Nat, Turning' \in Seq(SessionIds)
  PROVE  TurnsOK'
<1>1. hits' \in [SessionIds -> 0..1]
  OBVIOUS
<1> DEFINE n == Len(Turning')
           c == cursor' % n
<1>2. ASSUME n > 0
      PROVE  \E a \in 0..(n - 1) : \A i \in 0..(n - 1) :
               hits'[Turning'[i + 1]] = IF Had(a, c, i) THEN 1 ELSE 0
  <2>1. n \in Nat \ {0} /\ \A i \in 0..(n - 1) : Turning'[i + 1] \in SessionIds
    BY <1>2
  <2>2. \A i \in 0..(n - 1) : hits'[Turning'[i + 1]] = 0
    BY <2>1
  <2>3. c \in 0..(n - 1)
    <3> HIDE DEF n
    <3> QED BY <2>1, Remainders
  <2> HIDE DEF c, n
  <2>4. \A i \in 0..(n - 1) : ~Had(c, c, i)
    BY <2>1, <2>3 DEF Had
  <2> QED BY <2>2, <2>3, <2>4
<1> HIDE DEF n, c
<1>3. n > 0 => \E a \in 0..(n - 1) : \A i \in 0..(n - 1) :
                 hits'[Turning'[i + 1]] = IF Had(a, c, i) THEN 1 ELSE 0
  BY <1>2
<1> QED BY <1>1, <1>3, Zenon DEF TurnsOK, n, c

\* No streams at all.
LEMMA TurnsOfNone ==
  ASSUME hits' \in [SessionIds -> 0..1], Turning' = <<>>
  PROVE  TurnsOK'
BY DEF TurnsOK

\* A step that starts the count again if the streams change.
LEMMA TurnsCounted ==
  ASSUME TurnsOK, CountAgain, cursor' = cursor, cursor \in Nat,
         HubTypes', BindingsOK', Streaming' = Streaming => Turning' = Turning
  PROVE  TurnsOK'
<1>1. CASE Streaming' = Streaming
  BY <1>1, TurnsStay DEF CountAgain
<1>2. CASE Streaming' # Streaming
  <2>1. Turning' \in Seq(SessionIds)
    BY TurningNext
  <2> QED BY <1>2, <2>1, TurnsStart DEF CountAgain
<1> QED BY <1>1, <1>2

\* While the bindings stay, the streams are listed in the same order.
LEMMA SameOrder ==
  ASSUME HubTypes, BindingsOK, HubTypes', BindingsOK', bound' = bound
  PROVE  Streaming' = Streaming => Turning' = Turning
<1>1. SUFFICES ASSUME Streaming' = Streaming PROVE Turning' = Turning
  OBVIOUS
<1>2. Streaming = Elements(bound) \cap named \cap live
  BY TurningFacts
<1>3. Streaming' = Elements(bound') \cap named' \cap live'
  BY TurningNext
<1>4. bound \in Seq(known) /\ \A i \in 1..Len(bound) : bound[i] \in Elements(bound)
  BY DEF BindingsOK, Elements
<1>5. \A i \in 1..Len(bound) : bound[i] \in named \cap live <=> bound[i] \in named' \cap live'
  BY <1>1, <1>2, <1>3, <1>4
<1>6. KeepIn(bound, named \cap live) = KeepIn(bound, named' \cap live')
  <2> DEFINE S == named \cap live
             T == named' \cap live'
  <2> HIDE DEF S, T
  <2>1. \A i \in 1..Len(bound) : bound[i] \in S <=> bound[i] \in T
    BY <1>5 DEF S, T
  <2>2. KeepIn(bound, S) = KeepIn(bound, T)
    BY <1>4, <2>1, KeepInSame
  <2> QED BY <2>2 DEF S, T
<1> QED BY <1>6 DEF Turning

\* A session is bound that was not.  If it has no stream, or no name, nothing
\* changes for the streams; if it has both, the streams change.
LEMMA BoundAtTheEnd ==
  ASSUME HubTypes, BindingsOK, NEW s, s \notin Elements(bound),
         bound' = Append(bound, s), live' = live, s \in known', known \subseteq known',
         named' \ {s} = named \ {s}
  PROVE  /\ BindingsOK'
         /\ s \notin named' \cap live => Turning' = Turning /\ Streaming' = Streaming
         /\ s \in named' \cap live => Streaming' # Streaming
<1> DEFINE S == named \cap live
           T == named' \cap live'
<1>1. /\ bound \in Seq(known) /\ IsInjective(bound)
      /\ \A i \in 1..Len(bound) : bound[i] \in Elements(bound)
      /\ Len(bound) \in Nat
  BY DEF BindingsOK, Elements
<1>2. bound \in Seq(known') /\ s \in known'
  BY <1>1, SeqDef
<1>3. /\ bound' \in Seq(known') /\ Len(bound') = Len(bound) + 1
      /\ \A i \in 1..Len(bound) : bound'[i] = bound[i]
      /\ bound'[Len(bound) + 1] = s
  BY <1>2, AppendProperties
<1>4. IsInjective(bound')
  BY <1>1, <1>3 DEF IsInjective
<1>5. BindingsOK'
  BY <1>3, <1>4 DEF BindingsOK
<1>6. KeepIn(bound', T) = IF s \in T THEN Append(KeepIn(bound, T), s) ELSE KeepIn(bound, T)
  <2> HIDE DEF T
  <2> QED BY <1>2, KeepInAppend
<1>7. KeepIn(bound, T) = KeepIn(bound, S)
  <2>1. \A i \in 1..Len(bound) : bound[i] \in T <=> bound[i] \in S
    BY <1>1
  <2> HIDE DEF S, T
  <2> QED BY <1>1, <2>1, KeepInSame
<1>8. Elements(bound') = Elements(bound) \cup {s}
  BY <1>1, <1>3 DEF Elements
<1>9. Streaming = Elements(bound) \cap named \cap live
  BY TurningFacts
<1>10. Streaming' = Elements(bound') \cap named' \cap live'
  <2> DEFINE b == bound'
             m == named'
  <2>1. b \in Seq(known') /\ m = named'
    BY <1>3
  <2> HIDE DEF b, m
  <2>2. Elements(KeepIn(b, m)) = Elements(b) \cap m
    BY <2>1, KeepInElements
  <2> QED BY <2>2 DEF b, m, Streaming, Attached
<1>11. ASSUME s \notin named' \cap live
       PROVE  Turning' = Turning /\ Streaming' = Streaming
  <2>1. Turning' = Turning
    BY <1>6, <1>7, <1>11 DEF Turning
  <2>2. Streaming' = Streaming
    BY <1>8, <1>9, <1>10, <1>11
  <2> QED BY <2>1, <2>2
<1>12. ASSUME s \in named' \cap live
       PROVE  Streaming' # Streaming
  BY <1>8, <1>9, <1>10, <1>12
<1> QED BY <1>5, <1>11, <1>12

\* Bindings are taken away of sessions without a stream.
LEMMA BoundTakenAway ==
  ASSUME HubTypes, BindingsOK, NEW R, bound' = KeepIn(bound, R), live' = live,
         known \cap R \subseteq known', named' \subseteq named,
         \A s \in named \cap live : s \in R \cap named'
  PROVE  BindingsOK' /\ Turning' = Turning
<1> DEFINE S == named \cap live
           T == named' \cap live'
           U == R \cap T
<1>1. /\ bound \in Seq(known) /\ IsInjective(bound)
  BY DEF BindingsOK
<1>2. bound' \in Seq(known \cap R) /\ IsInjective(bound')
  BY <1>1, KeepInElements
<1>3. BindingsOK'
  BY <1>2, SeqDef DEF BindingsOK
<1>4. KeepIn(bound', T) = KeepIn(bound, U)
  <2> HIDE DEF T
  <2> QED BY <1>1, KeepInTwice
<1>5. KeepIn(bound, U) = KeepIn(bound, S)
  <2>1. \A i \in 1..Len(bound) : bound[i] \in U <=> bound[i] \in S
    OBVIOUS
  <2> HIDE DEF S, U
  <2> QED BY <1>1, <2>1, KeepInSame
<1> QED BY <1>3, <1>4, <1>5 DEF Turning

-----------------------------------------------------------------------------
(* Every step of the hub keeps its invariant.                              *)

LEMMA HubStart == HubInit => HubInv
<1> SUFFICES ASSUME HubInit PROVE HubInv
  OBVIOUS
<1>1. HubTypes /\ StreamsAgree
  BY StreamsAssumption DEF HubInit, HubTypes, StreamsAgree
<1>2. BindingsOK
  BY DEF HubInit, BindingsOK, IsInjective
<1>3. TurnsOK
  <2>1. Turning = <<>>
    BY KeepInEmpty DEF HubInit, Turning
  <2> QED BY <2>1 DEF HubInit, TurnsOK
<1> QED BY <1>1, <1>2, <1>3 DEF HubInv

LEMMA InitializeKeeps ==
  ASSUME HubInv, NEW s \in SessionIds, Initialize(s)
  PROVE  HubInv'
<1> USE DEF HubInv
<1>1. HubTypes' /\ StreamsAgree'
  BY DEF Initialize, HubTypes, StreamsAgree
<1>2. s \notin Elements(bound) /\ s \notin live
  BY TurningFacts DEF Initialize, StreamsAgree
<1>3. /\ bound' = Append(bound, s) /\ live' = live /\ s \in known'
      /\ known \subseteq known' /\ named' \ {s} = named \ {s}
  BY DEF Initialize
<1>4. BindingsOK' /\ Turning' = Turning
  BY <1>2, <1>3, BoundAtTheEnd
<1>5. TurnsOK'
  BY <1>4, TurnsStay DEF Initialize
<1> QED BY <1>1, <1>4, <1>5

LEMMA ToolCallKeeps ==
  ASSUME HubInv, NEW s \in SessionIds, ToolCall(s)
  PROVE  HubInv'
<1> USE DEF HubInv
<1>1. HubTypes' /\ StreamsAgree' /\ cursor' = cursor /\ cursor \in Nat
  BY DEF ToolCall, HubTypes, StreamsAgree
<1>2. BindingsOK' /\ (Streaming' = Streaming => Turning' = Turning)
  <2>1. CASE s \in Elements(bound)
    <3>1. bound' = bound /\ known' = known /\ named' = named /\ live' = live
      BY <2>1 DEF ToolCall, Bound
    <3> QED BY <3>1 DEF BindingsOK, Turning
  <2>2. CASE s \notin Elements(bound)
    <3>1. /\ bound' = Append(bound, s) /\ live' = live /\ s \in known'
          /\ known \subseteq known' /\ named' \ {s} = named \ {s}
      BY <2>2 DEF ToolCall, Bound
    <3> QED BY <2>2, <3>1, BoundAtTheEnd
  <2> QED BY <2>1, <2>2
<1>3. TurnsOK'
  BY <1>1, <1>2, TurnsCounted DEF ToolCall
<1> QED BY <1>1, <1>2, <1>3

LEMMA SweepKeeps ==
  ASSUME HubInv, NEW s \in SessionIds, Sweep(s)
  PROVE  HubInv'
<1> USE DEF HubInv
<1>1. HubTypes' /\ StreamsAgree'
  BY DEF Sweep, HubTypes, StreamsAgree
<1> DEFINE R == SessionIds \ {s}
<1>2. /\ bound' = KeepIn(bound, R) /\ live' = live
      /\ known \cap R \subseteq known' /\ named' \subseteq named
      /\ \A t \in named \cap live : t \in R \cap named'
  BY DEF Sweep, HubTypes
<1> HIDE DEF R
<1>3. BindingsOK' /\ Turning' = Turning
  BY <1>2, BoundTakenAway
<1>4. TurnsOK'
  BY <1>3, TurnsStay DEF Sweep
<1> QED BY <1>1, <1>3, <1>4

LEMMA IdleGcKeeps ==
  ASSUME HubInv, NEW isNamed \in BOOLEAN, IdleGc(isNamed)
  PROVE  HubInv'
<1> USE DEF HubInv
<1>1. HubTypes' /\ StreamsAgree'
  BY DEF IdleGc, HubTypes, StreamsAgree
<1> DEFINE own == {s \in Elements(bound) : (s \in named) = isNamed}
           R   == SessionIds \ own
<1>2. own \cap live = {} /\ bound' = KeepIn(bound, R) /\ live' = live
      /\ known' = known /\ named' = named
  BY DEF IdleGc
<1> HIDE DEF own
<1>3. /\ known \cap R \subseteq known' /\ named' \subseteq named
      /\ \A t \in named \cap live : t \in R \cap named'
  BY <1>2 DEF HubTypes
<1> HIDE DEF R
<1>4. BindingsOK' /\ Turning' = Turning
  BY <1>2, <1>3, BoundTakenAway
<1>5. TurnsOK'
  BY <1>4, TurnsStay DEF IdleGc
<1> QED BY <1>1, <1>4, <1>5

\* The steps that change the streams and leave the bindings.
LEMMA OtherStreams ==
  ASSUME HubInv, HubTypes', StreamsAgree', known \subseteq known',
         UNCHANGED <<bound, cursor>>, CountAgain
  PROVE  HubInv'
<1> USE DEF HubInv
<1>1. BindingsOK'
  BY SeqDef DEF BindingsOK
<1>2. Streaming' = Streaming => Turning' = Turning
  BY <1>1, SameOrder
<1>3. cursor' = cursor /\ cursor \in Nat
  BY DEF HubTypes
<1>4. TurnsOK'
  BY <1>1, <1>2, <1>3, TurnsCounted
<1> QED BY <1>1, <1>4

LEMMA OpenStreamKeeps ==
  ASSUME HubInv, NEW s \in SessionIds, NEW n \in Conns, OpenStream(s, n)
  PROVE  HubInv'
<1> USE DEF HubInv
<1>1. HubTypes'
  BY DEF OpenStream, HubTypes
<1>2. StreamsAgree'
  BY StreamsAssumption DEF OpenStream, HubTypes, StreamsAgree
<1>3. known \subseteq known' /\ UNCHANGED <<bound, cursor>> /\ CountAgain
  BY DEF OpenStream
<1> QED BY <1>1, <1>2, <1>3, OtherStreams

LEMMA StreamClosesKeeps ==
  ASSUME HubInv, NEW n \in Conns, StreamCloses(n)
  PROVE  HubInv'
<1> USE DEF HubInv
<1>1. HubTypes'
  BY DEF StreamCloses, HubTypes
<1>2. StreamsAgree'
  BY StreamsAssumption DEF StreamCloses, HubTypes, StreamsAgree
<1>3. known \subseteq known' /\ UNCHANGED <<bound, cursor>> /\ CountAgain
  BY DEF StreamCloses
<1> QED BY <1>1, <1>2, <1>3, OtherStreams

LEMMA WriteFailsKeeps ==
  ASSUME HubInv, NEW s \in SessionIds, WriteFails(s)
  PROVE  HubInv'
<1> USE DEF HubInv
<1>1. HubTypes'
  BY DEF WriteFails, HubTypes
<1>2. StreamsAgree'
  BY StreamsAssumption DEF WriteFails, HubTypes, StreamsAgree
<1>3. known \subseteq known' /\ UNCHANGED <<bound, cursor>> /\ CountAgain
  BY DEF WriteFails
<1> QED BY <1>1, <1>2, <1>3, OtherStreams

LEMMA HubStopsKeeps ==
  ASSUME HubInv, HubStops
  PROVE  HubInv'
<1> USE DEF HubInv
<1>1. HubTypes' /\ StreamsAgree'
  BY DEF HubStops, HubTypes, StreamsAgree
<1>2. BindingsOK'
  BY DEF HubStops, BindingsOK, IsInjective
<1>3. Turning' = <<>>
  <2>1. bound' = <<>>
    BY DEF HubStops
  <2> QED BY <2>1, KeepInEmpty DEF Turning
<1>4. hits' \in [SessionIds -> 0..1]
  BY DEF HubStops, CountAgain, TurnsOK
<1> QED BY <1>1, <1>2, <1>3, <1>4, TurnsOfNone

LEMMA HubStartsKeeps ==
  ASSUME HubInv, HubStarts
  PROVE  HubInv'
<1> USE DEF HubInv
<1>1. HubTypes' /\ StreamsAgree' /\ BindingsOK'
  BY DEF HubStarts, HubTypes, StreamsAgree, BindingsOK
<1>2. Turning' = Turning
  BY DEF HubStarts, Turning
<1>3. TurnsOK'
  BY <1>2, TurnsStay DEF HubStarts
<1> QED BY <1>1, <1>3

-----------------------------------------------------------------------------
(* A push.                                                                 *)

\* The places that had a push, when the one under the cursor gets one too.
LEMMA OneMore ==
  ASSUME NEW n \in Nat \ {0}, NEW a \in 0..(n - 1), NEW c \in 0..(n - 1)
  PROVE  LET d == (c + 1) % n IN
         /\ d \in 0..(n - 1) /\ d % n = d
         /\ ~Had(a, c, c)
         /\ \/ \A i \in 0..(n - 1) : Had(a, d, i) <=> i = c \/ Had(a, c, i)
            \/ \A i \in 0..(n - 1) : i = c \/ Had(a, c, i)
<1>1. CASE c + 1 = n
  <2>1. (c + 1) % n = 0 /\ 0 \in 0..(n - 1) /\ 0 % n = 0
    BY <1>1, Remainders
  <2>2. CASE a = 0
    <3>1. \A i \in 0..(n - 1) : i = c \/ Had(a, c, i)
      BY <1>1, <2>2 DEF Had
    <3> QED BY <2>1, <3>1 DEF Had
  <2>3. CASE a # 0
    <3>1. \A i \in 0..(n - 1) : Had(a, 0, i) <=> i = c \/ Had(a, c, i)
      BY <1>1, <2>3 DEF Had
    <3> QED BY <2>1, <3>1 DEF Had
  <2> QED BY <2>2, <2>3
<1>2. CASE c + 1 # n
  <2>1. c + 1 \in 0..(n - 1)
    BY <1>2
  <2>2. (c + 1) % n = c + 1
    BY <2>1, Remainders
  <2>3. CASE a = c + 1
    <3>1. \A i \in 0..(n - 1) : i = c \/ Had(a, c, i)
      BY <1>2, <2>3 DEF Had
    <3> QED BY <2>1, <2>2, <3>1 DEF Had
  <2>4. CASE a # c + 1
    <3>1. \A i \in 0..(n - 1) : Had(a, c + 1, i) <=> i = c \/ Had(a, c, i)
      BY <1>2, <2>4 DEF Had
    <3> QED BY <2>1, <2>2, <3>1 DEF Had
  <2> QED BY <2>3, <2>4
<1> QED BY <1>1, <1>2

\* The push goes to the stream under the cursor, which did not have one.
LEMMA PushInTurn ==
  ASSUME HubInv, Push, Turning # <<>>
  PROVE  TurnsOK'
<1> USE DEF HubInv
<1> DEFINE T == Turning
           n == Len(Turning)
           c == cursor % n
           x == Turning[c + 1]
           d == (c + 1) % n
           counted == [hits EXCEPT ![x] = @ + 1]
<1>1. /\ T \in Seq(SessionIds) /\ IsInjective(T) /\ Elements(T) = Streaming
      /\ KeepIn(Attached, live) = T /\ Streaming \subseteq live
  BY TurningFacts
<1>2. n \in Nat \ {0} /\ DOMAIN T = 1..n /\ cursor \in Nat
  BY <1>1 DEF HubTypes
<1>3. Pool(Attached) = T
  BY <1>1 DEF Pool
<1>4. /\ cursor' = d
      /\ hits' = IF x \in live THEN Shares(counted, Streaming) ELSE hits
  BY <1>3 DEF Push
<1>5. Turning' = Turning
  BY DEF Push, Turning
<1> HIDE DEF T, n
<1>6. c \in 0..(n - 1)
  BY <1>2, Remainders
<1>7. PICK a \in 0..(n - 1) :
        \A i \in 0..(n - 1) : hits[T[i + 1]] = IF Had(a, c, i) THEN 1 ELSE 0
  BY <1>2 DEF TurnsOK, T, n
<1> HIDE DEF c
<1>8. /\ d \in 0..(n - 1) /\ d % n = d
      /\ ~Had(a, c, c)
      /\ \/ \A i \in 0..(n - 1) : Had(a, d, i) <=> i = c \/ Had(a, c, i)
         \/ \A i \in 0..(n - 1) : i = c \/ Had(a, c, i)
  BY <1>2, <1>6, OneMore
<1>9. x = T[c + 1] /\ c + 1 \in 1..n
  BY <1>2, <1>6 DEF T
<1>10. x \in Streaming /\ x \in SessionIds /\ x \in live
  BY <1>1, <1>2, <1>9 DEF Elements
<1> HIDE DEF x, d
<1>11. hits \in [SessionIds -> 0..1] /\ hits[x] = 0
  BY <1>6, <1>7, <1>8, <1>9 DEF TurnsOK
<1>12. counted \in [SessionIds -> 0..1] /\ \A s \in SessionIds : counted[s] = IF s = x THEN 1 ELSE hits[s]
  BY <1>10, <1>11
<1> HIDE DEF counted
<1>13. \A i \in 0..(n - 1) : i + 1 \in 1..n /\ T[i + 1] \in SessionIds /\ (T[i + 1] = x <=> i = c)
  <2>1. SUFFICES ASSUME NEW i \in 0..(n - 1)
                 PROVE  i + 1 \in 1..n /\ T[i + 1] \in SessionIds /\ (T[i + 1] = x <=> i = c)
    OBVIOUS
  <2>2. i + 1 \in 1..n
    BY <1>2
  <2>3. T[i + 1] = T[c + 1] => i + 1 = c + 1
    BY <1>1, <1>2, <1>9, <2>2 DEF IsInjective
  <2>4. i + 1 = c + 1 <=> i = c
    BY <1>2, <1>6
  <2> QED BY <1>1, <1>2, <1>9, <2>2, <2>3, <2>4
<1>14. \A i \in 0..(n - 1) : counted[T[i + 1]] = IF i = c \/ Had(a, c, i) THEN 1 ELSE 0
  BY <1>7, <1>12, <1>13
<1>15. hits' = Shares(counted, Streaming)
  BY <1>4, <1>10
<1>16. CASE \A s \in Streaming : counted[s] > 0
  <2>1. Streaming # {} /\ Streaming \subseteq SessionIds
    BY <1>1, <1>10 DEF HubTypes
  <2>2. hits' = [s \in SessionIds |-> IF s \in Streaming THEN counted[s] - 1 ELSE 0]
    BY <1>15, <1>16, <2>1 DEF Shares
  <2>3. \A s \in Streaming : counted[s] - 1 = 0
    BY <1>12, <1>16, <2>1
  <2>4. hits' = [s \in SessionIds |-> 0]
    BY <2>2, <2>3
  <2>5. cursor' \in Nat /\ Turning' \in Seq(SessionIds)
    BY <1>1, <1>2, <1>4, <1>5, <1>8 DEF T
  <2> QED BY <2>4, <2>5, TurnsStart
<1>17. CASE ~ \A s \in Streaming : counted[s] > 0
  <2>1. hits' = counted
    BY <1>15, <1>17 DEF Shares
  <2>2. PICK s \in Streaming : ~(counted[s] > 0)
    BY <1>17
  <2>3. PICK j \in 1..n : s = T[j]
    BY <1>1, <1>2 DEF Elements
  <2>4. j - 1 \in 0..(n - 1) /\ (j - 1) + 1 = j
    BY <1>2
  <2>5. ~(j - 1 = c \/ Had(a, c, j - 1))
    BY <1>14, <2>2, <2>3, <2>4
  <2>6. \A i \in 0..(n - 1) : Had(a, d, i) <=> i = c \/ Had(a, c, i)
    BY <1>8, <2>4, <2>5
  <2>7. \A i \in 0..(n - 1) : hits'[T[i + 1]] = IF Had(a, cursor' % n, i) THEN 1 ELSE 0
    BY <1>4, <1>8, <1>14, <2>1, <2>6
  <2>8. hits' \in [SessionIds -> 0..1]
    BY <1>12, <2>1
  <2>9. Turning' = T /\ Len(Turning') = n
    BY <1>5 DEF T, n
  <2> QED BY <2>7, <2>8, <2>9 DEF TurnsOK
<1> QED BY <1>16, <1>17

LEMMA HubStays ==
  ASSUME HubInv, UNCHANGED hub
  PROVE  HubInv'
<1> USE DEF HubInv
<1>1. HubTypes' /\ StreamsAgree' /\ BindingsOK'
  BY DEF hub, HubTypes, StreamsAgree, BindingsOK
<1>2. Turning' = Turning
  BY DEF hub, Turning
<1>3. TurnsOK'
  BY <1>2, TurnsStay DEF hub
<1> QED BY <1>1, <1>3

LEMMA PushKeeps ==
  ASSUME HubInv, Push
  PROVE  HubInv'
<1> USE DEF HubInv
<1> DEFINE pool == Pool(Attached)
           at == cursor % Len(pool)
<1>1. Attached \in Seq(known) /\ Turning \in Seq(SessionIds) /\ KeepIn(Attached, live) = Turning
  BY TurningFacts
<1>2. pool \in Seq(known \cup SessionIds) /\ pool # <<>> /\ cursor \in Nat
  <2>1. Attached \in Seq(known \cup SessionIds) /\ Turning \in Seq(known \cup SessionIds)
    BY <1>1, SeqDef
  <2> QED BY <1>1, <2>1 DEF Pool, Push, HubTypes
<1>3. cursor' = (at + 1) % Len(pool)
  BY DEF Push
<1> HIDE DEF pool
<1>4. Len(pool) \in Nat \ {0}
  BY <1>2
<1>5. at \in 0..(Len(pool) - 1)
  BY <1>2, <1>4, Remainders
<1> HIDE DEF at
<1>6. cursor' \in Nat
  <2>1. at + 1 \in Nat
    BY <1>5
  <2> DEFINE m == Len(pool)
  <2>2. m \in Nat \ {0}
    BY <1>4
  <2> HIDE DEF m
  <2>3. (at + 1) % m \in 0..(m - 1)
    BY <2>1, <2>2, Remainders
  <2>4. (at + 1) % m \in Nat
    BY <2>3
  <2> QED BY <1>3, <2>4 DEF m
<1>7. UNCHANGED <<up, known, named, bound, stream, live, opened>>
  BY DEF Push
<1>8. HubTypes' /\ StreamsAgree' /\ BindingsOK'
  BY <1>6, <1>7 DEF HubTypes, StreamsAgree, BindingsOK
<1>9. TurnsOK'
  <2>1. CASE Turning # <<>>
    BY <2>1, PushInTurn
  <2>2. CASE Turning = <<>>
    <3>1. Elements(Attached) \cap live = {} /\ pool = Attached
      BY <1>1, <2>2, TurningFacts DEF Pool, Elements, pool
    <3>2. pool[at + 1] \notin live
      BY <1>1, <1>4, <1>5, <3>1 DEF Elements
    <3>3. hits' = hits
      BY <3>2 DEF Push, pool, at
    <3>4. Turning' = <<>>
      BY <1>7, <2>2 DEF Turning
    <3> QED BY <3>3, <3>4, TurnsOfNone DEF TurnsOK
  <2> QED BY <2>1, <2>2
<1> QED BY <1>8, <1>9

-----------------------------------------------------------------------------
(* The app's part.                                                         *)

\* A client that a command makes is nobody else's: it is not in use, it has no
\* watchdog, and no other command refers to it.
Making(c) == command[c].at \in {"init", "register", "publish"}

AppTypes ==
  /\ slot \in McpClients \cup {None}
  /\ session \in [McpClients -> SessionIds \cup {None}]
  /\ command \in [Commands -> [at : {"idle", "init", "register", "publish", "post", "wait", "gone", "lost"},
                               client : McpClients \cup {None}]]
  /\ dog \in [McpClients -> {"none", "check", "get", "listen"}]
  /\ reading \in [McpClients -> Conns \cup {None}]

MakersApart ==
  \A c \in Commands : Making(c) =>
    /\ command[c].client \in McpClients
    /\ command[c].client # slot
    /\ dog[command[c].client] = "none"
    /\ \A d \in Commands : command[d].client = command[c].client => d = c

ReadersApart ==
  /\ \A k \in McpClients : (reading[k] # None) = (dog[k] = "listen")
  /\ \A k, l \in McpClients : reading[k] # None /\ reading[k] = reading[l] => k = l

AppInv == AppTypes /\ MakersApart /\ ReadersApart

LEMMA AppStart == Init => AppInv
BY DesktopAssumption DEF Init, AppInv, AppTypes, MakersApart, Making, ReadersApart, Idle

LEMMA AppStays == ASSUME AppInv, UNCHANGED app PROVE AppInv'
BY DEF app, AppInv, AppTypes, MakersApart, Making, ReadersApart

LEMMA BeginKeeps ==
  ASSUME AppInv, NEW c \in Commands, Begin(c)
  PROVE  AppInv'
<1> USE DEF AppInv
<1>1. AppTypes'
  BY DEF Begin, Forget, AppTypes
<1>2. MakersApart'
  <2>1. CASE slot # None
    BY <2>1 DEF Begin, AppTypes, MakersApart, Making
  <2>2. CASE slot = None
    <3>1. PICK k \in McpClients :
            /\ FreshClient(k)
            /\ command' = [command EXCEPT ![c] = [at |-> "init", client |-> k]]
      BY <2>2 DEF Begin
    <3> QED BY <3>1 DEF Begin, FreshClient, AppTypes, MakersApart, Making
  <2> QED BY <2>1, <2>2
<1>3. ReadersApart'
  BY DEF Begin, ReadersApart
<1> QED BY <1>1, <1>2, <1>3

\* The other steps of a command that leave the slot or empty it.
LEMMA CommandKeeps ==
  ASSUME AppInv, NEW c \in Commands,
         \/ InitializeFails(c) \/ Register(c) \/ Post(c) \/ Answer(c)
         \/ SessionGone(c) \/ Lost(c) \/ CallBreaks(c)
         \/ \E s \in SessionIds : InitializeClient(c, s)
  PROVE  AppInv'
<1> USE DEF AppInv
<1>1. AppTypes'
  BY DEF InitializeFails, Register, Post, Answer, SessionGone, Lost, CallBreaks, InitializeClient,
         Goto, Return, Forget, Idle, AppTypes
<1>2. MakersApart'
  <2>1. slot' \in {slot, None} /\ dog' = dog
    BY DEF InitializeFails, Register, Post, Answer, SessionGone, Lost, CallBreaks, InitializeClient
  <2>2. \/ command' = [command EXCEPT ![c] = Idle]
        \/ \E at \in {"wait", "lost", "gone"} : command' = [command EXCEPT ![c].at = at]
        \/ Making(c) /\ \E at \in {"register", "publish"} : command' = [command EXCEPT ![c].at = at]
    BY DEF InitializeFails, Register, Post, Answer, SessionGone, Lost, CallBreaks, InitializeClient,
           Goto, Return, Making
  <2>3. CASE command' = [command EXCEPT ![c] = Idle]
    BY <2>1, <2>3, DesktopAssumption DEF AppTypes, MakersApart, Making, Idle
  <2>4. CASE \E at \in {"wait", "lost", "gone"} : command' = [command EXCEPT ![c].at = at]
    BY <2>1, <2>4, DesktopAssumption DEF AppTypes, MakersApart, Making
  <2>5. CASE Making(c) /\ \E at \in {"register", "publish"} : command' = [command EXCEPT ![c].at = at]
    BY <2>1, <2>5, DesktopAssumption DEF AppTypes, MakersApart, Making
  <2> QED BY <2>2, <2>3, <2>4, <2>5
<1>3. ReadersApart'
  BY DEF InitializeFails, Register, Post, Answer, SessionGone, Lost, CallBreaks, InitializeClient, ReadersApart
<1> QED BY <1>1, <1>2, <1>3

LEMMA PublishKeeps ==
  ASSUME AppInv, NEW c \in Commands, Publish(c)
  PROVE  AppInv'
<1> USE DEF AppInv
<1>1. Making(c) /\ command[c].client \in McpClients /\ dog[command[c].client] = "none"
  BY DEF Publish, MakersApart, Making
<1>2. AppTypes'
  BY <1>1 DEF Publish, Return, Idle, AppTypes
<1>3. MakersApart'
  BY <1>1, DesktopAssumption DEF Publish, Return, Idle, AppTypes, MakersApart, Making
<1>4. ReadersApart'
  BY <1>1 DEF Publish, AppTypes, ReadersApart
<1> QED BY <1>2, <1>3, <1>4

\* The watchdogs' steps: a watchdog that ran stays one that some client has had.
LEMMA DogKeeps ==
  ASSUME AppInv, NEW k \in McpClients,
         \/ DogChecks(k) \/ Refused(k) \/ StreamEnds(k)
         \/ \E s \in SessionIds, n \in Conns : Subscribe(k, s, n)
  PROVE  AppInv'
<1> USE DEF AppInv
<1>1. AppTypes'
  BY DEF DogChecks, Refused, StreamEnds, Subscribe, Forget, AppTypes
<1>2. MakersApart'
  <2>1. /\ dog[k] # "none" /\ command' = command /\ slot' = slot
        /\ \E at \in {"none", "check", "get", "listen"} : dog' = [dog EXCEPT ![k] = at]
    BY DEF DogChecks, Refused, StreamEnds, Subscribe
  <2> QED BY <2>1 DEF AppTypes, MakersApart, Making
<1>3. ReadersApart'
  <2>1. CASE DogChecks(k) \/ Refused(k)
    BY <2>1 DEF DogChecks, Refused, AppTypes, ReadersApart
  <2>2. CASE StreamEnds(k)
    BY <2>2 DEF StreamEnds, AppTypes, ReadersApart
  <2>3. CASE \E s \in SessionIds, n \in Conns : Subscribe(k, s, n)
    BY <2>3, StreamsAssumption DEF Subscribe, AppTypes, ReadersApart
  <2> QED BY <2>1, <2>2, <2>3
<1> QED BY <1>1, <1>2, <1>3

\* What the hub does changes nothing of the app, but for the calls lost with it.
LEMMA StopsKeeps ==
  ASSUME AppInv, Stops \/ Cleared
  PROVE  AppInv'
<1> USE DEF AppInv
<1>1. CASE Stops
  <2>1. UNCHANGED <<slot, session, dog, reading>>
    BY <1>1 DEF Stops
  <2>2. /\ command' \in [Commands -> [at : {"idle", "init", "register", "publish", "post", "wait", "gone", "lost"},
                                       client : McpClients \cup {None}]]
        /\ \A c \in Commands : command'[c].client = command[c].client /\ (Making(c)' => Making(c))
    BY <1>1 DEF Stops, AppTypes, Making
  <2>3. AppTypes' /\ ReadersApart'
    BY <2>1, <2>2 DEF AppTypes, ReadersApart
  <2>4. MakersApart'
    BY <2>1, <2>2 DEF MakersApart
  <2> QED BY <2>3, <2>4
<1>2. CASE Cleared
  BY <1>2, DesktopAssumption DEF Cleared, AppTypes, MakersApart, Making, ReadersApart
<1> QED BY <1>1, <1>2

-----------------------------------------------------------------------------
(* The composition.                                                        *)

\* Every step of the app is a step of the hub or leaves the hub as it is.
LEMMA HubInvStep ==
  ASSUME HubInv, [Next]_vars
  PROVE  HubInv'
<1>1. CASE UNCHANGED hub
  BY <1>1, HubStays
<1>2. CASE HubSteps
  <2>1. ASSUME NEW s \in SessionIds, Sweep(s) \/ WriteFails(s) PROVE HubInv'
    BY <2>1, SweepKeeps, WriteFailsKeeps
  <2>2. ASSUME NEW isNamed \in BOOLEAN, IdleGc(isNamed) PROVE HubInv'
    BY <2>2, IdleGcKeeps
  <2> QED BY <1>2, <2>1, <2>2, PushKeeps, HubStartsKeeps DEF HubSteps
<1>3. CASE Stops
  BY <1>3, HubStopsKeeps DEF Stops
<1>4. ASSUME NEW n \in Conns, ConnectionCloses(n) PROVE HubInv'
  BY <1>4, StreamClosesKeeps DEF ConnectionCloses
<1>5. ASSUME NEW c \in Commands, CommandSteps(c) \/ CallBreaks(c) PROVE HubInv'
  <2>1. \/ UNCHANGED hub
        \/ \E s \in SessionIds : ToolCall(s) \/ Initialize(s)
    <3>1. known \subseteq SessionIds
      BY DEF HubInv, HubTypes
    <3>2. CASE Register(c)
      BY <3>1, <3>2 DEF Register
    <3>3. CASE Post(c)
      BY <3>1, <3>3 DEF Post
    <3>4. CASE \E s \in SessionIds : InitializeClient(c, s)
      BY <3>4 DEF InitializeClient
    <3> QED BY <1>5, <3>2, <3>3, <3>4
         DEF CommandSteps, CallBreaks, Begin, InitializeFails, Publish, Answer, SessionGone, Lost
  <2> QED BY <1>1, <2>1, ToolCallKeeps, InitializeKeeps
<1>6. ASSUME NEW k \in McpClients, DogSteps(k) \/ StreamEnds(k) PROVE HubInv'
  <2>1. UNCHANGED hub \/ \E s \in SessionIds, n \in Conns : OpenStream(s, n)
    BY <1>6 DEF DogSteps, DogChecks, Refused, Subscribe, StreamEnds
  <2> QED BY <1>1, <2>1, OpenStreamKeeps
<1>7. CASE Cleared
  BY <1>1, <1>7 DEF Cleared
<1>8. CASE UNCHANGED vars
  BY <1>1, <1>8 DEF vars
<1> QED BY <1>2, <1>3, <1>4, <1>5, <1>6, <1>7, <1>8 DEF Next

LEMMA AppInvStep ==
  ASSUME AppInv, [Next]_vars
  PROVE  AppInv'
<1>1. CASE HubSteps
  BY <1>1, AppStays DEF HubSteps
<1>2. CASE Stops \/ Cleared
  BY <1>2, StopsKeeps
<1>3. ASSUME NEW n \in Conns, ConnectionCloses(n) PROVE AppInv'
  BY <1>3, AppStays DEF ConnectionCloses
<1>4. ASSUME NEW c \in Commands, CommandSteps(c) \/ CallBreaks(c) PROVE AppInv'
  BY <1>4, BeginKeeps, PublishKeeps, CommandKeeps DEF CommandSteps
<1>5. ASSUME NEW k \in McpClients, DogSteps(k) \/ StreamEnds(k) PROVE AppInv'
  BY <1>5, DogKeeps DEF DogSteps
<1>6. CASE UNCHANGED vars
  BY <1>6, AppStays DEF vars
<1> QED BY <1>1, <1>2, <1>3, <1>4, <1>5, <1>6 DEF Next

\* The hub keeps its invariant, and the app keeps its own.
THEOREM Invariance == Spec => [](HubInv /\ AppInv)
<1>1. Init => HubInv /\ AppInv
  BY HubStart, AppStart DEF Init
<1>2. HubInv /\ AppInv /\ [Next]_vars => (HubInv /\ AppInv)'
  BY HubInvStep, AppInvStep
<1> QED BY <1>1, <1>2, PTL DEF Spec

LEMMA InvIsTyped == HubInv /\ AppInv => TypeOK
<1>1. ASSUME HubInv PROVE HubTypeOK
  <2>1. hits \in [SessionIds -> 0..2]
    BY <1>1 DEF HubInv, TurnsOK
  <2> QED BY <1>1, <2>1 DEF HubInv, HubTypes, BindingsOK, HubTypeOK
<1> QED BY <1>1 DEF AppInv, AppTypes, ReadersApart, TypeOK

\* The variables of the hub and of the app keep their types; a watchdog reads a
\* response exactly while it listens, and no two of them read the same one.
THEOREM TypeCorrect == Spec => []TypeOK
<1> QED BY InvIsTyped, Invariance, PTL

\* A session counts as live exactly when an open response of its own serves it,
\* and the hub knows it, in whatever order responses are replaced, break and
\* close, however late the hub hears of it.
THEOREM StreamsAlwaysAgree == Spec => []StreamsAgree
<1>1. HubInv => StreamsAgree
  BY DEF HubInv
<1> QED BY <1>1, Invariance, PTL

\* While the streams of a peer stay the same none gets a second push before the
\* others got one, for any number of streams and wherever the cursor was left.
THEOREM SharesAreEven == Spec => []EveryStreamGetsItsShare
<1>1. HubInv => EveryStreamGetsItsShare
  <2>1. SUFFICES ASSUME HubInv, NEW s \in Streaming PROVE hits[s] <= 1
    BY DEF EveryStreamGetsItsShare
  <2>2. s \in SessionIds /\ hits \in [SessionIds -> 0..1]
    BY <2>1 DEF Streaming, HubInv, HubTypes, TurnsOK
  <2> QED BY <2>2
<1> QED BY <1>1, Invariance, PTL

-----------------------------------------------------------------------------
(* The token table of the admin page.                                      *)

Tables == [peers : SUBSET Members, clear : BOOLEAN]

LEMMA ListingsTyped ==
  /\ Empty \in Tables
  /\ \A a \in Listings : a.status \in {"err", "off", "ok"} /\ a.table \in Tables
<1>1. /\ Empty \in Tables
      /\ \A peers \in SUBSET Members, clear \in BOOLEAN : Table(peers, clear) \in Tables
  BY DEF Table, Empty, Tables
<1>2. ASSUME NEW a \in Listings PROVE a.status \in {"err", "off", "ok"} /\ a.table \in Tables
  <2>1. CASE a = Listing("err", Empty) \/ a = Listing("off", Empty)
    BY <1>1, <2>1 DEF Listing
  <2>2. ASSUME NEW peers \in SUBSET Members, NEW clear \in BOOLEAN,
               a = Listing("ok", Table(peers, clear))
        PROVE  a.status \in {"err", "off", "ok"} /\ a.table \in Tables
    BY <1>1, <2>2 DEF Listing
  <2>3. \/ a = Listing("err", Empty) \/ a = Listing("off", Empty)
        \/ \E peers \in SUBSET Members, clear \in BOOLEAN : a = Listing("ok", Table(peers, clear))
    BY <1>2 DEF Listings
  <2> QED BY <2>1, <2>2, <2>3
<1> QED BY <1>1, <1>2

LEMMA PageStart == PageInit => PageTypeOK
<1> SUFFICES ASSUME PageInit PROVE PageTypeOK OBVIOUS
<1>1. shown \in [peers : SUBSET Members, clear : BOOLEAN]
  BY DEF PageInit, Empty, Table
<1>2. file \in [valid : BOOLEAN, peers : SUBSET Members]
  BY DEF PageInit
<1> QED BY <1>1, <1>2 DEF PageInit, PageTypeOK

LEMMA HubListsKeeps ==
  ASSUME PageTypeOK, NEW clear \in BOOLEAN, HubLists(clear)
  PROVE  PageTypeOK'
<1> USE DEF PageTypeOK
<1>1. /\ Listing("err", Empty) \in Listings /\ Listing("off", Empty) \in Listings
      /\ Listing("ok", Table(file.peers, clear)) \in Listings
  BY DEF Listings
<1>2. listings' \subseteq Listings /\ asking' \subseteq BOOLEAN
  BY <1>1 DEF HubLists
<1>3. /\ file' = file /\ hubMode' \in {"down", "local", "remote"} /\ accepted' \subseteq Members
      /\ hubMode' # "remote" => accepted' = {}
  BY DEF HubLists, hubSide
<1>4. client' \in {"ready", "stale", "wedged"} /\ (client' = "ready" => hubMode' # "down")
  BY DEF HubLists, hubSide, Orphaned
<1> QED BY <1>2, <1>3, <1>4 DEF HubLists

LEMMA HubChangesKeep ==
  ASSUME PageTypeOK, NEW m \in Members, HubAdds(m) \/ HubRemoves(m)
  PROVE  PageTypeOK'
<1> USE DEF PageTypeOK
<1>1. changing' \in [Members -> {"no", "add", "remove", "done"}]
  BY DEF HubAdds, HubRemoves
<1>2. file' \in [valid : BOOLEAN, peers : SUBSET Members]
  BY DEF HubAdds, HubRemoves
<1>3. /\ hubMode' \in {"down", "local", "remote"} /\ accepted' \subseteq Members
      /\ hubMode' # "remote" => accepted' = {}
  BY DEF HubAdds, HubRemoves
<1>4. client' \in {"ready", "stale", "wedged"} /\ (client' = "ready" => hubMode' # "down")
  BY DEF HubAdds, HubRemoves, Orphaned
<1> QED BY <1>1, <1>2, <1>3, <1>4 DEF HubAdds, HubRemoves

LEMMA PageStays == PageTypeOK /\ [PageNext]_page => PageTypeOK'
<1> SUFFICES ASSUME PageTypeOK, [PageNext]_page PROVE PageTypeOK'
  OBVIOUS
<1> USE DEF PageTypeOK
<1>1. CASE HubGoesDown \/ FileChanges \/ HubReloads
  BY <1>1 DEF HubGoesDown, FileChanges, HubReloads, Loadable, Orphaned
<1>2. CASE Toggle \/ PollPage \/ Reconnects \/ PageSleeps
  BY <1>2 DEF Toggle, PollPage, Reconnects, PageSleeps, Serves, hubSide
<1>3. ASSUME NEW mode \in {"local", "remote"}, HubComesUp(mode) PROVE PageTypeOK'
  BY <1>3 DEF HubComesUp
<1>4. ASSUME NEW m \in Members, Issue(m) \/ Revoke(m) \/ Changed(m) PROVE PageTypeOK'
  BY <1>4 DEF Issue, Revoke, Changed, hubSide
<1>5. ASSUME NEW a \in Listings, Loaded(a) PROVE PageTypeOK'
  BY <1>5, ListingsTyped DEF Loaded, hubSide, Tables
<1>6. CASE UNCHANGED page
  BY <1>6 DEF page, hubSide
<1> QED
  BY <1>1, <1>2, <1>3, <1>4, <1>5, <1>6, HubListsKeeps, HubChangesKeep DEF PageNext, SomebodyActs

\* The token table of the admin page and the hub behind it keep their types; a hub that is
\* down or runs without a token file goes by no table, and one that is down has no session.
THEOREM PageIsTyped == PageInit /\ [][PageNext]_page => []PageTypeOK
BY PageStart, PageStays, PTL

\* In the composition of both, what one does leaves the other's invariant alone.
THEOREM RecoveryIsTyped == RecoverySpec => []RecoveryTypeOK
<1> DEFINE Kept == HubInv /\ AppInv /\ PageTypeOK
<1>1. RecoveryInit => Kept
  BY HubStart, AppStart, PageStart DEF RecoveryInit, Init
<1>2. Kept /\ [RecoveryNext]_recovery => Kept'
  <2> SUFFICES ASSUME Kept, [RecoveryNext]_recovery PROVE Kept'
    OBVIOUS
  <2>1. [Next]_vars /\ [PageNext]_page
    BY DEF RecoveryNext, recovery
  <2> QED BY <2>1, HubInvStep, AppInvStep, PageStays
<1>3. Kept => RecoveryTypeOK
  BY InvIsTyped DEF RecoveryTypeOK
<1> QED BY <1>1, <1>2, <1>3, PTL DEF RecoverySpec

=============================================================================
