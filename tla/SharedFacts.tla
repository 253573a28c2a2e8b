---------------------------- MODULE SharedFacts -----------------------------
(***************************************************************************)
(* Facts about numbers, sequences and the status of a task that the proofs *)
(* of several parts use.                                                   *)
(*                                                                         *)
(* Induction over the natural numbers is in a form the provers can use:    *)
(* about a set of numbers instead of a predicate.  Proofs about the        *)
(* recursive functions of the models take the set of the numbers up to     *)
(* which a claim holds.                                                    *)
(***************************************************************************)
EXTENDS TaskStatus, Lists, SequencesExt, SequenceTheorems, FiniteSetTheorems,
        WellFoundedInduction, TLAPS

-----------------------------------------------------------------------------
(* Numbers.                                                                *)

LessThan == OpToRel(<, Nat)

\* A set of numbers that is not empty has a least one.
LEMMA LeastNumber ==
  ASSUME NEW T, T \subseteq Nat, T # {}
  PROVE  \E n \in T : \A m \in T : n <= m
<1>1. IsWellFoundedOn(LessThan, Nat)
  BY NatLessThanWellFounded, Zenon DEF LessThan
<1>2. PICK n \in T : \A m \in T : <<m, n>> \notin LessThan
  BY <1>1, WFMin, Zenon
<1>3. \A k, m \in Nat : m < k => <<m, k>> \in LessThan
  BY DEF LessThan, OpToRel
<1>4. n \in Nat /\ T \subseteq Nat
  BY <1>2
<1>5. \A m \in T : m \in Nat /\ ~(m < n)
  BY <1>2, <1>3, <1>4
<1> QED BY <1>4, <1>5

\* Induction: a set that has 0, and n + 1 with every n, has all numbers.
LEMMA Induction ==
  ASSUME NEW S, 0 \in S, \A n \in Nat : n \in S => n + 1 \in S
  PROVE  Nat \subseteq S
<1> DEFINE T == Nat \ S
<1>1. SUFFICES ASSUME T # {} PROVE FALSE
  OBVIOUS
<1>2. PICK n \in T : \A m \in T : n <= m
  <2>1. T \subseteq Nat
    OBVIOUS
  <2> HIDE DEF T
  <2> QED BY <1>1, <2>1, LeastNumber
<1>3. n - 1 \in Nat /\ n - 1 \in S
  BY <1>2
<1> QED BY <1>2, <1>3

\* Induction up to a bound.
LEMMA InductionUpTo ==
  ASSUME NEW N \in Nat, NEW S, 0 \in S,
         \A n \in 0..N : n \in S /\ n < N => n + 1 \in S
  PROVE  0..N \subseteq S
<1> DEFINE T == {n \in Nat : n <= N => n \in S}
<1>1. 0 \in T
  OBVIOUS
<1>2. \A n \in Nat : n \in T => n + 1 \in T
  OBVIOUS
<1>3. Nat \subseteq T
  <2> HIDE DEF T
  <2> QED BY <1>1, <1>2, Induction
<1> QED BY <1>3

\* A set of numbers with an upper bound has a greatest one.
LEMMA GreatestNumber ==
  ASSUME NEW N \in Nat, NEW T, T \subseteq 0..N, T # {}
  PROVE  \E n \in T : \A m \in T : m <= n
<1> DEFINE U == {N - n : n \in T}
<1>1. U \subseteq Nat /\ U # {}
  <2>1. \A n \in T : n \in Nat /\ n <= N
    OBVIOUS
  <2>2. \A n \in T : N - n \in Nat
    BY <2>1
  <2> QED BY <2>2
<1>2. PICK k \in U : \A m \in U : k <= m
  <2> HIDE DEF U
  <2> QED BY <1>1, LeastNumber
<1>3. PICK n \in T : k = N - n
  BY <1>2
<1>4. \A m \in T : m <= n
  <2> TAKE m \in T
  <2>1. N - m \in U
    OBVIOUS
  <2>2. k <= N - m
    BY <1>2, <2>1
  <2> QED BY <1>3, <2>2
<1> QED BY <1>4

-----------------------------------------------------------------------------
(* The greatest numbers of a set.                                          *)

\* The n greatest members of S: Newest, of the modules that number messages.
Latest(S, n) == {m \in S : Cardinality({x \in S : x > m}) < n}

\* Sets of numbers up to N: they are finite, and their cardinality is a number.
LEMMA NumbersFinite ==
  ASSUME NEW N \in Nat, NEW S \in SUBSET (0..N)
  PROVE  IsFiniteSet(S) /\ Cardinality(S) \in Nat
<1>1. IsFiniteSet(0..N)
  <2>1. 0 \in Int /\ N \in Int OBVIOUS
  <2> QED BY <2>1, FS_Interval
<1> QED BY <1>1, FS_Subset, FS_CardinalityType

\* The latest of some numbers and of those that were the latest before.
LEMMA LatestAbsorbs ==
  ASSUME NEW N \in Nat, NEW S \in SUBSET (0..N), NEW T \in SUBSET (0..N), NEW c \in Nat
  PROVE  Latest(Latest(S, c) \cup T, c) = Latest(S \cup T, c)
<1> DEFINE A == Latest(S, c)
           W == A \cup T
           U == S \cup T
           above(X, m) == {x \in X : x > m}
<1>1. A \subseteq S /\ W \subseteq U /\ U \subseteq 0..N BY DEF Latest
<1>2. ASSUME NEW X \in SUBSET U, NEW Y \in SUBSET X
      PROVE  Cardinality(Y) \in Nat /\ Cardinality(X) \in Nat /\ Cardinality(Y) <= Cardinality(X)
  <2>1. X \in SUBSET (0..N) /\ Y \in SUBSET (0..N) BY <1>1
  <2> HIDE DEF U
  <2>2. IsFiniteSet(X) /\ Cardinality(X) \in Nat /\ Cardinality(Y) \in Nat
    BY <2>1, NumbersFinite
  <2> QED BY <2>2, FS_Subset
<1>3. \A X, m : m \in Latest(X, c) <=> m \in X /\ Cardinality(above(X, m)) < c BY DEF Latest
<1> HIDE DEF A
<1>4. ASSUME NEW m \in Latest(U, c) PROVE m \in Latest(W, c)
  <2>1. m \in U /\ Cardinality(above(U, m)) < c BY <1>3
  <2>2. /\ above(S, m) \in SUBSET above(U, m) /\ above(W, m) \in SUBSET above(U, m)
        /\ above(U, m) \in SUBSET U
    BY <1>1
  <2>3. Cardinality(above(S, m)) < c /\ Cardinality(above(W, m)) < c
    <3> HIDE DEF above, U, W
    <3>1. /\ Cardinality(above(S, m)) <= Cardinality(above(U, m))
          /\ Cardinality(above(S, m)) \in Nat /\ Cardinality(above(U, m)) \in Nat
      BY <1>2, <2>2
    <3>2. /\ Cardinality(above(W, m)) <= Cardinality(above(U, m))
          /\ Cardinality(above(W, m)) \in Nat
      BY <1>2, <2>2
    <3> QED BY <2>1, <3>1, <3>2
  <2>4. m \in W BY <1>3, <2>1, <2>3 DEF A
  <2> QED BY <1>3, <2>3, <2>4
<1>5. ASSUME NEW m \in Latest(W, c) PROVE m \in Latest(U, c)
  <2>1. m \in W /\ Cardinality(above(W, m)) < c BY <1>3
  <2> DEFINE missed == {x \in S : x \notin A /\ x > m}
  <2>2. missed = {}
    <3>1. SUFFICES ASSUME missed # {} PROVE FALSE OBVIOUS
    <3>2. missed \subseteq 0..N OBVIOUS
    <3>3. PICK x \in missed : \A y \in missed : y <= x
      <4> HIDE DEF missed
      <4> QED BY <3>1, <3>2, GreatestNumber
    <3>4. x \in S /\ x \notin A /\ x > m /\ x \in Nat /\ m \in Nat BY <1>1, <2>1
    <3>5. above(S, x) \in SUBSET above(W, m)
      <4> SUFFICES ASSUME NEW y \in S, y > x PROVE y \in W /\ y > m OBVIOUS
      <4>1. y \in Nat /\ y > m BY <3>4
      <4>2. y \in A BY <3>3, <3>4, <4>1
      <4> QED BY <4>1, <4>2
    <3>6. ~(Cardinality(above(S, x)) < c) BY <1>3, <3>4 DEF A
    <3>7. above(W, m) \in SUBSET U BY <1>1
    <3> HIDE DEF above, U, W, missed
    <3>8. /\ Cardinality(above(S, x)) <= Cardinality(above(W, m))
          /\ Cardinality(above(S, x)) \in Nat /\ Cardinality(above(W, m)) \in Nat
      BY <1>2, <3>5, <3>7
    <3> QED BY <2>1, <3>6, <3>8
  <2>3. above(U, m) = above(W, m) BY <1>1, <2>2
  <2>4. m \in U BY <1>1, <2>1
  <2> HIDE DEF above, U, W
  <2> QED BY <1>3, <2>1, <2>3, <2>4
<1> QED BY <1>4, <1>5 DEF A

\* Taking the latest again changes nothing.
LEMMA LatestAgain ==
  ASSUME NEW N \in Nat, NEW S \in SUBSET (0..N), NEW c \in Nat
  PROVE  Latest(Latest(S, c), c) = Latest(S, c)
<1>1. {} \in SUBSET (0..N) OBVIOUS
<1>2. Latest(Latest(S, c) \cup {}, c) = Latest(S \cup {}, c) BY <1>1, LatestAbsorbs
<1>3. Latest(S, c) \cup {} = Latest(S, c) /\ S \cup {} = S OBVIOUS
<1> QED BY <1>2, <1>3

\* There are no more of them than were asked for.
LEMMA LatestFew ==
  ASSUME NEW N \in Nat, NEW S \in SUBSET (0..N), NEW c \in Nat
  PROVE  IsFiniteSet(Latest(S, c)) /\ Cardinality(Latest(S, c)) <= c
<1> DEFINE L == Latest(S, c)
           above(m) == {x \in S : x > m}
           f == [m \in L |-> c - Cardinality(above(m))]
<1>1. \A m \in S : m \in Nat
  <2>1. \A m \in 0..N : m \in Nat OBVIOUS
  <2> QED BY <2>1
<1>2. \A m \in S : above(m) \in SUBSET (0..N) /\ above(m) \subseteq S OBVIOUS
<1>3. L \subseteq S /\ \A m \in L : Cardinality(above(m)) < c BY DEF Latest
<1> HIDE DEF above, L
<1>4. \A m \in S : IsFiniteSet(above(m)) /\ Cardinality(above(m)) \in Nat
  BY <1>2, NumbersFinite
<1>5. \A m \in L : f[m] \in 1..c
  <2> SUFFICES ASSUME NEW m \in L PROVE f[m] \in 1..c OBVIOUS
  <2>1. Cardinality(above(m)) \in Nat /\ Cardinality(above(m)) < c BY <1>3, <1>4
  <2>2. c - Cardinality(above(m)) \in 1..c BY <2>1
  <2> QED BY <2>2
<1>6. ASSUME NEW m \in L, NEW k \in L, m < k PROVE f[m] # f[k]
  <2>1. m \in Nat /\ k \in Nat /\ m \in S /\ k \in S BY <1>1, <1>3
  <2>2. above(k) \cup {k} \in SUBSET above(m) /\ k \notin above(k)
    <3>1. ASSUME NEW x \in S, x > k PROVE x > m
      <4>1. x \in Nat BY <1>1
      <4> QED BY <1>6, <2>1, <3>1, <4>1
    <3>2. k > m /\ ~(k > k) BY <1>6, <2>1
    <3> QED BY <2>1, <3>1, <3>2 DEF above
  <2>3. /\ IsFiniteSet(above(k)) /\ Cardinality(above(k)) \in Nat
        /\ IsFiniteSet(above(m)) /\ Cardinality(above(m)) \in Nat
    BY <1>4, <2>1
  <2>4. Cardinality(above(k) \cup {k}) = Cardinality(above(k)) + 1 BY <2>2, <2>3, FS_AddElement
  <2>5. Cardinality(above(k) \cup {k}) <= Cardinality(above(m)) BY <2>2, <2>3, FS_Subset
  <2>6. c - Cardinality(above(m)) # c - Cardinality(above(k)) BY <2>3, <2>4, <2>5
  <2> QED BY <2>6
<1>7. f \in Injection(L, 1..c)
  <2>1. f \in [L -> 1..c] BY <1>5
  <2> HIDE DEF f
  <2>2. ASSUME NEW m \in L, NEW k \in L, f[m] = f[k] PROVE m = k
    <3>1. m \in Nat /\ k \in Nat BY <1>1, <1>3
    <3>2. ~(m < k) /\ ~(k < m) BY <1>6, <2>2
    <3> QED BY <3>1, <3>2
  <2> QED BY <2>1, <2>2 DEF Injection, IsInjective
<1>8. IsFiniteSet(1..c) /\ Cardinality(1..c) = c
  <2>1. 1 \in Int /\ c \in Int OBVIOUS
  <2> QED BY <2>1, FS_Interval
<1> HIDE DEF f
<1> QED BY <1>7, <1>8, FS_Injection DEF L

-----------------------------------------------------------------------------
(* Operators of SequencesExt.                                              *)

\* What InsertAt makes of a sequence.
LEMMA InsertAtFacts ==
  ASSUME NEW X, NEW s \in Seq(X), NEW e \in X, NEW i \in 1..(Len(s) + 1)
  PROVE  /\ InsertAt(s, i, e) \in Seq(X)
         /\ Len(InsertAt(s, i, e)) = Len(s) + 1
         /\ \A j \in 1..(Len(s) + 1) :
              InsertAt(s, i, e)[j] = IF j < i THEN s[j] ELSE IF j = i THEN e ELSE s[j - 1]
<1> DEFINE front == SubSeq(s, 1, i - 1)
           mid   == <<e>>
           back  == SubSeq(s, i, Len(s))
<1>1. /\ front \in Seq(X) /\ Len(front) = i - 1
      /\ \A j \in 1..(i - 1) : front[j] = s[j]
  <2>1. \A j \in 1..(i - 1) : s[j] \in X
    OBVIOUS
  <2> QED BY <2>1, SubSeqProperties
<1>2. /\ back \in Seq(X) /\ Len(back) = Len(s) - i + 1
      /\ \A j \in 1..(Len(s) - i + 1) : back[j] = s[i + j - 1]
  <2>1. \A j \in i..Len(s) : s[j] \in X
    OBVIOUS
  <2> QED BY <2>1, SubSeqProperties
<1>3. mid \in Seq(X) /\ Len(mid) = 1 /\ mid[1] = e
  OBVIOUS
<1> HIDE DEF front, mid, back
<1>4. /\ front \o mid \in Seq(X) /\ Len(front \o mid) = i
      /\ \A j \in 1..i : (front \o mid)[j] = IF j < i THEN s[j] ELSE e
  <2>1. /\ front \o mid \in Seq(X) /\ Len(front \o mid) = Len(front) + Len(mid)
        /\ \A j \in 1..(Len(front) + Len(mid)) :
             (front \o mid)[j] = IF j <= Len(front) THEN front[j] ELSE mid[j - Len(front)]
    BY <1>1, <1>3, ConcatProperties
  <2>2. \A j \in 1..i : j < i \/ j - Len(front) = 1
    BY <1>1
  <2> QED BY <1>1, <1>3, <2>1, <2>2
<1>5. /\ (front \o mid) \o back \in Seq(X)
      /\ Len((front \o mid) \o back) = Len(s) + 1
      /\ \A j \in 1..(Len(s) + 1) :
           ((front \o mid) \o back)[j] = IF j <= i THEN (front \o mid)[j] ELSE back[j - i]
  <2> DEFINE fm == front \o mid
  <2>1. /\ fm \in Seq(X) /\ Len(fm) = i
        /\ back \in Seq(X) /\ Len(back) = Len(s) - i + 1
    BY <1>2, <1>4
  <2> HIDE DEF fm
  <2>2. /\ fm \o back \in Seq(X) /\ Len(fm \o back) = Len(fm) + Len(back)
        /\ \A j \in 1..(Len(fm) + Len(back)) :
             (fm \o back)[j] = IF j <= Len(fm) THEN fm[j] ELSE back[j - Len(fm)]
    BY <2>1, ConcatProperties
  <2>3. Len(fm) + Len(back) = Len(s) + 1
    BY <2>1
  <2> QED BY <2>1, <2>2, <2>3 DEF fm
<1>6. \A j \in 1..(Len(s) + 1) : j > i => back[j - i] = s[j - 1]
  BY <1>2
<1>7. InsertAt(s, i, e) = (front \o mid) \o back
  BY DEF InsertAt, front, mid, back
<1> QED BY <1>4, <1>5, <1>6, <1>7

\* What RemoveAt makes of a sequence.
LEMMA RemoveAtFacts ==
  ASSUME NEW X, NEW s \in Seq(X), NEW i \in 1..Len(s)
  PROVE  /\ RemoveAt(s, i) \in Seq(X)
         /\ Len(RemoveAt(s, i)) = Len(s) - 1
         /\ \A j \in 1..(Len(s) - 1) :
              RemoveAt(s, i)[j] = IF j < i THEN s[j] ELSE s[j + 1]
<1> DEFINE front == SubSeq(s, 1, i - 1)
           back  == SubSeq(s, i + 1, Len(s))
<1>1. /\ front \in Seq(X) /\ Len(front) = i - 1
      /\ \A j \in 1..(i - 1) : front[j] = s[j]
  <2>1. \A j \in 1..(i - 1) : s[j] \in X
    OBVIOUS
  <2> QED BY <2>1, SubSeqProperties
<1>2. /\ back \in Seq(X) /\ Len(back) = Len(s) - i
      /\ \A j \in 1..(Len(s) - i) : back[j] = s[i + j]
  <2>1. \A j \in (i + 1)..Len(s) : s[j] \in X
    OBVIOUS
  <2> QED BY <2>1, SubSeqProperties
<1> HIDE DEF front, back
<1>3. /\ front \o back \in Seq(X) /\ Len(front \o back) = Len(s) - 1
      /\ \A j \in 1..(Len(s) - 1) : (front \o back)[j] = IF j < i THEN s[j] ELSE s[j + 1]
  <2>1. /\ front \o back \in Seq(X) /\ Len(front \o back) = Len(front) + Len(back)
        /\ \A j \in 1..(Len(front) + Len(back)) :
             (front \o back)[j] = IF j <= Len(front) THEN front[j] ELSE back[j - Len(front)]
    BY <1>1, <1>2, ConcatProperties
  <2> DEFINE w == front \o back
             l == Len(s)
  <2>2. l \in Nat /\ i \in 1..l /\ Len(front) = i - 1 /\ Len(back) = l - i
    BY <1>1, <1>2
  <2>3. /\ w \in Seq(X) /\ Len(w) = Len(front) + Len(back)
        /\ \A j \in 1..(Len(front) + Len(back)) :
             w[j] = IF j <= Len(front) THEN front[j] ELSE back[j - Len(front)]
    BY <2>1
  <2> HIDE DEF w, l
  <2>4. Len(w) = l - 1
    BY <2>2, <2>3
  <2>5. ASSUME NEW j \in 1..(l - 1) PROVE w[j] = IF j < i THEN s[j] ELSE s[j + 1]
    <3>1. j \in 1..(Len(front) + Len(back))
      BY <2>2
    <3>2. CASE j < i
      <4>1. j \in 1..(i - 1) /\ j <= Len(front)
        BY <2>2, <3>2
      <4> QED BY <1>1, <2>3, <3>1, <3>2, <4>1
    <3>3. CASE ~(j < i)
      <4>1. ~(j <= Len(front)) /\ j - Len(front) = j - i + 1 /\ j - i + 1 \in 1..(l - i)
            /\ i + (j - i + 1) = j + 1
        BY <2>2, <3>3
      <4>2. w[j] = back[j - i + 1]
        BY <2>3, <3>1, <4>1
      <4>3. back[j - i + 1] = s[j + 1]
        BY <1>2, <4>1 DEF l
      <4> QED BY <3>3, <4>2, <4>3
    <3> QED BY <3>2, <3>3
  <2> QED BY <2>3, <2>4, <2>5 DEF w, l
<1> QED BY <1>3 DEF RemoveAt, front, back

\* What Reverse makes of a sequence.
LEMMA ReverseFacts ==
  ASSUME NEW X, NEW s \in Seq(X)
  PROVE  /\ Reverse(s) \in Seq(X)
         /\ Len(Reverse(s)) = Len(s)
         /\ \A j \in 1..Len(s) : Reverse(s)[j] = s[Len(s) - j + 1]
<1>1. \A i \in 1..Len(s) : s[(Len(s) - i) + 1] \in X
  OBVIOUS
<1> QED BY <1>1 DEF Reverse

-----------------------------------------------------------------------------
(* The status of a task with several assignees.                            *)

\* Foremost returns a member of the set, if one of the four it ranks is there.
LEMMA ForemostIsThere ==
  ASSUME NEW S, NEW order, DOMAIN order = 1..4,
         \E i \in 1..4 : order[i] \in S
  PROVE  \E i \in 1..4 : Foremost(S, order) = order[i] /\ order[i] \in S
<1> DEFINE First(i) == order[i] \in S /\ \A j \in 1..(i - 1) : order[j] \notin S
<1>1. \E i \in 1..4 : First(i)
  <2>1. CASE order[1] \in S
    BY <2>1
  <2>2. CASE order[1] \notin S /\ order[2] \in S
    BY <2>2
  <2>3. CASE order[1] \notin S /\ order[2] \notin S /\ order[3] \in S
    BY <2>3
  <2>4. CASE order[1] \notin S /\ order[2] \notin S /\ order[3] \notin S
    <3>1. order[4] \in S
      BY <2>4
    <3> QED BY <2>4, <3>1
  <2> QED BY <2>1, <2>2, <2>3, <2>4
<1>2. Foremost(S, order) = order[CHOOSE i \in 1..4 : First(i)]
  BY DEF Foremost
<1> QED BY <1>1, <1>2

\* The status of a task is one of the statuses, whatever its rows; and if it
\* has rows, it is over exactly when they all are.
LEMMA AggregateIsRight ==
  ASSUME NEW rows, \A i \in DOMAIN rows : rows[i].status \in Statuses
  PROVE  /\ AggregateTaskStatus(rows) \in Statuses
         /\ DOMAIN rows # {} =>
              (AggregateTaskStatus(rows) \in Terminal <=> OpenRows(rows) = {})
<1> DEFINE some == StatusesOf(rows)
           going == <<"input-required", "working", "accepted", "pending">>
           over  == <<"failed", "timeout", "canceled", "rejected">>
<1>1. some \subseteq Statuses
  BY DEF StatusesOf
<1>2. some \cap Open = {} <=> OpenRows(rows) = {}
  BY DEF StatusesOf, OpenRows
<1>3. some = {} <=> DOMAIN rows = {}
  BY DEF StatusesOf
<1>4. CASE some = {}
  <2>1. AggregateTaskStatus(rows) = "pending"
    BY <1>4 DEF AggregateTaskStatus
  <2> QED BY <2>1, <1>3, <1>4 DEF Statuses, Open
<1>5. CASE some \cap Open # {}
  <2>1. \E i \in 1..4 : going[i] \in some
    BY <1>5 DEF Open
  <2>2. \E i \in 1..4 : Foremost(some, going) = going[i] /\ going[i] \in some
    <3>1. DOMAIN going = 1..4
      OBVIOUS
    <3> HIDE DEF some, going
    <3> QED BY <2>1, <3>1, ForemostIsThere
  <2>3. AggregateTaskStatus(rows) = Foremost(some, going)
    BY <1>5 DEF AggregateTaskStatus
  <2>4. Foremost(some, going) \in Open
    BY <2>2 DEF Open
  <2> QED BY <1>2, <1>5, <2>3, <2>4 DEF Statuses, Open, Terminal
<1>6. CASE some # {} /\ some \cap Open = {} /\ some = {"done"}
  <2>1. AggregateTaskStatus(rows) = "done"
    BY <1>6 DEF AggregateTaskStatus
  <2> QED BY <1>2, <1>6, <2>1 DEF Statuses, Terminal
<1>7. CASE some # {} /\ some \cap Open = {} /\ some # {"done"}
  <2>1. \E i \in 1..4 : over[i] \in some
    BY <1>1, <1>7 DEF Statuses, Open, Terminal
  <2>2. \E i \in 1..4 : Foremost(some, over) = over[i] /\ over[i] \in some
    <3>1. DOMAIN over = 1..4
      OBVIOUS
    <3> HIDE DEF some, over
    <3> QED BY <2>1, <3>1, ForemostIsThere
  <2>3. AggregateTaskStatus(rows) = Foremost(some, over)
    BY <1>7 DEF AggregateTaskStatus
  <2>4. Foremost(some, over) \in Terminal
    BY <2>2 DEF Terminal
  <2> QED BY <1>2, <1>7, <2>3, <2>4 DEF Statuses
<1> QED BY <1>4, <1>5, <1>6, <1>7

\* A status is open or terminal, never both.
LEMMA OpenOrTerminal ==
  /\ Statuses = Open \cup Terminal
  /\ Open \cap Terminal = {}
  /\ ClientAcks \subseteq Acks /\ Acks \subseteq Statuses
  /\ \A s \in Open, ack \in Acks : NextTaskStatus(s, ack) \in Statuses
BY DEF Statuses, Open, Terminal, ClientAcks, Acks, NextTaskStatus

-----------------------------------------------------------------------------
(* KeepIn.  The prefixes it builds, as a function of their own.            *)

KeepStep(kept, s, S, i) ==
  IF i = 0 THEN <<>>
  ELSE IF s[i] \in S THEN Append(kept[i - 1], s[i]) ELSE kept[i - 1]

KeptUpTo(s, S) == CHOOSE kept : kept = [i \in 0..Len(s) |-> KeepStep(kept, s, S, i)]

\* KeepIn is the last of the prefixes it builds, each from the one before.
LEMMA KeptUpToDefined ==
  ASSUME NEW X, NEW s \in Seq(X), NEW S
  PROVE  /\ KeepIn(s, S) = KeptUpTo(s, S)[Len(s)]
         /\ \A n \in 0..Len(s) : KeptUpTo(s, S)[n] = KeepStep(KeptUpTo(s, S), s, S, n)
<1> DEFINE G == {n \in 0..Len(s) : \E g : g = [i \in 0..n |-> KeepStep(g, s, S, i)]}
<1>1. 0 \in G
  <2>1. [i \in 0..0 |-> <<>>] = [i \in 0..0 |-> KeepStep([j \in 0..0 |-> <<>>], s, S, i)]
    BY DEF KeepStep
  <2> QED BY <2>1
<1>2. ASSUME NEW n \in 0..Len(s), n \in G, n < Len(s)
      PROVE  n + 1 \in G
  <2>1. PICK g : g = [i \in 0..n |-> KeepStep(g, s, S, i)]
    BY <1>2
  <2> DEFINE h == [i \in 0..(n + 1) |-> IF i <= n THEN g[i] ELSE KeepStep(g, s, S, n + 1)]
  <2>2. ASSUME NEW i \in 0..(n + 1)
        PROVE  h[i] = KeepStep(h, s, S, i)
    <3>1. CASE i = 0
      BY <2>1, <3>1 DEF KeepStep
    <3>2. CASE i # 0
      <4>1. h[i - 1] = g[i - 1]
        BY <3>2
      <4>2. h[i] = KeepStep(g, s, S, i)
        <5>1. i <= n => g[i] = KeepStep(g, s, S, i)
          BY <2>1
        <5>2. ~(i <= n) => i = n + 1
          OBVIOUS
        <5> QED BY <5>1, <5>2
      <4> HIDE DEF h
      <4> QED BY <3>2, <4>1, <4>2 DEF KeepStep
    <3> QED BY <3>1, <3>2
  <2>3. h = [i \in 0..(n + 1) |-> KeepStep(h, s, S, i)]
    BY <2>2
  <2> HIDE DEF h
  <2> QED BY <1>2, <2>3
<1>3. 0..Len(s) \subseteq G
  <2> HIDE DEF G
  <2> QED BY <1>1, <1>2, InductionUpTo
<1>4. \E g : g = [i \in 0..Len(s) |-> KeepStep(g, s, S, i)]
  BY <1>3
<1>5. KeptUpTo(s, S) = [i \in 0..Len(s) |-> KeepStep(KeptUpTo(s, S), s, S, i)]
  BY <1>4, Zenon DEF KeptUpTo
<1>6. KeepIn(s, S) = KeptUpTo(s, S)[Len(s)]
  BY DEF KeepIn, KeptUpTo, KeepStep
<1> QED BY <1>5, <1>6, Zenon

\* k is what is left of s when only the elements of S are kept: h tells where
\* in s each of them is.
Picks(h, k, s, S) ==
  /\ h \in [1..Len(k) -> 1..Len(s)]
  /\ \A i \in 1..Len(k) : k[i] = s[h[i]]
  /\ \A i, j \in 1..Len(k) : i < j => h[i] < h[j]
  /\ \A j \in 1..Len(s) : s[j] \in S <=> \E i \in 1..Len(k) : h[i] = j

\* KeepIn picks the elements of S, each once, in the order of the sequence.
LEMMA KeepInPicks ==
  ASSUME NEW X, NEW s \in Seq(X), NEW S
  PROVE  /\ KeepIn(s, S) \in Seq(X)
         /\ \E h : Picks(h, KeepIn(s, S), s, S)
<1> DEFINE K == KeptUpTo(s, S)
           P(h, k, n) == /\ h \in [1..Len(k) -> 1..n]
                         /\ \A i \in 1..Len(k) : k[i] = s[h[i]]
                         /\ \A i, j \in 1..Len(k) : i < j => h[i] < h[j]
                         /\ \A j \in 1..n : s[j] \in S <=> \E i \in 1..Len(k) : h[i] = j
           J == {n \in 0..Len(s) : K[n] \in Seq(X) /\ \E h : P(h, K[n], n)}
<1>1. /\ KeepIn(s, S) = K[Len(s)]
      /\ \A n \in 0..Len(s) : K[n] = KeepStep(K, s, S, n)
  BY KeptUpToDefined
<1> HIDE DEF K
<1>2. 0 \in J
  <2>1. K[0] = <<>>
    BY <1>1 DEF KeepStep
  <2>2. P([i \in {} |-> 0], <<>>, 0)
    OBVIOUS
  <2>3. K[0] \in Seq(X) /\ 0 \in 0..Len(s)
    BY <2>1, EmptySeq
  <2> HIDE DEF P
  <2> QED BY <2>1, <2>2, <2>3
<1>3. ASSUME NEW n \in 0..Len(s), n \in J, n < Len(s)
      PROVE  n + 1 \in J
  <2>1. PICK h : K[n] \in Seq(X) /\ P(h, K[n], n)
    BY <1>3
  <2>2. K[n + 1] = IF s[n + 1] \in S THEN Append(K[n], s[n + 1]) ELSE K[n]
    BY <1>1, <1>3 DEF KeepStep
  <2>3. CASE s[n + 1] \in S
    <3> DEFINE k == Append(K[n], s[n + 1])
               l == Len(K[n])
               g == [i \in 1..(l + 1) |-> IF i <= l THEN h[i] ELSE n + 1]
    <3>1. /\ k \in Seq(X) /\ Len(k) = l + 1 /\ l \in Nat
          /\ \A i \in 1..l : k[i] = K[n][i]
          /\ k[l + 1] = s[n + 1]
      BY <1>3, <2>1
    <3> HIDE DEF k, l
    <3>2. g \in [1..(l + 1) -> 1..(n + 1)]
      BY <2>1, <3>1 DEF l
    <3>3. \A i \in 1..(l + 1) : k[i] = s[g[i]]
      BY <2>1, <3>1 DEF l
    <3>4. \A i, j \in 1..(l + 1) : i < j => g[i] < g[j]
      <4>1. \A i \in 1..l : h[i] \in 1..n
        BY <2>1 DEF l
      <4>2. \A i, j \in 1..l : i < j => h[i] < h[j]
        BY <2>1 DEF l
      <4>3. \A i \in 1..l : g[i] = h[i]
        BY <3>1
      <4>4. g[l + 1] = n + 1
        BY <3>1
      <4>5. \A i \in 1..(l + 1) : i \in 1..l \/ i = l + 1
        BY <3>1
      <4> HIDE DEF g
      <4> TAKE i, j \in 1..(l + 1)
      <4>6. CASE j = l + 1
        <5>1. i < j => i \in 1..l
          BY <3>1, <4>6
        <5> QED BY <4>1, <4>3, <4>4, <4>6, <5>1
      <4>7. CASE j \in 1..l
        <5>1. i < j => i \in 1..l
          BY <3>1, <4>7
        <5> QED BY <4>2, <4>3, <4>7, <5>1
      <4> QED BY <4>5, <4>6, <4>7
    <3>5. ASSUME NEW j \in 1..(n + 1)
          PROVE  s[j] \in S <=> \E i \in 1..(l + 1) : g[i] = j
      <4>1. CASE j = n + 1
        BY <2>3, <3>1, <4>1
      <4>2. CASE j \in 1..n
        <5>1. s[j] \in S <=> \E i \in 1..l : h[i] = j
          BY <2>1, <4>2 DEF l
        <5>2. \A i \in 1..l : g[i] = h[i] /\ i \in 1..(l + 1)
          BY <3>1
        <5>3. g[l + 1] # j
          BY <3>1, <4>2
        <5>4. \A i \in 1..(l + 1) : i \in 1..l \/ i = l + 1
          BY <3>1
        <5> HIDE DEF g
        <5> QED BY <5>1, <5>2, <5>3, <5>4
      <4> QED BY <4>1, <4>2
    <3>6. P(g, k, n + 1)
      <4> HIDE DEF g
      <4> QED BY <3>1, <3>2, <3>3, <3>4, <3>5
    <3>7. K[n + 1] = k
      BY <2>2, <2>3 DEF k
    <3> HIDE DEF P
    <3> QED BY <1>3, <3>1, <3>6, <3>7
  <2>4. CASE s[n + 1] \notin S
    <3>1. K[n + 1] = K[n]
      BY <2>2, <2>4
    <3>2. P(h, K[n], n + 1)
      <4>1. h \in [1..Len(K[n]) -> 1..(n + 1)]
        BY <2>1
      <4>2. \A j \in 1..(n + 1) : s[j] \in S <=> \E i \in 1..Len(K[n]) : h[i] = j
        <5>1. \A i \in 1..Len(K[n]) : h[i] \in 1..n
          BY <2>1
        <5>2. \A j \in 1..(n + 1) : j \in 1..n \/ j = n + 1
          OBVIOUS
        <5> QED BY <2>1, <2>4, <5>1, <5>2
      <4> QED BY <2>1, <4>1, <4>2
    <3> HIDE DEF P
    <3> QED BY <1>3, <2>1, <3>1, <3>2
  <2> QED BY <2>3, <2>4
<1>4. 0..Len(s) \subseteq J
  <2> HIDE DEF J
  <2> QED BY <1>2, <1>3, InductionUpTo
<1>5. Len(s) \in J
  <2>1. Len(s) \in 0..Len(s)
    OBVIOUS
  <2> HIDE DEF J
  <2> QED BY <1>4, <2>1
<1>6. PICK h : P(h, K[Len(s)], Len(s))
  BY <1>5
<1>7. K[Len(s)] \in Seq(X)
  BY <1>5
<1>8. Picks(h, K[Len(s)], s, S)
  <2> DEFINE k == K[Len(s)]
  <2>1. P(h, k, Len(s))
    BY <1>6
  <2> HIDE DEF k
  <2>2. Picks(h, k, s, S)
    BY <2>1, Zenon DEF Picks
  <2> QED BY <2>2 DEF k
<1> HIDE DEF J
<1> QED BY <1>1, <1>7, <1>8

\* What is kept and what is not make up the whole.
LEMMA KeepInSplits ==
  ASSUME NEW X, NEW s \in Seq(X), NEW S
  PROVE  Len(KeepIn(s, S)) + Len(KeepIn(s, Elements(s) \ S)) = Len(s)
<1> DEFINE T == Elements(s) \ S
           K == KeptUpTo(s, S)
           L == KeptUpTo(s, T)
           J == {n \in 0..Len(s) : /\ K[n] \in Seq(X) /\ L[n] \in Seq(X)
                                   /\ Len(K[n]) + Len(L[n]) = n}
<1>1. /\ KeepIn(s, S) = K[Len(s)]
      /\ \A n \in 0..Len(s) : K[n] = KeepStep(K, s, S, n)
  BY KeptUpToDefined
<1>2. /\ KeepIn(s, T) = L[Len(s)]
      /\ \A n \in 0..Len(s) : L[n] = KeepStep(L, s, T, n)
  <2> HIDE DEF T
  <2> QED BY KeptUpToDefined
<1>3. \A n \in 1..Len(s) : s[n] \in T <=> s[n] \notin S
  BY DEF Elements
<1> HIDE DEF T, K, L
<1>4. 0 \in J
  <2>1. K[0] = <<>> /\ L[0] = <<>>
    BY <1>1, <1>2 DEF KeepStep
  <2>2. K[0] \in Seq(X) /\ L[0] \in Seq(X) /\ Len(K[0]) = 0 /\ Len(L[0]) = 0
    BY <2>1, EmptySeq
  <2>3. Len(K[0]) + Len(L[0]) = 0
    BY <2>2
  <2>4. 0 \in 0..Len(s)
    OBVIOUS
  <2> QED BY <2>2, <2>3, <2>4
<1>5. ASSUME NEW n \in 0..Len(s), n \in J, n < Len(s)
      PROVE  n + 1 \in J
  <2>1. /\ K[n + 1] = IF s[n + 1] \in S THEN Append(K[n], s[n + 1]) ELSE K[n]
        /\ L[n + 1] = IF s[n + 1] \in T THEN Append(L[n], s[n + 1]) ELSE L[n]
        /\ s[n + 1] \in X
    BY <1>1, <1>2, <1>5 DEF KeepStep
  <2>2. s[n + 1] \in T <=> s[n + 1] \notin S
    BY <1>3, <1>5
  <2>3. K[n] \in Seq(X) /\ L[n] \in Seq(X) /\ Len(K[n]) + Len(L[n]) = n
    BY <1>5
  <2>4. K[n + 1] \in Seq(X) /\ L[n + 1] \in Seq(X) /\ Len(K[n + 1]) + Len(L[n + 1]) = n + 1
    <3>1. Append(K[n], s[n + 1]) \in Seq(X) /\ Len(Append(K[n], s[n + 1])) = Len(K[n]) + 1
      BY <2>1, <2>3, AppendProperties
    <3>2. Append(L[n], s[n + 1]) \in Seq(X) /\ Len(Append(L[n], s[n + 1])) = Len(L[n]) + 1
      BY <2>1, <2>3, AppendProperties
    <3>3. Len(K[n]) \in Nat /\ Len(L[n]) \in Nat
      BY <2>3
    <3> DEFINE a == Len(K[n])
               b == Len(L[n])
    <3>6. a + b = n /\ a \in Nat /\ b \in Nat
      BY <2>3, <3>3
    <3> HIDE DEF a, b
    <3>7. (a + 1) + b = n + 1 /\ a + (b + 1) = n + 1
      BY <3>6
    <3>4. CASE s[n + 1] \in S
      <4>1. K[n + 1] = Append(K[n], s[n + 1]) /\ L[n + 1] = L[n]
        BY <2>1, <2>2, <3>4
      <4>2. Len(K[n + 1]) + Len(L[n + 1]) = (Len(K[n]) + 1) + Len(L[n])
        BY <3>1, <4>1
      <4>3. (Len(K[n]) + 1) + Len(L[n]) = n + 1
        BY <3>7 DEF a, b
      <4>4. K[n + 1] \in Seq(X) /\ L[n + 1] \in Seq(X)
        BY <2>3, <3>1, <4>1
      <4> QED BY <4>2, <4>3, <4>4
    <3>5. CASE s[n + 1] \notin S
      <4>1. K[n + 1] = K[n] /\ L[n + 1] = Append(L[n], s[n + 1])
        BY <2>1, <2>2, <3>5
      <4>2. Len(K[n + 1]) + Len(L[n + 1]) = Len(K[n]) + (Len(L[n]) + 1)
        BY <3>2, <4>1
      <4>3. Len(K[n]) + (Len(L[n]) + 1) = n + 1
        BY <3>7 DEF a, b
      <4>4. K[n + 1] \in Seq(X) /\ L[n + 1] \in Seq(X)
        BY <2>3, <3>2, <4>1
      <4> QED BY <4>2, <4>3, <4>4
    <3> QED BY <3>4, <3>5
  <2>5. n + 1 \in 0..Len(s)
    BY <1>5
  <2> QED BY <2>4, <2>5
<1>6. 0..Len(s) \subseteq J
  <2> HIDE DEF J
  <2> QED BY <1>4, <1>5, InductionUpTo
<1>7. Len(s) \in J
  <2> HIDE DEF J
  <2>1. Len(s) \in 0..Len(s)
    OBVIOUS
  <2> QED BY <1>6, <2>1
<1> QED BY <1>1, <1>2, <1>7 DEF T

\* KeepIn of the empty list.
LEMMA KeepInEmpty ==
  ASSUME NEW S
  PROVE  KeepIn(<<>>, S) = <<>>
<1>1. <<>> \in Seq(Nat) /\ Len(<<>>) = 0
  BY EmptySeq
<1>2. KeepIn(<<>>, S) = KeptUpTo(<<>>, S)[0]
  BY <1>1, KeptUpToDefined
<1>3. KeptUpTo(<<>>, S)[0] = KeepStep(KeptUpTo(<<>>, S), <<>>, S, 0)
  <2>1. \A n \in 0..Len(<<>>) : KeptUpTo(<<>>, S)[n] = KeepStep(KeptUpTo(<<>>, S), <<>>, S, n)
    BY <1>1, KeptUpToDefined
  <2>2. 0 \in 0..Len(<<>>)
    BY <1>1
  <2> QED BY <2>1, <2>2
<1> QED BY <1>2, <1>3 DEF KeepStep

\* KeepIn looks at the elements of the list alone.
LEMMA KeepInSame ==
  ASSUME NEW X, NEW s \in Seq(X), NEW S, NEW T,
         \A i \in 1..Len(s) : s[i] \in S <=> s[i] \in T
  PROVE  KeepIn(s, S) = KeepIn(s, T)
<1> DEFINE K == KeptUpTo(s, S)
           L == KeptUpTo(s, T)
           J == {n \in 0..Len(s) : K[n] = L[n]}
<1>1. /\ KeepIn(s, S) = K[Len(s)]
      /\ \A n \in 0..Len(s) : K[n] = KeepStep(K, s, S, n)
  BY KeptUpToDefined
<1>2. /\ KeepIn(s, T) = L[Len(s)]
      /\ \A n \in 0..Len(s) : L[n] = KeepStep(L, s, T, n)
  BY KeptUpToDefined
<1> HIDE DEF K, L
<1>3. 0 \in J
  <2>1. 0 \in 0..Len(s)
    OBVIOUS
  <2>2. K[0] = <<>> /\ L[0] = <<>>
    BY <1>1, <1>2, <2>1 DEF KeepStep
  <2> QED BY <2>1, <2>2
<1>4. ASSUME NEW n \in 0..Len(s), n \in J, n < Len(s)
      PROVE  n + 1 \in J
  BY <1>1, <1>2, <1>4 DEF KeepStep
<1>5. 0..Len(s) \subseteq J
  <2>1. Len(s) \in Nat
    OBVIOUS
  <2>2. \A n \in 0..Len(s) : n \in J /\ n < Len(s) => n + 1 \in J
    BY <1>4
  <2> HIDE DEF J
  <2> QED BY <1>3, <2>1, <2>2, InductionUpTo, Zenon
<1>6. Len(s) \in J
  <2> HIDE DEF J
  <2>1. Len(s) \in 0..Len(s)
    OBVIOUS
  <2> QED BY <1>5, <2>1
<1> QED BY <1>1, <1>2, <1>6

\* KeepIn of a list with one more element.
LEMMA KeepInAppend ==
  ASSUME NEW X, NEW s \in Seq(X), NEW x \in X, NEW S
  PROVE  KeepIn(Append(s, x), S)
           = IF x \in S THEN Append(KeepIn(s, S), x) ELSE KeepIn(s, S)
<1> DEFINE t == Append(s, x)
           c == Len(s)
           K == KeptUpTo(s, S)
           L == KeptUpTo(t, S)
           J == {n \in 0..c : K[n] = L[n]}
<1>1. /\ t \in Seq(X) /\ Len(t) = c + 1 /\ c \in Nat
      /\ \A i \in 1..c : t[i] = s[i]
      /\ t[c + 1] = x
  BY AppendProperties
<1>2. /\ KeepIn(s, S) = K[c]
      /\ \A n \in 0..c : K[n] = KeepStep(K, s, S, n)
  BY KeptUpToDefined
<1>3. /\ KeepIn(t, S) = L[c + 1]
      /\ \A n \in 0..(c + 1) : L[n] = KeepStep(L, t, S, n)
  <2> HIDE DEF t
  <2>1. /\ KeepIn(t, S) = L[Len(t)]
        /\ \A n \in 0..Len(t) : L[n] = KeepStep(L, t, S, n)
    BY <1>1, KeptUpToDefined
  <2> QED BY <1>1, <2>1
<1> HIDE DEF t, c, K, L
<1>4. 0 \in J
  BY <1>1, <1>2, <1>3 DEF KeepStep
<1>5. ASSUME NEW n \in 0..c, n \in J, n < c
      PROVE  n + 1 \in J
  <2>1. n + 1 \in 1..c /\ n + 1 \in 0..c /\ n + 1 \in 0..(c + 1) /\ (n + 1) - 1 = n /\ n + 1 # 0
    BY <1>1, <1>5
  <2>2. K[n + 1] = IF s[n + 1] \in S THEN Append(K[n], s[n + 1]) ELSE K[n]
    BY <1>2, <2>1 DEF KeepStep
  <2>3. L[n + 1] = IF t[n + 1] \in S THEN Append(L[n], t[n + 1]) ELSE L[n]
    BY <1>3, <2>1 DEF KeepStep
  <2> QED BY <1>1, <1>5, <2>1, <2>2, <2>3
<1>6. 0..c \subseteq J
  <2> HIDE DEF J
  <2> QED BY <1>1, <1>4, <1>5, InductionUpTo
<1>7. K[c] = L[c]
  BY <1>1, <1>6
<1>8. L[c + 1] = IF t[c + 1] \in S THEN Append(L[c], t[c + 1]) ELSE L[c]
  <2>1. c + 1 \in 0..(c + 1) /\ c + 1 # 0 /\ (c + 1) - 1 = c
    BY <1>1
  <2> QED BY <1>3, <2>1 DEF KeepStep
<1> QED BY <1>1, <1>2, <1>3, <1>7, <1>8 DEF t

\* Keeping some of what was kept.
LEMMA KeepInTwice ==
  ASSUME NEW X, NEW s \in Seq(X), NEW S, NEW T
  PROVE  KeepIn(KeepIn(s, S), T) = KeepIn(s, S \cap T)
<1> DEFINE U == S \cap T
           K == KeptUpTo(s, S)
           L == KeptUpTo(s, U)
           J == {n \in 0..Len(s) : K[n] \in Seq(X) /\ KeepIn(K[n], T) = L[n]}
<1>1. /\ KeepIn(s, S) = K[Len(s)]
      /\ \A n \in 0..Len(s) : K[n] = KeepStep(K, s, S, n)
  BY KeptUpToDefined
<1>2. /\ KeepIn(s, U) = L[Len(s)]
      /\ \A n \in 0..Len(s) : L[n] = KeepStep(L, s, U, n)
  <2> HIDE DEF U
  <2> QED BY KeptUpToDefined
<1>3. \A x : x \in U <=> x \in S /\ x \in T
  OBVIOUS
<1> HIDE DEF K, L, U
<1>4. 0 \in J
  <2>1. 0 \in 0..Len(s)
    OBVIOUS
  <2>2. K[0] = <<>> /\ L[0] = <<>>
    BY <1>1, <1>2, <2>1 DEF KeepStep
  <2>3. K[0] \in Seq(X) /\ KeepIn(K[0], T) = L[0]
    BY <2>2, KeepInEmpty, EmptySeq
  <2> QED BY <2>1, <2>3
<1>5. ASSUME NEW n \in 0..Len(s), n \in J, n < Len(s)
      PROVE  n + 1 \in J
  <2>1. n + 1 \in 0..Len(s) /\ s[n + 1] \in X /\ (n + 1) - 1 = n /\ n + 1 # 0
    BY <1>5
  <2>2. K[n + 1] = IF s[n + 1] \in S THEN Append(K[n], s[n + 1]) ELSE K[n]
    BY <1>1, <2>1 DEF KeepStep
  <2>3. L[n + 1] = IF s[n + 1] \in U THEN Append(L[n], s[n + 1]) ELSE L[n]
    BY <1>2, <2>1 DEF KeepStep
  <2>4. K[n] \in Seq(X) /\ KeepIn(K[n], T) = L[n]
    BY <1>5
  <2>5. KeepIn(Append(K[n], s[n + 1]), T)
          = IF s[n + 1] \in T THEN Append(KeepIn(K[n], T), s[n + 1]) ELSE KeepIn(K[n], T)
    <3> DEFINE k == K[n]
               x == s[n + 1]
    <3>1. k \in Seq(X) /\ x \in X
      BY <2>1, <2>4
    <3> HIDE DEF k, x
    <3>2. KeepIn(Append(k, x), T) = IF x \in T THEN Append(KeepIn(k, T), x) ELSE KeepIn(k, T)
      BY <3>1, KeepInAppend
    <3> QED BY <3>2 DEF k, x
  <2>6. Append(K[n], s[n + 1]) \in Seq(X)
    BY <2>1, <2>4, AppendProperties
  <2>7. K[n + 1] \in Seq(X)
    BY <2>2, <2>4, <2>6
  <2>8. KeepIn(K[n + 1], T) = L[n + 1]
    <3>1. CASE s[n + 1] \in S
      BY <1>3, <2>2, <2>3, <2>4, <2>5, <3>1
    <3>2. CASE s[n + 1] \notin S
      BY <1>3, <2>2, <2>3, <2>4, <3>2
    <3> QED BY <3>1, <3>2
  <2> QED BY <2>1, <2>7, <2>8
<1>6. 0..Len(s) \subseteq J
  <2> HIDE DEF J
  <2> QED BY <1>4, <1>5, InductionUpTo
<1>7. Len(s) \in J
  <2> HIDE DEF J
  <2>1. Len(s) \in 0..Len(s)
    OBVIOUS
  <2> QED BY <1>6, <2>1
<1> QED BY <1>1, <1>2, <1>7 DEF U

\* What is kept is in the set and in the list, and no more often than in the list.
LEMMA KeepInElements ==
  ASSUME NEW X, NEW s \in Seq(X), NEW S
  PROVE  /\ Elements(KeepIn(s, S)) = Elements(s) \cap S
         /\ KeepIn(s, S) \in Seq(X \cap S)
         /\ IsInjective(s) => IsInjective(KeepIn(s, S))
<1> DEFINE k == KeepIn(s, S)
<1>1. PICK h : k \in Seq(X) /\ Picks(h, k, s, S)
  BY KeepInPicks
<1> HIDE DEF k
<1>2. /\ DOMAIN k = 1..Len(k) /\ DOMAIN s = 1..Len(s) /\ Len(k) \in Nat
      /\ \A i \in 1..Len(k) : h[i] \in 1..Len(s) /\ k[i] = s[h[i]]
      /\ \A j \in 1..Len(s) : s[j] \in S <=> \E i \in 1..Len(k) : h[i] = j
      /\ \A i, j \in 1..Len(k) : i < j => h[i] < h[j]
  BY <1>1 DEF Picks
<1>3. Elements(k) = Elements(s) \cap S
  BY <1>2 DEF Elements
<1>4. \A i \in 1..Len(k) : k[i] \in X \cap S
  BY <1>1, <1>2
<1>5. k \in Seq(X \cap S)
  BY <1>1, <1>4, SeqDef
<1>6. IsInjective(s) => IsInjective(k)
  <2>1. SUFFICES ASSUME IsInjective(s), NEW i \in 1..Len(k), NEW j \in 1..Len(k), k[i] = k[j]
                 PROVE  i = j
    BY <1>2 DEF IsInjective
  <2>2. h[i] = h[j]
    BY <1>2, <2>1 DEF IsInjective
  <2>3. h[i] \in Nat /\ h[j] \in Nat
    BY <1>2
  <2>4. ~(i < j) /\ ~(j < i)
    BY <1>2, <2>2, <2>3
  <2> QED BY <2>4
<1> QED BY <1>3, <1>5, <1>6 DEF k

=============================================================================
