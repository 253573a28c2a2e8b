--------------------------- MODULE MailboxesProofs ---------------------------
(***************************************************************************)
(* Proofs about Mailboxes, for any peers, groups, bounds and filters.      *)
(*                                                                         *)
(* The first half is about one mailbox: what each method of the hub does   *)
(* to it, one lemma for each.  The claim all of them are about is Sound:   *)
(* the lists of a mailbox are well formed, every message it was offered is *)
(* in one of them, in the hands of the method that is running, or settled  *)
(* in one way.  The second half is about the state machine: the inductive  *)
(* invariant, the safety invariants it implies, what no step does, and     *)
(* that the mailboxes keep the contract of MailContract.                   *)
(***************************************************************************)
EXTENDS Mailboxes, SharedFacts

-----------------------------------------------------------------------------
(* Lists of messages and of leases, and the soundness of a mailbox.        *)

MailList(s) == s \in Seq(Message) /\ Distinct(s)

LeaseList(s) == s \in Seq(Lease) /\ Distinct(Msgs(s))

Sorted(q) == \A i, j \in DOMAIN q : i < j => q[i].prio >= q[j].prio

-----------------------------------------------------------------------------
(* What the operations on sequences do to lists of messages.               *)

\* In a list a message is known by its id.
LEMMA ListById ==
  ASSUME NEW s, MailList(s)
  PROVE  /\ Elements(s) \subseteq Message
         /\ \A i \in 1..Len(s) : s[i] \in Message /\ s[i].id \in Ids(s)
         /\ \A k \in Ids(s) : \E i \in 1..Len(s) : s[i].id = k
         /\ \A i, j \in 1..Len(s) : s[i].id = s[j].id => i = j
         /\ \A m, n \in Elements(s) : m.id = n.id => m = n
<1>1. DOMAIN s = 1..Len(s) /\ \A i \in 1..Len(s) : s[i] \in Message
  BY DEF MailList
<1>2. \A i, j \in 1..Len(s) : s[i].id = s[j].id => i = j
  BY <1>1 DEF MailList, Distinct
<1> QED BY <1>1, <1>2 DEF Ids, Elements

\* The empty list holds no message.
LEMMA EmptyList == MailList(<<>>) /\ Ids(<<>>) = {} /\ Sorted(<<>>)
<1>1. <<>> \in Seq(Message) /\ Len(<<>>) = 0 /\ DOMAIN <<>> = {}
  BY EmptySeq
<1> QED BY <1>1 DEF MailList, Distinct, Ids, Sorted

\* A list of one message.
LEMMA OneList ==
  ASSUME NEW m \in Message
  PROVE  MailList(<<m>>) /\ Ids(<<m>>) = {m.id}
<1>1. <<m>> \in Seq(Message) /\ DOMAIN <<m>> = {1} /\ <<m>>[1] = m
  OBVIOUS
<1> QED BY <1>1 DEF MailList, Distinct, Ids

\* Two lists that share no message, one behind the other.
LEMMA ConcatLists ==
  ASSUME NEW s, NEW t, MailList(s), MailList(t), Ids(s) \cap Ids(t) = {}
  PROVE  /\ MailList(s \o t)
         /\ Ids(s \o t) = Ids(s) \cup Ids(t)
         /\ Len(s \o t) = Len(s) + Len(t)
<1> DEFINE c == s \o t
<1>1. s \in Seq(Message) /\ t \in Seq(Message) /\ Len(s) \in Nat /\ Len(t) \in Nat
  BY DEF MailList
<1>2. /\ c \in Seq(Message) /\ Len(c) = Len(s) + Len(t)
      /\ \A i \in 1..(Len(s) + Len(t)) : c[i] = IF i <= Len(s) THEN s[i] ELSE t[i - Len(s)]
  BY <1>1, ConcatProperties
<1> HIDE DEF c
<1>3. DOMAIN c = 1..(Len(s) + Len(t))
  BY <1>2
<1>4. \A i \in 1..(Len(s) + Len(t)) : \/ i \in 1..Len(s) /\ c[i] = s[i]
                                      \/ i - Len(s) \in 1..Len(t) /\ c[i] = t[i - Len(s)]
  BY <1>1, <1>2
<1>5. /\ \A i \in 1..Len(s) : i \in DOMAIN c /\ c[i] = s[i]
      /\ \A i \in 1..Len(t) : i + Len(s) \in DOMAIN c /\ c[i + Len(s)] = t[i]
  BY <1>1, <1>2, <1>3
<1>6. Ids(c) = Ids(s) \cup Ids(t)
  <2>1. Ids(c) \subseteq Ids(s) \cup Ids(t)
    BY <1>1, <1>3, <1>4 DEF Ids
  <2>2. Ids(s) \subseteq Ids(c)
    BY <1>1, <1>5 DEF Ids
  <2>3. Ids(t) \subseteq Ids(c)
    BY <1>1, <1>5 DEF Ids
  <2> QED BY <2>1, <2>2, <2>3
<1>7. Distinct(c)
  <2> SUFFICES ASSUME NEW i \in 1..(Len(s) + Len(t)), NEW j \in 1..(Len(s) + Len(t)),
                      c[i].id = c[j].id
               PROVE  i = j
    BY <1>3 DEF Distinct
  <2>1. CASE i \in 1..Len(s) /\ c[i] = s[i] /\ j \in 1..Len(s) /\ c[j] = s[j]
    BY <2>1, ListById
  <2>2. CASE /\ i - Len(s) \in 1..Len(t) /\ c[i] = t[i - Len(s)]
             /\ j - Len(s) \in 1..Len(t) /\ c[j] = t[j - Len(s)]
    <3>1. i - Len(s) = j - Len(s)
      BY <2>2, ListById
    <3> QED BY <1>1, <3>1
  <2>3. ~(c[i].id \in Ids(s) /\ c[j].id \in Ids(t)) /\ ~(c[i].id \in Ids(t) /\ c[j].id \in Ids(s))
    OBVIOUS
  <2>4. /\ i \in 1..Len(s) /\ c[i] = s[i] => c[i].id \in Ids(s)
        /\ j \in 1..Len(s) /\ c[j] = s[j] => c[j].id \in Ids(s)
        /\ i - Len(s) \in 1..Len(t) /\ c[i] = t[i - Len(s)] => c[i].id \in Ids(t)
        /\ j - Len(s) \in 1..Len(t) /\ c[j] = t[j - Len(s)] => c[j].id \in Ids(t)
    BY ListById
  <2> QED BY <1>4, <2>1, <2>2, <2>3, <2>4
<1> QED BY <1>2, <1>6, <1>7 DEF MailList, c

\* A list cut in two.
LEMMA CutList ==
  ASSUME NEW s, MailList(s), NEW n \in 0..Len(s)
  PROVE  LET a == SubSeq(s, 1, n)
             b == SubSeq(s, n + 1, Len(s))
         IN  /\ MailList(a) /\ MailList(b)
             /\ Len(a) = n /\ Len(b) = Len(s) - n
             /\ Ids(a) \cup Ids(b) = Ids(s) /\ Ids(a) \cap Ids(b) = {}
             /\ Elements(a) \subseteq Elements(s)
             /\ Sorted(s) => Sorted(a)
<1> DEFINE a == SubSeq(s, 1, n)
           b == SubSeq(s, n + 1, Len(s))
<1>1. s \in Seq(Message) /\ Len(s) \in Nat /\ DOMAIN s = 1..Len(s)
  BY DEF MailList
<1>2. /\ a \in Seq(Message) /\ Len(a) = n
      /\ \A i \in 1..n : a[i] = s[i]
  <2>1. \A i \in 1..n : s[i] \in Message
    BY <1>1
  <2> QED BY <1>1, <2>1, SubSeqProperties
<1>3. /\ b \in Seq(Message) /\ Len(b) = Len(s) - n
      /\ \A i \in 1..(Len(s) - n) : b[i] = s[i + n]
  <2>1. \A i \in (n + 1)..Len(s) : s[i] \in Message
    BY <1>1
  <2>2. /\ b \in Seq(Message)
        /\ Len(b) = IF n + 1 <= Len(s) THEN Len(s) - (n + 1) + 1 ELSE 0
        /\ \A i \in 1..(Len(s) - (n + 1) + 1) : b[i] = s[(n + 1) + i - 1]
    BY <1>1, <2>1, SubSeqProperties
  <2> HIDE DEF b
  <2>3. Len(b) = Len(s) - n
    <3> DEFINE l == Len(s)
    <3>1. l \in Nat /\ n \in 0..l /\ Len(b) = IF n + 1 <= l THEN l - (n + 1) + 1 ELSE 0
      BY <1>1, <2>2
    <3> HIDE DEF l
    <3>2. Len(b) = l - n
      BY <3>1
    <3> QED BY <3>2 DEF l
  <2>4. ASSUME NEW i \in 1..(Len(s) - n) PROVE b[i] = s[i + n]
    <3>1. i \in 1..(Len(s) - (n + 1) + 1) /\ (n + 1) + i - 1 = i + n
      BY <1>1
    <3> QED BY <2>2, <3>1
  <2> QED BY <2>2, <2>3, <2>4
<1> HIDE DEF a, b
<1>4. DOMAIN a = 1..n /\ DOMAIN b = 1..(Len(s) - n)
  BY <1>1, <1>2, <1>3
<1>5. \A i, j \in 1..Len(s) : s[i].id = s[j].id => i = j
  BY ListById
<1>6. Distinct(a) /\ (Sorted(s) => Sorted(a))
  <2>1. \A i \in 1..n : i \in 1..Len(s)
    BY <1>1
  <2> QED BY <1>1, <1>2, <1>4, <1>5, <2>1 DEF Distinct, Sorted
<1>7. Distinct(b)
  <2>1. \A i \in 1..(Len(s) - n) : i + n \in 1..Len(s)
    BY <1>1
  <2> SUFFICES ASSUME NEW i \in 1..(Len(s) - n), NEW j \in 1..(Len(s) - n), b[i].id = b[j].id
               PROVE  i = j
    BY <1>4 DEF Distinct
  <2>2. i + n = j + n
    <3>1. i + n \in 1..Len(s) /\ j + n \in 1..Len(s)
      BY <2>1
    <3>2. s[i + n].id = s[j + n].id
      BY <1>3
    <3> QED BY <1>5, <3>1, <3>2, Zenon
  <2> QED BY <1>1, <2>2
<1>8. Ids(a) \subseteq Ids(s) /\ Elements(a) \subseteq Elements(s)
  BY <1>1, <1>2, <1>4 DEF Ids, Elements
<1>9. Ids(b) \subseteq Ids(s)
  <2>1. \A i \in 1..(Len(s) - n) : i + n \in 1..Len(s)
    BY <1>1
  <2> QED BY <1>1, <1>3, <1>4, <2>1 DEF Ids
<1>10. Ids(s) \subseteq Ids(a) \cup Ids(b)
  <2> SUFFICES ASSUME NEW i \in 1..Len(s) PROVE s[i].id \in Ids(a) \cup Ids(b)
    BY <1>1 DEF Ids
  <2>1. CASE i <= n
    BY <1>2, <1>4, <2>1 DEF Ids
  <2>2. CASE i > n
    <3>1. i - n \in 1..(Len(s) - n) /\ (i - n) + n = i
      BY <1>1, <2>2
    <3>2. b[i - n] = s[i]
      BY <1>3, <3>1
    <3> QED BY <1>4, <3>1, <3>2 DEF Ids
  <2> QED BY <2>1, <2>2
<1>11. Ids(a) \cap Ids(b) = {}
  <2> SUFFICES ASSUME NEW i \in 1..n, NEW j \in 1..(Len(s) - n), a[i].id = b[j].id
               PROVE  FALSE
    BY <1>4 DEF Ids
  <2>1. i \in 1..Len(s) /\ j + n \in 1..Len(s) /\ i # j + n
    BY <1>1
  <2> QED BY <1>2, <1>3, <1>5, <2>1
<1> QED BY <1>2, <1>3, <1>6, <1>7, <1>8, <1>9, <1>10, <1>11 DEF MailList, a, b

\* A list the other way round.
LEMMA ReverseList ==
  ASSUME NEW s, MailList(s)
  PROVE  /\ MailList(Reverse(s))
         /\ Ids(Reverse(s)) = Ids(s)
         /\ Len(Reverse(s)) = Len(s)
<1> DEFINE r == Reverse(s)
<1>1. s \in Seq(Message) /\ Len(s) \in Nat /\ DOMAIN s = 1..Len(s)
  BY DEF MailList
<1>2. /\ r \in Seq(Message) /\ Len(r) = Len(s)
      /\ \A j \in 1..Len(s) : r[j] = s[Len(s) - j + 1]
  BY <1>1, ReverseFacts
<1> HIDE DEF r
<1>3. DOMAIN r = 1..Len(s)
  BY <1>1, <1>2
<1>4. \A j \in 1..Len(s) : Len(s) - j + 1 \in 1..Len(s) /\ Len(s) - (Len(s) - j + 1) + 1 = j
  BY <1>1
<1>5. Ids(r) = Ids(s)
  <2>1. Ids(r) \subseteq Ids(s)
    BY <1>1, <1>2, <1>3, <1>4 DEF Ids
  <2>2. \A j \in 1..Len(s) : r[Len(s) - j + 1] = s[j]
    BY <1>2, <1>4
  <2>3. Ids(s) \subseteq Ids(r)
    BY <1>1, <1>3, <1>4, <2>2 DEF Ids
  <2> QED BY <2>1, <2>3
<1>6. Distinct(r)
  <2> SUFFICES ASSUME NEW i \in 1..Len(s), NEW j \in 1..Len(s), r[i].id = r[j].id
               PROVE  i = j
    BY <1>3 DEF Distinct
  <2>1. \A k, l \in 1..Len(s) : s[k].id = s[l].id => k = l
    BY ListById
  <2>2. /\ Len(s) - i + 1 \in 1..Len(s) /\ Len(s) - j + 1 \in 1..Len(s)
        /\ s[Len(s) - i + 1].id = s[Len(s) - j + 1].id
    BY <1>2, <1>4
  <2>3. Len(s) - i + 1 = Len(s) - j + 1
    BY <2>1, <2>2
  <2> QED BY <1>1, <2>3
<1> QED BY <1>2, <1>5, <1>6 DEF MailList, r

\* KeepIn keeps a list a list, in its order.
LEMMA KeepInList ==
  ASSUME NEW s, MailList(s), NEW S
  PROVE  /\ MailList(KeepIn(s, S))
         /\ Ids(KeepIn(s, S)) = {m.id : m \in Elements(s) \cap S}
         /\ Elements(KeepIn(s, S)) \subseteq Elements(s) \cap S
         /\ Sorted(s) => Sorted(KeepIn(s, S))
         /\ Len(KeepIn(s, S)) <= Len(s)
<1> DEFINE k == KeepIn(s, S)
           T == Elements(s) \ S
<1>1. s \in Seq(Message) /\ Len(s) \in Nat /\ DOMAIN s = 1..Len(s)
  BY DEF MailList
<1>2. k \in Seq(Message) /\ \E h : Picks(h, k, s, S)
  BY <1>1, KeepInPicks
<1>3. Len(k) + Len(KeepIn(s, T)) = Len(s)
  BY <1>1, KeepInSplits
<1>4. KeepIn(s, T) \in Seq(Message)
  BY <1>1, KeepInPicks
<1> HIDE DEF k, T
<1>5. PICK h : Picks(h, k, s, S)
  BY <1>2
<1>6. DOMAIN k = 1..Len(k) /\ Len(k) \in Nat
  BY <1>2
<1>7. /\ \A i \in 1..Len(k) : h[i] \in 1..Len(s) /\ k[i] = s[h[i]] /\ s[h[i]] \in S
      /\ \A i, j \in 1..Len(k) : i < j => h[i] < h[j]
      /\ \A j \in 1..Len(s) : s[j] \in S => \E i \in 1..Len(k) : h[i] = j
  BY <1>5 DEF Picks
<1>8. Elements(k) \subseteq Elements(s) \cap S
  BY <1>1, <1>6, <1>7 DEF Elements
<1>9. Ids(k) = {m.id : m \in Elements(s) \cap S}
  <2>1. Ids(k) \subseteq {m.id : m \in Elements(s) \cap S}
    <3>1. Ids(k) = {m.id : m \in Elements(k)}
      BY DEF Elements, Ids
    <3> QED BY <1>8, <3>1
  <2>2. ASSUME NEW j \in 1..Len(s), s[j] \in S PROVE s[j].id \in Ids(k)
    <3>1. PICK i \in 1..Len(k) : h[i] = j
      BY <1>7, <2>2
    <3>2. k[i] = s[j] /\ i \in DOMAIN k
      BY <1>6, <1>7, <3>1
    <3> QED BY <3>2 DEF Ids
  <2>3. {m.id : m \in Elements(s) \cap S} \subseteq Ids(k)
    BY <1>1, <2>2 DEF Elements
  <2> QED BY <2>1, <2>3
<1>10. Distinct(k)
  <2> SUFFICES ASSUME NEW i \in 1..Len(k), NEW j \in 1..Len(k), k[i].id = k[j].id
               PROVE  i = j
    BY <1>6 DEF Distinct
  <2>1. h[i] = h[j]
    <3>1. \A x, y \in 1..Len(s) : s[x].id = s[y].id => x = y
      BY ListById
    <3>2. h[i] \in 1..Len(s) /\ h[j] \in 1..Len(s) /\ k[i] = s[h[i]] /\ k[j] = s[h[j]]
      BY <1>7
    <3>3. s[h[i]].id = s[h[j]].id
      BY <3>2
    <3> QED BY <3>1, <3>2, <3>3
  <2>2. ~(h[i] < h[j]) /\ ~(h[j] < h[i])
    BY <1>7, <2>1
  <2> QED BY <1>6, <1>7, <2>2
<1>11. Sorted(s) => Sorted(k)
  BY <1>1, <1>6, <1>7 DEF Sorted
<1>12. Len(k) <= Len(s)
  <2>1. Len(KeepIn(s, T)) \in Nat
    BY <1>4
  <2> QED BY <1>1, <1>3, <1>6, <2>1
<1> QED BY <1>2, <1>8, <1>9, <1>10, <1>11, <1>12 DEF MailList, k

\* What is left of a list when the elements of S go.
LEMMA KeepOthers ==
  ASSUME NEW s, MailList(s), NEW S, S \subseteq Elements(s)
  PROVE  /\ MailList(KeepIn(s, Elements(s) \ S))
         /\ Ids(KeepIn(s, Elements(s) \ S)) = Ids(s) \ {m.id : m \in S}
         /\ Sorted(s) => Sorted(KeepIn(s, Elements(s) \ S))
         /\ Len(KeepIn(s, Elements(s) \ S)) <= Len(s)
<1> DEFINE T == Elements(s) \ S
<1>1. /\ MailList(KeepIn(s, T))
      /\ Ids(KeepIn(s, T)) = {m.id : m \in Elements(s) \cap T}
      /\ Sorted(s) => Sorted(KeepIn(s, T))
      /\ Len(KeepIn(s, T)) <= Len(s)
  <2> HIDE DEF T
  <2> QED BY KeepInList
<1>2. Ids(s) = {m.id : m \in Elements(s)}
  BY DEF Ids, Elements
<1>3. \A m, n \in Elements(s) : m.id = n.id => m = n
  BY ListById
<1>4. {m.id : m \in Elements(s) \cap T} = Ids(s) \ {m.id : m \in S}
  BY <1>2, <1>3
<1> QED BY <1>1, <1>4

\* The messages of a list of leases.
LEMMA LeaseById ==
  ASSUME NEW ls, LeaseList(ls)
  PROVE  /\ MailList(Msgs(ls))
         /\ Len(Msgs(ls)) = Len(ls)
         /\ Ids(Msgs(ls)) = {l.msg.id : l \in Elements(ls)}
         /\ Elements(ls) \subseteq Lease
         /\ \A i, j \in 1..Len(ls) : ls[i].msg.id = ls[j].msg.id => i = j
         /\ \A k, l \in Elements(ls) : k.msg.id = l.msg.id => k = l
<1>1. /\ ls \in Seq(Lease) /\ DOMAIN ls = 1..Len(ls) /\ Len(ls) \in Nat
      /\ \A i \in 1..Len(ls) : ls[i] \in Lease /\ ls[i].msg \in Message
  <2>1. /\ ls \in Seq(Lease) /\ DOMAIN ls = 1..Len(ls) /\ Len(ls) \in Nat
        /\ \A i \in 1..Len(ls) : ls[i] \in Lease
    BY DEF LeaseList
  <2>2. \A l \in Lease : l.msg \in Message
    BY DEF Lease
  <2> QED BY <2>1, <2>2
<1>2. /\ Msgs(ls) \in Seq(Message) /\ Len(Msgs(ls)) = Len(ls)
      /\ DOMAIN Msgs(ls) = 1..Len(ls)
      /\ \A i \in 1..Len(ls) : Msgs(ls)[i] = ls[i].msg
  <2>1. Msgs(ls) = [i \in 1..Len(ls) |-> ls[i].msg]
    BY <1>1 DEF Msgs
  <2> QED BY <1>1, <2>1
<1>3. \A i, j \in 1..Len(ls) : ls[i].msg.id = ls[j].msg.id => i = j
  BY <1>2 DEF LeaseList, Distinct
<1>4. Ids(Msgs(ls)) = {l.msg.id : l \in Elements(ls)}
  BY <1>1, <1>2 DEF Ids, Elements
<1>5. /\ Elements(ls) \subseteq Lease
      /\ \A k, l \in Elements(ls) : k.msg.id = l.msg.id => k = l
  BY <1>1, <1>3 DEF Elements
<1> QED BY <1>2, <1>3, <1>4, <1>5 DEF LeaseList, MailList

\* The leases that are kept, and their messages.
LEMMA KeepInLeases ==
  ASSUME NEW ls, LeaseList(ls), NEW S
  PROVE  /\ LeaseList(KeepIn(ls, S))
         /\ MailList(Msgs(KeepIn(ls, S)))
         /\ Ids(Msgs(KeepIn(ls, S))) = {l.msg.id : l \in Elements(ls) \cap S}
<1> DEFINE k == KeepIn(ls, S)
<1>1. ls \in Seq(Lease) /\ Len(ls) \in Nat /\ DOMAIN ls = 1..Len(ls)
  BY DEF LeaseList
<1>2. k \in Seq(Lease) /\ \E h : Picks(h, k, ls, S)
  BY <1>1, KeepInPicks
<1> HIDE DEF k
<1>3. PICK h : Picks(h, k, ls, S)
  BY <1>2
<1>4. DOMAIN k = 1..Len(k) /\ Len(k) \in Nat
  BY <1>2
<1>5. /\ \A i \in 1..Len(k) : h[i] \in 1..Len(ls) /\ k[i] = ls[h[i]] /\ ls[h[i]] \in S
      /\ \A i, j \in 1..Len(k) : i < j => h[i] < h[j]
      /\ \A j \in 1..Len(ls) : ls[j] \in S => \E i \in 1..Len(k) : h[i] = j
  BY <1>3 DEF Picks
<1>6. DOMAIN Msgs(k) = 1..Len(k) /\ \A i \in 1..Len(k) : Msgs(k)[i] = k[i].msg
  BY <1>4 DEF Msgs
<1>7. Distinct(Msgs(k))
  <2> SUFFICES ASSUME NEW i \in 1..Len(k), NEW j \in 1..Len(k), k[i].msg.id = k[j].msg.id
               PROVE  i = j
    BY <1>6 DEF Distinct
  <2>1. h[i] = h[j]
    <3>1. \A m, n \in 1..Len(ls) : ls[m].msg.id = ls[n].msg.id => m = n
      BY LeaseById
    <3>2. /\ h[i] \in 1..Len(ls) /\ h[j] \in 1..Len(ls)
          /\ ls[h[i]].msg.id = ls[h[j]].msg.id
      BY <1>5
    <3> QED BY <3>1, <3>2
  <2>2. ~(h[i] < h[j]) /\ ~(h[j] < h[i])
    BY <1>5, <2>1
  <2> QED BY <1>4, <1>5, <2>2
<1>8. LeaseList(k)
  BY <1>2, <1>7 DEF LeaseList
<1>9. Ids(Msgs(k)) = {l.msg.id : l \in Elements(ls) \cap S}
  <2>1. Ids(Msgs(k)) = {l.msg.id : l \in Elements(k)}
    BY <1>8, LeaseById
  <2>2. Elements(k) \subseteq Elements(ls) \cap S
    BY <1>1, <1>4, <1>5 DEF Elements
  <2>3. Elements(ls) \cap S \subseteq Elements(k)
    <3>1. \A j \in 1..Len(ls) : ls[j] \in S => \E i \in 1..Len(k) : k[i] = ls[j]
      BY <1>5
    <3> QED BY <1>1, <1>4, <3>1 DEF Elements
  <2>4. Elements(k) = Elements(ls) \cap S
    BY <2>2, <2>3
  <2> QED BY <2>1, <2>4
<1>10. MailList(Msgs(k))
  BY <1>8, LeaseById
<1> QED BY <1>8, <1>9, <1>10 DEF k

\* What a message leaves behind when it is taken out of a list.
LEMMA RemoveFromList ==
  ASSUME NEW s, MailList(s), NEW i \in 1..Len(s)
  PROVE  /\ MailList(RemoveAt(s, i))
         /\ Ids(RemoveAt(s, i)) = Ids(s) \ {s[i].id}
         /\ Len(RemoveAt(s, i)) = Len(s) - 1
         /\ Sorted(s) => Sorted(RemoveAt(s, i))
<1> DEFINE r == RemoveAt(s, i)
           at(j) == IF j < i THEN j ELSE j + 1
<1>1. s \in Seq(Message) /\ Len(s) \in Nat /\ DOMAIN s = 1..Len(s)
  BY DEF MailList
<1>2. /\ r \in Seq(Message) /\ Len(r) = Len(s) - 1
      /\ \A j \in 1..(Len(s) - 1) : r[j] = IF j < i THEN s[j] ELSE s[j + 1]
  BY <1>1, RemoveAtFacts
<1> HIDE DEF r
<1>3. DOMAIN r = 1..(Len(s) - 1)
  BY <1>1, <1>2
<1>4. /\ \A j \in 1..(Len(s) - 1) : at(j) \in 1..Len(s) /\ at(j) # i /\ r[j] = s[at(j)]
      /\ \A j, k \in 1..(Len(s) - 1) : j < k => at(j) < at(k)
      /\ \A k \in 1..Len(s) : k # i => \E j \in 1..(Len(s) - 1) : at(j) = k
  <2>1. \A j \in 1..(Len(s) - 1) : at(j) \in 1..Len(s) /\ at(j) # i /\ r[j] = s[at(j)]
    <3> TAKE j \in 1..(Len(s) - 1)
    <3>1. r[j] = IF j < i THEN s[j] ELSE s[j + 1]
      BY <1>2
    <3>2. at(j) \in 1..Len(s) /\ at(j) # i
      BY <1>1
    <3> QED BY <3>1, <3>2
  <2>2. \A j, k \in 1..(Len(s) - 1) : j < k => at(j) < at(k)
    BY <1>1
  <2>3. ASSUME NEW k \in 1..Len(s), k # i
        PROVE  \E j \in 1..(Len(s) - 1) : at(j) = k
    <3>1. CASE k < i
      <4>1. k \in 1..(Len(s) - 1) /\ at(k) = k
        BY <1>1, <3>1
      <4> QED BY <4>1
    <3>2. CASE k > i
      <4>1. k - 1 \in 1..(Len(s) - 1) /\ at(k - 1) = k
        BY <1>1, <3>2
      <4> QED BY <4>1
    <3> QED BY <2>3, <3>1, <3>2
  <2> QED BY <2>1, <2>2, <2>3
<1> HIDE DEF at
<1>5. \A j, k \in 1..Len(s) : s[j].id = s[k].id => j = k
  BY ListById
<1>6. Ids(r) = Ids(s) \ {s[i].id}
  <2>1. Ids(r) \subseteq Ids(s) \ {s[i].id}
    <3> SUFFICES ASSUME NEW j \in 1..(Len(s) - 1) PROVE r[j].id \in Ids(s) \ {s[i].id}
      BY <1>3 DEF Ids
    <3>1. at(j) \in 1..Len(s) /\ at(j) # i /\ r[j] = s[at(j)]
      BY <1>4
    <3>2. s[at(j)].id # s[i].id
      BY <1>5, <3>1
    <3> QED BY <1>1, <3>1, <3>2 DEF Ids
  <2>2. \A k \in 1..Len(s) : k # i => s[k].id \in Ids(r)
    <3> SUFFICES ASSUME NEW k \in 1..Len(s), k # i PROVE s[k].id \in Ids(r)
      OBVIOUS
    <3>1. PICK j \in 1..(Len(s) - 1) : at(j) = k
      BY <1>4
    <3>2. r[j] = s[k]
      BY <1>4, <3>1
    <3> QED BY <1>3, <3>2 DEF Ids
  <2>3. Ids(s) \ {s[i].id} \subseteq Ids(r)
    BY <1>1, <2>2 DEF Ids
  <2> QED BY <2>1, <2>3
<1>7. Distinct(r)
  <2> SUFFICES ASSUME NEW j \in 1..(Len(s) - 1), NEW k \in 1..(Len(s) - 1), r[j].id = r[k].id
               PROVE  j = k
    BY <1>3 DEF Distinct
  <2>1. at(j) = at(k) /\ at(j) \in 1..Len(s)
    BY <1>4, <1>5
  <2>2. ~(at(j) < at(k)) /\ ~(at(k) < at(j))
    BY <2>1
  <2> QED BY <1>1, <1>4, <2>2
<1>8. Sorted(s) => Sorted(r)
  <2> SUFFICES ASSUME Sorted(s),
                      NEW j \in 1..(Len(s) - 1), NEW k \in 1..(Len(s) - 1), j < k
               PROVE  r[j].prio >= r[k].prio
    BY <1>3 DEF Sorted
  <2>1. at(j) < at(k) /\ at(j) \in 1..Len(s) /\ at(k) \in 1..Len(s)
    BY <1>4
  <2>2. s[at(j)].prio >= s[at(k)].prio
    BY <1>1, <2>1 DEF Sorted
  <2> QED BY <1>4, <2>2
<1> QED BY <1>2, <1>6, <1>7, <1>8 DEF MailList, r

\* A message that goes behind everything at least as urgent.
LEMMA InsertOneList ==
  ASSUME NEW q, MailList(q), Sorted(q), NEW m \in Message, m.id \notin Ids(q)
  PROVE  /\ MailList(InsertOne(q, m))
         /\ Ids(InsertOne(q, m)) = Ids(q) \cup {m.id}
         /\ Len(InsertOne(q, m)) = Len(q) + 1
         /\ Sorted(InsertOne(q, m))
<1> DEFINE ahead == {i \in DOMAIN q : q[i].prio >= m.prio}
           at    == IF ahead = {} THEN 0
                    ELSE CHOOSE i \in ahead : \A j \in ahead : j <= i
           r     == InsertAt(q, at + 1, m)
<1>1. q \in Seq(Message) /\ Len(q) \in Nat /\ DOMAIN q = 1..Len(q)
  BY DEF MailList
<1>2. \A x \in Message : x.prio \in 0..2
  BY DEF Message
<1>3. \A i \in 1..Len(q) : q[i].prio \in 0..2
  BY <1>1, <1>2
<1>4. /\ at \in 0..Len(q)
      /\ \A i \in 1..Len(q) : i <= at => q[i].prio >= m.prio
      /\ \A i \in 1..Len(q) : i > at => q[i].prio < m.prio
  <2>1. CASE ahead = {}
    BY <1>1, <1>2, <1>3, <2>1
  <2>2. CASE ahead # {}
    <3>1. \E i \in ahead : \A j \in ahead : j <= i
      <4>1. ahead \subseteq 0..Len(q)
        BY <1>1
      <4> HIDE DEF ahead
      <4> QED BY <1>1, <2>2, <4>1, GreatestNumber
    <3>2. at \in ahead /\ \A j \in ahead : j <= at
      <4> HIDE DEF ahead
      <4> QED BY <2>2, <3>1
    <3> HIDE DEF at
    <3>3. at \in 1..Len(q) /\ q[at].prio >= m.prio
      BY <1>1, <3>2
    <3>4. \A i \in 1..Len(q) : i < at => q[i].prio >= q[at].prio
      BY <1>1, <3>3 DEF Sorted
    <3>5. \A i \in 1..Len(q) : q[i].prio >= m.prio => i <= at
      BY <1>1, <3>2
    <3> QED BY <1>1, <1>2, <1>3, <3>3, <3>4, <3>5
  <2> QED BY <2>1, <2>2
<1>5. InsertOne(q, m) = r
  BY DEF InsertOne
<1> HIDE DEF at, ahead
<1>6. /\ r \in Seq(Message) /\ Len(r) = Len(q) + 1
      /\ \A j \in 1..(Len(q) + 1) :
           r[j] = IF j < at + 1 THEN q[j] ELSE IF j = at + 1 THEN m ELSE q[j - 1]
  <2>1. at + 1 \in 1..(Len(q) + 1)
    BY <1>1, <1>4
  <2> DEFINE p == at + 1
  <2> HIDE DEF p
  <2>2. /\ InsertAt(q, p, m) \in Seq(Message) /\ Len(InsertAt(q, p, m)) = Len(q) + 1
        /\ \A j \in 1..(Len(q) + 1) :
             InsertAt(q, p, m)[j] = IF j < p THEN q[j] ELSE IF j = p THEN m ELSE q[j - 1]
    <3>1. p \in 1..(Len(q) + 1)
      BY <2>1 DEF p
    <3> QED BY <1>1, <3>1, InsertAtFacts
  <2> QED BY <2>2 DEF p
<1> HIDE DEF r
<1>7. DOMAIN r = 1..(Len(q) + 1)
  BY <1>1, <1>6
<1>8. \A j \in 1..(Len(q) + 1) : \/ j <= at /\ j \in 1..Len(q) /\ r[j] = q[j]
                                 \/ j = at + 1 /\ r[j] = m
                                 \/ j > at + 1 /\ j - 1 \in 1..Len(q) /\ r[j] = q[j - 1]
  BY <1>1, <1>4, <1>6
<1>9. \A i, j \in 1..Len(q) : q[i].id = q[j].id => i = j
  BY ListById
<1>10. \A i \in 1..Len(q) : q[i].id # m.id
  BY ListById
<1>11. Ids(r) = Ids(q) \cup {m.id}
  <2>1. Ids(r) \subseteq Ids(q) \cup {m.id}
    BY <1>1, <1>7, <1>8 DEF Ids
  <2>2. ASSUME NEW i \in 1..Len(q) PROVE q[i].id \in Ids(r)
    <3>1. CASE i <= at
      <4>1. i \in 1..(Len(q) + 1) /\ r[i] = q[i]
        BY <1>1, <1>4, <1>6, <3>1
      <4> QED BY <1>7, <4>1 DEF Ids
    <3>2. CASE i > at
      <4>1. i + 1 \in 1..(Len(q) + 1) /\ r[i + 1] = q[i]
        BY <1>1, <1>4, <1>6, <3>2
      <4> QED BY <1>7, <4>1 DEF Ids
    <3> QED BY <1>4, <3>1, <3>2
  <2>3. m.id \in Ids(r)
    <3>1. at + 1 \in 1..(Len(q) + 1) /\ r[at + 1] = m
      BY <1>1, <1>4, <1>6
    <3> QED BY <1>7, <3>1 DEF Ids
  <2>4. Ids(q) \subseteq Ids(r)
    BY <1>1, <2>2 DEF Ids
  <2> QED BY <2>1, <2>3, <2>4
<1>12. Distinct(r)
  <2> SUFFICES ASSUME NEW i \in 1..(Len(q) + 1), NEW j \in 1..(Len(q) + 1), r[i].id = r[j].id
               PROVE  i = j
    BY <1>7 DEF Distinct
  <2>1. \/ i <= at /\ i \in 1..Len(q) /\ r[i] = q[i]
        \/ i = at + 1 /\ r[i] = m
        \/ i > at + 1 /\ i - 1 \in 1..Len(q) /\ r[i] = q[i - 1]
    BY <1>8
  <2>2. \/ j <= at /\ j \in 1..Len(q) /\ r[j] = q[j]
        \/ j = at + 1 /\ r[j] = m
        \/ j > at + 1 /\ j - 1 \in 1..Len(q) /\ r[j] = q[j - 1]
    BY <1>8
  <2>3. CASE i = at + 1 /\ r[i] = m
    BY <1>4, <1>10, <2>2, <2>3
  <2>4. CASE j = at + 1 /\ r[j] = m
    BY <1>4, <1>10, <2>1, <2>4
  <2>5. CASE i <= at /\ i \in 1..Len(q) /\ r[i] = q[i]
    <3>1. j - 1 \in 1..Len(q) /\ j > at + 1 => i # j - 1
      BY <1>4, <2>5
    <3> QED BY <1>9, <2>2, <2>4, <2>5, <3>1
  <2>6. CASE i > at + 1 /\ i - 1 \in 1..Len(q) /\ r[i] = q[i - 1]
    <3>1. j \in 1..Len(q) /\ j <= at => j # i - 1
      BY <1>4, <2>6
    <3>2. j - 1 = i - 1 => i = j
      OBVIOUS
    <3> QED BY <1>9, <2>2, <2>4, <2>6, <3>1, <3>2
  <2> QED BY <2>1, <2>3, <2>5, <2>6
<1>13. Sorted(r)
  <2> SUFFICES ASSUME NEW i \in 1..(Len(q) + 1), NEW j \in 1..(Len(q) + 1), i < j
               PROVE  r[i].prio >= r[j].prio
    BY <1>7 DEF Sorted
  <2>1. \/ i <= at /\ i \in 1..Len(q) /\ r[i] = q[i]
        \/ i = at + 1 /\ r[i] = m
        \/ i > at + 1 /\ i - 1 \in 1..Len(q) /\ r[i] = q[i - 1]
    BY <1>8
  <2>2. \/ j <= at /\ j \in 1..Len(q) /\ r[j] = q[j]
        \/ j = at + 1 /\ r[j] = m
        \/ j > at + 1 /\ j - 1 \in 1..Len(q) /\ r[j] = q[j - 1]
    BY <1>8
  <2>3. \A k, l \in 1..Len(q) : k < l => q[k].prio >= q[l].prio
    BY <1>1 DEF Sorted
  <2>4. m.prio \in 0..2
    BY <1>2
  <2>5. CASE i <= at /\ i \in 1..Len(q) /\ r[i] = q[i]
    <3>1. q[i].prio >= m.prio
      BY <1>4, <2>5
    <3>2. j - 1 \in 1..Len(q) /\ j > at + 1 => i < j - 1
      BY <1>4, <2>5
    <3> QED BY <2>2, <2>3, <2>5, <3>1, <3>2
  <2>6. CASE i = at + 1 /\ r[i] = m
    <3>1. j > at + 1
      BY <2>6
    <3>2. j - 1 \in 1..Len(q) /\ j - 1 > at /\ r[j] = q[j - 1]
      BY <1>4, <2>2, <3>1
    <3>3. q[j - 1].prio < m.prio /\ q[j - 1].prio \in 0..2
      BY <1>3, <1>4, <3>2
    <3> QED BY <2>4, <2>6, <3>2, <3>3
  <2>7. CASE i > at + 1 /\ i - 1 \in 1..Len(q) /\ r[i] = q[i - 1]
    <3>1. j > at + 1 /\ i - 1 < j - 1
      BY <1>4, <2>7
    <3>2. j - 1 \in 1..Len(q) /\ r[j] = q[j - 1]
      BY <1>4, <2>2, <3>1
    <3> QED BY <2>3, <2>7, <3>1, <3>2
  <2> QED BY <2>1, <2>5, <2>6, <2>7
<1> QED BY <1>5, <1>6, <1>11, <1>12, <1>13 DEF MailList

-----------------------------------------------------------------------------
(* InsertByPriority, by the prefixes of the list that it has put in.       *)

InsertStep(after, queue, messages, i) ==
  IF i = 0 THEN queue ELSE InsertOne(after[i - 1], messages[i])

InsertedUpTo(queue, messages) ==
  CHOOSE after : after = [i \in 0..Len(messages) |-> InsertStep(after, queue, messages, i)]

\* insertByPriority puts in one message of the list after the other.
LEMMA InsertedUpToDefined ==
  ASSUME NEW queue, NEW messages, Len(messages) \in Nat
  PROVE  LET A == InsertedUpTo(queue, messages) IN
         /\ InsertByPriority(queue, messages) = A[Len(messages)]
         /\ \A n \in 0..Len(messages) : A[n] = InsertStep(A, queue, messages, n)
<1> DEFINE N == Len(messages)
           G == {n \in 0..N : \E g : g = [i \in 0..n |-> InsertStep(g, queue, messages, i)]}
<1>1. 0 \in G
  <2>1. [i \in 0..0 |-> queue] = [i \in 0..0 |-> InsertStep([j \in 0..0 |-> queue], queue, messages, i)]
    BY DEF InsertStep
  <2> QED BY <2>1
<1>2. ASSUME NEW n \in 0..N, n \in G, n < N
      PROVE  n + 1 \in G
  <2>1. PICK g : g = [i \in 0..n |-> InsertStep(g, queue, messages, i)]
    BY <1>2
  <2> DEFINE h == [i \in 0..(n + 1) |->
                     IF i <= n THEN g[i] ELSE InsertStep(g, queue, messages, n + 1)]
  <2>2. ASSUME NEW i \in 0..(n + 1)
        PROVE  h[i] = InsertStep(h, queue, messages, i)
    <3>1. CASE i = 0
      BY <2>1, <3>1 DEF InsertStep
    <3>2. CASE i # 0
      <4>1. h[i - 1] = g[i - 1] /\ h[i] = InsertStep(g, queue, messages, i)
        BY <2>1, <3>2
      <4> HIDE DEF h
      <4> QED BY <3>2, <4>1 DEF InsertStep
    <3> QED BY <3>1, <3>2
  <2>3. h = [i \in 0..(n + 1) |-> InsertStep(h, queue, messages, i)]
    BY <2>2
  <2> HIDE DEF h
  <2> QED BY <1>2, <2>3
<1>3. 0..N \subseteq G
  <2> HIDE DEF G
  <2> QED BY <1>1, <1>2, InductionUpTo
<1>4. \E g : g = [i \in 0..N |-> InsertStep(g, queue, messages, i)]
  BY <1>3
<1>5. InsertedUpTo(queue, messages)
        = [i \in 0..N |-> InsertStep(InsertedUpTo(queue, messages), queue, messages, i)]
  BY <1>4, Zenon DEF InsertedUpTo
<1>6. InsertByPriority(queue, messages) = InsertedUpTo(queue, messages)[N]
  BY DEF InsertByPriority, InsertedUpTo, InsertStep
<1> QED BY <1>5, <1>6, Zenon

\* What comes back is put into the queue, which stays in order.
LEMMA InsertByPriorityList ==
  ASSUME NEW q, MailList(q), Sorted(q),
         NEW ms, MailList(ms), Ids(q) \cap Ids(ms) = {}
  PROVE  /\ MailList(InsertByPriority(q, ms))
         /\ Ids(InsertByPriority(q, ms)) = Ids(q) \cup Ids(ms)
         /\ Len(InsertByPriority(q, ms)) = Len(q) + Len(ms)
         /\ Sorted(InsertByPriority(q, ms))
<1> DEFINE A == InsertedUpTo(q, ms)
           First(n) == {ms[i].id : i \in 1..n}
           Good(x, n) == /\ MailList(x) /\ Sorted(x)
                         /\ Ids(x) = Ids(q) \cup First(n)
                         /\ Len(x) = Len(q) + n
           J == {n \in 0..Len(ms) : Good(A[n], n)}
<1>1. /\ ms \in Seq(Message) /\ Len(ms) \in Nat /\ DOMAIN ms = 1..Len(ms)
      /\ Len(q) \in Nat
  BY DEF MailList
<1>2. /\ InsertByPriority(q, ms) = A[Len(ms)]
      /\ \A n \in 0..Len(ms) : A[n] = InsertStep(A, q, ms, n)
  BY <1>1, InsertedUpToDefined
<1> HIDE DEF A
<1>3. 0 \in J
  <2>1. A[0] = q
    BY <1>1, <1>2 DEF InsertStep
  <2>2. First(0) = {} /\ Len(q) + 0 = Len(q)
    BY <1>1
  <2> QED BY <1>1, <2>1, <2>2
<1>4. ASSUME NEW n \in 0..Len(ms), n \in J, n < Len(ms)
      PROVE  n + 1 \in J
  <2>1. A[n + 1] = InsertOne(A[n], ms[n + 1])
    BY <1>1, <1>2, <1>4 DEF InsertStep
  <2>2. n + 1 \in 1..Len(ms) /\ ms[n + 1] \in Message /\ ms[n + 1].id \in Ids(ms)
    BY <1>1, <1>4 DEF Ids
  <2>3. ms[n + 1].id \notin First(n)
    <3>1. \A i, j \in 1..Len(ms) : ms[i].id = ms[j].id => i = j
      BY ListById
    <3> QED BY <1>1, <1>4, <2>2, <3>1
  <2>4. First(n + 1) = First(n) \cup {ms[n + 1].id}
    <3>1. 1..(n + 1) = (1..n) \cup {n + 1}
      BY <1>4
    <3> QED BY <3>1
  <2>5. Good(A[n], n)
    BY <1>4
  <2>6. ms[n + 1].id \notin Ids(A[n])
    BY <2>2, <2>3, <2>5
  <2>7. /\ MailList(A[n + 1]) /\ Sorted(A[n + 1])
        /\ Ids(A[n + 1]) = Ids(A[n]) \cup {ms[n + 1].id}
        /\ Len(A[n + 1]) = Len(A[n]) + 1
    BY <2>1, <2>2, <2>5, <2>6, InsertOneList
  <2>8. (Len(q) + n) + 1 = Len(q) + (n + 1)
    BY <1>1, <1>4
  <2> HIDE DEF First
  <2> QED BY <1>4, <2>2, <2>4, <2>5, <2>7, <2>8
<1>5. 0..Len(ms) \subseteq J
  <2> HIDE DEF J
  <2> QED BY <1>1, <1>3, <1>4, InductionUpTo
<1>6. Good(A[Len(ms)], Len(ms))
  BY <1>1, <1>5
<1>7. First(Len(ms)) = Ids(ms)
  BY <1>1 DEF Ids
<1> HIDE DEF First
<1> QED BY <1>2, <1>6, <1>7

-----------------------------------------------------------------------------
(* The leases that a hand-out makes.                                       *)

\* The leases of a hand-out are behind the ones that were there.
LEMMA NewLeases ==
  ASSUME NEW ls, LeaseList(ls), NEW ms, MailList(ms), Ids(Msgs(ls)) \cap Ids(ms) = {}
  PROVE  LET c == ls \o [i \in DOMAIN ms |-> [msg |-> ms[i], lapsed |-> FALSE]] IN
         /\ LeaseList(c)
         /\ Ids(Msgs(c)) = Ids(Msgs(ls)) \cup Ids(ms)
<1> DEFINE ns == [i \in DOMAIN ms |-> [msg |-> ms[i], lapsed |-> FALSE]]
           c  == ls \o ns
<1>1. /\ ms \in Seq(Message) /\ Len(ms) \in Nat /\ DOMAIN ms = 1..Len(ms)
      /\ \A i \in 1..Len(ms) : ms[i] \in Message
  BY DEF MailList
<1>2. /\ ns \in Seq(Lease) /\ Len(ns) = Len(ms)
      /\ \A i \in 1..Len(ms) : ns[i].msg = ms[i]
  <2>1. ns = [i \in 1..Len(ms) |-> [msg |-> ms[i], lapsed |-> FALSE]]
    BY <1>1
  <2>2. \A i \in 1..Len(ms) : [msg |-> ms[i], lapsed |-> FALSE] \in Lease
    BY <1>1 DEF Lease
  <2> QED BY <1>1, <2>1, <2>2
<1> HIDE DEF ns
<1>3. ls \in Seq(Lease) /\ Len(ls) \in Nat /\ MailList(Msgs(ls)) /\ Len(Msgs(ls)) = Len(ls)
  BY LeaseById DEF LeaseList
<1>4. /\ c \in Seq(Lease) /\ Len(c) = Len(ls) + Len(ns)
      /\ \A i \in 1..(Len(ls) + Len(ns)) : c[i] = IF i <= Len(ls) THEN ls[i] ELSE ns[i - Len(ls)]
  <2>1. ls \in Seq(Lease) /\ ns \in Seq(Lease)
    BY <1>2, <1>3
  <2> QED BY <2>1, ConcatProperties
<1> HIDE DEF c
<1> DEFINE d == Msgs(ls) \o ms
<1>5. /\ MailList(d)
      /\ Ids(d) = Ids(Msgs(ls)) \cup Ids(ms)
      /\ Len(d) = Len(ls) + Len(ms)
      /\ \A i \in 1..(Len(ls) + Len(ms)) :
           d[i] = IF i <= Len(ls) THEN Msgs(ls)[i] ELSE ms[i - Len(ls)]
  <2>1. Msgs(ls) \in Seq(Message)
    BY <1>3 DEF MailList
  <2>2. /\ MailList(d) /\ Ids(d) = Ids(Msgs(ls)) \cup Ids(ms)
        /\ Len(d) = Len(Msgs(ls)) + Len(ms)
    BY <1>3, ConcatLists
  <2>3. \A i \in 1..(Len(Msgs(ls)) + Len(ms)) :
          d[i] = IF i <= Len(Msgs(ls)) THEN Msgs(ls)[i] ELSE ms[i - Len(Msgs(ls))]
    BY <1>1, <2>1, ConcatProperties
  <2> HIDE DEF d
  <2> QED BY <1>3, <2>2, <2>3
<1> HIDE DEF d
<1>6. Msgs(c) = d
  <2>1. Msgs(c) = [i \in 1..(Len(ls) + Len(ms)) |-> c[i].msg]
    BY <1>2, <1>4 DEF Msgs
  <2>2. \A i \in 1..Len(ls) : Msgs(ls)[i] = ls[i].msg
    BY <1>3 DEF Msgs
  <2>3. ASSUME NEW i \in 1..(Len(ls) + Len(ms))
        PROVE  c[i].msg = d[i]
    <3>1. CASE i <= Len(ls)
      <4>1. i \in 1..Len(ls) /\ c[i] = ls[i] /\ d[i] = Msgs(ls)[i]
        BY <1>2, <1>3, <1>4, <1>5, <3>1
      <4> QED BY <2>2, <4>1
    <3>2. CASE i > Len(ls)
      <4>1. i - Len(ls) \in 1..Len(ms)
        BY <1>1, <1>3, <3>2
      <4>2. c[i] = ns[i - Len(ls)] /\ d[i] = ms[i - Len(ls)]
        BY <1>2, <1>3, <1>4, <1>5, <3>2
      <4> QED BY <1>2, <4>1, <4>2
    <3> QED BY <1>3, <3>1, <3>2
  <2>4. d = [i \in 1..(Len(ls) + Len(ms)) |-> d[i]]
    BY <1>5 DEF MailList
  <2> QED BY <2>1, <2>3, <2>4
<1>7. LeaseList(c)
  BY <1>4, <1>5, <1>6 DEF LeaseList, MailList
<1> QED BY <1>5, <1>6, <1>7 DEF c, ns

-----------------------------------------------------------------------------
(* Sound mailboxes, and what a method may do to one.                       *)

BoxFields == {"present", "queue", "leases", "dead", "attempts", "waiters",
              "offered", "read", "dropped", "discarded"}

\* b is a record with the fields of a box and no others.
IsBox(b) == b = [f \in BoxFields |-> b[f]]

\* The lists and maps of a mailbox hold what they should.
Formed(b) ==
  /\ IsBox(b)
  /\ b.present \in BOOLEAN
  /\ MailList(b.queue) /\ Sorted(b.queue) /\ Len(b.queue) <= MaxQueue
  /\ LeaseList(b.leases)
  /\ MailList(b.dead) /\ Len(b.dead) <= MaxDead
  /\ b.attempts \in [DOMAIN b.attempts -> Nat \ {0}]
  /\ b.waiters \in Seq(Waiter)

\* Q, L, D and T are what the queue, the leases and the dead letters hold and
\* what a method has in its hands; R, U and X what was read, dropped, discarded.
Apart(Q, L, D, T, R, U, X) ==
  /\ Q \cap (L \cup D \cup T \cup R \cup U \cup X) = {}
  /\ L \cap (D \cup T \cup R \cup U \cup X) = {}
  /\ D \cap (T \cup R \cup U \cup X) = {}
  /\ T \cap (R \cup U \cup X) = {}
  /\ R \cap (U \cup X) = {}
  /\ U \cap X = {}

\* Composed messages have the numbers up to n, notices have higher ones, and a
\* notice is only ever about a message that was dropped.
Numbered(offered, dropped, n) ==
  /\ offered \subseteq Nat \ {0}
  /\ \A i \in offered : i <= n \/ i > NoticeGap
  /\ \A i \in offered : i > NoticeGap => i - NoticeGap \in dropped

\* Box b with the messages T in the hands of a method, n messages composed:
\* what was offered is accounted for, each message in one place.
Sound(b, T, n) ==
  /\ Formed(b)
  /\ Apart(Ids(b.queue), Ids(Msgs(b.leases)), Ids(b.dead), T,
           b.read, b.dropped, b.discarded)
  /\ b.offered = Ids(b.queue) \cup Ids(Msgs(b.leases)) \cup Ids(b.dead) \cup T
                   \cup b.read \cup b.dropped \cup b.discarded
  /\ Numbered(b.offered, b.dropped, n)
  /\ DOMAIN b.attempts \subseteq b.offered

\* From box b to box c nothing is unread, uncounted or discarded, and the
\* attempts of a message are forgotten only when it is settled.
Grows(b, c) ==
  /\ b.offered \subseteq c.offered
  /\ b.read \subseteq c.read
  /\ b.dropped \subseteq c.dropped
  /\ c.discarded = b.discarded
  /\ DOMAIN b.attempts \ DOMAIN c.attempts \subseteq c.read \cup c.dropped

\* From box b to box c the owner is given no messages but those of I.
GivesOnly(b, c, I) ==
  /\ \A i \in Nat \ I : Attempts(c, i) <= Attempts(b, i)
  /\ c.read \ b.read \subseteq I

\* What a method does to the mailbox while it makes room or cleans up: all it
\* adds, and all it gives to the owner, are notices of its own.
Quiet(b, c) ==
  /\ Grows(b, c)
  /\ \A i \in c.offered \ b.offered : i > NoticeGap
  /\ GivesOnly(b, c, c.offered \ b.offered)

\* Box c is box b after the messages I, which a method had in its hands, were
\* given to the owner.
Gave(b, c, T, I, n) ==
  /\ Sound(c, T \ I, n) /\ Grows(b, c) /\ GivesOnly(b, c, I)
  /\ c.queue = b.queue /\ c.dead = b.dead /\ c.dropped = b.dropped
  /\ c.offered = b.offered \cup I

\* Box c is box b after the messages I, which a method had in its hands, were
\* dropped and counted.
Dropped(b, c, T, I, n) ==
  /\ Sound(c, T \ I, n) /\ Quiet(b, c)
  /\ c.queue = b.queue /\ c.dead = b.dead /\ I \subseteq c.dropped

\* Box c is box b after the messages I, which a method had in its hands, were
\* put among the dead letters, whatever did not fit being dropped.
PutAway(b, c, T, I, n) ==
  Sound(c, T \ I, n) /\ Quiet(b, c) /\ c.queue = b.queue

\* Box c is box b after the messages I, which a method had in its hands, were
\* put back into the queue, whatever did not fit being put away.
PutBack(b, c, T, I, n) ==
  Sound(c, T \ I, n) /\ Quiet(b, c) /\ Ids(c.queue) \subseteq Ids(b.queue) \cup I

\* Box c is box b after its lapsed leases came back.
Reaped(b, c, n) ==
  /\ Sound(c, {}, n) /\ Quiet(b, c)
  /\ \A i \in Ids(Msgs(b.leases)) : Exhausted(b, i) => i \notin Ids(c.queue)

\* Box c is box b without what was due in its queue.
Swept(b, c, past, n) ==
  /\ Sound(c, {}, n) /\ Quiet(b, c)
  /\ Ids(c.queue) \cap past = {}
  /\ Ids(c.queue) \subseteq Ids(b.queue) \cup (c.offered \ b.offered)

-----------------------------------------------------------------------------
(* Hand-outs.                                                              *)

\* A count of hand-outs stays a count, and goes up for what is handed out only.
LEMMA CountHandOutFacts ==
  ASSUME NEW f, f \in [DOMAIN f -> Nat \ {0}], NEW I
  PROVE  /\ CountHandOut(f, I) \in [DOMAIN CountHandOut(f, I) -> Nat \ {0}]
         /\ DOMAIN CountHandOut(f, I) = DOMAIN f \cup I
         /\ \A i \in DOMAIN f \ I : CountHandOut(f, I)[i] = f[i]
BY DEF CountHandOut

\* Forgetting some counts leaves the others as they are.
LEMMA ForgetFacts ==
  ASSUME NEW f, f \in [DOMAIN f -> Nat \ {0}], NEW I
  PROVE  /\ Forget(f, I) \in [DOMAIN Forget(f, I) -> Nat \ {0}]
         /\ DOMAIN Forget(f, I) = DOMAIN f \ I
         /\ \A i \in DOMAIN f \ I : Forget(f, I)[i] = f[i]
BY DEF Forget

\* The number of hand-outs of a message is a number.
LEMMA AttemptsNat ==
  ASSUME NEW b, b.attempts \in [DOMAIN b.attempts -> Nat \ {0}], NEW i
  PROVE  Attempts(b, i) \in Nat
BY DEF Attempts

\* A mailbox whose attempts stay as they are gives its owner what it notes as
\* read, and a mailbox that forgets attempts gives nothing.
LEMMA SameAttempts ==
  ASSUME NEW b, NEW c, b.attempts \in [DOMAIN b.attempts -> Nat \ {0}], NEW I,
         c.attempts = b.attempts \/ \E J : c.attempts = Forget(b.attempts, J),
         c.read \ b.read \subseteq I
  PROVE  GivesOnly(b, c, I)
<1>1. ASSUME NEW i \in Nat PROVE Attempts(c, i) <= Attempts(b, i)
  <2>1. Attempts(b, i) \in Nat
    BY AttemptsNat
  <2>2. CASE c.attempts = b.attempts
    BY <2>1, <2>2 DEF Attempts
  <2>3. ASSUME NEW J, c.attempts = Forget(b.attempts, J)
        PROVE  Attempts(c, i) <= Attempts(b, i)
    <3>1. /\ DOMAIN c.attempts = DOMAIN b.attempts \ J
          /\ \A j \in DOMAIN c.attempts : c.attempts[j] = b.attempts[j]
      <4> DEFINE f == b.attempts
      <4>1. f \in [DOMAIN f -> Nat \ {0}]
        OBVIOUS
      <4> HIDE DEF f
      <4>2. /\ DOMAIN Forget(f, J) = DOMAIN f \ J
            /\ \A j \in DOMAIN f \ J : Forget(f, J)[j] = f[j]
        BY <4>1, ForgetFacts
      <4> QED BY <2>3, <4>2 DEF f
    <3>2. Attempts(c, i) = Attempts(b, i) \/ Attempts(c, i) = 0
      BY <3>1 DEF Attempts
    <3> QED BY <2>1, <3>2
  <2> QED BY <2>2, <2>3
<1> QED BY <1>1 DEF GivesOnly

\* Accounts that grow twice grow.
LEMMA GrowsTransitive ==
  ASSUME NEW b, NEW c, NEW d, Grows(b, c), Grows(c, d)
  PROVE  Grows(b, d)
BY DEF Grows

\* Two steps give what either of them gives.
LEMMA GivesTransitive ==
  ASSUME NEW b, NEW c, NEW d, NEW I, NEW J,
         b.attempts \in [DOMAIN b.attempts -> Nat \ {0}],
         c.attempts \in [DOMAIN c.attempts -> Nat \ {0}],
         d.attempts \in [DOMAIN d.attempts -> Nat \ {0}],
         GivesOnly(b, c, I), GivesOnly(c, d, J)
  PROVE  GivesOnly(b, d, I \cup J)
<1>1. ASSUME NEW i \in Nat \ (I \cup J) PROVE Attempts(d, i) <= Attempts(b, i)
  <2>1. Attempts(b, i) \in Nat /\ Attempts(c, i) \in Nat /\ Attempts(d, i) \in Nat
    BY AttemptsNat
  <2>2. Attempts(d, i) <= Attempts(c, i) /\ Attempts(c, i) <= Attempts(b, i)
    BY DEF GivesOnly
  <2> QED BY <2>1, <2>2
<1> QED BY <1>1 DEF GivesOnly

\* Two quiet steps are a quiet one.
LEMMA QuietTransitive ==
  ASSUME NEW b, NEW c, NEW d, Formed(b), Formed(c), Formed(d), Quiet(b, c), Quiet(c, d)
  PROVE  Quiet(b, d)
<1>1. Grows(b, d)
  BY GrowsTransitive DEF Quiet
<1>2. GivesOnly(b, d, (c.offered \ b.offered) \cup (d.offered \ c.offered))
  BY GivesTransitive DEF Quiet, Formed
<1>3. (c.offered \ b.offered) \cup (d.offered \ c.offered) = d.offered \ b.offered
  BY DEF Quiet, Grows
<1> QED BY <1>1, <1>2, <1>3 DEF Quiet

\* A hand-out moves messages that a method has in its hands to the leases, or
\* to what was read.
LEMMA HandOutSound ==
  ASSUME NEW b, NEW T, NEW n, Sound(b, T, n),
         NEW ms, MailList(ms), Ids(ms) \subseteq T, NEW manual \in BOOLEAN,
         NEW c, c = HandOut(b, ms, manual)
  PROVE  Gave(b, c, T, Ids(ms), n)
<1>1. /\ Formed(b) /\ IsBox(b)
      /\ Apart(Ids(b.queue), Ids(Msgs(b.leases)), Ids(b.dead), T, b.read, b.dropped, b.discarded)
      /\ b.offered = Ids(b.queue) \cup Ids(Msgs(b.leases)) \cup Ids(b.dead) \cup T
                       \cup b.read \cup b.dropped \cup b.discarded
      /\ Numbered(b.offered, b.dropped, n)
      /\ DOMAIN b.attempts \subseteq b.offered
      /\ b.attempts \in [DOMAIN b.attempts -> Nat \ {0}]
  BY DEF Sound, Formed
<1>2. CASE manual
  <2>1. /\ IsBox(c)
        /\ c.leases = b.leases \o [i \in DOMAIN ms |-> [msg |-> ms[i], lapsed |-> FALSE]]
        /\ c.attempts = CountHandOut(b.attempts, Ids(ms))
        /\ c.present = b.present /\ c.queue = b.queue /\ c.dead = b.dead
        /\ c.waiters = b.waiters /\ c.offered = b.offered /\ c.read = b.read
        /\ c.dropped = b.dropped /\ c.discarded = b.discarded
    BY <1>1, <1>2 DEF HandOut, IsBox, BoxFields
  <2>2. Ids(Msgs(b.leases)) \cap Ids(ms) = {}
    BY <1>1 DEF Apart
  <2>3. LeaseList(c.leases) /\ Ids(Msgs(c.leases)) = Ids(Msgs(b.leases)) \cup Ids(ms)
    BY <1>1, <2>1, <2>2, NewLeases DEF Formed
  <2>4. /\ c.attempts \in [DOMAIN c.attempts -> Nat \ {0}]
        /\ DOMAIN c.attempts = DOMAIN b.attempts \cup Ids(ms)
        /\ \A i \in DOMAIN b.attempts \ Ids(ms) : c.attempts[i] = b.attempts[i]
    <3> DEFINE f == b.attempts
    <3>1. f \in [DOMAIN f -> Nat \ {0}]
      BY <1>1
    <3> HIDE DEF f
    <3>2. /\ CountHandOut(f, Ids(ms)) \in [DOMAIN CountHandOut(f, Ids(ms)) -> Nat \ {0}]
          /\ DOMAIN CountHandOut(f, Ids(ms)) = DOMAIN f \cup Ids(ms)
          /\ \A i \in DOMAIN f \ Ids(ms) : CountHandOut(f, Ids(ms))[i] = f[i]
      BY <3>1, CountHandOutFacts
    <3> QED BY <2>1, <3>2 DEF f
  <2>5. Formed(c)
    BY <1>1, <2>1, <2>3, <2>4 DEF Formed
  <2>6. Apart(Ids(c.queue), Ids(Msgs(c.leases)), Ids(c.dead), T \ Ids(ms),
              c.read, c.dropped, c.discarded)
    BY <1>1, <2>1, <2>3 DEF Apart
  <2>7. c.offered = Ids(c.queue) \cup Ids(Msgs(c.leases)) \cup Ids(c.dead) \cup (T \ Ids(ms))
                      \cup c.read \cup c.dropped \cup c.discarded
    BY <1>1, <2>1, <2>3
  <2>8. GivesOnly(b, c, Ids(ms))
    <3>1. ASSUME NEW i \in Nat \ Ids(ms) PROVE Attempts(c, i) <= Attempts(b, i)
      <4>1. Attempts(b, i) \in Nat /\ Attempts(c, i) = Attempts(b, i)
        BY <1>1, <2>4, AttemptsNat DEF Attempts
      <4> QED BY <4>1
    <3> QED BY <2>1, <3>1 DEF GivesOnly
  <2>9. Sound(c, T \ Ids(ms), n) /\ Grows(b, c)
    BY <1>1, <2>1, <2>4, <2>5, <2>6, <2>7 DEF Sound, Grows
  <2>10. b.offered = b.offered \cup Ids(ms)
    BY <1>1
  <2> QED BY <2>1, <2>8, <2>9, <2>10 DEF Gave
<1>3. CASE ~manual
  <2>1. /\ IsBox(c)
        /\ c.leases = b.leases /\ c.attempts = b.attempts
        /\ c.present = b.present /\ c.queue = b.queue /\ c.dead = b.dead
        /\ c.waiters = b.waiters /\ c.offered = b.offered /\ c.read = b.read \cup Ids(ms)
        /\ c.dropped = b.dropped /\ c.discarded = b.discarded
    BY <1>1, <1>3 DEF HandOut, IsBox, BoxFields
  <2>5. Formed(c)
    BY <1>1, <2>1 DEF Formed
  <2>6. Apart(Ids(c.queue), Ids(Msgs(c.leases)), Ids(c.dead), T \ Ids(ms),
              c.read, c.dropped, c.discarded)
    BY <1>1, <2>1 DEF Apart
  <2>7. c.offered = Ids(c.queue) \cup Ids(Msgs(c.leases)) \cup Ids(c.dead) \cup (T \ Ids(ms))
                      \cup c.read \cup c.dropped \cup c.discarded
    BY <1>1, <2>1
  <2>8. GivesOnly(b, c, Ids(ms))
    BY <1>1, <2>1, SameAttempts
  <2>9. Sound(c, T \ Ids(ms), n) /\ Grows(b, c)
    BY <1>1, <2>1, <2>5, <2>6, <2>7 DEF Sound, Grows
  <2>10. b.offered = b.offered \cup Ids(ms)
    BY <1>1
  <2> QED BY <2>1, <2>8, <2>9, <2>10 DEF Gave
<1> QED BY <1>2, <1>3

\* A waiter that listens gets the message a method offers, and nobody else.
LEMMA HandToWaiterSound ==
  ASSUME NEW b, IsBox(b), NEW T, NEW n, NEW m \in Message, m.id \in T,
         NEW a, a = [b EXCEPT !.offered = @ \cup {m.id}], Sound(a, T, n),
         Listeners(b, m) # {}, NEW c, c = HandToWaiter(b, m)
  PROVE  Gave(b, c, T, {m.id}, n)
<1> DEFINE first == CHOOSE i \in Listeners(b, m) : \A j \in Listeners(b, m) : i <= j
           w     == b.waiters[first]
           d     == [b EXCEPT !.waiters = RemoveAt(@, first), !.offered = @ \cup {m.id}]
<1>1. /\ IsBox(a) /\ a.offered = b.offered \cup {m.id}
      /\ a.present = b.present /\ a.queue = b.queue /\ a.leases = b.leases
      /\ a.dead = b.dead /\ a.attempts = b.attempts /\ a.waiters = b.waiters
      /\ a.read = b.read /\ a.dropped = b.dropped /\ a.discarded = b.discarded
  BY DEF IsBox, BoxFields
<1>2. b.waiters \in Seq(Waiter) /\ DOMAIN b.waiters = 1..Len(b.waiters)
  BY <1>1 DEF Sound, Formed
<1>3. first \in 1..Len(b.waiters)
  <2>1. Listeners(b, m) \subseteq Nat
    BY <1>2 DEF Listeners
  <2>2. \E i \in Listeners(b, m) : \A j \in Listeners(b, m) : i <= j
    BY <2>1, LeastNumber
  <2>3. first \in Listeners(b, m)
    BY <2>2
  <2> QED BY <1>2, <2>3 DEF Listeners
<1> HIDE DEF first
<1>4. w.manual \in BOOLEAN
  <2>1. w \in Waiter
    BY <1>2, <1>3
  <2> HIDE DEF w
  <2> QED BY <2>1 DEF Waiter
<1>5. RemoveAt(b.waiters, first) \in Seq(Waiter)
  BY <1>2, <1>3, RemoveAtFacts
<1>6. /\ IsBox(d) /\ d.waiters = RemoveAt(b.waiters, first)
      /\ d.present = b.present /\ d.queue = b.queue /\ d.leases = b.leases
      /\ d.dead = b.dead /\ d.attempts = b.attempts /\ d.offered = b.offered \cup {m.id}
      /\ d.read = b.read /\ d.dropped = b.dropped /\ d.discarded = b.discarded
  BY DEF IsBox, BoxFields
<1>7. c = HandOut(d, <<m>>, w.manual)
  BY DEF HandToWaiter, first
<1> HIDE DEF d, w
<1>8. Sound(d, T, n)
  BY <1>1, <1>5, <1>6 DEF Sound, Formed
<1>9. MailList(<<m>>) /\ Ids(<<m>>) = {m.id}
  BY OneList
<1>10. Gave(d, c, T, {m.id}, n)
  <2> DEFINE ms == <<m>>  manual == w.manual
  <2>1. MailList(ms) /\ Ids(ms) = {m.id} /\ Ids(ms) \subseteq T /\ manual \in BOOLEAN
    BY <1>4, <1>9
  <2>2. c = HandOut(d, ms, manual)
    BY <1>7
  <2> HIDE DEF ms, manual
  <2>3. Gave(d, c, T, Ids(ms), n)
    BY <1>8, <2>1, <2>2, HandOutSound
  <2> QED BY <2>1, <2>3
<1>11. Grows(b, c)
  BY <1>1, <1>6, <1>10 DEF Gave, Grows
<1>12. GivesOnly(b, c, {m.id})
  BY <1>6, <1>10 DEF Gave, GivesOnly, Attempts
<1> QED BY <1>1, <1>6, <1>10, <1>11, <1>12 DEF Gave

-----------------------------------------------------------------------------
(* Losses that are counted.                                                *)

\* The notice about a message is a message, and its id is a new one as long as
\* the message has not been dropped.
LEMMA NoticeIsNew ==
  ASSUME NEW b, NEW T, NEW n, Sound(b, T, n), NEW m \in Message, m.id \in b.offered,
         m.id \notin b.dropped
  PROVE  /\ NoticeAbout(m) \in Message
         /\ NoticeAbout(m).id = m.id + NoticeGap
         /\ m.id + NoticeGap \notin b.offered
         /\ m.id + NoticeGap > NoticeGap
         /\ m.id + NoticeGap \in Nat \ {0}
         /\ m.id \in Nat \ {0}
<1>1. m.id \in Nat \ {0} /\ NoticeGap \in Nat \ {0}
  BY MailboxAssumption DEF Sound, Numbered
<1>2. NoticeAbout(m) \in Message /\ NoticeAbout(m).id = m.id + NoticeGap
  BY <1>1 DEF NoticeAbout, Message
<1>3. \A i \in b.offered : i > NoticeGap => i - NoticeGap \in b.dropped
  BY DEF Sound, Numbered
<1>4. m.id + NoticeGap > NoticeGap /\ (m.id + NoticeGap) - NoticeGap = m.id
  BY <1>1
<1> QED BY <1>1, <1>2, <1>3, <1>4

\* A message that a method drops is counted, and a waiting owner hears of it.
LEMMA CountDropSound ==
  ASSUME NEW b, NEW T, NEW n, Sound(b, T, n), NEW m \in Message, m.id \in T,
         NEW c, c = CountDrop(b, m)
  PROVE  Dropped(b, c, T, {m.id}, n)
<1> DEFINE a == NoticeAbout(m)
           d == [b EXCEPT !.dropped = @ \cup {m.id}]
           e == [d EXCEPT !.offered = @ \cup {a.id}]
<1>1. /\ Formed(b) /\ IsBox(b)
      /\ Apart(Ids(b.queue), Ids(Msgs(b.leases)), Ids(b.dead), T, b.read, b.dropped, b.discarded)
      /\ b.offered = Ids(b.queue) \cup Ids(Msgs(b.leases)) \cup Ids(b.dead) \cup T
                       \cup b.read \cup b.dropped \cup b.discarded
      /\ Numbered(b.offered, b.dropped, n)
      /\ DOMAIN b.attempts \subseteq b.offered
      /\ b.attempts \in [DOMAIN b.attempts -> Nat \ {0}]
  BY DEF Sound, Formed
<1>2. m.id \in b.offered /\ m.id \notin b.dropped
  BY <1>1 DEF Apart
<1>3. /\ a \in Message /\ a.id = m.id + NoticeGap /\ a.id \notin b.offered
      /\ a.id > NoticeGap /\ a.id \in Nat \ {0} /\ m.id \in Nat \ {0} /\ NoticeGap \in Nat \ {0}
  BY <1>2, NoticeIsNew, MailboxAssumption
<1>4. /\ IsBox(d) /\ d.dropped = b.dropped \cup {m.id}
      /\ d.present = b.present /\ d.queue = b.queue /\ d.leases = b.leases
      /\ d.dead = b.dead /\ d.attempts = b.attempts /\ d.offered = b.offered
      /\ d.read = b.read /\ d.waiters = b.waiters /\ d.discarded = b.discarded
  BY <1>1 DEF IsBox, BoxFields
<1>5. c = DeliverToWaiter(d, a)
  BY DEF CountDrop
<1> HIDE DEF a, d
<1>6. Formed(d)
  BY <1>1, <1>4 DEF Formed
<1>7. Sound(d, T \ {m.id}, n)
  <2>1. Apart(Ids(d.queue), Ids(Msgs(d.leases)), Ids(d.dead), T \ {m.id},
              d.read, d.dropped, d.discarded)
    BY <1>1, <1>4 DEF Apart
  <2>2. d.offered = Ids(d.queue) \cup Ids(Msgs(d.leases)) \cup Ids(d.dead) \cup (T \ {m.id})
                      \cup d.read \cup d.dropped \cup d.discarded
    BY <1>1, <1>4
  <2>3. Numbered(d.offered, d.dropped, n)
    BY <1>1, <1>4 DEF Numbered
  <2> QED BY <1>1, <1>4, <1>6, <2>1, <2>2, <2>3 DEF Sound
<1>8. CASE Listeners(d, a) = {}
  <2>1. c = d
    BY <1>5, <1>8 DEF DeliverToWaiter
  <2>2. GivesOnly(b, d, d.offered \ b.offered)
    BY <1>1, <1>4, SameAttempts
  <2>3. Quiet(b, d)
    BY <1>4, <2>2 DEF Quiet, Grows
  <2> QED BY <1>4, <1>7, <2>1, <2>3 DEF Dropped
<1>9. CASE Listeners(d, a) # {}
  <2> DEFINE U == (T \ {m.id}) \cup {a.id}
  <2>1. /\ IsBox(e) /\ e.offered = d.offered \cup {a.id}
        /\ e.present = d.present /\ e.queue = d.queue /\ e.leases = d.leases
        /\ e.dead = d.dead /\ e.attempts = d.attempts /\ e.dropped = d.dropped
        /\ e.read = d.read /\ e.waiters = d.waiters /\ e.discarded = d.discarded
    BY <1>4 DEF IsBox, BoxFields
  <2>2. Sound(e, U, n)
    <3> HIDE DEF e
    <3>1. Formed(e)
      BY <1>6, <2>1 DEF Formed
    <3>2. a.id \notin d.offered
      BY <1>3, <1>4
    <3>3. Apart(Ids(e.queue), Ids(Msgs(e.leases)), Ids(e.dead), U,
                e.read, e.dropped, e.discarded)
      BY <1>7, <2>1, <3>2 DEF Apart, Sound
    <3>4. e.offered = Ids(e.queue) \cup Ids(Msgs(e.leases)) \cup Ids(e.dead) \cup U
                        \cup e.read \cup e.dropped \cup e.discarded
      BY <1>7, <2>1 DEF Sound
    <3>5. Numbered(e.offered, e.dropped, n)
      <4>1. a.id - NoticeGap = m.id
        BY <1>3
      <4> QED BY <1>3, <1>4, <1>7, <2>1, <4>1 DEF Sound, Numbered
    <3> QED BY <1>7, <2>1, <3>1, <3>3, <3>4, <3>5 DEF Sound
  <2>3. c = HandToWaiter(d, a)
    BY <1>5, <1>9 DEF DeliverToWaiter
  <2>4. Gave(d, c, U, {a.id}, n)
    <3>1. a.id \in U
      OBVIOUS
    <3> HIDE DEF U, e
    <3>2. e = [d EXCEPT !.offered = @ \cup {a.id}]
      BY DEF e
    <3> QED BY <1>3, <1>4, <1>9, <2>2, <2>3, <3>1, <3>2, HandToWaiterSound
  <2>5. U \ {a.id} = T \ {m.id}
    BY <1>1, <1>3
  <2>6. Quiet(b, c)
    <3>1. Grows(b, c)
      BY <1>4, <2>4 DEF Gave, Grows
    <3>2. c.offered \ b.offered = {a.id}
      BY <1>3, <1>4, <2>4 DEF Gave
    <3>3. GivesOnly(b, c, {a.id})
      BY <1>4, <2>4 DEF Gave, GivesOnly, Attempts
    <3> QED BY <1>3, <3>1, <3>2, <3>3 DEF Quiet
  <2> QED BY <1>4, <2>4, <2>5, <2>6 DEF Gave, Dropped
<1> QED BY <1>8, <1>9

\* A message that leaves by overflow is counted, and its attempts are forgotten.
LEMMA EvictSound ==
  ASSUME NEW b, NEW T, NEW n, Sound(b, T, n), NEW m \in Message, m.id \in T,
         NEW c, c = Evict(b, m)
  PROVE  Dropped(b, c, T, {m.id}, n)
<1> DEFINE d == [b EXCEPT !.attempts = Forget(@, {m.id})]
<1>1. /\ Formed(b) /\ IsBox(b)
      /\ b.attempts \in [DOMAIN b.attempts -> Nat \ {0}]
  BY DEF Sound, Formed
<1>2. /\ IsBox(d) /\ d.attempts = Forget(b.attempts, {m.id})
      /\ d.present = b.present /\ d.queue = b.queue /\ d.leases = b.leases
      /\ d.dead = b.dead /\ d.dropped = b.dropped /\ d.offered = b.offered
      /\ d.read = b.read /\ d.waiters = b.waiters /\ d.discarded = b.discarded
  BY <1>1 DEF IsBox, BoxFields
<1>3. c = CountDrop(d, m)
  BY DEF Evict
<1> HIDE DEF d
<1>4. /\ d.attempts \in [DOMAIN d.attempts -> Nat \ {0}]
      /\ DOMAIN d.attempts = DOMAIN b.attempts \ {m.id}
  <2> DEFINE f == b.attempts
  <2>1. f \in [DOMAIN f -> Nat \ {0}]
    BY <1>1
  <2> HIDE DEF f
  <2>2. /\ Forget(f, {m.id}) \in [DOMAIN Forget(f, {m.id}) -> Nat \ {0}]
        /\ DOMAIN Forget(f, {m.id}) = DOMAIN f \ {m.id}
    BY <2>1, ForgetFacts
  <2> QED BY <1>2, <2>2 DEF f
<1>5. Formed(d)
  BY <1>1, <1>2, <1>4 DEF Formed
<1>6. Sound(d, T, n)
  BY <1>2, <1>4, <1>5 DEF Sound
<1>7. Dropped(d, c, T, {m.id}, n)
  BY <1>3, <1>6, CountDropSound
<1>8. Formed(c)
  BY <1>7 DEF Dropped, Sound
<1>9. GivesOnly(b, d, {})
  BY <1>1, <1>2, SameAttempts
<1>10. GivesOnly(b, c, c.offered \ b.offered)
  <2>1. GivesOnly(b, c, {} \cup (c.offered \ d.offered))
    BY <1>1, <1>4, <1>7, <1>8, <1>9, GivesTransitive DEF Formed, Dropped, Quiet
  <2> QED BY <1>2, <2>1
<1>11. Grows(b, c)
  BY <1>2, <1>4, <1>7 DEF Dropped, Quiet, Grows
<1> QED BY <1>2, <1>7, <1>10, <1>11 DEF Dropped, Quiet

\* EvictAll, by the prefixes of the list that it has dropped.
EvictStep(after, b, messages, i) ==
  IF i = 0 THEN b ELSE Evict(after[i - 1], messages[i])

EvictedUpTo(b, messages) ==
  CHOOSE after : after = [i \in 0..Len(messages) |-> EvictStep(after, b, messages, i)]

\* EvictAll evicts one message of the list after the other.
LEMMA EvictedUpToDefined ==
  ASSUME NEW b, NEW messages, Len(messages) \in Nat
  PROVE  LET A == EvictedUpTo(b, messages) IN
         /\ EvictAll(b, messages) = A[Len(messages)]
         /\ \A n \in 0..Len(messages) : A[n] = EvictStep(A, b, messages, n)
<1> DEFINE N == Len(messages)
           G == {n \in 0..N : \E g : g = [i \in 0..n |-> EvictStep(g, b, messages, i)]}
<1>1. 0 \in G
  <2>1. [i \in 0..0 |-> b] = [i \in 0..0 |-> EvictStep([j \in 0..0 |-> b], b, messages, i)]
    BY DEF EvictStep
  <2> QED BY <2>1
<1>2. ASSUME NEW n \in 0..N, n \in G, n < N
      PROVE  n + 1 \in G
  <2>1. PICK g : g = [i \in 0..n |-> EvictStep(g, b, messages, i)]
    BY <1>2
  <2> DEFINE h == [i \in 0..(n + 1) |->
                     IF i <= n THEN g[i] ELSE EvictStep(g, b, messages, n + 1)]
  <2>2. ASSUME NEW i \in 0..(n + 1)
        PROVE  h[i] = EvictStep(h, b, messages, i)
    <3>1. CASE i = 0
      BY <2>1, <3>1 DEF EvictStep
    <3>2. CASE i # 0
      <4>1. h[i - 1] = g[i - 1] /\ h[i] = EvictStep(g, b, messages, i)
        BY <2>1, <3>2
      <4> HIDE DEF h
      <4> QED BY <3>2, <4>1 DEF EvictStep
    <3> QED BY <3>1, <3>2
  <2>3. h = [i \in 0..(n + 1) |-> EvictStep(h, b, messages, i)]
    BY <2>2
  <2> HIDE DEF h
  <2> QED BY <1>2, <2>3
<1>3. 0..N \subseteq G
  <2> HIDE DEF G
  <2> QED BY <1>1, <1>2, InductionUpTo
<1>4. \E g : g = [i \in 0..N |-> EvictStep(g, b, messages, i)]
  BY <1>3
<1>5. EvictedUpTo(b, messages)
        = [i \in 0..N |-> EvictStep(EvictedUpTo(b, messages), b, messages, i)]
  BY <1>4, Zenon DEF EvictedUpTo
<1>6. EvictAll(b, messages) = EvictedUpTo(b, messages)[N]
  BY DEF EvictAll, EvictedUpTo, EvictStep
<1> QED BY <1>5, <1>6, Zenon

\* Doing nothing is quiet.
LEMMA QuietReflexive ==
  ASSUME NEW b, b.attempts \in [DOMAIN b.attempts -> Nat \ {0}]
  PROVE  Quiet(b, b)
<1>1. \A i \in Nat : Attempts(b, i) <= Attempts(b, i)
  <2> TAKE i \in Nat
  <2>1. Attempts(b, i) \in Nat
    BY AttemptsNat
  <2> QED BY <2>1
<1> QED BY <1>1 DEF Quiet, Grows, GivesOnly

\* What a method drops in two steps.
LEMMA DroppedTwice ==
  ASSUME NEW b, NEW c, NEW d, NEW T, NEW I, NEW J, NEW n, Formed(b),
         Dropped(b, c, T, I, n), Dropped(c, d, T \ I, J, n)
  PROVE  Dropped(b, d, T, I \cup J, n)
<1>1. Formed(c) /\ Formed(d)
  BY DEF Dropped, Sound
<1>2. Quiet(b, d)
  BY <1>1, QuietTransitive DEF Dropped
<1>3. (T \ I) \ J = T \ (I \cup J)
  OBVIOUS
<1>4. c.dropped \subseteq d.dropped
  BY DEF Dropped, Quiet, Grows
<1> QED BY <1>2, <1>3, <1>4 DEF Dropped

\* A list of messages in the hands of a method is evicted.
LEMMA EvictAllSound ==
  ASSUME NEW b, NEW T, NEW n, Sound(b, T, n), NEW ms, MailList(ms), Ids(ms) \subseteq T,
         NEW c, c = EvictAll(b, ms)
  PROVE  Dropped(b, c, T, Ids(ms), n)
<1> DEFINE A == EvictedUpTo(b, ms)
           First == [k \in 0..Len(ms) |-> {ms[i].id : i \in 1..k}]
           J == {k \in 0..Len(ms) : Dropped(b, A[k], T, First[k], n)}
<1>1. /\ ms \in Seq(Message) /\ Len(ms) \in Nat /\ DOMAIN ms = 1..Len(ms)
  BY DEF MailList
<1>2. /\ c = A[Len(ms)]
      /\ \A k \in 0..Len(ms) : A[k] = EvictStep(A, b, ms, k)
  BY <1>1, EvictedUpToDefined
<1>3. Formed(b)
  BY DEF Sound
<1> HIDE DEF A
<1>4. 0 \in J
  <2>1. A[0] = b
    BY <1>1, <1>2 DEF EvictStep
  <2>2. First[0] = {} /\ T \ {} = T
    OBVIOUS
  <2>3. Quiet(b, b)
    BY <1>3, QuietReflexive DEF Formed
  <2>4. Dropped(b, b, T, {}, n)
    BY <2>2, <2>3 DEF Dropped
  <2>5. 0 \in 0..Len(ms)
    BY <1>1
  <2> HIDE DEF First
  <2> QED BY <2>1, <2>2, <2>4, <2>5, Zenon
<1>5. ASSUME NEW k \in 0..Len(ms), k \in J, k < Len(ms)
      PROVE  k + 1 \in J
  <2> DEFINE m == ms[k + 1]
  <2>1. A[k + 1] = Evict(A[k], m)
    BY <1>1, <1>2, <1>5 DEF EvictStep
  <2>2. k + 1 \in 1..Len(ms) /\ m \in Message /\ m.id \in Ids(ms)
    BY <1>1, <1>5 DEF Ids
  <2>3. m.id \notin First[k]
    <3>1. \A i, j \in 1..Len(ms) : ms[i].id = ms[j].id => i = j
      BY ListById
    <3> QED BY <1>1, <1>5, <2>2, <3>1
  <2>4. First[k + 1] = First[k] \cup {m.id}
    <3>1. 1..(k + 1) = (1..k) \cup {k + 1}
      BY <1>5
    <3> QED BY <3>1
  <2>5. Dropped(b, A[k], T, First[k], n)
    BY <1>5
  <2> HIDE DEF First, m
  <2>6. Sound(A[k], T \ First[k], n) /\ m.id \in T \ First[k]
    BY <2>2, <2>3, <2>5 DEF Dropped
  <2>7. Dropped(A[k], A[k + 1], T \ First[k], {m.id}, n)
    BY <2>1, <2>2, <2>6, EvictSound
  <2>8. Dropped(b, A[k + 1], T, First[k] \cup {m.id}, n)
    BY <1>3, <2>5, <2>7, DroppedTwice
  <2>9. k + 1 \in 0..Len(ms)
    BY <2>2
  <2> QED BY <2>4, <2>8, <2>9, Zenon
<1>6. 0..Len(ms) \subseteq J
  <2> HIDE DEF J
  <2> QED BY <1>1, <1>4, <1>5, InductionUpTo
<1>7. Dropped(b, A[Len(ms)], T, First[Len(ms)], n)
  <2>1. Len(ms) \in 0..Len(ms)
    BY <1>1
  <2> HIDE DEF First
  <2> QED BY <1>6, <2>1, Zenon
<1>8. First[Len(ms)] = Ids(ms)
  BY <1>1 DEF Ids
<1> HIDE DEF First
<1> QED BY <1>2, <1>7, <1>8

-----------------------------------------------------------------------------
(* Dead letters and what comes back.                                       *)

\* So is what changes neither the accounts nor the attempts.
LEMMA QuietSame ==
  ASSUME NEW b, NEW c, b.attempts \in [DOMAIN b.attempts -> Nat \ {0}],
         c.attempts = b.attempts, c.offered = b.offered, c.read = b.read,
         c.dropped = b.dropped, c.discarded = b.discarded
  PROVE  Quiet(b, c)
<1>1. GivesOnly(b, c, c.offered \ b.offered)
  BY SameAttempts
<1> QED BY <1>1 DEF Quiet, Grows

\* Messages that join the dead letters may push the oldest of them out.
LEMMA DeadLetterSound ==
  ASSUME NEW b, NEW T, NEW n, Sound(b, T, n), NEW ms, MailList(ms), Ids(ms) \subseteq T,
         NEW c, c = DeadLetter(b, ms)
  PROVE  PutAway(b, c, T, Ids(ms), n)
<1> DEFINE all     == b.dead \o ms
           surplus == IF Len(all) > MaxDead THEN Len(all) - MaxDead ELSE 0
           old     == SubSeq(all, 1, surplus)
           young   == SubSeq(all, surplus + 1, Len(all))
           d       == [b EXCEPT !.dead = young]
           U       == (T \ Ids(ms)) \cup Ids(old)
<1>1. /\ Formed(b) /\ IsBox(b)
      /\ Apart(Ids(b.queue), Ids(Msgs(b.leases)), Ids(b.dead), T, b.read, b.dropped, b.discarded)
      /\ b.offered = Ids(b.queue) \cup Ids(Msgs(b.leases)) \cup Ids(b.dead) \cup T
                       \cup b.read \cup b.dropped \cup b.discarded
      /\ MailList(b.dead)
      /\ b.attempts \in [DOMAIN b.attempts -> Nat \ {0}]
  BY DEF Sound, Formed
<1>2. MailList(all) /\ Ids(all) = Ids(b.dead) \cup Ids(ms)
  <2>1. Ids(b.dead) \cap Ids(ms) = {}
    BY <1>1 DEF Apart
  <2> QED BY <1>1, <2>1, ConcatLists
<1>3. Len(all) \in Nat /\ MaxDead \in Nat \ {0}
  <2>1. all \in Seq(Message)
    BY <1>2 DEF MailList
  <2> HIDE DEF all
  <2> QED BY <2>1, MailboxAssumption
<1>4. c = EvictAll(d, old)
  BY DEF DeadLetter
<1>5. /\ IsBox(d) /\ d.dead = young
      /\ d.present = b.present /\ d.queue = b.queue /\ d.leases = b.leases
      /\ d.attempts = b.attempts /\ d.dropped = b.dropped /\ d.offered = b.offered
      /\ d.read = b.read /\ d.waiters = b.waiters /\ d.discarded = b.discarded
  BY <1>1 DEF IsBox, BoxFields
<1> HIDE DEF all, d
<1>6. surplus \in 0..Len(all) /\ Len(all) - surplus <= MaxDead
  BY <1>3
<1> HIDE DEF surplus
<1>7. /\ MailList(old) /\ MailList(young) /\ Len(young) = Len(all) - surplus
      /\ Ids(old) \cup Ids(young) = Ids(all) /\ Ids(old) \cap Ids(young) = {}
  BY <1>2, <1>6, CutList
<1> HIDE DEF old, young
<1>8. Formed(d)
  BY <1>1, <1>5, <1>6, <1>7 DEF Formed
<1>9. Sound(d, U, n)
  <2>1. Apart(Ids(d.queue), Ids(Msgs(d.leases)), Ids(d.dead), U, d.read, d.dropped, d.discarded)
    BY <1>1, <1>2, <1>5, <1>7 DEF Apart
  <2>2. d.offered = Ids(d.queue) \cup Ids(Msgs(d.leases)) \cup Ids(d.dead) \cup U
                       \cup d.read \cup d.dropped \cup d.discarded
    BY <1>1, <1>2, <1>5, <1>7
  <2> HIDE DEF U
  <2> QED BY <1>5, <1>8, <2>1, <2>2 DEF Sound
<1>10. Dropped(d, c, U, Ids(old), n)
  <2>1. Ids(old) \subseteq U
    OBVIOUS
  <2> HIDE DEF U
  <2> QED BY <1>4, <1>7, <1>9, <2>1, EvictAllSound
<1>11. Quiet(b, c)
  <2>1. Quiet(b, d)
    BY <1>1, <1>5, QuietSame
  <2>2. Formed(c) /\ Quiet(d, c)
    BY <1>10 DEF Dropped, Sound
  <2> QED BY <1>1, <1>8, <2>1, <2>2, QuietTransitive
<1>12. U \ Ids(old) = T \ Ids(ms)
  BY <1>1, <1>2, <1>7 DEF Apart
<1> QED BY <1>5, <1>10, <1>11, <1>12 DEF Dropped, PutAway

\* Messages that come back compete for a slot of the queue; the tail that does
\* not fit is put away.
LEMMA RequeueSound ==
  ASSUME NEW b, NEW T, NEW n, Sound(b, T, n), NEW ms, MailList(ms), Ids(ms) \subseteq T,
         NEW c, c = Requeue(b, ms)
  PROVE  PutBack(b, c, T, Ids(ms), n)
<1> DEFINE all   == InsertByPriority(b.queue, ms)
           room  == IF Len(all) > MaxQueue THEN MaxQueue ELSE Len(all)
           keep  == SubSeq(all, 1, room)
           tail  == SubSeq(all, room + 1, Len(all))
           spill == Reverse(tail)
           d     == [b EXCEPT !.present = TRUE, !.queue = keep]
           U     == (T \ Ids(ms)) \cup Ids(spill)
<1>1. /\ Formed(b) /\ IsBox(b)
      /\ Apart(Ids(b.queue), Ids(Msgs(b.leases)), Ids(b.dead), T, b.read, b.dropped, b.discarded)
      /\ b.offered = Ids(b.queue) \cup Ids(Msgs(b.leases)) \cup Ids(b.dead) \cup T
                       \cup b.read \cup b.dropped \cup b.discarded
      /\ MailList(b.queue) /\ Sorted(b.queue)
      /\ b.attempts \in [DOMAIN b.attempts -> Nat \ {0}]
  BY DEF Sound, Formed
<1>2. CASE ms = <<>>
  <2>1. c = b
    BY <1>2 DEF Requeue
  <2>2. Ids(ms) = {} /\ T \ {} = T
    BY <1>2, EmptyList
  <2>3. Quiet(b, b)
    BY <1>1, QuietReflexive
  <2> QED BY <2>1, <2>2, <2>3 DEF PutBack
<1>3. CASE ms # <<>>
  <2>1. /\ MailList(all) /\ Sorted(all)
        /\ Ids(all) = Ids(b.queue) \cup Ids(ms)
    <3>1. Ids(b.queue) \cap Ids(ms) = {}
      BY <1>1 DEF Apart
    <3> QED BY <1>1, <3>1, InsertByPriorityList
  <2>2. Len(all) \in Nat /\ MaxQueue \in Nat \ {0}
    <3>1. all \in Seq(Message)
      BY <2>1 DEF MailList
    <3> HIDE DEF all
    <3> QED BY <3>1, MailboxAssumption
  <2>3. c = DeadLetter(d, spill)
    BY <1>3 DEF Requeue
  <2>4. /\ IsBox(d) /\ d.present = TRUE /\ d.queue = keep
        /\ d.leases = b.leases /\ d.dead = b.dead
        /\ d.attempts = b.attempts /\ d.dropped = b.dropped /\ d.offered = b.offered
        /\ d.read = b.read /\ d.waiters = b.waiters /\ d.discarded = b.discarded
    BY <1>1 DEF IsBox, BoxFields
  <2> HIDE DEF all, d
  <2>5. room \in 0..Len(all) /\ room <= MaxQueue
    BY <2>2
  <2> HIDE DEF room
  <2>6. /\ MailList(keep) /\ Len(keep) = room /\ Sorted(keep) /\ MailList(tail)
        /\ Ids(keep) \cup Ids(tail) = Ids(all) /\ Ids(keep) \cap Ids(tail) = {}
    BY <2>1, <2>5, CutList
  <2> HIDE DEF keep, tail
  <2>7. MailList(spill) /\ Ids(spill) = Ids(tail)
    BY <2>6, ReverseList
  <2> HIDE DEF spill
  <2>8. Formed(d)
    BY <1>1, <2>4, <2>5, <2>6 DEF Formed
  <2>9. Sound(d, U, n)
    <3>1. Apart(Ids(d.queue), Ids(Msgs(d.leases)), Ids(d.dead), U, d.read, d.dropped, d.discarded)
      BY <1>1, <2>1, <2>4, <2>6, <2>7 DEF Apart
    <3>2. d.offered = Ids(d.queue) \cup Ids(Msgs(d.leases)) \cup Ids(d.dead) \cup U
                         \cup d.read \cup d.dropped \cup d.discarded
      BY <1>1, <2>1, <2>4, <2>6, <2>7
    <3> HIDE DEF U
    <3> QED BY <2>4, <2>8, <3>1, <3>2 DEF Sound
  <2>10. PutAway(d, c, U, Ids(spill), n)
    <3>1. Ids(spill) \subseteq U
      OBVIOUS
    <3> HIDE DEF U
    <3> QED BY <2>3, <2>7, <2>9, <3>1, DeadLetterSound
  <2>11. Quiet(b, c)
    <3>1. Quiet(b, d)
      BY <1>1, <2>4, QuietSame
    <3>2. Formed(c) /\ Quiet(d, c)
      BY <2>10 DEF PutAway, Sound
    <3> QED BY <1>1, <2>8, <3>1, <3>2, QuietTransitive
  <2>12. U \ Ids(spill) = T \ Ids(ms)
    BY <1>1, <2>1, <2>6, <2>7 DEF Apart
  <2>13. Ids(c.queue) \subseteq Ids(b.queue) \cup Ids(ms)
    BY <2>1, <2>4, <2>6, <2>10 DEF PutAway
  <2> QED BY <2>10, <2>11, <2>12, <2>13 DEF PutAway, PutBack
<1> QED BY <1>2, <1>3

\* Lapsed leases go back to the queue, those of exhausted messages to the dead
\* letters.
LEMMA ReapLeasesSound ==
  ASSUME NEW b, NEW n, Sound(b, {}, n), NEW c, c = ReapLeases(b)
  PROVE  Reaped(b, c, n)
<1> DEFINE lapsed == {l \in Elements(b.leases) : l.lapsed}
           tired  == {l \in lapsed : Exhausted(b, l.msg.id)}
           back   == Msgs(KeepIn(b.leases, lapsed \ tired))
           dead   == Msgs(KeepIn(b.leases, tired))
           still  == KeepIn(b.leases, Elements(b.leases) \ lapsed)
           d      == [b EXCEPT !.leases = still]
           e      == Requeue(d, back)
           U      == Ids(back) \cup Ids(dead)
<1>1. /\ Formed(b) /\ IsBox(b)
      /\ Apart(Ids(b.queue), Ids(Msgs(b.leases)), Ids(b.dead), {}, b.read, b.dropped, b.discarded)
      /\ b.offered = Ids(b.queue) \cup Ids(Msgs(b.leases)) \cup Ids(b.dead) \cup {}
                       \cup b.read \cup b.dropped \cup b.discarded
      /\ LeaseList(b.leases)
      /\ b.attempts \in [DOMAIN b.attempts -> Nat \ {0}]
  BY DEF Sound, Formed
<1>2. /\ Ids(Msgs(b.leases)) = {l.msg.id : l \in Elements(b.leases)}
      /\ \A k, l \in Elements(b.leases) : k.msg.id = l.msg.id => k = l
  BY <1>1, LeaseById
<1>3. c = DeadLetter(e, dead)
  BY DEF ReapLeases
<1>4. /\ IsBox(d) /\ d.leases = still
      /\ d.present = b.present /\ d.queue = b.queue /\ d.dead = b.dead
      /\ d.attempts = b.attempts /\ d.dropped = b.dropped /\ d.offered = b.offered
      /\ d.read = b.read /\ d.waiters = b.waiters /\ d.discarded = b.discarded
  BY <1>1 DEF IsBox, BoxFields
<1>5. tired \subseteq lapsed /\ lapsed \subseteq Elements(b.leases)
  OBVIOUS
<1>6. \A l \in Elements(b.leases) : Exhausted(b, l.msg.id) => l \notin lapsed \ tired
  OBVIOUS
<1> HIDE DEF lapsed, tired, d, e
<1>7. /\ MailList(back)
      /\ Ids(back) = {l.msg.id : l \in lapsed \ tired}
  <2>1. /\ MailList(back)
        /\ Ids(back) = {l.msg.id : l \in Elements(b.leases) \cap (lapsed \ tired)}
    BY <1>1, KeepInLeases
  <2>2. Elements(b.leases) \cap (lapsed \ tired) = lapsed \ tired
    BY <1>5
  <2> QED BY <2>1, <2>2
<1>8. /\ MailList(dead)
      /\ Ids(dead) = {l.msg.id : l \in tired}
  <2>1. /\ MailList(dead)
        /\ Ids(dead) = {l.msg.id : l \in Elements(b.leases) \cap tired}
    BY <1>1, KeepInLeases
  <2>2. Elements(b.leases) \cap tired = tired
    BY <1>5
  <2> QED BY <2>1, <2>2
<1>9. /\ LeaseList(still)
      /\ Ids(Msgs(still)) = {l.msg.id : l \in Elements(b.leases) \ lapsed}
  <2>1. /\ LeaseList(still)
        /\ Ids(Msgs(still)) = {l.msg.id : l \in Elements(b.leases) \cap (Elements(b.leases) \ lapsed)}
    BY <1>1, KeepInLeases
  <2>2. Elements(b.leases) \cap (Elements(b.leases) \ lapsed) = Elements(b.leases) \ lapsed
    OBVIOUS
  <2> QED BY <2>1, <2>2
<1> HIDE DEF back, dead, still
<1>10. /\ Ids(back) \cap Ids(dead) = {}
       /\ Ids(Msgs(still)) \cap U = {}
       /\ Ids(Msgs(still)) \cup U = Ids(Msgs(b.leases))
  BY <1>2, <1>5, <1>7, <1>8, <1>9
<1>11. Formed(d)
  BY <1>1, <1>4, <1>9 DEF Formed
<1>12. Sound(d, U, n)
  <2> HIDE DEF U
  <2>1. Apart(Ids(d.queue), Ids(Msgs(d.leases)), Ids(d.dead), U, d.read, d.dropped, d.discarded)
    BY <1>1, <1>4, <1>10 DEF Apart
  <2>2. d.offered = Ids(d.queue) \cup Ids(Msgs(d.leases)) \cup Ids(d.dead) \cup U
                       \cup d.read \cup d.dropped \cup d.discarded
    BY <1>1, <1>4, <1>10
  <2> QED BY <1>4, <1>11, <2>1, <2>2 DEF Sound
<1>13. PutBack(d, e, U, Ids(back), n)
  <2>1. Ids(back) \subseteq U /\ e = Requeue(d, back)
    BY DEF e
  <2> HIDE DEF U
  <2> QED BY <1>7, <1>12, <2>1, RequeueSound
<1>14. PutAway(e, c, U \ Ids(back), Ids(dead), n)
  <2>1. Ids(dead) \subseteq U \ Ids(back)
    BY <1>10
  <2>2. Sound(e, U \ Ids(back), n)
    BY <1>13 DEF PutBack
  <2> HIDE DEF U
  <2> QED BY <1>3, <1>8, <2>1, <2>2, DeadLetterSound
<1>15. Sound(c, {}, n)
  <2>1. (U \ Ids(back)) \ Ids(dead) = {}
    OBVIOUS
  <2> QED BY <1>14, <2>1 DEF PutAway
<1>16. Quiet(b, c)
  <2>1. Quiet(b, d)
    BY <1>1, <1>4, QuietSame
  <2>2. Formed(e) /\ Quiet(d, e) /\ Formed(c) /\ Quiet(e, c)
    BY <1>13, <1>14 DEF PutBack, PutAway, Sound
  <2>3. Quiet(d, c)
    BY <1>11, <2>2, QuietTransitive
  <2> QED BY <1>1, <1>11, <2>1, <2>2, <2>3, QuietTransitive
<1>17. ASSUME NEW i \in Ids(Msgs(b.leases)), Exhausted(b, i)
       PROVE  i \notin Ids(c.queue)
  <2>1. i \notin Ids(b.queue)
    BY <1>1 DEF Apart
  <2>2. i \notin Ids(back)
    BY <1>2, <1>5, <1>6, <1>7, <1>17
  <2>3. Ids(c.queue) \subseteq Ids(b.queue) \cup Ids(back)
    BY <1>4, <1>13, <1>14 DEF PutBack, PutAway
  <2> QED BY <2>1, <2>2, <2>3
<1> QED BY <1>15, <1>16, <1>17 DEF Reaped

\* The notices about the messages of a list, in the order of the list.
LEMMA NoticesOfList ==
  ASSUME NEW ms, MailList(ms)
  PROVE  LET notices == [i \in DOMAIN ms |-> NoticeAbout(ms[i])] IN
         /\ MailList(notices) /\ Len(notices) = Len(ms)
         /\ Ids(notices) = {i + NoticeGap : i \in Ids(ms)}
         /\ \A j \in DOMAIN notices : notices[j].prio = 0
<1> DEFINE notices == [i \in DOMAIN ms |-> NoticeAbout(ms[i])]
<1>1. /\ ms \in Seq(Message) /\ Len(ms) \in Nat /\ DOMAIN ms = 1..Len(ms)
      /\ \A i \in 1..Len(ms) : ms[i] \in Message
  BY DEF MailList
<1>2. \A m \in Message : /\ NoticeAbout(m) \in Message /\ NoticeAbout(m).id = m.id + NoticeGap
                         /\ NoticeAbout(m).prio = 0 /\ m.id \in Nat
  BY MailboxAssumption DEF Message, NoticeAbout
<1>3. /\ notices \in Seq(Message) /\ Len(notices) = Len(ms) /\ DOMAIN notices = 1..Len(ms)
      /\ \A i \in 1..Len(ms) : notices[i].id = ms[i].id + NoticeGap /\ notices[i].prio = 0
  <2>1. notices = [i \in 1..Len(ms) |-> NoticeAbout(ms[i])]
    BY <1>1
  <2> QED BY <1>1, <1>2, <2>1
<1> HIDE DEF notices
<1>4. Distinct(notices)
  <2> SUFFICES ASSUME NEW i \in 1..Len(ms), NEW j \in 1..Len(ms), notices[i].id = notices[j].id
               PROVE  i = j
    BY <1>3 DEF Distinct
  <2>1. ms[i].id \in Nat /\ ms[j].id \in Nat /\ NoticeGap \in Nat
    BY <1>1, <1>2, MailboxAssumption
  <2>2. ms[i].id = ms[j].id
    BY <1>3, <2>1
  <2> QED BY <2>2, ListById
<1>5. Ids(notices) = {i + NoticeGap : i \in Ids(ms)}
  BY <1>1, <1>3 DEF Ids
<1> QED BY <1>3, <1>4, <1>5 DEF MailList, notices

\* Notices are as good as any message at the end of a queue.
LEMMA SortedConcat ==
  ASSUME NEW s, NEW t, MailList(s), Sorted(s), MailList(t), \A j \in DOMAIN t : t[j].prio = 0
  PROVE  Sorted(s \o t)
<1> DEFINE c == s \o t
<1>1. s \in Seq(Message) /\ t \in Seq(Message) /\ Len(s) \in Nat /\ Len(t) \in Nat
      /\ DOMAIN s = 1..Len(s) /\ DOMAIN t = 1..Len(t)
  BY DEF MailList
<1>2. /\ c \in Seq(Message) /\ Len(c) = Len(s) + Len(t)
      /\ \A i \in 1..(Len(s) + Len(t)) : c[i] = IF i <= Len(s) THEN s[i] ELSE t[i - Len(s)]
  BY <1>1, ConcatProperties
<1> HIDE DEF c
<1>3. DOMAIN c = 1..(Len(s) + Len(t))
  BY <1>2
<1>4. \A i \in 1..(Len(s) + Len(t)) : c[i].prio \in 0..2
  <2>1. \A m \in Message : m.prio \in 0..2
    BY DEF Message
  <2>2. \A i \in 1..(Len(s) + Len(t)) : c[i] \in Message
    BY <1>2, <1>3
  <2> QED BY <2>1, <2>2
<1> SUFFICES ASSUME NEW i \in 1..(Len(s) + Len(t)), NEW j \in 1..(Len(s) + Len(t)), i < j
             PROVE  c[i].prio >= c[j].prio
  BY <1>3 DEF Sorted, c
<1>5. CASE j <= Len(s)
  <2>1. i \in DOMAIN s /\ j \in DOMAIN s /\ c[i] = s[i] /\ c[j] = s[j]
    BY <1>1, <1>2, <1>5
  <2> QED BY <2>1 DEF Sorted
<1>6. CASE j > Len(s)
  <2>1. j - Len(s) \in DOMAIN t /\ c[j] = t[j - Len(s)]
    BY <1>1, <1>2, <1>6
  <2>2. c[j].prio = 0
    BY <2>1
  <2> QED BY <1>4, <2>2
<1> QED BY <1>1, <1>5, <1>6

\* The notice about a message that has not been dropped has a new id.
LEMMA NoticeIdIsNew ==
  ASSUME NEW b, NEW T, NEW n, Sound(b, T, n), NEW i \in b.offered, i \notin b.dropped
  PROVE  /\ i \in Nat \ {0} /\ NoticeGap \in Nat \ {0}
         /\ i + NoticeGap \notin b.offered
         /\ i + NoticeGap > NoticeGap
         /\ i + NoticeGap \in Nat \ {0}
         /\ (i + NoticeGap) - NoticeGap = i
<1>1. i \in Nat \ {0} /\ NoticeGap \in Nat \ {0}
  BY MailboxAssumption DEF Sound, Numbered
<1>2. \A j \in b.offered : j > NoticeGap => j - NoticeGap \in b.dropped
  BY DEF Sound, Numbered
<1>3. i + NoticeGap > NoticeGap /\ (i + NoticeGap) - NoticeGap = i
  BY <1>1
<1> QED BY <1>1, <1>2, <1>3

\* Messages that are due leave the queue, are counted, and leave their place to
\* the notices about them.
LEMMA SweepExpiredSound ==
  ASSUME NEW b, NEW n \in Nat, n <= NoticeGap, Sound(b, {}, n), NEW past, past \subseteq 1..n,
         NEW c, c = SweepExpired(b, past)
  PROVE  Swept(b, c, past, n)
<1> DEFINE late    == {m \in Elements(b.queue) : m.id \in past}
           out     == KeepIn(b.queue, late)
           gone    == Reverse(out)
           kept    == KeepIn(b.queue, Elements(b.queue) \ late)
           notices == [i \in DOMAIN gone |-> NoticeAbout(gone[i])]
           queue   == kept \o notices
           G       == Ids(gone)
           N       == {i + NoticeGap : i \in G}
<1>1. /\ Formed(b) /\ IsBox(b)
      /\ Apart(Ids(b.queue), Ids(Msgs(b.leases)), Ids(b.dead), {}, b.read, b.dropped, b.discarded)
      /\ b.offered = Ids(b.queue) \cup Ids(Msgs(b.leases)) \cup Ids(b.dead) \cup {}
                       \cup b.read \cup b.dropped \cup b.discarded
      /\ MailList(b.queue) /\ Sorted(b.queue) /\ Len(b.queue) <= MaxQueue
      /\ Numbered(b.offered, b.dropped, n)
      /\ DOMAIN b.attempts \subseteq b.offered
      /\ b.attempts \in [DOMAIN b.attempts -> Nat \ {0}]
  BY DEF Sound, Formed
<1>2. late \subseteq Elements(b.queue) /\ \A m \in Elements(b.queue) : m.id \in past <=> m \in late
  OBVIOUS
<1>3. /\ IsBox(c) /\ c.queue = queue /\ c.attempts = Forget(b.attempts, G)
      /\ c.dropped = b.dropped \cup G /\ c.offered = b.offered \cup Ids(notices)
      /\ c.present = b.present /\ c.leases = b.leases /\ c.dead = b.dead
      /\ c.read = b.read /\ c.waiters = b.waiters /\ c.discarded = b.discarded
  BY <1>1 DEF SweepExpired, IsBox, BoxFields
<1> HIDE DEF late
<1>4. /\ MailList(out) /\ Ids(out) = {m.id : m \in late}
  <2>1. MailList(out) /\ Ids(out) = {m.id : m \in Elements(b.queue) \cap late}
    BY <1>1, KeepInList
  <2>2. Elements(b.queue) \cap late = late
    BY <1>2
  <2> QED BY <2>1, <2>2
<1>5. /\ MailList(kept) /\ Ids(kept) = Ids(b.queue) \ {m.id : m \in late} /\ Sorted(kept)
  BY <1>1, <1>2, KeepOthers
<1>6. Len(out) + Len(kept) = Len(b.queue)
  <2>1. b.queue \in Seq(Message)
    BY <1>1 DEF MailList
  <2> QED BY <2>1, KeepInSplits
<1> HIDE DEF out, kept
<1>7. MailList(gone) /\ G = {m.id : m \in late} /\ Len(gone) = Len(out)
  BY <1>4, ReverseList
<1> HIDE DEF gone
<1>8. /\ MailList(notices) /\ Len(notices) = Len(gone) /\ Ids(notices) = N
      /\ \A j \in DOMAIN notices : notices[j].prio = 0
  BY <1>7, NoticesOfList
<1> HIDE DEF notices
<1>9. G \subseteq Ids(b.queue) /\ Ids(kept) = Ids(b.queue) \ G /\ Ids(kept) \cap past = {}
  <2>1. Ids(b.queue) = {m.id : m \in Elements(b.queue)}
    BY DEF Ids, Elements
  <2> QED BY <1>2, <1>5, <1>7, <2>1
<1>10. \A i \in N : /\ i \notin b.offered /\ i > NoticeGap /\ i \in Nat \ {0}
                    /\ i - NoticeGap \in G
  <2> SUFFICES ASSUME NEW i \in G
               PROVE  /\ i + NoticeGap \notin b.offered /\ i + NoticeGap > NoticeGap
                      /\ i + NoticeGap \in Nat \ {0} /\ (i + NoticeGap) - NoticeGap \in G
    OBVIOUS
  <2>1. i \in b.offered /\ i \notin b.dropped
    BY <1>1, <1>9 DEF Apart
  <2> HIDE DEF G
  <2> QED BY <2>1, NoticeIdIsNew
<1> HIDE DEF G, N
<1>11. /\ MailList(queue) /\ Sorted(queue) /\ Len(queue) <= MaxQueue
       /\ Ids(queue) = Ids(kept) \cup N
  <2>1. Ids(kept) \cap Ids(notices) = {}
    BY <1>1, <1>8, <1>9, <1>10
  <2>2. MailList(queue) /\ Ids(queue) = Ids(kept) \cup N /\ Len(queue) = Len(kept) + Len(notices)
    BY <1>5, <1>8, <2>1, ConcatLists
  <2>3. Sorted(queue)
    BY <1>5, <1>8, SortedConcat
  <2>4. Len(kept) \in Nat /\ Len(out) \in Nat
    BY <1>4, <1>5 DEF MailList
  <2>5. Len(queue) = Len(b.queue)
    BY <1>6, <1>7, <1>8, <2>2, <2>4
  <2> QED BY <1>1, <2>2, <2>3, <2>5
<1> HIDE DEF queue
<1>12. /\ c.attempts \in [DOMAIN c.attempts -> Nat \ {0}]
       /\ DOMAIN c.attempts = DOMAIN b.attempts \ G
  <2> DEFINE f == b.attempts
  <2>1. f \in [DOMAIN f -> Nat \ {0}]
    BY <1>1
  <2> HIDE DEF f
  <2>2. /\ Forget(f, G) \in [DOMAIN Forget(f, G) -> Nat \ {0}]
        /\ DOMAIN Forget(f, G) = DOMAIN f \ G
    BY <2>1, ForgetFacts
  <2> QED BY <1>3, <2>2 DEF f
<1>13. Formed(c)
  BY <1>1, <1>3, <1>11, <1>12 DEF Formed
<1>14. Sound(c, {}, n)
  <2>1. Apart(Ids(c.queue), Ids(Msgs(c.leases)), Ids(c.dead), {}, c.read, c.dropped, c.discarded)
    BY <1>1, <1>3, <1>9, <1>10, <1>11 DEF Apart
  <2>2. c.offered = Ids(c.queue) \cup Ids(Msgs(c.leases)) \cup Ids(c.dead) \cup {}
                       \cup c.read \cup c.dropped \cup c.discarded
    BY <1>1, <1>3, <1>8, <1>9, <1>11
  <2>3. Numbered(c.offered, c.dropped, n)
    BY <1>1, <1>3, <1>8, <1>10 DEF Numbered
  <2> QED BY <1>1, <1>3, <1>12, <1>13, <2>1, <2>2, <2>3 DEF Sound
<1>15. c.offered \ b.offered = N
  BY <1>3, <1>8, <1>10
<1>16. Quiet(b, c)
  <2>1. GivesOnly(b, c, c.offered \ b.offered)
    BY <1>1, <1>3, SameAttempts
  <2>2. Grows(b, c)
    BY <1>3, <1>12 DEF Grows
  <2> QED BY <1>10, <1>15, <2>1, <2>2 DEF Quiet
<1>17. Ids(c.queue) \cap past = {} /\ Ids(c.queue) \subseteq Ids(b.queue) \cup (c.offered \ b.offered)
  <2>1. N \cap past = {}
    <3> SUFFICES ASSUME NEW i \in N, i \in past PROVE FALSE
      OBVIOUS
    <3>1. i \in Nat /\ i <= n /\ NoticeGap \in Nat
      BY MailboxAssumption
    <3>2. i > NoticeGap
      BY <1>10
    <3> QED BY <3>1, <3>2
  <2> QED BY <1>3, <1>9, <1>11, <1>15, <2>1
<1> QED BY <1>14, <1>16, <1>17 DEF Swept

-----------------------------------------------------------------------------
(* Delivery.                                                               *)

\* An expired message is dropped, counted and noted while there is room.
LEMMA CountExpiredSound ==
  ASSUME NEW b, NEW T, NEW n, Sound(b, T, n), NEW m \in Message, m.id \in T,
         NEW c, c = CountExpired(b, m)
  PROVE  /\ Sound(c, T \ {m.id}, n) /\ Quiet(b, c)
         /\ Ids(c.queue) \subseteq Ids(b.queue) \cup (c.offered \ b.offered)
<1> DEFINE a == NoticeAbout(m)
           q == Append(b.queue, a)
<1>1. /\ Formed(b) /\ IsBox(b)
      /\ Apart(Ids(b.queue), Ids(Msgs(b.leases)), Ids(b.dead), T, b.read, b.dropped, b.discarded)
      /\ b.offered = Ids(b.queue) \cup Ids(Msgs(b.leases)) \cup Ids(b.dead) \cup T
                       \cup b.read \cup b.dropped \cup b.discarded
      /\ MailList(b.queue) /\ Sorted(b.queue) /\ Len(b.queue) <= MaxQueue
      /\ Numbered(b.offered, b.dropped, n)
      /\ DOMAIN b.attempts \subseteq b.offered
      /\ b.attempts \in [DOMAIN b.attempts -> Nat \ {0}]
  BY DEF Sound, Formed
<1>2. CASE Len(b.queue) < MaxQueue
  <2>1. /\ IsBox(c) /\ c.present = TRUE /\ c.queue = q
        /\ c.dropped = b.dropped \cup {m.id} /\ c.offered = b.offered \cup {a.id}
        /\ c.attempts = b.attempts /\ c.leases = b.leases /\ c.dead = b.dead
        /\ c.read = b.read /\ c.waiters = b.waiters /\ c.discarded = b.discarded
    BY <1>1, <1>2 DEF CountExpired, IsBox, BoxFields
  <2>2. /\ a \in Message /\ a.id = m.id + NoticeGap /\ a.prio = 0
        /\ a.id \notin b.offered /\ a.id > NoticeGap /\ a.id \in Nat \ {0}
        /\ a.id - NoticeGap = m.id
    <3>1. m.id \in b.offered /\ m.id \notin b.dropped
      BY <1>1 DEF Apart
    <3>2. a.id = m.id + NoticeGap /\ a.prio = 0 /\ a \in Message
      BY <3>1, NoticeIsNew DEF NoticeAbout
    <3> HIDE DEF a
    <3> QED BY <3>1, <3>2, NoticeIdIsNew
  <2> HIDE DEF a
  <2>3. MailList(q) /\ Sorted(q) /\ Len(q) <= MaxQueue /\ Ids(q) = Ids(b.queue) \cup {a.id}
    <3> DEFINE one == <<a>>
    <3>1. MailList(one) /\ Ids(one) = {a.id} /\ DOMAIN one = {1} /\ one[1] = a /\ Len(one) = 1
      BY <2>2, OneList
    <3>2. b.queue \in Seq(Message) /\ Len(b.queue) \in Nat
      BY <1>1 DEF MailList
    <3>3. q = b.queue \o one
      BY <2>2, <3>2, AppendIsConcat
    <3> HIDE DEF one, q
    <3>4. Ids(b.queue) \cap Ids(one) = {}
      BY <1>1, <2>2, <3>1
    <3>5. MailList(q) /\ Ids(q) = Ids(b.queue) \cup Ids(one) /\ Len(q) = Len(b.queue) + Len(one)
      BY <1>1, <3>1, <3>3, <3>4, ConcatLists
    <3>6. Sorted(q)
      BY <1>1, <2>2, <3>1, <3>3, SortedConcat
    <3>7. Len(q) <= MaxQueue
      BY <1>2, <3>1, <3>2, <3>5, MailboxAssumption
    <3> QED BY <3>1, <3>5, <3>6, <3>7
  <2> HIDE DEF q
  <2>4. Formed(c)
    BY <1>1, <2>1, <2>3 DEF Formed
  <2>5. Sound(c, T \ {m.id}, n)
    <3>1. Apart(Ids(c.queue), Ids(Msgs(c.leases)), Ids(c.dead), T \ {m.id},
                c.read, c.dropped, c.discarded)
      BY <1>1, <2>1, <2>2, <2>3 DEF Apart
    <3>2. c.offered = Ids(c.queue) \cup Ids(Msgs(c.leases)) \cup Ids(c.dead) \cup (T \ {m.id})
                         \cup c.read \cup c.dropped \cup c.discarded
      BY <1>1, <2>1, <2>3
    <3>3. Numbered(c.offered, c.dropped, n)
      BY <1>1, <2>1, <2>2 DEF Numbered
    <3> QED BY <1>1, <2>1, <2>4, <3>1, <3>2, <3>3 DEF Sound
  <2>6. c.offered \ b.offered = {a.id}
    BY <2>1, <2>2
  <2>7. Quiet(b, c)
    <3>1. GivesOnly(b, c, c.offered \ b.offered)
      BY <1>1, <2>1, SameAttempts
    <3>2. Grows(b, c)
      BY <2>1 DEF Grows
    <3> QED BY <2>2, <2>6, <3>1, <3>2 DEF Quiet
  <2> QED BY <2>1, <2>3, <2>5, <2>6, <2>7
<1>3. CASE ~(Len(b.queue) < MaxQueue)
  <2>1. c = CountDrop(b, m)
    BY <1>3 DEF CountExpired
  <2>2. Dropped(b, c, T, {m.id}, n)
    BY <2>1, CountDropSound
  <2> QED BY <2>2 DEF Dropped
<1> QED BY <1>2, <1>3

\* A full mailbox makes room: its least urgent run loses its first message.
LEMMA MakeRoomSound ==
  ASSUME NEW b, NEW T, NEW n, Sound(b, T, n), NEW c, c = MakeRoom(b)
  PROVE  /\ Sound(c, T, n) /\ Quiet(b, c)
         /\ Ids(c.queue) \subseteq Ids(b.queue)
         /\ Len(c.queue) < MaxQueue
<1>1. /\ Formed(b) /\ IsBox(b)
      /\ Apart(Ids(b.queue), Ids(Msgs(b.leases)), Ids(b.dead), T, b.read, b.dropped, b.discarded)
      /\ b.offered = Ids(b.queue) \cup Ids(Msgs(b.leases)) \cup Ids(b.dead) \cup T
                       \cup b.read \cup b.dropped \cup b.discarded
      /\ MailList(b.queue) /\ Sorted(b.queue) /\ Len(b.queue) <= MaxQueue
      /\ b.attempts \in [DOMAIN b.attempts -> Nat \ {0}]
  BY DEF Sound, Formed
<1>2. CASE Len(b.queue) < MaxQueue
  <2>1. c = b
    BY <1>2 DEF MakeRoom
  <2>2. Quiet(b, b)
    BY <1>1, QuietReflexive
  <2> QED BY <1>2, <2>1, <2>2
<1>3. CASE ~(Len(b.queue) < MaxQueue)
  <2> DEFINE victim == LowestPriorityIndex(b.queue)
             m      == b.queue[victim]
             q      == RemoveAt(b.queue, victim)
             d      == [b EXCEPT !.queue = q]
             U      == T \cup {m.id}
  <2>1. /\ b.queue \in Seq(Message) /\ Len(b.queue) \in Nat \ {0}
        /\ DOMAIN b.queue = 1..Len(b.queue)
    <3>1. b.queue \in Seq(Message) /\ Len(b.queue) \in Nat /\ DOMAIN b.queue = 1..Len(b.queue)
      BY <1>1 DEF MailList
    <3> QED BY <1>3, <3>1, MailboxAssumption
  <2>2. victim \in 1..Len(b.queue)
    <3> DEFINE s   == b.queue
               run == {i \in DOMAIN s : \A j \in i..Len(s) : s[j].prio = s[Len(s)].prio}
    <3>1. DOMAIN s = 1..Len(s) /\ Len(s) \in Nat \ {0}
      BY <2>1
    <3>2. LowestPriorityIndex(s) = CHOOSE i \in run : \A j \in run : i <= j
      BY DEF LowestPriorityIndex
    <3> HIDE DEF s
    <3>3. Len(s) \in run /\ run \subseteq 1..Len(s)
      BY <3>1
    <3> HIDE DEF run
    <3>4. \E i \in run : \A j \in run : i <= j
      <4>1. run \subseteq Nat /\ run # {}
        BY <3>1, <3>3
      <4> QED BY <4>1, LeastNumber
    <3>5. LowestPriorityIndex(s) \in run
      BY <3>2, <3>4
    <3> QED BY <3>3, <3>5 DEF s
  <2>3. c = Evict(d, m)
    BY <1>3 DEF MakeRoom
  <2>4. /\ IsBox(d) /\ d.queue = q
        /\ d.present = b.present /\ d.leases = b.leases /\ d.dead = b.dead
        /\ d.attempts = b.attempts /\ d.dropped = b.dropped /\ d.offered = b.offered
        /\ d.read = b.read /\ d.waiters = b.waiters /\ d.discarded = b.discarded
    BY <1>1 DEF IsBox, BoxFields
  <2> HIDE DEF victim, d
  <2>5. m \in Message /\ m.id \in Ids(b.queue)
    BY <2>1, <2>2 DEF Ids
  <2>6. /\ MailList(q) /\ Ids(q) = Ids(b.queue) \ {m.id}
        /\ Len(q) = Len(b.queue) - 1 /\ Sorted(q)
    BY <1>1, <2>2, RemoveFromList
  <2> HIDE DEF m, q
  <2>7. Len(q) < MaxQueue /\ Len(q) <= MaxQueue
    BY <1>1, <2>1, <2>6, MailboxAssumption
  <2>8. Formed(d)
    BY <1>1, <2>4, <2>6, <2>7 DEF Formed
  <2>9. Sound(d, U, n)
    <3>1. Apart(Ids(d.queue), Ids(Msgs(d.leases)), Ids(d.dead), U, d.read, d.dropped, d.discarded)
      BY <1>1, <2>4, <2>5, <2>6 DEF Apart
    <3>2. d.offered = Ids(d.queue) \cup Ids(Msgs(d.leases)) \cup Ids(d.dead) \cup U
                         \cup d.read \cup d.dropped \cup d.discarded
      BY <1>1, <2>4, <2>5, <2>6
    <3> HIDE DEF U
    <3> QED BY <2>4, <2>8, <3>1, <3>2 DEF Sound
  <2>10. Dropped(d, c, U, {m.id}, n)
    <3>1. m.id \in U
      OBVIOUS
    <3> HIDE DEF U
    <3> QED BY <2>3, <2>5, <2>9, <3>1, EvictSound
  <2>11. U \ {m.id} = T
    BY <1>1, <2>5 DEF Apart
  <2>12. Quiet(b, c)
    <3>1. Quiet(b, d)
      BY <1>1, <2>4, QuietSame
    <3>2. Formed(c) /\ Quiet(d, c)
      BY <2>10 DEF Dropped, Sound
    <3> QED BY <1>1, <2>8, <3>1, <3>2, QuietTransitive
  <2> QED BY <2>4, <2>6, <2>7, <2>10, <2>11, <2>12 DEF Dropped
<1> QED BY <1>2, <1>3

\* A message is put into the queue once there is room.
LEMMA EnqueueSound ==
  ASSUME NEW b, NEW T, NEW n, Sound(b, T, n), NEW m \in Message, m.id \in T,
         NEW c, c = Enqueue(b, m)
  PROVE  PutBack(b, c, T, {m.id}, n)
<1> DEFINE d == MakeRoom(b)
           q == InsertOne(d.queue, m)
<1>1. /\ Sound(d, T, n) /\ Quiet(b, d)
      /\ Ids(d.queue) \subseteq Ids(b.queue)
      /\ Len(d.queue) < MaxQueue
  BY MakeRoomSound
<1>2. c = [d EXCEPT !.present = TRUE, !.queue = InsertOne(@, m)]
  BY DEF Enqueue
<1> HIDE DEF d
<1>3. /\ Formed(d) /\ IsBox(d) /\ Formed(b)
      /\ Apart(Ids(d.queue), Ids(Msgs(d.leases)), Ids(d.dead), T, d.read, d.dropped, d.discarded)
      /\ d.offered = Ids(d.queue) \cup Ids(Msgs(d.leases)) \cup Ids(d.dead) \cup T
                       \cup d.read \cup d.dropped \cup d.discarded
      /\ MailList(d.queue) /\ Sorted(d.queue)
      /\ d.attempts \in [DOMAIN d.attempts -> Nat \ {0}]
  BY <1>1 DEF Sound, Formed
<1>4. /\ IsBox(c) /\ c.present = TRUE /\ c.queue = q
      /\ c.leases = d.leases /\ c.dead = d.dead
      /\ c.attempts = d.attempts /\ c.dropped = d.dropped /\ c.offered = d.offered
      /\ c.read = d.read /\ c.waiters = d.waiters /\ c.discarded = d.discarded
  BY <1>2, <1>3 DEF IsBox, BoxFields
<1>5. /\ MailList(q) /\ Ids(q) = Ids(d.queue) \cup {m.id}
      /\ Len(q) = Len(d.queue) + 1 /\ Sorted(q)
  <2>1. m.id \notin Ids(d.queue)
    BY <1>3 DEF Apart
  <2> QED BY <1>3, <2>1, InsertOneList
<1> HIDE DEF q
<1>6. Len(q) <= MaxQueue
  <2>1. Len(d.queue) \in Nat
    BY <1>3 DEF MailList
  <2> QED BY <1>1, <1>5, <2>1, MailboxAssumption
<1>7. Formed(c)
  BY <1>3, <1>4, <1>5, <1>6 DEF Formed
<1>8. Sound(c, T \ {m.id}, n)
  <2>1. Apart(Ids(c.queue), Ids(Msgs(c.leases)), Ids(c.dead), T \ {m.id},
              c.read, c.dropped, c.discarded)
    BY <1>3, <1>4, <1>5 DEF Apart
  <2>2. c.offered = Ids(c.queue) \cup Ids(Msgs(c.leases)) \cup Ids(c.dead) \cup (T \ {m.id})
                       \cup c.read \cup c.dropped \cup c.discarded
    BY <1>3, <1>4, <1>5
  <2> QED BY <1>1, <1>4, <1>7, <2>1, <2>2 DEF Sound
<1>9. Quiet(b, c)
  <2>1. Quiet(d, c)
    BY <1>3, <1>4, QuietSame
  <2> QED BY <1>1, <1>3, <1>7, <2>1, QuietTransitive
<1>10. Ids(c.queue) \subseteq Ids(b.queue) \cup {m.id}
  BY <1>1, <1>4, <1>5
<1> QED BY <1>8, <1>9, <1>10 DEF PutBack

\* Box c is box b after the delivery of the message numbered n + 1.
Delivered(b, c, late, n) ==
  /\ Sound(c, {}, n + 1) /\ Grows(b, c)
  /\ \A i \in c.offered \ b.offered : i > NoticeGap \/ i = n + 1
  /\ GivesOnly(b, c, c.offered \ b.offered)
  /\ late => GivesOnly(b, c, (c.offered \ b.offered) \ {n + 1})
  /\ Ids(c.queue) \subseteq Ids(b.queue) \cup (c.offered \ b.offered)

\* A delivery hands the message over, queues it or counts it as dropped.
LEMMA DeliverSound ==
  ASSUME NEW b, NEW n \in Nat, n + 1 <= NoticeGap, Sound(b, {}, n),
         NEW m \in Message, m.id = n + 1, NEW late \in BOOLEAN, NEW admitted \in BOOLEAN,
         NEW c, c = Deliver(b, m, late, admitted)
  PROVE  Delivered(b, c, late, n)
<1> DEFINE a == [b EXCEPT !.offered = @ \cup {m.id}]
           T == {m.id}
<1>1. /\ Formed(b) /\ IsBox(b)
      /\ Apart(Ids(b.queue), Ids(Msgs(b.leases)), Ids(b.dead), {}, b.read, b.dropped, b.discarded)
      /\ b.offered = Ids(b.queue) \cup Ids(Msgs(b.leases)) \cup Ids(b.dead) \cup {}
                       \cup b.read \cup b.dropped \cup b.discarded
      /\ Numbered(b.offered, b.dropped, n)
      /\ DOMAIN b.attempts \subseteq b.offered
      /\ b.attempts \in [DOMAIN b.attempts -> Nat \ {0}]
  BY DEF Sound, Formed
<1>2. m.id \notin b.offered
  <2>1. ~(n + 1 <= n) /\ ~(n + 1 > NoticeGap)
    BY MailboxAssumption
  <2> QED BY <1>1, <2>1 DEF Numbered
<1>3. /\ IsBox(a) /\ a.offered = b.offered \cup {m.id}
      /\ a.present = b.present /\ a.queue = b.queue /\ a.leases = b.leases
      /\ a.dead = b.dead /\ a.attempts = b.attempts /\ a.waiters = b.waiters
      /\ a.read = b.read /\ a.dropped = b.dropped /\ a.discarded = b.discarded
  BY <1>1 DEF IsBox, BoxFields
<1>4. /\ late => c = CountExpired(a, m)
      /\ ~late /\ Listeners(b, m) # {} => c = HandToWaiter(a, m)
      /\ ~late /\ Listeners(b, m) = {} /\ ~admitted => c = CountDrop(a, m)
      /\ ~late /\ Listeners(b, m) = {} /\ admitted => c = Enqueue(a, m)
  BY DEF Deliver
<1>5. Listeners(a, m) = Listeners(b, m)
  BY <1>3 DEF Listeners
<1>6. [a EXCEPT !.offered = @ \cup {m.id}] = a
  BY <1>1 DEF IsBox, BoxFields
<1> HIDE DEF a
<1>7. Formed(a)
  BY <1>1, <1>3 DEF Formed
<1>8. Sound(a, T, n + 1)
  <2>1. Apart(Ids(a.queue), Ids(Msgs(a.leases)), Ids(a.dead), T, a.read, a.dropped, a.discarded)
    BY <1>1, <1>2, <1>3 DEF Apart
  <2>2. a.offered = Ids(a.queue) \cup Ids(Msgs(a.leases)) \cup Ids(a.dead) \cup T
                       \cup a.read \cup a.dropped \cup a.discarded
    BY <1>1, <1>3
  <2>3. Numbered(a.offered, a.dropped, n + 1)
    <3>1. n + 1 \in Nat \ {0} /\ n + 1 <= n + 1 /\ ~(n + 1 > NoticeGap)
      BY MailboxAssumption
    <3>2. \A i \in b.offered : i <= n + 1 \/ i > NoticeGap
      BY <1>1 DEF Numbered
    <3> QED BY <1>1, <1>3, <3>1, <3>2 DEF Numbered
  <2> HIDE DEF T
  <2> QED BY <1>1, <1>3, <1>7, <2>1, <2>2, <2>3 DEF Sound
<1>9. ASSUME Sound(c, T \ {m.id}, n + 1), Quiet(a, c),
             Ids(c.queue) \subseteq Ids(a.queue) \cup (c.offered \ b.offered)
      PROVE  Delivered(b, c, late, n)
  <2>1. Grows(b, c)
    BY <1>3, <1>9 DEF Quiet, Grows
  <2>2. \A i \in c.offered \ b.offered : i > NoticeGap \/ i = n + 1
    BY <1>3, <1>9 DEF Quiet
  <2>3. GivesOnly(b, c, c.offered \ a.offered)
    BY <1>3, <1>9 DEF Quiet, GivesOnly, Attempts
  <2>4. /\ GivesOnly(b, c, c.offered \ b.offered)
        /\ GivesOnly(b, c, (c.offered \ b.offered) \ {n + 1})
    <3>1. c.offered \ a.offered = (c.offered \ b.offered) \ {n + 1}
      BY <1>3
    <3> QED BY <2>3, <3>1 DEF GivesOnly
  <2>5. T \ {m.id} = {}
    OBVIOUS
  <2>6. Ids(c.queue) \subseteq Ids(b.queue) \cup (c.offered \ b.offered)
    BY <1>3, <1>9
  <2> HIDE DEF T
  <2> QED BY <1>9, <2>1, <2>2, <2>4, <2>5, <2>6 DEF Delivered
<1>10. m.id \in T
  OBVIOUS
<1> HIDE DEF T
<1>11. CASE late
  <2>1. /\ Sound(c, T \ {m.id}, n + 1) /\ Quiet(a, c)
        /\ Ids(c.queue) \subseteq Ids(a.queue) \cup (c.offered \ a.offered)
    BY <1>4, <1>8, <1>10, <1>11, CountExpiredSound
  <2> QED BY <1>3, <1>9, <2>1
<1>12. CASE ~late /\ Listeners(b, m) # {}
  <2>1. Gave(a, c, T, {m.id}, n + 1)
    <3>1. Listeners(a, m) # {} /\ c = HandToWaiter(a, m)
      BY <1>4, <1>5, <1>12
    <3> DEFINE e == [a EXCEPT !.offered = @ \cup {m.id}]
    <3>2. Sound(e, T, n + 1) /\ e = [a EXCEPT !.offered = @ \cup {m.id}]
      BY <1>6, <1>8
    <3> HIDE DEF e
    <3> QED BY <1>3, <1>10, <3>1, <3>2, HandToWaiterSound
  <2>2. Grows(b, c)
    BY <1>3, <2>1 DEF Gave, Grows
  <2>3. c.offered \ b.offered = {n + 1}
    BY <1>2, <1>3, <2>1 DEF Gave
  <2>4. GivesOnly(b, c, {n + 1})
    BY <1>3, <2>1 DEF Gave, GivesOnly, Attempts
  <2>5. T \ {m.id} = {}
    BY DEF T
  <2>6. Ids(c.queue) = Ids(b.queue)
    BY <1>3, <2>1 DEF Gave
  <2> QED BY <1>12, <2>1, <2>2, <2>3, <2>4, <2>5, <2>6 DEF Gave, Delivered
<1>13. CASE ~late /\ Listeners(b, m) = {} /\ ~admitted
  <2>1. Dropped(a, c, T, {m.id}, n + 1)
    BY <1>4, <1>8, <1>10, <1>13, CountDropSound
  <2> QED BY <1>9, <2>1 DEF Dropped
<1>14. CASE ~late /\ Listeners(b, m) = {} /\ admitted
  <2>1. PutBack(a, c, T, {m.id}, n + 1)
    BY <1>4, <1>8, <1>10, <1>14, EnqueueSound
  <2>2. m.id \in c.offered \ b.offered
    BY <1>2, <1>3, <2>1 DEF PutBack, Quiet, Grows
  <2> QED BY <1>9, <2>1, <2>2 DEF PutBack
<1> QED BY <1>11, <1>12, <1>13, <1>14

-----------------------------------------------------------------------------
(* Taking mail.                                                            *)

\* Box c is box b after the messages I of its queue were given to the owner.
TookFrom(b, c, I, n) ==
  /\ Sound(c, {}, n) /\ Grows(b, c) /\ GivesOnly(b, c, I)
  /\ Ids(c.queue) \subseteq Ids(b.queue)

\* Messages that a take picks from the queue leave it and are given.
LEMMA TakeSound ==
  ASSUME NEW b, NEW n, Sound(b, {}, n),
         NEW taken, MailList(taken), Elements(taken) \subseteq Elements(b.queue),
         NEW manual \in BOOLEAN,
         NEW d, d = [b EXCEPT !.queue = KeepIn(@, Elements(@) \ Elements(taken))],
         NEW c, c = HandOut(d, taken, manual)
  PROVE  TookFrom(b, c, Ids(taken), n)
<1> DEFINE q == KeepIn(b.queue, Elements(b.queue) \ Elements(taken))
           I == Ids(taken)
<1>1. /\ Formed(b) /\ IsBox(b)
      /\ Apart(Ids(b.queue), Ids(Msgs(b.leases)), Ids(b.dead), {}, b.read, b.dropped, b.discarded)
      /\ b.offered = Ids(b.queue) \cup Ids(Msgs(b.leases)) \cup Ids(b.dead) \cup {}
                       \cup b.read \cup b.dropped \cup b.discarded
      /\ MailList(b.queue) /\ Sorted(b.queue) /\ Len(b.queue) <= MaxQueue
  BY DEF Sound, Formed
<1>2. /\ IsBox(d) /\ d.queue = q
      /\ d.present = b.present /\ d.leases = b.leases /\ d.dead = b.dead
      /\ d.attempts = b.attempts /\ d.dropped = b.dropped /\ d.offered = b.offered
      /\ d.read = b.read /\ d.waiters = b.waiters /\ d.discarded = b.discarded
  BY <1>1 DEF IsBox, BoxFields
<1>3. I = {m.id : m \in Elements(taken)} /\ Ids(b.queue) = {m.id : m \in Elements(b.queue)}
  BY DEF Ids, Elements
<1>4. MailList(q) /\ Ids(q) = Ids(b.queue) \ I /\ Sorted(q) /\ Len(q) <= Len(b.queue)
  <2> DEFINE S == Elements(taken)
  <2>1. S \subseteq Elements(b.queue) /\ I = {m.id : m \in S}
    BY <1>3
  <2> HIDE DEF S, I
  <2>2. /\ MailList(KeepIn(b.queue, Elements(b.queue) \ S))
        /\ Ids(KeepIn(b.queue, Elements(b.queue) \ S)) = Ids(b.queue) \ {m.id : m \in S}
        /\ Sorted(KeepIn(b.queue, Elements(b.queue) \ S))
        /\ Len(KeepIn(b.queue, Elements(b.queue) \ S)) <= Len(b.queue)
    BY <1>1, <2>1, KeepOthers
  <2> QED BY <2>1, <2>2 DEF S
<1>5. I \subseteq Ids(b.queue)
  BY <1>3
<1> HIDE DEF q, I
<1>6. Len(q) <= MaxQueue
  <2>1. Len(q) \in Nat /\ Len(b.queue) \in Nat
    BY <1>1, <1>4 DEF MailList
  <2> QED BY <1>1, <1>4, <2>1, MailboxAssumption
<1>7. Formed(d)
  BY <1>1, <1>2, <1>4, <1>6 DEF Formed
<1>8. Sound(d, I, n)
  <2>1. Apart(Ids(d.queue), Ids(Msgs(d.leases)), Ids(d.dead), I, d.read, d.dropped, d.discarded)
    BY <1>1, <1>2, <1>4, <1>5 DEF Apart
  <2>2. d.offered = Ids(d.queue) \cup Ids(Msgs(d.leases)) \cup Ids(d.dead) \cup I
                       \cup d.read \cup d.dropped \cup d.discarded
    BY <1>1, <1>2, <1>4, <1>5
  <2> QED BY <1>2, <1>7, <2>1, <2>2 DEF Sound
<1>9. Gave(d, c, I, Ids(taken), n)
  <2>1. Ids(taken) \subseteq I
    BY DEF I
  <2> QED BY <1>8, <2>1, HandOutSound
<1>10. I \ Ids(taken) = {}
  BY DEF I
<1>11. Grows(b, c) /\ GivesOnly(b, c, Ids(taken))
  BY <1>2, <1>9 DEF Gave, Grows, GivesOnly, Attempts
<1>12. Ids(c.queue) \subseteq Ids(b.queue)
  BY <1>2, <1>4, <1>9 DEF Gave
<1> QED BY <1>9, <1>10, <1>11, <1>12 DEF Gave, TookFrom

\* Box c is box b after its owner took mail: nothing due was given, and
\* nothing exhausted.
Took(b, c, past, n) ==
  /\ Sound(c, {}, n) /\ Grows(b, c)
  /\ \E I : /\ GivesOnly(b, c, I) /\ I \cap past = {}
            /\ \A i \in Ids(Msgs(b.leases)) : Exhausted(b, i) => i \notin I \cup Ids(c.queue)

\* A take first brings back the lapsed leases, then sweeps what is due; what it
\* may give after that is in the queue.
LEMMA TidySound ==
  ASSUME NEW b, NEW n \in Nat, n <= NoticeGap, Sound(b, {}, n), NEW past, past \subseteq 1..n,
         NEW s, s = SweepExpired(ReapLeases(b), past)
  PROVE  /\ Sound(s, {}, n)
         /\ \A c, I : /\ Sound(c, {}, n) /\ Grows(s, c) /\ GivesOnly(s, c, I)
                      /\ I \subseteq Ids(s.queue) /\ Ids(c.queue) \subseteq Ids(s.queue)
                      => Took(b, c, past, n)
<1> DEFINE r == ReapLeases(b)
<1>1. Reaped(b, r, n)
  BY ReapLeasesSound
<1>2. Sound(r, {}, n)
  BY <1>1 DEF Reaped
<1>3. s = SweepExpired(r, past)
  OBVIOUS
<1> HIDE DEF r
<1>4. Swept(r, s, past, n)
  BY <1>2, <1>3, SweepExpiredSound
<1>5. Sound(s, {}, n)
  BY <1>4 DEF Swept
<1>6. ASSUME NEW c, NEW I, Sound(c, {}, n), Grows(s, c), GivesOnly(s, c, I),
             I \subseteq Ids(s.queue), Ids(c.queue) \subseteq Ids(s.queue)
      PROVE  Took(b, c, past, n)
  <2> DEFINE N == s.offered \ b.offered
  <2>1. Quiet(b, s)
    <3>1. Formed(b) /\ Formed(r) /\ Formed(s)
      BY <1>2, <1>5 DEF Sound
    <3>2. Quiet(b, r) /\ Quiet(r, s)
      BY <1>1, <1>4 DEF Reaped, Swept
    <3> QED BY <3>1, <3>2, QuietTransitive
  <2>2. Grows(b, c)
    BY <1>6, <2>1, GrowsTransitive DEF Quiet
  <2>3. GivesOnly(b, c, N \cup I)
    <3>1. GivesOnly(b, s, N)
      BY <2>1 DEF Quiet
    <3>2. /\ b.attempts \in [DOMAIN b.attempts -> Nat \ {0}]
          /\ s.attempts \in [DOMAIN s.attempts -> Nat \ {0}]
          /\ c.attempts \in [DOMAIN c.attempts -> Nat \ {0}]
      BY <1>5, <1>6 DEF Sound, Formed
    <3> HIDE DEF N
    <3> QED BY <1>6, <3>1, <3>2, GivesTransitive
  <2>4. (N \cup I) \cap past = {}
    <3>1. I \cap past = {}
      BY <1>4, <1>6 DEF Swept
    <3>2. N \cap past = {}
      <4> SUFFICES ASSUME NEW i \in N, i \in past PROVE FALSE
        OBVIOUS
      <4>1. i \in Nat /\ i <= n /\ NoticeGap \in Nat
        BY MailboxAssumption
      <4>2. i > NoticeGap
        BY <2>1 DEF Quiet
      <4> QED BY <4>1, <4>2
    <3> QED BY <3>1, <3>2
  <2>5. ASSUME NEW i \in Ids(Msgs(b.leases)), Exhausted(b, i)
        PROVE  i \notin (N \cup I) \cup Ids(c.queue)
    <3>1. i \in b.offered
      BY DEF Sound
    <3>2. i \notin Ids(r.queue)
      BY <1>1, <2>5 DEF Reaped
    <3>3. b.offered \subseteq r.offered
      BY <1>1 DEF Reaped, Quiet, Grows
    <3>4. i \notin Ids(s.queue)
      BY <1>4, <3>1, <3>2, <3>3 DEF Swept
    <3> QED BY <1>6, <3>1, <3>4
  <2> QED BY <1>6, <2>2, <2>3, <2>4, <2>5 DEF Took
<1> QED BY <1>5, <1>6

\* poll gives the whole queue, or what one sender and the hub put there.
LEMMA PollSound ==
  ASSUME NEW b, NEW n \in Nat, n <= NoticeGap, Sound(b, {}, n), NEW past, past \subseteq 1..n,
         NEW from, NEW manual \in BOOLEAN, NEW c, c = Poll(b, past, from, manual)
  PROVE  Took(b, c, past, n)
<1> DEFINE s     == SweepExpired(ReapLeases(b), past)
           taken == IF from = None THEN s.queue ELSE DrainFrom(s.queue, from)
           d     == [s EXCEPT !.queue = KeepIn(@, Elements(@) \ Elements(taken))]
<1>1. c = HandOut(d, taken, manual)
  BY DEF Poll
<1>2. /\ Sound(s, {}, n)
      /\ \A e, I : /\ Sound(e, {}, n) /\ Grows(s, e) /\ GivesOnly(s, e, I)
                   /\ I \subseteq Ids(s.queue) /\ Ids(e.queue) \subseteq Ids(s.queue)
                   => Took(b, e, past, n)
  BY TidySound
<1> HIDE DEF s
<1>3. MailList(s.queue)
  BY <1>2 DEF Sound, Formed
<1>4. MailList(taken) /\ Elements(taken) \subseteq Elements(s.queue)
  <2>1. CASE from = None
    BY <1>3, <2>1
  <2>2. CASE from # None
    <3> DEFINE S == {m \in Elements(s.queue) : m.from \in {from, Hub}}
    <3>1. taken = KeepIn(s.queue, S)
      BY <2>2 DEF DrainFrom
    <3> HIDE DEF S, taken
    <3>2. MailList(KeepIn(s.queue, S)) /\ Elements(KeepIn(s.queue, S)) \subseteq Elements(s.queue) \cap S
      BY <1>3, KeepInList
    <3> QED BY <3>1, <3>2
  <2> QED BY <2>1, <2>2
<1> HIDE DEF taken
<1>5. TookFrom(s, c, Ids(taken), n)
  <2>1. /\ d = [s EXCEPT !.queue = KeepIn(@, Elements(@) \ Elements(taken))]
        /\ c = HandOut(d, taken, manual) /\ manual \in BOOLEAN
    BY <1>1
  <2>2. Sound(s, {}, n)
    BY <1>2
  <2> HIDE DEF d
  <2> QED BY <1>4, <2>1, <2>2, TakeSound
<1>6. Ids(taken) \subseteq Ids(s.queue)
  BY <1>4 DEF Ids, Elements
<1> QED BY <1>2, <1>5, <1>6 DEF TookFrom

\* wait gives some of what the waiter listens for, or makes it wait.
LEMMA WaitSound ==
  ASSUME NEW b, NEW n \in Nat, n <= NoticeGap, Sound(b, {}, n), NEW past, past \subseteq 1..n,
         NEW w \in Waiter, NEW most \in Nat, NEW c, c = Wait(b, past, w, most)
  PROVE  Took(b, c, past, n)
<1> DEFINE s        == SweepExpired(ReapLeases(b), past)
           S        == {m \in Elements(s.queue) : MatchesWaiter(w, m)}
           matching == KeepIn(s.queue, S)
           size     == IF Len(matching) < most THEN Len(matching) ELSE most
           taken    == SubSeq(matching, 1, size)
           d        == [s EXCEPT !.queue = KeepIn(@, Elements(@) \ Elements(taken))]
<1>1. /\ matching = <<>> => c = [s EXCEPT !.waiters = Append(@, w)]
      /\ matching # <<>> => c = HandOut(d, taken, w.manual)
  BY DEF Wait
<1>2. /\ Sound(s, {}, n)
      /\ \A e, I : /\ Sound(e, {}, n) /\ Grows(s, e) /\ GivesOnly(s, e, I)
                   /\ I \subseteq Ids(s.queue) /\ Ids(e.queue) \subseteq Ids(s.queue)
                   => Took(b, e, past, n)
  BY TidySound
<1> HIDE DEF s, S
<1>3. /\ Formed(s) /\ IsBox(s) /\ MailList(s.queue) /\ s.waiters \in Seq(Waiter)
      /\ s.attempts \in [DOMAIN s.attempts -> Nat \ {0}]
  BY <1>2 DEF Sound, Formed
<1>4. CASE matching = <<>>
  <2>1. /\ IsBox(c) /\ c.waiters = Append(s.waiters, w)
        /\ c.present = s.present /\ c.queue = s.queue /\ c.leases = s.leases
        /\ c.dead = s.dead /\ c.attempts = s.attempts /\ c.offered = s.offered
        /\ c.read = s.read /\ c.dropped = s.dropped /\ c.discarded = s.discarded
    <3>1. c = [s EXCEPT !.waiters = Append(@, w)]
      BY <1>1, <1>4
    <3> QED BY <1>3, <3>1 DEF IsBox, BoxFields
  <2>2. c.waiters \in Seq(Waiter)
    BY <1>3, <2>1, AppendProperties
  <2>3. Sound(c, {}, n)
    BY <1>2, <2>1, <2>2 DEF Sound, Formed
  <2>4. Grows(s, c)
    BY <2>1 DEF Grows
  <2>5. GivesOnly(s, c, {})
    BY <1>3, <2>1, SameAttempts
  <2> QED BY <1>2, <2>1, <2>3, <2>4, <2>5
<1>5. CASE matching # <<>>
  <2>1. MailList(matching) /\ Elements(matching) \subseteq Elements(s.queue)
    BY <1>3, KeepInList
  <2>2. c = HandOut(d, taken, w.manual)
    BY <1>1, <1>5
  <2> HIDE DEF matching
  <2>3. size \in 0..Len(matching)
    BY <2>1 DEF MailList
  <2> HIDE DEF size
  <2>4. MailList(taken) /\ Elements(taken) \subseteq Elements(matching)
    BY <2>1, <2>3, CutList
  <2> HIDE DEF taken
  <2>5. Elements(taken) \subseteq Elements(s.queue)
    BY <2>1, <2>4
  <2>6. w.manual \in BOOLEAN
    BY DEF Waiter
  <2>7. TookFrom(s, c, Ids(taken), n)
    <3> DEFINE manual == w.manual
    <3>1. /\ d = [s EXCEPT !.queue = KeepIn(@, Elements(@) \ Elements(taken))]
          /\ c = HandOut(d, taken, manual) /\ manual \in BOOLEAN
      BY <2>2, <2>6
    <3> HIDE DEF d, manual
    <3> QED BY <1>2, <2>4, <2>5, <3>1, TakeSound
  <2>8. Ids(taken) \subseteq Ids(s.queue)
    BY <2>5 DEF Ids, Elements
  <2> QED BY <1>2, <2>7, <2>8 DEF TookFrom
<1> QED BY <1>4, <1>5

-----------------------------------------------------------------------------
(* Settling mail, and what moves no mail at all.                           *)

\* Box c is box b after its owner committed the messages I.
Committed(b, c, I, n) ==
  /\ Sound(c, {}, n) /\ Grows(b, c) /\ GivesOnly(b, c, I)
  /\ \A i : Attempts(c, i) <= Attempts(b, i)
  /\ c.queue = b.queue

\* A commit settles the leases it names, and forgets their attempts.
LEMMA CommitSound ==
  ASSUME NEW b, NEW n, Sound(b, {}, n), NEW ids, NEW c, c = Commit(b, ids)
  PROVE  Committed(b, c, Ids(Msgs(b.leases)) \cap ids, n)
<1> DEFINE released == {l \in Elements(b.leases) : l.msg.id \in ids}
           kept     == KeepIn(b.leases, Elements(b.leases) \ released)
           gone     == Ids(Msgs(KeepIn(b.leases, released)))
           f        == Forget(b.attempts, gone)
<1>1. /\ Formed(b) /\ IsBox(b)
      /\ Apart(Ids(b.queue), Ids(Msgs(b.leases)), Ids(b.dead), {}, b.read, b.dropped, b.discarded)
      /\ b.offered = Ids(b.queue) \cup Ids(Msgs(b.leases)) \cup Ids(b.dead) \cup {}
                       \cup b.read \cup b.dropped \cup b.discarded
      /\ LeaseList(b.leases) /\ DOMAIN b.attempts \subseteq b.offered
      /\ b.attempts \in [DOMAIN b.attempts -> Nat \ {0}]
  BY DEF Sound, Formed
<1>2. /\ IsBox(c) /\ c.leases = kept /\ c.attempts = f /\ c.read = b.read \cup gone
      /\ c.present = b.present /\ c.queue = b.queue /\ c.dead = b.dead
      /\ c.dropped = b.dropped /\ c.offered = b.offered
      /\ c.waiters = b.waiters /\ c.discarded = b.discarded
  BY <1>1 DEF Commit, IsBox, BoxFields
<1>3. Ids(Msgs(b.leases)) = {l.msg.id : l \in Elements(b.leases)}
  BY <1>1, LeaseById
<1>4. gone = Ids(Msgs(b.leases)) \cap ids
  <2>1. gone = {l.msg.id : l \in Elements(b.leases) \cap released}
    <3> HIDE DEF released
    <3> QED BY <1>1, KeepInLeases
  <2> QED BY <1>3, <2>1
<1>5. LeaseList(kept) /\ Ids(Msgs(kept)) = Ids(Msgs(b.leases)) \ gone
  <2>1. /\ LeaseList(kept)
        /\ Ids(Msgs(kept)) = {l.msg.id : l \in Elements(b.leases) \cap (Elements(b.leases) \ released)}
    <3> HIDE DEF released
    <3> QED BY <1>1, KeepInLeases
  <2> HIDE DEF kept, gone
  <2> QED BY <1>3, <1>4, <2>1
<1> HIDE DEF kept, gone, released
<1>6. f \in [DOMAIN f -> Nat \ {0}] /\ DOMAIN f = DOMAIN b.attempts \ gone
      /\ \A i \in DOMAIN b.attempts \ gone : f[i] = b.attempts[i]
  <2> DEFINE g == b.attempts
  <2>1. g \in [DOMAIN g -> Nat \ {0}]
    BY <1>1
  <2> HIDE DEF g
  <2>2. /\ Forget(g, gone) \in [DOMAIN Forget(g, gone) -> Nat \ {0}]
        /\ DOMAIN Forget(g, gone) = DOMAIN g \ gone
        /\ \A i \in DOMAIN g \ gone : Forget(g, gone)[i] = g[i]
    BY <2>1, ForgetFacts
  <2> QED BY <2>2 DEF g
<1>7. Sound(c, {}, n)
  <2> HIDE DEF f
  <2>1. Formed(c)
    BY <1>1, <1>2, <1>5, <1>6 DEF Formed
  <2>2. Apart(Ids(c.queue), Ids(Msgs(c.leases)), Ids(c.dead), {}, c.read, c.dropped, c.discarded)
    BY <1>1, <1>2, <1>4, <1>5 DEF Apart
  <2>3. c.offered = Ids(c.queue) \cup Ids(Msgs(c.leases)) \cup Ids(c.dead) \cup {}
                       \cup c.read \cup c.dropped \cup c.discarded
    BY <1>1, <1>2, <1>4, <1>5
  <2>4. Numbered(c.offered, c.dropped, n)
    BY <1>2 DEF Sound
  <2> QED BY <1>1, <1>2, <1>6, <2>1, <2>2, <2>3, <2>4 DEF Sound
<1>8. Grows(b, c)
  <2> HIDE DEF f
  <2> QED BY <1>2, <1>6 DEF Grows
<1>9. GivesOnly(b, c, gone)
  <2> HIDE DEF f
  <2>1. c.attempts = Forget(b.attempts, gone)
    BY <1>2 DEF f
  <2>2. c.read \ b.read \subseteq gone
    BY <1>2
  <2> QED BY <1>1, <2>1, <2>2, SameAttempts
<1>10. ASSUME NEW i PROVE Attempts(c, i) <= Attempts(b, i)
  <2> HIDE DEF f
  <2>1. Attempts(b, i) \in Nat
    BY <1>1, AttemptsNat
  <2>2. CASE i \in DOMAIN f
    BY <1>2, <1>6, <2>1, <2>2 DEF Attempts
  <2>3. CASE i \notin DOMAIN f
    BY <1>2, <2>1, <2>3 DEF Attempts
  <2> QED BY <2>2, <2>3
<1> QED BY <1>2, <1>4, <1>7, <1>8, <1>9, <1>10 DEF Committed

\* A commit of ids that are not leased is a commit of none of them.
LEMMA CommitOfLeases ==
  ASSUME NEW b, NEW n, Sound(b, {}, n), NEW ids
  PROVE  Commit(b, ids) = Commit(b, Ids(Msgs(b.leases)) \cap ids)
<1>1. LeaseList(b.leases)
  BY DEF Sound, Formed
<1>2. Ids(Msgs(b.leases)) = {l.msg.id : l \in Elements(b.leases)}
  BY <1>1, LeaseById
<1>3. {l \in Elements(b.leases) : l.msg.id \in ids}
        = {l \in Elements(b.leases) : l.msg.id \in Ids(Msgs(b.leases)) \cap ids}
  BY <1>2
<1> QED BY <1>3, Zenon DEF Commit

\* Box c is box b after its owner refused some messages: the attempts that are
\* forgotten are those of dead letters, and of what did not fit.
Nacked(b, c, n) ==
  /\ Sound(c, {}, n)
  /\ b.offered \subseteq c.offered /\ b.read \subseteq c.read /\ b.dropped \subseteq c.dropped
  /\ c.discarded = b.discarded
  /\ DOMAIN b.attempts \ DOMAIN c.attempts \subseteq Ids(b.dead) \cup c.read \cup c.dropped
  /\ \A i \in c.offered \ b.offered : i > NoticeGap
  /\ GivesOnly(b, c, c.offered \ b.offered)

\* A nack brings leases and dead letters back into the queue.
LEMMA NackSound ==
  ASSUME NEW b, NEW n, Sound(b, {}, n), NEW ids, NEW c, c = Nack(b, ids)
  PROVE  Nacked(b, c, n)
<1> DEFINE leased  == {l \in Elements(b.leases) : l.msg.id \in ids}
           revived == {m \in Elements(b.dead) : m.id \in ids}
           kept    == KeepIn(b.leases, Elements(b.leases) \ leased)
           dead    == KeepIn(b.dead, Elements(b.dead) \ revived)
           ms      == Msgs(KeepIn(b.leases, leased))
           ds      == KeepIn(b.dead, revived)
           back    == ms \o ds
           R       == {m.id : m \in revived}
           f       == Forget(b.attempts, R)
           d       == [b EXCEPT !.leases = kept, !.dead = dead, !.attempts = f]
<1>1. /\ Formed(b) /\ IsBox(b)
      /\ Apart(Ids(b.queue), Ids(Msgs(b.leases)), Ids(b.dead), {}, b.read, b.dropped, b.discarded)
      /\ b.offered = Ids(b.queue) \cup Ids(Msgs(b.leases)) \cup Ids(b.dead) \cup {}
                       \cup b.read \cup b.dropped \cup b.discarded
      /\ LeaseList(b.leases) /\ MailList(b.dead) /\ Len(b.dead) <= MaxDead
      /\ DOMAIN b.attempts \subseteq b.offered
      /\ b.attempts \in [DOMAIN b.attempts -> Nat \ {0}]
  BY DEF Sound, Formed
<1>2. c = Requeue(d, back)
  BY DEF Nack
<1>3. /\ IsBox(d) /\ d.leases = kept /\ d.dead = dead /\ d.attempts = f
      /\ d.present = b.present /\ d.queue = b.queue /\ d.read = b.read
      /\ d.dropped = b.dropped /\ d.offered = b.offered
      /\ d.waiters = b.waiters /\ d.discarded = b.discarded
  BY <1>1 DEF IsBox, BoxFields
<1>4. /\ Ids(Msgs(b.leases)) = {l.msg.id : l \in Elements(b.leases)}
      /\ Ids(b.dead) = {m.id : m \in Elements(b.dead)}
      /\ \A k, l \in Elements(b.leases) : k.msg.id = l.msg.id => k = l
  <2>1. Ids(b.dead) = {m.id : m \in Elements(b.dead)}
    BY DEF Ids, Elements
  <2> QED BY <1>1, <2>1, LeaseById
<1>5. leased \subseteq Elements(b.leases) /\ revived \subseteq Elements(b.dead)
  OBVIOUS
<1> HIDE DEF d, leased, revived
<1>6. MailList(ms) /\ Ids(ms) = {l.msg.id : l \in leased}
  <2>1. MailList(ms) /\ Ids(ms) = {l.msg.id : l \in Elements(b.leases) \cap leased}
    BY <1>1, KeepInLeases
  <2>2. Elements(b.leases) \cap leased = leased
    BY <1>5
  <2> QED BY <2>1, <2>2
<1>7. LeaseList(kept) /\ Ids(Msgs(kept)) = {l.msg.id : l \in Elements(b.leases) \ leased}
  <2>1. /\ LeaseList(kept)
        /\ Ids(Msgs(kept)) = {l.msg.id : l \in Elements(b.leases) \cap (Elements(b.leases) \ leased)}
    BY <1>1, KeepInLeases
  <2>2. Elements(b.leases) \cap (Elements(b.leases) \ leased) = Elements(b.leases) \ leased
    OBVIOUS
  <2> QED BY <2>1, <2>2
<1>8. MailList(ds) /\ Ids(ds) = R
  <2>1. MailList(ds) /\ Ids(ds) = {m.id : m \in Elements(b.dead) \cap revived}
    BY <1>1, KeepInList
  <2>2. Elements(b.dead) \cap revived = revived
    BY <1>5
  <2> QED BY <2>1, <2>2
<1>9. MailList(dead) /\ Ids(dead) = Ids(b.dead) \ R /\ Len(dead) <= Len(b.dead)
  BY <1>1, <1>5, KeepOthers
<1>10. R \subseteq Ids(b.dead)
  BY <1>4, <1>5
<1> HIDE DEF kept, dead, ms, ds, R
<1>11. Ids(Msgs(kept)) \cap Ids(ms) = {} /\ Ids(Msgs(kept)) \cup Ids(ms) = Ids(Msgs(b.leases))
  BY <1>4, <1>5, <1>6, <1>7
<1>12. MailList(back) /\ Ids(back) = Ids(ms) \cup R
  <2>1. Ids(ms) \cap Ids(ds) = {}
    BY <1>1, <1>8, <1>10, <1>11 DEF Apart
  <2> QED BY <1>6, <1>8, <2>1, ConcatLists
<1> HIDE DEF back
<1>13. /\ f \in [DOMAIN f -> Nat \ {0}] /\ DOMAIN f = DOMAIN b.attempts \ R
       /\ f = Forget(b.attempts, R)
  <2> DEFINE g == b.attempts
  <2>1. g \in [DOMAIN g -> Nat \ {0}] /\ f = Forget(g, R)
    BY <1>1
  <2> HIDE DEF g, f
  <2>2. /\ Forget(g, R) \in [DOMAIN Forget(g, R) -> Nat \ {0}]
        /\ DOMAIN Forget(g, R) = DOMAIN g \ R
    BY <2>1, ForgetFacts
  <2> QED BY <2>1, <2>2 DEF g
<1> HIDE DEF f
<1>14. Formed(d)
  <2>1. Len(dead) \in Nat /\ Len(b.dead) \in Nat
    BY <1>1, <1>9 DEF MailList
  <2>2. Len(dead) <= MaxDead
    BY <1>1, <1>9, <2>1, MailboxAssumption
  <2> QED BY <1>1, <1>3, <1>7, <1>9, <1>13, <2>2 DEF Formed
<1>15. Sound(d, Ids(back), n)
  <2>1. Apart(Ids(d.queue), Ids(Msgs(d.leases)), Ids(d.dead), Ids(back),
              d.read, d.dropped, d.discarded)
    BY <1>1, <1>3, <1>9, <1>10, <1>11, <1>12 DEF Apart
  <2>2. d.offered = Ids(d.queue) \cup Ids(Msgs(d.leases)) \cup Ids(d.dead) \cup Ids(back)
                       \cup d.read \cup d.dropped \cup d.discarded
    BY <1>1, <1>3, <1>9, <1>10, <1>11, <1>12
  <2>3. Numbered(d.offered, d.dropped, n)
    BY <1>3 DEF Sound
  <2>4. DOMAIN d.attempts \subseteq d.offered
    BY <1>1, <1>3, <1>13
  <2> QED BY <1>14, <2>1, <2>2, <2>3, <2>4 DEF Sound
<1>16. PutBack(d, c, Ids(back), Ids(back), n)
  BY <1>2, <1>12, <1>15, RequeueSound
<1>17. Sound(c, {}, n) /\ Quiet(d, c)
  <2>1. Ids(back) \ Ids(back) = {}
    OBVIOUS
  <2> QED BY <1>16, <2>1 DEF PutBack
<1>18. GivesOnly(b, c, c.offered \ b.offered)
  <2> DEFINE N == c.offered \ b.offered
  <2>1. GivesOnly(b, d, {})
    <3>1. d.attempts = Forget(b.attempts, R) /\ d.read \ b.read \subseteq {}
      BY <1>3, <1>13
    <3> QED BY <1>1, <3>1, SameAttempts
  <2>2. GivesOnly(d, c, N)
    BY <1>3, <1>17 DEF Quiet
  <2>3. /\ d.attempts \in [DOMAIN d.attempts -> Nat \ {0}]
        /\ c.attempts \in [DOMAIN c.attempts -> Nat \ {0}]
    BY <1>14, <1>17 DEF Sound, Formed
  <2> HIDE DEF N
  <2>4. GivesOnly(b, c, {} \cup N)
    BY <1>1, <2>1, <2>2, <2>3, GivesTransitive
  <2>5. {} \cup N = N
    OBVIOUS
  <2> QED BY <2>4, <2>5 DEF N
<1>19. /\ b.offered \subseteq c.offered /\ b.read \subseteq c.read /\ b.dropped \subseteq c.dropped
       /\ c.discarded = b.discarded
       /\ \A i \in c.offered \ b.offered : i > NoticeGap
  BY <1>3, <1>17 DEF Quiet, Grows
<1>20. DOMAIN b.attempts \ DOMAIN c.attempts \subseteq Ids(b.dead) \cup c.read \cup c.dropped
  BY <1>3, <1>10, <1>13, <1>17 DEF Quiet, Grows
<1> QED BY <1>17, <1>18, <1>19, <1>20 DEF Nacked

\* Box c is box b after the whole mailbox went.
Emptied(b, c, n) ==
  /\ Sound(c, {}, n) /\ GivesOnly(b, c, {})
  /\ Held(c) = {} /\ c.discarded = b.discarded \cup Held(b)
  /\ c.offered = b.offered /\ c.read = b.read /\ c.dropped = b.dropped

\* Dropping a mailbox discards all that it holds.
LEMMA DropSound ==
  ASSUME NEW b, NEW n, Sound(b, {}, n), NEW c, c = DropMailboxState(b)
  PROVE  Emptied(b, c, n)
<1>1. /\ Formed(b) /\ IsBox(b)
      /\ Apart(Ids(b.queue), Ids(Msgs(b.leases)), Ids(b.dead), {}, b.read, b.dropped, b.discarded)
      /\ b.offered = Held(b) \cup b.read \cup b.dropped \cup b.discarded
      /\ b.attempts \in [DOMAIN b.attempts -> Nat \ {0}]
  BY DEF Sound, Formed, Held
<1>2. /\ IsBox(c) /\ c.present = FALSE /\ c.queue = <<>> /\ c.leases = <<>> /\ c.dead = <<>>
      /\ c.attempts = [i \in {} |-> 0] /\ c.discarded = b.discarded \cup Held(b)
      /\ c.read = b.read /\ c.dropped = b.dropped /\ c.offered = b.offered
      /\ c.waiters = b.waiters
  BY <1>1 DEF DropMailboxState, IsBox, BoxFields
<1>3. /\ MailList(c.queue) /\ Sorted(c.queue) /\ Ids(c.queue) = {}
      /\ MailList(c.dead) /\ Ids(c.dead) = {}
      /\ LeaseList(c.leases) /\ Ids(Msgs(c.leases)) = {}
      /\ Len(c.queue) <= MaxQueue /\ Len(c.dead) <= MaxDead
  <2>1. Msgs(<<>>) = <<>>
    BY DEF Msgs
  <2>2. <<>> \in Seq(Lease) /\ Len(<<>>) = 0
    BY EmptySeq
  <2>3. LeaseList(<<>>)
    BY <2>1, <2>2, EmptyList DEF LeaseList, MailList
  <2> QED BY <1>2, <2>1, <2>2, <2>3, EmptyList, MailboxAssumption
<1>4. /\ c.attempts \in [DOMAIN c.attempts -> Nat \ {0}] /\ DOMAIN c.attempts = {}
      /\ \A i : Attempts(c, i) = 0
  BY <1>2 DEF Attempts
<1>5. Held(c) = {}
  BY <1>3 DEF Held
<1>6. Sound(c, {}, n)
  <2>1. Formed(c)
    BY <1>1, <1>2, <1>3, <1>4 DEF Formed
  <2>2. Apart(Ids(c.queue), Ids(Msgs(c.leases)), Ids(c.dead), {}, c.read, c.dropped, c.discarded)
    BY <1>1, <1>2, <1>3 DEF Apart, Held
  <2>3. c.offered = Ids(c.queue) \cup Ids(Msgs(c.leases)) \cup Ids(c.dead) \cup {}
                       \cup c.read \cup c.dropped \cup c.discarded
    BY <1>1, <1>2, <1>3
  <2>4. Numbered(c.offered, c.dropped, n)
    BY <1>2 DEF Sound
  <2> QED BY <1>4, <2>1, <2>2, <2>3, <2>4 DEF Sound
<1>7. GivesOnly(b, c, {})
  <2>1. \A i : Attempts(b, i) \in Nat
    BY <1>1, AttemptsNat
  <2> QED BY <1>2, <1>4, <2>1 DEF GivesOnly
<1> QED BY <1>2, <1>5, <1>6, <1>7 DEF Emptied

\* Box c holds what box b holds, at the same places.
Still(b, c, n) ==
  /\ Sound(c, {}, n) /\ Quiet(b, c)
  /\ c.queue = b.queue /\ Ids(Msgs(c.leases)) = Ids(Msgs(b.leases))
  /\ c.attempts = b.attempts /\ Held(c) = Held(b)

\* Only the waiters and the lapsing of the leases change.
LEMMA StillSound ==
  ASSUME NEW b, NEW n, Sound(b, {}, n), NEW ws \in Seq(Waiter), NEW ls, LeaseList(ls),
         Ids(Msgs(ls)) = Ids(Msgs(b.leases)),
         NEW c, c = [b EXCEPT !.waiters = ws, !.leases = ls]
  PROVE  Still(b, c, n)
<1>1. /\ Formed(b) /\ IsBox(b)
      /\ b.attempts \in [DOMAIN b.attempts -> Nat \ {0}]
  BY DEF Sound, Formed
<1>2. /\ IsBox(c) /\ c.waiters = ws /\ c.leases = ls
      /\ c.present = b.present /\ c.queue = b.queue /\ c.dead = b.dead
      /\ c.attempts = b.attempts /\ c.dropped = b.dropped /\ c.offered = b.offered
      /\ c.read = b.read /\ c.discarded = b.discarded
  BY <1>1 DEF IsBox, BoxFields
<1>3. Formed(c)
  BY <1>1, <1>2 DEF Formed
<1>4. Sound(c, {}, n)
  BY <1>2, <1>3 DEF Sound
<1>5. Quiet(b, c)
  BY <1>1, <1>2, QuietSame
<1>6. Held(c) = Held(b)
  BY <1>2 DEF Held
<1> QED BY <1>2, <1>4, <1>5, <1>6 DEF Still

\* The waits of a peer end.
LEMMA ResolveSound ==
  ASSUME NEW b, NEW n, Sound(b, {}, n), NEW c, c = ResolveWaiters(b)
  PROVE  Still(b, c, n)
<1>1. Formed(b) /\ IsBox(b) /\ LeaseList(b.leases)
  BY DEF Sound, Formed
<1>2. <<>> \in Seq(Waiter)
  BY EmptySeq
<1>3. c = [b EXCEPT !.waiters = <<>>, !.leases = b.leases]
  BY <1>1 DEF ResolveWaiters, IsBox, BoxFields
<1> QED BY <1>1, <1>2, <1>3, StillSound

\* One wait ends.
LEMMA EndWaitSound ==
  ASSUME NEW b, NEW n, Sound(b, {}, n), NEW i \in DOMAIN b.waiters, NEW c, c = EndWait(b, i)
  PROVE  Still(b, c, n)
<1>1. Formed(b) /\ IsBox(b) /\ LeaseList(b.leases) /\ b.waiters \in Seq(Waiter)
  BY DEF Sound, Formed
<1>2. RemoveAt(b.waiters, i) \in Seq(Waiter)
  BY <1>1, RemoveAtFacts
<1> DEFINE ws == RemoveAt(b.waiters, i)
<1>3. c = [b EXCEPT !.waiters = ws, !.leases = b.leases]
  <2>1. c = [b EXCEPT !.waiters = ws]
    BY DEF EndWait
  <2> HIDE DEF ws
  <2> QED BY <1>1, <2>1 DEF IsBox, BoxFields
<1> HIDE DEF ws
<1> QED BY <1>1, <1>2, <1>3, StillSound DEF ws

\* A lease lapses.
LEMMA LapseSound ==
  ASSUME NEW b, NEW n, Sound(b, {}, n), \E l \in Elements(b.leases) : ~l.lapsed,
         NEW c, c = LapseLease(b)
  PROVE  Still(b, c, n)
<1> DEFINE running == {i \in DOMAIN b.leases : ~b.leases[i].lapsed}
           k  == CHOOSE i \in running : \A j \in running : i <= j
           ls == [b.leases EXCEPT ![k] = [@ EXCEPT !.lapsed = TRUE]]
<1>1. /\ Formed(b) /\ IsBox(b) /\ LeaseList(b.leases) /\ b.leases \in Seq(Lease)
      /\ b.waiters \in Seq(Waiter)
  BY DEF Sound, Formed, LeaseList
<1>2. k \in DOMAIN b.leases
  <2>1. running \subseteq Nat /\ running # {}
    BY <1>1 DEF Elements
  <2>2. \E i \in running : \A j \in running : i <= j
    <3> HIDE DEF running
    <3> QED BY <2>1, LeastNumber
  <2>3. k \in running
    <3> HIDE DEF running
    <3> QED BY <2>2
  <2> QED BY <2>3
<1> HIDE DEF k
<1>3. c = [b EXCEPT !.waiters = b.waiters, !.leases = ls]
  <2>1. c = [b EXCEPT !.leases[k].lapsed = TRUE]
    BY DEF LapseLease, k
  <2>2. c = [b EXCEPT !.leases = ls]
    BY <2>1
  <2> HIDE DEF ls
  <2> QED BY <1>1, <2>2 DEF IsBox, BoxFields
<1>4. ls \in Seq(Lease) /\ Msgs(ls) = Msgs(b.leases)
  <2>1. \A l \in Lease : [l EXCEPT !.lapsed = TRUE] \in Lease /\ [l EXCEPT !.lapsed = TRUE].msg = l.msg
    BY DEF Lease
  <2>2. b.leases[k] \in Lease
    BY <1>1, <1>2
  <2>3. /\ DOMAIN ls = DOMAIN b.leases
        /\ \A i \in DOMAIN b.leases : ls[i].msg = b.leases[i].msg /\ ls[i] \in Lease
    BY <1>1, <1>2, <2>1
  <2>4. ls \in Seq(Lease)
    <3>1. ls \in [1..Len(b.leases) -> Lease]
      BY <1>1, <1>2, <2>1, <2>2
    <3> QED BY <1>1, <3>1
  <2> HIDE DEF ls
  <2> QED BY <2>3, <2>4 DEF Msgs
<1> HIDE DEF ls
<1>5. LeaseList(ls) /\ Ids(Msgs(ls)) = Ids(Msgs(b.leases))
  BY <1>1, <1>4 DEF LeaseList
<1> QED BY <1>1, <1>3, <1>5, StillSound

\* A mailbox nobody has written to.
LEMMA EmptyBoxSound == Sound(EmptyBox, {}, 0)
<1> DEFINE b == EmptyBox
<1>1. /\ b.present = FALSE /\ b.queue = <<>> /\ b.leases = <<>> /\ b.dead = <<>>
      /\ b.attempts = [i \in {} |-> 0] /\ b.waiters = <<>> /\ b.offered = {} /\ b.read = {}
      /\ b.dropped = {} /\ b.discarded = {}
  BY DEF EmptyBox
<1>2. IsBox(b)
  BY DEF EmptyBox, IsBox, BoxFields
<1> HIDE DEF b
<1>3. Msgs(<<>>) = <<>>
  BY DEF Msgs
<1>4. <<>> \in Seq(Lease) /\ <<>> \in Seq(Waiter) /\ Len(<<>>) = 0
  BY EmptySeq
<1>5. LeaseList(<<>>)
  BY <1>3, <1>4, EmptyList DEF LeaseList, MailList
<1>6. b.attempts \in [DOMAIN b.attempts -> Nat \ {0}] /\ DOMAIN b.attempts = {}
  BY <1>1
<1>7. Formed(b)
  <2>1. MailList(b.queue) /\ Sorted(b.queue) /\ Len(b.queue) <= MaxQueue
    BY <1>1, <1>4, EmptyList, MailboxAssumption
  <2>2. MailList(b.dead) /\ Len(b.dead) <= MaxDead
    BY <1>1, <1>4, EmptyList, MailboxAssumption
  <2>3. b.waiters \in Seq(Waiter) /\ b.present \in BOOLEAN /\ LeaseList(b.leases)
    BY <1>1, <1>4, <1>5
  <2> QED BY <1>2, <1>6, <2>1, <2>2, <2>3 DEF Formed
<1>8. Sound(b, {}, 0)
  BY <1>1, <1>3, <1>6, <1>7, EmptyList DEF Sound, Apart, Numbered
<1> QED BY <1>8 DEF b

\* One more message is composed, for somebody else.
LEMMA SoundLater ==
  ASSUME NEW b, NEW n \in Nat, Sound(b, {}, n)
  PROVE  Sound(b, {}, n + 1)
<1>1. Numbered(b.offered, b.dropped, n + 1)
  <2>1. Numbered(b.offered, b.dropped, n)
    BY DEF Sound
  <2>2. ASSUME NEW i \in b.offered PROVE i <= n + 1 \/ i > NoticeGap
    BY <2>1, <2>2 DEF Numbered
  <2> QED BY <2>1, <2>2 DEF Numbered
<1> QED BY <1>1 DEF Sound

-----------------------------------------------------------------------------
(* A call seen from one mailbox.                                           *)

\* Making room and cleaning up is a step that gives nothing due, and nothing
\* exhausted, if what was exhausted is not queued again.
LEMMA QuietTook ==
  ASSUME NEW b, NEW n \in Nat, n <= NoticeGap, Sound(b, {}, n), NEW past, past \subseteq 1..n,
         NEW c, Sound(c, {}, n), Quiet(b, c),
         \A i \in Ids(Msgs(b.leases)) : Exhausted(b, i) => i \notin Ids(c.queue)
  PROVE  Took(b, c, past, n)
<1> DEFINE I == c.offered \ b.offered
<1>1. GivesOnly(b, c, I) /\ Grows(b, c) /\ \A i \in I : i > NoticeGap
  BY DEF Quiet
<1>2. Ids(Msgs(b.leases)) \subseteq b.offered
  BY DEF Sound
<1>3. I \cap past = {}
  <2> SUFFICES ASSUME NEW i \in I, i \in past PROVE FALSE
    OBVIOUS
  <2>1. i \in Nat /\ i <= n /\ NoticeGap \in Nat
    BY MailboxAssumption
  <2>2. i > NoticeGap
    BY <1>1
  <2> QED BY <2>1, <2>2
<1>4. \A i \in Ids(Msgs(b.leases)) : Exhausted(b, i) => i \notin I \cup Ids(c.queue)
  BY <1>2
<1> HIDE DEF I
<1> QED BY <1>1, <1>3, <1>4 DEF Took

\* So is what moves no mail.
LEMMA StillTook ==
  ASSUME NEW b, NEW n \in Nat, n <= NoticeGap, Sound(b, {}, n), NEW past, past \subseteq 1..n,
         NEW c, Still(b, c, n)
  PROVE  Took(b, c, past, n)
<1>1. Sound(c, {}, n) /\ Quiet(b, c) /\ c.queue = b.queue
  BY DEF Still
<1>2. Ids(b.queue) \cap Ids(Msgs(b.leases)) = {}
  BY DEF Sound, Apart
<1>3. \A i \in Ids(Msgs(b.leases)) : Exhausted(b, i) => i \notin Ids(c.queue)
  BY <1>1, <1>2
<1> QED BY <1>1, <1>3, QuietTook

\* And a call that does not touch the mailbox.
LEMMA SameTook ==
  ASSUME NEW b, NEW n \in Nat, n <= NoticeGap, Sound(b, {}, n), NEW past, past \subseteq 1..n
  PROVE  Took(b, b, past, n)
<1>1. b.attempts \in [DOMAIN b.attempts -> Nat \ {0}]
  BY DEF Sound, Formed
<1>2. Quiet(b, b)
  BY <1>1, QuietSame
<1>3. Still(b, b, n)
  BY <1>2 DEF Still
<1> QED BY <1>3, StillTook

\* A delivery is one too: `late` says whether the message that comes is due.
LEMMA DeliveredTook ==
  ASSUME NEW b, NEW n \in Nat, n + 1 <= NoticeGap, Sound(b, {}, n),
         NEW past, past \subseteq 1..n, NEW late \in BOOLEAN,
         NEW after, after = IF late THEN past \cup {n + 1} ELSE past,
         NEW c, Delivered(b, c, late, n)
  PROVE  Took(b, c, after, n + 1)
<1> DEFINE N == c.offered \ b.offered
           I == IF late THEN N \ {n + 1} ELSE N
<1>1. /\ Sound(c, {}, n + 1) /\ Grows(b, c)
      /\ \A i \in N : i > NoticeGap \/ i = n + 1
      /\ Ids(c.queue) \subseteq Ids(b.queue) \cup N
  BY DEF Delivered
<1>2. GivesOnly(b, c, I)
  <2>1. CASE late
    <3>1. I = N \ {n + 1}
      BY <2>1
    <3> QED BY <2>1, <3>1 DEF Delivered
  <2>2. CASE ~late
    <3>1. I = N
      BY <2>2
    <3> QED BY <2>2, <3>1 DEF Delivered
  <2> QED BY <2>1, <2>2
<1>3. I \subseteq N /\ (late => n + 1 \notin I)
  OBVIOUS
<1>4. \A i \in past : i \in Nat /\ i <= n
  OBVIOUS
<1>5. \A i \in Ids(Msgs(b.leases)) : i \notin Ids(b.queue) /\ i \notin N
  BY DEF Sound, Apart
<1> HIDE DEF N, I
<1>6. I \cap after = {}
  <2> SUFFICES ASSUME NEW i \in I, i \in after PROVE FALSE
    OBVIOUS
  <2>1. i > NoticeGap \/ i = n + 1
    BY <1>1, <1>3
  <2>2. NoticeGap \in Nat
    BY MailboxAssumption
  <2>3. CASE i \in past
    BY <1>4, <2>1, <2>2, <2>3
  <2>4. CASE i \notin past
    <3>1. late /\ i = n + 1
      BY <2>4
    <3> QED BY <1>3, <3>1
  <2> QED BY <2>3, <2>4
<1>7. \A i \in Ids(Msgs(b.leases)) : Exhausted(b, i) => i \notin I \cup Ids(c.queue)
  BY <1>1, <1>3, <1>5
<1> QED BY <1>1, <1>2, <1>6, <1>7 DEF Took

\* What a tick does to a mailbox before it drops any.
LEMMA ReapTook ==
  ASSUME NEW b, NEW n \in Nat, n <= NoticeGap, Sound(b, {}, n), NEW past, past \subseteq 1..n,
         NEW q, q = b \/ q = ResolveWaiters(b), NEW c, c = ReapLeases(q)
  PROVE  Sound(c, {}, n) /\ Quiet(b, c) /\ Took(b, c, past, n)
<1>1. Still(b, q, n)
  <2>1. CASE q = b
    <3>1. b.attempts \in [DOMAIN b.attempts -> Nat \ {0}]
      BY DEF Sound, Formed
    <3>2. Quiet(b, b)
      BY <3>1, QuietSame
    <3> QED BY <2>1, <3>2 DEF Still
  <2>2. CASE q = ResolveWaiters(b)
    BY <2>2, ResolveSound
  <2> QED BY <2>1, <2>2
<1>2. Sound(q, {}, n) /\ Quiet(b, q) /\ Ids(Msgs(q.leases)) = Ids(Msgs(b.leases))
      /\ q.attempts = b.attempts
  BY <1>1 DEF Still
<1>3. Reaped(q, c, n)
  BY <1>2, ReapLeasesSound
<1>4. Sound(c, {}, n) /\ Quiet(q, c)
  BY <1>3 DEF Reaped
<1>5. Quiet(b, c)
  <2>1. Formed(b) /\ Formed(q) /\ Formed(c)
    BY <1>2, <1>4 DEF Sound
  <2> QED BY <1>2, <1>4, <2>1, QuietTransitive
<1>6. \A i \in Ids(Msgs(b.leases)) : Exhausted(b, i) => i \notin Ids(c.queue)
  <2>1. \A i : Exhausted(b, i) <=> Exhausted(q, i)
    BY <1>2 DEF Exhausted, Attempts
  <2> QED BY <1>2, <1>3, <2>1 DEF Reaped
<1> QED BY <1>4, <1>5, <1>6, QuietTook

\* Box c is box b after it went, whether or not its leases came back first.
Gone(b, c, past, n) ==
  /\ Sound(c, {}, n) /\ Held(c) = {}
  /\ b.offered \subseteq c.offered /\ b.read \subseteq c.read
  /\ b.dropped \subseteq c.dropped /\ b.discarded \subseteq c.discarded
  /\ \E I : /\ GivesOnly(b, c, I) /\ I \cap past = {}
            /\ \A i \in Ids(Msgs(b.leases)) : Exhausted(b, i) => i \notin I

\* A mailbox that is dropped at once, or after a step that gave nothing due.
LEMMA DropGone ==
  ASSUME NEW b, NEW n \in Nat, n <= NoticeGap, Sound(b, {}, n), NEW past,
         NEW r, Took(b, r, past, n), NEW c, c = DropMailboxState(r)
  PROVE  Gone(b, c, past, n)
<1>1. PICK I : /\ GivesOnly(b, r, I) /\ I \cap past = {}
               /\ \A i \in Ids(Msgs(b.leases)) : Exhausted(b, i) => i \notin I
  BY DEF Took
<1>2. Sound(r, {}, n) /\ Grows(b, r)
  BY DEF Took
<1>3. Emptied(r, c, n)
  BY <1>2, DropSound
<1>4. GivesOnly(b, c, I)
  <2>1. /\ b.attempts \in [DOMAIN b.attempts -> Nat \ {0}]
        /\ r.attempts \in [DOMAIN r.attempts -> Nat \ {0}]
        /\ c.attempts \in [DOMAIN c.attempts -> Nat \ {0}]
    BY <1>2, <1>3 DEF Emptied, Sound, Formed
  <2>2. GivesOnly(r, c, {})
    BY <1>3 DEF Emptied
  <2>3. GivesOnly(b, c, I \cup {})
    BY <1>1, <2>1, <2>2, GivesTransitive
  <2>4. I \cup {} = I
    OBVIOUS
  <2> QED BY <2>3, <2>4
<1>5. /\ Sound(c, {}, n) /\ Held(c) = {}
      /\ b.offered \subseteq c.offered /\ b.read \subseteq c.read
      /\ b.dropped \subseteq c.dropped /\ b.discarded \subseteq c.discarded
  BY <1>2, <1>3 DEF Emptied, Grows
<1> QED BY <1>1, <1>4, <1>5 DEF Gone

\* The waits of an empty mailbox end, too.
LEMMA ResolveGone ==
  ASSUME NEW b, NEW n \in Nat, NEW past, NEW d, Gone(b, d, past, n),
         NEW c, c = ResolveWaiters(d)
  PROVE  Gone(b, c, past, n)
<1>1. Sound(d, {}, n)
  BY DEF Gone
<1>2. Still(d, c, n)
  BY <1>1, ResolveSound
<1>3. IsBox(d)
  BY <1>1 DEF Sound, Formed
<1>4. /\ c.attempts = d.attempts /\ c.offered = d.offered /\ c.read = d.read
      /\ c.dropped = d.dropped /\ c.discarded = d.discarded
  BY <1>3 DEF ResolveWaiters, IsBox, BoxFields
<1>5. PICK I : /\ GivesOnly(b, d, I) /\ I \cap past = {}
               /\ \A i \in Ids(Msgs(b.leases)) : Exhausted(b, i) => i \notin I
  BY DEF Gone
<1>6. GivesOnly(b, c, I)
  BY <1>4, <1>5 DEF GivesOnly, Attempts
<1>7. Sound(c, {}, n) /\ Held(c) = {}
  BY <1>2 DEF Still, Gone
<1> QED BY <1>4, <1>5, <1>6, <1>7 DEF Gone

-----------------------------------------------------------------------------
(* The inductive invariant.                                                *)

\* The peers the hub knows: live or parked, never both.
RegistryOK ==
  /\ registered \subseteq Peers
  /\ parked \subseteq Peers
  /\ registered \cap parked = {}

\* Only ids of composed messages are due.
CountersOK == seq \in 0..MaxSeq /\ due \subseteq 1..seq

\* Every mailbox is sound, with nothing in the hands of a method.
MailSound ==
  /\ box = [p \in Peers |-> box[p]]
  /\ \A p \in Peers : Sound(box[p], {}, seq)

MailInv == RegistryOK /\ CountersOK /\ MailSound

\* One call seen from the mailbox of p: a delivery, a take or a clean-up, a
\* commit or a nack of the owner, or the end of the mailbox.
BoxStep(p) ==
  \/ Took(box[p], box'[p], due', seq')
  \/ \E ids \in SUBSET Ids(Msgs(box[p].leases)) :
       CommitMail(p, ids) /\ Committed(box[p], box'[p], ids, seq')
  \/ /\ \E ids \in SUBSET Held(box[p]) : NackMail(p, ids)
     /\ Nacked(box[p], box'[p], seq') /\ due' = due /\ seq' = seq
  \/ p \notin registered' \cup parked' /\ Gone(box[p], box'[p], due', seq')

\* What is shown of each action.
StepOK == RegistryOK' /\ CountersOK' /\ MailSound' /\ \A p \in Peers : BoxStep(p)

\* The mailbox after each kind of step is sound.
LEMMA BoxStepSound ==
  ASSUME NEW p, BoxStep(p)
  PROVE  Sound(box'[p], {}, seq')
BY DEF BoxStep, Took, Committed, Nacked, Gone

\* The numbers the invariant speaks of.
LEMMA CountersFacts ==
  ASSUME CountersOK
  PROVE  seq \in Nat /\ seq <= NoticeGap /\ due \subseteq 1..seq /\ MaxSeq \in Nat
BY MailboxesAssumption, MailboxAssumption DEF CountersOK

\* A step that leaves the other mailboxes alone.
LEMMA OneBoxStep ==
  ASSUME MailInv, NEW p \in Peers, NEW c, box' = [box EXCEPT ![p] = c],
         RegistryOK', seq' = seq, due' = due,
         box'[p] = c => BoxStep(p)
  PROVE  StepOK
<1>1. seq \in Nat /\ seq <= NoticeGap /\ due \subseteq 1..seq
  BY CountersFacts DEF MailInv
<1>2. /\ box' = [q \in Peers |-> box'[q]]
      /\ box'[p] = c
      /\ \A q \in Peers : q # p => box'[q] = box[q]
  BY DEF MailInv, MailSound
<1>3. ASSUME NEW q \in Peers PROVE BoxStep(q)
  <2>1. CASE q = p
    BY <1>2, <2>1
  <2>2. CASE q # p
    <3>1. Sound(box[q], {}, seq)
      BY DEF MailInv, MailSound
    <3>2. Took(box[q], box[q], due, seq)
      BY <1>1, <3>1, SameTook
    <3> QED BY <1>2, <2>2, <3>2 DEF BoxStep
  <2> QED BY <2>1, <2>2
<1>4. MailSound'
  BY <1>2, <1>3, BoxStepSound DEF MailSound
<1>5. CountersOK'
  BY DEF MailInv, CountersOK
<1> QED BY <1>3, <1>4, <1>5 DEF StepOK

\* The mailboxes are not touched.
LEMMA NoBoxStep ==
  ASSUME MailInv, box' = box, RegistryOK', CountersOK', seq' = seq
  PROVE  StepOK
<1>1. seq' \in Nat /\ seq' <= NoticeGap /\ due' \subseteq 1..seq'
  BY CountersFacts, MailboxesAssumption, MailboxAssumption DEF MailInv, CountersOK
<1>2. ASSUME NEW q \in Peers PROVE BoxStep(q)
  <2>1. Sound(box[q], {}, seq')
    BY DEF MailInv, MailSound
  <2>2. Took(box[q], box[q], due', seq')
    BY <1>1, <2>1, SameTook
  <2> QED BY <2>2 DEF BoxStep
<1>3. MailSound'
  BY DEF MailInv, MailSound
<1> QED BY <1>2, <1>3 DEF StepOK

-----------------------------------------------------------------------------
(* Each action keeps the invariant.                                        *)

\* A peer registers.
LEMMA RegisterStep ==
  ASSUME MailInv, NEW p \in Peers, NEW reclaim, Register(p, reclaim)
  PROVE  StepOK
<1>1. RegistryOK' /\ CountersOK'
  BY DEF MailInv, RegistryOK, CountersOK, Register
<1> QED BY <1>1, NoBoxStep DEF Register

\* A deadline passes.
LEMMA DeadlineStep ==
  ASSUME MailInv, NEW i \in 1..seq, DeadlinePasses(i)
  PROVE  StepOK
<1>1. RegistryOK' /\ CountersOK'
  BY DEF MailInv, RegistryOK, CountersOK, DeadlinePasses
<1> QED BY <1>1, NoBoxStep DEF DeadlinePasses

\* A peer leaves or is kicked.
LEMMA UnregisterStep ==
  ASSUME MailInv, NEW p \in Peers, Unregister(p)
  PROVE  StepOK
<1> DEFINE b == box[p]
           r == DropMailboxState(b)
           c == ResolveWaiters(r)
<1>1. seq \in Nat /\ seq <= NoticeGap /\ due \subseteq 1..seq /\ Sound(b, {}, seq)
  BY CountersFacts DEF MailInv, MailSound
<1>2. box' = [box EXCEPT ![p] = c] /\ seq' = seq /\ due' = due
  BY DEF Unregister
<1>3. RegistryOK' /\ p \notin registered' \cup parked'
  BY DEF MailInv, RegistryOK, Unregister
<1> HIDE DEF b
<1>4. Took(b, b, due, seq)
  BY <1>1, SameTook
<1>5. Gone(b, r, due, seq)
  BY <1>1, <1>4, DropGone
<1> HIDE DEF r
<1>6. Gone(b, c, due, seq)
  BY <1>1, <1>5, ResolveGone
<1> HIDE DEF c
<1>7. box'[p] = c => BoxStep(p)
  BY <1>2, <1>3, <1>6 DEF BoxStep, b
<1> QED BY <1>2, <1>3, <1>7, OneBoxStep

\* The tick of the idle GC.
LEMMA TickStep ==
  ASSUME MailInv, NEW idle, NEW overdue, GcTick(idle, overdue)
  PROVE  StepOK
<1>1. seq \in Nat /\ seq <= NoticeGap /\ due \subseteq 1..seq
  BY CountersFacts DEF MailInv
<1>2. /\ idle \subseteq registered /\ overdue \subseteq parked \ registered
      /\ registered' = registered \ idle /\ parked' = (parked \cup idle) \ overdue
      /\ seq' = seq /\ due' = due
  BY DEF GcTick
<1>3. RegistryOK'
  BY <1>2 DEF MailInv, RegistryOK
<1>4. CountersOK'
  BY <1>2 DEF MailInv, CountersOK
<1> DEFINE quiet(p) == IF p \in idle THEN ResolveWaiters(box[p]) ELSE box[p]
           reaped(p) == ReapLeases(quiet(p))
           after(p) == IF p \in overdue THEN DropMailboxState(reaped(p)) ELSE reaped(p)
<1>5. box' = [p \in Peers |-> after(p)]
  BY DEF GcTick
<1>6. ASSUME NEW p \in Peers PROVE BoxStep(p)
  <2> DEFINE b == box[p]
             q == quiet(p)
             r == ReapLeases(q)
             c == DropMailboxState(r)
  <2>1. q = b \/ q = ResolveWaiters(b)
    OBVIOUS
  <2>2. Sound(b, {}, seq)
    BY DEF MailInv, MailSound
  <2>3. box'[p] = IF p \in overdue THEN c ELSE r
    BY <1>5
  <2> HIDE DEF b, q
  <2>4. Took(b, r, due, seq)
    BY <1>1, <2>1, <2>2, ReapTook
  <2> HIDE DEF r
  <2>5. Gone(b, c, due, seq)
    BY <1>1, <2>2, <2>4, DropGone
  <2> HIDE DEF c
  <2>6. CASE p \in overdue
    <3>1. p \notin registered' \cup parked'
      BY <1>2, <2>6
    <3> QED BY <1>2, <2>3, <2>5, <2>6, <3>1 DEF BoxStep, b
  <2>7. CASE p \notin overdue
    BY <1>2, <2>3, <2>4, <2>7 DEF BoxStep, b
  <2> QED BY <2>6, <2>7
<1>7. box' = [p \in Peers |-> box'[p]]
  <2> HIDE DEF after
  <2> QED BY <1>5
<1>8. MailSound'
  BY <1>6, <1>7, BoxStepSound DEF MailSound
<1> QED BY <1>3, <1>4, <1>6, <1>8 DEF StepOK

\* A message is sent.
LEMMA SendStep ==
  ASSUME MailInv, NEW from \in Peers, NEW to, NEW shape \in Shapes, NEW late \in BOOLEAN,
         NEW admitted, Send(from, to, shape, late, admitted)
  PROVE  StepOK
<1> DEFINE m == [id |-> seq + 1, from |-> from, prio |-> shape.prio,
                 thread |-> shape.thread, mortal |-> shape.mortal]
<1>1. seq \in Nat /\ seq <= NoticeGap /\ due \subseteq 1..seq /\ MaxSeq \in Nat
  BY CountersFacts DEF MailInv
<1>2. /\ seq < MaxSeq /\ seq' = seq + 1
      /\ due' = IF late THEN due \cup {seq + 1} ELSE due
      /\ box' = [p \in Peers |-> IF p \in Targets(from, to)
                                 THEN Deliver(box[p], m, late, p \in admitted)
                                 ELSE box[p]]
      /\ registered' = registered /\ parked' = parked
  BY DEF Send
<1>3. m \in Message /\ m.id = seq + 1
  <2>1. shape \in [prio : 0..2, thread : Threads \cup {None}, mortal : BOOLEAN]
    BY MailboxesAssumption
  <2> QED BY <1>1, <2>1 DEF Message
<1>4. seq + 1 <= NoticeGap /\ seq + 1 \in Nat
  BY <1>1, <1>2, MailboxesAssumption, MailboxAssumption
<1> HIDE DEF m
<1>5. RegistryOK'
  BY <1>2 DEF MailInv, RegistryOK
<1>6. due' \subseteq 1..(seq + 1) /\ due \subseteq 1..(seq + 1)
  BY <1>1, <1>2
<1>7. CountersOK'
  BY <1>1, <1>2, <1>6 DEF CountersOK
<1>8. ASSUME NEW p \in Peers PROVE BoxStep(p)
  <2> DEFINE b == box[p]
             ok == p \in admitted
             c == Deliver(b, m, late, ok)
  <2>1. Sound(b, {}, seq) /\ ok \in BOOLEAN
    BY DEF MailInv, MailSound
  <2>2. CASE p \in Targets(from, to)
    <3>1. box'[p] = c
      BY <1>2, <2>2
    <3> HIDE DEF b, ok
    <3>2. Delivered(b, c, late, seq)
      BY <1>1, <1>3, <1>4, <2>1, DeliverSound
    <3> HIDE DEF c
    <3>3. Took(b, c, due', seq + 1)
      <4> DEFINE after == due'
      <4>1. after = IF late THEN due \cup {seq + 1} ELSE due
        BY <1>2
      <4> HIDE DEF after
      <4>2. Took(b, c, after, seq + 1)
        BY <1>1, <1>4, <2>1, <3>2, <4>1, DeliveredTook
      <4> QED BY <4>2 DEF after
    <3> QED BY <1>2, <3>1, <3>3 DEF BoxStep, b
  <2>3. CASE p \notin Targets(from, to)
    <3>1. box'[p] = b
      BY <1>2, <2>3
    <3> HIDE DEF b
    <3>2. Sound(b, {}, seq + 1)
      BY <1>1, <2>1, SoundLater
    <3>3. Took(b, b, due', seq + 1)
      <4> DEFINE n == seq + 1
                 after == due'
      <4>1. n \in Nat /\ n <= NoticeGap /\ Sound(b, {}, n) /\ after \subseteq 1..n
        BY <1>4, <1>6, <3>2
      <4> HIDE DEF n, after
      <4>2. Took(b, b, after, n)
        BY <4>1, SameTook
      <4> QED BY <4>2 DEF n, after
    <3> QED BY <1>2, <3>1, <3>3 DEF BoxStep, b
  <2> QED BY <2>2, <2>3
<1>9. box' = [p \in Peers |-> box'[p]]
  BY <1>2
<1>10. MailSound'
  BY <1>8, <1>9, BoxStepSound DEF MailSound
<1> QED BY <1>5, <1>7, <1>8, <1>10 DEF StepOK

\* A peer polls.
LEMMA PollStep ==
  ASSUME MailInv, NEW p \in Peers, NEW from, NEW manual \in BOOLEAN, PollMail(p, from, manual)
  PROVE  StepOK
<1> DEFINE b == box[p]
           c == Poll(b, due, from, manual)
<1>1. seq \in Nat /\ seq <= NoticeGap /\ due \subseteq 1..seq /\ Sound(b, {}, seq)
  BY CountersFacts DEF MailInv, MailSound
<1>2. /\ box' = [box EXCEPT ![p] = c] /\ seq' = seq /\ due' = due
      /\ registered' = registered /\ parked' = parked
  BY DEF PollMail
<1>3. RegistryOK'
  BY <1>2 DEF MailInv, RegistryOK
<1> HIDE DEF b
<1>4. Took(b, c, due, seq)
  BY <1>1, PollSound
<1> HIDE DEF c
<1>5. box'[p] = c => BoxStep(p)
  BY <1>2, <1>4 DEF BoxStep, b
<1> QED BY <1>2, <1>3, <1>5, OneBoxStep

\* A peer waits.
LEMMA WaitStep ==
  ASSUME MailInv, NEW p \in Peers, NEW filter \in Filters, NEW manual \in BOOLEAN,
         NEW most \in Batches, WaitForMail(p, filter, manual, most)
  PROVE  StepOK
<1> DEFINE b == box[p]
           w == [from |-> filter.from, thread |-> filter.thread, manual |-> manual]
           c == Wait(b, due, w, most)
<1>1. seq \in Nat /\ seq <= NoticeGap /\ due \subseteq 1..seq /\ Sound(b, {}, seq)
  BY CountersFacts DEF MailInv, MailSound
<1>2. /\ box' = [box EXCEPT ![p] = c] /\ seq' = seq /\ due' = due
      /\ registered' = registered /\ parked' = parked
  BY DEF WaitForMail
<1>3. RegistryOK'
  BY <1>2 DEF MailInv, RegistryOK
<1>4. w \in Waiter /\ most \in Nat
  <2>1. filter \in [from : Peers \cup {Hub, None}, thread : Threads \cup {None}]
    BY MailboxesAssumption
  <2> QED BY <2>1, MailboxesAssumption DEF Waiter
<1> HIDE DEF b, w
<1>5. Took(b, c, due, seq)
  BY <1>1, <1>4, WaitSound
<1> HIDE DEF c
<1>6. box'[p] = c => BoxStep(p)
  BY <1>2, <1>5 DEF BoxStep, b
<1> QED BY <1>2, <1>3, <1>6, OneBoxStep

\* A peer commits.
LEMMA CommitStep ==
  ASSUME MailInv, NEW p \in Peers, NEW ids, CommitMail(p, ids)
  PROVE  StepOK
<1> DEFINE b == box[p]
           I == Ids(Msgs(b.leases)) \cap ids
           c == Commit(b, ids)
<1>1. Sound(b, {}, seq)
  BY DEF MailInv, MailSound
<1>2. /\ box' = [box EXCEPT ![p] = c] /\ seq' = seq /\ due' = due
      /\ registered' = registered /\ parked' = parked /\ p \in registered
  BY DEF CommitMail
<1>3. RegistryOK'
  BY <1>2 DEF MailInv, RegistryOK
<1> HIDE DEF b
<1>4. c = Commit(b, I)
  BY <1>1, CommitOfLeases
<1>5. Committed(b, c, I, seq)
  BY <1>1, CommitSound
<1>6. I \in SUBSET Ids(Msgs(b.leases))
  OBVIOUS
<1> HIDE DEF c, I
<1>7. CommitMail(p, I)
  BY <1>2, <1>4 DEF CommitMail, b
<1>8. box'[p] = c => BoxStep(p)
  BY <1>2, <1>5, <1>6, <1>7 DEF BoxStep, b
<1> QED BY <1>2, <1>3, <1>8, OneBoxStep

\* A peer nacks.
LEMMA NackStep ==
  ASSUME MailInv, NEW p \in Peers,
         NEW ids \in SUBSET (Ids(Msgs(box[p].leases)) \cup Ids(box[p].dead)), NackMail(p, ids)
  PROVE  StepOK
<1> DEFINE b == box[p]
           c == Nack(b, ids)
<1>1. Sound(b, {}, seq)
  BY DEF MailInv, MailSound
<1>2. /\ box' = [box EXCEPT ![p] = c] /\ seq' = seq /\ due' = due
      /\ registered' = registered /\ parked' = parked
  BY DEF NackMail
<1>3. RegistryOK'
  BY <1>2 DEF MailInv, RegistryOK
<1>4. ids \in SUBSET Held(b)
  BY DEF Held
<1> HIDE DEF b
<1>5. Nacked(b, c, seq)
  BY <1>1, NackSound
<1> HIDE DEF c
<1>6. box'[p] = c => BoxStep(p)
  BY <1>2, <1>4, <1>5 DEF BoxStep, b
<1> QED BY <1>2, <1>3, <1>6, OneBoxStep

\* A wait spends its budget.
LEMMA WaitEndsStep ==
  ASSUME MailInv, NEW p \in Peers, NEW i, WaitEnds(p, i)
  PROVE  StepOK
<1> DEFINE b == box[p]
           c == EndWait(b, i)
<1>1. seq \in Nat /\ seq <= NoticeGap /\ due \subseteq 1..seq /\ Sound(b, {}, seq)
  BY CountersFacts DEF MailInv, MailSound
<1>2. /\ box' = [box EXCEPT ![p] = c] /\ seq' = seq /\ due' = due
      /\ registered' = registered /\ parked' = parked /\ i \in DOMAIN b.waiters
  BY DEF WaitEnds
<1>3. RegistryOK'
  BY <1>2 DEF MailInv, RegistryOK
<1> HIDE DEF b
<1>4. Still(b, c, seq)
  BY <1>1, <1>2, EndWaitSound
<1> HIDE DEF c
<1>5. Took(b, c, due, seq)
  BY <1>1, <1>4, StillTook
<1>6. box'[p] = c => BoxStep(p)
  BY <1>2, <1>5 DEF BoxStep, b
<1> QED BY <1>2, <1>3, <1>6, OneBoxStep

\* A lease lapses.
LEMMA LapseStep ==
  ASSUME MailInv, NEW p \in Peers, LeaseLapses(p)
  PROVE  StepOK
<1> DEFINE b == box[p]
           c == LapseLease(b)
<1>1. seq \in Nat /\ seq <= NoticeGap /\ due \subseteq 1..seq /\ Sound(b, {}, seq)
  BY CountersFacts DEF MailInv, MailSound
<1>2. /\ box' = [box EXCEPT ![p] = c] /\ seq' = seq /\ due' = due
      /\ registered' = registered /\ parked' = parked
      /\ \E l \in Elements(b.leases) : ~l.lapsed
  BY DEF LeaseLapses
<1>3. RegistryOK'
  BY <1>2 DEF MailInv, RegistryOK
<1> HIDE DEF b
<1>4. Still(b, c, seq)
  BY <1>1, <1>2, LapseSound
<1> HIDE DEF c
<1>5. Took(b, c, due, seq)
  BY <1>1, <1>4, StillTook
<1>6. box'[p] = c => BoxStep(p)
  BY <1>2, <1>5 DEF BoxStep, b
<1> QED BY <1>2, <1>3, <1>6, OneBoxStep

\* Every step of the specification, and every stutter.
LEMMA EveryStep ==
  ASSUME MailInv, [Next]_vars
  PROVE  StepOK
<1>1. CASE UNCHANGED vars
  <2>1. RegistryOK' /\ CountersOK' /\ box' = box /\ seq' = seq
    BY <1>1 DEF MailInv, RegistryOK, CountersOK, vars
  <2> QED BY <2>1, NoBoxStep
<1>2. ASSUME NEW p \in Peers, NEW reclaim \in BOOLEAN, Register(p, reclaim)
      PROVE  StepOK
  BY <1>2, RegisterStep
<1>3. ASSUME NEW p \in Peers, Unregister(p) PROVE StepOK
  BY <1>3, UnregisterStep
<1>4. ASSUME Tick(Peers) PROVE StepOK
  BY <1>4, TickStep DEF Tick
<1>5. ASSUME NEW p \in Peers, NEW to \in Addresses, NEW shape \in Shapes, NEW late \in BOOLEAN,
             NEW admitted \in Admissions, Send(p, to, shape, late, admitted)
      PROVE  StepOK
  BY <1>5, SendStep
<1>6. ASSUME NEW p \in Peers, NEW from \in {f.from : f \in Filters}, NEW manual \in BOOLEAN,
             PollMail(p, from, manual)
      PROVE  StepOK
  BY <1>6, PollStep
<1>7. ASSUME NEW p \in Peers, NEW filter \in Filters, NEW manual \in BOOLEAN,
             NEW most \in Batches, WaitForMail(p, filter, manual, most)
      PROVE  StepOK
  BY <1>7, WaitStep
<1>8. ASSUME NEW p \in Peers, NEW ids \in SUBSET DOMAIN box[p].attempts, CommitMail(p, ids)
      PROVE  StepOK
  BY <1>8, CommitStep
<1>9. ASSUME NEW p \in Peers,
             NEW ids \in SUBSET (Ids(Msgs(box[p].leases)) \cup Ids(box[p].dead)),
             NackMail(p, ids)
      PROVE  StepOK
  BY <1>9, NackStep
<1>10. ASSUME NEW p \in Peers, NEW i \in DOMAIN box[p].waiters, WaitEnds(p, i) PROVE StepOK
  BY <1>10, WaitEndsStep
<1>11. ASSUME NEW p \in Peers, LeaseLapses(p) PROVE StepOK
  BY <1>11, LapseStep
<1>12. ASSUME NEW i \in 1..seq, DeadlinePasses(i) PROVE StepOK
  BY <1>12, DeadlineStep
<1> QED BY <1>1, <1>2, <1>3, <1>4, <1>5, <1>6, <1>7, <1>8, <1>9, <1>10, <1>11, <1>12
        DEF Next, NextAmong

\* The initial state satisfies the invariant.
LEMMA MailInvInitially == Init => MailInv
<1> SUFFICES ASSUME Init PROVE MailInv
  OBVIOUS
<1>1. RegistryOK
  BY DEF Init, RegistryOK
<1>2. CountersOK
  BY MailboxesAssumption DEF Init, CountersOK
<1>3. MailSound
  <2>1. box = [p \in Peers |-> EmptyBox] /\ seq = 0
    BY DEF Init
  <2>2. Sound(EmptyBox, {}, 0)
    BY EmptyBoxSound
  <2> HIDE DEF EmptyBox
  <2> QED BY <2>1, <2>2 DEF MailSound
<1> QED BY <1>1, <1>2, <1>3 DEF MailInv

\* The invariant: whatever a mailbox was offered is in one place of it or
\* settled in one way, notices are about dropped messages, and its lists keep
\* their bounds and their order.
THEOREM MailboxesAreSound == Spec => []MailInv
<1>1. Init => MailInv
  BY MailInvInitially
<1>2. MailInv /\ [Next]_vars => MailInv'
  BY EveryStep DEF StepOK, MailInv
<1> QED BY <1>1, <1>2, PTL DEF Spec

-----------------------------------------------------------------------------
(* What the invariant implies.                                             *)

\* A sound mailbox is well typed, and has every message in one place.
LEMMA SoundIsOK ==
  ASSUME NEW b, NEW n, Sound(b, {}, n)
  PROVE  BoxOK(b) /\ OnePlace(b)
<1>1. /\ Formed(b)
      /\ Apart(Ids(b.queue), Ids(Msgs(b.leases)), Ids(b.dead), {}, b.read, b.dropped, b.discarded)
      /\ b.offered = Held(b) \cup b.read \cup b.dropped \cup b.discarded
      /\ b.offered \subseteq Nat
  BY DEF Sound, Numbered, Held
<1>2. BoxOK(b)
  <2>1. b.queue \in Seq(Message) /\ b.leases \in Seq(Lease) /\ b.dead \in Seq(Message)
    BY <1>1 DEF Formed, MailList, LeaseList
  <2>2. \A i, j \in DOMAIN b.queue : i < j => b.queue[i].prio >= b.queue[j].prio
    BY <1>1 DEF Formed, Sorted
  <2> QED BY <1>1, <2>1, <2>2 DEF BoxOK, Formed
<1>3. OnePlace(b)
  <2>1. Distinct(b.queue) /\ Distinct(Msgs(b.leases)) /\ Distinct(b.dead)
    BY <1>1 DEF Formed, MailList, LeaseList
  <2> QED BY <1>1, <2>1 DEF OnePlace, Apart, Held
<1> QED BY <1>2, <1>3

\* Type correctness: the maps of the hub hold what they declare, and neither a
\* mailbox nor its dead letters outgrow their bounds.
THEOREM MailboxesTypeOK == Spec => []TypeOK
<1>1. MailInv => TypeOK
  BY SoundIsOK DEF MailInv, RegistryOK, CountersOK, MailSound, TypeOK
<1> QED BY <1>1, MailboxesAreSound, PTL

\* deliver, handOut, reapLeases, requeue, deadLetter, commit and nack keep
\* every message in one place.
THEOREM CopiesStayApart == Spec => []EveryCopyInOnePlace
<1>1. MailInv => EveryCopyInOnePlace
  BY SoundIsOK DEF MailInv, MailSound, EveryCopyInOnePlace
<1> QED BY <1>1, MailboxesAreSound, PTL

\* Whatever a mailbox was offered is held, read, counted as dropped, or went
\* with the mailbox.
THEOREM NoSilentLoss == Spec => []NothingLostInSilence
<1>1. ASSUME MailInv, NEW p \in Peers
      PROVE  box[p].offered = Held(box[p]) \cup box[p].read \cup box[p].dropped
                                \cup box[p].discarded
  <2>1. Sound(box[p], {}, seq)
    BY <1>1 DEF MailInv, MailSound
  <2> QED BY <2>1 DEF Sound, Held
<1>2. MailInv => NothingLostInSilence
  BY <1>1 DEF NothingLostInSilence
<1> QED BY <1>2, MailboxesAreSound, PTL

-----------------------------------------------------------------------------
(* What no step does.                                                      *)

\* Every step is a step of every mailbox.
LEMMA StepOfEachBox ==
  ASSUME MailInv, [Next]_vars, NEW p \in Peers
  PROVE  /\ Sound(box[p], {}, seq) /\ Sound(box'[p], {}, seq') /\ BoxStep(p)
         /\ seq' \in Nat /\ seq' <= NoticeGap /\ due' \subseteq 1..seq'
<1>1. StepOK
  BY EveryStep
<1>2. seq' \in Nat /\ seq' <= NoticeGap /\ due' \subseteq 1..seq'
  BY <1>1, MailboxesAssumption, MailboxAssumption DEF StepOK, CountersOK
<1>3. Sound(box[p], {}, seq)
  BY DEF MailInv, MailSound
<1>4. BoxStep(p)
  BY <1>1 DEF StepOK
<1> QED BY <1>2, <1>3, <1>4, BoxStepSound

\* Mail is discarded only when its owner is neither registered nor parked.
THEOREM GcParksMail == Spec => OnlyLeavingDiscards
<1>1. ASSUME MailInv, [Next]_vars, NEW p \in Peers
      PROVE  box'[p].discarded # box[p].discarded => p \notin registered' \cup parked'
  BY <1>1, StepOfEachBox DEF BoxStep, Took, Committed, Nacked, Grows
<1>2. MailInv /\ [Next]_vars =>
        [\A p \in Peers : box'[p].discarded # box[p].discarded
                            => p \notin registered' \cup parked']_vars
  BY <1>1
<1> QED BY <1>2, MailboxesAreSound, PTL DEF Spec, OnlyLeavingDiscards

\* A message keeps its count of hand-outs as long as it is held: only reviving
\* a dead letter resets it.
THEOREM CountsAreKept == Spec => AttemptsAreKept
<1>1. ASSUME MailInv, [Next]_vars, NEW p \in Peers,
             NEW i \in DOMAIN box[p].attempts \ DOMAIN box'[p].attempts
      PROVE  i \in Ids(box[p].dead) \/ i \notin Held(box'[p])
  <2> DEFINE b == box[p]
             c == box'[p]
  <2>1. Sound(c, {}, seq') /\ BoxStep(p)
    BY <1>1, StepOfEachBox
  <2>2. Held(c) \cap (c.read \cup c.dropped) = {}
    BY <2>1 DEF Sound, Apart, Held
  <2>3. \/ Grows(b, c) \/ Nacked(b, c, seq') \/ Held(c) = {}
    BY <2>1 DEF BoxStep, Took, Committed, Gone
  <2>4. CASE Grows(b, c)
    <3>1. i \in c.read \cup c.dropped
      BY <1>1, <2>4 DEF Grows
    <3> QED BY <2>2, <3>1
  <2>5. CASE Nacked(b, c, seq')
    <3>1. i \in Ids(b.dead) \cup c.read \cup c.dropped
      BY <1>1, <2>5 DEF Nacked
    <3> QED BY <2>2, <3>1
  <2> QED BY <2>3, <2>4, <2>5
<1>2. MailInv /\ [Next]_vars =>
        [\A p \in Peers : \A i \in DOMAIN box[p].attempts \ DOMAIN box'[p].attempts :
           i \in Ids(box[p].dead) \/ i \notin Held(box'[p])]_vars
  BY <1>1
<1> QED BY <1>2, MailboxesAreSound, PTL DEF Spec, AttemptsAreKept

\* What the owner of a mailbox is given is among what the step may give.
LEMMA GivenAmong ==
  ASSUME NEW b, NEW c, NEW n, Sound(b, {}, n), NEW k, Sound(c, {}, k), NEW I, GivesOnly(b, c, I)
  PROVE  Given(b, c) \subseteq I
<1>1. /\ DOMAIN c.attempts \subseteq Nat
      /\ \A i : Attempts(b, i) \in Nat /\ Attempts(c, i) \in Nat
  <2>1. DOMAIN c.attempts \subseteq Nat
    BY DEF Sound, Numbered
  <2>2. /\ b.attempts \in [DOMAIN b.attempts -> Nat \ {0}]
        /\ c.attempts \in [DOMAIN c.attempts -> Nat \ {0}]
    BY DEF Sound, Formed
  <2> QED BY <2>1, <2>2, AttemptsNat
<1>2. ASSUME NEW i \in DOMAIN c.attempts, Attempts(c, i) > Attempts(b, i), i \notin I
      PROVE  FALSE
  <2>1. Attempts(c, i) <= Attempts(b, i)
    BY <1>1, <1>2 DEF GivesOnly
  <2> QED BY <1>1, <1>2, <2>1
<1>3. c.read \ b.read \subseteq I
  BY DEF GivesOnly
<1> QED BY <1>2, <1>3 DEF Given

\* A message whose deadline has passed is never given to its owner, but by the
\* commit of a lease, which settles what was given before.
THEOREM DueIsNeverGiven == Spec => ExpiredNeverHandedOut
<1>1. ASSUME MailInv, [Next]_vars, NEW p \in Peers
      PROVE  \/ Given(box[p], box'[p]) \cap due' = {}
             \/ \E ids \in SUBSET Ids(Msgs(box[p].leases)) : CommitMail(p, ids)
  <2> DEFINE b == box[p]
             c == box'[p]
  <2>1. /\ Sound(b, {}, seq) /\ Sound(c, {}, seq') /\ BoxStep(p)
        /\ seq' \in Nat /\ seq' <= NoticeGap /\ due' \subseteq 1..seq'
    BY <1>1, StepOfEachBox
  <2>2. CASE \E I : GivesOnly(b, c, I) /\ I \cap due' = {}
    <3>1. PICK I : GivesOnly(b, c, I) /\ I \cap due' = {}
      BY <2>2
    <3> HIDE DEF b, c
    <3>2. Given(b, c) \subseteq I
      BY <2>1, <3>1, GivenAmong
    <3>3. Given(b, c) \cap due' = {}
      BY <3>1, <3>2
    <3> QED BY <3>3 DEF b, c
  <2>3. CASE Nacked(b, c, seq')
    <3> DEFINE I == c.offered \ b.offered
    <3>1. GivesOnly(b, c, I) /\ \A i \in I : i > NoticeGap
      BY <2>3 DEF Nacked
    <3> HIDE DEF I
    <3>2. I \cap due' = {}
      <4> SUFFICES ASSUME NEW i \in I, i \in due' PROVE FALSE
        OBVIOUS
      <4>1. i > NoticeGap /\ NoticeGap \in Nat /\ i \in Nat /\ i <= seq'
        BY <2>1, <3>1, MailboxAssumption
      <4> QED BY <2>1, <4>1
    <3> QED BY <2>2, <3>1, <3>2
  <2>4. CASE \E ids \in SUBSET Ids(Msgs(b.leases)) : CommitMail(p, ids)
    BY <2>4
  <2>5. BoxStep(p) => \/ \E I : GivesOnly(b, c, I) /\ I \cap due' = {}
                      \/ Nacked(b, c, seq')
                      \/ \E ids \in SUBSET Ids(Msgs(b.leases)) : CommitMail(p, ids)
    BY DEF BoxStep, Took, Gone
  <2> QED BY <2>1, <2>2, <2>3, <2>4, <2>5
<1>2. MailInv /\ [Next]_vars =>
        [\A p \in Peers :
           \/ Given(box[p], box'[p]) \cap due' = {}
           \/ \E ids \in SUBSET Ids(Msgs(box[p].leases)) : CommitMail(p, ids)]_vars
  BY <1>1
<1> QED BY <1>2, MailboxesAreSound, PTL DEF Spec, ExpiredNeverHandedOut

\* An exhausted message that is out on a lease is offered again by a nack and
\* by nothing else.
THEOREM ExhaustedStaysAway == Spec => OnlyNackRetriesExhausted
<1>1. ASSUME MailInv, [Next]_vars, NEW p \in Peers
      PROVE  \/ \A i \in Ids(Msgs(box[p].leases)) :
                  Exhausted(box[p], i) =>
                    /\ i \notin Ids(box'[p].queue)
                    /\ Attempts(box'[p], i) <= Attempts(box[p], i)
             \/ \E ids \in SUBSET Held(box[p]) : NackMail(p, ids)
  <2> DEFINE b == box[p]
             c == box'[p]
  <2>1. Sound(b, {}, seq) /\ Sound(c, {}, seq') /\ BoxStep(p)
    BY <1>1, StepOfEachBox
  <2>2. Ids(Msgs(b.leases)) \subseteq Nat /\ Ids(Msgs(b.leases)) \cap Ids(b.queue) = {}
    BY <2>1 DEF Sound, Numbered, Apart
  <2>3. CASE Took(b, c, due', seq')
    <3>1. PICK I : /\ GivesOnly(b, c, I)
                   /\ \A i \in Ids(Msgs(b.leases)) :
                        Exhausted(b, i) => i \notin I \cup Ids(c.queue)
      BY <2>3 DEF Took
    <3> QED BY <2>2, <3>1 DEF GivesOnly
  <2>4. CASE \E ids \in SUBSET Ids(Msgs(b.leases)) : Committed(b, c, ids, seq')
    <3>1. c.queue = b.queue /\ \A i : Attempts(c, i) <= Attempts(b, i)
      BY <2>4 DEF Committed
    <3> QED BY <2>2, <3>1
  <2>5. CASE \E ids \in SUBSET Held(b) : NackMail(p, ids)
    BY <2>5
  <2>6. CASE Gone(b, c, due', seq')
    <3>1. PICK I : /\ GivesOnly(b, c, I)
                   /\ \A i \in Ids(Msgs(b.leases)) : Exhausted(b, i) => i \notin I
      BY <2>6 DEF Gone
    <3>2. Ids(c.queue) = {}
      BY <2>6 DEF Gone, Held
    <3> QED BY <2>2, <3>1, <3>2 DEF GivesOnly
  <2> QED BY <2>1, <2>3, <2>4, <2>5, <2>6 DEF BoxStep
<1>2. MailInv /\ [Next]_vars =>
        [\A p \in Peers :
           \/ \A i \in Ids(Msgs(box[p].leases)) :
                Exhausted(box[p], i) =>
                  /\ i \notin Ids(box'[p].queue)
                  /\ Attempts(box'[p], i) <= Attempts(box[p], i)
           \/ \E ids \in SUBSET Held(box[p]) : NackMail(p, ids)]_vars
  BY <1>1
<1> QED BY <1>2, MailboxesAreSound, PTL DEF Spec, OnlyNackRetriesExhausted

-----------------------------------------------------------------------------
(* The mailboxes keep the contract of MailContract.                        *)

\* What a step of a mailbox means for its accounts.
LEMMA AccountsGrow ==
  ASSUME NEW p, NEW n, Sound(box[p], {}, n), BoxStep(p)
  PROVE  /\ box[p].offered \subseteq box'[p].offered
         /\ box[p].read \subseteq box'[p].read
         /\ box[p].dropped \subseteq box'[p].dropped
         /\ box[p].discarded \subseteq box'[p].discarded
         /\ box'[p].discarded # box[p].discarded => Held(box'[p]) = {}
<1> DEFINE b == box[p]
           c == box'[p]
<1>1. Grows(b, c) \/ Nacked(b, c, seq') \/ Gone(b, c, due', seq')
  BY DEF BoxStep, Took, Committed
<1> HIDE DEF b, c
<1>2. /\ b.offered \subseteq c.offered /\ b.read \subseteq c.read
      /\ b.dropped \subseteq c.dropped /\ b.discarded \subseteq c.discarded
      /\ c.discarded # b.discarded => Held(c) = {}
  BY <1>1 DEF Grows, Nacked, Gone
<1> QED BY <1>2 DEF b, c

\* A step of the mailboxes is a step of the contract for every peer.
LEMMA ContractStep ==
  ASSUME MailInv, [Next]_vars, NEW p \in Peers
  PROVE  Contract!Step(p)
<1> DEFINE b == box[p]
           c == box'[p]
<1>1. Sound(b, {}, seq) /\ Sound(c, {}, seq') /\ BoxStep(p)
  BY StepOfEachBox
<1>2. /\ b.offered \subseteq c.offered /\ b.read \subseteq c.read
      /\ b.dropped \subseteq c.dropped /\ b.discarded \subseteq c.discarded
      /\ c.discarded # b.discarded => Held(c) = {}
  BY <1>1, AccountsGrow
<1> HIDE DEF b, c
<1>3. /\ b.offered = Held(b) \cup b.read \cup b.dropped \cup b.discarded
      /\ c.offered = Held(c) \cup c.read \cup c.dropped \cup c.discarded
  BY <1>1 DEF Sound, Held
<1>4. /\ Held(c) \cap (c.read \cup c.dropped \cup c.discarded) = {}
      /\ c.read \cap c.dropped = {} /\ c.discarded \cap (c.read \cup c.dropped) = {}
  BY <1>1 DEF Sound, Apart, Held
<1>5. Held(b) \subseteq Held(c) \cup (c.read \cup c.dropped \cup c.discarded)
  BY <1>2, <1>3
<1> QED BY <1>2, <1>4, <1>5 DEF Contract!Step, Contract!Settled, b, c

\* A copy offered to a peer is held until it is settled, once and in one way:
\* the hub implements MailContract.
THEOREM MailboxesKeepContract == Spec => KeepsContract
<1>1. Init => Contract!Init
  <2> SUFFICES ASSUME Init PROVE Contract!Init
    OBVIOUS
  <2>1. \A p \in Peers : box[p] = EmptyBox
    BY DEF Init
  <2>2. /\ Held(EmptyBox) = {} /\ EmptyBox.read = {}
        /\ EmptyBox.dropped = {} /\ EmptyBox.discarded = {}
    <3>1. Msgs(<<>>) = <<>>
      BY DEF Msgs
    <3> QED BY <3>1, EmptyList DEF EmptyBox, Held
  <2> QED BY <2>1, <2>2 DEF Contract!Init, Contract!Nothing
<1>2. MailInv /\ [Next]_vars => [Contract!Next]_(Contract!vars)
  BY ContractStep DEF Contract!Next
<1> QED BY <1>1, <1>2, MailboxesAreSound, PTL DEF Spec, KeepsContract, Contract!Spec

=============================================================================
