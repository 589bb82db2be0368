---------------------------- MODULE QueueLemmas ----------------------------
(* What the operations of a FIFO channel do to the set of its entries, and *)
(* to the order of the messages in it.                                     *)
EXTENDS Pipeline, Functions, FunctionTheorems, FiniteSetTheorems,
        SequenceTheorems, WellFoundedInduction, TLAPS

-----------------------------------------------------------------------------
(* The set of the entries.                                                 *)

LEMMA Emptied ==
  ASSUME NEW S
  PROVE  /\ <<>> \in Seq(S)
         /\ Range(<<>>) = {}
         /\ IsInjective(<<>>)
  BY DEF Range, IsInjective

\* send
LEMMA Pushed ==
  ASSUME NEW S, NEW s \in Seq(S), NEW e \in S
  PROVE  /\ Append(s, e) \in Seq(S)
         /\ Range(Append(s, e)) = Range(s) \cup {e}
         /\ IsInjective(s) /\ e \notin Range(s) => IsInjective(Append(s, e))
<1> DEFINE t == Append(s, e)
<1>1. /\ t \in Seq(S)
      /\ Len(t) = Len(s) + 1
      /\ t[Len(s) + 1] = e
      /\ \A i \in 1 .. Len(s) : t[i] = s[i]
  BY AppendProperties
<1>2. Len(s) \in Nat /\ DOMAIN s = 1 .. Len(s) /\ DOMAIN t = 1 .. Len(s) + 1
  BY <1>1
<1> HIDE DEF t
<1>3. Range(t) = Range(s) \cup {e}
  BY <1>1, <1>2 DEF Range
<1>4. ASSUME IsInjective(s), e \notin Range(s) PROVE IsInjective(t)
  BY <1>1, <1>2, <1>4 DEF Range, IsInjective
<1> QED BY <1>1, <1>3, <1>4 DEF t

\* recv
LEMMA Popped ==
  ASSUME NEW S, NEW s \in Seq(S), s # <<>>
  PROVE  /\ Head(s) \in S
         /\ Tail(s) \in Seq(S)
         /\ Range(s) = {Head(s)} \cup Range(Tail(s))
         /\ IsInjective(s) => /\ IsInjective(Tail(s))
                              /\ Head(s) \notin Range(Tail(s))
<1> DEFINE t == Tail(s)
<1>1. /\ Head(s) \in S /\ Head(s) = s[1]
      /\ t \in Seq(S) /\ Len(t) = Len(s) - 1
      /\ \A i \in 1 .. Len(t) : t[i] = s[i + 1]
  BY HeadTailProperties
<1>2. /\ Len(s) \in Nat \ {0} /\ DOMAIN s = 1 .. Len(s)
      /\ DOMAIN t = 1 .. Len(s) - 1
  BY <1>1
<1> HIDE DEF t
<1>3. \A x \in Range(s) : x = Head(s) \/ x \in Range(t)
  <2> TAKE x \in Range(s)
  <2>1. PICK i \in 1 .. Len(s) : x = s[i]
    BY <1>2 DEF Range
  <2>2. CASE i = 1
    BY <1>1, <2>1, <2>2
  <2>3. CASE i # 1
    <3>1. i - 1 \in DOMAIN t /\ t[i - 1] = x
      BY <1>1, <1>2, <2>1, <2>3
    <3> QED BY <3>1 DEF Range
  <2> QED BY <2>2, <2>3
<1>4. Range(t) \subseteq Range(s) /\ Head(s) \in Range(s)
  BY <1>1, <1>2 DEF Range
<1>5. ASSUME IsInjective(s) PROVE IsInjective(t) /\ Head(s) \notin Range(t)
  <2>1. IsInjective(t)
    <3>1. \A i, j \in 1 .. Len(s) - 1 : s[i + 1] = s[j + 1] => i = j
      BY <1>2, <1>5 DEF IsInjective
    <3> QED BY <1>1, <1>2, <3>1 DEF IsInjective
  <2>2. \A i \in 1 .. Len(s) - 1 : s[i + 1] # s[1]
    BY <1>2, <1>5 DEF IsInjective
  <2>3. Head(s) \notin Range(t)
    BY <1>1, <1>2, <2>2 DEF Range
  <2> QED BY <2>1, <2>3
<1> QED BY <1>1, <1>3, <1>4, <1>5 DEF t

\* Receiving up to and including entry i.
LEMMA Dropped ==
  ASSUME NEW S, NEW s \in Seq(S), NEW i \in DOMAIN s
  PROVE  /\ SubSeq(s, i + 1, Len(s)) \in Seq(S)
         /\ Range(SubSeq(s, i + 1, Len(s))) \subseteq Range(s)
<1>1. i \in 1 .. Len(s) /\ Len(s) \in Nat /\ DOMAIN s = 1 .. Len(s)
  OBVIOUS
<1> DEFINE t == SubSeq(s, i + 1, Len(s))
<1>2. /\ t \in Seq(S)
      /\ Len(t) = Len(s) - i
      /\ \A j \in 1 .. Len(s) - i : t[j] = s[i + j]
  BY <1>1, SubSeqProperties
<1>3. DOMAIN t = 1 .. Len(s) - i
  BY <1>2
<1> HIDE DEF t
<1> QED BY <1>1, <1>2, <1>3 DEF Range, t

\* The entries of a queue have the type of the queue.
LEMMA Entries ==
  ASSUME NEW S, NEW s \in Seq(S)
  PROVE  Range(s) \subseteq S
  BY DEF Range

\* One task of a list of tasks moves on.
LEMMA Moved ==
  ASSUME NEW S, NEW s \in Seq(S), NEW i \in DOMAIN s, NEW e \in S
  PROVE  /\ [s EXCEPT ![i] = e] \in Seq(S)
         /\ DOMAIN [s EXCEPT ![i] = e] = DOMAIN s
         /\ [s EXCEPT ![i] = e][i] = e
         /\ \A k \in DOMAIN s \ {i} : [s EXCEPT ![i] = e][k] = s[k]
  OBVIOUS

\* A task is added to it.
LEMMA Spawned ==
  ASSUME NEW S, NEW s \in Seq(S), NEW e \in S
  PROVE  /\ Append(s, e) \in Seq(S)
         /\ Len(s) + 1 \notin DOMAIN s
         /\ DOMAIN Append(s, e) = DOMAIN s \cup {Len(s) + 1}
         /\ Append(s, e)[Len(s) + 1] = e
         /\ \A k \in DOMAIN s : Append(s, e)[k] = s[k]
<1> DEFINE t == Append(s, e)
<1>1. /\ t \in Seq(S) /\ Len(s) \in Nat
      /\ Len(t) = Len(s) + 1
      /\ t[Len(s) + 1] = e
      /\ \A i \in 1 .. Len(s) : t[i] = s[i]
  BY AppendProperties
<1>2. DOMAIN s = 1 .. Len(s) /\ DOMAIN t = 1 .. Len(s) + 1
  BY <1>1
<1> HIDE DEF t
<1>3. 1 .. Len(s) + 1 = (1 .. Len(s)) \cup {Len(s) + 1} /\ Len(s) + 1 \notin 1 .. Len(s)
  BY <1>1
<1> QED BY <1>1, <1>2, <1>3 DEF t

\* Sequences and functions.
LEMMA AsSequence ==
  ASSUME NEW S, NEW n \in Nat, NEW f \in [1 .. n -> S]
  PROVE  f \in Seq(S) /\ Len(f) = n /\ DOMAIN f = 1 .. n
  OBVIOUS

LEMMA AsFunction ==
  ASSUME NEW S, NEW f \in Seq(S)
  PROVE  f \in [DOMAIN f -> S]
  OBVIOUS

LEMMA OfWiderType ==
  ASSUME NEW S, NEW T, S \subseteq T, NEW s \in Seq(S)
  PROVE  s \in Seq(T)
  OBVIOUS

\* A queue behind another one.
LEMMA Behind ==
  ASSUME NEW S, NEW s \in Seq(S), NEW t \in Seq(S)
  PROVE  /\ s \o t \in Seq(S) /\ s \o <<>> = s
         /\ \A k \in DOMAIN s : k \in DOMAIN (s \o t) /\ (s \o t)[k] = s[k]
  OBVIOUS

\* Its length, and where its parts are.
LEMMA BehindPlaces ==
  ASSUME NEW S, NEW s \in Seq(S), NEW t \in Seq(S)
  PROVE  /\ Len(s) \in Nat /\ Len(t) \in Nat /\ Len(s \o t) = Len(s) + Len(t)
         /\ SubSeq(s \o t, 1, Len(s)) = s
         /\ \A k \in Len(s) + 1 .. Len(s \o t) :
              k - Len(s) \in DOMAIN t /\ (s \o t)[k] = t[k - Len(s)]
<1>1. /\ Len(s) \in Nat /\ Len(t) \in Nat /\ Len(s \o t) = Len(s) + Len(t)
      /\ \A k \in Len(s) + 1 .. Len(s \o t) :
           k - Len(s) \in DOMAIN t /\ (s \o t)[k] = t[k - Len(s)]
  OBVIOUS
<1>2. SubSeq(s \o t, 1, Len(s)) = s
  OBVIOUS
<1> QED BY <1>1, <1>2

\* The messages in front of message k.
LEMMA InFront ==
  ASSUME NEW S, NEW s \in Seq(S), NEW k \in 1 .. Len(s)
  PROVE  /\ Len(SubSeq(s, 1, k - 1)) = k - 1
         /\ k = 1 => SubSeq(s, 1, k - 1) = <<>>
         /\ k > 1 => /\ SubSeq(s, 1, k - 1) # <<>>
                     /\ SubSeq(s, 1, k - 1)[k - 1] = s[k - 1]
  OBVIOUS

LEMMA BehindOne ==
  ASSUME NEW S, NEW s \in Seq(S), NEW e \in S
  PROVE  s \o <<e>> = Append(s, e)
  OBVIOUS

LEMMA BehindPushed ==
  ASSUME NEW S, NEW s \in Seq(S), NEW t \in Seq(S), NEW e \in S
  PROVE  s \o Append(t, e) = Append(s \o t, e)
  OBVIOUS

-----------------------------------------------------------------------------
(* The order of the messages <<stream, number>>.                           *)

LEMMA InOrderEmpty ==
  ASSUME NEW c, NEW n \in Nat
  PROVE  InOrder(<<>>, c, n + 1, n)
  BY DEF InOrder, Places

\* Nothing of stream c.
LEMMA InOrderNone ==
  ASSUME NEW q, NEW c, \A k \in DOMAIN q : q[k][1] # c
  PROVE  InOrder(q, c, 1, 0)
<1>1. Places(q, c) = {}
  BY DEF Places
<1> QED BY <1>1 DEF InOrder

\* A message of the last stream is sent.
LEMMA SortedPushed ==
  ASSUME NEW M, NEW q \in Seq(Nat \X M), NEW m \in Nat, NEW n \in M, Sorted(q, m)
  PROVE  Sorted(Append(q, <<m, n>>), m)
<1> DEFINE t == Append(q, <<m, n>>)
           L == Len(q)
<1>1. /\ L \in Nat /\ DOMAIN q = 1 .. L
      /\ DOMAIN t = 1 .. L + 1
      /\ t[L + 1][1] = m
      /\ \A k \in 1 .. L : t[k] = q[k] /\ q[k][1] \in Nat
  OBVIOUS
<1>2. \A k \in 1 .. L : q[k][1] <= m
  BY <1>1 DEF Sorted
<1>3. \A i, k \in 1 .. L : i < k => q[i][1] <= q[k][1]
  BY <1>1 DEF Sorted
<1> HIDE DEF t, L
<1>4. \A k \in 1 .. L + 1 : k \in 1 .. L \/ k = L + 1
  BY <1>1
<1>5. \A k \in 1 .. L + 1 : t[k][1] <= m
  BY <1>1, <1>2, <1>4
<1>6. \A i, k \in 1 .. L + 1 : i < k => t[i][1] <= t[k][1]
  <2> TAKE i, k \in 1 .. L + 1
  <2> HAVE i < k
  <2>1. i \in 1 .. L
    BY <1>1
  <2>2. CASE k = L + 1
    BY <1>1, <1>2, <2>1, <2>2
  <2>3. CASE k \in 1 .. L
    BY <1>1, <1>3, <2>1, <2>3
  <2> QED BY <1>4, <2>2, <2>3
<1>7. Sorted(t, m)
  BY <1>1, <1>5, <1>6 DEF Sorted
<1> QED BY <1>7 DEF t

\* The same without the sets of places and numbers.
LEMMA InOrderMeans ==
  ASSUME NEW q, NEW c, NEW lo, NEW hi
  PROVE  InOrder(q, c, lo, hi) <=>
           /\ \A k \in DOMAIN q : q[k][1] = c => q[k][2] \in lo .. hi
           /\ \A n \in lo .. hi : \E k \in DOMAIN q : q[k][1] = c /\ q[k][2] = n
           /\ \A j, k \in DOMAIN q :
                q[j][1] = c /\ q[k][1] = c => (j < k <=> q[j][2] < q[k][2])
<1> DEFINE own == Places(q, c)
           N   == lo .. hi
<1> HIDE DEF N
<1>1. {q[k][2] : k \in own} = N <=>
        /\ \A k \in DOMAIN q : q[k][1] = c => q[k][2] \in N
        /\ \A n \in N : \E k \in DOMAIN q : q[k][1] = c /\ q[k][2] = n
  BY Zenon DEF Places
<1>2. (\A j, k \in own : j < k <=> q[j][2] < q[k][2]) <=>
        \A j, k \in DOMAIN q :
          q[j][1] = c /\ q[k][1] = c => (j < k <=> q[j][2] < q[k][2])
  BY Zenon DEF Places
<1>3. InOrder(q, c, lo, hi) <=> /\ {q[k][2] : k \in own} = N
                               /\ \A j, k \in own : j < k <=> q[j][2] < q[k][2]
  BY Zenon DEF InOrder, N
<1> QED BY <1>1, <1>2, <1>3, Zenon DEF N

\* What is in front of message k, if the messages are sorted and those of its
\* stream are in order.
LEMMA Following ==
  ASSUME NEW q, NEW L \in Nat, NEW m, NEW hi \in Nat, NEW k \in 1 .. L,
         DOMAIN q = 1 .. L,
         \A i \in 1 .. L : q[i][1] \in Nat /\ q[i][2] \in Nat,
         Sorted(q, m), InOrder(q, q[k][1], 1, hi)
  PROVE  \/ q[k][2] = 1 /\ (k = 1 \/ q[k - 1][1] < q[k][1])
         \/ k > 1 /\ q[k - 1][1] = q[k][1] /\ q[k][2] = q[k - 1][2] + 1
<1> DEFINE s == q[k][1]
<1>1. /\ \A i \in 1 .. L : q[i][1] = s => q[i][2] \in 1 .. hi
      /\ \A n \in 1 .. hi : \E i \in 1 .. L : q[i][1] = s /\ q[i][2] = n
      /\ \A i, j \in 1 .. L :
           q[i][1] = s /\ q[j][1] = s => (i < j <=> q[i][2] < q[j][2])
  BY InOrderMeans
<1>2. \A i, j \in 1 .. L : i < j => q[i][1] <= q[j][1]
  BY DEF Sorted
<1>3. s \in Nat /\ q[k][2] \in 1 .. hi /\ (k > 1 => k - 1 \in 1 .. L /\ k - 1 < k)
  BY <1>1
<1>4. k > 1 => q[k - 1][1] \in Nat /\ q[k - 1][2] \in Nat /\ q[k - 1][1] <= s
  BY <1>2, <1>3
<1>5. CASE q[k][2] = 1
  <2>1. CASE k > 1 /\ q[k - 1][1] = s
    <3>1. q[k - 1][2] < q[k][2] /\ q[k - 1][2] \in 1 .. hi
      BY <1>1, <1>3, <2>1
    <3> QED BY <1>5, <3>1
  <2>2. CASE k > 1 /\ q[k - 1][1] # s
    BY <1>3, <1>4, <1>5, <2>2
  <2> QED BY <1>5, <2>1, <2>2
<1>6. CASE q[k][2] # 1
  <2>1. q[k][2] - 1 \in 1 .. hi
    BY <1>3, <1>6
  <2>2. PICK i \in 1 .. L : q[i][1] = s /\ q[i][2] = q[k][2] - 1
    BY <1>1, <2>1
  <2>3. i < k
    <3>1. q[i][2] < q[k][2]
      BY <1>3, <2>2
    <3> QED BY <1>1, <2>2, <3>1
  <2>4. k > 1
    BY <2>3
  <2>5. i = k - 1
    <3> SUFFICES ASSUME i < k - 1 PROVE FALSE
      BY <2>3
    <3>1. s <= q[k - 1][1]
      BY <1>2, <1>3, <2>2, <2>4
    <3>2. q[k - 1][1] = s
      BY <1>3, <1>4, <2>4, <3>1
    <3>3. q[i][2] < q[k - 1][2] /\ q[k - 1][2] < q[k][2]
      BY <1>1, <1>3, <2>2, <2>4, <3>2
    <3> QED BY <1>3, <1>4, <2>2, <2>4, <3>3
  <2> QED BY <1>3, <2>2, <2>4, <2>5
<1> QED BY <1>5, <1>6

\* A message of c is sent, with the next number.
PushedTo(q, t, L, c, n) ==
  /\ DOMAIN q = 1 .. L /\ DOMAIN t = 1 .. L + 1
  /\ \A k \in 1 .. L : t[k] = q[k] /\ q[k][2] \in Nat
  /\ t[L + 1][1] = c /\ t[L + 1][2] = n

LEMMA OneMore ==
  ASSUME NEW q, NEW t, NEW c, NEW lo \in Nat, NEW hi \in Nat, NEW L \in Nat,
         PushedTo(q, t, L, c, hi)
  PROVE  InOrder(t, c, lo, hi) <=> lo <= hi /\ InOrder(q, c, lo, hi - 1)
<1> USE DEF PushedTo
<1>1. ASSUME InOrder(t, c, lo, hi)
      PROVE  lo <= hi /\ InOrder(q, c, lo, hi - 1)
  <2>1. /\ \A k \in 1 .. L + 1 : t[k][1] = c => t[k][2] \in lo .. hi
        /\ \A n \in lo .. hi : \E k \in 1 .. L + 1 : t[k][1] = c /\ t[k][2] = n
        /\ \A j, k \in 1 .. L + 1 :
             t[j][1] = c /\ t[k][1] = c => (j < k <=> t[j][2] < t[k][2])
    BY <1>1, InOrderMeans
  <2>2. lo <= hi
    BY <2>1
  <2>3. \A k \in 1 .. L : q[k][1] = c => q[k][2] \in lo .. hi - 1
    <3> SUFFICES ASSUME NEW k \in 1 .. L, q[k][1] = c PROVE q[k][2] \in lo .. hi - 1
      OBVIOUS
    <3>1. k < L + 1 /\ k \in 1 .. L + 1 /\ L + 1 \in 1 .. L + 1 /\ t[k] = q[k]
      OBVIOUS
    <3>2. q[k][2] \in lo .. hi /\ q[k][2] < hi
      BY <2>1, <3>1
    <3> QED BY <3>2
  <2>4. \A n \in lo .. hi - 1 : \E k \in 1 .. L : q[k][1] = c /\ q[k][2] = n
    <3> TAKE n \in lo .. hi - 1
    <3>1. PICK k \in 1 .. L + 1 : t[k][1] = c /\ t[k][2] = n
      BY <2>1
    <3>2. k \in 1 .. L
      BY <3>1
    <3> QED BY <3>1, <3>2
  <2>5. \A j, k \in 1 .. L :
          q[j][1] = c /\ q[k][1] = c => (j < k <=> q[j][2] < q[k][2])
    <3> TAKE j, k \in 1 .. L
    <3>1. j \in 1 .. L + 1 /\ k \in 1 .. L + 1 /\ t[j] = q[j] /\ t[k] = q[k]
      OBVIOUS
    <3> QED BY <2>1, <3>1
  <2> QED BY <2>2, <2>3, <2>4, <2>5, InOrderMeans
<1>2. ASSUME lo <= hi, InOrder(q, c, lo, hi - 1)
      PROVE  InOrder(t, c, lo, hi)
  <2>1. /\ \A k \in 1 .. L : q[k][1] = c => q[k][2] \in lo .. hi - 1
        /\ \A n \in lo .. hi - 1 : \E k \in 1 .. L : q[k][1] = c /\ q[k][2] = n
        /\ \A j, k \in 1 .. L :
             q[j][1] = c /\ q[k][1] = c => (j < k <=> q[j][2] < q[k][2])
    BY <1>2, InOrderMeans
  <2>2. \A k \in 1 .. L + 1 : k = L + 1 \/ (k \in 1 .. L /\ t[k] = q[k])
    OBVIOUS
  <2>3. \A k \in 1 .. L + 1 : t[k][1] = c => t[k][2] \in lo .. hi
    <3> TAKE k \in 1 .. L + 1
    <3>1. CASE k = L + 1
      BY <1>2, <3>1
    <3>2. CASE k \in 1 .. L /\ t[k] = q[k]
      BY <2>1, <3>2
    <3> QED BY <2>2, <3>1, <3>2
  <2>4. \A n \in lo .. hi : \E k \in 1 .. L + 1 : t[k][1] = c /\ t[k][2] = n
    <3> TAKE n \in lo .. hi
    <3>1. CASE n = hi
      BY <3>1
    <3>2. CASE n \in lo .. hi - 1
      BY <2>1, <3>2
    <3> QED BY <3>1, <3>2
  <2>5. \A j, k \in 1 .. L + 1 :
          t[j][1] = c /\ t[k][1] = c => (j < k <=> t[j][2] < t[k][2])
    <3> SUFFICES ASSUME NEW j \in 1 .. L + 1, NEW k \in 1 .. L + 1,
                        t[j][1] = c, t[k][1] = c
                 PROVE  j < k <=> t[j][2] < t[k][2]
      OBVIOUS
    <3>1. CASE /\ j \in 1 .. L /\ t[j] = q[j]
               /\ k \in 1 .. L /\ t[k] = q[k]
      BY <2>1, <3>1
    <3>2. CASE j = L + 1 /\ k \in 1 .. L /\ t[k] = q[k]
      <4>1. q[k][2] \in lo .. hi - 1
        BY <2>1, <3>2
      <4> QED BY <3>2, <4>1
    <3>3. CASE j \in 1 .. L /\ t[j] = q[j] /\ k = L + 1
      <4>1. q[j][2] \in lo .. hi - 1
        BY <2>1, <3>3
      <4> QED BY <3>3, <4>1
    <3>4. CASE j = L + 1 /\ k = L + 1
      BY <3>4
    <3> QED BY <2>2, <3>1, <3>2, <3>3, <3>4
  <2> QED BY <2>3, <2>4, <2>5, InOrderMeans
<1> QED BY <1>1, <1>2

LEMMA InOrderPushed ==
  ASSUME NEW C, NEW q \in Seq(C \X Nat), NEW c \in C, NEW lo \in Nat, NEW hi \in Nat
  PROVE  InOrder(Append(q, <<c, hi>>), c, lo, hi)
           <=> lo <= hi /\ InOrder(q, c, lo, hi - 1)
<1> DEFINE t == Append(q, <<c, hi>>)
<1>1. /\ t \in Seq(C \X Nat)
      /\ Len(t) = Len(q) + 1 /\ Len(q) \in Nat
      /\ t[Len(q) + 1][1] = c /\ t[Len(q) + 1][2] = hi
      /\ \A k \in 1 .. Len(q) : t[k] = q[k]
  BY AppendProperties
<1>2. /\ DOMAIN q = 1 .. Len(q) /\ DOMAIN t = 1 .. Len(q) + 1
      /\ \A k \in 1 .. Len(q) : q[k][2] \in Nat
  BY <1>1
<1> HIDE DEF t
<1>3. InOrder(t, c, lo, hi) <=> lo <= hi /\ InOrder(q, c, lo, hi - 1)
  <2> DEFINE L == Len(q)
  <2>1. L \in Nat /\ PushedTo(q, t, L, c, hi)
    BY <1>1, <1>2 DEF PushedTo
  <2> HIDE DEF L
  <2> QED BY <2>1, OneMore, Zenon
<1> QED BY <1>3 DEF t

\* A message of another stream is sent.
LEMMA InOrderPushedOther ==
  ASSUME NEW C, NEW q \in Seq(C \X Nat), NEW c \in C, NEW lo \in Int, NEW hi \in Int,
         NEW d \in C \ {c}, NEW n \in Nat
  PROVE  InOrder(Append(q, <<d, n>>), c, lo, hi) <=> InOrder(q, c, lo, hi)
<1> DEFINE t == Append(q, <<d, n>>)
<1>1. /\ Len(t) = Len(q) + 1 /\ Len(q) \in Nat
      /\ t[Len(q) + 1][1] = d
      /\ \A k \in 1 .. Len(q) : t[k] = q[k]
  BY AppendProperties
<1>2. DOMAIN q = 1 .. Len(q) /\ DOMAIN t = 1 .. Len(q) + 1
  BY <1>1
<1> HIDE DEF t
<1>3. Places(t, c) = Places(q, c)
  BY <1>1, <1>2 DEF Places
<1>4. \A k \in Places(q, c) : t[k] = q[k]
  BY <1>1, <1>2 DEF Places
<1>5. {t[k][2] : k \in Places(t, c)} = {q[k][2] : k \in Places(q, c)}
  BY <1>3, <1>4
<1>6. InOrder(t, c, lo, hi) <=> InOrder(q, c, lo, hi)
  <2> DEFINE S == Places(q, c)
  <2>1. /\ Places(t, c) = S /\ Places(q, c) = S
        /\ \A k \in S : t[k] = q[k]
        /\ {t[k][2] : k \in S} = {q[k][2] : k \in S}
    BY <1>3, <1>4, <1>5
  <2>2. (\A j, k \in S : j < k <=> t[j][2] < t[k][2])
          <=> \A j, k \in S : j < k <=> q[j][2] < q[k][2]
    BY <2>1
  <2> HIDE DEF S
  <2> QED BY <2>1, <2>2 DEF InOrder
<1> QED BY <1>6 DEF t

\* The oldest message is received.
PoppedTo(q, t, L) ==
  /\ DOMAIN q = 1 .. L /\ DOMAIN t = 1 .. L - 1
  /\ \A k \in 1 .. L - 1 : t[k] = q[k + 1]
  /\ \A k \in 1 .. L : q[k][2] \in Nat

LEMMA OneLess ==
  ASSUME NEW q, NEW t, NEW c, NEW lo \in Nat, NEW hi \in Nat, NEW L \in Nat \ {0},
         PoppedTo(q, t, L), InOrder(q, c, lo, hi)
  PROVE  IF q[1][1] = c THEN lo <= hi /\ q[1][2] = lo /\ InOrder(t, c, lo + 1, hi)
         ELSE InOrder(t, c, lo, hi)
<1> USE DEF PoppedTo
<1>1. /\ \A k \in 1 .. L : q[k][1] = c => q[k][2] \in lo .. hi
      /\ \A n \in lo .. hi : \E k \in 1 .. L : q[k][1] = c /\ q[k][2] = n
      /\ \A j, k \in 1 .. L :
           q[j][1] = c /\ q[k][1] = c => (j < k <=> q[j][2] < q[k][2])
  BY InOrderMeans
<1>2. \A k \in 1 .. L - 1 : k + 1 \in 1 .. L /\ t[k] = q[k + 1] /\ 1 < k + 1
  OBVIOUS
<1>3. 1 \in 1 .. L /\ \A k \in 1 .. L : k # 1 => k - 1 \in 1 .. L - 1 /\ t[k - 1] = q[k]
  OBVIOUS
<1>4. \A j, k \in 1 .. L - 1 :
        t[j][1] = c /\ t[k][1] = c => (j < k <=> t[j][2] < t[k][2])
  <2> TAKE j, k \in 1 .. L - 1
  <2>1. j < k <=> j + 1 < k + 1
    OBVIOUS
  <2> QED BY <1>1, <1>2, <2>1
<1>5. CASE q[1][1] = c
  <2>1. q[1][2] \in lo .. hi
    BY <1>1, <1>3, <1>5
  <2>2. PICK k \in 1 .. L : q[k][1] = c /\ q[k][2] = lo
    <3>1. lo \in lo .. hi
      BY <2>1
    <3> QED BY <1>1, <3>1, Zenon
  <2>3. ~(1 < k)
    <3>1. 1 < k <=> q[1][2] < q[k][2]
      BY <1>1, <1>3, <1>5, <2>2
    <3> QED BY <2>1, <2>2, <3>1
  <2>4. lo <= hi /\ q[1][2] = lo
    BY <2>1, <2>2, <2>3
  <2>5. \A i \in 1 .. L - 1 : t[i][1] = c => t[i][2] \in lo + 1 .. hi
    <3> SUFFICES ASSUME NEW i \in 1 .. L - 1, t[i][1] = c
                 PROVE  t[i][2] \in lo + 1 .. hi
      OBVIOUS
    <3>1. q[i + 1][2] \in lo .. hi
      BY <1>1, <1>2
    <3>2. q[1][2] < q[i + 1][2]
      BY <1>1, <1>2, <1>3, <1>5
    <3> QED BY <1>2, <2>4, <3>1, <3>2
  <2>6. \A n \in lo + 1 .. hi : \E i \in 1 .. L - 1 : t[i][1] = c /\ t[i][2] = n
    <3> TAKE n \in lo + 1 .. hi
    <3>1. PICK i \in 1 .. L : q[i][1] = c /\ q[i][2] = n
      BY <1>1
    <3>2. i # 1
      BY <2>4, <3>1
    <3> QED BY <1>3, <3>1, <3>2
  <2>7. InOrder(t, c, lo + 1, hi)
    BY <1>4, <2>5, <2>6, InOrderMeans
  <2> QED BY <1>5, <2>4, <2>7
<1>6. CASE q[1][1] # c
  <2>1. \A k \in 1 .. L - 1 : t[k][1] = c => t[k][2] \in lo .. hi
    BY <1>1, <1>2
  <2>2. \A n \in lo .. hi : \E k \in 1 .. L - 1 : t[k][1] = c /\ t[k][2] = n
    <3> TAKE n \in lo .. hi
    <3>1. PICK k \in 1 .. L : q[k][1] = c /\ q[k][2] = n
      BY <1>1
    <3> QED BY <1>3, <1>6, <3>1
  <2>3. InOrder(t, c, lo, hi)
    BY <1>4, <2>1, <2>2, InOrderMeans
  <2> QED BY <1>6, <2>3
<1> QED BY <1>5, <1>6

LEMMA InOrderPopped ==
  ASSUME NEW C, NEW q \in Seq(C \X Nat), q # <<>>, NEW c \in C,
         NEW lo \in Nat, NEW hi \in Nat, InOrder(q, c, lo, hi)
  PROVE  IF Head(q)[1] = c
         THEN /\ lo <= hi /\ Head(q)[2] = lo
              /\ InOrder(Tail(q), c, lo + 1, hi)
         ELSE InOrder(Tail(q), c, lo, hi)
<1> DEFINE t == Tail(q)
<1>1. /\ Head(q) = q[1] /\ Len(q) \in Nat \ {0}
      /\ t \in Seq(C \X Nat) /\ Len(t) = Len(q) - 1
      /\ \A i \in 1 .. Len(q) - 1 : t[i] = q[i + 1]
  BY HeadTailProperties
<1>2. /\ DOMAIN q = 1 .. Len(q) /\ DOMAIN t = 1 .. Len(q) - 1
      /\ \A k \in 1 .. Len(q) : q[k][2] \in Nat
  BY <1>1
<1> HIDE DEF t
<1>3. IF q[1][1] = c THEN lo <= hi /\ q[1][2] = lo /\ InOrder(t, c, lo + 1, hi)
      ELSE InOrder(t, c, lo, hi)
  <2> DEFINE L == Len(q)
  <2>1. L \in Nat \ {0} /\ PoppedTo(q, t, L)
    BY <1>1, <1>2 DEF PoppedTo
  <2> HIDE DEF L
  <2> QED BY <2>1, OneLess, Zenon
<1> QED BY <1>1, <1>3 DEF t

\* As many messages as there are numbers.
LEMMA InOrderCount ==
  ASSUME NEW C, NEW q \in Seq(C \X Nat), NEW c \in C, NEW lo \in Nat, NEW hi \in Nat,
         lo <= hi + 1, InOrder(q, c, lo, hi)
  PROVE  Cardinality(Places(q, c)) = hi - lo + 1
<1> DEFINE own == Places(q, c)
           f   == [k \in own |-> q[k][2]]
<1>1. \A k \in 1 .. Len(q) : q[k][2] \in Nat
  OBVIOUS
<1>2. own \subseteq 1 .. Len(q) /\ Len(q) \in Nat
  BY DEF Places
<1>3. {q[k][2] : k \in own} = lo .. hi
  BY DEF InOrder
<1>4. \A j, k \in own : j < k <=> q[j][2] < q[k][2]
  BY DEF InOrder
<1> HIDE DEF own
<1>5. ExistsBijection(own, lo .. hi)
  <2>1. f \in [own -> lo .. hi]
    BY <1>3
  <2>2. \A j, k \in own : f[j] = f[k] => j = k
    BY <1>1, <1>2, <1>4
  <2>3. \A n \in lo .. hi : \E k \in own : f[k] = n
    BY <1>3
  <2> HIDE DEF f
  <2>4. f \in Surjection(own, lo .. hi)
    BY <2>1, <2>3, Fun_IsSurj
  <2>5. f \in Injection(own, lo .. hi)
    BY <2>1, <2>2, Fun_IsInj
  <2> QED BY <2>4, <2>5 DEF Bijection, ExistsBijection
<1>6. IsFiniteSet(own)
  <2>1. IsFiniteSet(1 .. Len(q))
    BY <1>2, FS_Interval
  <2> QED BY <1>2, <2>1, FS_Subset
<1>7. Cardinality(own) = Cardinality(lo .. hi)
  BY <1>5, <1>6, FS_Bijection
<1>8. Cardinality(lo .. hi) = IF lo > hi THEN 0 ELSE hi - lo + 1
  BY FS_Interval
<1> QED BY <1>7, <1>8 DEF own
-----------------------------------------------------------------------------
(* Least numbers, induction and recursion, without operators as parameters. *)

LEMMA LeastNumber ==
  ASSUME NEW T, T \subseteq Nat, T # {}
  PROVE  \E x \in T : \A y \in T : x <= y
<1> DEFINE R == OpToRel(<, Nat)
<1>1. PICK x \in T : \A y \in T : ~(<<y, x>> \in R)
  <2> HIDE DEF R
  <2>1. IsWellFoundedOn(R, Nat)
    BY NatLessThanWellFounded DEF R
  <2> QED BY <2>1, WFMin, Zenon
<1>2. ASSUME NEW y \in T PROVE x <= y
  <2>1. x \in Nat /\ y \in Nat
    OBVIOUS
  <2>2. y < x => <<y, x>> \in R
    BY <2>1 DEF OpToRel
  <2>3. ~(<<y, x>> \in R)
    BY <1>1
  <2> HIDE DEF R
  <2>4. ~(y < x)
    BY <2>2, <2>3
  <2> QED BY <2>1, <2>4
<1> QED BY <1>2

LEMMA GreatestNumber ==
  ASSUME NEW T, NEW n \in Nat, T \subseteq 0 .. n, T # {}
  PROVE  \E x \in T : \A y \in T : y <= x
<1> DEFINE U == {b \in Nat : \A y \in T : y <= b}
<1>1. PICK b \in U : \A c \in U : b <= c
  <2>1. n \in U /\ U \subseteq Nat
    OBVIOUS
  <2> QED BY <2>1, LeastNumber
<1>2. b \in T
  <2> SUFFICES ASSUME b \notin T PROVE FALSE
    OBVIOUS
  <2>1. \A y \in T : y \in Nat /\ y <= b /\ y # b
    OBVIOUS
  <2>2. b \in Nat /\ b # 0
    <3>1. PICK y \in T : TRUE
      OBVIOUS
    <3> QED BY <2>1, <3>1
  <2>3. b - 1 \in U
    BY <2>1, <2>2
  <2> QED BY <1>1, <2>2, <2>3
<1> QED BY <1>2
\* Induction over the numbers up to N, with a set for what is to be shown.
LEMMA Induction ==
  ASSUME NEW N \in Nat, NEW T, 0 \in T,
         \A n \in 1 .. N : n - 1 \in T => n \in T
  PROVE  0 .. N \subseteq T
<1> DEFINE U == {n \in 0 .. N : n \notin T}
<1>1. U = {}
  <2> SUFFICES ASSUME U # {} PROVE FALSE
    OBVIOUS
  <2>1. PICK n \in U : \A m \in U : n <= m
    <3>1. U \subseteq Nat
      OBVIOUS
    <3> HIDE DEF U
    <3> QED BY <3>1, LeastNumber
  <2>2. n \in 1 .. N /\ n \notin T
    OBVIOUS
  <2>3. n - 1 \in T
    BY <2>1, <2>2
  <2> QED BY <2>2, <2>3
<1> QED BY <1>1

\* f is what recursion from a with the steps h gives, up to n.
Recurs(f, a, h, n) == f[0] = a /\ \A i \in 1 .. n : f[i] = h[i][f[i - 1]]

LEMMA Recursion ==
  ASSUME NEW S, NEW a \in S, NEW N \in Nat, NEW h \in [1 .. N -> [S -> S]]
  PROVE  \E f \in [0 .. N -> S] : Recurs(f, a, h, N)
<1> DEFINE Ends(n) == \E f \in [0 .. n -> S] : Recurs(f, a, h, n)
           T == {n \in 0 .. N : Ends(n)}
<1>1. Ends(0)
  <2> DEFINE f == [i \in 0 .. 0 |-> a]
  <2>1. f \in [0 .. 0 -> S] /\ Recurs(f, a, h, 0)
    BY DEF Recurs
  <2> HIDE DEF f
  <2> QED BY <2>1
<1>2. ASSUME NEW n \in 1 .. N, Ends(n - 1) PROVE Ends(n)
  <2>1. PICK g \in [0 .. n - 1 -> S] : Recurs(g, a, h, n - 1)
    BY <1>2
  <2> DEFINE f == [i \in 0 .. n |-> IF i = n THEN h[n][g[n - 1]] ELSE g[i]]
  <2>2. g[n - 1] \in S /\ h[n][g[n - 1]] \in S
    OBVIOUS
  <2>3. f \in [0 .. n -> S] /\ f[0] = a
    BY <2>1, <2>2 DEF Recurs
  <2>4. ASSUME NEW i \in 1 .. n PROVE f[i] = h[i][f[i - 1]]
    <3>1. f[i - 1] = g[i - 1]
      OBVIOUS
    <3>2. CASE i = n
      BY <3>1, <3>2
    <3>3. CASE i # n
      <4>1. i \in 1 .. n - 1 /\ f[i] = g[i]
        BY <3>3
      <4> QED BY <2>1, <3>1, <4>1 DEF Recurs
    <3> QED BY <3>2, <3>3
  <2>5. Recurs(f, a, h, n)
    BY <2>3, <2>4 DEF Recurs
  <2> HIDE DEF f
  <2> QED BY <2>3, <2>5
<1> HIDE DEF Ends
<1>3. 0 \in T /\ \A n \in 1 .. N : n - 1 \in T => n \in T
  BY <1>1, <1>2
<1>4. N \in T
  <2> HIDE DEF T
  <2>1. 0 .. N \subseteq T
    BY <1>3, Induction
  <2> QED BY <2>1
<1> QED BY <1>4 DEF Ends
=============================================================================
