----------------------------- MODULE HistoryProofs -----------------------------
(***************************************************************************)
(* What holds of historical data for every length of a day, every begin    *)
(* and end, and all attributes: time is cut into ranges that EcoFlow can   *)
(* answer and that have every second once, a collector asks for the last   *)
(* whole day or week, and the table of a command is in order.              *)
(***************************************************************************)
EXTENDS History, WellFoundedInduction, FiniteSetTheorems, SequenceTheorems, TLAPS

-----------------------------------------------------------------------------
(* Induction on natural numbers, for sets of them.                          *)

LEMMA LessThan == \A x, y \in Nat : <<x, y>> \in OpToRel(<, Nat) <=> x < y
  BY DEF OpToRel

LEMMA LeastElement ==
  ASSUME NEW T, T \subseteq Nat, T # {}
  PROVE  \E m \in T : \A n \in T : m <= n
<1>1. \A R : IsWellFoundedOn(R, Nat) => \E x \in T : \A y \in T : ~(<<y, x>> \in R)
  BY WFMin
<1>2. PICK x \in T : \A y \in T : ~(<<y, x>> \in OpToRel(<, Nat))
  BY <1>1, NatLessThanWellFounded, Zenon
<1>3. \A y \in T : ~(y < x)
  BY <1>2, LessThan, Zenon
<1> QED
  BY <1>3

LEMMA Induction ==
  ASSUME NEW T, 0 \in T, \A n \in Nat : n \in T => n + 1 \in T
  PROVE  Nat \subseteq T
<1>1. SUFFICES ASSUME Nat \ T # {} PROVE FALSE
  OBVIOUS
<1>2. PICK m \in Nat \ T : \A n \in Nat \ T : m <= n
  BY <1>1, LeastElement
<1>3. m # 0 /\ m - 1 \in Nat
  BY <1>2
<1>4. m - 1 \in T
  BY <1>2, <1>3
<1> QED
  BY <1>2, <1>3, <1>4

-----------------------------------------------------------------------------
(* Sequences *)

LEMMA SameLength ==
  ASSUME NEW m \in Nat, NEW n \in Nat, 1..m = 1..n
  PROVE  m = n
<1>1. \A i \in Int : i \in 1..m <=> i \in 1..n
  OBVIOUS
<1> QED
  BY <1>1

LEMMA IsSequence ==
  ASSUME NEW S, NEW n \in Nat, NEW q \in [1..n -> S]
  PROVE  q \in Seq(S) /\ Len(q) = n /\ DOMAIN q = 1..n
<1>1. q \in Seq(S)
  BY SeqDef
<1>2. Len(q) \in Nat /\ 1..Len(q) = 1..n
  BY <1>1, LenProperties
<1> QED
  BY <1>1, <1>2, SameLength

LEMMA Elements ==
  ASSUME NEW S, NEW q \in Seq(S)
  PROVE  \E n \in Nat : Len(q) = n /\ DOMAIN q = 1..n /\ q \in [1..n -> S]
<1>1. PICK n \in Nat : q \in [1..n -> S]
  BY SeqDef
<1> QED
  BY <1>1, IsSequence

(* p is q, followed by x. *)
Extends(p, S, n, q, x) ==
  /\ p \in [1..(n + 1) -> S] /\ p[n + 1] = x
  /\ \A i \in 1..n : p[i] = q[i]

LEMMA Appended ==
  ASSUME NEW S, NEW n \in Nat, NEW q \in [1..n -> S], NEW x \in S
  PROVE  Extends(Append(q, x), S, n, q, x)
<1>1. q \in Seq(S) /\ Len(q) = n
  BY IsSequence
<1>2. /\ Append(q, x) \in Seq(S) /\ Len(Append(q, x)) = n + 1 /\ Append(q, x)[n + 1] = x
      /\ \A i \in 1..n : Append(q, x)[i] = q[i]
  BY <1>1, AppendProperties
<1>3. PICK m \in Nat : Len(Append(q, x)) = m /\ Append(q, x) \in [1..m -> S]
  BY <1>2, Elements
<1> QED
  BY <1>2, <1>3 DEF Extends

LEMMA Rest ==
  ASSUME NEW S, NEW n \in Nat, NEW q \in [1..n -> S], q # <<>>
  PROVE  /\ n >= 1 /\ Head(q) = q[1] /\ q[1] \in S
         /\ Tail(q) \in Seq(S) /\ Len(Tail(q)) = n - 1
         /\ \A i \in 1..(n - 1) : Tail(q)[i] = q[i + 1]
<1>1. q \in Seq(S) /\ Len(q) = n
  BY IsSequence
<1>2. n >= 1
  BY <1>1, EmptySeq
<1> QED
  BY <1>1, <1>2, HeadTailProperties

(* p is q, preceded by x. *)
Precedes(p, S, n, q, x) ==
  /\ p \in [1..(n + 1) -> S] /\ p[1] = x
  /\ \A i \in 1..n : p[i + 1] = q[i]

LEMMA Preceded ==
  ASSUME NEW S, NEW n \in Nat, NEW q \in [1..n -> S], NEW x \in S
  PROVE  Precedes(<<x>> \o q, S, n, q, x)
<1>1. q \in Seq(S) /\ Len(q) = n /\ <<x>> \in Seq(S) /\ Len(<<x>>) = 1
  BY IsSequence
<1>2. /\ <<x>> \o q \in Seq(S) /\ Len(<<x>> \o q) = n + 1
      /\ (<<x>> \o q)[1] = x
      /\ \A i \in 1..n : (<<x>> \o q)[i + 1] = q[i]
  BY <1>1, ConcatProperties
<1>3. PICK m \in Nat : Len(<<x>> \o q) = m /\ <<x>> \o q \in [1..m -> S]
  BY <1>2, Elements
<1> QED
  BY <1>2, <1>3 DEF Precedes

-----------------------------------------------------------------------------
(* EcoFlow's answers *)

(* What is kept of the first n attributes of an answer. *)
KeptBy(g, n, listed, valueless) ==
  g = [i \in 0..n |-> IF i = 0 THEN <<>>
                      ELSE IF listed[i] \in valueless THEN g[i - 1]
                      ELSE Append(g[i - 1], listed[i])]

LEMMA KeptStep ==
  ASSUME NEW g, NEW n \in Nat, NEW listed, NEW valueless, KeptBy(g, n, listed, valueless),
         NEW i \in 0..n
  PROVE  g[i] = IF i = 0 THEN <<>>
                ELSE IF listed[i] \in valueless THEN g[i - 1]
                ELSE Append(g[i - 1], listed[i])
  BY Zenon DEF KeptBy

LEMMA KeptExists ==
  ASSUME NEW listed, NEW valueless, NEW n \in Nat
  PROVE  \E g : KeptBy(g, n, listed, valueless)
<1> DEFINE T == {k \in Nat : \E g : KeptBy(g, k, listed, valueless)}
<1>1. 0 \in T
  <2> DEFINE g == [i \in 0..0 |-> <<>>]
  <2>1. KeptBy(g, 0, listed, valueless)
    BY DEF KeptBy
  <2> QED
    BY <2>1
<1>2. ASSUME NEW k \in Nat, k \in T PROVE k + 1 \in T
  <2>1. PICK g : KeptBy(g, k, listed, valueless)
    BY <1>2
  <2> DEFINE h == [i \in 0..(k + 1) |->
                     IF i <= k THEN g[i]
                     ELSE IF listed[i] \in valueless THEN g[k] ELSE Append(g[k], listed[i])]
  <2>2. ASSUME NEW i \in 0..(k + 1)
        PROVE  h[i] = IF i = 0 THEN <<>>
                      ELSE IF listed[i] \in valueless THEN h[i - 1]
                      ELSE Append(h[i - 1], listed[i])
    <3>1. CASE i = 0
      BY <2>1, <3>1, KeptStep
    <3>2. CASE i \in 1..k
      <4>1. h[i] = g[i] /\ h[i - 1] = g[i - 1]
        BY <3>2
      <4>2. g[i] = IF listed[i] \in valueless THEN g[i - 1] ELSE Append(g[i - 1], listed[i])
        BY <2>1, <3>2, KeptStep
      <4> QED
        BY <3>2, <4>1, <4>2
    <3>3. CASE i = k + 1
      <4>1. h[i - 1] = g[k]
        BY <3>3
      <4> QED
        BY <3>3, <4>1
    <3> QED
      BY <3>1, <3>2, <3>3
  <2>3. DOMAIN h = 0..(k + 1) /\ h = [i \in 0..(k + 1) |-> h[i]]
    OBVIOUS
  <2> HIDE DEF h
  <2>4. KeptBy(h, k + 1, listed, valueless)
    BY <2>2, <2>3 DEF KeptBy
  <2> QED
    BY <2>4
<1> HIDE DEF T
<1>3. n \in T
  BY <1>1, <1>2, Induction
<1> QED
  BY <1>3 DEF T

LEMMA AnswerType ==
  ASSUME NEW answer \in Answers
  PROVE  answer.listed \in Seq(Attributes)
<1>1. PICK S \in SUBSET Attributes : answer.listed \in SetToSeqs(S)
  BY DEF Answers, SetToAllKPermutations
<1>2. answer.listed \in [1..Cardinality(S) -> S]
  BY <1>1 DEF SetToSeqs
<1>3. Cardinality(S) \in Nat
  BY HistoryAssumption, FS_Subset, FS_CardinalityType
<1> QED
  BY <1>2, <1>3, IsSequence, SeqMonotonic

(* What the first n attributes of an answer make of q.                      *)
Kept(q, n, listed, valueless) ==
  \E m \in Nat :
    /\ q \in [1..m -> Attributes]
    /\ \A j \in 1..m : (\E k \in 1..n : q[j] = listed[k]) /\ q[j] \notin valueless
    /\ \A k \in 1..n : listed[k] \notin valueless => \E j \in 1..m : q[j] = listed[k]

LEMMA KeptAppend ==
  ASSUME NEW q, NEW n \in Nat, NEW listed, NEW valueless, Kept(q, n, listed, valueless),
         listed[n + 1] \in Attributes
  PROVE  Kept(IF listed[n + 1] \in valueless THEN q ELSE Append(q, listed[n + 1]),
              n + 1, listed, valueless)
<1>1. PICK m \in Nat :
        /\ q \in [1..m -> Attributes]
        /\ \A j \in 1..m : (\E k \in 1..n : q[j] = listed[k]) /\ q[j] \notin valueless
        /\ \A k \in 1..n : listed[k] \notin valueless => \E j \in 1..m : q[j] = listed[k]
  BY DEF Kept
<1>2. \A k \in 1..(n + 1) : k \in 1..n \/ k = n + 1
  OBVIOUS
<1>3. \A k \in 1..n : k \in 1..(n + 1)
  OBVIOUS
<1>4. CASE listed[n + 1] \in valueless
  <2>1. Kept(q, n + 1, listed, valueless)
    BY <1>1, <1>2, <1>3, <1>4, Zenon DEF Kept
  <2> QED
    BY <1>4, <2>1
<1>5. CASE listed[n + 1] \notin valueless
  <2>1. PICK x \in Attributes : x = listed[n + 1]
    OBVIOUS
  <2> DEFINE p == Append(q, x)
  <2>2. /\ p \in [1..(m + 1) -> Attributes] /\ p[m + 1] = listed[n + 1]
        /\ \A j \in 1..m : p[j] = q[j]
    <3>1. q \in [1..m -> Attributes]
      BY <1>1
    <3>2. Extends(p, Attributes, m, q, x)
      BY <3>1, Appended, Zenon
    <3> HIDE DEF p
    <3> QED
      BY <2>1, <3>2 DEF Extends
  <2> HIDE DEF p
  <2>3. \A j \in 1..(m + 1) : j \in 1..m \/ j = m + 1
    OBVIOUS
  <2>4. (\A j \in 1..m : j \in 1..(m + 1)) /\ m + 1 \in 1..(m + 1) /\ n + 1 \in 1..(n + 1)
    OBVIOUS
  <2>5. ASSUME NEW j \in 1..(m + 1)
        PROVE  (\E k \in 1..(n + 1) : p[j] = listed[k]) /\ p[j] \notin valueless
    BY <1>1, <1>3, <1>5, <2>2, <2>3, <2>4, Zenon
  <2>6. ASSUME NEW k \in 1..(n + 1), listed[k] \notin valueless
        PROVE  \E j \in 1..(m + 1) : p[j] = listed[k]
    <3>1. CASE k \in 1..n
      <4>1. PICK j \in 1..m : q[j] = listed[k]
        BY <1>1, <2>6, <3>1
      <4> QED
        BY <2>2, <2>4, <4>1
    <3>2. CASE k = n + 1
      BY <2>2, <2>4, <3>2
    <3> QED
      BY <1>2, <3>1, <3>2
  <2>7. Kept(p, n + 1, listed, valueless)
    <3>1. m + 1 \in Nat
      OBVIOUS
    <3> QED
      BY <2>2, <2>5, <2>6, <3>1, Zenon DEF Kept
  <2> QED
    BY <1>5, <2>1, <2>7 DEF p
<1> QED
  BY <1>4, <1>5

(* GetHistory passes on attributes with a value, and every one of them.     *)
LEMMA GetHistoryKeeps ==
  ASSUME NEW answer \in Answers
  PROVE  /\ GetHistory(answer) \in Seq(Attributes)
         /\ ToSet(GetHistory(answer)) = ToSet(answer.listed) \ answer.valueless
         /\ ToSet(GetHistory(answer)) \in SUBSET Attributes
<1> DEFINE listed == answer.listed
           valueless == answer.valueless
<1>1. PICK n \in Nat : Len(listed) = n /\ DOMAIN listed = 1..n /\ listed \in [1..n -> Attributes]
  BY AnswerType, Elements
<1>2. GetHistory(answer) = (CHOOSE g : KeptBy(g, Len(listed), listed, valueless))[Len(listed)]
  BY Zenon DEF GetHistory, KeptBy
<1>3. PICK g : KeptBy(g, n, listed, valueless) /\ GetHistory(answer) = g[n]
  BY <1>1, <1>2, KeptExists
<1> DEFINE T == {i \in Nat : i <= n => Kept(g[i], i, listed, valueless)}
<1> HIDE DEF listed, valueless
<1>4. 0 \in T
  <2>1. g[0] = <<>>
    BY <1>3, KeptStep
  <2>2. <<>> \in [1..0 -> Attributes]
    OBVIOUS
  <2>3. Kept(<<>>, 0, listed, valueless)
    BY <2>2 DEF Kept
  <2> QED
    BY <2>1, <2>3
<1>5. ASSUME NEW i \in Nat, i \in T PROVE i + 1 \in T
  <2>1. SUFFICES ASSUME i + 1 <= n PROVE Kept(g[i + 1], i + 1, listed, valueless)
    OBVIOUS
  <2>2. Kept(g[i], i, listed, valueless)
    BY <1>5, <2>1
  <2>3. g[i + 1] = IF listed[i + 1] \in valueless THEN g[i] ELSE Append(g[i], listed[i + 1])
    <3>1. i + 1 \in 0..n /\ i + 1 # 0 /\ (i + 1) - 1 = i
      BY <2>1
    <3>2. g[i + 1] = IF listed[i + 1] \in valueless THEN g[(i + 1) - 1]
                     ELSE Append(g[(i + 1) - 1], listed[i + 1])
      BY <1>3, <3>1, KeptStep
    <3> QED
      BY <3>1, <3>2
  <2>4. listed[i + 1] \in Attributes
    BY <1>1, <2>1
  <2> QED
    BY <2>2, <2>3, <2>4, KeptAppend
<1> HIDE DEF T
<1>6. n \in T
  BY <1>4, <1>5, Induction
<1>7. Kept(g[n], n, listed, valueless)
  BY <1>6 DEF T
<1>8. PICK m \in Nat :
        /\ g[n] \in [1..m -> Attributes]
        /\ \A j \in 1..m : (\E k \in 1..n : g[n][j] = listed[k]) /\ g[n][j] \notin valueless
        /\ \A k \in 1..n : listed[k] \notin valueless => \E j \in 1..m : g[n][j] = listed[k]
  BY <1>7 DEF Kept
<1>9. ToSet(g[n]) = ToSet(listed) \ valueless
  <2>1. ToSet(g[n]) = {g[n][j] : j \in 1..m} /\ ToSet(listed) = {listed[k] : k \in 1..n}
    BY <1>1, <1>8 DEF ToSet
  <2> QED
    BY <1>8, <2>1
<1>10. g[n] \in Seq(Attributes)
  BY <1>8, IsSequence
<1>11. ToSet(g[n]) \in SUBSET Attributes
  BY <1>8 DEF ToSet
<1> QED
  BY <1>3, <1>9, <1>10, <1>11 DEF listed, valueless

(* A set of attributes can be sorted. *)
Increasing(q) == \A i, j \in DOMAIN q : i < j => q[i] < q[j]

LEMMA SortedExists ==
  ASSUME NEW n \in Nat
  PROVE  \A S \in SUBSET Attributes : Cardinality(S) = n => \E q \in [1..n -> S] : Increasing(q)
<1> DEFINE P(k) == \A S \in SUBSET Attributes :
                     Cardinality(S) = k => \E q \in [1..k -> S] : Increasing(q)
           T == {k \in Nat : P(k)}
<1>1. 0 \in T
  <2>1. SUFFICES ASSUME NEW S \in SUBSET Attributes
                 PROVE  \E q \in [1..0 -> S] : Increasing(q)
    OBVIOUS
  <2> DEFINE q == [i \in 1..0 |-> i]
  <2>2. q \in [1..0 -> S] /\ Increasing(q)
    BY DEF Increasing
  <2> QED
    BY <2>2
<1>2. ASSUME NEW k \in Nat, k \in T PROVE k + 1 \in T
  <2>1. SUFFICES ASSUME NEW S \in SUBSET Attributes, Cardinality(S) = k + 1
                 PROVE  \E q \in [1..(k + 1) -> S] : Increasing(q)
    OBVIOUS
  <2>2. IsFiniteSet(S) /\ S \subseteq Nat
    BY HistoryAssumption, FS_Subset
  <2>3. S # {}
    BY <2>1, FS_EmptySet
  <2>4. PICK m \in S : \A x \in S : m <= x
    BY <2>2, <2>3, LeastElement
  <2>5. Cardinality(S \ {m}) = k
    BY <2>1, <2>2, FS_RemoveElement
  <2>6. PICK p \in [1..k -> S \ {m}] : Increasing(p)
    BY <1>2, <2>5
  <2> DEFINE q == [i \in 1..(k + 1) |-> IF i = 1 THEN m ELSE p[i - 1]]
  <2>7. \A i \in 1..(k + 1) : i # 1 => i - 1 \in 1..k /\ q[i] = p[i - 1] /\ q[i] \in S \ {m}
    BY <2>6
  <2>8. q \in [1..(k + 1) -> S]
    BY <2>7
  <2>9. ASSUME NEW i \in 1..(k + 1), NEW j \in 1..(k + 1), i < j PROVE q[i] < q[j]
    <3>1. CASE i = 1
      <4>1. q[i] = m /\ j # 1
        BY <2>9, <3>1
      <4>2. q[j] \in S /\ q[j] # m
        BY <2>7, <4>1
      <4>3. m <= q[j] /\ m \in Nat /\ q[j] \in Nat
        BY <2>2, <2>4, <4>2
      <4> QED
        BY <4>1, <4>2, <4>3
    <3>2. CASE i # 1
      <4>1. q[i] = p[i - 1] /\ q[j] = p[j - 1] /\ i - 1 \in 1..k /\ j - 1 \in 1..k /\ i - 1 < j - 1
        BY <2>7, <2>9, <3>2
      <4> QED
        BY <2>6, <4>1 DEF Increasing
    <3> QED
      BY <3>1, <3>2
  <2>10. DOMAIN q = 1..(k + 1)
    OBVIOUS
  <2> HIDE DEF q
  <2>11. Increasing(q)
    BY <2>9, <2>10 DEF Increasing
  <2> QED
    BY <2>8, <2>11
<1> HIDE DEF T
<1>3. n \in T
  BY <1>1, <1>2, Induction
<1> QED
  BY <1>3 DEF T

LEMMA SortedType ==
  ASSUME NEW S \in SUBSET Attributes
  PROVE  Sorted(S) \in [1..Cardinality(S) -> S] /\ Increasing(Sorted(S)) /\ Sorted(S) \in Seq(Attributes)
<1>1. Cardinality(S) \in Nat
  BY HistoryAssumption, FS_Subset, FS_CardinalityType
<1>2. Sorted(S) = CHOOSE q \in [1..Cardinality(S) -> S] : Increasing(q)
  BY Zenon DEF Sorted, Increasing
<1>3. \E q \in [1..Cardinality(S) -> S] : Increasing(q)
  BY <1>1, SortedExists
<1>4. Sorted(S) \in [1..Cardinality(S) -> S] /\ Increasing(Sorted(S))
  BY <1>2, <1>3
<1> QED
  BY <1>1, <1>4, IsSequence, SeqMonotonic

-----------------------------------------------------------------------------
(* Ranges *)

Spans == [start : Nat, end : Nat]

LEMMA SpanType ==
  ASSUME NEW s, NEW e
  PROVE  /\ Span(s, e).start = s /\ Span(s, e).end = e
         /\ s \in Nat /\ e \in Nat => Span(s, e) \in Spans
         /\ s \in Int /\ e \in Int => Seconds(Span(s, e)) = s .. e
  BY DEF Span, Spans, Seconds

LEMMA NextStartIs ==
  ASSUME NEW c \in Nat, NEW end \in Nat, NEW skip \in Nat \ {0}, c < end
  PROVE  /\ NextStart(c, end, skip) \in Nat /\ NextStart(c, end, skip) > c
         /\ NextStart(c, end, skip) <= end /\ NextStart(c, end, skip) <= c + skip
         /\ NextStart(c, end, skip) = end \/ NextStart(c, end, skip) = c + skip
  BY DEF NextStart, Least

(* g is what TimeRanges computes, for every second it may start at. *)
FollowedBy(g, end, skip, offset) ==
  g = [current \in Nat |->
         IF current >= end THEN <<>>
         ELSE <<Span(current, NextStart(current, end, skip) + offset)>>
                \o g[NextStart(current, end, skip)]]

(* The same for the second c. *)
FollowedAt(g, c, end, skip, offset) ==
  g[c] = IF c >= end THEN <<>>
         ELSE <<Span(c, NextStart(c, end, skip) + offset)>> \o g[NextStart(c, end, skip)]

LEMMA FollowedExists ==
  ASSUME NEW end \in Nat, NEW skip \in Nat \ {0}, NEW offset \in Int
  PROVE  \E g : FollowedBy(g, end, skip, offset)
<1> DEFINE From(g, k) == /\ g = [c \in Nat |-> g[c]]
                         /\ \A c \in Nat : c + k >= end => FollowedAt(g, c, end, skip, offset)
           T == {k \in Nat : \E g : From(g, k)}
<1>1. 0 \in T
  <2> DEFINE g == [c \in Nat |-> <<>>]
  <2>1. g = [c \in Nat |-> g[c]]
    OBVIOUS
  <2>2. ASSUME NEW c \in Nat, c + 0 >= end PROVE FollowedAt(g, c, end, skip, offset)
    BY <2>2 DEF FollowedAt
  <2> HIDE DEF g
  <2>3. From(g, 0)
    BY <2>1, <2>2
  <2> QED
    BY <2>3
<1>2. ASSUME NEW k \in Nat, k \in T PROVE k + 1 \in T
  <2>1. PICK g : From(g, k)
    BY <1>2
  <2>2. CASE k >= end
    <3>1. From(g, k + 1)
      BY <2>1, <2>2
    <3> QED
      BY <3>1
  <2>3. CASE k < end
    <3> DEFINE d == end - (k + 1)
               next == NextStart(d, end, skip)
               new == <<Span(d, next + offset)>> \o g[next]
               h == [c \in Nat |-> IF c = d THEN new ELSE g[c]]
    <3>1. d \in Nat /\ d < end /\ next \in Nat /\ next > d
      BY <2>3, NextStartIs
    <3>2. /\ h[d] = <<Span(d, next + offset)>> \o g[next] /\ h[next] = g[next]
          /\ \A c \in Nat : c # d => h[c] = g[c]
      BY <3>1
    <3>3. h = [c \in Nat |-> h[c]]
      OBVIOUS
    <3> HIDE DEF new, h
    <3>4. FollowedAt(h, d, end, skip, offset)
      BY <3>1, <3>2 DEF FollowedAt
    <3> HIDE DEF next
    <3>5. ASSUME NEW c \in Nat, c + (k + 1) >= end PROVE FollowedAt(h, c, end, skip, offset)
      <4>1. CASE c = d
        BY <3>4, <4>1
      <4>2. CASE c # d
        <5>1. c > d /\ FollowedAt(g, c, end, skip, offset)
          BY <2>1, <3>1, <3>5, <4>2
        <5>2. c < end => NextStart(c, end, skip) \in Nat /\ NextStart(c, end, skip) # d
          BY <3>1, <5>1, NextStartIs
        <5>3. h[c] = g[c] /\ (c < end => h[NextStart(c, end, skip)] = g[NextStart(c, end, skip)])
          BY <3>2, <4>2, <5>2
        <5> QED
          BY <5>1, <5>3 DEF FollowedAt
      <4> QED
        BY <4>1, <4>2
    <3>6. From(h, k + 1)
      BY <3>3, <3>5
    <3> QED
      BY <3>6
  <2> QED
    BY <2>2, <2>3
<1> HIDE DEF T
<1>3. end \in T
  BY <1>1, <1>2, Induction
<1>4. PICK g : From(g, end)
  BY <1>3 DEF T
<1>5. \A c \in Nat : FollowedAt(g, c, end, skip, offset)
  BY <1>4
<1>6. FollowedBy(g, end, skip, offset)
  BY <1>4, <1>5, Zenon DEF FollowedBy, FollowedAt
<1> QED
  BY <1>6

(* The n ranges r cut the time from c to before end: every second of it is  *)
(* in a range, in one only, and no range is longer than skip.               *)
Cuts(r, n, c, end, skip) ==
  /\ r \in [1..n -> Spans]
  /\ \A i \in 1..n : /\ c <= r[i].start /\ r[i].start <= r[i].end /\ r[i].end < end
                     /\ r[i].end - r[i].start < skip
  /\ \A s \in Nat : c <= s /\ s < end => \E i \in 1..n : r[i].start <= s /\ s <= r[i].end
  /\ \A i, j \in 1..n : i < j => r[i].end < r[j].start

(* One range more, before them.                                             *)
LEMMA CutsBefore ==
  ASSUME NEW end \in Nat, NEW skip \in Nat \ {0}, NEW c \in Nat, c < end,
         NEW n \in Nat, NEW r, Cuts(r, n, NextStart(c, end, skip), end, skip)
  PROVE  Cuts(<<Span(c, NextStart(c, end, skip) - 1)>> \o r, n + 1, c, end, skip)
<1> DEFINE next == NextStart(c, end, skip)
<1>1. next \in Nat /\ next > c /\ next <= end /\ next <= c + skip
  BY NextStartIs
<1>2. PICK x \in Spans : x = Span(c, next - 1) /\ x.start = c /\ x.end = next - 1
  BY <1>1, SpanType
<1> DEFINE q == <<x>> \o r
<1>3. /\ r \in [1..n -> Spans]
      /\ \A i \in 1..n : /\ next <= r[i].start /\ r[i].start <= r[i].end /\ r[i].end < end
                         /\ r[i].end - r[i].start < skip
      /\ \A s \in Nat : next <= s /\ s < end => \E i \in 1..n : r[i].start <= s /\ s <= r[i].end
      /\ \A i, j \in 1..n : i < j => r[i].end < r[j].start
  BY DEF Cuts
<1>4. q \in [1..(n + 1) -> Spans] /\ q[1] = x /\ \A i \in 1..n : q[i + 1] = r[i]
  <2>1. r \in [1..n -> Spans]
    BY <1>3
  <2>2. Precedes(q, Spans, n, r, x)
    BY <2>1, Preceded, Zenon
  <2> HIDE DEF q
  <2> QED
    BY <2>2 DEF Precedes
<1> HIDE DEF q, next
<1>5. \A i \in 1..(n + 1) : i # 1 => i - 1 \in 1..n /\ q[i] = r[i - 1]
  <2>1. SUFFICES ASSUME NEW i \in 1..(n + 1), i # 1 PROVE i - 1 \in 1..n /\ q[i] = r[i - 1]
    OBVIOUS
  <2>2. i - 1 \in 1..n /\ (i - 1) + 1 = i
    BY <2>1
  <2> QED
    BY <1>4, <2>2
<1>6. \A i \in 1..n : r[i].start \in Nat /\ r[i].end \in Nat
  BY <1>3 DEF Spans
<1>7. ASSUME NEW i \in 1..(n + 1)
      PROVE  /\ c <= q[i].start /\ q[i].start <= q[i].end /\ q[i].end < end
             /\ q[i].end - q[i].start < skip
  <2>1. CASE i = 1
    BY <1>1, <1>2, <1>4, <2>1
  <2>2. CASE i # 1
    BY <1>1, <1>3, <1>5, <1>6, <2>2
  <2> QED
    BY <2>1, <2>2
<1>8. ASSUME NEW s \in Nat, c <= s, s < end
      PROVE  \E i \in 1..(n + 1) : q[i].start <= s /\ s <= q[i].end
  <2>1. CASE s < next
    <3>1. q[1].start <= s /\ s <= q[1].end /\ 1 \in 1..(n + 1)
      BY <1>1, <1>2, <1>4, <1>8, <2>1
    <3> QED
      BY <3>1
  <2>2. CASE next <= s
    <3>1. PICK i \in 1..n : r[i].start <= s /\ s <= r[i].end
      BY <1>3, <1>8, <2>2
    <3>2. i + 1 \in 1..(n + 1) /\ q[i + 1] = r[i]
      BY <1>4
    <3> QED
      BY <3>1, <3>2
  <2> QED
    BY <1>1, <2>1, <2>2
<1>9. ASSUME NEW i \in 1..(n + 1), NEW j \in 1..(n + 1), i < j
      PROVE  q[i].end < q[j].start
  <2>1. j - 1 \in 1..n /\ q[j] = r[j - 1]
    BY <1>5, <1>9
  <2>2. CASE i = 1
    BY <1>1, <1>2, <1>3, <1>4, <1>6, <2>1, <2>2
  <2>3. CASE i # 1
    <3>1. i - 1 \in 1..n /\ q[i] = r[i - 1] /\ i - 1 < j - 1
      BY <1>5, <1>9, <2>3
    <3> QED
      BY <1>3, <2>1, <3>1
  <2> QED
    BY <2>2, <2>3
<1>10. Cuts(q, n + 1, c, end, skip)
  BY <1>4, <1>7, <1>8, <1>9 DEF Cuts
<1> QED
  BY <1>2, <1>10 DEF q, next

(* TimeRanges cuts the time between start and end, whatever is left for the *)
(* last range: for every start, end and length (tm/time.go:16-43).          *)
THEOREM TimeRangesCut ==
  ASSUME NEW start \in Nat, NEW end \in Nat, NEW skip \in Nat \ {0}
  PROVE  \E n \in Nat : Cuts(TimeRanges(start, end, skip, -1), n, start, end, skip)
<1>1. TimeRanges(start, end, skip, -1) = (CHOOSE g : FollowedBy(g, end, skip, -1))[start]
  BY Zenon DEF TimeRanges, FollowedBy
<1>2. PICK g : /\ FollowedBy(g, end, skip, -1)
               /\ TimeRanges(start, end, skip, -1) = g[start]
  BY <1>1, FollowedExists
<1>3. \A c \in Nat : FollowedAt(g, c, end, skip, -1)
  BY <1>2, Zenon DEF FollowedBy, FollowedAt
<1> DEFINE T == {k \in Nat : \A c \in Nat : c + k >= end =>
                               \E n \in Nat : Cuts(g[c], n, c, end, skip)}
<1>4. ASSUME NEW c \in Nat, c >= end PROVE \E n \in Nat : Cuts(g[c], n, c, end, skip)
  <2>1. g[c] = <<>>
    BY <1>3, <1>4 DEF FollowedAt
  <2>2. Cuts(<<>>, 0, c, end, skip)
    <3>1. <<>> \in [1..0 -> Spans]
      OBVIOUS
    <3> QED
      BY <1>4, <3>1 DEF Cuts
  <2> QED
    BY <2>1, <2>2
<1>5. 0 \in T
  BY <1>4
<1>6. ASSUME NEW k \in Nat, k \in T PROVE k + 1 \in T
  <2>1. SUFFICES ASSUME NEW c \in Nat, c + (k + 1) >= end, c < end
                 PROVE  \E n \in Nat : Cuts(g[c], n, c, end, skip)
    BY <1>4
  <2>2. /\ NextStart(c, end, skip) \in Nat /\ NextStart(c, end, skip) + k >= end
    BY <2>1, NextStartIs
  <2>3. PICK n \in Nat : Cuts(g[NextStart(c, end, skip)], n, NextStart(c, end, skip), end, skip)
    BY <1>6, <2>2
  <2>4. g[c] = <<Span(c, NextStart(c, end, skip) - 1)>> \o g[NextStart(c, end, skip)]
    <3>1. PICK next : next = NextStart(c, end, skip)
      OBVIOUS
    <3>2. next + (-1) = next - 1
      BY <2>2, <3>1
    <3>3. g[c] = <<Span(c, next + (-1))>> \o g[next]
      <4>1. FollowedAt(g, c, end, skip, -1) /\ ~(c >= end)
        BY <1>3, <2>1
      <4> QED
        BY <3>1, <4>1, Zenon DEF FollowedAt
    <3> QED
      BY <3>1, <3>2, <3>3
  <2>5. Cuts(g[c], n + 1, c, end, skip)
    BY <2>1, <2>3, <2>4, CutsBefore
  <2> QED
    BY <2>5
<1> HIDE DEF T
<1>7. end \in T
  BY <1>5, <1>6, Induction
<1> QED
  BY <1>2, <1>7 DEF T

-----------------------------------------------------------------------------
(* The day and the week before a second *)

LEMMA DivMod ==
  ASSUME NEW b \in Nat \ {0}, NEW t \in Int
  PROVE  t = b * (t \div b) + (t % b) /\ t % b \in 0..(b - 1) /\ t \div b \in Int
  OBVIOUS

LEMMA Mod ==
  ASSUME NEW b \in Nat \ {0}, NEW q \in Int, NEW r \in 0..(b - 1), NEW s, s = b * q + r
  PROVE  s % b = r
  OBVIOUS

LEMMA Product ==
  ASSUME NEW a \in Nat, NEW w \in 1..7
  PROVE  w * a \in Nat /\ a <= w * a /\ w * a <= 7 * a
<1>1. w = 1 \/ w = 2 \/ w = 3 \/ w = 4 \/ w = 5 \/ w = 6 \/ w = 7
  OBVIOUS
<1> QED
  BY <1>1

(* The span is a whole day or week, the last one that is over at t.         *)
LastWhole(span, length, first, t) ==
  /\ span.start \in Nat /\ span.end \in Nat
  /\ span.start % length = first /\ span.end = span.start + length - 1
  /\ t - span.end \in 1..length

LEMMA LastWholeType ==
  ASSUME NEW s \in Nat, NEW e \in Nat, NEW length, NEW first, NEW t,
         s % length = first, e = s + length - 1, t - e \in 1..length
  PROVE  LastWhole(Span(s, e), length, first, t) /\ Span(s, e) \in Spans
  BY SpanType DEF LastWhole

(* The day before a second.                                                 *)
LEMMA YesterdayIsWhole ==
  ASSUME NEW t \in Nat, t >= 2 * Week
  PROVE  LastWhole(Yesterday(t), Day, 0, t) /\ Yesterday(t) \in Spans
<1> DEFINE d == t \div Day
           r == t % Day
           s == (d - 1) * Day
           e == (d - 1) * Day + Day - 1
<1>1. t = Day * d + r /\ r \in 0..(Day - 1) /\ d \in Int /\ Day \in Nat \ {0}
  BY HistoryAssumption, DivMod
<1>2. Yesterday(t) = Span(s, e)
  BY DEF Yesterday, Days, DayOf
<1> HIDE DEF d, r
<1>3. s = Day * d - Day /\ s = Day * (d - 1) + 0
  BY <1>1
<1>4. s % Day = 0
  <2>1. PICK q \in Int : q = d - 1
    BY <1>1
  <2>2. s = Day * q + 0 /\ 0 \in 0..(Day - 1)
    BY <1>1, <1>3, <2>1
  <2> HIDE DEF s
  <2> QED
    BY <1>1, <2>2, Mod, Zenon
<1>5. PICK p \in Int : p = Day * d
  BY <1>1
<1>6. s = p - Day /\ e = s + Day - 1 /\ t = p + r
  BY <1>1, <1>3, <1>5
<1>7. t >= 14 * Day
  BY <1>1 DEF Week
<1> HIDE DEF s, e
<1>8. s \in Nat /\ e \in Nat /\ t - e \in 1..Day
  BY <1>1, <1>5, <1>6, <1>7
<1> QED
  BY <1>2, <1>4, <1>6, <1>8, LastWholeType

(* The week before a second, from Monday to Sunday.                         *)
LEMMA LastWeekIsWhole ==
  ASSUME NEW t \in Nat, t >= 2 * Week
  PROVE  LastWhole(LastWeek(t), Week, Day, t) /\ LastWeek(t) \in Spans
<1> DEFINE d == t \div Day
           r == t % Day
           w == Weekday(d)
           monday == d - w + 1 - 7
           s == monday * Day
           e == (monday + 6) * Day + Day - 1
<1>1. t = Day * d + r /\ r \in 0..(Day - 1) /\ d \in Int /\ Day \in Nat \ {0}
  BY HistoryAssumption, DivMod
<1>2. LastWeek(t) = Span(s, e)
  BY DEF LastWeek, Days, DayOf
<1> HIDE DEF d, r
<1>3. PICK k \in Int : d - w = 7 * k /\ w \in 1..7
  <2>1. d = 7 * (d \div 7) + (d % 7) /\ d % 7 \in 0..6 /\ d \div 7 \in Int
    BY <1>1, DivMod
  <2>2. CASE d % 7 = 0
    <3>1. w = 7 /\ d - w = 7 * ((d \div 7) - 1) /\ (d \div 7) - 1 \in Int
      BY <2>1, <2>2 DEF Weekday
    <3> QED
      BY <3>1
  <2>3. CASE d % 7 # 0
    <3>1. w = d % 7 /\ d - w = 7 * (d \div 7) /\ w \in 1..7
      BY <2>1, <2>3 DEF Weekday
    <3> QED
      BY <2>1, <3>1
  <2> QED
    BY <2>2, <2>3
<1> HIDE DEF w
<1>4. monday = 7 * (k - 1) + 1 /\ d = 7 * k + w
  BY <1>1, <1>3
<1>5. PICK p \in Int : p = Week * (k - 1)
  BY <1>1, <1>3 DEF Week
<1>6. s = p + Day /\ e = s + Week - 1 /\ Week = 7 * Day
  BY <1>1, <1>3, <1>4, <1>5 DEF Week
<1>7. PICK x \in Nat : x = w * Day /\ Day <= x /\ x <= 7 * Day
  BY <1>1, <1>3, Product
<1>8. t = p + Week + x + r
  <2>1. Day * d = (7 * Day) * (k - 1) + 7 * Day + w * Day
    BY <1>1, <1>3, <1>4
  <2> QED
    BY <1>1, <1>5, <1>6, <1>7, <2>1
<1>9. s % Week = Day
  <2>1. PICK q \in Int : q = k - 1
    BY <1>3
  <2>2. Week \in Nat \ {0} /\ Day \in 0..(Week - 1) /\ s = Week * q + Day
    BY <1>1, <1>5, <1>6, <2>1
  <2> HIDE DEF s
  <2> QED
    BY <2>2, Mod, Zenon
<1> HIDE DEF s, e
<1>10. s \in Nat /\ e \in Nat /\ t - e \in 1..Week
  <2>1. t >= 14 * Day
    BY <1>1 DEF Week
  <2>2. s \in Int /\ e \in Int
    BY <1>1, <1>5, <1>6
  <2>3. t - e = (x - Day) + r + 1
    BY <1>1, <1>5, <1>6, <1>7, <1>8
  <2> QED
    BY <1>1, <1>5, <1>6, <1>7, <1>8, <2>1, <2>2, <2>3
<1> QED
  BY <1>2, <1>6, <1>9, <1>10, LastWholeType

-----------------------------------------------------------------------------
(* The ranges of every caller *)

Callers == Commands \cup Runs
Times == [start : 0..Horizon, end : 0..Horizon]

(* What the n ranges R of the caller c are.                                 *)
Promised(c, R, n) ==
  /\ R \in [1..n -> Times]
  /\ c.interval # "none" =>
       \A i \in 1..n : R[i].start <= R[i].end /\ R[i].end - R[i].start < Week
  /\ c.interval \in {"daily", "weekly"} => Cuts(R, n, c.begin, c.end, Week)
  /\ c.interval = "yesterday" => \A i \in 1..n : LastWhole(R[i], Day, 0, c.end)
  /\ c.interval = "last week" => \A i \in 1..n : LastWhole(R[i], Week, Day, c.end)

LEMMA WeekIs == Week \in Nat \ {0} /\ Day <= Week
  BY HistoryAssumption DEF Week

LEMMA CallerType ==
  ASSUME NEW c \in Callers
  PROVE  /\ c.begin \in 0..Horizon /\ c.end \in 0..Horizon /\ c.rowWise \in BOOLEAN
         /\ c.interval \in {"none", "daily", "weekly", "yesterday", "last week"}
         /\ c.interval \in {"yesterday", "last week"} => c.end >= 2 * Week
<1>1. CASE c \in Commands
  <2>1. c \in [begin : 0..Horizon, end : 0..Horizon, interval : {"none", "daily", "weekly"},
               rowWise : BOOLEAN]
    BY <1>1 DEF Commands
  <2> QED
    BY <2>1
<1>2. CASE c \in Runs
  <2>1. c \in [begin : {0}, end : 2 * Week .. Horizon, interval : {"yesterday", "last week"},
               rowWise : {FALSE}]
    BY <1>2 DEF Runs
  <2>2. PICK w \in Nat : w = 2 * Week
    BY WeekIs
  <2>3. PICK e : e = c.end
    OBVIOUS
  <2>4. e \in w .. Horizon /\ c.begin = 0
    BY <2>1, <2>2, <2>3
  <2>5. c.rowWise \in BOOLEAN /\ c.interval \in {"yesterday", "last week"}
    BY <2>1
  <2>6. e \in 0..Horizon /\ e >= 2 * Week /\ 0 \in 0..Horizon
    BY <2>2, <2>4, HistoryAssumption
  <2> QED
    BY <2>3, <2>4, <2>5, <2>6
<1> QED
  BY <1>1, <1>2 DEF Callers

(* One range.                                                               *)
LEMMA Single ==
  ASSUME NEW x \in Times
  PROVE  <<x>> \in [1..1 -> Times] /\ \A i \in 1..1 : <<x>>[i] = x
  OBVIOUS

LEMMA WholePromised ==
  ASSUME NEW x \in Spans, NEW length \in Nat, NEW first, NEW t \in 0..Horizon,
         LastWhole(x, length, first, t), length <= Week
  PROVE  x \in Times /\ x.start <= x.end /\ x.end - x.start < Week
<1>1. x.start \in Nat /\ x.end \in Nat /\ x.end = x.start + length - 1 /\ t - x.end \in 1..length
  BY DEF LastWhole
<1>2. PICK s \in Nat, e \in Nat : x = [start |-> s, end |-> e]
  BY DEF Spans
<1>3. e = s + length - 1 /\ t - e \in 1..length /\ Week \in Nat
  BY <1>1, <1>2, WeekIs
<1>4. s <= e /\ e <= t /\ e - s < Week
  BY <1>3
<1> QED
  BY <1>2, <1>3, <1>4, HistoryAssumption DEF Times

LEMMA CutsPromised ==
  ASSUME NEW c \in Callers, NEW n \in Nat, NEW R, NEW skip \in Nat, skip <= Week,
         Cuts(R, n, c.begin, c.end, skip), c.interval \in {"daily", "weekly"}
  PROVE  Promised(c, R, n)
<1>1. /\ R \in [1..n -> Spans]
      /\ \A i \in 1..n : /\ c.begin <= R[i].start /\ R[i].start <= R[i].end /\ R[i].end < c.end
                         /\ R[i].end - R[i].start < skip
      /\ \A s \in Nat : c.begin <= s /\ s < c.end =>
           \E i \in 1..n : R[i].start <= s /\ s <= R[i].end
      /\ \A i, j \in 1..n : i < j => R[i].end < R[j].start
  BY DEF Cuts
<1>2. c.begin \in 0..Horizon /\ c.end \in 0..Horizon /\ Horizon \in Nat /\ Week \in Nat
  BY CallerType, HistoryAssumption, WeekIs
<1>3. ASSUME NEW i \in 1..n
      PROVE  R[i] \in Times /\ R[i].end - R[i].start < Week
  <2>1. PICK s \in Nat, e \in Nat : R[i] = [start |-> s, end |-> e]
    BY <1>1 DEF Spans
  <2>2. R[i].start = s /\ R[i].end = e
    BY <2>1
  <2>3. s <= e /\ e < c.end /\ e - s < skip
    BY <1>1, <2>2
  <2> QED
    BY <1>2, <2>1, <2>2, <2>3 DEF Times
<1>4. R \in [1..n -> Times]
  BY <1>1, <1>3
<1>5. Cuts(R, n, c.begin, c.end, Week)
  BY <1>1, <1>3, Zenon DEF Cuts
<1> QED
  BY <1>1, <1>3, <1>4, <1>5 DEF Promised

LEMMA RangesPromised ==
  ASSUME NEW c \in Callers
  PROVE  \E n \in Nat : Promised(c, Ranges(c), n)
<1>1. /\ c.begin \in 0..Horizon /\ c.end \in 0..Horizon /\ c.begin \in Nat /\ c.end \in Nat
      /\ c.interval \in {"none", "daily", "weekly", "yesterday", "last week"}
  <2>1. PICK b, e, v : b = c.begin /\ e = c.end /\ v = c.interval
    OBVIOUS
  <2>2. b \in 0..Horizon /\ e \in 0..Horizon
    BY <2>1, CallerType
  <2>3. v \in {"none", "daily", "weekly", "yesterday", "last week"}
    BY <2>1, CallerType
  <2>4. b \in Nat /\ e \in Nat
    BY <2>2, HistoryAssumption
  <2> QED
    BY <2>1, <2>2, <2>3, <2>4
<1>2. CASE c.interval = "none"
  <2>1. PICK x \in Times : x = Span(c.begin, c.end)
    BY <1>1 DEF Span, Times
  <2>2. Ranges(c) = <<x>>
    BY <1>2, <2>1 DEF Ranges
  <2>3. Promised(c, <<x>>, 1)
    BY <1>2, Single DEF Promised
  <2> QED
    BY <2>2, <2>3
<1>3. CASE c.interval = "daily"
  <2>1. Ranges(c) = TimeRanges(c.begin, c.end, Day, -1)
    BY <1>3 DEF Ranges
  <2>2. PICK n \in Nat : Cuts(Ranges(c), n, c.begin, c.end, Day)
    BY <1>1, <2>1, HistoryAssumption, TimeRangesCut
  <2> QED
    BY <1>3, <2>2, HistoryAssumption, WeekIs, CutsPromised
<1>4. CASE c.interval = "weekly"
  <2>1. Ranges(c) = TimeRanges(c.begin, c.end, Week, -1)
    BY <1>4 DEF Ranges
  <2>2. PICK n \in Nat : Cuts(Ranges(c), n, c.begin, c.end, Week)
    BY <1>1, <2>1, WeekIs, TimeRangesCut
  <2> QED
    BY <1>4, <2>2, WeekIs, CutsPromised
<1>5. CASE c.interval = "yesterday"
  <2>1. PICK x : x = Yesterday(c.end)
    OBVIOUS
  <2>2. Ranges(c) = <<x>>
    BY <1>5, <2>1 DEF Ranges
  <2>3. LastWhole(x, Day, 0, c.end) /\ x \in Spans
    BY <1>1, <1>5, <2>1, CallerType, YesterdayIsWhole
  <2>4. x \in Times /\ x.start <= x.end /\ x.end - x.start < Week
    BY <1>1, <2>3, HistoryAssumption, WeekIs, WholePromised
  <2>5. Promised(c, <<x>>, 1)
    BY <1>5, <2>3, <2>4, Single DEF Promised
  <2> QED
    BY <2>2, <2>5
<1>6. CASE c.interval = "last week"
  <2>1. PICK x : x = LastWeek(c.end)
    OBVIOUS
  <2>2. Ranges(c) = <<x>>
    BY <1>6, <2>1 DEF Ranges
  <2>3. LastWhole(x, Week, Day, c.end) /\ x \in Spans
    BY <1>1, <1>6, <2>1, CallerType, LastWeekIsWhole
  <2>4. x \in Times /\ x.start <= x.end /\ x.end - x.start < Week
    <3>1. Week \in Nat /\ Week <= Week
      BY WeekIs
    <3> QED
      BY <1>1, <2>3, <3>1, WholePromised
  <2>5. Promised(c, <<x>>, 1)
    BY <1>6, <2>3, <2>4, Single DEF Promised
  <2> QED
    BY <2>2, <2>5
<1> QED
  BY <1>1, <1>2, <1>3, <1>4, <1>5, <1>6

-----------------------------------------------------------------------------
(* The inductive invariant *)

Questions == [span : Times, attributes : SUBSET Attributes]
Line == [span : Times, cells : Seq(Attributes)]

Types ==
  /\ caller \in Callers
  /\ todo \in Seq(Times)
  /\ asked \in Seq(Questions)
  /\ header \in Seq(Attributes)
  /\ rows \in Seq(Line)
  /\ status \in {"runs", "ok", "failed", "panic"}

(* The ranges are asked for in order, and all of them before the end.       *)
Progress ==
  /\ Len(asked) + Len(todo) = Len(Ranges(caller))
  /\ \A i \in DOMAIN asked : asked[i].span = Ranges(caller)[i]
  /\ \A i \in DOMAIN todo : todo[i] = Ranges(caller)[Len(asked) + i]
  /\ status = "ok" => todo = <<>>

(* Row by row, there is a line for each answer, and the header is that of   *)
(* the last one; nothing is printed that is not there.                      *)
Table ==
  /\ status # "panic"
  /\ caller.rowWise /\ status # "failed" =>
       /\ Len(rows) = Len(asked)
       /\ \A i \in DOMAIN rows : rows[i].cells = Sorted(asked[i].attributes)
       /\ asked # <<>> => header = Sorted(asked[Len(asked)].attributes)

Inv == Types /\ Progress /\ Table

LEMMA ExtendsIs ==
  ASSUME NEW S, NEW n \in Nat, NEW q, NEW x, NEW p, Extends(p, S, n, q, x)
  PROVE  /\ p \in Seq(S) /\ Len(p) = n + 1 /\ DOMAIN p = 1..(n + 1)
         /\ p[n + 1] = x /\ \A i \in 1..(n + 1) : i # n + 1 => i \in 1..n /\ p[i] = q[i]
<1>1. p \in [1..(n + 1) -> S] /\ p[n + 1] = x /\ \A i \in 1..n : p[i] = q[i]
  BY DEF Extends
<1>2. PICK m \in Nat : m = n + 1
  OBVIOUS
<1>3. p \in Seq(S) /\ Len(p) = m /\ DOMAIN p = 1..m
  BY <1>1, <1>2, IsSequence
<1>4. \A i \in 1..(n + 1) : i # n + 1 => i \in 1..n
  OBVIOUS
<1> QED
  BY <1>1, <1>2, <1>3, <1>4

(* One line more, row by row.                                               *)
LEMMA LineAppended ==
  ASSUME NEW S, NEW n \in Nat, NEW q \in [1..n -> S], NEW x \in S
  PROVE  Extends(q \o <<x>>, S, n, q, x)
<1>1. q \in Seq(S)
  BY IsSequence
<1>2. q \o <<x>> = Append(q, x)
  BY <1>1, AppendIsConcat
<1>3. Extends(Append(q, x), S, n, q, x)
  BY Appended, Zenon
<1> QED
  BY <1>2, <1>3

LEMMA InvInit == Init => Inv
<1> SUFFICES ASSUME Init PROVE Inv
  OBVIOUS
<1>1. caller \in Callers /\ todo = Ranges(caller) /\ asked = <<>> /\ header = <<>> /\ rows = <<>>
      /\ status = "runs"
  BY DEF Init, Callers
<1>2. PICK n \in Nat : Promised(caller, todo, n)
  BY <1>1, RangesPromised
<1>3. todo \in [1..n -> Times]
  BY <1>2 DEF Promised
<1>4. todo \in Seq(Times) /\ Len(todo) = n /\ DOMAIN todo = 1..n
  BY <1>3, IsSequence
<1>5. Len(asked) = 0 /\ DOMAIN asked = {} /\ asked \in Seq(Questions) /\ header \in Seq(Attributes)
      /\ rows \in Seq(Line) /\ DOMAIN rows = {} /\ Len(rows) = 0
  BY <1>1, EmptySeq
<1>6. Types
  BY <1>1, <1>4, <1>5 DEF Types
<1>7. Progress
  BY <1>1, <1>4, <1>5 DEF Progress
<1>8. Table
  BY <1>1, <1>5 DEF Table
<1> QED
  BY <1>6, <1>7, <1>8 DEF Inv

(* A line for each attribute, when it is not row by row.                    *)
LEMMA LinesType ==
  ASSUME NEW span \in Times, NEW data \in Seq(Attributes), ~caller.rowWise
  PROVE  Lines(span, data) \in Seq(Line)
<1>1. PICK n \in Nat : DOMAIN data = 1..n /\ data \in [1..n -> Attributes]
  BY Elements
<1>2. \A i \in 1..n : [span |-> span, cells |-> <<data[i]>>] \in Line
  <2>1. SUFFICES ASSUME NEW i \in 1..n PROVE [span |-> span, cells |-> <<data[i]>>] \in Line
    OBVIOUS
  <2>2. PICK x \in Attributes : x = data[i]
    BY <1>1
  <2>3. <<x>> \in Seq(Attributes)
    OBVIOUS
  <2> QED
    BY <2>2, <2>3 DEF Line
<1> DEFINE lines == [i \in 1..n |-> [span |-> span, cells |-> <<data[i]>>]]
<1>3. lines \in [1..n -> Line]
  BY <1>2
<1> HIDE DEF lines
<1>4. lines \in Seq(Line)
  BY <1>3, IsSequence
<1>5. Lines(span, data) = lines
  BY <1>1 DEF Lines, lines
<1> QED
  BY <1>4, <1>5

LEMMA AskKeeps ==
  ASSUME Inv, NEW answer \in Answers, Ask(answer)
  PROVE  Inv'
<1> DEFINE data == GetHistory(answer)
           span == Head(todo)
           question == [span |-> span, attributes |-> ToSet(data)]
<1>1. /\ data \in Seq(Attributes) /\ ToSet(data) \cap answer.valueless = {}
      /\ ToSet(data) \in SUBSET Attributes
  BY GetHistoryKeeps
<1>2. /\ status = "runs" /\ todo # <<>> /\ todo' = Tail(todo) /\ caller' = caller
      /\ asked' = Append(asked, question) /\ status' = status
      /\ header' = Header(data) /\ rows' = rows \o Lines(span, data)
  BY <1>1 DEF Ask
<1> HIDE DEF data
<1>3. /\ caller \in Callers /\ todo \in Seq(Times) /\ asked \in Seq(Questions) /\ rows \in Seq(Line)
  BY DEF Inv, Types
<1>4. PICK n \in Nat : Len(asked) = n /\ DOMAIN asked = 1..n /\ asked \in [1..n -> Questions]
  BY <1>3, Elements
<1>5. PICK m \in Nat : Len(todo) = m /\ DOMAIN todo = 1..m /\ todo \in [1..m -> Times]
  BY <1>3, Elements
<1>6. PICK l \in Nat : Len(rows) = l /\ DOMAIN rows = 1..l /\ rows \in [1..l -> Line]
  BY <1>3, Elements
<1>7. /\ m >= 1 /\ span = todo[1] /\ span \in Times
      /\ todo' \in Seq(Times) /\ Len(todo') = m - 1
      /\ \A i \in 1..(m - 1) : todo'[i] = todo[i + 1]
  BY <1>2, <1>5, Rest
<1> HIDE DEF span
<1>8. question \in Questions /\ question.span = span /\ question.attributes = ToSet(data)
  BY <1>1, <1>7 DEF Questions
<1> HIDE DEF question
<1>9. Extends(asked', Questions, n, asked, question)
  BY <1>2, <1>4, <1>8, Appended
<1>10. /\ asked' \in Seq(Questions) /\ Len(asked') = n + 1 /\ DOMAIN asked' = 1..(n + 1)
       /\ asked'[n + 1] = question
       /\ \A i \in 1..(n + 1) : i # n + 1 => i \in 1..n /\ asked'[i] = asked[i]
  BY <1>9, ExtendsIs
<1>11. Progress'
  <2>1. PICK k : k = Len(Ranges(caller))
    OBVIOUS
  <2>2. n + m = k /\ (\A i \in 1..n : asked[i].span = Ranges(caller)[i])
        /\ \A i \in 1..m : todo[i] = Ranges(caller)[n + i]
    BY <1>4, <1>5, <2>1 DEF Inv, Progress
  <2>3. Ranges(caller') = Ranges(caller)
    BY <1>2
  <2>4. (n + 1) + (m - 1) = k
    BY <1>7, <2>2
  <2>5. \A i \in 1..(n + 1) : asked'[i].span = Ranges(caller)[i]
    <3>1. SUFFICES ASSUME NEW i \in 1..(n + 1) PROVE asked'[i].span = Ranges(caller)[i]
      OBVIOUS
    <3>2. CASE i = n + 1
      <4>1. 1 \in 1..m
        BY <1>7
      <4>2. todo[1] = Ranges(caller)[n + 1]
        BY <2>2, <4>1
      <4> QED
        BY <1>7, <1>8, <1>10, <3>2, <4>2
    <3>3. CASE i # n + 1
      BY <1>10, <2>2, <3>3
    <3> QED
      BY <3>2, <3>3
  <2>6. DOMAIN todo' = 1..(m - 1)
    <3>1. PICK j \in Nat : Len(todo') = j /\ DOMAIN todo' = 1..j
      BY <1>7, Elements
    <3> QED
      BY <1>7, <3>1
  <2>7. ASSUME NEW i \in 1..(m - 1) PROVE todo'[i] = Ranges(caller)[(n + 1) + i]
    <3>1. i + 1 \in 1..m /\ n + (i + 1) = (n + 1) + i
      OBVIOUS
    <3> QED
      BY <1>7, <2>2, <3>1
  <2> QED
    BY <1>2, <1>7, <1>10, <2>1, <2>3, <2>4, <2>5, <2>6, <2>7 DEF Progress
<1>12. CASE caller.rowWise
  <2> DEFINE cells == Sorted(ToSet(data))
             line == [span |-> span, cells |-> cells]
  <2>1. cells \in Seq(Attributes)
    BY <1>1, SortedType
  <2>2. header' = cells /\ rows' = rows \o <<line>>
    BY <1>2, <1>12 DEF Header, Lines, Columns
  <2> HIDE DEF cells
  <2>3. line \in Line /\ line.cells = cells
    BY <1>7, <2>1 DEF Line
  <2> HIDE DEF line
  <2>4. Extends(rows', Line, l, rows, line)
    BY <1>6, <2>2, <2>3, LineAppended
  <2>5. /\ rows' \in Seq(Line) /\ Len(rows') = l + 1 /\ DOMAIN rows' = 1..(l + 1)
        /\ rows'[l + 1] = line
        /\ \A i \in 1..(l + 1) : i # l + 1 => i \in 1..l /\ rows'[i] = rows[i]
    BY <2>4, ExtendsIs
  <2>6. l = n /\ \A i \in 1..l : rows[i].cells = Sorted(asked[i].attributes)
    BY <1>2, <1>4, <1>6, <1>12 DEF Inv, Table
  <2>7. Types'
    BY <1>2, <1>3, <1>7, <1>10, <2>1, <2>2, <2>5 DEF Inv, Types
  <2>8. ASSUME NEW i \in 1..(n + 1) PROVE rows'[i].cells = Sorted(asked'[i].attributes)
    <3>1. CASE i = n + 1
      BY <1>8, <1>10, <2>3, <2>5, <2>6, <3>1 DEF cells
    <3>2. CASE i # n + 1
      BY <1>10, <2>5, <2>6, <3>2
    <3> QED
      BY <3>1, <3>2
  <2>9. header' = Sorted(asked'[n + 1].attributes)
    BY <1>8, <1>10, <2>2 DEF cells
  <2>10. Table'
    BY <1>2, <1>10, <2>5, <2>6, <2>8, <2>9 DEF Inv, Table
  <2> QED
    BY <1>11, <2>7, <2>10 DEF Inv
<1>13. CASE ~caller.rowWise
  <2>1. header' = <<>> /\ header' \in Seq(Attributes)
    BY <1>2, <1>13 DEF Header
  <2>2. PICK lines \in Seq(Line) : lines = Lines(span, data)
    BY <1>1, <1>7, <1>13, LinesType
  <2>3. rows' \in Seq(Line)
    BY <1>2, <1>3, <2>2, ConcatProperties
  <2>4. Types'
    BY <1>2, <1>3, <1>7, <1>10, <2>1, <2>3 DEF Inv, Types
  <2>5. Table'
    BY <1>2, <1>13 DEF Table
  <2> QED
    BY <1>11, <2>4, <2>5 DEF Inv
<1> QED
  BY <1>12, <1>13

LEMMA InvNext == Inv /\ [Next]_vars => Inv'
<1> SUFFICES ASSUME Inv, [Next]_vars PROVE Inv'
  OBVIOUS
<1>1. ASSUME NEW answer \in Answers, Ask(answer) PROVE Inv'
  BY <1>1, AskKeeps
<1>2. CASE AskFails
  <2>1. /\ caller' = caller /\ todo' = todo /\ asked' = asked
        /\ header' = <<>> /\ rows' = <<>> /\ status' = "failed"
    BY <1>2 DEF AskFails
  <2>2. header' \in Seq(Attributes) /\ rows' \in Seq(Line)
    BY <2>1
  <2> QED
    BY <2>1, <2>2 DEF Inv, Types, Progress, Table
<1>3. CASE Finish
  <2>1. /\ caller' = caller /\ todo' = todo /\ asked' = asked /\ header' = header /\ rows' = rows
        /\ status = "runs" /\ todo = <<>> /\ status' = "ok"
    BY <1>3 DEF Finish
  <2> QED
    BY <2>1 DEF Inv, Types, Progress, Table
<1>4. CASE UNCHANGED vars
  BY <1>4 DEF Inv, Types, Progress, Table, vars
<1> QED
  BY <1>1, <1>2, <1>3, <1>4 DEF Next

(* The invariant holds of every command and every run of a collector.       *)
THEOREM Invariance == Spec => []Inv
  BY InvInit, InvNext, PTL DEF Spec

-----------------------------------------------------------------------------
(* What follows from the invariant *)

(* Type correctness.                                                        *)
THEOREM TypeCorrect == Spec => []TypeOK
<1>1. Inv => TypeOK
  <2> SUFFICES ASSUME Types PROVE TypeOK
    BY DEF Inv
  <2>1. PICK n \in Nat : DOMAIN todo = 1..n /\ todo \in [1..n -> Times]
    BY Elements DEF Types
  <2>2. PICK m \in Nat : DOMAIN asked = 1..m /\ asked \in [1..m -> Questions]
    BY Elements DEF Types
  <2>3. PICK l \in Nat : DOMAIN rows = 1..l /\ rows \in [1..l -> Line]
    BY Elements DEF Types
  <2>4. \A i \in DOMAIN todo : todo[i].start \in 0..Horizon /\ todo[i].end \in 0..Horizon
    BY <2>1 DEF Times
  <2>5. \A i \in DOMAIN asked : asked[i].attributes \subseteq Attributes
    BY <2>2 DEF Questions
  <2>6. \A i \in DOMAIN rows : rows[i].cells \in Seq(Attributes)
    BY <2>3 DEF Line
  <2> QED
    BY <2>4, <2>5, <2>6 DEF Types, TypeOK, Callers
<1> QED
  BY <1>1, Invariance, PTL

(* No answer of EcoFlow stops the command: whatever has no value is left    *)
(* out before it is printed (ecoflow_http.go:136).                          *)
THEOREM NeverPanicsHolds == Spec => []NeverPanics
<1>1. Inv => NeverPanics
  BY DEF Inv, Table, NeverPanics
<1> QED
  BY <1>1, Invariance, PTL

(* Row by row, the header names the columns of every line when EcoFlow      *)
(* answers all ranges with the same attributes, for however many ranges and *)
(* attributes and in whatever order they come (commands.go:694-714).        *)
THEOREM RowsUnderHeaderHolds == Spec => []RowsUnderHeader
<1>1. Inv => RowsUnderHeader
  <2> SUFFICES ASSUME Inv, status = "ok", caller.rowWise,
                      \A i, j \in DOMAIN asked : asked[i].attributes = asked[j].attributes,
                      NEW i \in DOMAIN rows
               PROVE  rows[i].cells = header
    BY DEF RowsUnderHeader
  <2>1. PICK n \in Nat : Len(asked) = n /\ DOMAIN asked = 1..n
    BY Elements DEF Inv, Types
  <2>2. PICK m \in Nat : Len(rows) = m /\ DOMAIN rows = 1..m
    BY Elements DEF Inv, Types
  <2>3. /\ m = n /\ rows[i].cells = Sorted(asked[i].attributes)
        /\ asked # <<>> => header = Sorted(asked[n].attributes)
    BY <2>1, <2>2 DEF Inv, Table
  <2>4. i \in 1..n /\ n \in 1..n
    BY <2>2, <2>3
  <2>5. asked # <<>>
    BY <2>1, <2>4, EmptySeq
  <2>6. asked[i].attributes = asked[n].attributes
    BY <2>1, <2>4
  <2> QED
    BY <2>3, <2>5, <2>6
<1> QED
  BY <1>1, Invariance, PTL

(* The seconds of a span are counted.                                       *)
LEMMA CountSeconds ==
  ASSUME NEW x \in Times, x.start <= x.end, x.end - x.start < Week
  PROVE  Cardinality(Seconds(x)) \in 1..Week
<1>1. PICK s, e : s = x.start /\ e = x.end
  OBVIOUS
<1>2. s \in Int /\ e \in Int /\ Week \in Nat
  BY <1>1, HistoryAssumption, WeekIs DEF Times
<1>3. Cardinality(s..e) = IF s > e THEN 0 ELSE e - s + 1
  BY <1>2, FS_Interval
<1>4. e - s + 1 \in 1..Week /\ ~(s > e)
  BY <1>1, <1>2
<1>5. Seconds(x) = s..e
  BY <1>1 DEF Seconds
<1> QED
  BY <1>3, <1>4, <1>5

(* No range that is cut is longer than the week that EcoFlow answers for,   *)
(* and none ends before it starts: for every length of a day and every      *)
(* begin and end (tm/time.go:33).                                           *)
THEOREM RangesAreAnswerableHolds == Spec => []RangesAreAnswerable
<1>1. Inv => RangesAreAnswerable
  <2> SUFFICES ASSUME Inv, caller.interval # "none", NEW i \in DOMAIN todo
               PROVE  Cardinality(Seconds(todo[i])) \in 1..Week
    BY DEF RangesAreAnswerable
  <2>1. PICK n \in Nat : Promised(caller, Ranges(caller), n)
    BY RangesPromised DEF Inv, Types
  <2>2. PICK m \in Nat : Len(asked) = m
    BY Elements DEF Inv, Types
  <2>3. PICK l \in Nat : Len(todo) = l /\ DOMAIN todo = 1..l
    BY Elements DEF Inv, Types
  <2>4. Len(Ranges(caller)) = n
    BY <2>1, IsSequence DEF Promised
  <2>5. m + l = n /\ todo[i] = Ranges(caller)[m + i]
    BY <2>2, <2>3, <2>4 DEF Inv, Progress
  <2>6. m + i \in 1..n
    BY <2>3, <2>5
  <2>7. todo[i] \in Times /\ todo[i].start <= todo[i].end /\ todo[i].end - todo[i].start < Week
    BY <2>1, <2>5, <2>6 DEF Promised
  <2> QED
    BY <2>7, CountSeconds
<1> QED
  BY <1>1, Invariance, PTL

(* A question is about the range of its number.                             *)
LEMMA AskedPromised ==
  ASSUME Inv
  PROVE  \E n, m \in Nat :
           /\ m <= n /\ Promised(caller, Ranges(caller), n)
           /\ Len(asked) = m /\ DOMAIN asked = 1..m
           /\ \A i \in 1..m : asked[i].span = Ranges(caller)[i]
           /\ status = "ok" => m = n
<1>1. PICK n \in Nat : Promised(caller, Ranges(caller), n)
  BY RangesPromised DEF Inv, Types
<1>2. PICK m \in Nat : Len(asked) = m /\ DOMAIN asked = 1..m
  BY Elements DEF Inv, Types
<1>3. PICK l \in Nat : Len(todo) = l /\ DOMAIN todo = 1..l
  BY Elements DEF Inv, Types
<1>4. Len(Ranges(caller)) = n
  BY <1>1, IsSequence DEF Promised
<1>5. m + l = n /\ (\A i \in 1..m : asked[i].span = Ranges(caller)[i])
      /\ (status = "ok" => todo = <<>>)
  BY <1>2, <1>3, <1>4 DEF Inv, Progress
<1>6. todo = <<>> => l = 0
  BY <1>3, EmptySeq
<1>7. m <= n /\ (status = "ok" => m = n)
  BY <1>5, <1>6
<1> QED
  BY <1>1, <1>2, <1>5, <1>7

(* At whatever second a collector runs, it asks for the last whole day or   *)
(* the last week from Monday to Sunday (collector.go:316-333).              *)
THEOREM PastIsLastWholeHolds == Spec => []PastIsLastWhole
<1>1. Inv => PastIsLastWhole
  <2> SUFFICES ASSUME Inv PROVE PastIsLastWhole
    OBVIOUS
  <2>1. PICK n \in Nat, m \in Nat :
          /\ m <= n /\ Promised(caller, Ranges(caller), n)
          /\ DOMAIN asked = 1..m
          /\ \A i \in 1..m : asked[i].span = Ranges(caller)[i]
    BY AskedPromised
  <2>2. ASSUME NEW i \in DOMAIN asked
        PROVE  /\ caller.interval = "yesterday" => LastWhole(asked[i].span, Day, 0, caller.end)
               /\ caller.interval = "last week" => LastWhole(asked[i].span, Week, Day, caller.end)
    <3>1. i \in 1..n /\ asked[i].span = Ranges(caller)[i]
      BY <2>1
    <3> QED
      BY <2>1, <3>1 DEF Promised
  <2> QED
    BY <2>2 DEF PastIsLastWhole, LastWhole
<1> QED
  BY <1>1, Invariance, PTL

(* Where a second is in the ranges that cut the time.                       *)
LEMMA OnceInCuts ==
  ASSUME NEW n \in Nat, NEW r, NEW c \in Nat, NEW end \in Nat, NEW skip,
         Cuts(r, n, c, end, skip), NEW s \in Nat
  PROVE  Cardinality({i \in 1..n : s \in Seconds(r[i])}) = IF s \in c .. end - 1 THEN 1 ELSE 0
<1>1. /\ r \in [1..n -> Spans]
      /\ \A i \in 1..n : c <= r[i].start /\ r[i].start <= r[i].end /\ r[i].end < end
      /\ \A t \in Nat : c <= t /\ t < end => \E i \in 1..n : r[i].start <= t /\ t <= r[i].end
      /\ \A i, j \in 1..n : i < j => r[i].end < r[j].start
  BY DEF Cuts
<1>2. \A i \in 1..n : /\ r[i].start \in Nat /\ r[i].end \in Nat
                      /\ s \in Seconds(r[i]) <=> r[i].start <= s /\ s <= r[i].end
  BY <1>1 DEF Spans, Seconds
<1> DEFINE I == {i \in 1..n : s \in Seconds(r[i])}
<1>3. CASE s \in c .. end - 1
  <2>1. PICK k \in 1..n : r[k].start <= s /\ s <= r[k].end
    BY <1>1, <1>3
  <2>2. ASSUME NEW i \in I PROVE i = k
    <3>1. i \in 1..n /\ r[i].start <= s /\ s <= r[i].end
      BY <1>2
    <3>2. ~(i < k) /\ ~(k < i)
      BY <1>1, <1>2, <2>1, <3>1
    <3> QED
      BY <3>1, <3>2
  <2>3. k \in I
    BY <1>2, <2>1
  <2> HIDE DEF I
  <2>4. I = {k}
    BY <2>2, <2>3
  <2>5. Cardinality(I) = 1
    BY <2>4, FS_Singleton
  <2> QED
    BY <1>3, <2>5 DEF I
<1>4. CASE s \notin c .. end - 1
  <2>1. ASSUME NEW i \in I PROVE FALSE
    <3>1. i \in 1..n /\ r[i].start <= s /\ s <= r[i].end
      BY <1>2
    <3>2. c <= s /\ s <= end - 1
      BY <1>1, <1>2, <3>1
    <3> QED
      BY <1>4, <3>2
  <2>2. Cardinality(I) = 0
    BY <2>1, FS_EmptySet
  <2> QED
    BY <1>4, <2>2
<1> QED
  BY <1>3, <1>4

(* A command that succeeds has asked for every second from begin to before  *)
(* end once, in order, and for none outside: for every length of a day,     *)
(* every begin and end, and any number of ranges (tm/time.go:16-43).        *)
THEOREM EverySecondOnceHolds == Spec => []EverySecondOnce
<1>1. Inv => EverySecondOnce
  <2> SUFFICES ASSUME Inv, status = "ok", caller.interval \in {"daily", "weekly"}
               PROVE  /\ \A s \in 0..Horizon :
                           Cardinality({i \in DOMAIN asked : s \in Seconds(asked[i].span)})
                             = IF s \in caller.begin .. caller.end - 1 THEN 1 ELSE 0
                      /\ \A i \in DOMAIN asked :
                           i > 1 => asked[i].span.start > asked[i - 1].span.start
    BY DEF EverySecondOnce
  <2>1. PICK n \in Nat :
          /\ Promised(caller, Ranges(caller), n)
          /\ DOMAIN asked = 1..n
          /\ \A i \in 1..n : asked[i].span = Ranges(caller)[i]
    BY AskedPromised
  <2>2. PICK r, b, e : r = Ranges(caller) /\ b = caller.begin /\ e = caller.end
    OBVIOUS
  <2>3. b \in 0..Horizon /\ e \in 0..Horizon
    BY <2>2, CallerType DEF Inv, Types
  <2>4. b \in Nat /\ e \in Nat
    BY <2>3, HistoryAssumption
  <2>5. Cuts(r, n, b, e, Week)
    BY <2>1, <2>2 DEF Promised
  <2>6. ASSUME NEW s \in 0..Horizon
        PROVE  Cardinality({i \in DOMAIN asked : s \in Seconds(asked[i].span)})
                 = IF s \in b .. e - 1 THEN 1 ELSE 0
    <3>1. s \in Nat
      BY HistoryAssumption
    <3>2. {i \in DOMAIN asked : s \in Seconds(asked[i].span)} = {i \in 1..n : s \in Seconds(r[i])}
      BY <2>1, <2>2
    <3>3. Cardinality({i \in 1..n : s \in Seconds(r[i])}) = IF s \in b .. e - 1 THEN 1 ELSE 0
      BY <2>4, <2>5, <3>1, OnceInCuts
    <3> QED
      BY <3>2, <3>3
  <2>7. ASSUME NEW i \in DOMAIN asked, i > 1
        PROVE  asked[i].span.start > asked[i - 1].span.start
    <3>1. i \in 1..n /\ i - 1 \in 1..n /\ i - 1 < i
      BY <2>1, <2>7
    <3>2. asked[i].span = r[i] /\ asked[i - 1].span = r[i - 1]
      BY <2>1, <2>2, <3>1
    <3>3. /\ r \in [1..n -> Spans]
          /\ r[i - 1].start <= r[i - 1].end /\ r[i - 1].end < r[i].start
      BY <2>5, <3>1 DEF Cuts
    <3>4. r[i - 1].start \in Nat /\ r[i - 1].end \in Nat /\ r[i].start \in Nat
      BY <3>1, <3>3 DEF Spans
    <3> QED
      BY <3>2, <3>3, <3>4
  <2> QED
    BY <2>2, <2>6, <2>7
<1> QED
  BY <1>1, Invariance, PTL
=============================================================================
