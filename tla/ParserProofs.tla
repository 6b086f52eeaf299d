------------------------------ MODULE ParserProofs ------------------------------
(***************************************************************************)
(* What the parser makes of every path of a payload, for all names and     *)
(* depths: the names of its members become the key, and its positions in   *)
(* lists the indices.                                                      *)
(***************************************************************************)
EXTENDS Parser, Integers, WellFoundedInduction, SequenceTheorems, TLAPS

-----------------------------------------------------------------------------
(* Induction on natural numbers, for sets of them.                          *)

LEMMA LessThan == \A x, y \in Nat : <<x, y>> \in OpToRel(<, Nat) <=> x < y
  BY DEF OpToRel

LEMMA LeastElement ==
  ASSUME NEW T, T \subseteq Nat, T # {}
  PROVE  \E m \in T : \A n \in T : m <= n
<1>1. \A R : IsWellFoundedOn(R, Nat) => \E x \in T : \A y \in T : ~(<<y, x>> \in R)
  BY WFMin
<1>2. PICK x \in T : \A y \in T : ~(<<y, x>> \in OpToRel(<, Nat))
  BY <1>1, NatLessThanWellFounded, Zenon
<1>3. \A y \in T : ~(y < x)
  BY <1>2, LessThan, Zenon
<1> QED
  BY <1>3

LEMMA Induction ==
  ASSUME NEW T, 0 \in T, \A n \in Nat : n \in T => n + 1 \in T
  PROVE  Nat \subseteq T
<1>1. SUFFICES ASSUME Nat \ T # {} PROVE FALSE
  OBVIOUS
<1>2. PICK m \in Nat \ T : \A n \in Nat \ T : m <= n
  BY <1>1, LeastElement
<1>3. m # 0 /\ m - 1 \in Nat
  BY <1>2
<1>4. m - 1 \in T
  BY <1>2, <1>3
<1> QED
  BY <1>2, <1>3, <1>4

-----------------------------------------------------------------------------
(* Sequences *)

LEMMA SameLength ==
  ASSUME NEW m \in Nat, NEW n \in Nat, 1..m = 1..n
  PROVE  m = n
<1>1. \A i \in Int : i \in 1..m <=> i \in 1..n
  OBVIOUS
<1> QED
  BY <1>1

LEMMA IsSequence ==
  ASSUME NEW S, NEW n \in Nat, NEW q \in [1..n -> S]
  PROVE  q \in Seq(S) /\ Len(q) = n /\ DOMAIN q = 1..n
<1>1. q \in Seq(S)
  BY SeqDef
<1>2. Len(q) \in Nat /\ 1..Len(q) = 1..n
  BY <1>1, LenProperties
<1> QED
  BY <1>1, <1>2, SameLength

LEMMA SequenceOf ==
  ASSUME NEW S, NEW q \in Seq(S)
  PROVE  \E n \in Nat : Len(q) = n /\ DOMAIN q = 1..n /\ q \in [1..n -> S]
<1>1. PICK n \in Nat : q \in [1..n -> S]
  BY SeqDef
<1> QED
  BY <1>1, IsSequence

(* p is q, followed by x. *)
Extends(p, S, n, q, x) ==
  /\ p \in [1..(n + 1) -> S] /\ p[n + 1] = x
  /\ \A i \in 1..n : p[i] = q[i]

LEMMA Appended ==
  ASSUME NEW S, NEW n \in Nat, NEW q \in [1..n -> S], NEW x \in S
  PROVE  Extends(Append(q, x), S, n, q, x)
<1>1. q \in Seq(S) /\ Len(q) = n
  BY IsSequence
<1>2. /\ Append(q, x) \in Seq(S) /\ Len(Append(q, x)) = n + 1 /\ Append(q, x)[n + 1] = x
      /\ \A i \in 1..n : Append(q, x)[i] = q[i]
  BY <1>1, AppendProperties
<1>3. PICK m \in Nat : Len(Append(q, x)) = m /\ Append(q, x) \in [1..m -> S]
  BY <1>2, SequenceOf
<1> QED
  BY <1>2, <1>3 DEF Extends

-----------------------------------------------------------------------------
(* At *)

(* What is kept of the first n elements of q.                               *)
KeptBy(g, n, q, I) ==
  g = [i \in 0..n |-> IF i = 0 THEN <<>>
                      ELSE IF i \in I THEN Append(g[i - 1], q[i]) ELSE g[i - 1]]

LEMMA KeptStep ==
  ASSUME NEW g, NEW n \in Nat, NEW q, NEW I, KeptBy(g, n, q, I), NEW i \in 0..n
  PROVE  g[i] = IF i = 0 THEN <<>>
                ELSE IF i \in I THEN Append(g[i - 1], q[i]) ELSE g[i - 1]
  BY Zenon DEF KeptBy

LEMMA KeptExists ==
  ASSUME NEW q, NEW I, NEW n \in Nat
  PROVE  \E g : KeptBy(g, n, q, I)
<1> DEFINE T == {k \in Nat : \E g : KeptBy(g, k, q, I)}
<1>1. 0 \in T
  <2> DEFINE g == [i \in 0..0 |-> <<>>]
  <2>1. KeptBy(g, 0, q, I)
    BY DEF KeptBy
  <2> QED
    BY <2>1
<1>2. ASSUME NEW k \in Nat, k \in T PROVE k + 1 \in T
  <2>1. PICK g : KeptBy(g, k, q, I)
    BY <1>2
  <2> DEFINE h == [i \in 0..(k + 1) |->
                     IF i <= k THEN g[i]
                     ELSE IF i \in I THEN Append(g[k], q[i]) ELSE g[k]]
  <2>2. ASSUME NEW i \in 0..(k + 1)
        PROVE  h[i] = IF i = 0 THEN <<>>
                      ELSE IF i \in I THEN Append(h[i - 1], q[i]) ELSE h[i - 1]
    <3>1. CASE i = 0
      BY <2>1, <3>1, KeptStep
    <3>2. CASE i \in 1..k
      <4>1. h[i] = g[i] /\ h[i - 1] = g[i - 1]
        BY <3>2
      <4>2. g[i] = IF i \in I THEN Append(g[i - 1], q[i]) ELSE g[i - 1]
        BY <2>1, <3>2, KeptStep
      <4> QED
        BY <3>2, <4>1, <4>2
    <3>3. CASE i = k + 1
      <4>1. h[i - 1] = g[k]
        BY <3>3
      <4> QED
        BY <3>3, <4>1
    <3> QED
      BY <3>1, <3>2, <3>3
  <2>3. DOMAIN h = 0..(k + 1) /\ h = [i \in 0..(k + 1) |-> h[i]]
    OBVIOUS
  <2> HIDE DEF h
  <2>4. KeptBy(h, k + 1, q, I)
    BY <2>2, <2>3 DEF KeptBy
  <2> QED
    BY <2>4
<1> HIDE DEF T
<1>3. n \in T
  BY <1>1, <1>2, Induction
<1> QED
  BY <1>3 DEF T

LEMMA AtIs ==
  ASSUME NEW S, NEW q \in Seq(S), NEW I
  PROVE  \E n, g : n \in Nat /\ Len(q) = n /\ KeptBy(g, n, q, I) /\ At(q, I) = g[n]
<1>1. PICK n \in Nat : Len(q) = n
  BY SequenceOf
<1>2. At(q, I) = (CHOOSE g : KeptBy(g, Len(q), q, I))[Len(q)]
  BY Zenon DEF At, KeptBy
<1> QED
  BY <1>1, <1>2, KeptExists

(* At of equal places of equal sequences.                                   *)
LEMMA KeptSame ==
  ASSUME NEW m \in Nat, NEW n \in Nat, m <= n, NEW p, NEW q, NEW I, NEW J, NEW g, NEW h,
         KeptBy(g, m, p, I), KeptBy(h, n, q, J),
         \A i \in 1..m : p[i] = q[i] /\ (i \in I <=> i \in J)
  PROVE  g[m] = h[m]
<1> DEFINE T == {k \in Nat : k <= m => g[k] = h[k]}
<1>1. 0 \in T
  BY KeptStep
<1>2. ASSUME NEW k \in Nat, k \in T PROVE k + 1 \in T
  <2>1. SUFFICES ASSUME k + 1 <= m PROVE g[k + 1] = h[k + 1]
    OBVIOUS
  <2>2. g[k] = h[k] /\ p[k + 1] = q[k + 1] /\ (k + 1 \in I <=> k + 1 \in J)
    BY <1>2, <2>1
  <2>3. k + 1 \in 0..m /\ k + 1 \in 0..n /\ k + 1 # 0 /\ (k + 1) - 1 = k
    BY <2>1
  <2>4. g[k + 1] = IF k + 1 \in I THEN Append(g[(k + 1) - 1], p[k + 1]) ELSE g[(k + 1) - 1]
    BY <2>3, KeptStep
  <2>5. h[k + 1] = IF k + 1 \in J THEN Append(h[(k + 1) - 1], q[k + 1]) ELSE h[(k + 1) - 1]
    BY <2>3, KeptStep
  <2> QED
    BY <2>2, <2>3, <2>4, <2>5
<1> HIDE DEF T
<1>3. m \in T
  BY <1>1, <1>2, Induction
<1> QED
  BY <1>3 DEF T

LEMMA AtEmpty ==
  ASSUME NEW I
  PROVE  At(<<>>, I) = <<>>
<1>1. <<>> \in Seq({}) /\ Len(<<>>) = 0
  BY EmptySeq
<1>2. PICK n, g : n \in Nat /\ Len(<<>>) = n /\ KeptBy(g, n, <<>>, I) /\ At(<<>>, I) = g[n]
  BY <1>1, AtIs
<1> QED
  BY <1>1, <1>2, KeptStep

(* One element more.                                                        *)
LEMMA AtAppend ==
  ASSUME NEW S, NEW n \in Nat, NEW q \in [1..n -> S], NEW x \in S, NEW I, NEW J,
         \A i \in 1..n : i \in I <=> i \in J
  PROVE  At(Append(q, x), J) = IF n + 1 \in J THEN Append(At(q, I), x) ELSE At(q, I)
<1>1. q \in Seq(S) /\ Len(q) = n
  BY IsSequence
<1>2. PICK p : p = Append(q, x)
  OBVIOUS
<1>3. Extends(p, S, n, q, x)
  BY <1>2, Appended, Zenon
<1>4. p \in [1..(n + 1) -> S] /\ p[n + 1] = x /\ \A i \in 1..n : p[i] = q[i]
  BY <1>3 DEF Extends
<1>5. p \in Seq(S) /\ Len(p) = n + 1
  BY <1>4, IsSequence
<1>6. PICK g : KeptBy(g, n, q, I) /\ At(q, I) = g[n]
  BY <1>1, AtIs
<1>7. PICK h : KeptBy(h, n + 1, p, J) /\ At(p, J) = h[n + 1]
  BY <1>5, AtIs
<1>8. g[n] = h[n]
  BY <1>4, <1>6, <1>7, KeptSame
<1>9. n + 1 \in 0..(n + 1) /\ n + 1 # 0 /\ (n + 1) - 1 = n
  OBVIOUS
<1>10. h[n + 1] = IF n + 1 \in J THEN Append(h[(n + 1) - 1], p[n + 1]) ELSE h[(n + 1) - 1]
  BY <1>7, <1>9, KeptStep
<1> QED
  BY <1>2, <1>4, <1>6, <1>7, <1>8, <1>9, <1>10

(* All elements.                                                            *)
LEMMA AtAll ==
  ASSUME NEW S, NEW n \in Nat, NEW q \in [1..n -> S], NEW I, 1..n \subseteq I
  PROVE  At(q, I) = q
<1>1. q \in Seq(S) /\ Len(q) = n
  BY IsSequence
<1>2. PICK g : KeptBy(g, n, q, I) /\ At(q, I) = g[n]
  BY <1>1, AtIs
<1> DEFINE T == {k \in Nat : k <= n => g[k] \in [1..k -> S] /\ \A i \in 1..k : g[k][i] = q[i]}
<1>3. 0 \in T
  <2>1. g[0] = <<>>
    BY <1>2, KeptStep
  <2>2. g[0] \in [1..0 -> S]
    BY <2>1
  <2> QED
    BY <2>2
<1>4. ASSUME NEW k \in Nat, k \in T PROVE k + 1 \in T
  <2>1. SUFFICES ASSUME k + 1 <= n
                 PROVE  g[k + 1] \in [1..(k + 1) -> S] /\ \A i \in 1..(k + 1) : g[k + 1][i] = q[i]
    OBVIOUS
  <2>2. g[k] \in [1..k -> S] /\ \A i \in 1..k : g[k][i] = q[i]
    BY <1>4, <2>1
  <2> HIDE DEF T
  <2>3. k + 1 \in 0..n /\ k + 1 # 0 /\ (k + 1) - 1 = k /\ k + 1 \in I
    BY <2>1
  <2>4. g[k + 1] = IF k + 1 \in I THEN Append(g[(k + 1) - 1], q[k + 1]) ELSE g[(k + 1) - 1]
    <3>1. PICK j \in 0..n : j = k + 1
      BY <2>3
    <3>2. KeptBy(g, n, q, I)
      BY <1>2
    <3>3. g[j] = IF j = 0 THEN <<>> ELSE IF j \in I THEN Append(g[j - 1], q[j]) ELSE g[j - 1]
      BY <3>2, KeptStep
    <3> QED
      BY <2>3, <3>1, <3>3
  <2>5. PICK x, p : x \in S /\ x = q[k + 1] /\ p = g[k]
    BY <2>1
  <2>6. g[k + 1] = Append(p, x) /\ p \in [1..k -> S]
    BY <2>2, <2>3, <2>4, <2>5
  <2>7. Extends(g[k + 1], S, k, p, x)
    <3>1. Extends(Append(p, x), S, k, p, x)
      BY <2>5, <2>6, Appended, Zenon
    <3> QED
      BY <2>6, <3>1
  <2>8. /\ g[k + 1] \in [1..(k + 1) -> S] /\ g[k + 1][k + 1] = x
        /\ \A i \in 1..k : g[k + 1][i] = p[i]
    BY <2>7 DEF Extends
  <2>9. \A i \in 1..(k + 1) : i \in 1..k \/ i = k + 1
    OBVIOUS
  <2> QED
    BY <2>2, <2>5, <2>8, <2>9
<1> HIDE DEF T
<1>5. n \in T
  BY <1>3, <1>4, Induction
<1>6. g[n] \in [1..n -> S] /\ \A i \in 1..n : g[n][i] = q[i]
  BY <1>5 DEF T
<1> QED
  BY <1>2, <1>6

-----------------------------------------------------------------------------
(* Flatten *)

(* What becomes of the prefix f with one step more.                         *)
Further(f, s) == IF f = <<>> /\ s.of = "object" THEN s.name ELSE f \o <<"_">> \o s.name

(* What is made of the first n steps of p.                                  *)
FlattenedBy(f, n, p) ==
  f = [k \in 0..n |-> IF k = 0 THEN <<>> ELSE Further(f[k - 1], p[k])]

LEMMA FlattenedStep ==
  ASSUME NEW f, NEW n \in Nat, NEW p, FlattenedBy(f, n, p), NEW k \in 0..n
  PROVE  f[k] = IF k = 0 THEN <<>> ELSE Further(f[k - 1], p[k])
  BY Zenon DEF FlattenedBy

LEMMA FlattenedExists ==
  ASSUME NEW p, NEW n \in Nat
  PROVE  \E f : FlattenedBy(f, n, p)
<1> DEFINE T == {k \in Nat : \E f : FlattenedBy(f, k, p)}
<1>1. 0 \in T
  <2> DEFINE f == [i \in 0..0 |-> <<>>]
  <2>1. FlattenedBy(f, 0, p)
    BY DEF FlattenedBy
  <2> QED
    BY <2>1
<1>2. ASSUME NEW k \in Nat, k \in T PROVE k + 1 \in T
  <2>1. PICK f : FlattenedBy(f, k, p)
    BY <1>2
  <2> DEFINE h == [i \in 0..(k + 1) |-> IF i <= k THEN f[i] ELSE Further(f[k], p[i])]
  <2>2. ASSUME NEW i \in 0..(k + 1)
        PROVE  h[i] = IF i = 0 THEN <<>> ELSE Further(h[i - 1], p[i])
    <3>1. CASE i = 0
      BY <2>1, <3>1, FlattenedStep
    <3>2. CASE i \in 1..k
      <4>1. h[i] = f[i] /\ h[i - 1] = f[i - 1]
        BY <3>2
      <4>2. f[i] = Further(f[i - 1], p[i])
        BY <2>1, <3>2, FlattenedStep
      <4> QED
        BY <3>2, <4>1, <4>2
    <3>3. CASE i = k + 1
      <4>1. h[i - 1] = f[k]
        BY <3>3
      <4> QED
        BY <3>3, <4>1
    <3> QED
      BY <3>1, <3>2, <3>3
  <2>3. DOMAIN h = 0..(k + 1) /\ h = [i \in 0..(k + 1) |-> h[i]]
    OBVIOUS
  <2> HIDE DEF h
  <2>4. FlattenedBy(h, k + 1, p)
    BY <2>2, <2>3 DEF FlattenedBy
  <2> QED
    BY <2>4
<1> HIDE DEF T
<1>3. n \in T
  BY <1>1, <1>2, Induction
<1> QED
  BY <1>3 DEF T

LEMMA FlattenIs ==
  ASSUME NEW S, NEW p \in Seq(S)
  PROVE  \E n, f : n \in Nat /\ Len(p) = n /\ FlattenedBy(f, n, p) /\ Flatten(p) = f[n]
<1>1. PICK n \in Nat : Len(p) = n
  BY SequenceOf
<1>2. Flatten(p) = (CHOOSE f : FlattenedBy(f, Len(p), p))[Len(p)]
  BY Zenon DEF Flatten, FlattenedBy, Further
<1> QED
  BY <1>1, <1>2, FlattenedExists

LEMMA FlattenedSame ==
  ASSUME NEW m \in Nat, NEW n \in Nat, m <= n, NEW p, NEW q, NEW f, NEW h,
         FlattenedBy(f, m, p), FlattenedBy(h, n, q), \A i \in 1..m : p[i] = q[i]
  PROVE  f[m] = h[m]
<1> DEFINE T == {k \in Nat : k <= m => f[k] = h[k]}
<1>1. 0 \in T
  BY FlattenedStep
<1>2. ASSUME NEW k \in Nat, k \in T PROVE k + 1 \in T
  <2>1. SUFFICES ASSUME k + 1 <= m PROVE f[k + 1] = h[k + 1]
    OBVIOUS
  <2>2. f[k] = h[k] /\ p[k + 1] = q[k + 1]
    BY <1>2, <2>1
  <2>3. k + 1 \in 0..m /\ k + 1 \in 0..n /\ k + 1 # 0 /\ (k + 1) - 1 = k
    BY <2>1
  <2>4. f[k + 1] = Further(f[(k + 1) - 1], p[k + 1])
    BY <2>3, FlattenedStep
  <2>5. h[k + 1] = Further(h[(k + 1) - 1], q[k + 1])
    BY <2>3, FlattenedStep
  <2> QED
    BY <2>2, <2>3, <2>4, <2>5
<1> HIDE DEF T
<1>3. m \in T
  BY <1>1, <1>2, Induction
<1> QED
  BY <1>3 DEF T

LEMMA FlattenEmpty == Flatten(<<>>) = <<>>
<1>1. <<>> \in Seq({}) /\ Len(<<>>) = 0
  BY EmptySeq
<1>2. PICK n, f : n \in Nat /\ Len(<<>>) = n /\ FlattenedBy(f, n, <<>>) /\ Flatten(<<>>) = f[n]
  BY <1>1, FlattenIs
<1> QED
  BY <1>1, <1>2, FlattenedStep

(* One step further.                                                        *)
LEMMA FlattenAppend ==
  ASSUME NEW S, NEW n \in Nat, NEW p \in [1..n -> S], NEW s \in S
  PROVE  Flatten(Append(p, s)) = Further(Flatten(p), s)
<1>1. p \in Seq(S) /\ Len(p) = n
  BY IsSequence
<1>2. PICK q : q = Append(p, s)
  OBVIOUS
<1>3. Extends(q, S, n, p, s)
  BY <1>2, Appended, Zenon
<1>4. q \in [1..(n + 1) -> S] /\ q[n + 1] = s /\ \A i \in 1..n : q[i] = p[i]
  BY <1>3 DEF Extends
<1>5. q \in Seq(S) /\ Len(q) = n + 1
  BY <1>4, IsSequence
<1>6. PICK f : FlattenedBy(f, n, p) /\ Flatten(p) = f[n]
  BY <1>1, FlattenIs
<1>7. PICK h : FlattenedBy(h, n + 1, q) /\ Flatten(q) = h[n + 1]
  BY <1>5, FlattenIs
<1>8. f[n] = h[n]
  BY <1>4, <1>6, <1>7, FlattenedSame
<1>9. n + 1 \in 0..(n + 1) /\ n + 1 # 0 /\ (n + 1) - 1 = n
  OBVIOUS
<1>10. h[n + 1] = Further(h[(n + 1) - 1], q[n + 1])
  BY <1>7, <1>9, FlattenedStep
<1> QED
  BY <1>2, <1>4, <1>6, <1>7, <1>8, <1>9, <1>10

-----------------------------------------------------------------------------
(* Matches *)

Match == [start : Nat, next : Nat]

LEMMA IsMatch ==
  ASSUME NEW e \in Nat, NEW next \in Nat
  PROVE  \E f \in Match : f = [start |-> e + 1, next |-> next] /\ f.start = e + 1 /\ f.next = next
<1>1. [start |-> e + 1, next |-> next] \in Match
  BY DEF Match
<1> QED
  BY <1>1

(* A match starts at i of a key of n tokens, and ends before ...            *)
Starts(key, i) == key[i] = "_" /\ key[i + 1] \in Numerals
EndOf(key, n, i) == IF i + 2 <= n /\ key[i + 2] = "_" THEN i + 3 ELSE i + 2

(* g is what Matches computes, for every place it may start at.             *)
FoundBy(g, n, key) ==
  g = [i \in Nat |->
         IF i >= n THEN <<>>
         ELSE IF Starts(key, i)
           THEN <<[start |-> i, next |-> EndOf(key, n, i)]>> \o g[EndOf(key, n, i)]
           ELSE g[i + 1]]

(* The same for the place i.                                                *)
FoundAt(g, n, key, i) ==
  g[i] = IF i >= n THEN <<>>
         ELSE IF Starts(key, i)
           THEN <<[start |-> i, next |-> EndOf(key, n, i)]>> \o g[EndOf(key, n, i)]
           ELSE g[i + 1]

Found(g, n, key) == \A i \in Nat : FoundAt(g, n, key, i)

LEMMA EndIs ==
  ASSUME NEW key, NEW n \in Nat, NEW i \in Nat
  PROVE  EndOf(key, n, i) \in Nat /\ EndOf(key, n, i) > i /\ EndOf(key, n, i) # i
<1>1. EndOf(key, n, i) = i + 2 \/ EndOf(key, n, i) = i + 3
  BY Zenon DEF EndOf
<1> QED
  BY <1>1

LEMMA FoundStep ==
  ASSUME NEW g, NEW n \in Nat, NEW key, Found(g, n, key), NEW i \in Nat
  PROVE  /\ i >= n => g[i] = <<>>
         /\ i < n /\ Starts(key, i) =>
              g[i] = <<[start |-> i, next |-> EndOf(key, n, i)]>> \o g[EndOf(key, n, i)]
         /\ i < n /\ ~Starts(key, i) => g[i] = g[i + 1]
<1>1. FoundAt(g, n, key, i)
  BY DEF Found
<1>2. i < n <=> ~(i >= n)
  OBVIOUS
<1> QED
  BY <1>1, <1>2, Zenon DEF FoundAt

(* The first match from i starts at i.                                      *)
FirstMatch(g, n, key, i) ==
  g[i] = <<[start |-> i, next |-> EndOf(key, n, i)]>> \o g[EndOf(key, n, i)]

LEMMA FoundMatch ==
  ASSUME NEW g, NEW n \in Nat, NEW key, Found(g, n, key), NEW i \in Nat, i < n,
         Starts(key, i)
  PROVE  FirstMatch(g, n, key, i)
  BY FoundStep DEF FirstMatch

LEMMA FoundExists ==
  ASSUME NEW n \in Nat, NEW key
  PROVE  \E g : FoundBy(g, n, key)
<1> DEFINE From(g, k) == /\ g = [i \in Nat |-> g[i]]
                         /\ \A i \in Nat : i + k >= n => FoundAt(g, n, key, i)
           T == {k \in Nat : \E g : From(g, k)}
<1>1. 0 \in T
  <2> DEFINE g == [i \in Nat |-> <<>>]
  <2>1. g = [i \in Nat |-> g[i]]
    OBVIOUS
  <2>2. ASSUME NEW i \in Nat, i + 0 >= n PROVE FoundAt(g, n, key, i)
    BY <2>2 DEF FoundAt
  <2> HIDE DEF g
  <2>3. From(g, 0)
    BY <2>1, <2>2
  <2> QED
    BY <2>3
<1>2. ASSUME NEW k \in Nat, k \in T PROVE k + 1 \in T
  <2>1. PICK g : From(g, k)
    BY <1>2
  <2>2. CASE k >= n
    <3>1. From(g, k + 1)
      BY <2>1, <2>2
    <3> QED
      BY <3>1
  <2>3. CASE k < n
    <3> DEFINE d == n - (k + 1)
               next == EndOf(key, n, d)
               new == IF Starts(key, d) THEN <<[start |-> d, next |-> next]>> \o g[next]
                      ELSE g[d + 1]
               h == [i \in Nat |-> IF i = d THEN new ELSE g[i]]
    <3>1. d \in Nat /\ d < n /\ next \in Nat /\ next > d
      BY <2>3, EndIs
    <3>2. /\ h[d] = new /\ h[next] = g[next] /\ h[d + 1] = g[d + 1]
          /\ \A i \in Nat : i # d => h[i] = g[i]
      BY <3>1
    <3>3. h = [i \in Nat |-> h[i]]
      OBVIOUS
    <3> HIDE DEF h
    <3>4. FoundAt(h, n, key, d)
      BY <3>1, <3>2 DEF FoundAt
    <3> HIDE DEF next, new
    <3>5. ASSUME NEW i \in Nat, i + (k + 1) >= n PROVE FoundAt(h, n, key, i)
      <4>1. CASE i = d
        BY <3>4, <4>1
      <4>2. CASE i # d
        <5>1. i > d /\ FoundAt(g, n, key, i)
          BY <2>1, <3>1, <3>5, <4>2
        <5>2. EndOf(key, n, i) \in Nat /\ EndOf(key, n, i) # d /\ i + 1 # d
          BY <3>1, <5>1, EndIs
        <5>3. h[i] = g[i] /\ h[EndOf(key, n, i)] = g[EndOf(key, n, i)] /\ h[i + 1] = g[i + 1]
          BY <3>2, <4>2, <5>2
        <5> QED
          BY <5>1, <5>3 DEF FoundAt
      <4> QED
        BY <4>1, <4>2
    <3>6. From(h, k + 1)
      BY <3>3, <3>5
    <3> QED
      BY <3>6
  <2> QED
    BY <2>2, <2>3
<1> HIDE DEF T
<1>3. n \in T
  BY <1>1, <1>2, Induction
<1>4. PICK g : From(g, n)
  BY <1>3 DEF T
<1>5. \A i \in Nat : FoundAt(g, n, key, i)
  BY <1>4
<1>6. FoundBy(g, n, key)
  BY <1>4, <1>5, Zenon DEF FoundBy, FoundAt
<1> QED
  BY <1>6

LEMMA MatchesIs ==
  ASSUME NEW S, NEW n \in Nat, NEW key \in [1..n -> S]
  PROVE  \E g : Found(g, n, key) /\ Matches(key) = g[1]
<1>1. Len(key) = n
  BY IsSequence
<1>2. Matches(key) = (CHOOSE g : FoundBy(g, Len(key), key))[1]
  BY Zenon DEF Matches, FoundBy, Starts, EndOf
<1>3. PICK g : FoundBy(g, n, key) /\ Matches(key) = g[1]
  BY <1>1, <1>2, FoundExists
<1>4. Found(g, n, key)
  BY <1>3, Zenon DEF Found, FoundBy, FoundAt
<1> QED
  BY <1>3, <1>4

LEMMA FoundType ==
  ASSUME NEW n \in Nat, NEW key, NEW g, Found(g, n, key)
  PROVE  \A i \in Nat : g[i] \in Seq(Match)
<1> DEFINE T == {k \in Nat : \A i \in Nat : i + k >= n => g[i] \in Seq(Match)}
<1>1. \A i \in Nat : i >= n => g[i] \in Seq(Match)
  BY FoundStep, EmptySeq
<1>2. 0 \in T
  BY <1>1
<1>3. ASSUME NEW k \in Nat, k \in T PROVE k + 1 \in T
  <2>1. SUFFICES ASSUME NEW i \in Nat, i + (k + 1) >= n, i < n PROVE g[i] \in Seq(Match)
    BY <1>1
  <2>2. PICK e \in Nat : e = EndOf(key, n, i) /\ e > i
    BY EndIs
  <2>3. g[e] \in Seq(Match) /\ g[i + 1] \in Seq(Match)
    BY <1>3, <2>1, <2>2
  <2> HIDE DEF T
  <2>4. PICK m \in Match : m = [start |-> i, next |-> e]
    BY DEF Match
  <2>5. g[i] = <<m>> \o g[e] \/ g[i] = g[i + 1]
    BY <2>1, <2>2, <2>4, FoundStep
  <2>6. <<m>> \o g[e] \in Seq(Match)
    BY <2>3, ConcatProperties
  <2> QED
    BY <2>3, <2>5, <2>6
<1> HIDE DEF T
<1>4. n \in T
  BY <1>2, <1>3, Induction
<1> QED
  BY <1>4 DEF T

(* No match starts from i to before j.                                      *)
NoneFrom(key, i, j) == \A x \in Nat : i <= x /\ x < j => ~Starts(key, x)

(* Where no match starts, the next place is looked at.                      *)
LEMMA Skipped ==
  ASSUME NEW n \in Nat, NEW key, NEW g, Found(g, n, key),
         NEW i \in Nat, NEW j \in Nat, i <= j, NoneFrom(key, i, j)
  PROVE  g[i] = g[j]
<1> DEFINE T == {k \in Nat : i + k <= j => g[i + k] = g[i]}
<1>0. \A y \in Nat : (y >= n => g[y] = <<>>) /\ (y < n /\ ~Starts(key, y) => g[y] = g[y + 1])
  BY FoundStep, Zenon
<1>1. 0 \in T
  OBVIOUS
<1>2. ASSUME NEW k \in Nat, k \in T PROVE k + 1 \in T
  <2>1. SUFFICES ASSUME i + (k + 1) <= j PROVE g[i + (k + 1)] = g[i]
    OBVIOUS
  <2>2. g[i + k] = g[i]
    BY <1>2, <2>1
  <2>3. PICK x \in Nat : x = i + k /\ x + 1 = i + (k + 1) /\ i <= x /\ x < j /\ x + 1 \in Nat
    BY <2>1
  <2> HIDE DEF T
  <2>4. g[x] = g[x + 1]
    <3>1. CASE x < n
      <4>1. ~Starts(key, x)
        BY <2>3, Zenon DEF NoneFrom
      <4> QED
        BY <1>0, <2>3, <3>1, <4>1
    <3>2. CASE x >= n
      <4>1. x + 1 >= n
        BY <3>2
      <4> QED
        BY <1>0, <2>3, <3>2, <4>1
    <3> QED
      BY <3>1, <3>2
  <2> QED
    BY <2>2, <2>3, <2>4
<1>3. j - i \in Nat /\ i + (j - i) = j
  OBVIOUS
<1> HIDE DEF T
<1>4. j - i \in T
  BY <1>1, <1>2, <1>3, Induction
<1> QED
  BY <1>3, <1>4 DEF T

-----------------------------------------------------------------------------
(* Where the steps of a path are in its key *)

Tokens == STRING \cup Numerals \cup {"_"}

(* c is a, of m elements, followed by b, of n elements.                     *)
Joins(c, S, m, a, n, b) ==
  /\ c \in [1..(m + n) -> S]
  /\ \A i \in 1..m : c[i] = a[i]
  /\ \A i \in 1..n : c[m + i] = b[i]

LEMMA Concatenated ==
  ASSUME NEW S, NEW m \in Nat, NEW a \in [1..m -> S], NEW n \in Nat, NEW b \in [1..n -> S]
  PROVE  Joins(a \o b, S, m, a, n, b)
<1>1. a \in Seq(S) /\ Len(a) = m /\ b \in Seq(S) /\ Len(b) = n
  BY IsSequence
<1>2. PICK c : c = a \o b
  OBVIOUS
<1>3. /\ c \in Seq(S) /\ Len(c) = m + n
      /\ \A i \in 1 .. m + n : c[i] = IF i <= m THEN a[i] ELSE b[i - m]
  BY <1>1, <1>2, ConcatProperties
<1>4. PICK k \in Nat : Len(c) = k /\ c \in [1..k -> S]
  BY <1>3, SequenceOf
<1>5. \A i \in 1..m : i \in 1 .. m + n /\ i <= m
  OBVIOUS
<1>6. \A i \in 1..n : m + i \in 1 .. m + n /\ ~(m + i <= m) /\ (m + i) - m = i
  OBVIOUS
<1>7. \A i \in 1..m : c[i] = a[i]
  BY <1>3, <1>5
<1>8. ASSUME NEW i \in 1..n PROVE c[m + i] = b[i]
  <2>1. PICK j : j = m + i
    OBVIOUS
  <2>2. c[j] = b[j - m]
    BY <1>3, <1>6, <2>1
  <2> QED
    BY <1>6, <2>1, <2>2
<1> QED
  BY <1>2, <1>3, <1>4, <1>7, <1>8 DEF Joins

LEMMA StepType ==
  ASSUME NEW s \in Steps
  PROVE  /\ s.of \in {"object", "list"} /\ s.name \in Seq(Tokens)
         /\ s.of = "object" => s.name \in Names
         /\ s.of = "list" => \E i \in Numerals : s.name = <<i>>
<1>1. CASE \E n \in Names : s = Member(n)
  <2>1. PICK n \in Names : s = Member(n)
    BY <1>1
  <2>2. n \in Seq(STRING) /\ STRING \subseteq Tokens
    BY ParserAssumption DEF Tokens
  <2>3. n \in Seq(Tokens)
    BY <2>2, SeqMonotonic
  <2> QED
    BY <2>1, <2>3 DEF Member
<1>2. CASE \E i \in Numerals : s = Element(i)
  <2>1. PICK i \in Numerals : s = Element(i)
    BY <1>2
  <2>2. i \in Tokens
    BY DEF Tokens
  <2>3. <<i>> \in Seq(Tokens)
    BY <2>2
  <2> QED
    BY <2>1, <2>3 DEF Element
<1> QED
  BY <1>1, <1>2 DEF Steps

(* Where a path's j-th name begins in its key, when the others end at end.  *)
BeginOf(end, j) == IF j = 1 THEN 0 ELSE end[j - 1] + 1

Ends(n, k, p, end) ==
  /\ end \in [0..k -> Nat] /\ end[0] = 0 /\ end[k] = n
  /\ \A j \in 1..k : end[j] = BeginOf(end, j) + Len(p[j].name)

(* The j-th name is in the key, behind an underscore.                       *)
Named(key, p, end, j) ==
  /\ j > 1 => key[end[j - 1] + 1] = "_"
  /\ \A x \in DOMAIN p[j].name : key[BeginOf(end, j) + x] = p[j].name[x]

Laid(key, n, k, p, end) ==
  /\ Ends(n, k, p, end) /\ key \in [1..n -> Tokens]
  /\ \A j \in 1..k : Named(key, p, end, j)

(* A path begins with a member that has a name.                             *)
Begun(k, p) == k # 0 => p[1].of = "object" /\ p[1].name # <<>>

LEMMA EndsGrow ==
  ASSUME NEW k \in Nat, NEW p \in [1..k -> Steps], NEW n \in Nat, NEW end, Ends(n, k, p, end),
         Begun(k, p)
  PROVE  \A i \in 0..k : \A j \in 0..k : i < j => end[i] < end[j]
<1>1. \A j \in 1..k : end[j] = BeginOf(end, j) + Len(p[j].name) /\ end[j] \in Nat /\ end[j - 1] \in Nat
  BY DEF Ends
<1>2. \A j \in 1..k : end[j - 1] < end[j]
  <2>1. SUFFICES ASSUME NEW j \in 1..k PROVE end[j - 1] < end[j]
    OBVIOUS
  <2>2. p[j].name \in Seq(Tokens)
    BY StepType
  <2>3. PICK l \in Nat : Len(p[j].name) = l
    BY <2>2, SequenceOf
  <2>4. CASE j = 1
    <3>1. l # 0
      BY <2>2, <2>3, <2>4, EmptySeq DEF Begun
    <3>2. end[0] = 0 /\ j - 1 = 0
      BY <2>4 DEF Ends
    <3>3. end[j] = 0 + l
      BY <1>1, <2>3, <2>4 DEF BeginOf
    <3> QED
      BY <3>1, <3>2, <3>3
  <2>5. CASE j # 1
    BY <1>1, <2>3, <2>5 DEF BeginOf
  <2> QED
    BY <2>4, <2>5
<1> DEFINE T == {j \in Nat : j <= k => \A i \in 0..k : i < j => end[i] < end[j]}
<1>3. 0 \in T
  OBVIOUS
<1>4. ASSUME NEW j \in Nat, j \in T PROVE j + 1 \in T
  <2>1. SUFFICES ASSUME j + 1 <= k, NEW i \in 0..k, i < j + 1 PROVE end[i] < end[j + 1]
    OBVIOUS
  <2>2. i < j => end[i] < end[j]
    BY <1>4, <2>1
  <2> HIDE DEF T
  <2>3. j + 1 \in 1..k /\ (j + 1) - 1 = j
    BY <2>1
  <2>4. end[j] < end[j + 1]
    BY <1>2, <2>3
  <2>5. end[i] \in Nat /\ end[j] \in Nat /\ end[j + 1] \in Nat
    BY <2>1 DEF Ends
  <2>6. i < j \/ i = j
    BY <2>1
  <2> QED
    BY <2>2, <2>4, <2>5, <2>6
<1> HIDE DEF T
<1>5. \A j \in Nat : j \in T
  BY <1>3, <1>4, Induction
<1> QED
  BY <1>5 DEF T

(* A path with a last step.                                                 *)
LEMMA LastStep ==
  ASSUME NEW S, NEW k \in Nat, NEW p \in [1..(k + 1) -> S]
  PROVE  \E q, s : /\ q \in [1..k -> S] /\ s \in S /\ p = Append(q, s)
                   /\ p[k + 1] = s /\ \A i \in 1..k : p[i] = q[i]
<1> DEFINE q == [i \in 1..k |-> p[i]]
<1>1. q \in [1..k -> S] /\ \A i \in 1..k : p[i] = q[i]
  OBVIOUS
<1>2. PICK s \in S : s = p[k + 1]
  OBVIOUS
<1> HIDE DEF q
<1>3. PICK r : r = Append(q, s)
  OBVIOUS
<1>4. Extends(r, S, k, q, s)
  BY <1>1, <1>3, Appended, Zenon
<1>5. r \in [1..(k + 1) -> S] /\ r[k + 1] = s /\ \A i \in 1..k : r[i] = q[i]
  BY <1>4 DEF Extends
<1>6. \A i \in 1..(k + 1) : i \in 1..k \/ i = k + 1
  OBVIOUS
<1>7. r = p
  BY <1>1, <1>2, <1>5, <1>6
<1> QED
  BY <1>1, <1>2, <1>3, <1>7

LEMMA OneToken == <<"_">> \in [1..1 -> Tokens] /\ <<"_">>[1] = "_" /\ \A i \in 1..1 : <<"_">>[i] = "_"
<1>1. PICK u \in Tokens : u = "_"
  BY DEF Tokens
<1>2. <<u>> \in [1..1 -> Tokens] /\ <<u>>[1] = u /\ \A i \in 1..1 : <<u>>[i] = u
  OBVIOUS
<1> QED
  BY <1>1, <1>2

(* c is f, of n tokens, an underscore, and the name, of l tokens.           *)
Linked(c, n, f, l, name) ==
  /\ c \in [1..(n + 1 + l) -> Tokens] /\ c[n + 1] = "_"
  /\ \A i \in 1..n : c[i] = f[i]
  /\ \A i \in 1..l : c[n + 1 + i] = name[i]

LEMMA FurtherIs ==
  ASSUME NEW n \in Nat, n # 0, NEW f \in [1..n -> Tokens], NEW s,
         NEW l \in Nat, NEW name \in [1..l -> Tokens], name = s.name
  PROVE  Linked(Further(f, s), n, f, l, name)
<1>1. f # <<>>
  <2>1. Len(f) = n /\ f \in Seq(Tokens)
    BY IsSequence
  <2> QED
    BY <2>1, EmptySeq
<1>2. Further(f, s) = (f \o <<"_">>) \o name
  BY <1>1, Zenon DEF Further
<1>3. PICK d : Joins(d, Tokens, n, f, 1, <<"_">>) /\ d = f \o <<"_">>
  BY OneToken, Concatenated, Zenon
<1>4. /\ d \in [1..(n + 1) -> Tokens] /\ d[n + 1] = "_" /\ \A i \in 1..n : d[i] = f[i]
  <2>1. /\ d \in [1..(n + 1) -> Tokens] /\ (\A i \in 1..n : d[i] = f[i])
        /\ \A i \in 1..1 : d[n + i] = <<"_">>[i]
    BY <1>3, Zenon DEF Joins
  <2>2. 1 \in 1..1
    OBVIOUS
  <2>3. d[n + 1] = <<"_">>[1]
    BY <2>1, <2>2, Zenon
  <2> QED
    BY <2>1, <2>3, OneToken, Zenon
<1>5. PICK N \in Nat : N = n + 1
  OBVIOUS
<1>6. PICK c : Joins(c, Tokens, N, d, l, name) /\ c = d \o name
  BY <1>4, <1>5, Concatenated, Zenon
<1>7. /\ c \in [1..(N + l) -> Tokens] /\ (\A i \in 1..N : c[i] = d[i])
      /\ \A i \in 1..l : c[N + i] = name[i]
  BY <1>6, Zenon DEF Joins
<1>8. c[n + 1] = "_" /\ \A i \in 1..n : c[i] = f[i]
  <2>1. N \in 1..N /\ \A i \in 1..n : i \in 1..N
    BY <1>5
  <2>2. c[N] = d[N] /\ d[N] = "_"
    BY <1>4, <1>5, <1>7, <2>1, Zenon
  <2> QED
    BY <1>4, <1>5, <1>7, <2>1, <2>2, Zenon
<1>9. Further(f, s) = c
  BY <1>2, <1>3, <1>6, Zenon
<1> QED
  BY <1>5, <1>7, <1>8, <1>9, Zenon DEF Linked

(* A name more.                                                             *)
LEMMA LaidFurther ==
  ASSUME NEW k \in Nat, k # 0, NEW q \in [1..k -> Steps], NEW s \in Steps,
         NEW p \in [1..(k + 1) -> Steps], p[k + 1] = s, \A i \in 1..k : p[i] = q[i],
         Begun(k, q), NEW n \in Nat, NEW f, NEW end, Laid(f, n, k, q, end)
  PROVE  \E m \in Nat : \E e : Laid(Further(f, s), m, k + 1, p, e)
<1>1. s.name \in Seq(Tokens)
  BY StepType
<1>2. PICK l \in Nat : /\ Len(s.name) = l /\ DOMAIN s.name = 1..l /\ s.name \in [1..l -> Tokens]
  BY <1>1, SequenceOf
<1>0. PICK name \in [1..l -> Tokens] : name = s.name
  BY <1>2
<1>3. f \in [1..n -> Tokens] /\ Ends(n, k, q, end) /\ \A j \in 1..k : Named(f, q, end, j)
  BY DEF Laid
<1>4. end \in [0..k -> Nat] /\ end[0] = 0 /\ end[k] = n
      /\ \A j \in 1..k : end[j] = BeginOf(end, j) + Len(q[j].name)
  BY <1>3 DEF Ends
<1>5. \A i \in 0..k : \A j \in 0..k : i < j => end[i] < end[j]
  BY <1>3, EndsGrow
<1>6. n # 0
  BY <1>4, <1>5
<1>11. PICK N \in Nat : N = n + 1
  OBVIOUS
<1>12. PICK c : c = Further(f, s) /\ Linked(c, n, f, l, name)
  BY <1>0, <1>3, <1>6, FurtherIs, Zenon
<1>13. c \in [1..(N + l) -> Tokens] /\ \A i \in 1..l : c[N + i] = name[i]
  BY <1>11, <1>12, Zenon DEF Linked
<1>14. c[n + 1] = "_" /\ \A i \in 1..n : c[i] = f[i]
  BY <1>12, Zenon DEF Linked
<1> DEFINE e == [j \in 0..(k + 1) |-> IF j <= k THEN end[j] ELSE N + l]
<1>15. e \in [0..(k + 1) -> Nat] /\ e[k + 1] = N + l /\ \A j \in 0..k : e[j] = end[j]
  BY <1>4
<1> HIDE DEF e
<1>16. \A j \in 1..k : BeginOf(e, j) = BeginOf(end, j) /\ j - 1 \in 0..k
  BY <1>15 DEF BeginOf
<1>17. BeginOf(e, k + 1) = N
  BY <1>4, <1>11, <1>15 DEF BeginOf
<1>18. \A j \in 1..(k + 1) : j \in 1..k \/ j = k + 1
  OBVIOUS
<1>19. Ends(N + l, k + 1, p, e)
  <2>1. ASSUME NEW j \in 1..(k + 1) PROVE e[j] = BeginOf(e, j) + Len(p[j].name)
    <3>1. CASE j \in 1..k
      BY <1>4, <1>15, <1>16, <3>1
    <3>2. CASE j = k + 1
      BY <1>2, <1>15, <1>17, <3>2
    <3> QED
      BY <1>18, <3>1, <3>2
  <2> QED
    BY <1>4, <1>15, <2>1 DEF Ends
<1>20. ASSUME NEW j \in 1..(k + 1) PROVE Named(c, p, e, j)
  <2>1. CASE j \in 1..k
    <3>1. p[j] = q[j] /\ Named(f, q, end, j) /\ e[j - 1] = end[j - 1] /\ BeginOf(e, j) = BeginOf(end, j)
      BY <1>3, <1>15, <1>16, <2>1
    <3>2. end[j] \in 0..n /\ end[j - 1] \in Nat /\ end[j - 1] < end[j]
      BY <1>4, <1>5, <2>1
    <3>3. end[j - 1] + 1 \in 1..n
      BY <3>2
    <3>4. PICK m \in Nat : Len(q[j].name) = m /\ DOMAIN q[j].name = 1..m
      <4>1. q[j].name \in Seq(Tokens)
        BY <2>1, StepType
      <4> QED
        BY <4>1, SequenceOf
    <3>5. BeginOf(end, j) \in Nat /\ end[j] = BeginOf(end, j) + m
      <4>1. BeginOf(end, j) = 0 \/ BeginOf(end, j) = end[j - 1] + 1
        BY Zenon DEF BeginOf
      <4>2. end[j] = BeginOf(end, j) + m
        BY <1>4, <2>1, <3>4
      <4> QED
        BY <3>2, <4>1, <4>2
    <3>6. \A x \in 1..m : BeginOf(end, j) + x \in 1..n
      BY <3>2, <3>5
    <3>7. \A x \in 1..m : c[BeginOf(end, j) + x] = q[j].name[x]
      BY <1>14, <3>1, <3>4, <3>6 DEF Named
    <3>8. j > 1 => c[end[j - 1] + 1] = "_"
      BY <1>14, <3>1, <3>3 DEF Named
    <3> QED
      BY <3>1, <3>4, <3>7, <3>8 DEF Named
  <2>2. CASE j = k + 1
    <3>1. e[j - 1] = n /\ c[e[j - 1] + 1] = "_"
      <4>1. j - 1 = k /\ k \in 0..k
        BY <2>2
      <4>2. e[j - 1] = n
        BY <1>4, <1>15, <4>1
      <4> QED
        BY <1>14, <4>2, Zenon
    <3>2. \A x \in 1..l : c[BeginOf(e, j) + x] = p[j].name[x]
      BY <1>0, <1>13, <1>17, <2>2
    <3>3. DOMAIN p[j].name = 1..l
      BY <1>2, <2>2
    <3> QED
      BY <3>1, <3>2, <3>3 DEF Named
  <2> QED
    BY <1>18, <2>1, <2>2
<1>21. Laid(c, N + l, k + 1, p, e)
  BY <1>13, <1>19, <1>20 DEF Laid
<1>22. N + l \in Nat /\ Further(f, s) = c
  <2>1. Further(f, s) = c
    BY <1>12, Zenon
  <2> QED
    BY <2>1
<1> QED
  BY <1>21, <1>22

LEMMA LaidOut ==
  ASSUME NEW k \in Nat, NEW p \in [1..k -> Steps], Begun(k, p)
  PROVE  \E n \in Nat : \E end : Laid(Flatten(p), n, k, p, end)
<1> DEFINE L(i, q) == \E n \in Nat : \E end : Laid(Flatten(q), n, i, q, end)
           T == {i \in Nat : \A q \in [1..i -> Steps] : Begun(i, q) => L(i, q)}
<1>1. 0 \in T
  <2>1. SUFFICES ASSUME NEW q \in [1..0 -> Steps] PROVE L(0, q)
    OBVIOUS
  <2>2. q = <<>>
    OBVIOUS
  <2> DEFINE end == [i \in 0..0 |-> 0]
  <2>3. end \in [0..0 -> Nat] /\ end[0] = 0
    OBVIOUS
  <2> HIDE DEF end
  <2>4. Ends(0, 0, q, end)
    BY <2>3 DEF Ends
  <2>5. <<>> \in [1..0 -> Tokens]
    OBVIOUS
  <2>6. Laid(<<>>, 0, 0, q, end)
    BY <2>4, <2>5 DEF Laid
  <2> QED
    BY <2>2, <2>6, FlattenEmpty
<1>2. ASSUME NEW i \in Nat, i \in T PROVE i + 1 \in T
  <2>1. SUFFICES ASSUME NEW q \in [1..(i + 1) -> Steps], Begun(i + 1, q) PROVE L(i + 1, q)
    OBVIOUS
  <2>2. PICK r, s : /\ r \in [1..i -> Steps] /\ s \in Steps /\ q = Append(r, s)
                    /\ q[i + 1] = s /\ \A j \in 1..i : q[j] = r[j]
    BY LastStep
  <2>3. Flatten(q) = Further(Flatten(r), s)
    BY <2>2, FlattenAppend
  <2>4. Begun(i, r)
    BY <2>1, <2>2 DEF Begun
  <2>5. PICK n, end : n \in Nat /\ Laid(Flatten(r), n, i, r, end)
    BY <1>2, <2>2, <2>4
  <2> HIDE DEF T
  <2>6. CASE i # 0
    <3>1. PICK f : f = Flatten(r)
      OBVIOUS
    <3>2. \E m \in Nat : \E e : Laid(Further(f, s), m, i + 1, q, e)
      BY <2>2, <2>4, <2>5, <2>6, <3>1, LaidFurther
    <3> QED
      BY <2>3, <3>1, <3>2
  <2>7. CASE i = 0
    <3>1. r = <<>> /\ q[1] = s /\ s.of = "object"
      BY <2>1, <2>2, <2>7 DEF Begun
    <3>2. Flatten(q) = s.name
      BY <2>3, <3>1, FlattenEmpty DEF Further
    <3>3. PICK l \in Nat : Len(s.name) = l /\ DOMAIN s.name = 1..l /\ s.name \in [1..l -> Tokens]
      BY <2>2, StepType, SequenceOf
    <3> DEFINE e == [j \in 0..1 |-> IF j = 0 THEN 0 ELSE l]
    <3>4. e \in [0..1 -> Nat] /\ e[0] = 0 /\ e[1] = l
      OBVIOUS
    <3> HIDE DEF e
    <3>5. BeginOf(e, 1) = 0
      BY DEF BeginOf
    <3>6. Ends(l, 1, q, e)
      BY <3>1, <3>3, <3>4, <3>5 DEF Ends
    <3>7. Named(s.name, q, e, 1)
      BY <3>1, <3>3, <3>5 DEF Named
    <3>8. Laid(s.name, l, 1, q, e)
      BY <3>3, <3>6, <3>7 DEF Laid
    <3> QED
      BY <2>7, <3>2, <3>8
  <2> QED
    BY <2>6, <2>7
<1> HIDE DEF T
<1>3. k \in T
  BY <1>1, <1>2, Induction
<1> QED
  BY <1>3 DEF T

-----------------------------------------------------------------------------
(* The matches in the key of a path *)

(* What is demanded of a path.                                              *)
Parsable(k, p) ==
  /\ p \in [1..k -> Steps] /\ k # 0 /\ p[1].of = "object"
  /\ \A i \in 1..k : p[i].of = "object" => PlainName(p[i].name)
  /\ \A i \in 1..k : i > 1 /\ p[i].of = "list" => p[i - 1].of = "object"

(* g has the matches in the key of p from every place.                      *)
Scan(key, n, k, p, end, g) ==
  /\ Parsable(k, p) /\ Laid(key, n, k, p, end)
  /\ Found(g, n, key)

LEMMA PlainNameIs ==
  ASSUME NEW l \in Nat, NEW name \in [1..l -> Tokens], PlainName(name)
  PROVE  /\ l # 0 /\ name[l] # "_" /\ name[1] \notin Numerals /\ name[1] # "_"
         /\ \A y \in 1..(l - 1) :
              name[y] = "_" => name[y + 1] \notin Numerals /\ name[y + 1] # "_"
<1>1. Len(name) = l /\ name \in Seq(Tokens) /\ DOMAIN name = 1..l
  BY IsSequence
<1>2. /\ name # <<>> /\ name[l] # "_"
      /\ \A i \in 1..l : name[i] \in Numerals \cup {"_"} => i > 1 /\ name[i - 1] # "_"
  BY <1>1 DEF PlainName
<1>3. l # 0
  <2>1. SUFFICES ASSUME l = 0 PROVE FALSE
    OBVIOUS
  <2>2. name = <<>>
    BY <2>1
  <2> QED
    BY <1>2, <2>2
<1>4. 1 \in 1..l
  BY <1>3
<1>5. name[1] \notin Numerals /\ name[1] # "_"
  <2>1. name[1] \in Numerals \cup {"_"} => 1 > 1
    BY <1>2, <1>4, Zenon
  <2>2. ~(1 > 1)
    OBVIOUS
  <2> QED
    BY <2>1, <2>2, Zenon
<1>6. ASSUME NEW y \in 1..(l - 1), name[y] = "_"
      PROVE  name[y + 1] \notin Numerals /\ name[y + 1] # "_"
  <2>1. y + 1 \in 1..l /\ (y + 1) - 1 = y
    OBVIOUS
  <2> QED
    BY <1>2, <1>6, <2>1
<1> QED
  BY <1>2, <1>3, <1>5, <1>6

LEMMA ParsableIs ==
  ASSUME NEW k \in Nat, NEW p, Parsable(k, p)
  PROVE  p \in [1..k -> Steps] /\ Begun(k, p) /\ 1 \in 1..k
<1>1. p \in [1..k -> Steps] /\ 1 \in 1..k
  BY DEF Parsable
<1>2. PICK l \in Nat : p[1].name \in [1..l -> Tokens]
  BY <1>1, StepType, SequenceOf
<1>3. PlainName(p[1].name) /\ p[1].of = "object"
  BY <1>1 DEF Parsable
<1> QED
  BY <1>1, <1>3 DEF Begun, PlainName

(* Where the step after the j-th is in the key.                             *)
StepPlaced(key, n, k, p, end, j) ==
  /\ end[j] \in Nat /\ end[j + 1] \in Nat /\ end[j] < end[j + 1] /\ end[j + 1] <= n
  /\ j + 1 = k => end[j + 1] = n
  /\ j = 0 => end[j] = 0 /\ BeginOf(end, j + 1) = 0
  /\ j # 0 => end[j] # 0 /\ key[end[j] + 1] = "_" /\ BeginOf(end, j + 1) = end[j] + 1
  /\ end[j + 1] = BeginOf(end, j + 1) + Len(p[j + 1].name)
  /\ \A x \in DOMAIN p[j + 1].name : key[BeginOf(end, j + 1) + x] = p[j + 1].name[x]

LEMMA InKey ==
  ASSUME NEW k \in Nat, NEW p, NEW n \in Nat, NEW key, NEW end, Parsable(k, p),
         Laid(key, n, k, p, end), NEW j \in 0..(k - 1)
  PROVE  StepPlaced(key, n, k, p, end, j)
<1>1. p \in [1..k -> Steps] /\ Begun(k, p) /\ Ends(n, k, p, end) /\ Named(key, p, end, j + 1)
  BY ParsableIs DEF Laid
<1>2. /\ end \in [0..k -> Nat] /\ end[0] = 0 /\ end[k] = n
      /\ \A i \in 1..k : end[i] = BeginOf(end, i) + Len(p[i].name)
  BY <1>1 DEF Ends
<1>3. \A i \in 0..k : \A h \in 0..k : i < h => end[i] < end[h]
  BY <1>1, EndsGrow
<1>4. j \in 0..k /\ j + 1 \in 0..k /\ j + 1 \in 1..k /\ k \in 0..k /\ 0 \in 0..k /\ (j + 1) - 1 = j
  OBVIOUS
<1>5. end[j] \in Nat /\ end[j + 1] \in Nat
  BY <1>2, <1>4
<1>6. end[j] < end[j + 1]
  BY <1>3, <1>4
<1>7. end[j + 1] <= n
  BY <1>2, <1>3, <1>4, <1>5
<1>8. j # 0 => end[j] # 0
  BY <1>2, <1>3, <1>4
<1>9. (j # 0 => key[end[j] + 1] = "_")
      /\ \A x \in DOMAIN p[j + 1].name : key[BeginOf(end, j + 1) + x] = p[j + 1].name[x]
  <2>1. PICK i \in Nat : i = j + 1 /\ i - 1 = j /\ (i > 1 <=> j # 0)
    BY <1>4
  <2>2. Named(key, p, end, i)
    BY <1>1, <2>1
  <2> QED
    BY <2>1, <2>2, Zenon DEF Named
<1>10. (j = 0 => BeginOf(end, j + 1) = 0) /\ (j # 0 => BeginOf(end, j + 1) = end[j] + 1)
  BY <1>4 DEF BeginOf
<1>11. end[j + 1] = BeginOf(end, j + 1) + Len(p[j + 1].name)
  BY <1>2, <1>4
<1>12. j = 0 => end[j] = 0
  BY <1>2
<1>13. j + 1 = k => end[j + 1] = n
  BY <1>2
<1> QED
  BY <1>5, <1>6, <1>7, <1>8, <1>9, <1>10, <1>11, <1>12, <1>13, Zenon DEF StepPlaced

(* What a plain name is, by its tokens.                                     *)
PlainTokens(l, name) ==
  /\ l # 0 /\ name[l] # "_" /\ name[1] \notin Numerals /\ name[1] # "_"
  /\ \A y \in 1..(l - 1) :
       name[y] = "_" => name[y + 1] \notin Numerals /\ name[y + 1] # "_"

(* The name is in the key, after b.                                         *)
NameAfter(key, b, l, name) == \A x \in 1..l : key[b + x] = name[x]

(* No match starts in a member's name or right before it.                   *)
LEMMA NoneStarts ==
  ASSUME NEW key, NEW b \in Nat, NEW l \in Nat, NEW name, PlainTokens(l, name),
         NameAfter(key, b, l, name)
  PROVE  NoneFrom(key, b, b + l + 1)
<1>1. SUFFICES ASSUME NEW x \in Nat, b <= x, x < b + l + 1 PROVE ~Starts(key, x)
  BY Zenon DEF NoneFrom
<1>0. l # 0
  BY Zenon DEF PlainTokens
<1>2. CASE x = b
  <2>1. 1 \in 1..l /\ b + 1 = x + 1
    BY <1>0, <1>2
  <2>2. key[x + 1] = name[1]
    BY <2>1, Zenon DEF NameAfter
  <2> QED
    BY <2>2, Zenon DEF Starts, PlainTokens
<1>3. CASE x # b
  <2>1. PICK y \in 1..l : x = b + y
    <3>1. x - b \in 1..l /\ x = b + (x - b)
      BY <1>1, <1>3
    <3> QED
      BY <3>1
  <2>2. key[x] = name[y]
    BY <2>1, Zenon DEF NameAfter
  <2>3. CASE y = l
    BY <2>2, <2>3, Zenon DEF Starts, PlainTokens
  <2>4. CASE y # l
    <3>1. y \in 1..(l - 1) /\ y + 1 \in 1..l /\ x + 1 = b + (y + 1)
      BY <2>1, <2>4
    <3>2. key[b + (y + 1)] = name[y + 1]
      BY <3>1, Zenon DEF NameAfter
    <3> QED
      BY <2>2, <3>1, <3>2, Zenon DEF Starts, PlainTokens
  <2> QED
    BY <2>3, <2>4
<1> QED
  BY <1>2, <1>3

(* The name of a member, of l tokens.                                       *)
IsName(s, l, name) ==
  /\ name = s.name /\ Len(s.name) = l /\ DOMAIN s.name = 1..l
  /\ PlainTokens(l, name)

(* A member's name in the key.                                              *)
LEMMA MemberIs ==
  ASSUME NEW k \in Nat, NEW p, Parsable(k, p), NEW j \in 1..k, p[j].of = "object"
  PROVE  \E l \in Nat : \E name \in [1..l -> Tokens] : IsName(p[j], l, name)
<1>1. p[j].name \in Seq(Tokens) /\ PlainName(p[j].name)
  BY ParsableIs, StepType DEF Parsable
<1>2. PICK l \in Nat : /\ Len(p[j].name) = l /\ DOMAIN p[j].name = 1..l
                       /\ p[j].name \in [1..l -> Tokens]
  BY <1>1, SequenceOf
<1>3. PICK name \in [1..l -> Tokens] : name = p[j].name
  BY <1>2
<1>4. PlainTokens(l, name)
  BY <1>1, <1>3, PlainNameIs, Zenon DEF PlainTokens
<1> QED
  BY <1>2, <1>3, <1>4, Zenon DEF IsName

(* From behind the j-th step, the next match is behind the step after it.   *)
PassedOver(g, n, end, j) ==
  /\ g[end[j] + 1] = g[end[j + 1] + 1]
  /\ j # 0 => g[end[j] + 2] = g[end[j + 1] + 1] /\ end[j] + 2 <= n

LEMMA MemberStep ==
  ASSUME NEW k \in Nat, NEW p, NEW n \in Nat, NEW key, NEW end, NEW g,
         Scan(key, n, k, p, end, g), NEW j \in 0..(k - 1), p[j + 1].of = "object"
  PROVE  PassedOver(g, n, end, j)
<1>1. /\ Parsable(k, p) /\ Laid(key, n, k, p, end) /\ Found(g, n, key)
  BY DEF Scan
<1>2. PICK i \in 1..k : i = j + 1
  OBVIOUS
<1>3. \E l \in Nat : \E name \in [1..l -> Tokens] : IsName(p[i], l, name)
  BY <1>1, <1>2, MemberIs
<1>4. PICK l \in Nat : \E name \in [1..l -> Tokens] : IsName(p[i], l, name)
  BY <1>3, Zenon
<1>45. PICK name \in [1..l -> Tokens] : IsName(p[j + 1], l, name)
  BY <1>2, <1>4, Zenon
<1>7. StepPlaced(key, n, k, p, end, j)
  BY <1>1, InKey, Zenon
<1>8. /\ end[j] \in Nat /\ end[j + 1] \in Nat /\ end[j] < end[j + 1] /\ end[j + 1] <= n
      /\ j = 0 => end[j] = 0 /\ BeginOf(end, j + 1) = 0
      /\ j # 0 => BeginOf(end, j + 1) = end[j] + 1
      /\ end[j + 1] = BeginOf(end, j + 1) + l
  BY <1>45, <1>7, Zenon DEF IsName, StepPlaced
<1>5. \A x \in 1..l : key[BeginOf(end, j + 1) + x] = name[x]
  BY <1>45, <1>7, Zenon DEF IsName, StepPlaced
<1>9. PICK e \in Nat, f \in Nat : e = end[j] /\ f = end[j + 1]
  BY <1>8, Zenon
<1>10. PICK b \in Nat : b = BeginOf(end, j + 1)
  BY <1>8, <1>9
<1>6. l # 0
  BY <1>45, Zenon DEF IsName, PlainTokens
<1>11. /\ e < f /\ f <= n /\ f = b + l /\ b <= e + 1
       /\ j # 0 => b = e + 1
  BY <1>8, <1>9, <1>10
<1>12. NameAfter(key, b, l, name)
  BY <1>5, <1>10, Zenon DEF NameAfter
<1>13. NoneFrom(key, b, b + l + 1)
  BY <1>12, <1>45, NoneStarts, Zenon DEF IsName
<1>14. PICK c \in Nat, d \in Nat : c = e + 1 /\ d = f + 1 /\ c <= d /\ d = b + l + 1 /\ b <= c
  BY <1>11
<1>15. g[c] = g[d]
  <2>1. NoneFrom(key, c, d)
    <3>1. \A x \in Nat : c <= x => b <= x
      BY <1>14
    <3> QED
      BY <1>13, <1>14, <3>1, Zenon DEF NoneFrom
  <2> QED
    BY <1>1, <1>14, <2>1, Skipped
<1>16. ASSUME j # 0 PROVE g[e + 2] = g[d] /\ e + 2 <= n
  <2>1. PICK a \in Nat : a = e + 2 /\ a <= n /\ a <= d /\ b <= a
    BY <1>6, <1>11, <1>14, <1>16
  <2>2. NoneFrom(key, a, d)
    <3>1. \A x \in Nat : a <= x => b <= x
      BY <2>1
    <3> QED
      BY <1>13, <1>14, <3>1, Zenon DEF NoneFrom
  <2>3. g[a] = g[d]
    BY <1>1, <2>1, <2>2, Skipped
  <2> QED
    BY <2>1, <2>3
<1> QED
  BY <1>9, <1>14, <1>15, <1>16, Zenon DEF PassedOver

(* The next match is the step after the j-th; r has those behind it.        *)
MatchOf(n, key, k, p, end, g, j, next, r) ==
  /\ g[end[j] + 1] = <<[start |-> end[j] + 1, next |-> next]>> \o r
  /\ r = g[end[j + 1] + 1] /\ end[j + 1] = end[j] + 2
  /\ next = IF j + 1 = k THEN n + 1 ELSE end[j + 1] + 2
  /\ key[end[j] + 2] = p[j + 1].name[1]
  /\ j + 1 = k => key[n] # "_"
  /\ j + 1 # k => key[end[j + 1] + 1] = "_" /\ next <= n

(* A list's position, and the underscore before it, are a match.            *)
LEMMA ListStep ==
  ASSUME NEW k \in Nat, NEW p, NEW n \in Nat, NEW key, NEW end, NEW g,
         Scan(key, n, k, p, end, g), NEW j \in 1..(k - 1), p[j + 1].of = "list"
  PROVE  \E next \in Nat : \E r : MatchOf(n, key, k, p, end, g, j, next, r)
<1>1. /\ Parsable(k, p) /\ Laid(key, n, k, p, end) /\ Found(g, n, key)
  BY DEF Scan
<1>2. PICK h \in 0..(k - 1) : h = j /\ h # 0
  OBVIOUS
<1>3. StepPlaced(key, n, k, p, end, h)
  BY <1>1, InKey, Zenon
<1>4. PICK i \in Numerals : p[j + 1].name = <<i>>
  <2>1. j + 1 \in 1..k
    OBVIOUS
  <2> QED
    BY <1>1, <2>1, ParsableIs, StepType
<1>5. Len(p[j + 1].name) = 1 /\ 1 \in DOMAIN p[j + 1].name /\ p[j + 1].name[1] = i
  BY <1>4
<1>6. PICK e \in Nat, f \in Nat : e = end[j] /\ f = end[j + 1]
  BY <1>2, <1>3, Zenon DEF StepPlaced
<1>7. /\ e < f /\ f <= n /\ e # 0 /\ BeginOf(end, j + 1) = e + 1
      /\ f = BeginOf(end, j + 1) + 1
      /\ j + 1 = k => f = n
  BY <1>2, <1>3, <1>5, <1>6, Zenon DEF StepPlaced
<1>8. key[e + 1] = "_" /\ key[BeginOf(end, j + 1) + 1] = i
  BY <1>2, <1>3, <1>5, <1>6, Zenon DEF StepPlaced
<1>9. f = e + 2 /\ e + 1 < n /\ BeginOf(end, j + 1) + 1 = (e + 1) + 1
  BY <1>7
<1>10. Starts(key, e + 1)
  BY <1>8, <1>9, Zenon DEF Starts
<1>11. PICK c \in Nat : c = e + 1 /\ c < n
  BY <1>9
<1>12. g[c] = <<[start |-> c, next |-> EndOf(key, n, c)]>> \o g[EndOf(key, n, c)]
  <2>1. Starts(key, c)
    BY <1>10, <1>11, Zenon
  <2> QED
    <3>1. FirstMatch(g, n, key, c)
      BY <1>1, <1>11, <2>1, FoundMatch, Zenon
    <3> QED
      BY <3>1, Zenon DEF FirstMatch
<1>13. CASE j + 1 = k
  <2>1. EndOf(key, n, c) = c + 2
    <3>1. ~(c + 2 <= n)
      BY <1>7, <1>9, <1>11, <1>13
    <3> QED
      BY <3>1, Zenon DEF EndOf
  <2>2. c + 2 = n + 1 /\ c + 2 = f + 1 /\ n + 1 \in Nat /\ n = e + 2
    BY <1>7, <1>9, <1>11, <1>13
  <2>3. key[n] # "_" /\ key[n] = i
    <3>1. key[n] = i
      BY <1>7, <1>8, <1>9, <1>13, Zenon
    <3> QED
      BY <3>1, ParserAssumption, Zenon
  <2>4. g[c] = <<[start |-> c, next |-> n + 1]>> \o g[f + 1]
    BY <1>12, <2>1, <2>2, Zenon
  <2> QED
    BY <1>5, <1>6, <1>9, <1>11, <1>13, <2>2, <2>3, <2>4, Zenon DEF MatchOf
<1>14. CASE j + 1 # k
  <2>1. PICK a \in 0..(k - 1) : a = j + 1 /\ a # 0
    BY <1>14
  <2>2. p[a + 1].of = "object"
    <3>1. a + 1 \in 1..k /\ a + 1 > 1 /\ (a + 1) - 1 = a
      BY <2>1
    <3>2. p[a + 1].of = "list" => p[a].of = "object"
      BY <1>1, <3>1, Zenon DEF Parsable
    <3>3. p[a + 1] \in Steps
      BY <1>1, <3>1, ParsableIs
    <3>4. p[a + 1].of \in {"object", "list"}
      BY <3>3, StepType, Zenon
    <3>5. p[a].of # "object"
      BY <2>1, Zenon
    <3> QED
      BY <3>2, <3>4, <3>5, Zenon
  <2>3. StepPlaced(key, n, k, p, end, a)
    BY <1>1, InKey, Zenon
  <2>4. key[f + 1] = "_"
    BY <1>6, <2>1, <2>3, Zenon DEF StepPlaced
  <2>5. g[f + 2] = g[f + 1] /\ f + 2 <= n
    <3>1. PassedOver(g, n, end, a)
      BY <2>2, MemberStep, Zenon
    <3> QED
      BY <1>6, <2>1, <3>1, Zenon DEF PassedOver
  <2>6. c + 2 = f + 1 /\ c + 3 = f + 2 /\ f + 2 \in Nat /\ c + 2 <= n
    BY <1>9, <1>11, <2>5
  <2>7. EndOf(key, n, c) = f + 2
    BY <2>4, <2>6, Zenon DEF EndOf
  <2>8. g[c] = <<[start |-> c, next |-> f + 2]>> \o g[f + 1]
    BY <1>12, <2>5, <2>7, Zenon
  <2>9. key[e + 2] = i
    BY <1>7, <1>8, <1>9, Zenon
  <2> QED
    BY <1>5, <1>6, <1>9, <1>11, <1>14, <2>4, <2>5, <2>6, <2>8, <2>9, Zenon DEF MatchOf
<1> QED
  BY <1>13, <1>14

-----------------------------------------------------------------------------
(* What is left when matches are cut *)

(* d has what is left of the key after each of the first n matches.         *)
CutBy(d, n, key, found) ==
  d = [m \in 0..n |-> IF m = 0 THEN [text |-> key, offset |-> 0]
                      ELSE Cut(d[m - 1], found[m])]

(* The same after the m-th.                                                 *)
CutAt(d, key, found, m) ==
  d[m] = IF m = 0 THEN [text |-> key, offset |-> 0] ELSE Cut(d[m - 1], found[m])

LEMMA CutStep ==
  ASSUME NEW d, NEW n \in Nat, NEW key, NEW found, CutBy(d, n, key, found), NEW m \in 0..n
  PROVE  CutAt(d, key, found, m)
  BY Zenon DEF CutBy, CutAt

LEMMA CutExists ==
  ASSUME NEW key, NEW found, NEW n \in Nat
  PROVE  \E d : CutBy(d, n, key, found)
<1> DEFINE T == {k \in Nat : \E d : CutBy(d, k, key, found)}
<1>1. 0 \in T
  <2> DEFINE d == [i \in 0..0 |-> [text |-> key, offset |-> 0]]
  <2>1. CutBy(d, 0, key, found)
    BY DEF CutBy
  <2> QED
    BY <2>1
<1>2. ASSUME NEW k \in Nat, k \in T PROVE k + 1 \in T
  <2>1. PICK d : CutBy(d, k, key, found)
    BY <1>2
  <2> DEFINE h == [i \in 0..(k + 1) |-> IF i <= k THEN d[i] ELSE Cut(d[k], found[i])]
  <2>2. ASSUME NEW i \in 0..(k + 1)
        PROVE  CutAt(h, key, found, i)
    <3>1. CASE i <= k
      <4>1. h[i] = d[i] /\ (i # 0 => h[i - 1] = d[i - 1]) /\ i \in 0..k
        BY <3>1
      <4> HIDE DEF h
      <4>2. CutAt(d, key, found, i)
        BY <2>1, <4>1, CutStep, Zenon
      <4> QED
        BY <4>1, <4>2, Zenon DEF CutAt
    <3>2. CASE i = k + 1
      <4>1. h[i] = Cut(d[k], found[i]) /\ h[i - 1] = d[k] /\ i # 0
        BY <3>2
      <4> HIDE DEF h
      <4> QED
        BY <4>1, Zenon DEF CutAt
    <3> QED
      BY <3>1, <3>2
  <2>3. h = [i \in 0..(k + 1) |-> h[i]]
    OBVIOUS
  <2> HIDE DEF h
  <2>4. CutBy(h, k + 1, key, found)
    BY <2>2, <2>3, Zenon DEF CutBy, CutAt
  <2> QED
    BY <2>4
<1> HIDE DEF T
<1>3. n \in T
  BY <1>1, <1>2, Induction
<1> QED
  BY <1>3 DEF T

LEMMA WithoutMatchesIs ==
  ASSUME NEW key, NEW n \in Nat, NEW found, Len(found) = n
  PROVE  \E d : CutBy(d, n, key, found) /\ WithoutMatches(key, found) = d[n].text
<1>1. WithoutMatches(key, found) = (CHOOSE d : CutBy(d, Len(found), key, found))[Len(found)].text
  BY Zenon DEF WithoutMatches, CutBy
<1> QED
  BY <1>1, CutExists

(* t is C, of c tokens, and the m tokens of key after e.                    *)
Followed(t, c, C, m, key, e) ==
  /\ t \in [1..(c + m) -> Tokens]
  /\ \A y \in 1..c : t[y] = C[y]
  /\ \A y \in 1..m : t[c + y] = key[e + y]

(* r has m elements of q, from the a-th.                                    *)
Slice(r, S, m, q, a) == r \in [1..m -> S] /\ \A y \in 1..m : r[y] = q[a + y - 1]

LEMMA SubSeqIs ==
  ASSUME NEW S, NEW n \in Nat, NEW q \in [1..n -> S], NEW a \in Nat, NEW b \in Nat,
         1 <= a, a <= b + 1, b <= n, NEW m \in Nat, m = b + 1 - a
  PROVE  Slice(SubSeq(q, a, b), S, m, q, a)
<1>1. \A i \in a..b : q[i] \in S
  OBVIOUS
<1>2. PICK r : r = SubSeq(q, a, b)
  OBVIOUS
<1>3. /\ r \in Seq(S) /\ Len(r) = IF a <= b THEN b - a + 1 ELSE 0
      /\ \A i \in 1 .. b - a + 1 : r[i] = q[a + i - 1]
  BY <1>1, <1>2, SubSeqProperties
<1>4. Len(r) = m /\ b - a + 1 = m
  BY <1>3
<1>5. r \in [1..m -> S]
  BY <1>3, <1>4, SequenceOf
<1> QED
  BY <1>2, <1>3, <1>4, <1>5, Zenon DEF Slice

(* f is a match that begins after e, with m tokens of the key left: a       *)
(* position at the end, or one with an underscore and more behind it.       *)
IsCut(key, e, m, f) ==
  /\ f.start = e + 1
  /\ \/ m = 2 /\ f.next = e + 3 /\ key[e + 2] # "_"
     \/ m >= 4 /\ f.next = e + 4 /\ key[e + 3] = "_"

(* Where the text goes on after a match.                                    *)
RestOf(t, next, size) == IF t[next - 1] = "_" /\ next <= size THEN next - 1 ELSE next

LEMMA CutIs ==
  ASSUME NEW c \in Nat, NEW C, NEW m \in Nat, NEW key, NEW e \in Nat, c <= e, m >= 2,
         NEW d, Followed(d.text, c, C, m, key, e), d.offset = e - c,
         NEW f, IsCut(key, e, m, f)
  PROVE  /\ Cut(d, f).offset = (e + 2) - c
         /\ Followed(Cut(d, f).text, c, C, m - 2, key, e + 2)
<1>1. PICK t : t = d.text
  OBVIOUS
<1>2. /\ t \in [1..(c + m) -> Tokens]
      /\ \A y \in 1..c : t[y] = C[y]
      /\ \A y \in 1..m : t[c + y] = key[e + y]
  BY <1>1, Zenon DEF Followed
<1>3. PICK N \in Nat : N = c + m
  OBVIOUS
<1>4. Len(t) = N /\ t \in [1..N -> Tokens]
  BY <1>2, <1>3, IsSequence
<1>5. PICK o \in Nat : o = d.offset /\ o = e - c
  OBVIOUS
<1>6. f.start - o = c + 1
  <2>1. f.start = e + 1
    BY Zenon DEF IsCut
  <2> QED
    BY <1>5, <2>1
<1>7. PICK next \in Nat : f.next - o = next /\ RestOf(t, next, N) = c + 3
  <2>1. CASE m = 2 /\ f.next = e + 3 /\ key[e + 2] # "_"
    <3>1. PICK next \in Nat : next = c + 3
      OBVIOUS
    <3>0. m = 2 /\ f.next = e + 3
      BY <2>1, Zenon
    <3>2. f.next - o = next /\ next - 1 = c + 2 /\ 2 \in 1..m
      BY <1>5, <3>0, <3>1
    <3>3. t[next - 1] # "_"
      BY <1>2, <2>1, <3>2, Zenon
    <3> QED
      BY <3>1, <3>2, <3>3, Zenon DEF RestOf
  <2>2. CASE m >= 4 /\ f.next = e + 4 /\ key[e + 3] = "_"
    <3>1. PICK next \in Nat : next = c + 4
      OBVIOUS
    <3>0. m >= 4 /\ f.next = e + 4
      BY <2>2, Zenon
    <3>2. f.next - o = next /\ next - 1 = c + 3 /\ 3 \in 1..m /\ next <= N
      BY <1>3, <1>5, <3>0, <3>1
    <3>3. t[next - 1] = "_"
      BY <1>2, <2>2, <3>2, Zenon
    <3> QED
      BY <3>2, <3>3, Zenon DEF RestOf
  <2> QED
    BY <2>1, <2>2, Zenon DEF IsCut
<1>8. PICK a : a = SubSeq(t, 1, c) /\ Slice(a, Tokens, c, t, 1)
  <2>1. PICK r : r = SubSeq(t, 1, c)
    OBVIOUS
  <2>2. 1 <= 1 /\ 1 <= c + 1 /\ c <= N /\ c = c + 1 - 1
    BY <1>3
  <2>3. Slice(SubSeq(t, 1, c), Tokens, c, t, 1)
    BY <1>4, <2>2, SubSeqIs
  <2> QED
    BY <2>3
<1>9. PICK l \in Nat : l = m - 2
  OBVIOUS
<1>10. PICK b : b = SubSeq(t, c + 3, N) /\ Slice(b, Tokens, l, t, c + 3)
  <2>1. PICK s \in Nat : s = c + 3
    OBVIOUS
  <2>2. 1 <= s /\ s <= N + 1 /\ N <= N /\ l = N + 1 - s
    BY <1>3, <1>9, <2>1
  <2>3. Slice(SubSeq(t, s, N), Tokens, l, t, s)
    BY <1>4, <2>2, SubSeqIs
  <2> QED
    BY <2>1, <2>3
<1>11. Cut(d, f) = [text |-> a \o b, offset |-> (e + 2) - c]
  <2>1. (c + 1) - 1 = c /\ o + (c + 3) - (c + 1) = (e + 2) - c
    BY <1>5
  <2>2. Cut(d, f) = [text |-> SubSeq(t, 1, (c + 1) - 1) \o SubSeq(t, c + 3, N),
                     offset |-> o + (c + 3) - (c + 1)]
    BY <1>1, <1>4, <1>5, <1>6, <1>7, Zenon DEF Cut, RestOf
  <2> QED
    BY <1>8, <1>10, <2>1, <2>2, Zenon
<1>12. PICK r : r = a \o b /\ Joins(r, Tokens, c, a, l, b)
  <2>1. a \in [1..c -> Tokens] /\ b \in [1..l -> Tokens]
    BY <1>8, <1>10, Zenon DEF Slice
  <2> QED
    BY <2>1, Concatenated, Zenon
<1>13. /\ r \in [1..(c + l) -> Tokens] /\ (\A y \in 1..c : r[y] = a[y])
       /\ \A y \in 1..l : r[c + y] = b[y]
  BY <1>12, Zenon DEF Joins
<1>14. ASSUME NEW y \in 1..c PROVE r[y] = C[y]
  <2>1. 1 + y - 1 = y
    OBVIOUS
  <2>2. a[y] = t[1 + y - 1]
    BY <1>8, Zenon DEF Slice
  <2> QED
    BY <1>2, <1>13, <2>1, <2>2, Zenon
<1>15. ASSUME NEW y \in 1..l PROVE r[c + y] = key[(e + 2) + y]
  <2>1. c + 3 + y - 1 = c + (y + 2) /\ e + (y + 2) = (e + 2) + y /\ y + 2 \in 1..m
    BY <1>9
  <2>2. b[y] = t[c + 3 + y - 1]
    BY <1>10, Zenon DEF Slice
  <2>3. t[c + (y + 2)] = key[e + (y + 2)]
    BY <1>2, <2>1, Zenon
  <2> QED
    BY <1>13, <2>1, <2>2, <2>3, Zenon
<1>16. Followed(r, c, C, m - 2, key, e + 2)
  BY <1>9, <1>13, <1>14, <1>15, Zenon DEF Followed
<1> QED
  BY <1>11, <1>12, <1>16

-----------------------------------------------------------------------------
(* One step after the other *)

StepsUpTo(p, i) == [j \in 1..i |-> p[j]]

LEMMA StepsUpToAre ==
  ASSUME NEW k \in Nat, NEW p \in [1..k -> Steps]
  PROVE  /\ StepsUpTo(p, 0) = <<>> /\ StepsUpTo(p, k) = p
         /\ \A i \in 0..k : StepsUpTo(p, i) \in [1..i -> Steps]
<1>1. StepsUpTo(p, 0) = <<>>
  BY DEF StepsUpTo
<1>2. StepsUpTo(p, k) = p
  BY DEF StepsUpTo
<1>3. \A i \in 0..k : StepsUpTo(p, i) \in [1..i -> Steps]
  BY DEF StepsUpTo
<1> QED
  BY <1>1, <1>2, <1>3

LEMMA StepsUpToFurther ==
  ASSUME NEW k \in Nat, NEW p \in [1..k -> Steps], NEW i \in 0..(k - 1)
  PROVE  StepsUpTo(p, i + 1) = Append(StepsUpTo(p, i), p[i + 1])
<1>1. PICK q \in [1..i -> Steps] : q = StepsUpTo(p, i) /\ \A j \in 1..i : q[j] = p[j]
  <2>1. i \in 0..k
    OBVIOUS
  <2>2. StepsUpTo(p, i) \in [1..i -> Steps]
    BY <2>1, StepsUpToAre
  <2>3. \A j \in 1..i : StepsUpTo(p, i)[j] = p[j]
    BY DEF StepsUpTo
  <2> QED
    BY <2>2, <2>3
<1>2. PICK s \in Steps : s = p[i + 1]
  OBVIOUS
<1>3. PICK r : r = Append(q, s)
  OBVIOUS
<1>4. i \in Nat
  OBVIOUS
<1>5. Extends(r, Steps, i, q, s)
  BY <1>3, <1>4, Appended, Zenon
<1>6. r \in [1..(i + 1) -> Steps] /\ r[i + 1] = s /\ \A j \in 1..i : r[j] = q[j]
  BY <1>5, Zenon DEF Extends
<1>7. \A j \in 1..(i + 1) : j \in 1..i \/ j = i + 1
  OBVIOUS
<1>8. \A j \in 1..(i + 1) : r[j] = p[j]
  BY <1>1, <1>2, <1>6, <1>7, Zenon
<1>9. r = StepsUpTo(p, i + 1)
  BY <1>6, <1>8 DEF StepsUpTo
<1> QED
  BY <1>1, <1>2, <1>3, <1>9, Zenon

LEMMA StepsAppend ==
  ASSUME NEW n \in Nat, NEW q \in [1..n -> Steps], NEW s \in Steps, NEW of
  PROVE  StepsOf(Append(q, s), of) = IF s.of = of THEN Append(StepsOf(q, of), s)
                                     ELSE StepsOf(q, of)
<1>1. PICK r : r = Append(q, s)
  OBVIOUS
<1>2. Extends(r, Steps, n, q, s)
  BY <1>1, Appended, Zenon
<1>3. r \in [1..(n + 1) -> Steps] /\ r[n + 1] = s /\ \A j \in 1..n : r[j] = q[j]
  BY <1>2, Zenon DEF Extends
<1>4. PICK I : I = {i \in DOMAIN q : q[i].of = of}
  OBVIOUS
<1>5. PICK J : J = {i \in DOMAIN r : r[i].of = of}
  OBVIOUS
<1>6. \A i \in 1..n : i \in 1..(n + 1)
  OBVIOUS
<1>7. DOMAIN q = 1..n /\ DOMAIN r = 1..(n + 1) /\ n + 1 \in 1..(n + 1)
  BY <1>3
<1>8. \A i \in 1..n : i \in I <=> i \in J
  BY <1>3, <1>4, <1>5, <1>6, <1>7, Zenon
<1>9. n + 1 \in J <=> s.of = of
  BY <1>3, <1>5, <1>7, Zenon
<1>10. At(Append(q, s), J) = IF n + 1 \in J THEN Append(At(q, I), s) ELSE At(q, I)
  BY <1>8, AtAppend
<1> QED
  BY <1>1, <1>4, <1>5, <1>9, <1>10, Zenon DEF StepsOf

LEMMA StepsEmpty == ASSUME NEW of PROVE StepsOf(<<>>, of) = <<>>
  BY AtEmpty, Zenon DEF StepsOf

(* The same for the steps of a path.                                        *)
LEMMA StepsFurther ==
  ASSUME NEW k \in Nat, NEW p \in [1..k -> Steps], NEW i \in 0..(k - 1), NEW of
  PROVE  /\ p[i + 1].of = of =>
              StepsOf(StepsUpTo(p, i + 1), of) = Append(StepsOf(StepsUpTo(p, i), of), p[i + 1])
         /\ p[i + 1].of # of => StepsOf(StepsUpTo(p, i + 1), of) = StepsOf(StepsUpTo(p, i), of)
<1>1. i \in Nat /\ i \in 0..k /\ i + 1 \in 1..k
  OBVIOUS
<1>2. StepsUpTo(p, i) \in [1..i -> Steps] /\ p[i + 1] \in Steps
  BY <1>1, StepsUpToAre
<1>3. PICK q \in [1..i -> Steps] : q = StepsUpTo(p, i)
  BY <1>2
<1>4. PICK s \in Steps : s = p[i + 1]
  BY <1>2
<1>5. StepsOf(Append(q, s), of) = IF s.of = of THEN Append(StepsOf(q, of), s)
                                  ELSE StepsOf(q, of)
  BY <1>1, StepsAppend, Zenon
<1> QED
  BY <1>3, <1>4, <1>5, StepsUpToFurther, Zenon

(* No underscore at the ends of a text of c tokens, none next to another.   *)
Tidied(c, C) ==
  c # 0 => /\ C[1] # "_" /\ C[c] # "_"
           /\ \A y \in 1..(c - 1) : C[y] = "_" => C[y + 1] # "_"

LEMMA PlainTidied ==
  ASSUME NEW l, NEW name, PlainTokens(l, name)
  PROVE  Tidied(l, name)
  BY Zenon DEF PlainTokens, Tidied

LEMMA LinkedTidied ==
  ASSUME NEW n \in Nat, n # 0, NEW f, Tidied(n, f), NEW l \in Nat, NEW name,
         PlainTokens(l, name), NEW c, Linked(c, n, f, l, name)
  PROVE  Tidied(n + 1 + l, c)
<1>1. l # 0 /\ name[l] # "_" /\ name[1] # "_"
      /\ \A y \in 1..(l - 1) : name[y] = "_" => name[y + 1] # "_"
  BY Zenon DEF PlainTokens
<1>2. f[1] # "_" /\ f[n] # "_" /\ \A y \in 1..(n - 1) : f[y] = "_" => f[y + 1] # "_"
  BY Zenon DEF Tidied
<1>3. /\ c[n + 1] = "_" /\ (\A i \in 1..n : c[i] = f[i])
      /\ \A i \in 1..l : c[n + 1 + i] = name[i]
  BY Zenon DEF Linked
<1>0. l # 0
  BY <1>1, Zenon
<1>4. c[1] # "_"
  <2>1. 1 \in 1..n
    OBVIOUS
  <2> QED
    BY <1>2, <1>3, <2>1, Zenon
<1>5. c[n + 1 + l] # "_"
  <2>1. l \in 1..l
    BY <1>0
  <2> QED
    BY <1>1, <1>3, <2>1, Zenon
<1>6. ASSUME NEW y \in 1..((n + 1 + l) - 1), c[y] = "_" PROVE c[y + 1] # "_"
  <2>1. CASE y <= n - 1
    <3>1. y \in 1..n /\ y + 1 \in 1..n /\ y \in 1..(n - 1)
      BY <2>1
    <3> QED
      BY <1>2, <1>3, <1>6, <3>1, Zenon
  <2>2. CASE y = n
    <3>1. n \in 1..n
      OBVIOUS
    <3> QED
      BY <1>2, <1>3, <1>6, <2>2, <3>1, Zenon
  <2>3. CASE y = n + 1
    <3>1. 1 \in 1..l /\ n + 1 + 1 = y + 1
      BY <1>0, <2>3
    <3>2. c[n + 1 + 1] = name[1]
      BY <1>3, <3>1, Zenon
    <3> QED
      BY <1>1, <3>1, <3>2, Zenon
  <2>4. CASE y > n + 1
    <3>1. PICK z \in 1..(l - 1) : z = y - (n + 1)
      BY <2>4
    <3>2. z \in 1..l /\ z + 1 \in 1..l /\ n + 1 + z = y /\ n + 1 + (z + 1) = y + 1
      BY <2>4, <3>1
    <3>3. c[y] = name[z]
      BY <1>3, <3>2, Zenon
    <3>4. c[y + 1] = name[z + 1]
      BY <1>3, <3>2, Zenon
    <3> QED
      BY <1>1, <1>6, <3>1, <3>3, <3>4, Zenon
  <2>5. y <= n - 1 \/ y = n \/ y = n + 1 \/ y > n + 1
    OBVIOUS
  <2> QED
    BY <2>1, <2>2, <2>3, <2>4, <2>5, Zenon
<1>7. n + 1 + l # 0
  OBVIOUS
<1> QED
  BY <1>4, <1>5, <1>6, Zenon DEF Tidied

(* An underscore is behind e.                                               *)
Separated(key, e) == key[e + 1] = "_"

LEMMA LinkedFollowed ==
  ASSUME NEW n \in Nat, NEW f, NEW l \in Nat, NEW name, NEW c, Linked(c, n, f, l, name),
         NEW key, NEW e \in Nat, Separated(key, e), NameAfter(key, e + 1, l, name)
  PROVE  Followed(c, n, f, l + 1, key, e)
<1>1. /\ c \in [1..(n + 1 + l) -> Tokens] /\ c[n + 1] = "_"
      /\ \A i \in 1..n : c[i] = f[i]
      /\ \A i \in 1..l : c[n + 1 + i] = name[i]
  BY Zenon DEF Linked
<1>2. n + 1 + l = n + (l + 1)
  OBVIOUS
<1>3. ASSUME NEW y \in 1..(l + 1) PROVE c[n + y] = key[e + y]
  <2>1. CASE y = 1
    BY <1>1, <2>1, Zenon DEF Separated
  <2>2. CASE y # 1
    <3>1. PICK z \in 1..l : z = y - 1
      BY <2>2
    <3>2. n + 1 + z = n + y /\ e + 1 + z = e + y
      BY <3>1
    <3>3. key[e + 1 + z] = name[z]
      BY Zenon DEF NameAfter
    <3> QED
      BY <1>1, <3>2, <3>3, Zenon
  <2> QED
    BY <2>1, <2>2
<1> QED
  BY <1>1, <1>2, <1>3, Zenon DEF Followed

LEMMA NameFollowed ==
  ASSUME NEW l \in Nat, NEW name \in [1..l -> Tokens], NEW C, NEW key, NameAfter(key, 0, l, name)
  PROVE  Followed(name, 0, C, l, key, 0)
<1>1. /\ \A y \in 1..l : 0 + y = y
      /\ 0 + l = l /\ ~\E y : y \in 1..0
  OBVIOUS
<1>2. \A y \in 1..l : key[0 + y] = name[y]
  BY Zenon DEF NameAfter
<1>3. \A y \in 1..l : name[0 + y] = key[0 + y]
  BY <1>1, <1>2, Zenon
<1>4. \A y \in 1..0 : name[y] = C[y]
  BY <1>1, Zenon
<1> QED
  BY <1>1, <1>3, <1>4, Zenon DEF Followed

(* The x-th match is the position of a step into a list.                    *)
IsPosition(key, M, x, s) == key[M[x].start + 1] = s.name[1]

(* The first x matches are the lists among the first i steps.               *)
Listed(p, i, x, key, M) ==
  /\ StepsOf(StepsUpTo(p, i), "list") \in [1..x -> Steps]
  /\ \A y \in 1..x : IsPosition(key, M, y, StepsOf(StepsUpTo(p, i), "list")[y])

LEMMA ListedFirst ==
  ASSUME NEW k \in Nat, NEW p \in [1..k -> Steps], NEW key, NEW M
  PROVE  Listed(p, 0, 0, key, M)
<1>1. StepsOf(StepsUpTo(p, 0), "list") = <<>>
  BY StepsUpToAre, StepsEmpty, Zenon
<1>2. <<>> \in [1..0 -> Steps]
  OBVIOUS
<1>3. ~\E y : y \in 1..0
  OBVIOUS
<1> QED
  BY <1>1, <1>2, <1>3, Zenon DEF Listed

LEMMA ListedMember ==
  ASSUME NEW k \in Nat, NEW p \in [1..k -> Steps], NEW i \in 0..(k - 1), NEW x, NEW key,
         NEW M, p[i + 1].of = "object", Listed(p, i, x, key, M)
  PROVE  Listed(p, i + 1, x, key, M)
<1>1. p[i + 1].of # "list"
  OBVIOUS
<1>2. StepsOf(StepsUpTo(p, i + 1), "list") = StepsOf(StepsUpTo(p, i), "list")
  BY <1>1, StepsFurther, Zenon
<1> QED
  BY <1>2, Zenon DEF Listed

LEMMA ListedList ==
  ASSUME NEW k \in Nat, NEW p \in [1..k -> Steps], NEW i \in 0..(k - 1), NEW x \in Nat,
         NEW key, NEW M, p[i + 1].of = "list", Listed(p, i, x, key, M),
         IsPosition(key, M, x + 1, p[i + 1])
  PROVE  Listed(p, i + 1, x + 1, key, M)
<1>1. PICK q \in [1..x -> Steps] : q = StepsOf(StepsUpTo(p, i), "list")
  BY Zenon DEF Listed
<1>2. \A y \in 1..x : IsPosition(key, M, y, q[y])
  BY <1>1, Zenon DEF Listed
<1>3. PICK s \in Steps : s = p[i + 1]
  OBVIOUS
<1>4. PICK r : r = Append(q, s)
  OBVIOUS
<1>5. StepsOf(StepsUpTo(p, i + 1), "list") = r
  <2>1. StepsOf(StepsUpTo(p, i + 1), "list") = Append(StepsOf(StepsUpTo(p, i), "list"), p[i + 1])
    BY StepsFurther, Zenon
  <2> QED
    BY <1>1, <1>3, <1>4, <2>1, Zenon
<1>6. Extends(r, Steps, x, q, s)
  BY <1>4, Appended, Zenon
<1>7. r \in [1..(x + 1) -> Steps] /\ r[x + 1] = s /\ \A j \in 1..x : r[j] = q[j]
  BY <1>6, Zenon DEF Extends
<1>8. \A y \in 1..(x + 1) : y \in 1..x \/ y = x + 1
  OBVIOUS
<1>9. ASSUME NEW y \in 1..(x + 1) PROVE IsPosition(key, M, y, r[y])
  BY <1>2, <1>3, <1>7, <1>8, Zenon
<1> QED
  BY <1>5, <1>7, <1>9, Zenon DEF Listed

(* Behind its first x matches, M is r.                                      *)
Behind(M, N, x, r) ==
  \E m \in Nat : N = x + m /\ r \in [1..m -> Match] /\ \A y \in 1..m : M[x + y] = r[y]

LEMMA BehindFirst ==
  ASSUME NEW N \in Nat, NEW M \in [1..N -> Match]
  PROVE  Behind(M, N, 0, M)
<1>1. N = 0 + N /\ \A y \in 1..N : M[0 + y] = M[y]
  OBVIOUS
<1> QED
  BY <1>1 DEF Behind

LEMMA BehindStep ==
  ASSUME NEW N \in Nat, NEW M, NEW x \in Nat, NEW f \in Match, NEW r \in Seq(Match),
         Behind(M, N, x, <<f>> \o r)
  PROVE  /\ x + 1 \in 0..N /\ M[x + 1] = f
         /\ Behind(M, N, x + 1, r)
<1>1. PICK l \in Nat : Len(r) = l /\ r \in [1..l -> Match]
  BY SequenceOf
<1>2. <<f>> \in [1..1 -> Match] /\ <<f>>[1] = f
  OBVIOUS
<1>3. PICK h \in [1..1 -> Match] : h = <<f>> /\ h[1] = f
  BY <1>2
<1>4. PICK q : q = <<f>> \o r
  OBVIOUS
<1>5. Joins(q, Match, 1, h, l, r)
  BY <1>1, <1>3, <1>4, Concatenated, Zenon
<1>6. /\ q \in [1..(1 + l) -> Match] /\ (\A i \in 1..1 : q[i] = h[i])
      /\ \A i \in 1..l : q[1 + i] = r[i]
  BY <1>5, Zenon DEF Joins
<1>7. PICK m \in Nat : N = x + m /\ q \in [1..m -> Match] /\ \A y \in 1..m : M[x + y] = q[y]
  BY <1>4, Zenon DEF Behind
<1>8. m = 1 + l
  <2>1. 1..m = 1..(1 + l)
    BY <1>6, <1>7, Zenon
  <2> QED
    BY <2>1, SameLength
<1>9. x + 1 \in 0..N /\ N = (x + 1) + l
  BY <1>7, <1>8
<1>10. M[x + 1] = f
  <2>1. 1 \in 1..m /\ 1 \in 1..1
    BY <1>8
  <2> QED
    BY <1>3, <1>6, <1>7, <2>1, Zenon
<1>11. ASSUME NEW y \in 1..l PROVE M[(x + 1) + y] = r[y]
  <2>1. 1 + y \in 1..m /\ x + (1 + y) = (x + 1) + y
    BY <1>8
  <2> QED
    BY <1>6, <1>7, <2>1, Zenon
<1> QED
  BY <1>1, <1>9, <1>10, <1>11, Zenon DEF Behind

LEMMA BehindLast ==
  ASSUME NEW N \in Nat, NEW M, NEW x \in Nat, Behind(M, N, x, <<>>)
  PROVE  x = N
<1>1. PICK m \in Nat : N = x + m /\ <<>> \in [1..m -> Match]
  BY Zenon DEF Behind
<1>2. m = 0
  <2>1. Len(<<>>) = m /\ Len(<<>>) = 0
    BY <1>1, IsSequence
  <2> QED
    BY <2>1
<1> QED
  BY <1>1, <1>2

(* C, of c tokens, is the key of the members among the first i steps.       *)
Kept(p, i, c, C) ==
  /\ StepsOf(StepsUpTo(p, i), "object") \in Seq(Steps)
  /\ C = Flatten(StepsOf(StepsUpTo(p, i), "object"))
  /\ C \in [1..c -> Tokens] /\ Tidied(c, C)
  /\ i # 0 => c # 0
  /\ i = 0 => c = 0 /\ C = <<>>

LEMMA KeptFirst ==
  ASSUME NEW k \in Nat, NEW p \in [1..k -> Steps]
  PROVE  Kept(p, 0, 0, <<>>)
<1>1. StepsOf(StepsUpTo(p, 0), "object") = <<>>
  BY StepsUpToAre, StepsEmpty, Zenon
<1>2. <<>> \in Seq(Steps) /\ <<>> \in [1..0 -> Tokens]
  OBVIOUS
<1>3. Tidied(0, <<>>)
  BY Zenon DEF Tidied
<1> QED
  BY <1>1, <1>2, <1>3, FlattenEmpty, Zenon DEF Kept

LEMMA KeptList ==
  ASSUME NEW k \in Nat, NEW p \in [1..k -> Steps], NEW i \in 1..(k - 1), NEW c, NEW C,
         p[i + 1].of = "list", Kept(p, i, c, C)
  PROVE  Kept(p, i + 1, c, C)
<1>0. PICK h \in 0..(k - 1) : h = i
  OBVIOUS
<1>1. p[h + 1].of # "object"
  BY <1>0
<1>2. StepsOf(StepsUpTo(p, h + 1), "object") = StepsOf(StepsUpTo(p, h), "object")
  BY <1>1, StepsFurther, Zenon
<1>3. i # 0 /\ i + 1 # 0
  OBVIOUS
<1> QED
  BY <1>0, <1>2, <1>3, Zenon DEF Kept

LEMMA KeptMember ==
  ASSUME NEW k \in Nat, NEW p, NEW n \in Nat, NEW key, NEW end, Parsable(k, p),
         Laid(key, n, k, p, end), NEW i \in 0..(k - 1), p[i + 1].of = "object",
         NEW c \in Nat, NEW C, Kept(p, i, c, C)
  PROVE  \E m \in Nat : \E B : /\ end[i + 1] = end[i] + m /\ Kept(p, i + 1, c + m, B)
                               /\ Followed(B, c, C, m, key, end[i])
<1>1. p \in [1..k -> Steps]
  BY ParsableIs
<1>2. StepPlaced(key, n, k, p, end, i)
  BY InKey, Zenon
<1>3. PICK l \in Nat : \E name \in [1..l -> Tokens] : IsName(p[i + 1], l, name)
  <2>1. PICK j \in 1..k : j = i + 1
    OBVIOUS
  <2>2. \E l \in Nat : \E name \in [1..l -> Tokens] : IsName(p[j], l, name)
    BY <2>1, MemberIs
  <2> QED
    BY <2>1, <2>2, Zenon
<1>4. PICK name \in [1..l -> Tokens] : IsName(p[i + 1], l, name)
  BY <1>3, Zenon
<1>5. PICK s \in Steps : s = p[i + 1]
  <2>1. i + 1 \in 1..k
    OBVIOUS
  <2> QED
    BY <1>1, <2>1
<1>6. name = s.name /\ PlainTokens(l, name)
  BY <1>4, <1>5, Zenon DEF IsName
<1>7. PICK q \in Seq(Steps) : q = StepsOf(StepsUpTo(p, i), "object")
  BY Zenon DEF Kept
<1>8. C = Flatten(q) /\ C \in [1..c -> Tokens] /\ Tidied(c, C)
  BY <1>7, Zenon DEF Kept
<1>9. PICK B : B = Further(C, s)
  OBVIOUS
<1>10. PICK r : r = Append(q, s)
  OBVIOUS
<1>11. r \in Seq(Steps) /\ B = Flatten(r)
  <2>1. r \in Seq(Steps)
    BY <1>10, AppendProperties
  <2>2. PICK w \in Nat : q \in [1..w -> Steps]
    BY SequenceOf
  <2>3. Flatten(Append(q, s)) = Further(Flatten(q), s)
    BY <2>2, FlattenAppend
  <2> QED
    BY <1>8, <1>9, <1>10, <2>1, <2>3, Zenon
<1>12. StepsOf(StepsUpTo(p, i + 1), "object") = r
  <2>1. StepsOf(StepsUpTo(p, i + 1), "object") = Append(StepsOf(StepsUpTo(p, i), "object"), p[i + 1])
    BY <1>1, StepsFurther, Zenon
  <2> QED
    BY <1>5, <1>7, <1>10, <2>1, Zenon
<1>13. ASSUME NEW d \in Nat, d # 0, B \in [1..d -> Tokens], Tidied(d, B)
       PROVE  Kept(p, i + 1, d, B)
  <2>1. i + 1 # 0
    OBVIOUS
  <2> QED
    BY <1>11, <1>12, <1>13, <2>1, Zenon DEF Kept
<1>14. /\ end[i] \in Nat /\ end[i + 1] = BeginOf(end, i + 1) + l
       /\ i = 0 => end[i] = 0 /\ BeginOf(end, i + 1) = 0
       /\ i # 0 => BeginOf(end, i + 1) = end[i] + 1
  BY <1>2, <1>4, Zenon DEF StepPlaced, IsName
<1>15. NameAfter(key, BeginOf(end, i + 1), l, name)
  BY <1>2, <1>4, Zenon DEF StepPlaced, IsName, NameAfter
<1>16. l # 0
  BY <1>6, Zenon DEF PlainTokens
<1>17. CASE i = 0
  <2>1. c = 0 /\ C = <<>> /\ s.of = "object"
    BY <1>5, <1>17, Zenon DEF Kept
  <2>2. B = name
    BY <1>6, <1>9, <2>1, Zenon DEF Further
  <2>3. Followed(B, c, C, l, key, end[i])
    <3>1. NameAfter(key, 0, l, name)
      BY <1>14, <1>15, <1>17, Zenon
    <3>2. Followed(name, 0, C, l, key, 0)
      BY <3>1, NameFollowed, Zenon
    <3> QED
      BY <1>14, <1>17, <2>1, <2>2, <3>2, Zenon
  <2>4. Kept(p, i + 1, l, B)
    BY <1>6, <1>13, <1>16, <2>2, PlainTidied, Zenon
  <2>5. c + l = l
    <3>1. c = 0
      BY <2>1, Zenon
    <3> QED
      BY <3>1
  <2>6. end[i + 1] = end[i] + l
    BY <1>14, <1>17
  <2> QED
    BY <2>3, <2>4, <2>5, <2>6, Zenon
<1>18. CASE i # 0
  <2>1. c # 0 /\ Separated(key, end[i])
    BY <1>2, <1>18, Zenon DEF Kept, StepPlaced, Separated
  <2>2. Linked(B, c, C, l, name)
    BY <1>6, <1>8, <1>9, <2>1, FurtherIs, Zenon
  <2>3. Tidied(c + 1 + l, B)
    BY <1>6, <1>8, <2>1, <2>2, LinkedTidied, Zenon
  <2>4. B \in [1..(c + 1 + l) -> Tokens]
    BY <2>2, Zenon DEF Linked
  <2>5. PICK m \in Nat : m = l + 1 /\ c + 1 + l = c + m /\ c + m # 0 /\ c + m \in Nat
    OBVIOUS
  <2>6. Kept(p, i + 1, c + m, B)
    BY <1>13, <2>3, <2>4, <2>5, Zenon
  <2>7. NameAfter(key, end[i] + 1, l, name)
    BY <1>14, <1>15, <1>18, Zenon
  <2>8. PICK e \in Nat : e = end[i]
    BY <1>14
  <2>9. Followed(B, c, C, l + 1, key, e)
    BY <2>1, <2>2, <2>7, <2>8, LinkedFollowed, Zenon
  <2>10. end[i + 1] = end[i] + m
    <3>1. end[i + 1] = (e + 1) + l
      BY <1>14, <1>18, <2>8, Zenon
    <3>2. (e + 1) + l = e + m
      BY <2>5
    <3> QED
      BY <2>8, <3>1, <3>2, Zenon
  <2> QED
    BY <2>5, <2>6, <2>8, <2>9, <2>10, Zenon
<1> QED
  BY <1>17, <1>18

(* What is left of the key, d, when the first i steps are done.             *)
Left(d, c, C, n, key, e) ==
  /\ c <= e /\ e <= n /\ d.offset = e - c
  /\ \E m \in Nat : n = e + m /\ Followed(d.text, c, C, m, key, e)

LEMMA FollowedFurther ==
  ASSUME NEW c \in Nat, NEW C, NEW m \in Nat, NEW B, NEW key, NEW e \in Nat,
         Followed(B, c, C, m, key, e), NEW l \in Nat, NEW t,
         Followed(t, c, C, m + l, key, e)
  PROVE  Followed(t, c + m, B, l, key, e + m)
<1>1. /\ t \in [1..(c + (m + l)) -> Tokens]
      /\ \A y \in 1..c : t[y] = C[y]
      /\ \A y \in 1..(m + l) : t[c + y] = key[e + y]
  BY Zenon DEF Followed
<1>2. (\A y \in 1..c : B[y] = C[y]) /\ \A y \in 1..m : B[c + y] = key[e + y]
  BY Zenon DEF Followed
<1>3. c + (m + l) = (c + m) + l
  OBVIOUS
<1>4. ASSUME NEW y \in 1..(c + m) PROVE t[y] = B[y]
  <2>1. CASE y <= c
    <3>1. y \in 1..c
      BY <2>1
    <3> QED
      BY <1>1, <1>2, <3>1, Zenon
  <2>2. CASE y > c
    <3>1. PICK z \in 1..m : z = y - c
      BY <2>2
    <3>2. y = c + z /\ z \in 1..(m + l)
      BY <3>1
    <3> QED
      BY <1>1, <1>2, <3>2, Zenon
  <2>3. y <= c \/ y > c
    OBVIOUS
  <2> QED
    BY <2>1, <2>2, <2>3
<1>5. ASSUME NEW y \in 1..l PROVE t[(c + m) + y] = key[(e + m) + y]
  <2>1. c + (m + y) = (c + m) + y /\ e + (m + y) = (e + m) + y /\ m + y \in 1..(m + l)
    OBVIOUS
  <2>2. t[c + (m + y)] = key[e + (m + y)]
    BY <1>1, <2>1, Zenon
  <2> QED
    BY <2>1, <2>2, Zenon
<1> QED
  BY <1>1, <1>3, <1>4, <1>5, Zenon DEF Followed

LEMMA LeftFirst ==
  ASSUME NEW n \in Nat, NEW key \in [1..n -> Tokens], NEW d,
         d = [text |-> key, offset |-> 0]
  PROVE  Left(d, 0, <<>>, n, key, 0)
<1>1. d.text = key /\ d.offset = 0
  OBVIOUS
<1>2. 0 <= 0 /\ 0 <= n /\ 0 = 0 - 0 /\ n = 0 + n
  OBVIOUS
<1>3. ~\E y : y \in 1..0
  OBVIOUS
<1>4. \A y \in 1..n : 0 + y = y
  OBVIOUS
<1>5. Followed(key, 0, <<>>, n, key, 0)
  BY <1>2, <1>3, <1>4, Zenon DEF Followed
<1> QED
  BY <1>1, <1>2, <1>5, Zenon DEF Left

LEMMA LeftMember ==
  ASSUME NEW n \in Nat, NEW key, NEW e \in Nat, NEW d, NEW c \in Nat, NEW C, NEW m \in Nat,
         NEW B, Left(d, c, C, n, key, e), Followed(B, c, C, m, key, e), e + m <= n
  PROVE  Left(d, c + m, B, n, key, e + m)
<1>1. PICK r \in Nat : n = e + r /\ Followed(d.text, c, C, r, key, e)
  BY Zenon DEF Left
<1>2. c <= e /\ d.offset = e - c
  BY Zenon DEF Left
<1>3. PICK l \in Nat : r = m + l /\ n = (e + m) + l
  <2>1. r - m \in Nat /\ r = m + (r - m) /\ n = (e + m) + (r - m)
    BY <1>1
  <2> QED
    BY <2>1
<1>4. Followed(d.text, c + m, B, l, key, e + m)
  BY <1>1, <1>3, FollowedFurther, Zenon
<1>5. c + m <= e + m /\ d.offset = (e + m) - (c + m)
  BY <1>2
<1> QED
  BY <1>3, <1>4, <1>5, Zenon DEF Left

LEMMA LeftList ==
  ASSUME NEW n \in Nat, NEW key, NEW e \in Nat, NEW d, NEW c \in Nat, NEW C,
         Left(d, c, C, n, key, e), e + 2 <= n, NEW f, IsCut(key, e, n - e, f)
  PROVE  Left(Cut(d, f), c, C, n, key, e + 2)
<1>1. PICK m \in Nat : n = e + m /\ Followed(d.text, c, C, m, key, e)
  BY Zenon DEF Left
<1>2. c <= e /\ d.offset = e - c
  BY Zenon DEF Left
<1>3. n - e = m /\ m >= 2
  BY <1>1
<1>4. IsCut(key, e, m, f)
  BY <1>3, Zenon
<1>5. /\ Cut(d, f).offset = (e + 2) - c
      /\ Followed(Cut(d, f).text, c, C, m - 2, key, e + 2)
  BY <1>1, <1>2, <1>3, <1>4, CutIs, Zenon
<1>6. m - 2 \in Nat /\ n = (e + 2) + (m - 2) /\ c <= e + 2
  BY <1>1, <1>2, <1>3
<1> QED
  BY <1>5, <1>6, Zenon DEF Left

LEMMA LeftLast ==
  ASSUME NEW n \in Nat, NEW key, NEW d, NEW c \in Nat, NEW C \in [1..c -> Tokens],
         Left(d, c, C, n, key, n)
  PROVE  d.text = C
<1>1. PICK m \in Nat : n = n + m /\ Followed(d.text, c, C, m, key, n)
  BY Zenon DEF Left
<1>2. c + m = c
  BY <1>1
<1>3. d.text \in [1..c -> Tokens] /\ \A y \in 1..c : d.text[y] = C[y]
  BY <1>1, <1>2, Zenon DEF Followed
<1> QED
  BY <1>3

(* NameAfter i steps: the matches so far are their positions, the others are    *)
(* behind, and the key is cut accordingly.                                  *)
Swept(n, p, key, end, g, N, M, D, i) ==
  \E x \in 0..N : \E c \in Nat : \E C :
    /\ Listed(p, i, x, key, M) /\ Behind(M, N, x, g[end[i] + 1])
    /\ Kept(p, i, c, C) /\ Left(D[x], c, C, n, key, end[i])

LEMMA SweptFirst ==
  ASSUME NEW k \in Nat, NEW p, NEW n \in Nat, NEW key, NEW end, NEW g,
         Scan(key, n, k, p, end, g), NEW N \in Nat, NEW M \in [1..N -> Match], M = g[1],
         NEW D, CutBy(D, N, key, M)
  PROVE  Swept(n, p, key, end, g, N, M, D, 0)
<1>1. /\ Parsable(k, p) /\ Laid(key, n, k, p, end)
  BY Zenon DEF Scan
<1>2. p \in [1..k -> Steps]
  BY <1>1, ParsableIs
<1>3. end[0] = 0 /\ key \in [1..n -> Tokens]
  BY <1>1, Zenon DEF Laid, Ends
<1>4. 0 \in 0..N /\ end[0] + 1 = 1 /\ 0 \in Nat
  BY <1>3
<1>5. CutAt(D, key, M, 0)
  BY <1>4, CutStep, Zenon
<1>6. D[0] = [text |-> key, offset |-> 0]
  BY <1>5, Zenon DEF CutAt
<1>7. Left(D[0], 0, <<>>, n, key, 0)
  BY <1>3, <1>6, LeftFirst, Zenon
<1>8. Listed(p, 0, 0, key, M)
  BY <1>2, ListedFirst, Zenon
<1>9. Behind(M, N, 0, M)
  BY BehindFirst, Zenon
<1>10. Kept(p, 0, 0, <<>>)
  BY <1>2, KeptFirst, Zenon
<1> QED
  BY <1>3, <1>4, <1>7, <1>8, <1>9, <1>10, Zenon DEF Swept

LEMMA SweptMember ==
  ASSUME NEW k \in Nat, NEW p, NEW n \in Nat, NEW key, NEW end, NEW g,
         Scan(key, n, k, p, end, g), NEW N \in Nat, NEW M, NEW D,
         NEW i \in 0..(k - 1), p[i + 1].of = "object", Swept(n, p, key, end, g, N, M, D, i)
  PROVE  Swept(n, p, key, end, g, N, M, D, i + 1)
<1>1. Parsable(k, p) /\ Laid(key, n, k, p, end)
  BY Zenon DEF Scan
<1>2. p \in [1..k -> Steps]
  BY <1>1, ParsableIs
<1>3. PICK x \in 0..N : \E c \in Nat : \E C :
         /\ Listed(p, i, x, key, M) /\ Behind(M, N, x, g[end[i] + 1])
         /\ Kept(p, i, c, C) /\ Left(D[x], c, C, n, key, end[i])
  BY Zenon DEF Swept
<1>4. PICK c \in Nat : \E C :
         /\ Listed(p, i, x, key, M) /\ Behind(M, N, x, g[end[i] + 1])
         /\ Kept(p, i, c, C) /\ Left(D[x], c, C, n, key, end[i])
  BY <1>3, Zenon
<1>5. PICK C :
         /\ Listed(p, i, x, key, M) /\ Behind(M, N, x, g[end[i] + 1])
         /\ Kept(p, i, c, C) /\ Left(D[x], c, C, n, key, end[i])
  BY <1>4, Zenon
<1>6. Listed(p, i + 1, x, key, M)
  BY <1>2, <1>5, ListedMember, Zenon
<1>7. g[end[i] + 1] = g[end[i + 1] + 1]
  <2>1. PassedOver(g, n, end, i)
    BY MemberStep, Zenon
  <2> QED
    BY <2>1, Zenon DEF PassedOver
<1>8. PICK m \in Nat : \E B : /\ end[i + 1] = end[i] + m /\ Kept(p, i + 1, c + m, B)
                              /\ Followed(B, c, C, m, key, end[i])
  BY <1>1, <1>5, KeptMember, Zenon
<1>9. PICK B : /\ end[i + 1] = end[i] + m /\ Kept(p, i + 1, c + m, B)
               /\ Followed(B, c, C, m, key, end[i])
  BY <1>8, Zenon
<1>10. end[i] \in Nat /\ end[i + 1] <= n
  <2>1. StepPlaced(key, n, k, p, end, i)
    BY <1>1, InKey, Zenon
  <2> QED
    BY <2>1, Zenon DEF StepPlaced
<1>11. Left(D[x], c + m, B, n, key, end[i + 1])
  BY <1>5, <1>9, <1>10, LeftMember, Zenon
<1>12. c + m \in Nat
  OBVIOUS
<1> QED
  BY <1>5, <1>6, <1>7, <1>9, <1>11, <1>12, Zenon DEF Swept

LEMMA SweptList ==
  ASSUME NEW k \in Nat, NEW p, NEW n \in Nat, NEW key, NEW end, NEW g,
         Scan(key, n, k, p, end, g), NEW N \in Nat, NEW M, NEW D, CutBy(D, N, key, M),
         NEW i \in 1..(k - 1), p[i + 1].of = "list", Swept(n, p, key, end, g, N, M, D, i)
  PROVE  Swept(n, p, key, end, g, N, M, D, i + 1)
<1>1. Parsable(k, p) /\ Laid(key, n, k, p, end) /\ Found(g, n, key)
  BY Zenon DEF Scan
<1>2. p \in [1..k -> Steps]
  BY <1>1, ParsableIs
<1>3. PICK x \in 0..N : \E c \in Nat : \E C :
         /\ Listed(p, i, x, key, M) /\ Behind(M, N, x, g[end[i] + 1])
         /\ Kept(p, i, c, C) /\ Left(D[x], c, C, n, key, end[i])
  BY Zenon DEF Swept
<1>4. PICK c \in Nat : \E C :
         /\ Listed(p, i, x, key, M) /\ Behind(M, N, x, g[end[i] + 1])
         /\ Kept(p, i, c, C) /\ Left(D[x], c, C, n, key, end[i])
  BY <1>3, Zenon
<1>5. PICK C :
         /\ Listed(p, i, x, key, M) /\ Behind(M, N, x, g[end[i] + 1])
         /\ Kept(p, i, c, C) /\ Left(D[x], c, C, n, key, end[i])
  BY <1>4, Zenon
<1>6. PICK h \in 0..(k - 1) : h = i
  OBVIOUS
<1>7. end[i] \in Nat /\ end[i + 1] \in Nat /\ end[i + 1] <= n /\ (i + 1 = k => end[i + 1] = n)
  <2>1. StepPlaced(key, n, k, p, end, h)
    BY <1>1, InKey, Zenon
  <2> QED
    BY <1>6, <2>1, Zenon DEF StepPlaced
<1>8. PICK e \in Nat : e = end[i]
  BY <1>7
<1>9. PICK next \in Nat : \E r : MatchOf(n, key, k, p, end, g, i, next, r)
  BY ListStep, Zenon
<1>10. PICK r :
         /\ g[end[i] + 1] = <<[start |-> end[i] + 1, next |-> next]>> \o r
         /\ r = g[end[i + 1] + 1] /\ end[i + 1] = end[i] + 2
         /\ next = IF i + 1 = k THEN n + 1 ELSE end[i + 1] + 2
         /\ key[end[i] + 2] = p[i + 1].name[1]
         /\ i + 1 = k => key[n] # "_"
         /\ i + 1 # k => key[end[i + 1] + 1] = "_" /\ next <= n
  BY <1>9, Zenon DEF MatchOf
<1>11. PICK f \in Match : f = [start |-> e + 1, next |-> next] /\ f.start = e + 1 /\ f.next = next
  BY IsMatch
<1>12. r \in Seq(Match)
  <2>1. end[i + 1] + 1 \in Nat
    BY <1>7
  <2>2. g[end[i + 1] + 1] \in Seq(Match)
    BY <1>1, <2>1, FoundType, Zenon
  <2> QED
    BY <1>10, <2>2, Zenon
<1>13. Behind(M, N, x, <<f>> \o r)
  BY <1>5, <1>8, <1>10, <1>11, Zenon
<1>14. x \in Nat
  OBVIOUS
<1>15. x + 1 \in 0..N /\ M[x + 1] = f /\ Behind(M, N, x + 1, r)
  BY <1>12, <1>13, <1>14, BehindStep, Zenon
<1>16. IsPosition(key, M, x + 1, p[i + 1])
  <2>1. (e + 1) + 1 = e + 2
    OBVIOUS
  <2>2. key[(e + 1) + 1] = p[i + 1].name[1]
    BY <1>8, <1>10, <2>1, Zenon
  <2> QED
    BY <1>11, <1>15, <2>2, Zenon DEF IsPosition
<1>17. Listed(p, i + 1, x + 1, key, M)
  BY <1>2, <1>5, <1>6, <1>14, <1>16, ListedList, Zenon
<1>18. D[x + 1] = Cut(D[x], f)
  <2>1. CutAt(D, key, M, x + 1)
    BY <1>15, CutStep, Zenon
  <2>2. x + 1 # 0 /\ (x + 1) - 1 = x
    OBVIOUS
  <2> QED
    BY <1>15, <2>1, <2>2, Zenon DEF CutAt
<1>19. end[i + 1] = e + 2 /\ e + 2 <= n
  BY <1>7, <1>8, <1>10, Zenon
<1>20. IsCut(key, e, n - e, f)
  <2>1. CASE i + 1 = k
    <3>1. e + 2 = n /\ f.next = n + 1
      BY <1>7, <1>10, <1>11, <1>19, <2>1, Zenon
    <3>2. n - e = 2 /\ f.next = e + 3
      BY <3>1
    <3>3. key[e + 2] # "_"
      BY <1>10, <2>1, <3>1, Zenon
    <3> QED
      BY <1>11, <3>2, <3>3, Zenon DEF IsCut
  <2>2. CASE i + 1 # k
    <3>1. f.next = (e + 2) + 2 /\ f.next <= n /\ f.next = next
      BY <1>10, <1>11, <1>19, <2>2, Zenon
    <3>2. n - e >= 4 /\ f.next = e + 4 /\ (e + 2) + 1 = e + 3
      BY <3>1
    <3>3. key[e + 3] = "_"
      BY <1>10, <1>19, <2>2, <3>2, Zenon
    <3> QED
      BY <1>11, <3>2, <3>3, Zenon DEF IsCut
  <2> QED
    BY <2>1, <2>2
<1>21. Left(D[x + 1], c, C, n, key, end[i + 1])
  BY <1>5, <1>8, <1>18, <1>19, <1>20, LeftList, Zenon
<1>22. Kept(p, i + 1, c, C)
  BY <1>2, <1>5, KeptList, Zenon
<1> QED
  BY <1>10, <1>15, <1>17, <1>21, <1>22, Zenon DEF Swept

LEMMA SweptAll ==
  ASSUME NEW k \in Nat, NEW p, NEW n \in Nat, NEW key, NEW end, NEW g,
         Scan(key, n, k, p, end, g), NEW N \in Nat, NEW M \in [1..N -> Match], M = g[1],
         NEW D, CutBy(D, N, key, M)
  PROVE  Swept(n, p, key, end, g, N, M, D, k)
<1> DEFINE T == {i \in Nat : i <= k => Swept(n, p, key, end, g, N, M, D, i)}
<1>1. 0 \in T
  BY SweptFirst
<1>2. ASSUME NEW i \in Nat, i \in T PROVE i + 1 \in T
  <2>1. SUFFICES ASSUME i + 1 <= k PROVE Swept(n, p, key, end, g, N, M, D, i + 1)
    OBVIOUS
  <2>2. i \in 0..(k - 1) /\ i + 1 \in 1..k /\ (i # 0 => i \in 1..(k - 1)) /\ (i = 0 => i + 1 = 1)
    BY <2>1
  <2>3. Swept(n, p, key, end, g, N, M, D, i)
    BY <1>2, <2>1
  <2> HIDE DEF T
  <2>4. Parsable(k, p)
    BY Zenon DEF Scan
  <2>5. p[i + 1].of \in {"object", "list"}
    <3>1. p[i + 1] \in Steps
      BY <2>2, <2>4, ParsableIs
    <3> QED
      BY <3>1, StepType, Zenon
  <2>6. CASE p[i + 1].of = "object"
    BY <2>2, <2>3, <2>6, SweptMember, Zenon
  <2>7. CASE p[i + 1].of = "list"
    <3>1. p[1].of # "list"
      <4>1. p[1].of = "object"
        BY <2>4, Zenon DEF Parsable
      <4> QED
        BY <4>1
    <3>2. i \in 1..(k - 1)
      BY <2>2, <2>7, <3>1, Zenon
    <3> QED
      BY <2>3, <2>7, <3>2, SweptList, Zenon
  <2> QED
    BY <2>5, <2>6, <2>7, Zenon
<1> HIDE DEF T
<1>3. k \in T
  BY <1>1, <1>2, Induction
<1>4. k <= k
  OBVIOUS
<1> QED
  BY <1>3, <1>4 DEF T

(* Nothing is left to tidy.                                                 *)
LEMMA TidyIs ==
  ASSUME NEW c \in Nat, NEW C \in [1..c -> Tokens], Tidied(c, C)
  PROVE  Tidy(C) = C
<1>1. Len(C) = c /\ DOMAIN C = 1..c
  BY IsSequence
<1>2. PICK I : I = {i \in DOMAIN C : C[i] # "_" \/ /\ i < Len(C) /\ C[i + 1] # "_"
                                                   /\ \E j \in 1 .. i - 1 : C[j] # "_"}
  OBVIOUS
<1>3. ASSUME NEW i \in 1..c PROVE i \in I
  <2>1. CASE C[i] # "_"
    BY <1>1, <1>2, <2>1, Zenon
  <2>2. CASE C[i] = "_"
    <3>1. c # 0
      OBVIOUS
    <3>2. C[1] # "_" /\ C[c] # "_" /\ \A y \in 1..(c - 1) : C[y] = "_" => C[y + 1] # "_"
      BY <3>1, Zenon DEF Tidied
    <3>3. i # 1 /\ i # c
      BY <2>2, <3>2, Zenon
    <3>4. i < c /\ i \in 1..(c - 1) /\ 1 \in 1 .. i - 1
      BY <3>3
    <3> QED
      BY <1>1, <1>2, <2>2, <3>2, <3>4, Zenon
  <2> QED
    BY <2>1, <2>2
<1>4. At(C, I) = C
  <2>1. 1..c \subseteq I
    BY <1>3, Zenon
  <2> QED
    BY <2>1, AtAll
<1> QED
  BY <1>2, <1>4, Zenon DEF Tidy

LEMMA ParsedIs ==
  ASSUME NEW k \in Nat, NEW p, Parsable(k, p)
  PROVE  Parsed(p) = Expected(p)
<1>1. p \in [1..k -> Steps] /\ Begun(k, p)
  BY ParsableIs
<1>2. PICK key : key = Flatten(p)
  OBVIOUS
<1>3. PICK n \in Nat : \E end : Laid(key, n, k, p, end)
  BY <1>1, <1>2, LaidOut
<1>4. PICK end : Laid(key, n, k, p, end)
  BY <1>3, Zenon
<1>5. key \in [1..n -> Tokens] /\ end[k] = n
  BY <1>4, Zenon DEF Laid, Ends
<1>6. PICK g : Found(g, n, key) /\ Matches(key) = g[1]
  BY <1>5, MatchesIs, Zenon
<1>7. Scan(key, n, k, p, end, g)
  BY <1>4, <1>6, Zenon DEF Scan
<1>8. PICK M \in Seq(Match) : M = g[1]
  BY <1>6, FoundType
<1>9. PICK N \in Nat : Len(M) = N /\ M \in [1..N -> Match]
  BY SequenceOf
<1>10. PICK D : CutBy(D, N, key, M) /\ WithoutMatches(key, M) = D[N].text
  BY <1>9, WithoutMatchesIs
<1>11. Swept(n, p, key, end, g, N, M, D, k)
  BY <1>7, <1>8, <1>9, <1>10, SweptAll, Zenon
<1>12. PICK x \in 0..N : \E c \in Nat : \E C :
         /\ Listed(p, k, x, key, M) /\ Behind(M, N, x, g[end[k] + 1])
         /\ Kept(p, k, c, C) /\ Left(D[x], c, C, n, key, end[k])
  BY <1>11, Zenon DEF Swept
<1>13. PICK c \in Nat : \E C :
         /\ Listed(p, k, x, key, M) /\ Behind(M, N, x, g[end[k] + 1])
         /\ Kept(p, k, c, C) /\ Left(D[x], c, C, n, key, end[k])
  BY <1>12, Zenon
<1>14. PICK C :
         /\ Listed(p, k, x, key, M) /\ Behind(M, N, x, g[end[k] + 1])
         /\ Kept(p, k, c, C) /\ Left(D[x], c, C, n, key, end[k])
  BY <1>13, Zenon
<1>15. g[n + 1] = <<>>
  <2>1. n + 1 \in Nat /\ n + 1 >= n
    OBVIOUS
  <2> QED
    BY <1>6, <2>1, FoundStep
<1>16. x = N
  <2>1. x \in Nat /\ Behind(M, N, x, <<>>)
    BY <1>5, <1>14, <1>15
  <2> QED
    BY <2>1, BehindLast, Zenon
<1>17. StepsUpTo(p, k) = p
  BY <1>1, StepsUpToAre
<1>18. C \in [1..c -> Tokens] /\ Tidied(c, C) /\ C = Flatten(StepsOf(p, "object"))
  BY <1>14, <1>17, Zenon DEF Kept
<1>19. D[N].text = C
  <2>1. Left(D[N], c, C, n, key, n)
    BY <1>5, <1>14, <1>16, Zenon
  <2> QED
    BY <1>18, <2>1, LeftLast, Zenon
<1>20. Cleaned(key) = C
  <2>1. Cleaned(key) = Tidy(C)
    BY <1>6, <1>8, <1>10, <1>19, Zenon DEF Cleaned
  <2> QED
    BY <1>18, <2>1, TidyIs, Zenon
<1>21. PICK L \in [1..N -> Steps] : L = StepsOf(p, "list")
  BY <1>14, <1>16, <1>17, Zenon DEF Listed
<1>22. \A y \in 1..N : key[M[y].start + 1] = L[y].name[1]
  BY <1>14, <1>16, <1>17, <1>21, Zenon DEF Listed, IsPosition
<1>23. Indices(key) = [i \in DOMAIN L |-> L[i].name[1]]
  <2>1. DOMAIN M = 1..N /\ DOMAIN L = 1..N
    BY <1>9
  <2>2. Indices(key) = [i \in DOMAIN M |-> key[M[i].start + 1]]
    BY <1>6, <1>8, Zenon DEF Indices
  <2> QED
    BY <1>22, <2>1, <2>2, Zenon
<1>24. Parsed(p) = [key |-> Joined(C), indices |-> Indices(key)]
  BY <1>2, <1>20, Zenon DEF Parsed
<1>25. Expected(p) = [key |-> Joined(C), indices |-> [i \in DOMAIN L |-> L[i].name[1]]]
  BY <1>18, <1>21, Zenon DEF Expected
<1> QED
  BY <1>23, <1>24, <1>25, Zenon

(* A path of plain names, of any length, on which no list is directly in a  *)
(* list, becomes the key of its names, from the outside in, and the indices *)
(* of its positions: no cut of a match displaces another, and the final     *)
(* clean-up finds nothing.                                                  *)
THEOREM PlainIsParsed ==
  ASSUME NEW k \in Nat, NEW p \in [1..k -> Steps], k # 0, p[1].of = "object",
         Plain(p), NoListInList(p)
  PROVE  Parsed(p) = Expected(p)
<1>1. DOMAIN p = 1..k
  OBVIOUS
<1>2. \A i \in 1..k : p[i].of = "object" => PlainName(p[i].name)
  BY <1>1, Zenon DEF Plain
<1>3. ASSUME NEW i \in 1..k, i > 1, p[i].of = "list" PROVE p[i - 1].of = "object"
  <2>1. i - 1 \in 1..k
    BY <1>3
  <2>2. p[i - 1] \in Steps
    BY <2>1
  <2>3. p[i - 1].of \in {"object", "list"}
    BY <2>2, StepType, Zenon
  <2>4. {p[i].of, p[i - 1].of} # {"list"}
    BY <1>1, <1>3, Zenon DEF NoListInList
  <2> QED
    BY <1>3, <2>3, <2>4
<1>4. Parsable(k, p)
  BY <1>2, <1>3, Zenon DEF Parsable
<1> QED
  BY <1>4, ParsedIs, Zenon
=============================================================================
