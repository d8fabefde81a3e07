-------------------------- MODULE SelectionProofs --------------------------
(***************************************************************************)
(* What Select and Total compute.  The provers cannot use the library's    *)
(* induction theorems, which have an operator as a parameter; they can use *)
(* WFMin, which is about sets.  From it follow induction and recursion     *)
(* over the naturals, in a form that speaks of sets and functions.         *)
(***************************************************************************)
EXTENDS Selection, SequenceTheorems, WellFoundedInduction, TLAPS

\* A non-empty set of naturals has a least element.
LEMMA LeastNatural ==
  ASSUME NEW T, T \subseteq Nat, T # {}
  PROVE  \E x \in T : \A y \in T : x <= y
  <1> DEFINE R == OpToRel(<, Nat)
  <1>1. IsWellFoundedOn(R, Nat)
    BY NatLessThanWellFounded
  <1>2. R = {ss \in Nat \X Nat : ss[1] < ss[2]}
    BY DEF OpToRel
  <1> HIDE DEF R
  <1>3. PICK x \in T : \A y \in T : ~(<<y, x>> \in R)
    BY <1>1, WFMin
  <1>4. ASSUME NEW y \in T
        PROVE  x <= y
    <2>1. x \in Nat /\ y \in Nat
      OBVIOUS
    <2>2. ~(<<y, x>> \in R)
      BY <1>3
    <2>3. ~(y < x)
      BY <1>2, <2>1, <2>2
    <2> QED BY <2>1, <2>3
  <1> QED BY <1>3, <1>4

\* Induction: a set with 0 and the successor of each of its naturals has them all.
LEMMA SetInduction ==
  ASSUME NEW I, 0 \in I, \A n \in Nat : n \in I => n + 1 \in I
  PROVE  Nat \subseteq I
  <1> SUFFICES ASSUME Nat \ I # {}
               PROVE  FALSE
    OBVIOUS
  <1>1. PICK x \in Nat \ I : \A y \in Nat \ I : x <= y
    <2> DEFINE T == Nat \ I
    <2>1. T \subseteq Nat /\ T # {}
      OBVIOUS
    <2> HIDE DEF T
    <2>2. \E x \in T : \A y \in T : x <= y
      BY <2>1, LeastNatural
    <2> QED BY <2>2 DEF T
  <1>2. x # 0
    OBVIOUS
  <1>3. x - 1 \in Nat
    BY <1>2
  <1>4. x - 1 \in I
    BY <1>1, <1>3
  <1>5. (x - 1) + 1 \in I
    BY <1>3, <1>4
  <1> QED BY <1>5

\* f starts with b and goes on by the step function g.
Unfolds(f, b, g) == f[0] = b /\ \A n \in Nat : f[n + 1] = g[<<n, f[n]>>]

\* Recursion: a start and a step, as a function, define a sequence of values.
LEMMA PrefixRecursion ==
  ASSUME NEW V, NEW b \in V, NEW g \in [Nat \X V -> V]
  PROVE  \E f \in [Nat -> V] : Unfolds(f, b, g)
  <1> DEFINE Approx(n) == {h \in [0..n -> V] : h[0] = b /\ \A i \in 0..(n - 1) : h[i + 1] = g[<<i, h[i]>>]}
  <1>1. \A n \in Nat : \E h : h \in Approx(n)
    <2> DEFINE I == {n \in Nat : \E h : h \in Approx(n)}
    <2>1. 0 \in I
      <3>1. [i \in 0..0 |-> b] \in Approx(0)
        OBVIOUS
      <3> QED BY <3>1
    <2>2. ASSUME NEW n \in Nat, n \in I
          PROVE  n + 1 \in I
      <3>1. PICK h : h \in Approx(n)
        BY <2>2
      <3>h. /\ h \in [0..n -> V] /\ h[0] = b
            /\ \A i \in 0..(n - 1) : h[i + 1] = g[<<i, h[i]>>]
        BY <3>1
      <3> DEFINE k == [i \in 0..(n + 1) |-> IF i <= n THEN h[i] ELSE g[<<n, h[n]>>]]
      <3>2. k \in [0..(n + 1) -> V]
        <4>1. h[n] \in V
          BY <3>h
        <4>2. g[<<n, h[n]>>] \in V
          BY <4>1
        <4> QED BY <3>h, <4>2
      <3>3. k[0] = b
        BY <3>h
      <3>4. ASSUME NEW i \in 0..n
            PROVE  k[i + 1] = g[<<i, k[i]>>]
        <4>1. CASE i < n
          <5>1. i \in 0..(n - 1) /\ k[i + 1] = h[i + 1] /\ k[i] = h[i]
            BY <4>1
          <5> QED BY <3>h, <5>1
        <4>2. CASE i = n
          <5>1. ~(n + 1 <= n) /\ n + 1 \in 0..(n + 1) /\ n \in 0..(n + 1)
            OBVIOUS
          <5>2. k[n + 1] = g[<<n, h[n]>>] /\ k[n] = h[n]
            BY <5>1
          <5> QED BY <4>2, <5>2
        <4> QED BY <4>1, <4>2
      <3>5. k \in Approx(n + 1)
        <4>1. (n + 1) - 1 = n
          OBVIOUS
        <4> HIDE DEF k
        <4> QED BY <3>2, <3>3, <3>4, <4>1
      <3>6. n + 1 \in Nat
        OBVIOUS
      <3> HIDE DEF k, Approx
      <3> QED BY <3>5, <3>6
    <2> HIDE DEF I
    <2>3. Nat \subseteq I
      BY <2>1, <2>2, SetInduction
    <2> QED BY <2>3 DEF I
  <1>2. ASSUME NEW n \in Nat, NEW h \in Approx(n), NEW k \in Approx(n + 1)
        PROVE  k[n] = h[n]
    <2> DEFINE I == {i \in Nat : i <= n => k[i] = h[i]}
    <2>1. 0 \in I
      OBVIOUS
    <2>2. ASSUME NEW i \in Nat, i \in I
          PROVE  i + 1 \in I
      <3>1. CASE i + 1 <= n
        <4>1. k[i + 1] = g[<<i, k[i]>>] /\ h[i + 1] = g[<<i, h[i]>>]
          BY <3>1
        <4> QED BY <2>2, <3>1, <4>1
      <3> QED BY <3>1
    <2> HIDE DEF I
    <2>3. Nat \subseteq I
      BY <2>1, <2>2, SetInduction
    <2> QED BY <2>3 DEF I
  <1> DEFINE a == [n \in Nat |-> CHOOSE h : h \in Approx(n)]
             f == [n \in Nat |-> a[n][n]]
  <1>3. \A n \in Nat : a[n] \in Approx(n)
    <2> HIDE DEF Approx
    <2> QED BY <1>1
  <1>4. f \in [Nat -> V]
    <2>1. ASSUME NEW n \in Nat
          PROVE  a[n][n] \in V
      <3>1. a[n] \in [0..n -> V]
        BY <1>3
      <3> HIDE DEF a
      <3> QED BY <3>1
    <2> QED BY <2>1
  <1>5. f[0] = b
    BY <1>3
  <1>6. ASSUME NEW n \in Nat
        PROVE  f[n + 1] = g[<<n, f[n]>>]
    <2>1. n + 1 \in Nat /\ n \in 0..((n + 1) - 1)
      OBVIOUS
    <2>2. f[n] = a[n][n] /\ f[n + 1] = a[n + 1][n + 1]
      BY <2>1
    <2> HIDE DEF a, f
    <2>3. a[n] \in Approx(n) /\ a[n + 1] \in Approx(n + 1)
      BY <1>3, <2>1
    <2>4. a[n + 1][n + 1] = g[<<n, a[n + 1][n]>>]
      BY <2>1, <2>3
    <2>5. a[n + 1][n] = a[n][n]
      <3> HIDE DEF Approx
      <3> QED BY <1>2, <2>3
    <2> QED BY <2>2, <2>4, <2>5
  <1> HIDE DEF f
  <1>7. Unfolds(f, b, g)
    BY <1>5, <1>6 DEF Unfolds
  <1> QED BY <1>4, <1>7
\* Induction over sequences, by appending.
LEMMA SeqInduction ==
  ASSUME NEW S, NEW I, <<>> \in I,
         \A q \in Seq(S), e \in S : q \in I => Append(q, e) \in I
  PROVE  Seq(S) \subseteq I
  <1> DEFINE N == {n \in Nat : \A q \in Seq(S) : Len(q) = n => q \in I}
  <1>1. 0 \in N
    <2>1. ASSUME NEW q \in Seq(S), Len(q) = 0
          PROVE  q = <<>>
      BY <2>1
    <2> QED BY <2>1
  <1>2. ASSUME NEW n \in Nat, n \in N
        PROVE  n + 1 \in N
    <2> SUFFICES ASSUME NEW q \in Seq(S), Len(q) = n + 1
                 PROVE  q \in I
      OBVIOUS
    <2>1. q # <<>>
      OBVIOUS
    <2>2. PICK r \in Seq(S), e \in S : q = Append(r, e)
      BY <2>1, SequenceEmptyOrAppend
    <2>3. Len(r) = n
      BY <2>2
    <2> QED BY <1>2, <2>2, <2>3
  <1> HIDE DEF N
  <1>3. Nat \subseteq N
    BY <1>1, <1>2, SetInduction
  <1> SUFFICES ASSUME NEW q \in Seq(S)
               PROVE  q \in I
    OBVIOUS
  <1>4. Len(q) \in N
    BY <1>3
  <1> QED BY <1>4 DEF N

\* Appending an element adds it to the range.
LEMMA RangeAppend ==
  ASSUME NEW S, NEW seq \in Seq(S), NEW x \in S
  PROVE  Range(Append(seq, x)) = Range(seq) \cup {x}
  <1>1. /\ Len(Append(seq, x)) = Len(seq) + 1 /\ Len(seq) \in Nat
        /\ DOMAIN Append(seq, x) = 1..(Len(seq) + 1) /\ DOMAIN seq = 1..Len(seq)
    OBVIOUS
  <1>2. /\ Append(seq, x)[Len(seq) + 1] = x
        /\ \A i \in 1..Len(seq) : Append(seq, x)[i] = seq[i]
    OBVIOUS
  <1> QED BY <1>1, <1>2 DEF Range

\* Part of a sequence.
LEMMA PartType ==
  ASSUME NEW S, NEW seq \in Seq(S), NEW m \in Nat \ {0}, NEW n \in Nat, n <= Len(seq)
  PROVE  SubSeq(seq, m, n) \in Seq(S)
  <1>1. \A i \in m..n : seq[i] \in S
    OBVIOUS
  <1>2. m \in Int /\ n \in Int
    OBVIOUS
  <1> QED BY <1>1, <1>2, SubSeqProperties

\* A sequence is its first n elements and the others.
LEMMA SplitConcat ==
  ASSUME NEW S, NEW seq \in Seq(S), NEW n \in Nat, n <= Len(seq)
  PROVE  SubSeq(seq, 1, n) \o SubSeq(seq, n + 1, Len(seq)) = seq
  <1> DEFINE m == Len(seq)
             a == SubSeq(seq, 1, n)
             b == SubSeq(seq, n + 1, m)
             both == a \o b
  <1>1. m \in Nat /\ 1 \in Int /\ n \in Int /\ n + 1 \in Int /\ m \in Int
    OBVIOUS
  <1>2. (\A i \in 1..n : seq[i] \in S) /\ (\A i \in (n + 1)..m : seq[i] \in S)
    OBVIOUS
  <1>3. /\ a \in Seq(S) /\ Len(a) = IF 1 <= n THEN n - 1 + 1 ELSE 0
        /\ \A i \in 1..(n - 1 + 1) : a[i] = seq[1 + i - 1]
    BY <1>1, <1>2, SubSeqProperties
  <1>4. /\ b \in Seq(S) /\ Len(b) = IF n + 1 <= m THEN m - (n + 1) + 1 ELSE 0
        /\ \A i \in 1..(m - (n + 1) + 1) : b[i] = seq[(n + 1) + i - 1]
    BY <1>1, <1>2, SubSeqProperties
  <1>5. n <= m
    OBVIOUS
  <1> HIDE DEF a, b, m
  <1>6. Len(a) = n /\ \A i \in 1..n : a[i] = seq[i]
    BY <1>3
  <1>7. Len(b) = m - n
    BY <1>1, <1>4, <1>5
  <1>8. \A i \in 1..(m - n) : b[i] = seq[n + i]
    <2> TAKE i \in 1..(m - n)
    <2>1. i \in 1..(m - (n + 1) + 1) /\ (n + 1) + i - 1 = n + i
      BY <1>1
    <2> QED BY <1>4, <2>1
  <1>9. /\ both \in Seq(S) /\ Len(both) = n + (m - n)
        /\ \A i \in 1..(n + (m - n)) : both[i] = IF i <= n THEN a[i] ELSE b[i - n]
    <2>1. /\ both \in Seq(S) /\ Len(both) = Len(a) + Len(b)
          /\ \A i \in 1..(Len(a) + Len(b)) : both[i] = IF i <= Len(a) THEN a[i] ELSE b[i - Len(a)]
      BY <1>3, <1>4, ConcatProperties
    <2> HIDE DEF both
    <2> QED BY <1>6, <1>7, <2>1
  <1> HIDE DEF both
  <1>10. n + (m - n) = m
    BY <1>1
  <1>11. \A i \in 1..m : both[i] = seq[i]
    <2> TAKE i \in 1..m
    <2>1. CASE i <= n
      BY <1>6, <1>9, <1>10, <2>1
    <2>2. CASE ~(i <= n)
      <3>1. i - n \in 1..(m - n) /\ n + (i - n) = i
        BY <1>1, <2>2
      <3> QED BY <1>8, <1>9, <1>10, <2>2, <3>1
    <2> QED BY <2>1, <2>2
  <1>12. both = seq
    BY <1>9, <1>10, <1>11, SeqEqual DEF m
  <1> QED BY <1>12 DEF both, a, b, m
-----------------------------------------------------------------------------
(* Select *)

\* Select is the last of the sequences its definition builds on the prefixes.
LEMMA SelectDef ==
  ASSUME NEW S, NEW seq \in Seq(S), NEW T
  PROVE  \E kept \in [0..Len(seq) -> Seq(S)] :
           /\ kept[0] = <<>>
           /\ \A n \in 1..Len(seq) :
                kept[n] = IF seq[n] \in T THEN Append(kept[n - 1], seq[n]) ELSE kept[n - 1]
           /\ Select(seq, T) = kept[Len(seq)]
  <1> DEFINE Build(kept) ==
               [n \in 0..Len(seq) |->
                  IF n = 0 THEN <<>>
                  ELSE IF seq[n] \in T THEN Append(kept[n - 1], seq[n]) ELSE kept[n - 1]]
             g == [x \in Nat \X Seq(S) |->
                     IF x[1] + 1 \in 1..Len(seq) /\ seq[x[1] + 1] \in T
                     THEN Append(x[2], seq[x[1] + 1]) ELSE x[2]]
             chosen == CHOOSE kept : kept = Build(kept)
  <1>1. g \in [Nat \X Seq(S) -> Seq(S)]
    OBVIOUS
  <1>2. PICK f \in [Nat -> Seq(S)] :
          f[0] = <<>> /\ \A n \in Nat : f[n + 1] = g[<<n, f[n]>>]
    <2> DEFINE V == Seq(S)
               b == <<>>
    <2>1. b \in V
      OBVIOUS
    <2>2. g \in [Nat \X V -> V]
      BY <1>1
    <2> HIDE DEF g, V, b
    <2>3. \E f \in [Nat -> V] : Unfolds(f, b, g)
      BY <2>1, <2>2, PrefixRecursion
    <2> QED BY <2>3 DEF V, b, Unfolds
  <1> DEFINE k == [n \in 0..Len(seq) |-> f[n]]
  <1>3. Len(seq) \in Nat
    OBVIOUS
  <1>4. \A n \in 1..Len(seq) :
          k[n] = IF seq[n] \in T THEN Append(k[n - 1], seq[n]) ELSE k[n - 1]
    <2> TAKE n \in 1..Len(seq)
    <2>1. n - 1 \in Nat /\ (n - 1) + 1 = n /\ n - 1 \in 0..Len(seq) /\ n \in 0..Len(seq)
      BY <1>3
    <2>2. f[n] = g[<<n - 1, f[n - 1]>>]
      <3> HIDE DEF g, k
      <3>1. f[(n - 1) + 1] = g[<<n - 1, f[n - 1]>>]
        BY <1>2, <2>1
      <3> QED BY <2>1, <3>1
    <2>3. f[n - 1] \in Seq(S)
      BY <2>1
    <2> QED BY <2>1, <2>2, <2>3
  <1>5. k = Build(k)
    <2>1. k[0] = <<>>
      BY <1>2, <1>3
    <2>2. \A n \in 0..Len(seq) :
            k[n] = IF n = 0 THEN <<>>
                   ELSE IF seq[n] \in T THEN Append(k[n - 1], seq[n]) ELSE k[n - 1]
      <3> TAKE n \in 0..Len(seq)
      <3>1. n = 0 \/ n \in 1..Len(seq)
        BY <1>3
      <3> HIDE DEF k
      <3> QED BY <1>4, <2>1, <3>1
    <2>3. k = [n \in 0..Len(seq) |-> k[n]]
      OBVIOUS
    <2> HIDE DEF k
    <2> QED BY <2>2, <2>3
  <1>6. chosen = Build(chosen)
    <2> HIDE DEF Build
    <2> QED BY <1>5
  <1>10. Select(seq, T) = chosen[Len(seq)]
    BY DEF Select
  <1> HIDE DEF chosen
  <1>7. chosen[0] = <<>>
    BY <1>3, <1>6
  <1>8. \A n \in 1..Len(seq) :
          chosen[n] = IF seq[n] \in T THEN Append(chosen[n - 1], seq[n]) ELSE chosen[n - 1]
    <2> TAKE n \in 1..Len(seq)
    <2>1. n \in 0..Len(seq) /\ n # 0
      BY <1>3
    <2> QED BY <1>6, <2>1
  <1>9. chosen \in [0..Len(seq) -> Seq(S)]
    <2> DEFINE I == {n \in Nat : n <= Len(seq) => chosen[n] \in Seq(S)}
    <2>1. 0 \in I
      <3>1. <<>> \in Seq(S)
        OBVIOUS
      <3> QED BY <1>7, <3>1
    <2>2. ASSUME NEW n \in Nat, n \in I
          PROVE  n + 1 \in I
      <3>1. CASE n + 1 <= Len(seq)
        <4>1. n + 1 \in 1..Len(seq) /\ (n + 1) - 1 = n /\ chosen[n] \in Seq(S)
          BY <2>2, <3>1, <1>3
        <4>2. chosen[n + 1] = IF seq[n + 1] \in T THEN Append(chosen[n], seq[n + 1]) ELSE chosen[n]
          BY <1>8, <4>1
        <4>3. seq[n + 1] \in S
          BY <4>1
        <4>4. chosen[n + 1] \in Seq(S)
          BY <4>1, <4>2, <4>3
        <4> QED BY <4>4
      <3> QED BY <3>1
    <2> HIDE DEF I
    <2>3. Nat \subseteq I
      BY <2>1, <2>2, SetInduction
    <2>4. \A n \in 0..Len(seq) : chosen[n] \in Seq(S)
      BY <1>3, <2>3 DEF I
    <2>5. chosen = [n \in 0..Len(seq) |-> chosen[n]]
      BY <1>6
    <2> QED BY <2>4, <2>5
  <1> QED BY <1>7, <1>8, <1>9, <1>10

\* Of no element nothing is selected.
LEMMA SelectEmpty ==
  ASSUME NEW T
  PROVE  Select(<<>>, T) = <<>>
  <1>1. ASSUME NEW S, NEW seq \in Seq(S), Len(seq) = 0
        PROVE  Select(seq, T) = <<>>
    <2>1. PICK kept \in [0..Len(seq) -> Seq(S)] :
            kept[0] = <<>> /\ Select(seq, T) = kept[Len(seq)]
      BY SelectDef
    <2> QED BY <1>1, <2>1
  <1>2. <<>> \in Seq({}) /\ Len(<<>>) = 0
    OBVIOUS
  <1> QED BY <1>1, <1>2

\* An element appended is appended to the selection if it is in T.
LEMMA SelectAppend ==
  ASSUME NEW S, NEW seq \in Seq(S), NEW x \in S, NEW T
  PROVE  Select(Append(seq, x), T) =
           IF x \in T THEN Append(Select(seq, T), x) ELSE Select(seq, T)
  <1> DEFINE n == Len(seq)
             q == Append(seq, x)
             Step(kept, w, i) == IF w[i] \in T THEN Append(kept[i - 1], w[i]) ELSE kept[i - 1]
  <1>1. n \in Nat /\ q \in Seq(S) /\ Len(q) = n + 1 /\ q[n + 1] = x
        /\ \A i \in 1..n : q[i] = seq[i]
    OBVIOUS
  <1>2. PICK k : /\ k[0] = <<>> /\ \A i \in 1..n : k[i] = Step(k, seq, i)
                 /\ Select(seq, T) = k[n]
    BY SelectDef
  <1> HIDE DEF q
  <1>3. PICK l : /\ l[0] = <<>> /\ \A i \in 1..Len(q) : l[i] = Step(l, q, i)
                 /\ Select(q, T) = l[Len(q)]
    BY <1>1, SelectDef
  <1>4. l[n] = k[n]
    <2> DEFINE I == {i \in Nat : i <= n => l[i] = k[i]}
    <2>1. 0 \in I
      BY <1>2, <1>3
    <2>2. ASSUME NEW i \in Nat, i \in I
          PROVE  i + 1 \in I
      <3>1. CASE i + 1 <= n
        <4>1. i + 1 \in 1..n /\ i + 1 \in 1..Len(q) /\ (i + 1) - 1 = i /\ l[i] = k[i]
          BY <1>1, <2>2, <3>1
        <4>2. l[i + 1] = IF q[i + 1] \in T THEN Append(l[i], q[i + 1]) ELSE l[i]
          BY <1>3, <4>1
        <4>3. k[i + 1] = IF seq[i + 1] \in T THEN Append(k[i], seq[i + 1]) ELSE k[i]
          BY <1>2, <4>1
        <4>4. l[i + 1] = k[i + 1]
          BY <1>1, <4>1, <4>2, <4>3
        <4> QED BY <4>4
      <3> QED BY <3>1
    <2> HIDE DEF I
    <2>3. Nat \subseteq I
      BY <2>1, <2>2, SetInduction
    <2>4. n \in I
      BY <1>1, <2>3
    <2> QED BY <1>1, <2>4 DEF I
  <1>5. n + 1 \in 1..Len(q) /\ (n + 1) - 1 = n
    BY <1>1
  <1>6. l[n + 1] = IF x \in T THEN Append(l[n], x) ELSE l[n]
    BY <1>1, <1>3, <1>5
  <1> HIDE DEF n
  <1> QED BY <1>1, <1>2, <1>3, <1>4, <1>6 DEF q

\* A selection is a sequence of the same elements.
LEMMA SelectType ==
  ASSUME NEW S, NEW seq \in Seq(S), NEW T
  PROVE  Select(seq, T) \in Seq(S)
  <1>1. PICK kept \in [0..Len(seq) -> Seq(S)] : Select(seq, T) = kept[Len(seq)]
    BY SelectDef
  <1>2. Len(seq) \in 0..Len(seq)
    OBVIOUS
  <1> QED BY <1>1, <1>2

\* It has the elements that are in T.
LEMMA SelectRange ==
  ASSUME NEW S, NEW seq \in Seq(S), NEW T
  PROVE  Range(Select(seq, T)) = Range(seq) \cap T
  <1> DEFINE I == {q \in Seq(S) : Range(Select(q, T)) = Range(q) \cap T}
  <1>1. <<>> \in I
    <2>1. Range(<<>>) = {} /\ <<>> \in Seq(S)
      BY DEF Range
    <2> QED BY <2>1, SelectEmpty
  <1>2. ASSUME NEW q \in Seq(S), NEW e \in S, q \in I
        PROVE  Append(q, e) \in I
    <2>1. Append(q, e) \in Seq(S)
      OBVIOUS
    <2>2. Range(Append(q, e)) = Range(q) \cup {e}
      BY RangeAppend
    <2>3. CASE e \in T
      <3>1. Select(Append(q, e), T) = Append(Select(q, T), e)
        BY <2>3, SelectAppend
      <3>2. Range(Append(Select(q, T), e)) = Range(Select(q, T)) \cup {e}
        BY RangeAppend, SelectType
      <3> QED BY <1>2, <2>1, <2>2, <2>3, <3>1, <3>2
    <2>4. CASE e \notin T
      <3>1. Select(Append(q, e), T) = Select(q, T)
        BY <2>4, SelectAppend
      <3> QED BY <1>2, <2>1, <2>2, <2>4, <3>1
    <2> QED BY <2>3, <2>4
  <1> HIDE DEF I
  <1>3. Seq(S) \subseteq I
    BY <1>1, <1>2, SeqInduction
  <1> QED BY <1>3 DEF I

\* Elements of N that are different in a sequence are different in what is selected.
LEMMA SelectDistinct ==
  ASSUME NEW S, NEW seq \in Seq(S), NEW T, NEW N,
         \A i, j \in 1..Len(seq) : seq[i] = seq[j] /\ seq[i] \in N => i = j
  PROVE  \A i, j \in 1..Len(Select(seq, T)) :
           Select(seq, T)[i] = Select(seq, T)[j] /\ Select(seq, T)[i] \in N => i = j
  <1> DEFINE D(q) == \A i, j \in 1..Len(q) : q[i] = q[j] /\ q[i] \in N => i = j
             I == {q \in Seq(S) : D(q) => D(Select(q, T))}
  <1>1. <<>> \in I
    <2>1. <<>> \in Seq(S) /\ Len(<<>>) = 0
      OBVIOUS
    <2> QED BY <2>1, SelectEmpty
  <1>2. ASSUME NEW q \in Seq(S), NEW e \in S, q \in I
        PROVE  Append(q, e) \in I
    <2> DEFINE r == Append(q, e)
               k == Select(q, T)
    <2>1. /\ r \in Seq(S) /\ Len(q) \in Nat /\ Len(r) = Len(q) + 1
          /\ r[Len(q) + 1] = e /\ \A i \in 1..Len(q) : r[i] = q[i]
      OBVIOUS
    <2> SUFFICES ASSUME D(r)
                 PROVE  D(Select(r, T))
      BY <2>1
    <2>2. D(q)
      <3> HIDE DEF r
      <3>1. \A i \in 1..Len(q) : i \in 1..Len(r)
        BY <2>1
      <3> QED BY <2>1, <3>1
    <2>3. k \in Seq(S) /\ D(k) /\ Range(k) \subseteq Range(q)
      BY <1>2, <2>2, SelectType, SelectRange
    <2>4. CASE e \notin T
      <3>1. Select(r, T) = k
        BY <2>4, SelectAppend
      <3> QED BY <2>3, <3>1
    <2>5. CASE e \in T
      <3>1. Select(r, T) = Append(k, e)
        BY <2>5, SelectAppend
      <3>2. e \in N => e \notin Range(q)
        <4> SUFFICES ASSUME e \in N, NEW i \in 1..Len(q), q[i] = e
                     PROVE  FALSE
          BY RangeEquality
        <4>1. i \in 1..Len(r) /\ Len(q) + 1 \in 1..Len(r) /\ r[i] = r[Len(q) + 1]
          BY <2>1
        <4>2. i = Len(q) + 1
          <5> HIDE DEF r
          <5> QED BY <2>1, <4>1
        <4> QED BY <2>1, <4>2
      <3>3. \A i \in 1..Len(k) : e \in N => k[i] # e
        <4>1. \A i \in 1..Len(k) : k[i] \in Range(k)
          BY <2>3, RangeEquality
        <4> QED BY <2>3, <3>2, <4>1
      <3> HIDE DEF k, r
      <3>4. /\ Len(k) \in Nat /\ Len(Append(k, e)) = Len(k) + 1
            /\ Append(k, e)[Len(k) + 1] = e /\ \A i \in 1..Len(k) : Append(k, e)[i] = k[i]
        BY <2>3
      <3> DEFINE a == Append(k, e)
      <3>5. ASSUME NEW i \in 1..Len(a), NEW j \in 1..Len(a), a[i] = a[j], a[i] \in N
            PROVE  i = j
        <4>1. i \in 1..Len(k) \/ i = Len(k) + 1
          BY <3>4
        <4>2. j \in 1..Len(k) \/ j = Len(k) + 1
          BY <3>4
        <4> HIDE DEF a
        <4>3. /\ a[Len(k) + 1] = e /\ \A x \in 1..Len(k) : a[x] = k[x]
          BY <3>4 DEF a
        <4> QED BY <2>3, <3>3, <3>5, <4>1, <4>2, <4>3
      <3> QED BY <3>1, <3>5
    <2> QED BY <2>4, <2>5
  <1> HIDE DEF I
  <1>3. Seq(S) \subseteq I
    BY <1>1, <1>2, SeqInduction
  <1> QED BY <1>3 DEF I

\* A selection from two sequences in a row is made of the selections from each.
LEMMA SelectConcat ==
  ASSUME NEW S, NEW p \in Seq(S), NEW seq \in Seq(S), NEW T
  PROVE  Select(p \o seq, T) = Select(p, T) \o Select(seq, T)
  <1> DEFINE I == {q \in Seq(S) : Select(p \o q, T) = Select(p, T) \o Select(q, T)}
  <1>0. Select(p, T) \in Seq(S)
    BY SelectType
  <1>1. <<>> \in I
    <2>1. <<>> \in Seq(S) /\ p \o <<>> = p
      OBVIOUS
    <2>2. Select(p, T) \o <<>> = Select(p, T)
      BY <1>0, ConcatEmptySeq
    <2> QED BY <2>1, <2>2, SelectEmpty
  <1>2. ASSUME NEW q \in Seq(S), NEW e \in S, q \in I
        PROVE  Append(q, e) \in I
    <2>1. p \o Append(q, e) = Append(p \o q, e) /\ p \o q \in Seq(S) /\ Append(q, e) \in Seq(S)
      OBVIOUS
    <2>2. Select(q, T) \in Seq(S)
      BY SelectType
    <2>3. Select(p, T) \o Append(Select(q, T), e) = Append(Select(p, T) \o Select(q, T), e)
      BY <1>0, <2>2
    <2>4. Select(p \o q, T) = Select(p, T) \o Select(q, T)
      BY <1>2
    <2> HIDE DEF I
    <2>5. Select(p \o Append(q, e), T) = Select(p, T) \o Select(Append(q, e), T)
      <3>1. CASE e \in T
        <4>1. Select(Append(p \o q, e), T) = Append(Select(p \o q, T), e)
          BY <2>1, <3>1, SelectAppend
        <4>2. Select(Append(q, e), T) = Append(Select(q, T), e)
          BY <3>1, SelectAppend
        <4> QED BY <2>1, <2>3, <2>4, <4>1, <4>2
      <3>2. CASE e \notin T
        <4>1. Select(Append(p \o q, e), T) = Select(p \o q, T)
          BY <2>1, <3>2, SelectAppend
        <4>2. Select(Append(q, e), T) = Select(q, T)
          BY <3>2, SelectAppend
        <4> QED BY <2>1, <2>4, <4>1, <4>2
      <3> QED BY <3>1, <3>2
    <2> QED BY <2>1, <2>5 DEF I
  <1> HIDE DEF I
  <1>3. Seq(S) \subseteq I
    BY <1>1, <1>2, SeqInduction
  <1> QED BY <1>3 DEF I

\* The selection of the first element and of the others.
LEMMA SelectHead ==
  ASSUME NEW S, NEW seq \in Seq(S), seq # <<>>, NEW T
  PROVE  Select(seq, T) = IF Head(seq) \in T THEN <<Head(seq)>> \o Select(Tail(seq), T)
                                             ELSE Select(Tail(seq), T)
  <1> DEFINE x == Head(seq)
             rest == Tail(seq)
             one == <<x>>
  <1>1. x \in S /\ rest \in Seq(S)
    BY HeadTailProperties
  <1>2. seq = one \o rest
    <2>1. /\ Len(rest) = Len(seq) - 1 /\ \A i \in 1..Len(rest) : rest[i] = seq[i + 1]
          /\ x = seq[1] /\ Len(seq) \in Nat \ {0}
      BY EmptySeq, HeadTailProperties
    <2>2. one \in Seq(S) /\ Len(one) = 1 /\ one[1] = x
      BY <1>1
    <2> HIDE DEF x, rest, one
    <2> DEFINE both == one \o rest
    <2>3. /\ both \in Seq(S) /\ Len(both) = Len(one) + Len(rest)
          /\ \A i \in 1..(Len(one) + Len(rest)) :
               both[i] = IF i <= Len(one) THEN one[i] ELSE rest[i - Len(one)]
      BY <1>1, <2>2, ConcatProperties
    <2> HIDE DEF both
    <2>4. Len(both) = Len(seq)
      BY <2>1, <2>2, <2>3
    <2>5. \A i \in 1..Len(both) : both[i] = seq[i]
      <3> TAKE i \in 1..Len(both)
      <3>1. CASE i = 1
        BY <2>1, <2>2, <2>3, <3>1
      <3>2. CASE i # 1
        <4>1. i - 1 \in 1..Len(rest) /\ (i - 1) + 1 = i /\ ~(i <= Len(one)) /\ i - Len(one) = i - 1
          BY <2>1, <2>2, <2>4, <3>2
        <4> QED BY <2>1, <2>3, <4>1
      <3> QED BY <3>1, <3>2
    <2>6. both = seq
      BY <2>3, <2>4, <2>5, SeqEqual
    <2> QED BY <2>6 DEF both
  <1>3. Select(one, T) = IF x \in T THEN one ELSE <<>>
    <2> DEFINE none == <<>>
    <2>1. none \in Seq(S) /\ Select(none, T) = none /\ Append(none, x) = one
      BY SelectEmpty
    <2> HIDE DEF none, x, one
    <2>2. Select(one, T) = IF x \in T THEN Append(none, x) ELSE none
      <3>1. Select(Append(none, x), T)
              = IF x \in T THEN Append(Select(none, T), x) ELSE Select(none, T)
        BY <1>1, <2>1, SelectAppend
      <3> QED BY <2>1, <3>1
    <2> QED BY <2>1, <2>2 DEF none
  <1>4. one \in Seq(S)
    BY <1>1
  <1> HIDE DEF x, rest, one
  <1>5. Select(seq, T) = Select(one, T) \o Select(rest, T)
    BY <1>1, <1>2, <1>4, SelectConcat
  <1>6. <<>> \o Select(rest, T) = Select(rest, T)
    BY <1>1, SelectType, ConcatEmptySeq
  <1> QED BY <1>3, <1>5, <1>6 DEF x, rest, one
-----------------------------------------------------------------------------
(* Total *)

\* Total is the last of the sums its definition builds on the prefixes.
LEMMA TotalDef ==
  ASSUME NEW seq \in Seq(Nat)
  PROVE  \E sum \in [0..Len(seq) -> Nat] :
           /\ sum[0] = 0
           /\ \A n \in 1..Len(seq) : sum[n] = sum[n - 1] + seq[n]
           /\ Total(seq) = sum[Len(seq)]
  <1> DEFINE Build(sum) == [n \in 0..Len(seq) |-> IF n = 0 THEN 0 ELSE sum[n - 1] + seq[n]]
             g == [x \in Nat \X Nat |->
                     IF x[1] + 1 \in 1..Len(seq) THEN x[2] + seq[x[1] + 1] ELSE x[2]]
             chosen == CHOOSE sum : sum = Build(sum)
  <1>1. g \in [Nat \X Nat -> Nat] /\ Len(seq) \in Nat
    OBVIOUS
  <1>2. PICK f \in [Nat -> Nat] : Unfolds(f, 0, g)
    <2> HIDE DEF g
    <2> QED BY <1>1, PrefixRecursion
  <1> DEFINE k == [n \in 0..Len(seq) |-> f[n]]
  <1>3. ASSUME NEW n \in 1..Len(seq)
        PROVE  k[n] = k[n - 1] + seq[n]
    <2>1. n - 1 \in Nat /\ (n - 1) + 1 = n /\ n - 1 \in 0..Len(seq) /\ n \in 0..Len(seq)
      BY <1>1
    <2>2. f[n] = g[<<n - 1, f[n - 1]>>] /\ f[n - 1] \in Nat
      <3> HIDE DEF g, k
      <3>1. f[(n - 1) + 1] = g[<<n - 1, f[n - 1]>>]
        BY <1>2, <2>1 DEF Unfolds
      <3> QED BY <2>1, <3>1
    <2> QED BY <2>1, <2>2
  <1>4. k = Build(k)
    <2>1. k[0] = 0
      BY <1>1, <1>2 DEF Unfolds
    <2>2. \A n \in 0..Len(seq) : k[n] = IF n = 0 THEN 0 ELSE k[n - 1] + seq[n]
      <3> TAKE n \in 0..Len(seq)
      <3>1. n = 0 \/ n \in 1..Len(seq)
        BY <1>1
      <3> HIDE DEF k
      <3> QED BY <1>3, <2>1, <3>1
    <2>3. k = [n \in 0..Len(seq) |-> k[n]]
      OBVIOUS
    <2> HIDE DEF k
    <2> QED BY <2>2, <2>3
  <1>5. chosen = Build(chosen)
    <2> HIDE DEF Build
    <2> QED BY <1>4
  <1>6. Total(seq) = chosen[Len(seq)]
    BY DEF Total
  <1> HIDE DEF chosen
  <1>7. chosen[0] = 0
    BY <1>1, <1>5
  <1>8. ASSUME NEW n \in 1..Len(seq)
        PROVE  chosen[n] = chosen[n - 1] + seq[n]
    <2>1. n \in 0..Len(seq) /\ n # 0
      BY <1>1
    <2> QED BY <1>5, <2>1
  <1>9. chosen \in [0..Len(seq) -> Nat]
    <2> DEFINE I == {n \in Nat : n <= Len(seq) => chosen[n] \in Nat}
    <2>1. 0 \in I
      BY <1>7
    <2>2. ASSUME NEW n \in Nat, n \in I
          PROVE  n + 1 \in I
      <3>1. CASE n + 1 <= Len(seq)
        <4>1. n + 1 \in 1..Len(seq) /\ (n + 1) - 1 = n /\ chosen[n] \in Nat
          BY <2>2, <3>1, <1>1
        <4>2. chosen[n + 1] = chosen[n] + seq[n + 1]
          BY <1>8, <4>1
        <4>3. seq[n + 1] \in Nat
          <5>1. \A i \in 1..Len(seq) : seq[i] \in Nat
            BY ElementOfSeq
          <5> QED BY <4>1, <5>1
        <4>4. chosen[n + 1] \in Nat
          <5>1. \A a, b \in Nat : a + b \in Nat
            OBVIOUS
          <5> QED BY <4>1, <4>2, <4>3, <5>1, Zenon
        <4> QED BY <4>4
      <3> QED BY <3>1
    <2> HIDE DEF I
    <2>3. Nat \subseteq I
      BY <2>1, <2>2, SetInduction
    <2>4. \A n \in 0..Len(seq) : chosen[n] \in Nat
      BY <1>1, <2>3 DEF I
    <2>5. chosen = [n \in 0..Len(seq) |-> chosen[n]]
      BY <1>5
    <2> QED BY <2>4, <2>5
  <1> QED BY <1>6, <1>7, <1>8, <1>9

\* A total is a natural number.
LEMMA TotalType ==
  ASSUME NEW seq \in Seq(Nat)
  PROVE  Total(seq) \in Nat
  <1>1. PICK sum \in [0..Len(seq) -> Nat] : Total(seq) = sum[Len(seq)]
    BY TotalDef
  <1>2. Len(seq) \in 0..Len(seq)
    OBVIOUS
  <1> QED BY <1>1, <1>2

\* Appending a number adds it.
LEMMA TotalAppend ==
  ASSUME NEW seq \in Seq(Nat), NEW x \in Nat
  PROVE  Total(Append(seq, x)) = Total(seq) + x
  <1> DEFINE n == Len(seq)
             q == Append(seq, x)
  <1>1. n \in Nat /\ q \in Seq(Nat) /\ Len(q) = n + 1 /\ q[n + 1] = x
        /\ \A i \in 1..n : q[i] = seq[i]
    OBVIOUS
  <1>2. PICK k \in [0..Len(seq) -> Nat] :
          /\ k[0] = 0 /\ \A i \in 1..Len(seq) : k[i] = k[i - 1] + seq[i]
          /\ Total(seq) = k[Len(seq)]
    BY TotalDef
  <1> HIDE DEF q
  <1>3. PICK l \in [0..Len(q) -> Nat] :
          /\ l[0] = 0 /\ \A i \in 1..Len(q) : l[i] = l[i - 1] + q[i]
          /\ Total(q) = l[Len(q)]
    BY <1>1, TotalDef
  <1>4. l[n] = k[n]
    <2> DEFINE I == {i \in Nat : i <= n => l[i] = k[i]}
    <2>1. 0 \in I
      BY <1>2, <1>3
    <2>2. ASSUME NEW i \in Nat, i \in I
          PROVE  i + 1 \in I
      <3>1. CASE i + 1 <= n
        <4>1. i + 1 \in 1..n /\ i + 1 \in 1..Len(q) /\ (i + 1) - 1 = i /\ l[i] = k[i]
          BY <1>1, <2>2, <3>1
        <4>2. l[i + 1] = l[i] + q[i + 1] /\ k[i + 1] = k[i] + seq[i + 1]
          BY <1>2, <1>3, <4>1
        <4>3. l[i + 1] = k[i + 1]
          BY <1>1, <4>1, <4>2
        <4> QED BY <4>3
      <3> QED BY <3>1
    <2> HIDE DEF I
    <2>3. Nat \subseteq I
      BY <2>1, <2>2, SetInduction
    <2>4. n \in I
      BY <1>1, <2>3
    <2> QED BY <1>1, <2>4 DEF I
  <1>5. n + 1 \in 1..Len(q) /\ (n + 1) - 1 = n
    BY <1>1
  <1>6. l[n + 1] = l[n] + x
    BY <1>1, <1>3, <1>5
  <1>7. Total(q) = l[n + 1] /\ Total(seq) = k[n]
    BY <1>1, <1>2, <1>3
  <1> QED BY <1>4, <1>6, <1>7 DEF q
=============================================================================
