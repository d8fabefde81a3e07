--------------------------- MODULE GorillaProofs ---------------------------
(***************************************************************************)
(* The chunk codec, for words and fields of any width: decoders take       *)
(* exactly the bits that encoders wrote, and give back what was encoded as *)
(* long as it fits its field.                                              *)
(***************************************************************************)
EXTENDS GorillaTimes, GorillaValues, SelectionProofs

-----------------------------------------------------------------------------
(* Powers of two *)

\* Pow2 is the function its definition describes.
LEMMA Pow2Def ==
  /\ Pow2 \in [0..W -> Nat \ {0}] /\ Pow2[0] = 1
  /\ \A n \in 1..W : Pow2[n] = 2 * Pow2[n - 1]
  <1> DEFINE Build(pow) == [n \in 0..W |-> IF n = 0 THEN 1 ELSE 2 * pow[n - 1]]
             V == Nat \ {0}
             g == [x \in Nat \X V |-> 2 * x[2]]
             chosen == CHOOSE pow : pow = Build(pow)
  <1>1. W \in Nat \ {0}
    BY WordAssumption
  <1>2. g \in [Nat \X V -> V] /\ 1 \in V
    OBVIOUS
  <1>3. \A n \in Nat, v \in V : g[<<n, v>>] = 2 * v
    OBVIOUS
  <1> HIDE DEF g
  <1>4. PICK f \in [Nat -> V] : Unfolds(f, 1, g)
    <2> HIDE DEF V
    <2> QED BY <1>2, PrefixRecursion
  <1> DEFINE k == [n \in 0..W |-> f[n]]
  <1>5. k[0] = 1
    BY <1>1, <1>4 DEF Unfolds
  <1>6. ASSUME NEW n \in 1..W
        PROVE  k[n] = 2 * k[n - 1]
    <2>1. n - 1 \in Nat /\ (n - 1) + 1 = n /\ n - 1 \in 0..W /\ n \in 0..W
      BY <1>1
    <2>2. f[n] = g[<<n - 1, f[n - 1]>>] /\ f[n - 1] \in V
      <3> HIDE DEF k, V
      <3>1. f[(n - 1) + 1] = g[<<n - 1, f[n - 1]>>]
        BY <1>4, <2>1 DEF Unfolds
      <3> QED BY <2>1, <3>1
    <2>3. f[n] = 2 * f[n - 1]
      BY <1>3, <2>1, <2>2
    <2> QED BY <2>1, <2>3
  <1>7. k = Build(k)
    <2>1. \A n \in 0..W : k[n] = IF n = 0 THEN 1 ELSE 2 * k[n - 1]
      <3> TAKE n \in 0..W
      <3>1. n = 0 \/ n \in 1..W
        BY <1>1
      <3> HIDE DEF k
      <3> QED BY <1>5, <1>6, <3>1
    <2>2. k = [n \in 0..W |-> k[n]]
      OBVIOUS
    <2> HIDE DEF k
    <2> QED BY <2>1, <2>2
  <1>8. chosen = Build(chosen)
    <2> HIDE DEF Build
    <2> QED BY <1>7
  <1>9. Pow2 = chosen
    BY DEF Pow2
  <1> HIDE DEF chosen
  <1>10. \A n \in 0..W : Pow2[n] = IF n = 0 THEN 1 ELSE 2 * Pow2[n - 1]
    BY <1>8, <1>9
  <1>11. Pow2[0] = 1 /\ \A n \in 1..W : Pow2[n] = 2 * Pow2[n - 1]
    <2>1. 0 \in 0..W /\ \A n \in 1..W : n \in 0..W /\ n # 0
      BY <1>1
    <2> QED BY <1>10, <2>1
  <1>12. \A n \in 0..W : Pow2[n] \in V
    <2> DEFINE I == {n \in Nat : n <= W => Pow2[n] \in V}
    <2>1. 0 \in I
      BY <1>11
    <2>2. ASSUME NEW n \in Nat, n \in I
          PROVE  n + 1 \in I
      <3> SUFFICES ASSUME n + 1 <= W PROVE Pow2[n + 1] \in V
        OBVIOUS
      <3>1. n + 1 \in 1..W /\ (n + 1) - 1 = n /\ Pow2[n] \in V
        BY <1>1, <2>2
      <3>2. Pow2[n + 1] = 2 * Pow2[n]
        BY <1>11, <3>1
      <3> QED BY <3>1, <3>2
    <2> HIDE DEF I
    <2>3. \A n \in Nat : n \in I
      BY <2>1, <2>2, SetInduction
    <2> QED BY <1>1, <2>3 DEF I
  <1>13. Pow2 = [n \in 0..W |-> Pow2[n]]
    BY <1>8, <1>9
  <1> QED BY <1>11, <1>12, <1>13

\* They grow.
LEMMA Pow2Grows ==
  ASSUME NEW m \in 0..W, NEW n \in 0..W, m <= n
  PROVE  Pow2[m] <= Pow2[n]
  <1> DEFINE I == {d \in Nat : m + d <= W => Pow2[m] <= Pow2[m + d]}
  <1>1. 0 \in I
    BY Pow2Def, WordAssumption
  <1>2. ASSUME NEW d \in Nat, d \in I
        PROVE  d + 1 \in I
    <2> SUFFICES ASSUME m + (d + 1) <= W PROVE Pow2[m] <= Pow2[m + (d + 1)]
      OBVIOUS
    <2>1. m + d \in 0..W /\ m + (d + 1) \in 1..W /\ (m + (d + 1)) - 1 = m + d
      BY WordAssumption
    <2>2. Pow2[m + (d + 1)] = 2 * Pow2[m + d]
      BY <2>1, Pow2Def
    <2>3. Pow2[m] <= Pow2[m + d]
      BY <1>2, <2>1
    <2>4. Pow2[m] \in Nat /\ Pow2[m + d] \in Nat
      BY <2>1, Pow2Def
    <2> QED BY <2>2, <2>3, <2>4
  <1> HIDE DEF I
  <1>3. \A d \in Nat : d \in I
    BY <1>1, <1>2, SetInduction
  <1>4. n - m \in Nat /\ m + (n - m) = n /\ n <= W
    OBVIOUS
  <1> QED BY <1>3, <1>4 DEF I
-----------------------------------------------------------------------------
(* Division *)

\* Halving a quotient is dividing by twice the divisor.
LEMMA HalfQuotient ==
  ASSUME NEW a \in Int, NEW d \in Nat \ {0}
  PROVE  a \div (2 * d) = (a \div d) \div 2
  <1> DEFINE q == a \div d
             r == a % d
             h == q \div 2
             b == q % 2
  <1>1. q \in Int /\ r \in 0..(d - 1) /\ a = d * q + r
    OBVIOUS
  <1> HIDE DEF q, r
  <1>2. h \in Int /\ b \in 0..1 /\ q = 2 * h + b
    BY <1>1
  <1> HIDE DEF h, b
  <1>3. d * q = (2 * d) * h + d * b
    <2>1. d * q = d * (2 * h + b)
      BY <1>2
    <2>2. d * (2 * h + b) = (2 * d) * h + d * b
      BY <1>2
    <2> QED BY <2>1, <2>2
  <1>4. d * b \in 0..d /\ d * b + r \in 0..(2 * d - 1)
    <2>1. CASE b = 0
      BY <1>1, <2>1
    <2>2. CASE b = 1
      BY <1>1, <2>2
    <2> QED BY <1>2, <2>1, <2>2
  <1> DEFINE e == 2 * d
             s == d * b + r
  <1>5. a = e * h + s /\ s \in 0..(e - 1) /\ e \in Nat \ {0}
    <2>1. s \in 0..(e - 1) /\ e \in Nat \ {0}
      BY <1>4
    <2> DEFINE t == d * b
               w == d * q
               u == e * h
    <2>2. t \in Int /\ w \in Int /\ u \in Int
      BY <1>1, <1>2
    <2>3. a = w + r /\ w = u + t /\ s = t + r
      BY <1>1, <1>3
    <2> HIDE DEF t, w, u, e, s
    <2>4. a = u + s
      BY <1>1, <2>2, <2>3
    <2> QED BY <2>1, <2>4 DEF u
  <1> HIDE DEF e, s
  <1>6. a \div e = h
    BY <1>2, <1>5
  <1> QED BY <1>6 DEF e, h, q

\* A remainder is what is left of a multiple.
LEMMA Remainder ==
  ASSUME NEW a \in Int, NEW m \in Nat \ {0}
  PROVE  /\ a \div m \in Int /\ a % m \in 0..(m - 1)
         /\ a = m * (a \div m) + (a % m)
  OBVIOUS

\* It is the only one.
LEMMA RemainderUnique ==
  ASSUME NEW a \in Int, NEW m \in Nat \ {0}, NEW q \in Int, NEW r \in 0..(m - 1), a = m * q + r
  PROVE  a % m = r
  OBVIOUS
-----------------------------------------------------------------------------
(* Bits *)

\* readBits is the last of the numbers its loop goes through.
LEMMA ReadLoop ==
  ASSUME NEW n \in Nat, NEW stream, NEW pos \in Nat,
         \A k \in 1..n : stream[pos + k - 1] \in Bit
  PROVE  \E result \in [0..n -> Nat] :
           /\ result[0] = 0
           /\ \A k \in 1..n : result[k] = 2 * result[k - 1] + stream[pos + k - 1]
           /\ readBits(stream, pos, n) = result[n]
  <1> DEFINE Build(result) ==
               [k \in 0..n |-> IF k = 0 THEN 0 ELSE 2 * result[k - 1] + stream[pos + k - 1]]
             g == [x \in Nat \X Nat |->
                     IF x[1] + 1 \in 1..n THEN 2 * x[2] + stream[pos + (x[1] + 1) - 1] ELSE x[2]]
             chosen == CHOOSE result : result = Build(result)
  <1>1. g \in [Nat \X Nat -> Nat]
    <2>1. ASSUME NEW x \in Nat \X Nat, x[1] + 1 \in 1..n
          PROVE  2 * x[2] + stream[pos + (x[1] + 1) - 1] \in Nat
      <3>1. stream[pos + (x[1] + 1) - 1] \in Nat
        BY <2>1 DEF Bit
      <3>2. x[2] \in Nat
        OBVIOUS
      <3> QED BY <3>1, <3>2
    <2>2. \A x \in Nat \X Nat : x[2] \in Nat
      OBVIOUS
    <2> QED BY <2>1, <2>2
  <1>2. ASSUME NEW k \in 1..n, NEW v \in Nat
        PROVE  g[<<k - 1, v>>] = 2 * v + stream[pos + k - 1]
    <2>1. k - 1 \in Nat /\ (k - 1) + 1 = k
      OBVIOUS
    <2> DEFINE x == <<k - 1, v>>
    <2>2. x \in Nat \X Nat /\ x[1] = k - 1 /\ x[2] = v
      BY <2>1
    <2> HIDE DEF x
    <2>3. g[x] = 2 * v + stream[pos + k - 1]
      BY <2>1, <2>2
    <2> QED BY <2>3 DEF x
  <1> HIDE DEF g
  <1>3. PICK f \in [Nat -> Nat] : Unfolds(f, 0, g)
    BY <1>1, PrefixRecursion
  <1> DEFINE r == [k \in 0..n |-> f[k]]
  <1>4. r[0] = 0
    BY <1>3 DEF Unfolds
  <1>5. ASSUME NEW k \in 1..n
        PROVE  r[k] = 2 * r[k - 1] + stream[pos + k - 1]
    <2>1. k - 1 \in Nat /\ (k - 1) + 1 = k /\ k - 1 \in 0..n /\ k \in 0..n
      OBVIOUS
    <2>2. f[k] = g[<<k - 1, f[k - 1]>>]
      <3> HIDE DEF r
      <3>1. f[(k - 1) + 1] = g[<<k - 1, f[k - 1]>>]
        BY <1>3, <2>1 DEF Unfolds
      <3> QED BY <2>1, <3>1
    <2>3. f[k - 1] \in Nat
      BY <2>1
    <2>4. f[k] = 2 * f[k - 1] + stream[pos + k - 1]
      <3> HIDE DEF r
      <3> QED BY <1>2, <2>2, <2>3
    <2> QED BY <2>1, <2>4
  <1>6. r = Build(r)
    <2>1. \A k \in 0..n : r[k] = IF k = 0 THEN 0 ELSE 2 * r[k - 1] + stream[pos + k - 1]
      <3> TAKE k \in 0..n
      <3>1. k = 0 \/ k \in 1..n
        OBVIOUS
      <3> HIDE DEF r
      <3> QED BY <1>4, <1>5, <3>1
    <2>2. r = [k \in 0..n |-> r[k]]
      OBVIOUS
    <2> HIDE DEF r
    <2> QED BY <2>1, <2>2
  <1>7. chosen = Build(chosen)
    <2> HIDE DEF Build
    <2> QED BY <1>6
  <1>8. readBits(stream, pos, n) = chosen[n]
    BY DEF readBits
  <1> HIDE DEF chosen
  <1>9. /\ chosen[0] = 0
        /\ \A k \in 1..n : chosen[k] = 2 * chosen[k - 1] + stream[pos + k - 1]
    <2>1. \A k \in 0..n : chosen[k] = IF k = 0 THEN 0 ELSE 2 * chosen[k - 1] + stream[pos + k - 1]
      BY <1>7
    <2>2. 0 \in 0..n /\ \A k \in 1..n : k \in 0..n /\ k # 0
      OBVIOUS
    <2> QED BY <2>1, <2>2
  <1>10. \A k \in 0..n : chosen[k] \in Nat
    <2> DEFINE I == {k \in Nat : k <= n => chosen[k] \in Nat}
    <2>1. 0 \in I
      BY <1>9
    <2>2. ASSUME NEW k \in Nat, k \in I
          PROVE  k + 1 \in I
      <3> SUFFICES ASSUME k + 1 <= n PROVE chosen[k + 1] \in Nat
        OBVIOUS
      <3>1. k + 1 \in 1..n /\ (k + 1) - 1 = k /\ chosen[k] \in Nat
        BY <2>2
      <3>2. stream[pos + (k + 1) - 1] \in Nat
        BY <3>1 DEF Bit
      <3>3. chosen[k + 1] = 2 * chosen[k] + stream[pos + (k + 1) - 1]
        BY <1>9, <3>1
      <3> QED BY <3>1, <3>2, <3>3
    <2> HIDE DEF I
    <2>3. \A k \in Nat : k \in I
      BY <2>1, <2>2, SetInduction
    <2> QED BY <2>3 DEF I
  <1>11. chosen = [k \in 0..n |-> chosen[k]]
    BY <1>7
  <1> QED BY <1>8, <1>9, <1>10, <1>11

\* The bits of a number, one by one.
LEMMA BitsForm ==
  ASSUME NEW value \in Int, NEW n \in 0..W
  PROVE  /\ writeBits(value, n) \in Seq(Bit) /\ Len(writeBits(value, n)) = n
         /\ \A i \in 1..n : writeBits(value, n)[i] = (value \div Pow2[n - i]) % 2
  <1>1. ASSUME NEW i \in 1..n
        PROVE  (value \div Pow2[n - i]) % 2 \in Bit
    <2>1. n - i \in 0..W
      BY WordAssumption
    <2>2. Pow2[n - i] \in Nat \ {0}
      BY <2>1, Pow2Def
    <2>3. value \div Pow2[n - i] \in Int
      BY <2>2, Remainder
    <2> QED BY <2>3 DEF Bit
  <1>2. n \in Nat
    BY WordAssumption
  <1> QED BY <1>1, <1>2 DEF writeBits

\* What is read where n bits of a number were written is the number modulo 2^n.
LEMMA ReadBack ==
  ASSUME NEW value \in Int, NEW n \in 0..W, NEW stream, NEW pos \in Nat,
         \A k \in 1..n : stream[pos + k - 1] = writeBits(value, n)[k]
  PROVE  readBits(stream, pos, n) = value % Pow2[n]
  <1> DEFINE q(k) == value \div Pow2[n - k]
             q0 == value \div Pow2[n]
  <1>1. n \in Nat /\ n <= W /\ W \in Nat
    BY WordAssumption
  <1>2. \A k \in 1..n : stream[pos + k - 1] = q(k) % 2
    BY BitsForm
  <1>3. \A k \in 0..n : Pow2[k] \in Nat \ {0} /\ Pow2[n - k] \in Nat \ {0}
    <2>1. \A k \in 0..n : k \in 0..W /\ n - k \in 0..W
      BY <1>1
    <2> QED BY <2>1, Pow2Def
  <1>4. \A k \in 0..n : q(k) \in Int
    BY <1>3, Remainder
  <1>5. ASSUME NEW k \in 1..n
        PROVE  q(k) = 2 * q(k - 1) + stream[pos + k - 1] /\ stream[pos + k - 1] \in Bit
    <2>1. k \in 0..n /\ n - (k - 1) \in 1..W /\ (n - (k - 1)) - 1 = n - k
      BY <1>1
    <2>2. Pow2[n - (k - 1)] = 2 * Pow2[n - k]
      BY <2>1, Pow2Def
    <2>3. Pow2[n - k] \in Nat \ {0}
      BY <1>3, <2>1
    <2>4. q(k - 1) = q(k) \div 2
      BY <2>2, <2>3, HalfQuotient
    <2>5. q(k) \in Int
      BY <1>4, <2>1
    <2>6. stream[pos + k - 1] = q(k) % 2
      BY <1>2
    <2> HIDE DEF q
    <2> QED BY <2>4, <2>5, <2>6 DEF Bit
  <1>6. q(0) = q0 /\ q(n) = value
    <2>1. n - 0 = n /\ n - n = 0
      BY <1>1
    <2>2. value \div 1 = value
      OBVIOUS
    <2> QED BY <2>1, <2>2, Pow2Def
  <1> HIDE DEF q
  <1>7. PICK result \in [0..n -> Nat] :
          /\ result[0] = 0
          /\ \A k \in 1..n : result[k] = 2 * result[k - 1] + stream[pos + k - 1]
          /\ readBits(stream, pos, n) = result[n]
    <2>1. \A k \in 1..n : stream[pos + k - 1] \in Bit
      BY <1>5
    <2> QED BY <1>1, <2>1, ReadLoop
  <1>8. q0 \in Int
    BY <1>4, <1>6, <1>1
  <1> HIDE DEF q0
  <1> DEFINE I == {k \in Nat : k <= n => result[k] = q(k) - Pow2[k] * q0}
  <1>9. 0 \in I
    BY <1>6, <1>7, <1>8, Pow2Def
  <1>10. ASSUME NEW k \in Nat, k \in I
         PROVE  k + 1 \in I
    <2> SUFFICES ASSUME k + 1 <= n PROVE result[k + 1] = q(k + 1) - Pow2[k + 1] * q0
      OBVIOUS
    <2> DEFINE b == stream[pos + (k + 1) - 1]
               x == Pow2[k] * q0
    <2>1. k + 1 \in 1..n /\ (k + 1) - 1 = k /\ k \in 0..n /\ k + 1 \in 1..W
      BY <1>1
    <2>2. result[k + 1] = 2 * result[k] + b /\ q(k + 1) = 2 * q(k) + b /\ b \in Int
      BY <1>5, <1>7, <2>1 DEF Bit
    <2>3. result[k] = q(k) - x
      BY <1>10, <2>1
    <2> HIDE DEF I
    <2>4. Pow2[k] \in Nat /\ q(k) \in Int
      BY <1>3, <1>4, <2>1
    <2>5. x \in Int
      BY <1>8, <2>4
    <2>6. Pow2[k + 1] = 2 * Pow2[k]
      <3>1. Pow2[k + 1] = 2 * Pow2[(k + 1) - 1]
        BY <2>1, Pow2Def
      <3> QED BY <2>1, <3>1
    <2>7. Pow2[k + 1] * q0 = 2 * x
      <3> DEFINE p == Pow2[k]
      <3>1. p \in Nat /\ Pow2[k + 1] = 2 * p /\ x = p * q0
        BY <2>4, <2>6
      <3> HIDE DEF p, x
      <3> QED BY <1>8, <3>1
    <2> HIDE DEF b, x
    <2> QED BY <2>2, <2>3, <2>4, <2>5, <2>7
  <1> HIDE DEF I
  <1>11. n \in I
    BY <1>1, <1>9, <1>10, SetInduction
  <1>12. result[n] = value - Pow2[n] * q0
    BY <1>1, <1>6, <1>11 DEF I
  <1>13. value % Pow2[n] = value - Pow2[n] * q0
    <2> DEFINE m == Pow2[n]
    <2>1. m \in Nat \ {0}
      BY <1>1, <1>3
    <2> HIDE DEF m
    <2>2. value = m * (value \div m) + (value % m) /\ value % m \in Int /\ m * (value \div m) \in Int
      BY <2>1, Remainder
    <2>3. value % m = value - m * (value \div m)
      BY <2>2
    <2> QED BY <2>3 DEF m, q0
  <1> QED BY <1>7, <1>12, <1>13

\* A number that fits n bits is read as it was written.
LEMMA ReadFitting ==
  ASSUME NEW n \in 0..W, NEW value \in 0..(Pow2[n] - 1), NEW stream, NEW pos \in Nat,
         \A k \in 1..n : stream[pos + k - 1] = writeBits(value, n)[k]
  PROVE  readBits(stream, pos, n) = value
  <1>1. Pow2[n] \in Nat \ {0} /\ value \in Int
    BY Pow2Def
  <1>2. readBits(stream, pos, n) = value % Pow2[n]
    BY <1>1, ReadBack
  <1> QED BY <1>1, <1>2
-----------------------------------------------------------------------------
(* Words as signed numbers *)

\* A field of n bits holds the signed numbers below 2^(n - 1): extending the sign
\* of what is left of one modulo 2^n gives it back.
LEMMA SignExtended ==
  ASSUME NEW n \in 1..W, NEW v \in Int, -Pow2[n - 1] <= v, v < Pow2[n - 1]
  PROVE  signExtend64(v % Pow2[n], n) = v
  <1> DEFINE h == Pow2[n - 1]
             m == Pow2[n]
             u == v % m
  <1> SUFFICES signExtend64(u, n) = v
    OBVIOUS
  <1>1. h \in Nat \ {0} /\ m = 2 * h
    <2>1. n - 1 \in 0..W
      BY WordAssumption
    <2> QED BY <2>1, Pow2Def
  <1>2. -h <= v /\ v < h
    OBVIOUS
  <1>3. signExtend64(u, n) = IF u < h THEN u ELSE u - m
    BY DEF signExtend64
  <1> HIDE DEF h, m
  <1>4. CASE v >= 0
    <2>1. v = m * 0 + v /\ v \in 0..(m - 1) /\ m \in Nat \ {0}
      BY <1>1, <1>2, <1>4
    <2>2. u = v
      BY <2>1, RemainderUnique
    <2> HIDE DEF u
    <2> QED BY <1>2, <1>3, <2>2
  <1>5. CASE v < 0
    <2>1. v = m * (-1) + (v + m) /\ v + m \in 0..(m - 1) /\ m \in Nat \ {0}
      BY <1>1, <1>2, <1>5
    <2>2. u = v + m
      BY <2>1, RemainderUnique
    <2>3. ~(v + m < h) /\ (v + m) - m = v
      BY <1>1, <1>2
    <2> HIDE DEF u
    <2> QED BY <1>3, <2>2, <2>3
  <1> QED BY <1>4, <1>5

\* The numbers an int64 holds.
SignedWord == {n \in Int : -Pow2[W - 1] <= n /\ n < Pow2[W - 1]}

\* Half of the words are negative numbers.
LEMMA WordHalves ==
  /\ W - 1 \in 0..W /\ W \in 1..W
  /\ Pow2[W - 1] \in Nat \ {0} /\ Pow2[W] \in Nat \ {0} /\ Pow2[W] = 2 * Pow2[W - 1]
  <1>1. W - 1 \in 0..W /\ W \in 1..W /\ W \in 0..W
    BY WordAssumption
  <1> QED BY <1>1, Pow2Def

\* Arithmetic on words gives a signed word, a multiple of 2^W away.
LEMMA SignedForm ==
  ASSUME NEW n \in Int
  PROVE  Signed(n) \in SignedWord /\ \E k \in Int : Signed(n) = n + Pow2[W] * k
  <1> DEFINE m == Pow2[W]
             h == Pow2[W - 1]
             u == n % m
             c == n \div m
  <1>1. h \in Nat \ {0} /\ m \in Nat \ {0} /\ m = 2 * h
    BY WordHalves
  <1>2. u \in 0..(m - 1) /\ c \in Int /\ n = m * c + u
    <2> HIDE DEF m
    <2> QED BY <1>1, Remainder
  <1>3. Signed(n) = IF u < h THEN u ELSE u - m
    BY DEF Signed, Unsigned
  <1>4. SignedWord = {i \in Int : -h <= i /\ i < h}
    BY DEF SignedWord
  <1> HIDE DEF m, h, u, c
  <1>5. Signed(n) \in SignedWord
    BY <1>1, <1>2, <1>3, <1>4
  <1>6. \E k \in Int : Signed(n) = n + m * k
    <2>1. CASE u < h
      <3>1. -c \in Int /\ u = n + m * (-c)
        BY <1>1, <1>2
      <3> QED BY <1>3, <2>1, <3>1
    <2>2. CASE ~(u < h)
      <3>1. -c - 1 \in Int /\ u - m = n + m * (-c - 1)
        BY <1>1, <1>2
      <3> QED BY <1>3, <2>2, <3>1
    <2> QED BY <2>1, <2>2
  <1> QED BY <1>5, <1>6 DEF m

\* A signed word is determined by what it is modulo 2^W.
LEMMA SignedUnique ==
  ASSUME NEW e \in SignedWord, NEW n \in Int, NEW k \in Int, n = e + Pow2[W] * k
  PROVE  Signed(n) = e
  <1> DEFINE m == Pow2[W]
             h == Pow2[W - 1]
             u == n % m
  <1>1. h \in Nat \ {0} /\ m \in Nat \ {0} /\ m = 2 * h
    BY WordHalves
  <1>2. e \in Int /\ -h <= e /\ e < h
    BY DEF SignedWord
  <1>3. Signed(n) = IF u < h THEN u ELSE u - m
    BY DEF Signed, Unsigned
  <1>4. n = e + m * k
    OBVIOUS
  <1> HIDE DEF m, h
  <1>5. CASE e >= 0
    <2>1. n = m * k + e /\ e \in 0..(m - 1)
      <3> DEFINE x == m * k
      <3>1. x \in Int
        BY <1>1
      <3> HIDE DEF x
      <3> QED BY <1>1, <1>2, <1>4, <1>5, <3>1 DEF x
    <2>2. u = e
      BY <1>1, <2>1, RemainderUnique
    <2> QED BY <1>2, <1>3, <2>2
  <1>6. CASE e < 0
    <2> DEFINE k1 == k - 1
               f  == e + m
    <2>1. n = m * k1 + f
      <3>1. m * (k - 1) = (m * k) - m /\ m * k \in Int
        BY <1>1
      <3> DEFINE x == m * k
                 y == m * (k - 1)
      <3>2. y = x - m /\ x \in Int /\ n = e + x
        BY <1>4, <3>1
      <3>3. n = y + (e + m)
        <4> HIDE DEF x, y
        <4> QED BY <1>1, <1>2, <3>2
      <3> QED BY <3>3
    <2>2. f \in 0..(m - 1) /\ k1 \in Int
      BY <1>1, <1>2, <1>6
    <2>3. ~(f < h) /\ f - m = e
      BY <1>1, <1>2
    <2> HIDE DEF f, k1
    <2>4. u = f
      BY <1>1, <2>1, <2>2, RemainderUnique
    <2> HIDE DEF u
    <2> QED BY <1>3, <2>3, <2>4
  <1> QED BY <1>2, <1>5, <1>6

\* A difference of signed words, added again, gives back the word it led to, even
\* when the subtraction overflowed.
LEMMA DifferenceUndone ==
  ASSUME NEW e \in SignedWord, NEW d \in SignedWord
  PROVE  Signed(d + Signed(e - d)) = e
  <1>1. d \in Int /\ e \in Int /\ e - d \in Int
    BY DEF SignedWord
  <1>2. PICK k \in Int : Signed(e - d) = (e - d) + Pow2[W] * k
    BY <1>1, SignedForm
  <1> DEFINE x == Pow2[W] * k
             n == d + Signed(e - d)
  <1>3. x \in Int
    BY WordHalves
  <1>4. n = e + x /\ n \in Int
    <2> HIDE DEF x
    <2>1. Signed(e - d) = (e - d) + x
      BY <1>2 DEF x
    <2> QED BY <1>1, <1>3, <2>1
  <1> HIDE DEF n
  <1>5. Signed(n) = e
    BY <1>4, SignedUnique
  <1> QED BY <1>5 DEF n

\* The same for timestamps, which are unsigned words.
LEMMA DistanceUndone ==
  ASSUME NEW ts \in 0..(Pow2[W] - 1), NEW t0 \in 0..(Pow2[W] - 1)
  PROVE  Unsigned(t0 + Signed(ts - t0)) = ts
  <1>1. ts \in Int /\ t0 \in Int /\ ts - t0 \in Int
    BY WordHalves
  <1>2. PICK k \in Int : Signed(ts - t0) = (ts - t0) + Pow2[W] * k
    BY <1>1, SignedForm
  <1> DEFINE m == Pow2[W]
             x == m * k
             n == t0 + Signed(ts - t0)
  <1>3. x \in Int /\ m \in Nat \ {0} /\ ts \in 0..(m - 1)
    BY WordHalves
  <1>4. n = x + ts /\ n \in Int
    <2> HIDE DEF x
    <2>1. Signed(ts - t0) = (ts - t0) + x
      BY <1>2 DEF x
    <2> QED BY <1>1, <1>3, <2>1
  <1>5. Unsigned(n) = n % m
    BY DEF Unsigned
  <1> HIDE DEF n, m
  <1>6. n % m = ts
    BY <1>3, <1>4, RemainderUnique
  <1> QED BY <1>5, <1>6 DEF n
-----------------------------------------------------------------------------
(* Codes and what follows them *)

\* Where the parts of a stream are.
LEMMA Joined ==
  ASSUME NEW head \in Seq(Bit), NEW body \in Seq(Bit), NEW tail \in Seq(Bit),
         NEW s, s = (head \o body) \o tail
  PROVE  /\ s \in Seq(Bit) /\ Len(s) = Len(head) + Len(body) + Len(tail)
         /\ \A k \in 1..Len(head) : s[k] = head[k]
         /\ \A k \in 1..Len(body) : s[Len(head) + k] = body[k]
         /\ \A k \in 1..Len(tail) : s[Len(head) + Len(body) + k] = tail[k]
  <1> DEFINE t == head \o body
  <1>1. t \in Seq(Bit) /\ Len(t) = Len(head) + Len(body)
    OBVIOUS
  <1>2. \A k \in 1..Len(head) : t[k] = head[k]
    OBVIOUS
  <1>3. \A k \in 1..Len(body) : t[Len(head) + k] = body[k]
    OBVIOUS
  <1> HIDE DEF t
  <1>4. s = t \o tail
    BY DEF t
  <1>5. s \in Seq(Bit) /\ Len(s) = Len(t) + Len(tail) /\ \A k \in 1..Len(t) : s[k] = t[k]
    <2>1. t \in Seq(Bit)
      BY <1>1
    <2>2. t \o tail \in Seq(Bit) /\ Len(t \o tail) = Len(t) + Len(tail)
      BY <2>1
    <2>3. \A k \in 1..Len(t) : (t \o tail)[k] = t[k]
      BY <2>1
    <2> QED BY <1>4, <2>2, <2>3
  <1>6. \A k \in 1..Len(head) : k \in 1..Len(t)
    BY <1>1
  <1>7. \A k \in 1..Len(body) : Len(head) + k \in 1..Len(t)
    BY <1>1
  <1>8. \A k \in 1..Len(tail) : s[Len(t) + k] = tail[k]
    <2>1. t \in Seq(Bit)
      BY <1>1
    <2>2. \A k \in 1..Len(tail) : (t \o tail)[Len(t) + k] = tail[k]
      BY <2>1
    <2> QED BY <1>4, <2>2
  <1>9. \A k \in 1..Len(tail) : s[Len(head) + Len(body) + k] = tail[k]
    BY <1>1, <1>8
  <1> QED BY <1>1, <1>2, <1>3, <1>5, <1>6, <1>7, <1>9

\* What follows a code are bits.
LEMMA FollowingForm == \A n \in Nat : Following(n) \in Seq(Bit) /\ Len(Following(n)) = n
  BY DEF Following, Bit

\* The prefixes of the classes, bit by bit.
LEMMA PrefixBits ==
  /\ Len(Prefix[1]) = 2 /\ Prefix[1][1] = 1 /\ Prefix[1][2] = 0
  /\ Len(Prefix[2]) = 3 /\ Prefix[2][1] = 1 /\ Prefix[2][2] = 1 /\ Prefix[2][3] = 0
  /\ Len(Prefix[3]) = 4 /\ Prefix[3][1] = 1 /\ Prefix[3][2] = 1 /\ Prefix[3][3] = 1
  /\ Prefix[3][4] = 0
  /\ Len(Prefix[4]) = 4 /\ Prefix[4][1] = 1 /\ Prefix[4][2] = 1 /\ Prefix[4][3] = 1
  /\ Prefix[4][4] = 1
  BY DEF Prefix

\* They are two to four bits, the first of them 1.
LEMMA PrefixForm ==
  \A i \in 1..4 : Prefix[i] \in Seq(Bit) /\ Len(Prefix[i]) \in 2..4 /\ Prefix[i][1] = 1
  <1>1. Prefix[1] = <<1, 0>> /\ Prefix[2] = <<1, 1, 0>>
    BY DEF Prefix
  <1>2. Prefix[3] = <<1, 1, 1, 0>> /\ Prefix[4] = <<1, 1, 1, 1>>
    BY DEF Prefix
  <1>3. 0 \in Bit /\ 1 \in Bit
    BY DEF Bit
  <1>4. Prefix[1] \in Seq(Bit)
    BY <1>1, <1>3
  <1>5. Prefix[2] \in Seq(Bit)
    BY <1>1, <1>3
  <1>6. Prefix[3] \in Seq(Bit)
    BY <1>2, <1>3
  <1>7. Prefix[4] \in Seq(Bit)
    BY <1>2, <1>3
  <1>8. \A i \in 1..4 : i = 1 \/ i = 2 \/ i = 3 \/ i = 4
    OBVIOUS
  <1> QED BY <1>4, <1>5, <1>6, <1>7, <1>8, PrefixBits

\* No prefix begins another: a stream that begins with one begins with no other.
LEMMA PrefixUnique ==
  ASSUME NEW i \in 1..4, NEW s \in Seq(Bit),
         Len(s) >= 4, \A k \in 1..Len(Prefix[i]) : s[k] = Prefix[i][k],
         NEW j \in 1..4
  PROVE  SubSeq(s, 1, Len(Prefix[j])) = Prefix[j] <=> j = i
  <1>1. Len(Prefix[i]) \in 2..4 /\ Len(Prefix[j]) \in 2..4 /\ Prefix[i] \in Seq(Bit) /\ Prefix[j] \in Seq(Bit)
    BY PrefixForm
  <1> DEFINE n == Len(Prefix[j])
             t == SubSeq(s, 1, n)
  <1>2. t \in Seq(Bit) /\ Len(t) = n /\ \A k \in 1..n : t[k] = s[k]
    <2> HIDE DEF n
    <2>1. n \in 1..Len(s) /\ Len(s) \in Nat
      <3>1. n \in 2..4
        BY <1>1 DEF n
      <3>2. Len(s) \in Nat
        OBVIOUS
      <3> QED BY <3>1, <3>2
    <2>2. SubSeq(s, 1, n) \in Seq(Bit) /\ Len(SubSeq(s, 1, n)) = n
      BY <2>1
    <2>3. \A k \in 1..n : SubSeq(s, 1, n)[k] = s[k]
      BY <2>1
    <2> QED BY <2>2, <2>3
  <1>3. ASSUME j = i
        PROVE  t = Prefix[j]
    <2>1. \A k \in 1..n : t[k] = Prefix[j][k]
      BY <1>2, <1>3
    <2>2. Len(Prefix[j]) = n /\ Prefix[j] \in Seq(Bit)
      BY <1>1
    <2> HIDE DEF n, t
    <2> QED BY <1>2, <2>1, <2>2
  <1>4. ASSUME j # i
        PROVE  t # Prefix[j]
    <2> SUFFICES ASSUME t = Prefix[j] PROVE FALSE
      OBVIOUS
    <2>1. \A k \in 1..n : s[k] = Prefix[j][k]
      BY <1>2
    <2> HIDE DEF t
    <2>2. \A k \in 2..4 : k <= n /\ k <= Len(Prefix[i]) => Prefix[i][k] = Prefix[j][k]
      BY <1>1, <2>1
    <2>3. i = 1 \/ i = 2 \/ i = 3 \/ i = 4
      OBVIOUS
    <2>4. j = 1 \/ j = 2 \/ j = 3 \/ j = 4
      OBVIOUS
    <2>5. Prefix[i][2] = Prefix[j][2]
      BY <1>1, <2>2
    <2>6. 3 <= Len(Prefix[j]) /\ 3 <= Len(Prefix[i]) => Prefix[i][3] = Prefix[j][3]
      BY <2>2
    <2>7. 4 <= Len(Prefix[j]) /\ 4 <= Len(Prefix[i]) => Prefix[i][4] = Prefix[j][4]
      BY <2>2
    <2> HIDE DEF n
    <2>8. CASE i = 1
      BY ONLY <1>4, <2>4, <2>5, <2>8, PrefixBits
    <2>9. CASE i = 2
      BY ONLY <1>4, <2>4, <2>5, <2>6, <2>9, PrefixBits
    <2>10. CASE i = 3
      BY ONLY <1>4, <2>4, <2>5, <2>6, <2>7, <2>10, PrefixBits
    <2>11. CASE i = 4
      BY ONLY <1>4, <2>4, <2>5, <2>6, <2>7, <2>11, PrefixBits
    <2> QED BY <2>3, <2>8, <2>9, <2>10, <2>11
  <1> QED BY <1>3, <1>4
-----------------------------------------------------------------------------
(* The timestamp stream *)

\* Every delta of deltas but 0 has a class.
LEMMA ClassChosen ==
  ASSUME NEW dod \in Int, dod # 0
  PROVE  \E i \in 1..4 : Holds(i, dod) /\ encodeDoD(dod) = Prefix[i] \o writeBits(dod, Widths[i])
  <1> DEFINE First(k) == Holds(k, dod) /\ \A j \in 1..(k - 1) : ~Holds(j, dod)
             c == CHOOSE k \in 1..4 : First(k)
  <1>1. \E k \in 1..4 : First(k)
    <2>1. Holds(4, dod)
      BY DEF Holds
    <2>2. 1..(1 - 1) = {} /\ 1..(2 - 1) = {1} /\ 1..(3 - 1) = {1, 2} /\ 1..(4 - 1) = {1, 2, 3}
      OBVIOUS
    <2>3. CASE Holds(1, dod)
      BY <2>2, <2>3
    <2>4. CASE ~Holds(1, dod) /\ Holds(2, dod)
      BY <2>2, <2>4
    <2>5. CASE ~Holds(1, dod) /\ ~Holds(2, dod) /\ Holds(3, dod)
      BY <2>2, <2>5
    <2>6. CASE ~Holds(1, dod) /\ ~Holds(2, dod) /\ ~Holds(3, dod)
      BY <2>1, <2>2, <2>6
    <2> QED BY <2>3, <2>4, <2>5, <2>6
  <1>2. c \in 1..4 /\ First(c)
    BY <1>1
  <1>3. encodeDoD(dod) = Prefix[c] \o writeBits(dod, Widths[c])
    BY DEF encodeDoD
  <1> QED BY <1>2, <1>3

\* The widths of the classes are widths of fields.
LEMMA WidthRange ==
  \A i \in 1..4 : /\ Widths[i] \in 1..W /\ Widths[i] \in 0..W /\ Widths[i] - 1 \in 0..W
                 /\ Widths[i] \in Nat /\ Widths[i] >= 2 /\ W >= 2
  <1>1. Widths \in [1..4 -> 2..W] /\ W \in Nat
    BY GorillaTimesAssumption, WordAssumption
  <1>2. \A i \in 1..4 : Widths[i] \in 2..W
    BY <1>1
  <1> QED BY <1>1, <1>2

\* What is read is written: the same number of bits, and of the number what its
\* field holds.
LEMMA DoDRead ==
  ASSUME NEW dod \in Int, NEW i \in 1..4, dod # 0,
         encodeDoD(dod) = Prefix[i] \o writeBits(dod, Widths[i])
  PROVE  decodeDoD(encodeDoD(dod) \o Following(W))
           = [dod |-> signExtend64(dod % Pow2[Widths[i]], Widths[i]),
              used |-> Len(encodeDoD(dod))]
  <1> DEFINE w == Widths[i]
             head == Prefix[i]
             body == writeBits(dod, w)
             s == encodeDoD(dod) \o Following(W)
             n == Len(head)
             c == CHOOSE k \in 1..4 : SubSeq(s, 1, Len(Prefix[k])) = Prefix[k]
  <1>1. w \in 1..W /\ w \in 0..W /\ w \in Nat
    BY WidthRange, Zenon
  <1>2. head \in Seq(Bit) /\ n \in 2..4 /\ head[1] = 1
    BY PrefixForm, Zenon
  <1>3. body \in Seq(Bit) /\ Len(body) = w
    <2> HIDE DEF w
    <2> QED BY <1>1, BitsForm
  <1>4. Following(W) \in Seq(Bit) /\ Len(Following(W)) = W
    BY FollowingForm, WordAssumption
  <1>5. s = (head \o body) \o Following(W) /\ encodeDoD(dod) = head \o body
    OBVIOUS
  <1> HIDE DEF head, body, s
  <1>6. /\ s \in Seq(Bit) /\ Len(s) = n + w + W
        /\ \A k \in 1..n : s[k] = head[k]
        /\ \A k \in 1..w : s[n + k] = body[k]
    <2> HIDE DEF w, n
    <2>1. /\ s \in Seq(Bit) /\ Len(s) = Len(head) + Len(body) + Len(Following(W))
          /\ \A k \in 1..Len(head) : s[k] = head[k]
          /\ \A k \in 1..Len(body) : s[Len(head) + k] = body[k]
      <3> DEFINE tail == Following(W)
      <3>1. head \in Seq(Bit) /\ body \in Seq(Bit) /\ tail \in Seq(Bit)
        BY <1>2, <1>3, <1>4
      <3>2. s = (head \o body) \o tail
        BY <1>5
      <3> HIDE DEF tail
      <3>3. /\ s \in Seq(Bit) /\ Len(s) = Len(head) + Len(body) + Len(tail)
            /\ \A k \in 1..Len(head) : s[k] = head[k]
            /\ \A k \in 1..Len(body) : s[Len(head) + k] = body[k]
        BY ONLY <3>1, <3>2, Joined
      <3> QED BY <3>3 DEF tail
    <2> QED BY <1>3, <1>4, <2>1 DEF n
  <1>7. Len(s) >= 4 /\ s[1] = 1
    <2>1. w >= 2 /\ W >= 2
      BY WidthRange
    <2> HIDE DEF w, n
    <2>2. w \in Int /\ W \in Int /\ 1 \in 1..n
      BY <1>1, <1>2, WordAssumption
    <2> QED BY <1>2, <1>6, <2>1, <2>2
  <1>8. c = i
    <2>1. \A k \in 1..n : s[k] = Prefix[i][k]
      BY <1>6 DEF head
    <2>2. \A j \in 1..4 : SubSeq(s, 1, Len(Prefix[j])) = Prefix[j] <=> j = i
      BY <1>6, <1>7, <2>1, PrefixUnique DEF head
    <2> QED BY <2>2
  <1>9. readBits(s, n + 1, w) = dod % Pow2[w]
    <2>1. n + 1 \in Nat /\ n \in Nat
      BY <1>2
    <2>2. \A k \in 1..w : s[(n + 1) + k - 1] = body[k]
      <3> TAKE k \in 1..w
      <3>1. (n + 1) + k - 1 = n + k
        BY <2>1
      <3> QED BY <1>6, <3>1
    <2> HIDE DEF w, n
    <2>3. \A k \in 1..w : s[(n + 1) + k - 1] = writeBits(dod, w)[k]
      BY <2>2 DEF body
    <2> QED BY <1>1, <2>1, <2>3, ReadBack
  <1>10. decodeDoD(s) = [dod |-> signExtend64(readBits(s, n + 1, w), w), used |-> n + w]
    <2>1. s[1] # 0
      BY <1>7
    <2>2. decodeDoD(s) = [dod |-> signExtend64(readBits(s, Len(Prefix[c]) + 1, Widths[c]), Widths[c]),
                          used |-> Len(Prefix[c]) + Widths[c]]
      BY <2>1 DEF decodeDoD, WidthRead
    <2> HIDE DEF c
    <2> QED BY <1>8, <2>2 DEF head
  <1>11. Len(encodeDoD(dod)) = n + w
    <2>1. head \in Seq(Bit) /\ body \in Seq(Bit)
      BY <1>2, <1>3
    <2>2. Len(head \o body) = Len(head) + Len(body)
      BY ONLY <2>1
    <2> QED BY <1>3, <1>5, <2>2
  <1> QED BY <1>9, <1>10, <1>11 DEF s

\* As many bits are read as were written, whatever was written.
LEMMA DoDUsed ==
  ASSUME NEW dod \in Int
  PROVE  /\ decodeDoD(encodeDoD(dod) \o Following(W)).used = Len(encodeDoD(dod))
         /\ Len(encodeDoD(dod)) \in Nat
  <1>1. CASE dod = 0
    <2>1. encodeDoD(dod) = <<0>>
      BY <1>1 DEF encodeDoD
    <2>2. <<0>> \in Seq(Bit) /\ Len(<<0>>) = 1 /\ Following(W) \in Seq(Bit)
      BY FollowingForm, WordAssumption DEF Bit
    <2>3. (<<0>> \o Following(W))[1] = 0
      BY <2>2
    <2>4. decodeDoD(<<0>> \o Following(W)) = [dod |-> 0, used |-> 1]
      BY <2>3 DEF decodeDoD
    <2> QED BY <2>1, <2>2, <2>4
  <1>2. CASE dod # 0
    <2>1. PICK i \in 1..4 : encodeDoD(dod) = Prefix[i] \o writeBits(dod, Widths[i])
      BY <1>2, ClassChosen
    <2>2. decodeDoD(encodeDoD(dod) \o Following(W)).used = Len(encodeDoD(dod))
      <3>1. decodeDoD(encodeDoD(dod) \o Following(W))
              = [dod |-> signExtend64(dod % Pow2[Widths[i]], Widths[i]),
                 used |-> Len(encodeDoD(dod))]
        BY <1>2, <2>1, DoDRead
      <3> QED BY <3>1
    <2>3. Prefix[i] \in Seq(Bit) /\ writeBits(dod, Widths[i]) \in Seq(Bit)
      BY PrefixForm, WidthRange, BitsForm
    <2> DEFINE head == Prefix[i]
               body == writeBits(dod, Widths[i])
    <2>4. head \in Seq(Bit) /\ body \in Seq(Bit) /\ encodeDoD(dod) = head \o body
      BY <2>1, <2>3
    <2> HIDE DEF head, body
    <2>5. Len(encodeDoD(dod)) \in Nat
      BY <2>4
    <2> QED BY <2>2, <2>5
  <1> QED BY <1>1, <1>2

\* A delta of deltas comes back when the last class has room for it: the other
\* classes are chosen for what they have room for.
LEMMA DoDDecoded ==
  ASSUME MaxDoD < Pow2[Widths[4] - 1],
         NEW dod \in Int, -MaxDoD <= dod, dod <= MaxDoD
  PROVE  decodeDoD(encodeDoD(dod) \o Following(W)).dod = dod
  <1>1. CASE dod = 0
    <2>1. encodeDoD(dod) = <<0>>
      BY <1>1 DEF encodeDoD
    <2>2. <<0>> \in Seq(Bit) /\ Len(<<0>>) = 1 /\ Following(W) \in Seq(Bit)
      BY FollowingForm, WordAssumption DEF Bit
    <2>3. (<<0>> \o Following(W))[1] = 0
      BY <2>2
    <2>4. decodeDoD(<<0>> \o Following(W)) = [dod |-> 0, used |-> 1]
      BY <2>3 DEF decodeDoD
    <2> QED BY <1>1, <2>1, <2>4
  <1>2. CASE dod # 0
    <2>1. PICK i \in 1..4 :
            Holds(i, dod) /\ encodeDoD(dod) = Prefix[i] \o writeBits(dod, Widths[i])
      BY <1>2, ClassChosen
    <2> DEFINE w == Widths[i]
               room == Pow2[w - 1]
    <2>2. w \in 1..W /\ w - 1 \in 0..W /\ room \in Nat
      BY WidthRange, Pow2Def
    <2>3. abs(dod) = IF dod < 0 THEN -dod ELSE dod
      <3>1. CASE dod < 0
        <4>1. Widths[4] - 1 \in 0..W /\ Widths[4] \in 1..W
          BY WidthRange
        <4>2. W - 1 \in 0..W /\ W \in Int
          BY WordAssumption
        <4>3. Widths[4] - 1 <= W - 1
          BY <4>1, <4>2
        <4>4. Pow2[Widths[4] - 1] <= Pow2[W - 1]
          BY <4>1, <4>2, <4>3, Pow2Grows
        <4>5. Pow2[Widths[4] - 1] \in Nat /\ Pow2[W - 1] \in Nat /\ MaxDoD \in Nat
          BY <4>1, <4>2, Pow2Def, GorillaTimesAssumption
        <4>6. -dod \in SignedWord
          BY <3>1, <4>4, <4>5 DEF SignedWord
        <4>7. -dod = -dod + Pow2[W] * 0 /\ -dod \in Int
          BY WordHalves
        <4>8. Signed(-dod) = -dod
          BY <4>6, <4>7, SignedUnique
        <4> QED BY <3>1, <4>8 DEF abs
      <3>2. CASE ~(dod < 0)
        BY <3>2 DEF abs
      <3> QED BY <3>1, <3>2
    <2>4. -room <= dod /\ dod < room
      <3>1. CASE i = 4
        <4>1. MaxDoD < room /\ MaxDoD \in Nat
          BY <3>1, GorillaTimesAssumption
        <4> HIDE DEF room
        <4> QED BY <2>2, <4>1
      <3>2. CASE i # 4
        <4>1. abs(dod) < room
          BY <2>1, <3>2 DEF Holds
        <4> HIDE DEF room
        <4>2. (IF dod < 0 THEN -dod ELSE dod) < room
          BY <2>3, <4>1
        <4> QED BY <2>2, <4>2
      <3> QED BY <3>1, <3>2
    <2>5. signExtend64(dod % Pow2[w], w) = dod
      BY <2>2, <2>4, SignExtended
    <2>6. decodeDoD(encodeDoD(dod) \o Following(W)).dod = signExtend64(dod % Pow2[w], w)
      <3>1. decodeDoD(encodeDoD(dod) \o Following(W))
              = [dod |-> signExtend64(dod % Pow2[w], w), used |-> Len(encodeDoD(dod))]
        BY <1>2, <2>1, DoDRead
      <3> QED BY <3>1
    <2> QED BY <2>5, <2>6
  <1> QED BY <1>1, <1>2

\* The encoder holds words; no bit is left over.
TimesInv ==
  /\ timeEnc \in [ts : 0..(Pow2[W] - 1), delta : SignedWord]
  /\ timeLag = 0

\* It does at the start.
LEMMA TimesInvInit == TimesInit => TimesInv
  <1> SUFFICES ASSUME TimesInit PROVE TimesInv
    OBVIOUS
  <1>1. PICK t0 \in Times, t1 \in Times : timeEnc = [ts |-> t1, delta |-> Signed(t1 - t0)]
    BY DEF TimesInit
  <1>2. t0 \in 0..(Pow2[W] - 1) /\ t1 \in 0..(Pow2[W] - 1)
    BY GorillaTimesAssumption
  <1>3. t1 - t0 \in Int
    BY <1>2, WordHalves
  <1>4. Signed(t1 - t0) \in SignedWord
    BY <1>3, SignedForm
  <1> QED BY <1>1, <1>2, <1>4 DEF TimesInit, TimesInv

\* What one more timestamp does: the delta of deltas is a number, and the codes
\* line up.
LEMMA TimesStep ==
  ASSUME TimesInv, NEW ts \in Times, NextTimestamp(ts)
  PROVE  /\ TimesInv'
         /\ ts \in 0..(Pow2[W] - 1) /\ timeEnc.ts \in 0..(Pow2[W] - 1)
         /\ timeEnc.delta \in SignedWord /\ Signed(ts - timeEnc.ts) \in SignedWord
         /\ Signed(Signed(ts - timeEnc.ts) - timeEnc.delta) \in Int
  <1> DEFINE delta == Signed(ts - timeEnc.ts)
             dod == Signed(delta - timeEnc.delta)
             written == encodeDoD(dod)
             read == decodeDoD(written \o Following(W))
  <1>1. timeEnc.ts \in 0..(Pow2[W] - 1) /\ timeEnc.delta \in SignedWord /\ timeLag = 0
    BY DEF TimesInv
  <1>2. ts \in 0..(Pow2[W] - 1)
    BY GorillaTimesAssumption
  <1>3. ts - timeEnc.ts \in Int
    BY <1>1, <1>2, WordHalves
  <1>4. delta \in SignedWord
    BY <1>3, SignedForm
  <1>5. delta - timeEnc.delta \in Int
    <2> HIDE DEF delta
    <2> QED BY <1>1, <1>4 DEF SignedWord
  <1>6. dod \in SignedWord /\ dod \in Int
    <2> HIDE DEF delta
    <2> QED BY <1>5, SignedForm DEF SignedWord
  <1>7. read.used = Len(written) /\ Len(written) \in Nat
    <2> HIDE DEF dod
    <2> QED BY <1>6, DoDUsed
  <1>8. timeEnc' = [ts |-> ts, delta |-> delta] /\ timeLag' = timeLag + Len(written) - read.used
    BY DEF NextTimestamp
  <1> HIDE DEF read, written, dod, delta
  <1>9. timeLag' = 0
    BY <1>1, <1>7, <1>8
  <1>10. TimesInv'
    BY <1>2, <1>4, <1>8, <1>9 DEF TimesInv
  <1> QED BY <1>1, <1>2, <1>4, <1>6, <1>10 DEF dod, delta

\* The words stay words and the codes in line.
LEMMA TimesInvariant == TimesSpec => []TimesInv
  <1>1. TimesInit => TimesInv
    BY TimesInvInit
  <1>2. TimesInv /\ [TimesNext]_timeVars => TimesInv'
    <2> SUFFICES ASSUME TimesInv, [TimesNext]_timeVars PROVE TimesInv'
      OBVIOUS
    <2>1. CASE TimesNext
      BY <2>1, TimesStep DEF TimesNext
    <2>2. CASE UNCHANGED timeVars
      BY <2>2 DEF TimesInv, timeVars
    <2> QED BY <2>1, <2>2
  <1> QED BY <1>1, <1>2, PTL DEF TimesSpec

\* decodeDoD takes exactly the bits encodeDoD wrote, timestamp after timestamp,
\* also for timestamps whose delta of deltas does not fit its field and is
\* decoded wrong.
THEOREM TimesStayAligned == TimesSpec => []TimesAligned
  <1>1. TimesInv => TimesAligned
    BY DEF TimesInv, TimesAligned
  <1> QED BY <1>1, TimesInvariant, PTL

\* decodeDoD gives back the timestamps encodeDoD wrote, in time order or not,
\* in every class and at the limits of each, as long as the last class has room
\* for the delta of deltas: below 2^31 where the code writes 32 bits.
THEOREM TimesDecoded ==
  ASSUME MaxDoD < Pow2[Widths[4] - 1]
  PROVE  TimesSpec => []TimesRoundTrip
  <1>1. TimesInit => TimesRoundTrip
    BY DEF TimesInit, TimesRoundTrip
  <1>2. TimesInv /\ TimesRoundTrip /\ [TimesNext]_timeVars => TimesRoundTrip'
    <2> SUFFICES ASSUME TimesInv, TimesRoundTrip, [TimesNext]_timeVars PROVE TimesRoundTrip'
      OBVIOUS
    <2>1. ASSUME NEW ts \in Times, NextTimestamp(ts)
          PROVE  TimesRoundTrip'
      <3> DEFINE delta == Signed(ts - timeEnc.ts)
                 dod == Signed(delta - timeEnc.delta)
                 read == decodeDoD(encodeDoD(dod) \o Following(W))
                 decoded == Signed(timeDec.delta + read.dod)
      <3>1. /\ ts \in 0..(Pow2[W] - 1) /\ timeEnc.ts \in 0..(Pow2[W] - 1)
            /\ timeEnc.delta \in SignedWord /\ delta \in SignedWord /\ dod \in Int
        BY <2>1, TimesStep
      <3>2. /\ -MaxDoD <= dod /\ dod <= MaxDoD
            /\ timeEnc' = [ts |-> ts, delta |-> delta]
            /\ timeDec' = [ts |-> Unsigned(timeDec.ts + decoded), delta |-> decoded]
        BY <2>1 DEF NextTimestamp
      <3>3. read.dod = dod
        <4> HIDE DEF dod
        <4> QED BY <3>1, <3>2, DoDDecoded
      <3>4. timeDec = timeEnc
        BY DEF TimesRoundTrip
      <3>5. decoded = delta
        <4>1. decoded = Signed(timeEnc.delta + dod)
          BY <3>3, <3>4
        <4> HIDE DEF decoded, delta
        <4>2. Signed(timeEnc.delta + Signed(delta - timeEnc.delta)) = delta
          BY <3>1, DifferenceUndone
        <4> QED BY <4>1, <4>2
      <3> HIDE DEF decoded
      <3>6. Unsigned(timeDec.ts + decoded) = ts
        BY <3>1, <3>4, <3>5, DistanceUndone
      <3> HIDE DEF delta
      <3> QED BY <3>2, <3>5, <3>6 DEF TimesRoundTrip
    <2>2. CASE TimesNext
      BY <2>1, <2>2 DEF TimesNext
    <2>3. CASE UNCHANGED timeVars
      BY <2>3 DEF TimesRoundTrip, timeVars
    <2> QED BY <2>2, <2>3
  <1> QED BY <1>1, <1>2, TimesInvariant, PTL DEF TimesSpec
-----------------------------------------------------------------------------
(* Words of bits *)

\* The least and the greatest bit that is set, or the end of the word.
LEMMA OnesEnds ==
  ASSUME NEW x \in Word
  PROVE  /\ Min(Ones(x) \cup {W + 1}) \in Ones(x) \cup {W + 1}
         /\ \A i \in Ones(x) \cup {W + 1} : Min(Ones(x) \cup {W + 1}) <= i
         /\ Max(Ones(x) \cup {0}) \in Ones(x) \cup {0}
         /\ \A i \in Ones(x) \cup {0} : Max(Ones(x) \cup {0}) >= i
  <1> DEFINE L == Ones(x) \cup {W + 1}
             R == Ones(x) \cup {0}
             D == {W - i : i \in R}
  <1>1. W \in Nat /\ Ones(x) \subseteq 1..W
    BY WordAssumption DEF Ones
  <1>2. \E i \in L : \A j \in L : i <= j
    <2>1. L \subseteq Nat /\ L # {}
      BY <1>1
    <2> HIDE DEF L
    <2> QED BY <2>1, LeastNatural
  <1>3. PICK d \in D : \A e \in D : d <= e
    <2>1. D \subseteq Nat /\ D # {}
      BY <1>1
    <2> HIDE DEF D
    <2> QED BY <2>1, LeastNatural
  <1>4. PICK m \in R : d = W - m
    OBVIOUS
  <1>5. \A j \in R : m >= j
    <2> TAKE j \in R
    <2>1. W - j \in D
      OBVIOUS
    <2>2. d <= W - j
      BY <1>3, <2>1
    <2>3. j \in Int /\ m \in Int /\ W \in Int
      BY <1>1
    <2> HIDE DEF D, R
    <2> QED BY <1>4, <2>2, <2>3
  <1>6. Min(L) = CHOOSE i \in L : \A j \in L : i <= j
    BY DEF Min
  <1>7. Max(R) = CHOOSE i \in R : \A j \in R : i >= j
    BY DEF Max
  <1> HIDE DEF L, R
  <1>8. Min(L) \in L /\ \A i \in L : Min(L) <= i
    BY <1>2, <1>6
  <1>9. Max(R) \in R /\ \A i \in R : Max(R) >= i
    BY <1>5, <1>7
  <1> QED BY <1>8, <1>9 DEF L, R

\* The bits that are set lie between the leading and the trailing zeros.
LEMMA MeaningfulBits ==
  ASSUME NEW x \in Word, NEW b \in 1..W, x[b] = 1
  PROVE  LET lz == LeadingZeros(x)
             tz == TrailingZeros(x)
         IN /\ lz \in 0..(W - 1) /\ tz \in 0..(W - 1) /\ W - lz - tz \in 1..W
            /\ \A i \in 1..W : x[i] = 1 => lz + 1 <= i /\ i <= W - tz
  <1> DEFINE L == Min(Ones(x) \cup {W + 1})
             R == Max(Ones(x) \cup {0})
  <1>1. W \in Nat /\ Ones(x) \subseteq 1..W /\ b \in Ones(x)
    BY WordAssumption DEF Ones
  <1>2. /\ L \in Ones(x) \cup {W + 1} /\ \A i \in Ones(x) : L <= i
        /\ R \in Ones(x) \cup {0} /\ \A i \in Ones(x) : R >= i
    BY OnesEnds
  <1>3. LeadingZeros(x) = L - 1 /\ TrailingZeros(x) = W - R
    BY DEF LeadingZeros, TrailingZeros
  <1> HIDE DEF L, R
  <1>4. L \in 1..(W + 1) /\ R \in 0..W /\ L <= b /\ b <= R
    BY <1>1, <1>2
  <1>5. \A i \in 1..W : x[i] = 1 => L <= i /\ i <= R
    BY <1>2 DEF Ones
  <1>6. L - 1 \in 0..(W - 1) /\ W - R \in 0..(W - 1) /\ W - (L - 1) - (W - R) \in 1..W
    BY <1>1, <1>4
  <1>7. (L - 1) + 1 = L /\ W - (W - R) = R
    BY <1>1, <1>4
  <1> QED BY <1>3, <1>5, <1>6, <1>7

\* A word is the bits it has.
LEMMA WordsEqual ==
  ASSUME NEW a \in Word, NEW b \in Word, \A i \in 1..W : a[i] = b[i]
  PROVE  a = b
  <1>1. a = [i \in 1..W |-> a[i]]
    BY DEF Word
  <1>2. b = [i \in 1..W |-> b[i]]
    BY DEF Word
  <1>3. [i \in 1..W |-> a[i]] = [i \in 1..W |-> b[i]]
    OBVIOUS
  <1> QED BY <1>1, <1>2, <1>3

\* Neighbours that differ, differ in a bit.
LEMMA Differing ==
  ASSUME NEW a \in Word, NEW b \in Word
  PROVE  /\ Xor(a, b) \in Word
         /\ a # b => \E i \in 1..W : Xor(a, b)[i] = 1
         /\ Xor(b, Xor(a, b)) = a
  <1>1. \A i \in 1..W : a[i] \in {0, 1} /\ b[i] \in {0, 1}
    BY DEF Word, Bit
  <1>2. (0 + 0) % 2 = 0 /\ (0 + 1) % 2 = 1 /\ (1 + 0) % 2 = 1 /\ (1 + 1) % 2 = 0
    OBVIOUS
  <1>3. \A i \in 1..W : Xor(a, b)[i] = (a[i] + b[i]) % 2
    BY DEF Xor
  <1>4. \A i \in 1..W : Xor(a, b)[i] \in {0, 1} /\ (Xor(a, b)[i] = 0 <=> a[i] = b[i])
    BY <1>1, <1>2, <1>3
  <1>5. Xor(a, b) \in Word
    BY <1>4 DEF Xor, Word, Bit
  <1>6. ASSUME a # b
        PROVE  \E i \in 1..W : Xor(a, b)[i] = 1
    <2>1. PICK i \in 1..W : a[i] # b[i]
      BY <1>6, WordsEqual
    <2> QED BY <1>4, <2>1
  <1>7. Xor(b, Xor(a, b)) = a
    <2> DEFINE x == Xor(a, b)
               y == Xor(b, x)
    <2>1. \A i \in 1..W : y[i] = (b[i] + x[i]) % 2
      BY DEF Xor
    <2>2. \A i \in 1..W : x[i] = (a[i] + b[i]) % 2
      BY <1>3
    <2>3. y \in Word
      <3>1. \A i \in 1..W : (b[i] + x[i]) % 2 \in {0, 1}
        <4>1. \A i \in 1..W : b[i] \in Int /\ x[i] \in Int
          BY <1>1, <1>4
        <4> HIDE DEF x
        <4> QED BY <4>1
      <3> HIDE DEF x
      <3> QED BY <3>1 DEF Xor, Word, Bit
    <2> HIDE DEF x, y
    <2>4. \A i \in 1..W : y[i] = a[i]
      BY <1>1, <1>2, <2>1, <2>2
    <2>5. y = a
      BY <2>3, <2>4, WordsEqual
    <2> QED BY <2>5 DEF x, y
  <1> QED BY <1>5, <1>6, <1>7

\* Zeros, a part of a stream and zeros make a word.
LEMMA PlacedForm ==
  ASSUME NEW s \in Seq(Bit), NEW pos \in Nat, NEW lz \in Nat, NEW mbc \in Nat,
         lz + mbc <= W, pos + mbc <= Len(s)
  PROVE  /\ Placed(s, pos, lz, mbc) \in Word
         /\ \A i \in 1..W : Placed(s, pos, lz, mbc)[i]
              = IF lz < i /\ i <= lz + mbc THEN s[pos + (i - lz)] ELSE 0
  <1> DEFINE part == SubSeq(s, pos + 1, pos + mbc)
             rest == W - lz - mbc
             p == (Zeros(lz) \o part) \o Zeros(rest)
  <1>1. W \in Nat /\ rest \in Nat /\ lz + mbc + rest = W
    BY WordAssumption
  <1>2. \A n \in Nat : Zeros(n) \in Seq(Bit) /\ Len(Zeros(n)) = n /\ \A i \in 1..n : Zeros(n)[i] = 0
    BY DEF Zeros, Bit
  <1>3. part \in Seq(Bit) /\ Len(part) = mbc /\ \A k \in 1..mbc : part[k] = s[pos + k]
    <2> DEFINE m == pos + 1
               n == pos + mbc
    <2>1. m \in 1..(Len(s) + 1) /\ n \in (m - 1)..Len(s) /\ n - m + 1 = mbc
      <3>1. Len(s) \in Nat
        OBVIOUS
      <3> QED BY <3>1
    <2>2. \A k \in 1..mbc : m + k - 1 = pos + k
      OBVIOUS
    <2> HIDE DEF m, n
    <2>3. /\ SubSeq(s, m, n) \in Seq(Bit) /\ Len(SubSeq(s, m, n)) = n - m + 1
          /\ \A k \in 1..(n - m + 1) : SubSeq(s, m, n)[k] = s[m + k - 1]
      BY <2>1, SubSeqProperties
    <2>4. part = SubSeq(s, m, n)
      BY DEF m, n
    <2> HIDE DEF part
    <2> QED BY <2>1, <2>2, <2>3, <2>4
  <1> DEFINE head == Zeros(lz)
             tail == Zeros(rest)
  <1>4. /\ head \in Seq(Bit) /\ Len(head) = lz /\ \A i \in 1..lz : head[i] = 0
        /\ tail \in Seq(Bit) /\ Len(tail) = rest /\ \A i \in 1..rest : tail[i] = 0
    <2> HIDE DEF rest
    <2> QED BY <1>1, <1>2
  <1>5. p = (head \o part) \o tail
    OBVIOUS
  <1> HIDE DEF part, rest, head, tail, p
  <1>6. /\ p \in Seq(Bit) /\ Len(p) = Len(head) + Len(part) + Len(tail)
        /\ \A k \in 1..Len(head) : p[k] = head[k]
        /\ \A k \in 1..Len(part) : p[Len(head) + k] = part[k]
        /\ \A k \in 1..Len(tail) : p[Len(head) + Len(part) + k] = tail[k]
    <2>1. head \in Seq(Bit) /\ part \in Seq(Bit) /\ tail \in Seq(Bit)
      BY <1>3, <1>4
    <2> QED BY ONLY <1>5, <2>1, Joined
  <1>7. /\ Len(p) = W
        /\ \A k \in 1..lz : p[k] = 0
        /\ \A k \in 1..mbc : p[lz + k] = s[pos + k]
        /\ \A k \in 1..rest : p[(lz + mbc) + k] = 0
    <2>1. Len(head) = lz /\ Len(part) = mbc /\ Len(tail) = rest
      BY <1>3, <1>4
    <2>2. Len(p) = W
      BY <1>1, <1>6, <2>1
    <2>3. \A k \in 1..lz : p[k] = 0
      BY <1>4, <1>6, <2>1
    <2>4. \A k \in 1..mbc : p[lz + k] = s[pos + k]
      BY <1>3, <1>6, <2>1
    <2>5. \A k \in 1..rest : p[(lz + mbc) + k] = 0
      BY <1>4, <1>6, <2>1
    <2> QED BY <2>2, <2>3, <2>4, <2>5
  <1>8. Placed(s, pos, lz, mbc) = p
    BY DEF Placed, p, head, part, tail, rest
  <1>9. p \in Word
    BY <1>6, <1>7 DEF Word
  <1>10. ASSUME NEW i \in 1..W
         PROVE  p[i] = IF lz < i /\ i <= lz + mbc THEN s[pos + (i - lz)] ELSE 0
    <2>1. CASE i <= lz
      <3>1. i \in 1..lz /\ ~(lz < i)
        BY <2>1
      <3> QED BY <1>7, <3>1
    <2>2. CASE lz < i /\ i <= lz + mbc
      <3>1. i - lz \in 1..mbc /\ lz + (i - lz) = i
        BY <2>2
      <3>2. p[lz + (i - lz)] = s[pos + (i - lz)]
        BY <1>7, <3>1
      <3> QED BY <2>2, <3>1, <3>2
    <2>3. CASE lz + mbc < i
      <3> DEFINE k == i - (lz + mbc)
      <3>1. k \in 1..rest /\ (lz + mbc) + k = i /\ ~(i <= lz + mbc)
        BY <1>1, <2>3
      <3> HIDE DEF k
      <3>2. p[(lz + mbc) + k] = 0
        BY <1>7, <3>1
      <3> QED BY <3>1, <3>2
    <2> QED BY <2>1, <2>2, <2>3
  <1> QED BY <1>8, <1>9, <1>10

\* All the bits set in x lie in mbc bits after lz, and these follow position pos.
Windowed(s, pos, lz, mbc, x) ==
  /\ \A i \in 1..W : x[i] = 1 => lz < i /\ i <= lz + mbc
  /\ \A k \in 1..mbc : s[pos + k] = x[lz + k]

\* The bits of a word inside a window it fits, put back where they were.
LEMMA PlacedBack ==
  ASSUME NEW s \in Seq(Bit), NEW pos \in Nat, NEW lz \in Nat, NEW mbc \in Nat,
         lz + mbc <= W, pos + mbc <= Len(s),
         NEW x \in Word, Windowed(s, pos, lz, mbc, x)
  PROVE  Placed(s, pos, lz, mbc) = x
  <1> DEFINE p == Placed(s, pos, lz, mbc)
  <1>1. p \in Word
    BY PlacedForm
  <1>2. \A i \in 1..W : p[i] = IF lz < i /\ i <= lz + mbc THEN s[pos + (i - lz)] ELSE 0
    BY PlacedForm
  <1> HIDE DEF p
  <1>3. ASSUME NEW i \in 1..W
        PROVE  p[i] = x[i]
    <2>1. CASE lz < i /\ i <= lz + mbc
      <3>1. i - lz \in 1..mbc /\ lz + (i - lz) = i
        BY <2>1, WordAssumption
      <3>2. s[pos + (i - lz)] = x[lz + (i - lz)]
        BY <3>1 DEF Windowed
      <3> QED BY <1>2, <2>1, <3>1, <3>2
    <2>2. CASE ~(lz < i /\ i <= lz + mbc)
      <3>1. x[i] # 1 /\ x[i] \in {0, 1}
        BY <2>2 DEF Word, Bit, Windowed
      <3> QED BY <1>2, <2>2, <3>1
    <2> QED BY <2>1, <2>2
  <1>4. p = x
    BY <1>1, <1>3, WordsEqual
  <1> QED BY <1>4 DEF p
-----------------------------------------------------------------------------
(* The value stream *)

\* A window of the encoder lies inside the word.
WindowInside(st) == st.hasWindow => st.lz + st.mbc <= W

\* What the decoder's window shares with the encoder's, even after a value it got
\* wrong: its length, and it does not start later.
InStep(enc, dec) ==
  /\ dec.hasWindow = enc.hasWindow
  /\ dec.mbc = enc.mbc /\ dec.lz <= enc.lz

\* Where the bits of a changed value are.
LEMMA Changed ==
  ASSUME NEW cur \in Word, NEW prev \in Word, cur # prev
  PROVE  LET x  == Xor(cur, prev)
             lz == LeadingZeros(x)
             tz == TrailingZeros(x)
         IN /\ x \in Word /\ lz \in 0..(W - 1) /\ tz \in 0..(W - 1) /\ W - lz - tz \in 1..W
            /\ \A i \in 1..W : x[i] = 1 => lz + 1 <= i /\ i <= W - tz
  <1>1. Xor(cur, prev) \in Word
    BY Differing
  <1>2. PICK b \in 1..W : Xor(cur, prev)[b] = 1
    BY Differing
  <1> QED BY <1>1, <1>2, MeaningfulBits

\* A value that did not change is one bit.
LEMMA SameRead ==
  ASSUME NEW enc \in Codec, NEW dec \in Codec
  PROVE  LET w == encodeXOR(enc.prev, enc)
             r == decodeXOR(w.code \o Following(2 * W), dec)
         IN w.next = enc /\ Len(w.code) = 1 /\ r.next = dec /\ r.used = 1
  <1> DEFINE w == encodeXOR(enc.prev, enc)
             r == decodeXOR(w.code \o Following(2 * W), dec)
             s == <<0>> \o Following(2 * W)
  <1> SUFFICES w.next = enc /\ Len(w.code) = 1 /\ r.next = dec /\ r.used = 1
    OBVIOUS
  <1>1. w = [code |-> <<0>>, next |-> enc]
    BY DEF encodeXOR
  <1>2. 2 * W \in Nat
    BY WordAssumption
  <1>3. <<0>> \in Seq(Bit) /\ Following(2 * W) \in Seq(Bit)
    BY <1>2, FollowingForm DEF Bit
  <1>4. s[1] = 0
    BY <1>3
  <1> HIDE DEF s
  <1>5. decodeXOR(s, dec) = [next |-> dec, used |-> 1]
    BY <1>4 DEF decodeXOR
  <1> HIDE DEF w
  <1>6. w.code = <<0>> /\ w.next = enc /\ Len(w.code) = 1
    BY <1>1
  <1>7. w.code \o Following(2 * W) = s
    BY <1>6 DEF s
  <1>8. r = [next |-> dec, used |-> 1]
    BY <1>5, <1>7
  <1> HIDE DEF r
  <1> QED BY <1>6, <1>8

\* Inside the window written last, the bits of that window follow two bits.
LEMMA InsideRead ==
  ASSUME NEW enc \in Codec, NEW dec \in Codec, NEW cur \in Word, cur # enc.prev,
         WindowInside(enc), InStep(enc, dec),
         Fits(enc, LeadingZeros(Xor(cur, enc.prev)), TrailingZeros(Xor(cur, enc.prev)))
  PROVE  LET w == encodeXOR(cur, enc)
             r == decodeXOR(w.code \o Following(2 * W), dec)
         IN /\ w.next = [enc EXCEPT !.prev = cur]
            /\ Len(w.code) \in Nat /\ r.used = Len(w.code)
            /\ \E d \in Word :
                 /\ r.next = [dec EXCEPT !.prev = Xor(dec.prev, d)]
                 /\ dec.lz = enc.lz => d = Xor(cur, enc.prev)
  <1> DEFINE x == Xor(cur, enc.prev)
             lz == LeadingZeros(x)
             tz == TrailingZeros(x)
             w == encodeXOR(cur, enc)
             l == enc.lz
             n == enc.mbc
             k == dec.lz
             head == <<1, 0>>
             body == SubSeq(x, l + 1, l + n)
             tail == Following(2 * W)
             s == (head \o body) \o tail
             d == Placed(s, 2, k, n)
             r == decodeXOR(w.code \o Following(2 * W), dec)
  <1> SUFFICES /\ w.next = [enc EXCEPT !.prev = cur]
               /\ Len(w.code) \in Nat /\ r.used = Len(w.code)
               /\ \E c \in Word :
                    /\ r.next = [dec EXCEPT !.prev = Xor(dec.prev, c)]
                    /\ k = l => c = x
    OBVIOUS
  <1>1. /\ x \in Word /\ lz \in 0..(W - 1) /\ tz \in 0..(W - 1) /\ W - lz - tz \in 1..W
        /\ \A i \in 1..W : x[i] = 1 => lz + 1 <= i /\ i <= W - tz
    <2>1. enc.prev \in Word
      BY DEF Codec
    <2> QED BY <2>1, Changed
  <1>2. enc.hasWindow /\ lz >= l /\ tz >= W - l - n
    BY DEF Fits
  <1>3. dec.hasWindow /\ dec.mbc = n /\ k <= l /\ dec.hasWindow \in BOOLEAN
    BY <1>2 DEF InStep, Codec
  <1>4. /\ l \in Nat /\ n \in Nat /\ k \in Nat /\ W \in Nat
        /\ l + n <= W /\ k + n <= W
    <2>1. l \in 0..W /\ n \in 0..W /\ k \in 0..W
      BY DEF Codec
    <2>2. l + n <= W
      BY <1>2 DEF WindowInside
    <2> HIDE DEF l, n, k
    <2> QED BY <1>3, <2>1, <2>2, WordAssumption
  <1>5. w = [code |-> head \o body, next |-> [enc EXCEPT !.prev = cur]]
    BY DEF encodeXOR
  <1> HIDE DEF w, lz, tz, l, n, k
  <1>6. body \in Seq(Bit) /\ Len(body) = n /\ \A i \in 1..n : body[i] = x[l + i]
    <2>1. \A i \in (l + 1)..(l + n) : x[i] \in Bit
      <3>1. \A i \in (l + 1)..(l + n) : i \in 1..W
        BY <1>4
      <3> QED BY <1>1, <3>1 DEF Word
    <2>2. l + 1 \in Int /\ l + n \in Int /\ (l + n) - (l + 1) + 1 = n
      BY <1>4
    <2>3. /\ body \in Seq(Bit)
          /\ Len(body) = IF l + 1 <= l + n THEN (l + n) - (l + 1) + 1 ELSE 0
          /\ \A i \in 1..((l + n) - (l + 1) + 1) : body[i] = x[(l + 1) + i - 1]
      BY <2>1, <2>2, SubSeqProperties
    <2>4. \A i \in 1..n : (l + 1) + i - 1 = l + i
      BY <1>4
    <2>5. (IF l + 1 <= l + n THEN n ELSE 0) = n
      BY <1>4
    <2> HIDE DEF body
    <2> QED BY <2>2, <2>3, <2>4, <2>5
  <1>7. head \in Seq(Bit) /\ Len(head) = 2 /\ head[1] = 1 /\ head[2] = 0
    BY DEF Bit
  <1>8. tail \in Seq(Bit) /\ Len(tail) = 2 * W
    <2>1. 2 * W \in Nat
      BY WordAssumption
    <2> QED BY <2>1, FollowingForm
  <1> HIDE DEF x, head, body, tail
  <1>9. /\ s \in Seq(Bit) /\ Len(s) = 2 + n + 2 * W /\ s[1] = 1 /\ s[2] = 0
        /\ \A i \in 1..n : s[2 + i] = x[l + i]
    <2>1. /\ s \in Seq(Bit) /\ Len(s) = Len(head) + Len(body) + Len(tail)
          /\ \A i \in 1..Len(head) : s[i] = head[i]
          /\ \A i \in 1..Len(body) : s[Len(head) + i] = body[i]
      <3>1. head \in Seq(Bit) /\ body \in Seq(Bit) /\ tail \in Seq(Bit)
        BY <1>6, <1>7, <1>8
      <3>2. s = (head \o body) \o tail
        OBVIOUS
      <3> HIDE DEF s
      <3> QED BY ONLY <3>1, <3>2, Joined
    <2> HIDE DEF s
    <2> QED BY <1>6, <1>7, <1>8, <2>1
  <1>10. w.code = head \o body /\ w.next = [enc EXCEPT !.prev = cur]
    BY <1>5
  <1>11. Len(w.code) = 2 + n
    <2>1. Len(head \o body) = Len(head) + Len(body)
      <3>1. head \in Seq(Bit) /\ body \in Seq(Bit)
        BY <1>6, <1>7
      <3> QED BY ONLY <3>1
    <2> QED BY <1>6, <1>7, <1>10, <2>1
  <1>12. w.code \o Following(2 * W) = s
    BY <1>10 DEF tail
  <1> HIDE DEF s
  <1>13. decodeXOR(s, dec) = [next |-> [dec EXCEPT !.prev = Xor(dec.prev, d)], used |-> 2 + n]
    <2>1. decodeXOR(s, dec)
            = [next |-> [dec EXCEPT !.prev = Xor(@, Placed(s, 2, dec.lz, dec.mbc))],
               used |-> 2 + dec.mbc]
      BY <1>3, <1>9 DEF decodeXOR
    <2> QED BY <1>3, <2>1 DEF k
  <1>14. 2 + n <= Len(s) /\ 2 \in Nat
    BY <1>4, <1>9
  <1>15. d \in Word
    BY <1>4, <1>9, <1>14, PlacedForm
  <1>16. ASSUME k = l
         PROVE  d = x
    <2>1. \A i \in 1..W : x[i] = 1 => l < i /\ i <= l + n
      BY <1>1, <1>2, <1>4
    <2> HIDE DEF d
    <2>2. Placed(s, 2, l, n) = x
      <3>1. /\ s \in Seq(Bit) /\ 2 \in Nat /\ l \in Nat /\ n \in Nat
            /\ l + n <= W /\ 2 + n <= Len(s) /\ x \in Word
        BY <1>1, <1>4, <1>9, <1>14
      <3>2. \A i \in 1..n : s[2 + i] = x[l + i]
        BY <1>9
      <3>3. Windowed(s, 2, l, n, x)
        BY <2>1, <3>2 DEF Windowed
      <3> QED BY ONLY <3>1, <3>3, PlacedBack
    <2> QED BY <1>16, <2>2 DEF d
  <1> HIDE DEF d
  <1>17. 2 + n \in Nat
    BY <1>4
  <1>18. r = [next |-> [dec EXCEPT !.prev = Xor(dec.prev, d)], used |-> 2 + n]
    BY <1>12, <1>13
  <1> HIDE DEF r
  <1> QED BY <1>10, <1>11, <1>15, <1>16, <1>17, <1>18

\* The fields for the window are widths of fields.
LEMMA FieldWidths ==
  /\ LZBits \in 0..W /\ MBCBits \in 0..W /\ LZBits \in Nat /\ MBCBits \in Nat
  /\ Pow2[LZBits] \in Nat \ {0} /\ Pow2[MBCBits] = W /\ MaxLZ \in Nat
  <1>1. LZBits \in 0..W /\ MBCBits \in 0..W /\ Pow2[MBCBits] = W /\ MaxLZ \in Nat
    BY GorillaValuesAssumption
  <1> QED BY <1>1, Pow2Def, WordAssumption

\* In a new window the leading zeros, the length and the bits follow two bits.
LEMMA AnewRead ==
  ASSUME NEW enc \in Codec, NEW dec \in Codec, NEW cur \in Word, cur # enc.prev,
         ~Fits(enc, LeadingZeros(Xor(cur, enc.prev)), TrailingZeros(Xor(cur, enc.prev)))
  PROVE  LET x  == Xor(cur, enc.prev)
             lz == LeadingZeros(x)
             mbc == W - lz - TrailingZeros(x)
             w  == encodeXOR(cur, enc)
             r  == decodeXOR(w.code \o Following(2 * W), dec)
         IN /\ lz \in 0..(W - 1) /\ mbc \in 1..W /\ lz + mbc <= W
            /\ w.next = [prev |-> cur, lz |-> lz, mbc |-> mbc, hasWindow |-> TRUE]
            /\ Len(w.code) \in Nat /\ r.used = Len(w.code)
            /\ \E l \in 0..lz, d \in Word :
                 /\ r.next = [prev |-> Xor(dec.prev, d), lz |-> l, mbc |-> mbc, hasWindow |-> TRUE]
                 /\ lz < Pow2[LZBits] => l = lz /\ d = x
  <1> DEFINE x == Xor(cur, enc.prev)
             lz == LeadingZeros(x)
             tz == TrailingZeros(x)
             mbc == W - lz - tz
             w == encodeXOR(cur, enc)
             r == decodeXOR(w.code \o Following(2 * W), dec)
             head == <<1, 1>>
             one == writeBits(lz, LZBits)
             two == writeBits(mbc - 1, MBCBits)
             body == SubSeq(x, lz + 1, lz + mbc)
             tail == Following(2 * W)
             t == (head \o one) \o two
             s == (t \o body) \o tail
             l == lz % Pow2[LZBits]
             n == 2 + LZBits + MBCBits
             d == Placed(s, n, l, mbc)
  <1> SUFFICES /\ lz \in 0..(W - 1) /\ mbc \in 1..W /\ lz + mbc <= W
               /\ w.next = [prev |-> cur, lz |-> lz, mbc |-> mbc, hasWindow |-> TRUE]
               /\ Len(w.code) \in Nat /\ r.used = Len(w.code)
               /\ \E i \in 0..lz, c \in Word :
                    /\ r.next = [prev |-> Xor(dec.prev, c), lz |-> i, mbc |-> mbc,
                                 hasWindow |-> TRUE]
                    /\ lz < Pow2[LZBits] => i = lz /\ c = x
    OBVIOUS
  <1>1. /\ x \in Word /\ lz \in 0..(W - 1) /\ tz \in 0..(W - 1) /\ W - lz - tz \in 1..W
        /\ \A i \in 1..W : x[i] = 1 => lz + 1 <= i /\ i <= W - tz
    <2>1. enc.prev \in Word
      BY DEF Codec
    <2> QED BY <2>1, Changed
  <1>2. w = [code |-> t \o body,
             next |-> [prev |-> cur, lz |-> lz, mbc |-> mbc, hasWindow |-> TRUE]]
    BY DEF encodeXOR
  <1> HIDE DEF w, lz, tz
  <1>3. /\ lz \in Nat /\ lz <= W /\ mbc \in 1..W /\ mbc \in Nat
        /\ lz + mbc <= W /\ lz + mbc = W - tz /\ mbc - 1 \in 0..(W - 1) /\ W \in Nat
    BY <1>1, WordAssumption
  <1> HIDE DEF mbc
  <1>4. body \in Seq(Bit) /\ Len(body) = mbc /\ \A i \in 1..mbc : body[i] = x[lz + i]
    <2>1. \A i \in (lz + 1)..(lz + mbc) : x[i] \in Bit
      <3>1. \A i \in (lz + 1)..(lz + mbc) : i \in 1..W
        BY <1>3
      <3> QED BY <1>1, <3>1 DEF Word
    <2>2. lz + 1 \in Int /\ lz + mbc \in Int /\ (lz + mbc) - (lz + 1) + 1 = mbc
      BY <1>3
    <2>3. /\ body \in Seq(Bit)
          /\ Len(body) = IF lz + 1 <= lz + mbc THEN (lz + mbc) - (lz + 1) + 1 ELSE 0
          /\ \A i \in 1..((lz + mbc) - (lz + 1) + 1) : body[i] = x[(lz + 1) + i - 1]
      BY <2>1, <2>2, SubSeqProperties
    <2>4. \A i \in 1..mbc : (lz + 1) + i - 1 = lz + i
      BY <1>3
    <2>5. (IF lz + 1 <= lz + mbc THEN mbc ELSE 0) = mbc
      BY <1>3
    <2> HIDE DEF body
    <2> QED BY <2>2, <2>3, <2>4, <2>5
  <1>5. head \in Seq(Bit) /\ Len(head) = 2 /\ head[1] = 1 /\ head[2] = 1
    BY DEF Bit
  <1>6. one \in Seq(Bit) /\ Len(one) = LZBits
    <2>1. lz \in Int
      BY <1>3
    <2> QED BY <2>1, FieldWidths, BitsForm
  <1>7. two \in Seq(Bit) /\ Len(two) = MBCBits
    <2>1. mbc - 1 \in Int
      BY <1>3
    <2> QED BY <2>1, FieldWidths, BitsForm
  <1>8. tail \in Seq(Bit) /\ Len(tail) = 2 * W
    <2>1. 2 * W \in Nat
      BY WordAssumption
    <2> QED BY <2>1, FollowingForm
  <1> HIDE DEF x, head, one, two, body, tail
  <1>9. /\ t \in Seq(Bit) /\ Len(t) = n /\ t[1] = 1 /\ t[2] = 1
        /\ \A i \in 1..LZBits : t[2 + i] = one[i]
        /\ \A i \in 1..MBCBits : t[2 + LZBits + i] = two[i]
    <2>1. /\ t \in Seq(Bit) /\ Len(t) = Len(head) + Len(one) + Len(two)
          /\ \A i \in 1..Len(head) : t[i] = head[i]
          /\ \A i \in 1..Len(one) : t[Len(head) + i] = one[i]
          /\ \A i \in 1..Len(two) : t[Len(head) + Len(one) + i] = two[i]
      <3>1. head \in Seq(Bit) /\ one \in Seq(Bit) /\ two \in Seq(Bit)
        BY <1>5, <1>6, <1>7
      <3>2. t = (head \o one) \o two
        OBVIOUS
      <3> HIDE DEF t
      <3> QED BY ONLY <3>1, <3>2, Joined
    <2> HIDE DEF t
    <2> QED BY <1>5, <1>6, <1>7, <2>1
  <1> HIDE DEF t
  <1>10. n \in Nat
    BY FieldWidths
  <1> HIDE DEF n
  <1>11. /\ s \in Seq(Bit) /\ Len(s) = n + mbc + 2 * W
         /\ \A i \in 1..n : s[i] = t[i]
         /\ \A i \in 1..mbc : s[n + i] = x[lz + i]
    <2>1. /\ s \in Seq(Bit) /\ Len(s) = Len(t) + Len(body) + Len(tail)
          /\ \A i \in 1..Len(t) : s[i] = t[i]
          /\ \A i \in 1..Len(body) : s[Len(t) + i] = body[i]
      <3>1. t \in Seq(Bit) /\ body \in Seq(Bit) /\ tail \in Seq(Bit)
        BY <1>4, <1>8, <1>9
      <3>2. s = (t \o body) \o tail
        OBVIOUS
      <3> HIDE DEF s
      <3> QED BY ONLY <3>1, <3>2, Joined
    <2> HIDE DEF s
    <2> QED BY <1>4, <1>8, <1>9, <2>1
  <1>12. w.code \o Following(2 * W) = s
    BY <1>2 DEF tail
  <1>13. Len(w.code) = n + mbc
    <2>1. Len(t \o body) = Len(t) + Len(body)
      <3>1. t \in Seq(Bit) /\ body \in Seq(Bit)
        BY <1>4, <1>9
      <3> QED BY ONLY <3>1
    <2> QED BY <1>2, <1>4, <1>9, <2>1
  <1> HIDE DEF s
  <1>14. s[1] = 1 /\ s[2] = 1
    <2>1. 1 \in 1..n /\ 2 \in 1..n
      BY FieldWidths DEF n
    <2> QED BY <1>9, <1>11, <2>1
  <1>15. readBits(s, 3, LZBits) = l
    <2>1. \A i \in 1..LZBits : s[3 + i - 1] = writeBits(lz, LZBits)[i]
      <3> TAKE i \in 1..LZBits
      <3>1. 2 + i \in 1..n /\ 3 + i - 1 = 2 + i
        BY FieldWidths DEF n
      <3>2. s[2 + i] = t[2 + i] /\ t[2 + i] = one[i]
        BY <1>9, <1>11, <3>1
      <3> QED BY <3>1, <3>2 DEF one
    <2>2. lz \in Int /\ LZBits \in 0..W /\ 3 \in Nat
      BY <1>3, FieldWidths
    <2> QED BY <2>1, <2>2, ReadBack
  <1>16. storedMBC(s, 3 + LZBits) = mbc
    <2>1. \A i \in 1..MBCBits : s[(3 + LZBits) + i - 1] = writeBits(mbc - 1, MBCBits)[i]
      <3> TAKE i \in 1..MBCBits
      <3>1. 2 + LZBits + i \in 1..n /\ (3 + LZBits) + i - 1 = 2 + LZBits + i
        BY FieldWidths DEF n
      <3>2. s[2 + LZBits + i] = t[2 + LZBits + i] /\ t[2 + LZBits + i] = two[i]
        BY <1>9, <1>11, <3>1
      <3> QED BY <3>1, <3>2 DEF two
    <2>2. MBCBits \in 0..W /\ 3 + LZBits \in Nat /\ mbc - 1 \in 0..(Pow2[MBCBits] - 1)
      BY <1>3, FieldWidths
    <2>3. readBits(s, 3 + LZBits, MBCBits) = mbc - 1
      BY <2>1, <2>2, ReadFitting
    <2> QED BY <1>3, <2>3 DEF storedMBC
  <1>17. l \in 0..lz /\ (lz < Pow2[LZBits] => l = lz)
    <2> DEFINE m == Pow2[LZBits]
               q == lz \div m
    <2>1. m \in Nat \ {0} /\ lz \in Nat
      BY <1>3, FieldWidths
    <2> HIDE DEF m
    <2>2. l \in 0..(m - 1) /\ lz % m = l
      BY <2>1 DEF m
    <2>3. lz % m <= lz /\ (lz < m => lz % m = lz)
      BY <2>1
    <2> QED BY <2>1, <2>2, <2>3 DEF m
  <1> HIDE DEF l
  <1>18. decodeXOR(s, dec)
           = [next |-> [prev |-> Xor(dec.prev, d), lz |-> l, mbc |-> mbc, hasWindow |-> TRUE],
              used |-> n + mbc]
    <2>1. decodeXOR(s, dec)
            = [next |-> [prev |-> Xor(dec.prev, Placed(s, 2 + LZBits + MBCBits,
                                                       readBits(s, 3, LZBits),
                                                       storedMBC(s, 3 + LZBits))),
                         lz |-> readBits(s, 3, LZBits), mbc |-> storedMBC(s, 3 + LZBits),
                         hasWindow |-> TRUE],
               used |-> 2 + LZBits + MBCBits + storedMBC(s, 3 + LZBits)]
      BY <1>14 DEF decodeXOR
    <2> QED BY <1>15, <1>16, <2>1 DEF n
  <1>19. n + mbc <= Len(s) /\ l + mbc <= W /\ l \in Nat
    BY <1>3, <1>10, <1>11, <1>17
  <1>20. d \in Word
    BY <1>3, <1>10, <1>11, <1>19, PlacedForm
  <1>21. ASSUME l = lz
         PROVE  d = x
    <2>1. \A i \in 1..W : x[i] = 1 => lz < i /\ i <= lz + mbc
      BY <1>1, <1>3
    <2> HIDE DEF d
    <2>2. Placed(s, n, lz, mbc) = x
      <3>1. /\ s \in Seq(Bit) /\ n \in Nat /\ lz \in Nat /\ mbc \in Nat
            /\ lz + mbc <= W /\ n + mbc <= Len(s) /\ x \in Word
        BY <1>1, <1>3, <1>10, <1>11, <1>19
      <3>2. \A i \in 1..mbc : s[n + i] = x[lz + i]
        BY <1>11
      <3>3. Windowed(s, n, lz, mbc, x)
        BY <2>1, <3>2 DEF Windowed
      <3> QED BY ONLY <3>1, <3>3, PlacedBack
    <2> QED BY <1>21, <2>2 DEF d
  <1>22. r = [next |-> [prev |-> Xor(dec.prev, d), lz |-> l, mbc |-> mbc, hasWindow |-> TRUE],
              used |-> n + mbc]
    BY <1>12, <1>18
  <1> HIDE DEF d, r
  <1>23. n + mbc \in Nat
    BY <1>3, <1>10
  <1>24. w.next = [prev |-> cur, lz |-> lz, mbc |-> mbc, hasWindow |-> TRUE]
    BY <1>2
  <1>25. r.used = n + mbc
         /\ r.next = [prev |-> Xor(dec.prev, d), lz |-> l, mbc |-> mbc, hasWindow |-> TRUE]
    BY <1>22
  <1>26. lz < Pow2[LZBits] => l = lz /\ d = x
    BY <1>17, <1>21
  <1> QED BY <1>1, <1>3, <1>13, <1>17, <1>20, <1>23, <1>24, <1>25, <1>26

\* Encoder and decoder hold words and windows inside them, of the same length;
\* no bit is left over.
ValuesInv ==
  /\ valueEnc \in Codec /\ valueDec \in Codec
  /\ WindowInside(valueEnc) /\ InStep(valueEnc, valueDec)
  /\ valueLag = 0

\* They do at the start.
LEMMA ValuesInvInit == ValuesInit => ValuesInv
  <1> SUFFICES ASSUME ValuesInit PROVE ValuesInv
    OBVIOUS
  <1>1. PICK v \in Word : valueEnc = [prev |-> v, lz |-> 0, mbc |-> 0, hasWindow |-> FALSE]
    BY DEF ValuesInit
  <1>2. 0 \in 0..W
    BY WordAssumption
  <1>3. valueEnc \in Codec
    BY <1>1, <1>2 DEF Codec
  <1>4. WindowInside(valueEnc)
    BY <1>1 DEF WindowInside
  <1>5. valueDec = valueEnc /\ valueLag = 0
    BY DEF ValuesInit
  <1>6. InStep(valueEnc, valueDec)
    BY <1>1, <1>5 DEF InStep
  <1> QED BY <1>3, <1>4, <1>5, <1>6 DEF ValuesInv

\* A step into a new state of the codec, in the terms of encodeXOR and decodeXOR.
LEMMA ValuesMove ==
  ASSUME ValuesInv, NEW cur \in Word, NextValue(cur)
  PROVE  LET w == encodeXOR(cur, valueEnc)
             r == decodeXOR(w.code \o Following(2 * W), valueDec)
         IN /\ valueEnc' = w.next /\ valueDec' = r.next
            /\ Len(w.code) \in Nat /\ r.used = Len(w.code) => valueLag' = 0
  <1> DEFINE w == encodeXOR(cur, valueEnc)
             r == decodeXOR(w.code \o Following(2 * W), valueDec)
  <1>1. /\ valueEnc' = w.next /\ valueDec' = r.next
        /\ valueLag' = valueLag + Len(w.code) - r.used
    BY DEF NextValue
  <1>2. valueLag = 0
    BY DEF ValuesInv
  <1> HIDE DEF r, w
  <1>3. Len(w.code) \in Nat /\ r.used = Len(w.code) => valueLag' = 0
    BY <1>1, <1>2
  <1> QED BY <1>1, <1>3 DEF r, w

\* What one more value does: the invariant holds on, and a decoder that was right
\* stays right if the field for the leading zeros has room for them.
LEMMA ValuesStep ==
  ASSUME ValuesInv, NEW cur \in Word, NextValue(cur)
  PROVE  /\ ValuesInv'
         /\ MaxLZ < Pow2[LZBits] /\ valueDec = valueEnc => valueDec' = valueEnc'
  <1> DEFINE x == Xor(cur, valueEnc.prev)
             lz == LeadingZeros(x)
             tz == TrailingZeros(x)
             mbc == W - lz - tz
             w == encodeXOR(cur, valueEnc)
             r == decodeXOR(w.code \o Following(2 * W), valueDec)
  <1>1. /\ valueEnc \in Codec /\ valueDec \in Codec
        /\ WindowInside(valueEnc) /\ InStep(valueEnc, valueDec)
        /\ valueEnc.prev \in Word /\ valueDec.prev \in Word
    BY DEF ValuesInv, Codec
  <1>2. /\ valueEnc' = w.next /\ valueDec' = r.next
        /\ Len(w.code) \in Nat /\ r.used = Len(w.code) => valueLag' = 0
    BY ValuesMove
  <1>3. \A d \in Word : Xor(valueDec.prev, d) \in Word
    BY <1>1, Differing
  <1>4. valueDec = valueEnc => Xor(valueDec.prev, x) = cur
    BY <1>1, Differing
  <1>5. CASE cur = valueEnc.prev
    <2>1. w.next = valueEnc /\ Len(w.code) = 1 /\ r.next = valueDec /\ r.used = 1
      BY <1>1, <1>5, SameRead
    <2> HIDE DEF r, w
    <2>2. valueEnc' = valueEnc /\ valueDec' = valueDec /\ valueLag' = 0
      BY <1>2, <2>1
    <2> QED BY <1>1, <2>2 DEF ValuesInv
  <1>6. CASE cur # valueEnc.prev /\ Fits(valueEnc, lz, tz)
    <2>1. /\ w.next = [valueEnc EXCEPT !.prev = cur]
          /\ Len(w.code) \in Nat /\ r.used = Len(w.code)
          /\ \E d \in Word :
               /\ r.next = [valueDec EXCEPT !.prev = Xor(valueDec.prev, d)]
               /\ valueDec.lz = valueEnc.lz => d = x
      BY <1>1, <1>6, InsideRead
    <2> HIDE DEF r, w, x
    <2>2. PICK d \in Word :
            /\ r.next = [valueDec EXCEPT !.prev = Xor(valueDec.prev, d)]
            /\ valueDec.lz = valueEnc.lz => d = x
      BY <2>1
    <2>3. valueEnc' = [valueEnc EXCEPT !.prev = cur] /\ valueLag' = 0
      BY <1>2, <2>1
    <2>4. valueDec' = [valueDec EXCEPT !.prev = Xor(valueDec.prev, d)]
      BY <1>2, <2>2
    <2>5. valueEnc' \in Codec /\ valueDec' \in Codec
      BY <1>1, <1>3, <2>3, <2>4 DEF Codec
    <2>6. /\ valueEnc'.lz = valueEnc.lz /\ valueEnc'.mbc = valueEnc.mbc
          /\ valueEnc'.hasWindow = valueEnc.hasWindow
          /\ valueDec'.lz = valueDec.lz /\ valueDec'.mbc = valueDec.mbc
          /\ valueDec'.hasWindow = valueDec.hasWindow
      BY <1>1, <2>3, <2>4 DEF Codec
    <2>7. WindowInside(valueEnc') /\ InStep(valueEnc', valueDec')
      BY <1>1, <2>6 DEF WindowInside, InStep
    <2>8. valueDec = valueEnc => valueDec' = valueEnc'
      BY <1>4, <2>2, <2>3, <2>4
    <2> QED BY <2>3, <2>5, <2>7, <2>8 DEF ValuesInv
  <1>7. CASE cur # valueEnc.prev /\ ~Fits(valueEnc, lz, tz)
    <2>1. /\ lz \in 0..(W - 1) /\ mbc \in 1..W /\ lz + mbc <= W
          /\ w.next = [prev |-> cur, lz |-> lz, mbc |-> mbc, hasWindow |-> TRUE]
          /\ Len(w.code) \in Nat /\ r.used = Len(w.code)
          /\ \E l \in 0..lz, d \in Word :
               /\ r.next = [prev |-> Xor(valueDec.prev, d), lz |-> l, mbc |-> mbc,
                            hasWindow |-> TRUE]
               /\ lz < Pow2[LZBits] => l = lz /\ d = x
      BY <1>1, <1>7, AnewRead
    <2>2. lz \in 0..MaxLZ \cup {W}
      BY DEF NextValue
    <2> HIDE DEF r, w, x, lz, mbc
    <2>3. PICK l \in 0..lz, d \in Word :
            /\ r.next = [prev |-> Xor(valueDec.prev, d), lz |-> l, mbc |-> mbc,
                         hasWindow |-> TRUE]
            /\ lz < Pow2[LZBits] => l = lz /\ d = x
      BY <2>1
    <2>4. valueEnc' = [prev |-> cur, lz |-> lz, mbc |-> mbc, hasWindow |-> TRUE] /\ valueLag' = 0
      BY <1>2, <2>1
    <2>5. valueDec' = [prev |-> Xor(valueDec.prev, d), lz |-> l, mbc |-> mbc, hasWindow |-> TRUE]
      BY <1>2, <2>3
    <2>6. lz \in 0..W /\ mbc \in 0..W /\ l \in 0..W /\ l <= lz
      BY <2>1, <2>3, WordAssumption
    <2>7. valueEnc' \in Codec /\ valueDec' \in Codec
      BY <1>3, <2>4, <2>5, <2>6 DEF Codec
    <2>8. WindowInside(valueEnc') /\ InStep(valueEnc', valueDec')
      BY <2>1, <2>4, <2>5, <2>6 DEF WindowInside, InStep
    <2>9. ASSUME MaxLZ < Pow2[LZBits], valueDec = valueEnc
          PROVE  valueDec' = valueEnc'
      <3>1. lz < Pow2[LZBits]
        <4>1. lz <= MaxLZ /\ lz \in Int
          BY <2>1, <2>2, WordAssumption
        <4> QED BY <2>9, <4>1, FieldWidths
      <3> QED BY <1>4, <2>3, <2>4, <2>5, <2>9, <3>1
    <2> QED BY <2>4, <2>7, <2>8, <2>9 DEF ValuesInv
  <1> QED BY <1>5, <1>6, <1>7

\* The windows stay in step and the codes in line.
LEMMA ValuesInvariant == ValuesSpec => []ValuesInv
  <1>1. ValuesInit => ValuesInv
    BY ValuesInvInit
  <1>2. ValuesInv /\ [ValuesNext]_valueVars => ValuesInv'
    <2> SUFFICES ASSUME ValuesInv, [ValuesNext]_valueVars PROVE ValuesInv'
      OBVIOUS
    <2>1. CASE ValuesNext
      BY <2>1, ValuesStep DEF ValuesNext
    <2>2. CASE UNCHANGED valueVars
      BY <2>2 DEF ValuesInv, valueVars
    <2> QED BY <2>1, <2>2
  <1> QED BY <1>1, <1>2, PTL DEF ValuesSpec

\* decodeXOR takes exactly the bits encodeXOR wrote, value after value, also when
\* the leading zeros do not fit their field and the value is decoded wrong: what
\* it takes depends on the length of the window alone.
THEOREM ValuesStayAligned == ValuesSpec => []ValuesAligned
  <1>1. ValuesInv => ValuesAligned
    BY DEF ValuesInv, ValuesAligned
  <1> QED BY <1>1, ValuesInvariant, PTL

\* decodeXOR gives back the values encodeXOR wrote, whatever values came before and
\* whichever window is in use, as long as the field has room for the leading zeros
\* of the words that changed: at most 31 where the code writes 5 bits.
THEOREM ValuesDecoded ==
  ASSUME MaxLZ < Pow2[LZBits]
  PROVE  ValuesSpec => []ValuesRoundTrip
  <1> DEFINE Right == valueDec = valueEnc
  <1>1. ValuesInit => Right
    BY DEF ValuesInit
  <1>2. ValuesInv /\ Right /\ [ValuesNext]_valueVars => Right'
    <2> SUFFICES ASSUME ValuesInv, Right, [ValuesNext]_valueVars PROVE Right'
      OBVIOUS
    <2>1. CASE ValuesNext
      <3>1. PICK cur \in Word : NextValue(cur)
        BY <2>1 DEF ValuesNext
      <3> QED BY <3>1, ValuesStep
    <2>2. CASE UNCHANGED valueVars
      BY <2>2 DEF valueVars
    <2> QED BY <2>1, <2>2
  <1>3. Right => ValuesRoundTrip
    BY DEF ValuesRoundTrip
  <1> HIDE DEF Right
  <1> QED BY <1>1, <1>2, <1>3, ValuesInvariant, PTL DEF ValuesSpec
=============================================================================
