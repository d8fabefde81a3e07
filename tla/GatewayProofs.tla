--------------------------- MODULE GatewayProofs ---------------------------
(***************************************************************************)
(* The gateway, for any sizes of buffers and frames, any answers and any   *)
(* number of commands, alerts and pings: frames do not mix, commands       *)
(* arrive one by one and whole, and an answer that fits a frame is shown   *)
(* as it was given when nothing else is under way.                         *)
(***************************************************************************)
EXTENDS GatewayInv, SelectionProofs

-----------------------------------------------------------------------------
(* Units and headers *)

\* The units of a line and of its end.
LEMMA LineUnits ==
  /\ newline \in Unit /\ newline.part = 0
  /\ \A l \in AnyLine :
       /\ [line |-> l, part |-> 1] \in Unit /\ [line |-> l, part |-> 2] \in Unit
       /\ [line |-> l, part |-> 1] # newline /\ [line |-> l, part |-> 2] # newline
       /\ Body(l) \in Seq(Unit) /\ Len(Body(l)) = 2
       /\ Body(l)[1] = [line |-> l, part |-> 1] /\ Body(l)[2] = [line |-> l, part |-> 2]
       /\ Bytes(l) \in Seq(Unit) /\ Len(Bytes(l)) = 3
       /\ Bytes(l)[1] = [line |-> l, part |-> 1] /\ Bytes(l)[2] = [line |-> l, part |-> 2]
       /\ Bytes(l)[3] = newline
  <1>1. newline \in Unit /\ newline.part = 0
    BY DEF newline, Unit, AnyLine
  <1> SUFFICES ASSUME NEW l \in AnyLine
               PROVE  /\ [line |-> l, part |-> 1] \in Unit /\ [line |-> l, part |-> 2] \in Unit
                      /\ [line |-> l, part |-> 1] # newline /\ [line |-> l, part |-> 2] # newline
                      /\ Body(l) \in Seq(Unit) /\ Len(Body(l)) = 2
                      /\ Body(l)[1] = [line |-> l, part |-> 1] /\ Body(l)[2] = [line |-> l, part |-> 2]
                      /\ Bytes(l) \in Seq(Unit) /\ Len(Bytes(l)) = 3
                      /\ Bytes(l)[1] = [line |-> l, part |-> 1] /\ Bytes(l)[2] = [line |-> l, part |-> 2]
                      /\ Bytes(l)[3] = newline
    BY <1>1
  <1>2. [line |-> l, part |-> 1] \in Unit /\ [line |-> l, part |-> 2] \in Unit
    BY DEF Unit
  <1>3. [line |-> l, part |-> 1] # newline /\ [line |-> l, part |-> 2] # newline
    BY DEF newline
  <1>4. /\ Body(l) \in Seq(Unit) /\ Len(Body(l)) = 2
        /\ Body(l)[1] = [line |-> l, part |-> 1] /\ Body(l)[2] = [line |-> l, part |-> 2]
    BY <1>2 DEF Body
  <1>5. /\ Bytes(l) \in Seq(Unit) /\ Len(Bytes(l)) = 3 /\ Bytes(l)[3] = newline
        /\ Bytes(l)[1] = Body(l)[1] /\ Bytes(l)[2] = Body(l)[2]
    <2> DEFINE b == Body(l)
               c == Append(b, newline)
    <2>1. b \in Seq(Unit)
      BY <1>4
    <2> HIDE DEF b
    <2>2. /\ c \in Seq(Unit) /\ Len(c) = Len(b) + 1 /\ c[Len(b) + 1] = newline
          /\ \A i \in 1..Len(b) : c[i] = b[i]
      BY <1>1, <2>1
    <2> HIDE DEF c
    <2>3. Len(b) = 2
      BY <1>4 DEF b
    <2>4. c = Bytes(l)
      BY DEF Bytes, b, c
    <2> QED BY <2>2, <2>3, <2>4 DEF b
  <1> QED BY <1>2, <1>3, <1>4, <1>5

\* A second item.
LEMMA PairAppend ==
  ASSUME NEW U, NEW a \in U, NEW b \in U
  PROVE  Append(<<a>>, b) = <<a, b>>
  <1> DEFINE s == Append(<<a>>, b)
  <1>1. <<a>> \in Seq(U) /\ Len(<<a>>) = 1 /\ <<a>>[1] = a
    OBVIOUS
  <1>2. /\ s \in Seq(U) /\ Len(s) = Len(<<a>>) + 1 /\ s[Len(<<a>>) + 1] = b
        /\ \A i \in 1..Len(<<a>>) : s[i] = <<a>>[i]
    BY <1>1, AppendProperties
  <1> HIDE DEF s
  <1>3. Len(s) = 2 /\ s[1] = a /\ s[2] = b
    BY <1>1, <1>2
  <1>4. s = <<a, b>>
    BY <1>2, <1>3
  <1> QED BY <1>4 DEF s

\* A line without its end is written unit by unit.
LEMMA BodyUnits ==
  \A l \in AnyLine : Append(<<[line |-> l, part |-> 1]>>, [line |-> l, part |-> 2]) = Body(l)
  <1> TAKE l \in AnyLine
  <1>1. [line |-> l, part |-> 1] \in Unit /\ [line |-> l, part |-> 2] \in Unit
    BY LineUnits
  <1> QED BY <1>1, PairAppend DEF Body

\* A unit is no header, and a header says how long its payload is.
LEMMA HeaderForm ==
  /\ \A u \in Unit : ~IsHeader(u)
  /\ \A h \in Headers : IsHeader(h) /\ Length(h) \in Nat
  /\ \A op \in {"text", "pong", "close"}, n \in Nat :
       /\ Header(op, n) \in Headers /\ Header(op, n).op = op
       /\ Length(Header(op, n)) = n
  <1>1. \A u \in Unit : ~IsHeader(u)
    BY DEF Unit, IsHeader
  <1>2. \A h \in Headers : IsHeader(h) /\ Length(h) \in Nat
    BY DEF Headers, IsHeader, Length
  <1>3. ASSUME NEW op \in {"text", "pong", "close"}, NEW n \in Nat
        PROVE  /\ Header(op, n) \in Headers /\ Header(op, n).op = op
               /\ Length(Header(op, n)) = n
    <2>1. Small \in Nat \ {0} /\ Mid \in Nat /\ Small < Mid
      BY GatewayAssumption
    <2>2. CASE n <= Small
      BY <2>1, <2>2 DEF Header, Headers, Length
    <2>3. CASE n > Small /\ n <= Mid
      <3>1. n % (Mid + 1) = n
        BY <2>1, <2>3
      <3> QED BY <2>1, <2>3, <3>1 DEF Header, Headers, Length
    <2>4. CASE n > Small /\ n > Mid
      BY <2>1, <2>4 DEF Header, Headers, Length
    <2> QED BY <2>1, <2>2, <2>3, <2>4
  <1> QED BY <1>1, <1>2, <1>3
-----------------------------------------------------------------------------
(* Text and its lines *)

\* FlattenSeq joins its argument from the left.
LEMMA FlattenDef ==
  ASSUME NEW S, NEW seqs \in Seq(Seq(S)), Len(seqs) > 0
  PROVE  \E flat \in [1..Len(seqs) -> Seq(S)] :
           /\ flat[1] = seqs[1]
           /\ \A n \in 2..Len(seqs) : flat[n] = flat[n - 1] \o seqs[n]
           /\ FlattenSeq(seqs) = flat[Len(seqs)]
  <1> DEFINE Build(flat) ==
               [i \in 1..Len(seqs) |-> IF i = 1 THEN seqs[i] ELSE flat[i - 1] \o seqs[i]]
             g == [x \in Nat \X Seq(S) |->
                     IF x[1] + 1 \in 1..Len(seqs) THEN x[2] \o seqs[x[1] + 1] ELSE x[2]]
             chosen == CHOOSE flat : flat = Build(flat)
  <1>1. g \in [Nat \X Seq(S) -> Seq(S)]
    OBVIOUS
  <1>2. PICK f \in [Nat -> Seq(S)] :
          f[0] = <<>> /\ \A n \in Nat : f[n + 1] = g[<<n, f[n]>>]
    <2> DEFINE V == Seq(S)
               b == <<>>
    <2>1. b \in V
      OBVIOUS
    <2>2. g \in [Nat \X V -> V]
      BY <1>1
    <2> HIDE DEF g, V, b
    <2>3. \E f \in [Nat -> V] : Unfolds(f, b, g)
      BY <2>1, <2>2, PrefixRecursion
    <2> QED BY <2>3 DEF V, b, Unfolds
  <1> DEFINE k == [n \in 1..Len(seqs) |-> f[n]]
  <1>3. Len(seqs) \in Nat /\ Len(seqs) > 0
    OBVIOUS
  <1>4. \A n \in 1..Len(seqs) : f[n] = f[n - 1] \o seqs[n]
    <2> TAKE n \in 1..Len(seqs)
    <2>1. n - 1 \in Nat /\ (n - 1) + 1 = n
      BY <1>3
    <2>2. f[n] = g[<<n - 1, f[n - 1]>>] /\ f[n - 1] \in Seq(S)
      BY <1>2, <2>1
    <2> QED BY <2>1, <2>2
  <1>5. f[1] = seqs[1]
    <2>1. 1 \in 1..Len(seqs) /\ 1 - 1 = 0
      BY <1>3
    <2>2. f[1] = f[0] \o seqs[1]
      BY <1>4, <2>1
    <2>3. f[0] = <<>> /\ seqs[1] \in Seq(S)
      BY <1>2, <2>1
    <2> QED BY <2>2, <2>3
  <1>6. k = Build(k)
    <2>1. \A n \in 1..Len(seqs) : k[n] = IF n = 1 THEN seqs[n] ELSE k[n - 1] \o seqs[n]
      <3> TAKE n \in 1..Len(seqs)
      <3>1. k[n] = f[n] /\ (n # 1 => k[n - 1] = f[n - 1])
        BY <1>3
      <3> QED BY <1>4, <1>5, <3>1
    <2>2. k = [n \in 1..Len(seqs) |-> k[n]]
      OBVIOUS
    <2> HIDE DEF k
    <2> QED BY <2>1, <2>2
  <1>7. chosen = Build(chosen)
    <2> HIDE DEF Build
    <2> QED BY <1>6
  <1>8. FlattenSeq(seqs) = chosen[Len(seqs)]
    BY <1>3 DEF FlattenSeq
  <1> HIDE DEF chosen
  <1>9. /\ chosen[1] = seqs[1]
        /\ \A n \in 2..Len(seqs) : chosen[n] = chosen[n - 1] \o seqs[n]
    <2>1. 1 \in 1..Len(seqs) /\ \A n \in 2..Len(seqs) : n \in 1..Len(seqs) /\ n # 1
      <3>1. 1 \in 1..Len(seqs)
        BY <1>3
      <3>2. ASSUME NEW n \in 2..Len(seqs) PROVE n \in 1..Len(seqs) /\ n # 1
        BY <1>3
      <3> QED BY <3>1, <3>2
    <2>2. \A n \in 1..Len(seqs) : chosen[n] = IF n = 1 THEN seqs[n] ELSE chosen[n - 1] \o seqs[n]
      BY <1>7
    <2> QED BY <2>1, <2>2
  <1>10. chosen \in [1..Len(seqs) -> Seq(S)]
    <2> DEFINE I == {n \in Nat : n + 1 <= Len(seqs) => chosen[n + 1] \in Seq(S)}
    <2>1. 0 \in I
      <3>1. 1 \in 1..Len(seqs) /\ 0 + 1 = 1
        BY <1>3
      <3>2. seqs[1] \in Seq(S)
        BY <3>1
      <3> QED BY <1>9, <3>1, <3>2
    <2>2. ASSUME NEW n \in Nat, n \in I
          PROVE  n + 1 \in I
      <3>1. CASE (n + 1) + 1 <= Len(seqs)
        <4>1. (n + 1) + 1 \in 2..Len(seqs) /\ ((n + 1) + 1) - 1 = n + 1 /\ chosen[n + 1] \in Seq(S)
          BY <1>3, <2>2, <3>1
        <4>2. chosen[(n + 1) + 1] = chosen[n + 1] \o seqs[(n + 1) + 1]
          BY <1>9, <4>1
        <4>3. seqs[(n + 1) + 1] \in Seq(S)
          BY <4>1
        <4>4. chosen[(n + 1) + 1] \in Seq(S)
          BY <4>1, <4>2, <4>3
        <4> QED BY <4>4
      <3> QED BY <3>1
    <2> HIDE DEF I
    <2>3. Nat \subseteq I
      BY <2>1, <2>2, SetInduction
    <2>4. \A n \in 1..Len(seqs) : chosen[n] \in Seq(S)
      <3> TAKE n \in 1..Len(seqs)
      <3>1. n - 1 \in Nat /\ (n - 1) + 1 = n
        BY <1>3
      <3>2. n - 1 \in I
        BY <2>3, <3>1
      <3> QED BY <3>1, <3>2 DEF I
    <2>5. chosen = [n \in 1..Len(seqs) |-> chosen[n]]
      BY <1>7
    <2> QED BY <2>4, <2>5
  <1> QED BY <1>8, <1>9, <1>10

\* A text has three units for each of its lines.
TextOf(t, lines) ==
  /\ t \in Seq(Unit) /\ Len(t) = 3 * Len(lines)
  /\ \A i \in 1..Len(lines) :
       /\ t[3 * i - 2] = [line |-> lines[i], part |-> 1]
       /\ t[3 * i - 1] = [line |-> lines[i], part |-> 2]
       /\ t[3 * i] = newline

LEMMA TextForm ==
  ASSUME NEW lines \in Seq(AnyLine)
  PROVE  TextOf(Text(lines), lines)
  <1> DEFINE n == Len(lines)
             seqs == [i \in DOMAIN lines |-> Bytes(lines[i])]
  <1>1. n \in Nat /\ DOMAIN lines = 1..n
    OBVIOUS
  <1>2. \A i \in 1..n : lines[i] \in AnyLine
    OBVIOUS
  <1>3. seqs \in Seq(Seq(Unit)) /\ Len(seqs) = n /\ \A i \in 1..n : seqs[i] = Bytes(lines[i])
    <2>1. \A i \in 1..n : Bytes(lines[i]) \in Seq(Unit)
      BY <1>2, LineUnits
    <2> QED BY <1>1, <2>1
  <1>4. Text(lines) = FlattenSeq(seqs)
    BY DEF Text
  <1> HIDE DEF seqs
  <1>5. CASE n = 0
    <2>1. seqs = <<>> /\ FlattenSeq(seqs) = seqs
      BY <1>3, <1>5 DEF FlattenSeq
    <2>2. Text(lines) = <<>>
      BY <1>4, <2>1
    <2> QED BY <1>5, <2>2 DEF TextOf
  <1>6. CASE n > 0
    <2>1. PICK flat \in [1..n -> Seq(Unit)] :
            /\ flat[1] = seqs[1]
            /\ \A i \in 2..n : flat[i] = flat[i - 1] \o seqs[i]
            /\ FlattenSeq(seqs) = flat[n]
      <3> HIDE DEF n
      <3>1. Len(seqs) > 0
        BY <1>3, <1>6
      <3>2. \E flat \in [1..Len(seqs) -> Seq(Unit)] :
              /\ flat[1] = seqs[1]
              /\ \A i \in 2..Len(seqs) : flat[i] = flat[i - 1] \o seqs[i]
              /\ FlattenSeq(seqs) = flat[Len(seqs)]
        BY <1>3, <3>1, FlattenDef
      <3> QED BY <1>3, <3>2
    <2> DEFINE Form(i) ==
                 /\ Len(flat[i]) = 3 * i
                 /\ \A j \in 1..i : /\ flat[i][3 * j - 2] = [line |-> lines[j], part |-> 1]
                                    /\ flat[i][3 * j - 1] = [line |-> lines[j], part |-> 2]
                                    /\ flat[i][3 * j] = newline
    <2>2. \A i \in 1..n : /\ seqs[i] \in Seq(Unit) /\ Len(seqs[i]) = 3
                          /\ seqs[i][1] = [line |-> lines[i], part |-> 1]
                          /\ seqs[i][2] = [line |-> lines[i], part |-> 2]
                          /\ seqs[i][3] = newline
      BY <1>2, <1>3, LineUnits
    <2>3. Form(1)
      <3>1. 1 \in 1..n /\ 1..1 = {1}
        BY <1>1, <1>6
      <3> QED BY <2>1, <2>2, <3>1
    <2>4. ASSUME NEW i \in 1..n, i + 1 \in 1..n, Form(i)
          PROVE  Form(i + 1)
      <3> DEFINE f == flat[i]
                 g == seqs[i + 1]
                 h == flat[i + 1]
      <3>1. i + 1 \in 2..n /\ (i + 1) - 1 = i
        BY <1>1, <2>4
      <3>2. h = f \o g
        BY <2>1, <3>1
      <3>3. f \in Seq(Unit) /\ Len(f) = 3 * i
        BY <2>4
      <3>4. g \in Seq(Unit) /\ Len(g) = 3
        BY <2>2, <2>4
      <3>5. \A j \in 1..i : /\ f[3 * j - 2] = [line |-> lines[j], part |-> 1]
                            /\ f[3 * j - 1] = [line |-> lines[j], part |-> 2]
                            /\ f[3 * j] = newline
        BY <2>4
      <3>6. /\ g[1] = [line |-> lines[i + 1], part |-> 1] /\ g[2] = [line |-> lines[i + 1], part |-> 2]
            /\ g[3] = newline
        BY <2>2, <2>4
      <3> HIDE DEF f, g, h
      <3>7. /\ Len(f \o g) = 3 * i + 3
            /\ \A k \in 1..(3 * i + 3) : (f \o g)[k] = IF k <= 3 * i THEN f[k] ELSE g[k - 3 * i]
        <4>1. /\ Len(f \o g) = Len(f) + Len(g)
              /\ \A k \in 1..(Len(f) + Len(g)) : (f \o g)[k] = IF k <= Len(f) THEN f[k] ELSE g[k - Len(f)]
          <5>1. f \in Seq(Unit) /\ g \in Seq(Unit)
            BY <3>3, <3>4
          <5> QED BY <5>1, ConcatProperties
        <4> DEFINE fg == f \o g
        <4> HIDE DEF fg
        <4> QED BY <3>3, <3>4, <4>1 DEF fg
      <3>8. Len(h) = 3 * (i + 1)
        BY <3>2, <3>7, <1>1
      <3>9. ASSUME NEW j \in 1..(i + 1)
            PROVE  /\ h[3 * j - 2] = [line |-> lines[j], part |-> 1]
                   /\ h[3 * j - 1] = [line |-> lines[j], part |-> 2]
                   /\ h[3 * j] = newline
        <4>1. CASE j \in 1..i
          <5>1. /\ 3 * j - 2 \in 1..(3 * i + 3) /\ 3 * j - 2 <= 3 * i
                /\ 3 * j - 1 \in 1..(3 * i + 3) /\ 3 * j - 1 <= 3 * i
                /\ 3 * j \in 1..(3 * i + 3) /\ 3 * j <= 3 * i
            BY <1>1, <4>1
          <5> QED BY <3>2, <3>5, <3>7, <4>1, <5>1
        <4>2. CASE j = i + 1
          <5>1. /\ 3 * j - 2 \in 1..(3 * i + 3) /\ 3 * j - 2 > 3 * i /\ (3 * j - 2) - 3 * i = 1
                /\ 3 * j - 1 \in 1..(3 * i + 3) /\ 3 * j - 1 > 3 * i /\ (3 * j - 1) - 3 * i = 2
                /\ 3 * j \in 1..(3 * i + 3) /\ 3 * j > 3 * i /\ 3 * j - 3 * i = 3
            BY <1>1, <4>2
          <5>2. h[3 * j - 2] = g[1] /\ h[3 * j - 1] = g[2] /\ h[3 * j] = g[3]
            <6>1. \A k \in 1..(3 * i + 3) : k > 3 * i => h[k] = g[k - 3 * i]
              BY <3>2, <3>7, <1>1
            <6>2. /\ h[3 * j - 2] = g[(3 * j - 2) - 3 * i]
                  /\ h[3 * j - 1] = g[(3 * j - 1) - 3 * i]
                  /\ h[3 * j] = g[3 * j - 3 * i]
              BY <5>1, <6>1
            <6> QED BY <5>1, <6>2
          <5> QED BY <3>6, <4>2, <5>2
        <4> QED BY <1>1, <4>1, <4>2
      <3> QED BY <3>8, <3>9 DEF h
    <2> DEFINE I == {i \in Nat : i + 1 \in 1..n => Form(i + 1)}
    <2> HIDE DEF Form
    <2>5. 0 \in I
      BY <2>3
    <2>6. ASSUME NEW i \in Nat, i \in I
          PROVE  i + 1 \in I
      <3>1. CASE (i + 1) + 1 \in 1..n
        <4>1. i + 1 \in 1..n /\ Form(i + 1)
          BY <1>1, <2>6, <3>1
        <4>2. Form((i + 1) + 1)
          BY <2>4, <3>1, <4>1
        <4> QED BY <4>2
      <3> QED BY <3>1
    <2> HIDE DEF I
    <2>7. n - 1 \in I
      <3>1. n - 1 \in Nat /\ Nat \subseteq I
        BY <1>1, <1>6, <2>5, <2>6, SetInduction
      <3> QED BY <3>1
    <2>8. Form(n)
      <3>1. (n - 1) + 1 = n /\ n \in 1..n
        BY <1>1, <1>6
      <3> QED BY <2>7, <3>1 DEF I
    <2>9. flat[n] \in Seq(Unit) /\ Text(lines) = flat[n]
      BY <1>1, <1>4, <1>6, <2>1
    <2> QED BY <2>8, <2>9 DEF Form, TextOf
  <1> QED BY <1>1, <1>5, <1>6

\* What a message is split into up to some unit: whole lines and the rest.
Parts == [lines : Seq(Seq(Unit)), rest : Seq(Unit)]
NoParts == [lines |-> <<>>, rest |-> <<>>]
Full(p) == IF p.rest = <<>> THEN p.lines ELSE Append(p.lines, p.rest)
Split(p, b) ==
  IF b = newline THEN [lines |-> Full(p), rest |-> <<>>]
                 ELSE [lines |-> p.lines, rest |-> Append(p.rest, b)]

\* Splitting keeps parts parts.
LEMMA SplitType ==
  /\ NoParts \in Parts
  /\ \A p \in Parts : Full(p) \in Seq(Seq(Unit))
  /\ \A p \in Parts, b \in Unit : Split(p, b) \in Parts
  <1>1. NoParts \in Parts
    <2>1. <<>> \in Seq(Seq(Unit)) /\ <<>> \in Seq(Unit)
      OBVIOUS
    <2> QED BY <2>1 DEF NoParts, Parts
  <1>2. ASSUME NEW p \in Parts
        PROVE  Full(p) \in Seq(Seq(Unit))
    <2>1. p.lines \in Seq(Seq(Unit)) /\ p.rest \in Seq(Unit)
      BY DEF Parts
    <2> QED BY <2>1 DEF Full
  <1>3. ASSUME NEW p \in Parts, NEW b \in Unit
        PROVE  Split(p, b) \in Parts
    <2>1. p.lines \in Seq(Seq(Unit)) /\ Append(p.rest, b) \in Seq(Unit) /\ <<>> \in Seq(Unit)
      BY DEF Parts
    <2>2. [lines |-> Full(p), rest |-> <<>>] \in Parts
      BY <1>2, <2>1 DEF Parts
    <2>3. [lines |-> p.lines, rest |-> Append(p.rest, b)] \in Parts
      BY <2>1 DEF Parts
    <2> QED BY <2>2, <2>3 DEF Split
  <1> QED BY <1>1, <1>2, <1>3

\* Lines splits a message unit by unit.
LEMMA LinesDef ==
  ASSUME NEW data \in Seq(Unit)
  PROVE  \E split \in [0..Len(data) -> Parts] :
           /\ split[0] = NoParts
           /\ \A n \in 1..Len(data) : split[n] = Split(split[n - 1], data[n])
           /\ Lines(data) = Full(split[Len(data)])
  <1> DEFINE Build(split) ==
               [n \in 0..Len(data) |-> IF n = 0 THEN NoParts ELSE Split(split[n - 1], data[n])]
             g == [x \in Nat \X Parts |->
                     IF x[1] + 1 \in 1..Len(data) THEN Split(x[2], data[x[1] + 1]) ELSE x[2]]
             chosen == CHOOSE split : split = Build(split)
  <1>3. Len(data) \in Nat /\ \A n \in 1..Len(data) : data[n] \in Unit
    OBVIOUS
  <1>1. g \in [Nat \X Parts -> Parts]
    <2>1. \A x \in Nat \X Parts :
            (IF x[1] + 1 \in 1..Len(data) THEN Split(x[2], data[x[1] + 1]) ELSE x[2]) \in Parts
      BY <1>3, SplitType
    <2> QED BY <2>1
  <1>2. PICK f \in [Nat -> Parts] :
          f[0] = NoParts /\ \A n \in Nat : f[n + 1] = g[<<n, f[n]>>]
    <2> HIDE DEF g
    <2>1. \E f \in [Nat -> Parts] : Unfolds(f, NoParts, g)
      BY <1>1, SplitType, PrefixRecursion
    <2> QED BY <2>1 DEF Unfolds
  <1> DEFINE k == [n \in 0..Len(data) |-> f[n]]
  <1>4. \A n \in 1..Len(data) : f[n] = Split(f[n - 1], data[n])
    <2> TAKE n \in 1..Len(data)
    <2>1. n - 1 \in Nat /\ (n - 1) + 1 = n
      BY <1>3
    <2>2. f[n] = g[<<n - 1, f[n - 1]>>] /\ f[n - 1] \in Parts
      BY <1>2, <2>1
    <2> QED BY <2>1, <2>2
  <1>5. k = Build(k)
    <2>1. \A n \in 0..Len(data) : k[n] = IF n = 0 THEN NoParts ELSE Split(k[n - 1], data[n])
      <3> TAKE n \in 0..Len(data)
      <3>1. k[n] = f[n] /\ (n # 0 => k[n - 1] = f[n - 1] /\ n \in 1..Len(data))
        BY <1>3
      <3> QED BY <1>2, <1>4, <3>1
    <2>2. k = [n \in 0..Len(data) |-> k[n]]
      OBVIOUS
    <2> HIDE DEF k
    <2> QED BY <2>1, <2>2
  <1>6. chosen = Build(chosen)
    <2> HIDE DEF Build
    <2> QED BY <1>5
  <1>7. Lines(data) = Full(chosen[Len(data)])
    BY DEF Lines, Full, Split, NoParts
  <1> HIDE DEF chosen
  <1>8. /\ chosen[0] = NoParts
        /\ \A n \in 1..Len(data) : chosen[n] = Split(chosen[n - 1], data[n])
    <2>1. 0 \in 0..Len(data) /\ \A n \in 1..Len(data) : n \in 0..Len(data) /\ n # 0
      BY <1>3
    <2> QED BY <1>6, <2>1
  <1>9. chosen \in [0..Len(data) -> Parts]
    <2> DEFINE I == {n \in Nat : n <= Len(data) => chosen[n] \in Parts}
    <2>1. 0 \in I
      BY <1>8, SplitType
    <2>2. ASSUME NEW n \in Nat, n \in I
          PROVE  n + 1 \in I
      <3>1. CASE n + 1 <= Len(data)
        <4>1. n + 1 \in 1..Len(data) /\ (n + 1) - 1 = n /\ chosen[n] \in Parts
          BY <1>3, <2>2, <3>1
        <4>2. chosen[n + 1] = Split(chosen[n], data[n + 1])
          BY <1>8, <4>1
        <4>3. chosen[n + 1] \in Parts
          BY <1>3, <4>1, <4>2, SplitType
        <4> QED BY <4>3
      <3> QED BY <3>1
    <2> HIDE DEF I
    <2>3. Nat \subseteq I
      BY <2>1, <2>2, SetInduction
    <2>4. \A n \in 0..Len(data) : chosen[n] \in Parts
      BY <1>3, <2>3 DEF I
    <2>5. chosen = [n \in 0..Len(data) |-> chosen[n]]
      BY <1>6
    <2> QED BY <2>4, <2>5
  <1> QED BY <1>7, <1>8, <1>9

\* The lines of a message are pieces of it.
LEMMA LinesType ==
  ASSUME NEW data \in Seq(Unit)
  PROVE  Lines(data) \in Seq(Seq(Unit))
  <1>1. PICK split \in [0..Len(data) -> Parts] : Lines(data) = Full(split[Len(data)])
    BY LinesDef
  <1>2. split[Len(data)] \in Parts
    OBVIOUS
  <1> QED BY <1>1, <1>2, SplitType

\* A message without units has no lines.
LEMMA LinesEmpty == Lines(<<>>) = <<>>
  <1> DEFINE none == <<>>
  <1>1. none \in Seq(Unit) /\ Len(none) = 0
    OBVIOUS
  <1>2. PICK split \in [0..Len(none) -> Parts] :
          split[0] = NoParts /\ Lines(none) = Full(split[Len(none)])
    BY <1>1, LinesDef
  <1>3. Full(NoParts) = <<>>
    BY DEF Full, NoParts
  <1> QED BY <1>1, <1>2, <1>3

\* The lines of a text are the bodies of its lines.
LEMMA LinesText ==
  ASSUME NEW lines \in Seq(AnyLine), NEW t, TextOf(t, lines)
  PROVE  Lines(t) = [i \in 1..Len(lines) |-> Body(lines[i])]
  <1> DEFINE n == Len(lines)
             upTo(i) == [lines |-> [j \in 1..i |-> Body(lines[j])], rest |-> <<>>]
  <1>1. n \in Nat /\ t \in Seq(Unit) /\ Len(t) = 3 * n
    BY DEF TextOf
  <1>2. PICK split \in [0..Len(t) -> Parts] :
          /\ split[0] = NoParts
          /\ \A i \in 1..Len(t) : split[i] = Split(split[i - 1], t[i])
          /\ Lines(t) = Full(split[Len(t)])
    BY <1>1, LinesDef
  <1>3. split[0] = upTo(0)
    <2>1. [j \in 1..0 |-> Body(lines[j])] = <<>>
      OBVIOUS
    <2> QED BY <1>2, <2>1 DEF NoParts
  <1>4. ASSUME NEW i \in 1..n, split[3 * i - 3] = upTo(i - 1)
        PROVE  split[3 * i] = upTo(i)
    <2> DEFINE l == lines[i]
               before == [j \in 1..(i - 1) |-> Body(lines[j])]
    <2>1. /\ i \in Nat /\ i - 1 \in Nat
          /\ 3 * i - 2 \in 1..Len(t) /\ (3 * i - 2) - 1 = 3 * i - 3
          /\ 3 * i - 1 \in 1..Len(t) /\ (3 * i - 1) - 1 = 3 * i - 2
          /\ 3 * i \in 1..Len(t)
      BY <1>1
    <2>2. /\ t[3 * i - 2] = [line |-> l, part |-> 1]
          /\ t[3 * i - 1] = [line |-> l, part |-> 2]
          /\ t[3 * i] = newline
      BY DEF TextOf
    <2>3. /\ l \in AnyLine
          /\ [line |-> l, part |-> 1] # newline /\ [line |-> l, part |-> 2] # newline
      BY LineUnits
    <2>4. split[3 * i - 3] = [lines |-> before, rest |-> <<>>]
      BY <1>4
    <2>5. split[3 * i - 2] = [lines |-> before, rest |-> <<[line |-> l, part |-> 1]>>]
      <3>1. split[3 * i - 2] = Split(split[3 * i - 3], [line |-> l, part |-> 1])
        BY <1>2, <2>1, <2>2
      <3>2. Append(<<>>, [line |-> l, part |-> 1]) = <<[line |-> l, part |-> 1]>>
        OBVIOUS
      <3> HIDE DEF before, l
      <3> QED BY <2>3, <2>4, <3>1, <3>2 DEF Split
    <2>6. split[3 * i - 1] = [lines |-> before, rest |-> Body(l)]
      <3>1. split[3 * i - 1] = Split(split[3 * i - 2], [line |-> l, part |-> 2])
        BY <1>2, <2>1, <2>2
      <3>2. Append(<<[line |-> l, part |-> 1]>>, [line |-> l, part |-> 2]) = Body(l)
        BY <2>3, BodyUnits
      <3> DEFINE u == [line |-> l, part |-> 2]
                 r == <<[line |-> l, part |-> 1]>>
      <3>3. u # newline
        BY <2>3
      <3>4. split[3 * i - 2] = [lines |-> before, rest |-> r]
        BY <2>5
      <3>5. split[3 * i - 1] = Split([lines |-> before, rest |-> r], u)
        BY <3>1, <3>4
      <3> HIDE DEF before, l, u, r
      <3>6. split[3 * i - 1] = [lines |-> before, rest |-> Append(r, u)]
        BY <3>3, <3>5 DEF Split
      <3> QED BY <3>2, <3>6 DEF u, r
    <2>7. split[3 * i] = [lines |-> Append(before, Body(l)), rest |-> <<>>]
      <3>1. split[3 * i] = Split(split[3 * i - 1], newline)
        BY <1>2, <2>1, <2>2
      <3>2. Body(l) # <<>>
        BY DEF Body
      <3> HIDE DEF before, l
      <3> QED BY <2>6, <3>1, <3>2 DEF Split, Full
    <2>8. Append(before, Body(l)) = [j \in 1..i |-> Body(lines[j])]
      <3>1. \A j \in 1..(i - 1) : Body(lines[j]) \in Seq(Unit)
        <4>1. \A j \in 1..(i - 1) : lines[j] \in AnyLine
          BY <1>1
        <4> QED BY <4>1, LineUnits
      <3>2. before \in Seq(Seq(Unit)) /\ Len(before) = i - 1
        BY <2>1, <3>1
      <3>3. Body(l) \in Seq(Unit)
        BY <2>3, LineUnits
      <3>4. \A j \in 1..(i - 1) : before[j] = Body(lines[j])
        OBVIOUS
      <3> DEFINE longer == Append(before, Body(l))
      <3> HIDE DEF before
      <3>5. /\ longer \in Seq(Seq(Unit)) /\ Len(longer) = Len(before) + 1
            /\ \A j \in 1..Len(before) : longer[j] = before[j]
            /\ longer[Len(before) + 1] = Body(l)
        BY <3>2, <3>3
      <3> HIDE DEF longer
      <3>6. Len(longer) = i /\ \A j \in 1..i : longer[j] = Body(lines[j])
        <4>1. Len(longer) = i /\ longer[i] = Body(l) /\ \A j \in 1..(i - 1) : longer[j] = before[j]
          <5>1. Len(before) + 1 = i /\ Len(before) = i - 1
            BY <2>1, <3>2
          <5> QED BY <3>5, <5>1
        <4>2. \A j \in 1..i : j \in 1..(i - 1) \/ j = i
          BY <2>1
        <4> QED BY <3>4, <4>1, <4>2
      <3>7. longer = [j \in 1..Len(longer) |-> longer[j]]
        BY <3>5
      <3> QED BY <3>6, <3>7 DEF longer
    <2> QED BY <2>7, <2>8
  <1> DEFINE I == {i \in Nat : i <= n => split[3 * i] = upTo(i)}
  <1>5. 0 \in I
    BY <1>3
  <1>6. ASSUME NEW i \in Nat, i \in I
        PROVE  i + 1 \in I
    <2>1. CASE i + 1 <= n
      <3>1. i + 1 \in 1..n /\ 3 * (i + 1) - 3 = 3 * i /\ (i + 1) - 1 = i
        BY <1>1, <2>1
      <3>2. split[3 * (i + 1) - 3] = upTo((i + 1) - 1)
        BY <1>1, <1>6, <2>1, <3>1
      <3> HIDE DEF upTo
      <3> QED BY <1>4, <3>1, <3>2
    <2> QED BY <2>1
  <1> HIDE DEF I
  <1>7. Nat \subseteq I
    BY <1>5, <1>6, SetInduction
  <1>8. split[Len(t)] = upTo(n)
    <2> HIDE DEF upTo
    <2>1. n \in I
      BY <1>1, <1>7
    <2> QED BY <1>1, <2>1 DEF I
  <1> QED BY <1>2, <1>8 DEF Full

\* The lines of an answer.
AnswerLines(q, n) == IF n = -1 THEN <<Err(q)>> ELSE [i \in 1..n |-> Row(q, i)] \o <<End(q)>>

\* What a query is answered with.
LEMMA AnswerForm ==
  ASSUME NEW q \in Nat, NEW n \in RowCounts \cup {-1}
  PROVE  /\ AnswerLines(q, n) \in Seq(AnyLine)
         /\ TextOf(Answer(q, n), AnswerLines(q, n))
         /\ n = -1 => AnswerLines(q, n) = <<Err(q)>>
         /\ n # -1 => /\ n \in Nat /\ Len(AnswerLines(q, n)) = n + 1
                      /\ \A i \in 1..n : AnswerLines(q, n)[i] = Row(q, i)
                      /\ AnswerLines(q, n)[n + 1] = End(q)
         /\ Answer(q, n) \in Seq(Unit) /\ Len(Answer(q, n)) >= 3
  <1> DEFINE lines == AnswerLines(q, n)
             a == Answer(q, n)
  <1>1. CASE n = -1
    <2>1. Err(q) \in AnyLine
      BY DEF Err, AnyLine
    <2>2. lines = <<Err(q)>> /\ lines \in Seq(AnyLine) /\ Len(lines) = 1 /\ lines[1] = Err(q)
      BY <1>1, <2>1 DEF AnswerLines
    <2>3. a = Bytes(Err(q))
      BY <1>1 DEF Answer
    <2>4. \A i \in 1..1 : i = 1 /\ 3 * i - 2 = 1 /\ 3 * i - 1 = 2 /\ 3 * i = 3
      OBVIOUS
    <2> DEFINE l == lines[1]
    <2> HIDE DEF lines, a
    <2>5. /\ a \in Seq(Unit) /\ Len(a) = 3 /\ a[1] = [line |-> l, part |-> 1]
          /\ a[2] = [line |-> l, part |-> 2] /\ a[3] = newline
      <3>1. l \in AnyLine /\ a = Bytes(l)
        BY <2>1, <2>2, <2>3
      <3> HIDE DEF l
      <3> QED BY <3>1, LineUnits
    <2>6. TextOf(a, lines)
      <3>1. 3 * Len(lines) = 3 /\ 1..Len(lines) = {1}
        BY <2>2
      <3>2. 3 * 1 - 2 = 1 /\ 3 * 1 - 1 = 2 /\ 3 * 1 = 3
        OBVIOUS
      <3> QED BY <2>5, <3>1, <3>2 DEF TextOf
    <2>7. Len(a) >= 3
      BY <2>5
    <2> QED BY <1>1, <2>2, <2>5, <2>6, <2>7 DEF lines, a
  <1>2. CASE n # -1
    <2>1. n \in Nat
      BY <1>2, GatewayAssumption
    <2>2. End(q) \in AnyLine /\ \A i \in Nat : Row(q, i) \in AnyLine
      BY DEF End, Row, AnyLine
    <2> DEFINE front == [i \in 1..n |-> Row(q, i)]
               back == <<End(q)>>
    <2>3. /\ front \in Seq(AnyLine) /\ Len(front) = n
          /\ back \in Seq(AnyLine) /\ Len(back) = 1 /\ back[1] = End(q)
      BY <2>1, <2>2
    <2>4. lines = front \o back
      BY <1>2 DEF AnswerLines
    <2>5. \A i \in 1..n : front[i] = Row(q, i)
      OBVIOUS
    <2>6. a = Text(lines)
      BY <1>2, <2>4 DEF Answer
    <2> HIDE DEF front, back, lines, a
    <2>7. /\ lines \in Seq(AnyLine) /\ Len(lines) = Len(front) + Len(back)
          /\ \A i \in 1..(Len(front) + Len(back)) :
               lines[i] = IF i <= Len(front) THEN front[i] ELSE back[i - Len(front)]
      <3>1. front \in Seq(AnyLine) /\ back \in Seq(AnyLine)
        BY <2>3
      <3> QED BY <2>4, <3>1, ConcatProperties
    <2>8. /\ Len(lines) = n + 1 /\ lines[n + 1] = End(q)
          /\ \A i \in 1..n : lines[i] = Row(q, i)
      BY <2>1, <2>3, <2>5, <2>7
    <2>9. TextOf(a, lines)
      BY <2>6, <2>7, TextForm
    <2>10. a \in Seq(Unit) /\ Len(a) = 3 * (n + 1)
      BY <2>8, <2>9 DEF TextOf
    <2>11. Len(a) >= 3
      BY <2>1, <2>10
    <2> QED BY <1>2, <2>1, <2>7, <2>8, <2>9, <2>10, <2>11 DEF lines, a
  <1> QED BY <1>1, <1>2

\* Which lines end an answer.
LEMMA LineEnds ==
  ASSUME NEW q \in Nat
  PROVE  /\ IsEnd(Body(End(q))) /\ EndsAnswer(Body(End(q)))
         /\ ~IsEnd(Body(Err(q))) /\ EndsAnswer(Body(Err(q)))
         /\ \A i \in Nat : ~EndsAnswer(Body(Row(q, i)))
  <1>1. \A l : /\ Body(l)[1].line = l /\ Body(l)[1] = [line |-> l, part |-> 1]
    BY DEF Body
  <1>2. \A l, m : Body(l) = Body(m) => l = m
    BY <1>1
  <1>3. End(q).id = q /\ Err(q).id = q /\ End(q) # Err(q) /\ \A i \in Nat : Row(q, i).id = q
    BY DEF End, Err, Row
  <1>4. \A i \in Nat : Row(q, i) # End(q) /\ Row(q, i) # Err(q)
    BY DEF End, Err, Row
  <1>5. \A l : ([line |-> l, part |-> 1] = [line |-> Err(q), part |-> 1] => l = Err(q))
    OBVIOUS
  <1>6. IsEnd(Body(End(q)))
    BY <1>1, <1>3 DEF IsEnd
  <1>7. ~IsEnd(Body(Err(q))) /\ IsErr(Body(Err(q)))
    BY <1>1, <1>2, <1>3 DEF IsEnd, IsErr
  <1>8. ASSUME NEW i \in Nat
        PROVE  ~IsEnd(Body(Row(q, i))) /\ ~IsErr(Body(Row(q, i)))
    BY <1>1, <1>2, <1>3, <1>4, <1>5 DEF IsEnd, IsErr
  <1> QED BY <1>6, <1>7, <1>8 DEF EndsAnswer

\* The first line that ends an answer.
LEMMA FirstEnd ==
  ASSUME NEW lines \in Seq(Seq(Unit)), NEW ends,
         ends = {i \in DOMAIN lines : EndsAnswer(lines[i])}, ends # {}
  PROVE  LET n == CHOOSE i \in ends : \A j \in ends : i <= j
         IN n \in ends /\ n \in 1..Len(lines) /\ \A j \in ends : n <= j
  <1>1. ends \subseteq 1..Len(lines) /\ ends \subseteq Nat
    OBVIOUS
  <1>2. \E i \in ends : \A j \in ends : i <= j
    BY <1>1, LeastNatural
  <1> QED BY <1>1, <1>2

\* What comes before the n-th line is taken for rows.
LEMMA BufferedType ==
  ASSUME rows \in Seq(Seq(Unit)), NEW lines \in Seq(Seq(Unit)), NEW n \in 1..(Len(lines) + 1)
  PROVE  /\ Buffered(lines, n) \in Seq(Seq(Unit))
         /\ rows = <<>> => Buffered(lines, n) = SubSeq(lines, 1, n - 1)
  <1>1. SubSeq(lines, 1, n - 1) \in Seq(Seq(Unit))
    <2>1. \A i \in 1..(n - 1) : lines[i] \in Seq(Unit)
      OBVIOUS
    <2>2. 1 \in Int /\ n - 1 \in Int
      OBVIOUS
    <2> QED BY <2>1, <2>2, SubSeqProperties
  <1> DEFINE pre == SubSeq(lines, 1, n - 1)
  <1> HIDE DEF pre
  <1>2. pre \in Seq(Seq(Unit))
    BY <1>1 DEF pre
  <1>3. rows \o pre \in Seq(Seq(Unit))
    BY <1>2
  <1>4. rows = <<>> => rows \o pre = pre
    BY <1>2, ConcatEmptySeq
  <1> QED BY <1>3, <1>4 DEF Buffered, pre

\* The answer to a pending query, in one message: it is shown, unless it is ERR.
LEMMA AnswerShown ==
  ASSUME NEW q \in Nat, NEW n \in RowCounts \cup {-1}, pending, rows = <<>>,
         OnLines(Lines(Answer(q, n)))
  PROVE  /\ pending' = FALSE /\ rows' = <<>>
         /\ n = -1 => shown' = shown
         /\ n # -1 => /\ n \in Nat
                      /\ shown' = [query |-> query, rows |-> [i \in 1..n |-> Body(Row(q, i))],
                                   crossed |-> crossed]
  <1> DEFINE lines == AnswerLines(q, n)
             got == Lines(Answer(q, n))
             ends == {i \in DOMAIN got : EndsAnswer(got[i])}
             least == CHOOSE i \in ends : \A j \in ends : i <= j
  <1>1. lines \in Seq(AnyLine) /\ TextOf(Answer(q, n), lines) /\ Answer(q, n) \in Seq(Unit)
    BY AnswerForm
  <1>2. got = [i \in 1..Len(lines) |-> Body(lines[i])]
    <2> HIDE DEF lines
    <2> QED BY <1>1, LinesText
  <1>3. got \in Seq(Seq(Unit)) /\ Len(got) = Len(lines) /\ DOMAIN got = 1..Len(lines)
    <2>1. got \in Seq(Seq(Unit))
      BY <1>1, LinesType
    <2> HIDE DEF lines, got
    <2> QED BY <1>1, <1>2, <2>1
  <1>4. CASE n = -1
    <2>1. lines = <<Err(q)>> /\ Len(lines) = 1 /\ lines[1] = Err(q)
      BY <1>4, AnswerForm
    <2>2. DOMAIN got = {1} /\ got[1] = Body(Err(q))
      BY <1>2, <2>1
    <2> HIDE DEF got
    <2>3. ends = {1}
      BY <2>2, LineEnds
    <2>4. least = 1
      BY <2>3
    <2>5. pending' = FALSE /\ rows' = <<>> /\ shown' = shown
      BY <2>2, <2>3, <2>4, LineEnds DEF OnLines, got
    <2> QED BY <1>4, <2>5
  <1>5. CASE n # -1
    <2>1. /\ n \in Nat /\ Len(lines) = n + 1 /\ lines[n + 1] = End(q)
          /\ \A i \in 1..n : lines[i] = Row(q, i)
      BY <1>5, AnswerForm
    <2> HIDE DEF lines
    <2>2. /\ DOMAIN got = 1..(n + 1) /\ got[n + 1] = Body(End(q))
          /\ \A i \in 1..n : got[i] = Body(Row(q, i))
      BY <1>2, <2>1
    <2>3. OnLines(got)
      OBVIOUS
    <2> HIDE DEF got
    <2>4. ends = {n + 1}
      <3>1. \A i \in 1..n : i \in Nat /\ ~EndsAnswer(got[i])
        BY <2>1, <2>2, LineEnds
      <3>2. EndsAnswer(got[n + 1])
        BY <2>2, LineEnds
      <3>3. \A i \in 1..(n + 1) : i \in 1..n \/ i = n + 1
        BY <2>1
      <3>4. n + 1 \in 1..(n + 1)
        BY <2>1
      <3> QED BY <2>2, <3>1, <3>2, <3>3, <3>4
    <2>5. least = n + 1
      <3> HIDE DEF ends
      <3>1. n + 1 <= n + 1
        BY <2>1
      <3> QED BY <2>4, <3>1
    <2>6. Buffered(got, n + 1) = [i \in 1..n |-> Body(Row(q, i))]
      <3>1. (n + 1) - 1 = n /\ rows \in Seq(Seq(Unit))
        BY <2>1
      <3>2. SubSeq(got, 1, n) = [i \in 1..n |-> got[i]]
        <4>1. SubSeq(got, 1, n) = [i \in 1..(n - 1 + 1) |-> got[i + 1 - 1]]
          BY <1>3, <2>1
        <4> QED BY <2>1, <4>1
      <3>3. n + 1 \in 1..(Len(got) + 1)
        BY <1>3, <2>1
      <3> QED BY <1>3, <2>1, <2>2, <3>1, <3>2, <3>3, BufferedType
    <2>7. IsEnd(got[n + 1])
      BY <2>2, LineEnds
    <2>8. /\ pending' = FALSE /\ rows' = <<>>
          /\ shown' = [query |-> query, rows |-> Buffered(got, n + 1), crossed |-> crossed]
      BY <2>3, <2>4, <2>5, <2>7 DEF OnLines
    <2> QED BY <1>5, <2>1, <2>6, <2>8
  <1> QED BY <1>4, <1>5
-----------------------------------------------------------------------------
(* Commands on their way *)

\* A line in the scanner is the next command, with nothing behind it.
LEMMA ScanForm ==
  ASSUME TypeInv, CommandInv, Contains(scan, newline)
  PROVE  LET c == sent[Len(handled) + 1]
             i == CHOOSE k \in DOMAIN scan : scan[k] = newline /\ \A j \in 1..(k - 1) : scan[j] # newline
         IN /\ Len(handled) < Len(sent) /\ c \in Command /\ c.id = Len(handled) + 1
            /\ scan = Bytes(c) /\ readBuf = <<>>
            /\ SubSeq(scan, 1, i - 1) = Body(c) /\ scan[1].line = c
            /\ SubSeq(scan, i + 1, Len(scan)) = <<>>
  <1> DEFINE c == sent[Len(handled) + 1]
             held == scan \o readBuf
             i == CHOOSE k \in DOMAIN scan : scan[k] = newline /\ \A j \in 1..(k - 1) : scan[j] # newline
  <1>1. scan \in Seq(Unit) /\ readBuf \in Seq(Unit) /\ sent \in Seq(Command) /\ Len(handled) \in Nat
    BY DEF TypeInv
  <1>2. /\ held \in Seq(Unit) /\ Len(held) = Len(scan) + Len(readBuf)
        /\ \A j \in 1..Len(scan) : held[j] = scan[j]
    <2>1. /\ scan \o readBuf \in Seq(Unit) /\ Len(scan \o readBuf) = Len(scan) + Len(readBuf)
          /\ \A j \in 1..(Len(scan) + Len(readBuf)) :
               (scan \o readBuf)[j] = IF j <= Len(scan) THEN scan[j] ELSE readBuf[j - Len(scan)]
      BY <1>1, ConcatProperties
    <2>2. \A j \in 1..Len(scan) : j \in 1..(Len(scan) + Len(readBuf)) /\ j <= Len(scan)
      BY <1>1
    <2> HIDE DEF held
    <2> QED BY <2>1, <2>2 DEF held
  <1>3. PICK m \in 1..Len(scan) : scan[m] = newline
    BY DEF Contains
  <1> HIDE DEF held
  <1>4. held # <<>>
    <2>1. Len(held) > 0
      BY <1>1, <1>2, <1>3
    <2> QED BY <2>1, EmptySeq
  <1>5. Len(handled) < Len(sent) /\ held = Bytes(c)
    BY <1>4 DEF CommandInv, held
  <1>6. c \in Command /\ c.id = Len(handled) + 1
    <2>1. \A j \in 1..Len(sent) : sent[j].id = j
      <3>1. \A j \in DOMAIN sent : sent[j].id = j
        BY DEF TypeInv
      <3> QED BY <1>1, <3>1
    <2>2. Len(handled) + 1 \in 1..Len(sent)
      BY <1>1, <1>5
    <2> QED BY <1>1, <2>1, <2>2
  <1>7. c \in AnyLine
    BY <1>6 DEF AnyLine
  <1> HIDE DEF c
  <1>8. /\ Len(held) = 3 /\ held[1] # newline /\ held[2] # newline
        /\ held[1] = [line |-> c, part |-> 1] /\ held[2] = [line |-> c, part |-> 2]
    BY <1>5, <1>7, LineUnits
  <1>9. m = 3 /\ Len(scan) = 3 /\ Len(readBuf) = 0
    <2> DEFINE a == Len(scan)
               b == Len(readBuf)
    <2>1. a \in Nat /\ b \in Nat /\ a + b = 3 /\ m \in 1..a
      <3>1. a \in Nat /\ b \in Nat /\ m \in 1..a
        BY <1>1
      <3>2. Len(held) = a + b
        BY <1>2
      <3> HIDE DEF a, b
      <3>3. a + b = 3
        BY <1>8, <3>2
      <3> QED BY <3>1, <3>3
    <2>2. held[m] = newline
      BY <1>2, <1>3
    <2> HIDE DEF a, b
    <2>3. m # 1 /\ m # 2
      BY <1>8, <2>2
    <2>4. m = 3 /\ a = 3 /\ b = 0
      BY <2>1, <2>3
    <2> QED BY <2>4 DEF a, b
  <1>10. readBuf = <<>>
    BY <1>1, <1>9
  <1>11. scan = held
    BY <1>1, <1>10, ConcatEmptySeq DEF held
  <1>12. i = 3
    <2>1. DOMAIN scan = 1..3
      BY <1>1, <1>9
    <2>2. \A k \in 1..3 : scan[k] = newline <=> k = 3
      BY <1>3, <1>8, <1>9, <1>11
    <2>3. \A k \in 1..3 : (scan[k] = newline /\ \A j \in 1..(k - 1) : scan[j] # newline) <=> k = 3
      BY <2>2
    <2> QED BY <2>1, <2>3
  <1> HIDE DEF i
  <1>13. SubSeq(scan, 1, 2) = Body(c)
    <2> DEFINE front == SubSeq(scan, 1, 2)
    <2>1. /\ front \in Seq(Unit) /\ Len(front) = IF 1 <= 2 THEN 2 - 1 + 1 ELSE 0
          /\ \A j \in 1..(2 - 1 + 1) : front[j] = scan[1 + j - 1]
      <3>1. \A j \in 1..2 : scan[j] \in Unit
        <4>1. \A j \in 1..Len(scan) : scan[j] \in Unit
          BY <1>1
        <4> QED BY <1>9, <4>1
      <3>2. 1 \in Int /\ 2 \in Int
        OBVIOUS
      <3> QED BY <3>1, <3>2, SubSeqProperties
    <2> HIDE DEF front
    <2>2. Len(front) = 2 /\ \A j \in 1..2 : front[j] = held[j]
      BY <1>11, <2>1
    <2>3. Body(c) \in Seq(Unit) /\ Len(Body(c)) = 2 /\ \A j \in 1..2 : Body(c)[j] = held[j]
      BY <1>7, <1>8, LineUnits
    <2> DEFINE body == Body(c)
    <2> HIDE DEF body
    <2>4. Len(front) = Len(body) /\ \A j \in 1..Len(front) : front[j] = body[j]
      BY <2>2, <2>3 DEF body
    <2>5. front \in Seq(Unit) /\ body \in Seq(Unit)
      BY <2>1, <2>3 DEF body
    <2>6. front = body
      BY <2>4, <2>5, SeqEqual
    <2> QED BY <2>6 DEF front, body
  <1>14. SubSeq(scan, 4, Len(scan)) = <<>>
    <2>1. Len(scan) \in Int /\ 4 \in Int /\ Len(scan) < 4
      BY <1>9
    <2> QED BY <2>1, SubSeqEmpty
  <1>15. scan[1].line = c
    BY <1>8, <1>11
  <1>16. i - 1 = 2 /\ i + 1 = 4
    BY <1>12
  <1>17. scan = Bytes(c)
    BY <1>5, <1>11
  <1> QED BY <1>5, <1>6, <1>10, <1>13, <1>14, <1>15, <1>16, <1>17 DEF c, i

\* What becomes of the command that is handled.
LEMMA ScanStep ==
  ASSUME TypeInv, CommandInv, ScanLine
  PROVE  LET c == sent[Len(handled) + 1]
         IN /\ Len(handled) < Len(sent) /\ c \in Command /\ c.id = Len(handled) + 1
            /\ scan = Bytes(c) /\ readBuf = <<>> /\ scan' = <<>>
            /\ handled' = Append(handled, Body(c))
            /\ IF c.kind = "QUERY"
               THEN \E n \in RowCounts \cup {-1} :
                      /\ reply' = Answer(c.id, n)
                      /\ answer' = [answer EXCEPT ![c.id] = n]
               ELSE reply' = Bytes(Ok(c.id)) /\ answer' = answer
            /\ UNCHANGED <<up, readBuf, conn, out, wire, writeLock, browser, sent, crossed, alerts, pings, hungup>>
  <1>1. Contains(scan, newline)
    BY DEF ScanLine
  <1> QED BY <1>1, ScanForm DEF ScanLine
-----------------------------------------------------------------------------
(* Types *)

\* Lines are lines, whoever sends them.
LEMMA LineTypes ==
  /\ Command \subseteq AnyLine
  /\ \A q \in Nat : Ok(q) \in AnyLine /\ Err(q) \in AnyLine /\ Alert(q) \in AnyLine
  /\ \A c \in AnyLine : Bytes(c) \in Seq(Unit) /\ Body(c) \in Seq(Unit)
  <1>1. Command \subseteq AnyLine
    BY DEF AnyLine
  <1>2. \A q \in Nat : Ok(q) \in AnyLine /\ Err(q) \in AnyLine /\ Alert(q) \in AnyLine
    BY DEF AnyLine, Ok, Err, Alert
  <1> QED BY <1>1, <1>2, LineUnits

\* A gateway that starts has its types.
LEMMA InitTypes == Init => TypeInv
  <1> SUFFICES ASSUME Init PROVE TypeInv
    OBVIOUS
  <1>1. \A S : <<>> \in Seq(S)
    OBVIOUS
  <1>2. Len(<<>>) = 0 /\ DOMAIN <<>> = {}
    OBVIOUS
  <1>3. MaxCommands \in Nat /\ MaxAlerts \in Nat /\ MaxPings \in Nat
    BY GatewayAssumption
  <1>4. /\ up \in Seq(Upward) /\ readBuf \in Seq(Unit) /\ scan \in Seq(Unit) /\ reply \in Seq(Unit)
        /\ wire \in Seq(Headers \cup Unit) /\ rows \in Seq(Seq(Unit)) /\ handled \in Seq(Seq(Unit))
    BY <1>1 DEF Init
  <1>5. sent \in Seq(Command) /\ Len(sent) <= MaxCommands /\ \A i \in DOMAIN sent : sent[i].id = i
    <2>1. sent = <<>>
      BY DEF Init
    <2> QED BY <1>1, <1>2, <1>3, <2>1
  <1>6. out \in [Writers -> {noFrame} \cup Handed]
    BY DEF Init
  <1>7. shown \in [query : 0..MaxCommands, rows : Seq(Seq(Unit)), crossed : BOOLEAN]
    <2>1. <<>> \in Seq(Seq(Unit)) /\ 0 \in 0..MaxCommands
      BY <1>1, <1>3
    <2> QED BY <2>1 DEF Init
  <1>8. answer \in [1..MaxCommands -> RowCounts \cup {-1, -2}]
    BY DEF Init
  <1>9. /\ conn \in {"open", "closed"} /\ pending \in BOOLEAN /\ query \in 0..MaxCommands
        /\ crossed \in BOOLEAN /\ alerts \in 0..MaxAlerts /\ pings \in 0..MaxPings
        /\ hungup \in BOOLEAN
    <2>1. 0 \in 0..MaxCommands /\ 0 \in 0..MaxAlerts /\ 0 \in 0..MaxPings
      BY <1>3
    <2>2. /\ conn = "open" /\ pending = FALSE /\ query = 0 /\ crossed = FALSE
          /\ alerts = 0 /\ pings = 0 /\ hungup = FALSE
      BY DEF Init
    <2> QED BY <2>1, <2>2
  <1> QED BY <1>4, <1>5, <1>6, <1>7, <1>8, <1>9 DEF TypeInv

\* A writer keeps the types.
LEMMA WriteFrameTypes ==
  ASSUME TypeInv, NEW t \in Writers, WriteFrame(t)
  PROVE  TypeInv'
  <1>1. CASE WriteHeader(t)
    <2>1. out[t] \in Handed
      BY <1>1 DEF TypeInv, WriteHeader, noFrame
    <2>2. Header(out[t].op, Len(out[t].data)) \in Headers \cup Unit
      <3>1. out[t].op \in {"text", "pong", "close"} /\ Len(out[t].data) \in Nat
        BY <2>1 DEF Handed
      <3> QED BY <3>1, HeaderForm
    <2>3. wire' \in Seq(Headers \cup Unit)
      BY <1>1, <2>2 DEF WriteHeader, TypeInv
    <2>4. [out[t] EXCEPT !.step = "payload"] \in Handed
      BY <2>1 DEF Handed
    <2>5. out' \in [Writers -> {noFrame} \cup Handed]
      BY <1>1, <2>4 DEF WriteHeader, TypeInv
    <2> QED BY <1>1, <2>3, <2>5 DEF WriteHeader, TypeInv, server, browser, hist
  <1>2. CASE WritePayload(t)
    <2>1. out[t] \in Handed
      BY <1>2 DEF TypeInv, WritePayload, noFrame
    <2>2. out[t].data \in Seq(Headers \cup Unit)
      <3>1. out[t].data \in Seq(Unit)
        BY <2>1 DEF Handed
      <3> QED BY <3>1, SeqMonotonic
    <2>3. wire' \in Seq(Headers \cup Unit)
      BY <1>2, <2>2 DEF WritePayload, TypeInv
    <2>4. out' \in [Writers -> {noFrame} \cup Handed] /\ conn' \in {"open", "closed"}
      BY <1>2 DEF WritePayload, TypeInv
    <2> QED BY <1>2, <2>3, <2>4 DEF WritePayload, TypeInv, browser, hist
  <1>3. CASE WriteFails(t)
    <2>1. out' \in [Writers -> {noFrame} \cup Handed]
      BY <1>3 DEF WriteFails, TypeInv
    <2> QED BY <1>3, <2>1 DEF WriteFails, TypeInv, server, browser, hist
  <1> QED BY <1>1, <1>2, <1>3 DEF WriteFrame

\* The scanner and the writer's buffer keep the types.
LEMMA ServeTypes ==
  ASSUME TypeInv, CommandInv, Serve
  PROVE  TypeInv'
  <1>1. CASE ReadFrame
    <2> DEFINE f == Head(up)
    <2>1. up \in Seq(Upward) /\ up # <<>>
      BY <1>1 DEF ReadFrame, TypeInv
    <2>2. f \in Upward /\ up' \in Seq(Upward)
      BY <1>1, <2>1, HeadTailProperties DEF ReadFrame
    <2>3. f.data \in Seq(Unit)
      BY <2>2 DEF Upward
    <2>4. Payload(f.data) \in Seq(Unit)
      BY <2>3, LineUnits DEF Payload
    <2>5. InHand("pong", f.data) \in Handed /\ InHand("close", <<>>) \in Handed
      <3>1. <<>> \in Seq(Unit)
        OBVIOUS
      <3> QED BY <2>3, <3>1 DEF InHand, Handed
    <2>6. /\ readBuf' = Payload(f.data) \/ readBuf' = readBuf
          /\ \/ out' = out
             \/ out' = [out EXCEPT !["conn"] = InHand("pong", f.data)]
             \/ out' = [out EXCEPT !["conn"] = InHand("close", <<>>)]
          /\ conn' = conn \/ conn' = "closed"
          /\ UNCHANGED <<scan, reply, writeLock, wire, browser, hist>>
      BY <1>1 DEF ReadFrame
    <2> HIDE DEF f
    <2>7. readBuf' \in Seq(Unit) /\ conn' \in {"open", "closed"}
      BY <2>4, <2>6 DEF TypeInv
    <2>8. out' \in [Writers -> {noFrame} \cup Handed]
      BY <2>5, <2>6 DEF TypeInv
    <2> QED BY <2>2, <2>6, <2>7, <2>8 DEF TypeInv, browser, hist
  <1>2. CASE ReadRest
    <2> DEFINE n == IF Len(readBuf) < ReadSize THEN Len(readBuf) ELSE ReadSize
    <2>1. readBuf \in Seq(Unit) /\ scan \in Seq(Unit) /\ Len(readBuf) \in Nat
      BY DEF TypeInv
    <2>2. n \in Nat /\ n <= Len(readBuf) /\ n + 1 \in Nat \ {0}
      BY <2>1, GatewayAssumption
    <2>3. scan' = scan \o SubSeq(readBuf, 1, n) /\ readBuf' = SubSeq(readBuf, n + 1, Len(readBuf))
      BY <1>2 DEF ReadRest
    <2> HIDE DEF n
    <2>4. SubSeq(readBuf, 1, n) \in Seq(Unit) /\ SubSeq(readBuf, n + 1, Len(readBuf)) \in Seq(Unit)
      BY <2>1, <2>2, PartType
    <2>5. scan' \in Seq(Unit) /\ readBuf' \in Seq(Unit)
      BY <2>1, <2>3, <2>4
    <2> QED BY <1>2, <2>5 DEF ReadRest, TypeInv, browser, hist
  <1>3. CASE ScanLine
    <2> DEFINE c == sent[Len(handled) + 1]
    <2>1. /\ Len(handled) < Len(sent) /\ c \in Command /\ c.id = Len(handled) + 1
          /\ scan = Bytes(c) /\ readBuf = <<>> /\ scan' = <<>>
          /\ handled' = Append(handled, Body(c))
          /\ IF c.kind = "QUERY"
             THEN \E n \in RowCounts \cup {-1} :
                    /\ reply' = Answer(c.id, n)
                    /\ answer' = [answer EXCEPT ![c.id] = n]
             ELSE reply' = Bytes(Ok(c.id)) /\ answer' = answer
          /\ UNCHANGED <<up, readBuf, conn, out, wire, writeLock, browser, sent, crossed, alerts, pings, hungup>>
      BY <1>3, ScanStep
    <2> HIDE DEF c
    <2>2. c.id \in Nat /\ Body(c) \in Seq(Unit)
      <3>1. c.id \in Nat
        BY <2>1 DEF Command
      <3>2. c \in AnyLine
        BY <2>1, LineTypes
      <3> QED BY <3>1, <3>2, LineTypes
    <2>3. handled' \in Seq(Seq(Unit))
      BY <2>1, <2>2 DEF TypeInv
    <2>4. scan' \in Seq(Unit)
      BY <2>1
    <2>5. reply' \in Seq(Unit) /\ answer' \in [1..MaxCommands -> RowCounts \cup {-1, -2}]
      <3>1. CASE c.kind = "QUERY"
        <4>1. PICK n \in RowCounts \cup {-1} :
                reply' = Answer(c.id, n) /\ answer' = [answer EXCEPT ![c.id] = n]
          BY <2>1, <3>1
        <4>2. reply' \in Seq(Unit)
          BY <2>2, <4>1, AnswerForm
        <4>3. answer' \in [1..MaxCommands -> RowCounts \cup {-1, -2}]
          BY <4>1 DEF TypeInv
        <4> QED BY <4>2, <4>3
      <3>2. CASE c.kind # "QUERY"
        <4>1. Bytes(Ok(c.id)) \in Seq(Unit)
          BY <2>2, LineTypes
        <4> QED BY <2>1, <3>2, <4>1 DEF TypeInv
      <3> QED BY <3>1, <3>2
    <2> QED BY <2>1, <2>3, <2>4, <2>5 DEF TypeInv, browser
  <1>4. CASE FlushReply
    <2> DEFINE n == IF Len(reply) < BufSize THEN Len(reply) ELSE BufSize
    <2>1. reply \in Seq(Unit) /\ Len(reply) \in Nat
      BY DEF TypeInv
    <2>2. n \in Nat /\ n <= Len(reply) /\ n + 1 \in Nat \ {0}
      BY <2>1, GatewayAssumption
    <2>3. /\ out' = [out EXCEPT !["conn"] = InHand("text", SubSeq(reply, 1, n))]
          /\ reply' = SubSeq(reply, n + 1, Len(reply))
      BY <1>4 DEF FlushReply
    <2> HIDE DEF n
    <2>4. SubSeq(reply, 1, n) \in Seq(Unit) /\ SubSeq(reply, n + 1, Len(reply)) \in Seq(Unit)
      BY <2>1, <2>2, PartType
    <2>5. InHand("text", SubSeq(reply, 1, n)) \in Handed
      BY <2>4 DEF InHand, Handed
    <2>6. out' \in [Writers -> {noFrame} \cup Handed] /\ reply' \in Seq(Unit)
      BY <2>3, <2>4, <2>5 DEF TypeInv
    <2> QED BY <1>4, <2>6 DEF FlushReply, TypeInv, browser, hist
  <1> QED BY <1>1, <1>2, <1>3, <1>4 DEF Serve

\* The message at the head of the wire.
LEMMA MessageForm ==
  ASSUME TypeInv, FrameInv, handleServerMessage
  PROVE  LET h == Head(wire)
             n == Length(h)
             lines == IF h.op = "text" THEN Lines(SubSeq(wire, 2, n + 1)) ELSE <<>>
         IN /\ wire \in Seq(Headers \cup Unit) /\ wire # <<>> /\ h = wire[1]
            /\ h \in Headers /\ n \in Nat /\ n < Len(wire)
            /\ SubSeq(wire, 2, n + 1) \in Seq(Unit)
            /\ wire' = SubSeq(wire, n + 2, Len(wire)) /\ wire' \in Seq(Headers \cup Unit)
            /\ lines \in Seq(Seq(Unit)) /\ OnLines(lines)
  <1> DEFINE h == Head(wire)
             n == Length(h)
             part == SubSeq(wire, 2, n + 1)
             lines == IF h.op = "text" THEN Lines(part) ELSE <<>>
  <1>1. wire \in Seq(Headers \cup Unit) /\ wire # <<>> /\ n < Len(wire) /\ OnLines(lines)
    BY DEF handleServerMessage, TypeInv
  <1>2. h = wire[1] /\ 1 \in DOMAIN wire /\ h \in Headers \cup Unit
    BY <1>1
  <1>3. h \in Headers /\ n \in Nat
    <2>1. IsHeader(h)
      BY <1>1, <1>2 DEF FrameInv, WireFramed
    <2> HIDE DEF h
    <2> QED BY <1>2, <2>1, HeaderForm
  <1>4. wire' = SubSeq(wire, n + 2, Len(wire))
    BY DEF handleServerMessage
  <1> HIDE DEF h, n
  <1>5. wire' \in Seq(Headers \cup Unit)
    <2>1. n + 2 \in Nat \ {0} /\ Len(wire) \in Nat
      BY <1>1, <1>3
    <2> QED BY <1>1, <1>4, <2>1, PartType
  <1>6. part \in Seq(Unit)
    <2>1. \A j \in 2..(n + 1) : wire[j] \in Unit
      <3> TAKE j \in 2..(n + 1)
      <3>1. j \in DOMAIN wire /\ wire[j] \in Headers \cup Unit
        BY <1>1, <1>3
      <3>2. IsHeader(wire[1]) /\ 1 + Length(wire[1]) = n + 1
        BY <1>2, <1>3, HeaderForm DEF n
      <3>3. ~IsHeader(wire[j])
        BY <1>2, <3>1, <3>2 DEF FrameInv, WireFramed
      <3> QED BY <3>1, <3>3, HeaderForm
    <2>2. 2 \in Int /\ n + 1 \in Int
      BY <1>3
    <2> QED BY <2>1, <2>2, SubSeqProperties
  <1> HIDE DEF part
  <1>7. lines \in Seq(Seq(Unit))
    <2>1. <<>> \in Seq(Seq(Unit))
      OBVIOUS
    <2> QED BY <1>6, <2>1, LinesType
  <1> QED BY <1>1, <1>2, <1>3, <1>4, <1>5, <1>6, <1>7 DEF h, n, part

\* Whatever the lines of a message are, the browser keeps its types.
LEMMA OnLinesTypes ==
  ASSUME TypeInv, NEW lines \in Seq(Seq(Unit)), OnLines(lines)
  PROVE  /\ pending' \in BOOLEAN /\ rows' \in Seq(Seq(Unit))
         /\ shown' \in [query : 0..MaxCommands, rows : Seq(Seq(Unit)), crossed : BOOLEAN]
         /\ \/ pending' = pending /\ shown' = shown
            \/ /\ pending /\ ~pending'
               /\ \/ shown' = shown
                  \/ shown'.query = query /\ shown'.crossed = crossed
         /\ lines = <<>> => UNCHANGED <<pending, rows, shown>>
  <1> DEFINE ends == {i \in DOMAIN lines : EndsAnswer(lines[i])}
             n    == IF ends = {} THEN Len(lines) + 1 ELSE CHOOSE i \in ends : \A j \in ends : i <= j
  <1>1. /\ pending \in BOOLEAN /\ rows \in Seq(Seq(Unit)) /\ query \in 0..MaxCommands
        /\ crossed \in BOOLEAN
        /\ shown \in [query : 0..MaxCommands, rows : Seq(Seq(Unit)), crossed : BOOLEAN]
    BY DEF TypeInv
  <1>2. n \in 1..(Len(lines) + 1)
    <2>1. CASE ends = {}
      BY <2>1
    <2>2. CASE ends # {}
      <3> DEFINE least == CHOOSE i \in ends : \A j \in ends : i <= j
      <3>1. least \in 1..Len(lines)
        BY <2>2, FirstEnd
      <3>2. n = least
        BY <2>2
      <3> HIDE DEF least, n
      <3>3. Len(lines) \in Nat
        OBVIOUS
      <3> QED BY <3>1, <3>2, <3>3
    <2> QED BY <2>1, <2>2
  <1>3. \/ ~pending /\ UNCHANGED <<pending, rows, shown>>
        \/ pending /\ ends = {} /\ rows' = Buffered(lines, n) /\ UNCHANGED <<pending, shown>>
        \/ /\ pending /\ ends # {} /\ pending' = FALSE /\ rows' = <<>>
           /\ shown' = IF IsEnd(lines[n])
                       THEN [query |-> query, rows |-> Buffered(lines, n), crossed |-> crossed]
                       ELSE shown
    BY DEF OnLines
  <1>4. lines = <<>> => ends = {} /\ n = 1
    OBVIOUS
  <1> HIDE DEF ends, n
  <1>5. Buffered(lines, n) \in Seq(Seq(Unit))
    BY <1>1, <1>2, BufferedType
  <1>6. ASSUME lines = <<>>
        PROVE  Buffered(lines, n) = rows
    <2>1. n - 1 = 0 /\ SubSeq(lines, 1, 0) = <<>>
      BY <1>4, <1>6, SubSeqEmpty
    <2>2. rows \o <<>> = rows
      BY <1>1, ConcatEmptySeq
    <2> QED BY <2>1, <2>2 DEF Buffered
  <1>7. <<>> \in Seq(Seq(Unit))
    OBVIOUS
  <1>8. CASE ~pending /\ UNCHANGED <<pending, rows, shown>>
    BY <1>1, <1>8
  <1>9. CASE pending /\ ends = {} /\ rows' = Buffered(lines, n) /\ UNCHANGED <<pending, shown>>
    BY <1>1, <1>5, <1>6, <1>9
  <1>10. CASE /\ pending /\ ends # {} /\ pending' = FALSE /\ rows' = <<>>
              /\ shown' = IF IsEnd(lines[n])
                          THEN [query |-> query, rows |-> Buffered(lines, n), crossed |-> crossed]
                          ELSE shown
    <2>1. lines # <<>>
      BY <1>4, <1>10
    <2>2. shown' \in [query : 0..MaxCommands, rows : Seq(Seq(Unit)), crossed : BOOLEAN]
      BY <1>1, <1>5, <1>10
    <2>3. \/ shown' = shown
          \/ shown'.query = query /\ shown'.crossed = crossed
      BY <1>10
    <2> QED BY <1>7, <1>10, <2>1, <2>2, <2>3
  <1> QED BY <1>3, <1>8, <1>9, <1>10

\* The browser and the alerts keep the types.
LEMMA BrowserTypes ==
  ASSUME TypeInv, FrameInv,
         SendQuery \/ SendWrite \/ SendOther("ping") \/ SendOther("oversized") \/ disconnectServer
           \/ handleServerMessage \/ BroadcastAlert
  PROVE  TypeInv'
  <1>1. /\ up \in Seq(Upward) /\ sent \in Seq(Command) /\ Len(sent) \in Nat
        /\ MaxCommands \in Nat /\ MaxAlerts \in Nat /\ MaxPings \in Nat
    BY GatewayAssumption DEF TypeInv
  <1>2. \A op \in {"ping", "oversized", "close"} : [op |-> op, data |-> <<>>] \in Upward
    <2>1. <<>> \in Seq(Unit)
      OBVIOUS
    <2> QED BY <2>1 DEF Upward
  <1>3. ASSUME NEW kind \in {"QUERY", "WRITE"}, SendCommand([kind |-> kind, id |-> Len(sent) + 1])
        PROVE  /\ up' \in Seq(Upward) /\ sent' \in Seq(Command) /\ Len(sent') <= MaxCommands
               /\ \A i \in DOMAIN sent' : sent'[i].id = i
    <2> DEFINE c == [kind |-> kind, id |-> Len(sent) + 1]
    <2>1. c \in Command /\ c.id = Len(sent) + 1
      BY <1>1, <1>3 DEF SendCommand, Command
    <2>2. sent' = Append(sent, c) /\ Len(sent) < MaxCommands
      BY <1>3 DEF SendCommand
    <2>3. PICK data \in {Body(c), Bytes(c)} : up' = Append(up, [op |-> "text", data |-> data])
      BY <1>3 DEF SendCommand
    <2>4. [op |-> "text", data |-> data] \in Upward
      <3>1. data \in Seq(Unit)
        BY <2>1, LineTypes
      <3> QED BY <3>1 DEF Upward
    <2> HIDE DEF c
    <2>5. /\ sent' \in Seq(Command) /\ Len(sent') = Len(sent) + 1 /\ sent'[Len(sent) + 1] = c
          /\ \A i \in 1..Len(sent) : sent'[i] = sent[i]
      BY <1>1, <2>1, <2>2, AppendProperties
    <2>6. \A i \in 1..Len(sent) : sent[i].id = i
      BY DEF TypeInv
    <2>7. \A i \in 1..Len(sent') : sent'[i].id = i
      BY <1>1, <2>1, <2>5, <2>6
    <2>8. DOMAIN sent' = 1..Len(sent')
      BY <2>5
    <2> QED BY <1>1, <2>2, <2>3, <2>4, <2>5, <2>7, <2>8
  <1>4. CASE SendQuery
    <2>1. /\ SendCommand([kind |-> "QUERY", id |-> Len(sent) + 1])
          /\ pending' = TRUE /\ rows' = <<>> /\ query' = Len(sent) + 1
          /\ crossed' = (pending \/ ~Quiet)
      BY <1>4 DEF SendQuery
    <2>2. /\ UNCHANGED <<server, out, writeLock, wire, shown, handled, answer, alerts, pings, hungup>>
          /\ Len(sent) < MaxCommands
      BY <2>1 DEF SendCommand
    <2>3. query' \in 0..MaxCommands /\ crossed' \in BOOLEAN /\ rows' \in Seq(Seq(Unit))
      BY <1>1, <2>1, <2>2
    <2>4. /\ up' \in Seq(Upward) /\ sent' \in Seq(Command) /\ Len(sent') <= MaxCommands
          /\ \A i \in DOMAIN sent' : sent'[i].id = i
      BY <1>3, <2>1
    <2> QED BY <2>1, <2>2, <2>3, <2>4 DEF TypeInv, server
  <1>5. CASE SendWrite
    <2>1. /\ SendCommand([kind |-> "WRITE", id |-> Len(sent) + 1])
          /\ crossed' = TRUE /\ UNCHANGED <<pending, rows, query>>
      BY <1>5 DEF SendWrite
    <2>2. UNCHANGED <<server, out, writeLock, wire, shown, handled, answer, alerts, pings, hungup>>
      BY <2>1 DEF SendCommand
    <2>3. /\ up' \in Seq(Upward) /\ sent' \in Seq(Command) /\ Len(sent') <= MaxCommands
          /\ \A i \in DOMAIN sent' : sent'[i].id = i
      BY <1>3, <2>1
    <2> QED BY <2>1, <2>2, <2>3 DEF TypeInv, server
  <1>6. ASSUME NEW op \in {"ping", "oversized"}, SendOther(op)
        PROVE  TypeInv'
    <2>1. pings' \in 0..MaxPings
      BY <1>1, <1>6 DEF SendOther, TypeInv
    <2>2. up' \in Seq(Upward)
      BY <1>1, <1>2, <1>6 DEF SendOther
    <2> QED BY <1>6, <2>1, <2>2 DEF SendOther, TypeInv, server, browser
  <1>7. CASE disconnectServer
    <2>1. up' \in Seq(Upward) /\ hungup' \in BOOLEAN
      BY <1>1, <1>2, <1>7 DEF disconnectServer
    <2> QED BY <1>7, <2>1 DEF disconnectServer, TypeInv, server, browser
  <1>8. CASE handleServerMessage
    <2>1. PICK lines \in Seq(Seq(Unit)) : OnLines(lines)
      BY <1>8, MessageForm
    <2>2. /\ pending' \in BOOLEAN /\ rows' \in Seq(Seq(Unit))
          /\ shown' \in [query : 0..MaxCommands, rows : Seq(Seq(Unit)), crossed : BOOLEAN]
      BY <2>1, OnLinesTypes
    <2>3. wire' \in Seq(Headers \cup Unit)
      BY <1>8, MessageForm
    <2>4. UNCHANGED <<up, server, out, writeLock, query, hist>>
      BY <1>8 DEF handleServerMessage
    <2> QED BY <2>2, <2>3, <2>4 DEF TypeInv, server, hist
  <1>9. CASE BroadcastAlert
    <2>1. alerts + 1 \in Nat /\ alerts' \in 0..MaxAlerts /\ crossed' \in BOOLEAN
      <3>1. alerts < MaxAlerts /\ alerts' = alerts + 1 /\ crossed' \in BOOLEAN
        BY <1>9 DEF BroadcastAlert
      <3>2. alerts \in 0..MaxAlerts
        BY DEF TypeInv
      <3> QED BY <3>1, <3>2, GatewayAssumption
    <2>2. InHand("text", Bytes(Alert(alerts + 1))) \in Handed
      <3>1. Bytes(Alert(alerts + 1)) \in Seq(Unit)
        BY <2>1, LineTypes
      <3> QED BY <3>1 DEF InHand, Handed
    <2>3. out' \in [Writers -> {noFrame} \cup Handed]
      BY <1>9, <2>2 DEF BroadcastAlert, TypeInv
    <2> QED BY <1>9, <2>1, <2>3 DEF BroadcastAlert, TypeInv, server, browser
  <1> QED BY <1>4, <1>5, <1>6, <1>7, <1>8, <1>9

\* Every step keeps the types.
LEMMA NextTypes ==
  ASSUME TypeInv, FrameInv, CommandInv, [Next]_vars
  PROVE  TypeInv'
  <1>1. CASE UNCHANGED vars
    BY <1>1 DEF vars, server, browser, hist, TypeInv
  <1>2. CASE Next
    <2>1. CASE Serve
      BY <2>1, ServeTypes
    <2>2. CASE \E t \in Writers : WriteFrame(t)
      BY <2>2, WriteFrameTypes
    <2> QED BY <1>2, <2>1, <2>2, BrowserTypes DEF Next
  <1> QED BY <1>1, <1>2
-----------------------------------------------------------------------------
(* Frames *)

\* What a step does to the frames in hand, to the lock and to the wire.
LEMMA FrameMoves ==
  ASSUME TypeInv, [Next]_vars
  PROVE  \/ UNCHANGED <<out, writeLock, wire>>
         \/ handleServerMessage /\ UNCHANGED <<out, writeLock>>
         \/ \E t \in Writers, f \in Handed :
              /\ out[t].step = "none" /\ f.step = "lock" /\ out' = [out EXCEPT ![t] = f]
              /\ UNCHANGED <<writeLock, wire>>
         \/ \E t \in Writers : WriteFrame(t)
  <1>1. noFrame.step = "none" /\ {"conn", "alert"} \subseteq Writers
    BY DEF noFrame, Writers
  <1>2. \A op \in {"text", "pong", "close"}, data \in Seq(Unit) :
          InHand(op, data) \in Handed /\ InHand(op, data).step = "lock"
    BY DEF InHand, Handed
  <1>3. CASE BroadcastAlert
    <2>1. alerts + 1 \in Nat
      BY GatewayAssumption DEF TypeInv
    <2>2. Bytes(Alert(alerts + 1)) \in Seq(Unit)
      BY <2>1, LineTypes
    <2> DEFINE f == InHand("text", Bytes(Alert(alerts + 1)))
    <2>3. f \in Handed /\ f.step = "lock"
      BY <1>2, <2>2
    <2>4. out["alert"] = noFrame /\ out' = [out EXCEPT !["alert"] = f] /\ UNCHANGED <<writeLock, wire>>
      BY <1>3 DEF BroadcastAlert
    <2> HIDE DEF f
    <2> QED BY <1>1, <2>3, <2>4
  <1>4. CASE Serve
    <2>1. CASE ReadFrame
      <3> DEFINE f == Head(up)
      <3>1. f.data \in Seq(Unit)
        <4>1. f \in Upward
          BY <2>1 DEF ReadFrame, TypeInv
        <4> QED BY <4>1 DEF Upward
      <3>2. /\ \/ out' = out
               \/ out' = [out EXCEPT !["conn"] = InHand("pong", f.data)]
               \/ out' = [out EXCEPT !["conn"] = InHand("close", <<>>)]
            /\ out["conn"] = noFrame /\ UNCHANGED <<writeLock, wire>>
        BY <2>1 DEF ReadFrame, NeedsData, Reading
      <3>3. <<>> \in Seq(Unit)
        OBVIOUS
      <3> HIDE DEF f
      <3>4. /\ InHand("pong", f.data) \in Handed /\ InHand("pong", f.data).step = "lock"
            /\ InHand("close", <<>>) \in Handed /\ InHand("close", <<>>).step = "lock"
        BY <1>2, <3>1, <3>3
      <3> QED BY <1>1, <3>2, <3>4
    <2>2. CASE ReadRest \/ ScanLine
      BY <2>2 DEF ReadRest, ScanLine
    <2>3. CASE FlushReply
      <3> DEFINE n == IF Len(reply) < BufSize THEN Len(reply) ELSE BufSize
                 f == InHand("text", SubSeq(reply, 1, n))
      <3>1. reply \in Seq(Unit) /\ n \in Nat /\ n <= Len(reply)
        BY GatewayAssumption DEF TypeInv
      <3>2. out' = [out EXCEPT !["conn"] = f] /\ out["conn"] = noFrame /\ UNCHANGED <<writeLock, wire>>
        BY <2>3 DEF FlushReply
      <3> HIDE DEF n
      <3>3. SubSeq(reply, 1, n) \in Seq(Unit)
        BY <3>1, PartType
      <3>4. f \in Handed /\ f.step = "lock"
        BY <1>2, <3>3
      <3> HIDE DEF f
      <3> QED BY <1>1, <3>2, <3>4
    <2> QED BY <1>4, <2>1, <2>2, <2>3 DEF Serve
  <1>5. CASE SendQuery \/ SendWrite \/ SendOther("ping") \/ SendOther("oversized") \/ disconnectServer
    BY <1>5 DEF SendQuery, SendWrite, SendCommand, SendOther, disconnectServer
  <1>6. CASE handleServerMessage
    BY <1>6 DEF handleServerMessage
  <1>7. CASE UNCHANGED vars
    BY <1>7 DEF vars
  <1> QED BY <1>3, <1>4, <1>5, <1>6, <1>7 DEF Next

\* The lock is held by the one that has written a header and not its payload yet.
LEMMA LockStep ==
  ASSUME TypeInv, LockInv, [Next]_vars
  PROVE  LockInv'
  <1>1. out \in [Writers -> {noFrame} \cup Handed] /\ noFrame.step = "none"
    BY DEF TypeInv, noFrame
  <1>2. CASE UNCHANGED <<out, writeLock>>
    BY <1>2 DEF LockInv
  <1>3. CASE \E t \in Writers, f \in Handed :
               /\ out[t].step = "none" /\ f.step = "lock" /\ out' = [out EXCEPT ![t] = f]
               /\ UNCHANGED <<writeLock, wire>>
    <2>1. PICK t \in Writers, f \in Handed :
            /\ out[t].step = "none" /\ f.step = "lock" /\ out' = [out EXCEPT ![t] = f]
            /\ UNCHANGED <<writeLock, wire>>
      BY <1>3
    <2>2. \A u \in Writers : out'[u].step = "payload" <=> out[u].step = "payload"
      BY <1>1, <2>1
    <2> QED BY <2>1, <2>2 DEF LockInv
  <1>4. ASSUME NEW t \in Writers, WriteHeader(t)
        PROVE  LockInv'
    <2>1. out[t] \in Handed
      BY <1>1, <1>4 DEF WriteHeader
    <2>2. out'[t].step = "payload" /\ \A u \in Writers \ {t} : out'[u] = out[u]
      BY <1>1, <1>4, <2>1 DEF WriteHeader, Handed
    <2>3. writeLock = {} /\ writeLock' = {t}
      BY <1>4 DEF WriteHeader
    <2>4. \A u \in Writers : out[u].step # "payload"
      BY <2>3 DEF LockInv
    <2> QED BY <2>2, <2>3, <2>4 DEF LockInv
  <1>5. ASSUME NEW t \in Writers, WritePayload(t)
        PROVE  LockInv'
    <2>1. out'[t].step = "none" /\ \A u \in Writers \ {t} : out'[u] = out[u]
      BY <1>1, <1>5 DEF WritePayload
    <2>2. writeLock' = writeLock \ {t}
      BY <1>5 DEF WritePayload
    <2> QED BY <2>1, <2>2 DEF LockInv
  <1>6. ASSUME NEW t \in Writers, WriteFails(t)
        PROVE  LockInv'
    <2>1. /\ out[t].step = "lock" /\ out'[t].step = "none" /\ writeLock' = writeLock
          /\ \A u \in Writers \ {t} : out'[u] = out[u]
      BY <1>1, <1>6 DEF WriteFails
    <2>2. \A u \in Writers : out'[u].step = "payload" <=> out[u].step = "payload"
      BY <2>1
    <2> QED BY <2>1, <2>2 DEF LockInv
  <1> QED BY <1>2, <1>3, <1>4, <1>5, <1>6, FrameMoves DEF WriteFrame

\* WireFramed, of any sequence; one that is busy may owe a payload.
Framed(w, busy) ==
  /\ w # <<>> => IsHeader(w[1])
  /\ \A i \in 1..Len(w) : IsHeader(w[i]) =>
       /\ i + Length(w[i]) > Len(w) => i = Len(w) /\ busy
       /\ \A j \in (i + 1)..(i + Length(w[i])) : j \in 1..Len(w) => ~IsHeader(w[j])
       /\ i + Length(w[i]) + 1 \in 1..Len(w) => IsHeader(w[i + Length(w[i]) + 1])

\* A header is appended when no payload is owed.
LEMMA FramedHeader ==
  ASSUME NEW w \in Seq(Headers \cup Unit), NEW h \in Headers, Framed(w, FALSE)
  PROVE  Framed(Append(w, h), TRUE)
  <1> DEFINE v == Append(w, h)
             n == Len(w)
  <1>1. /\ n \in Nat /\ v \in Seq(Headers \cup Unit) /\ Len(v) = n + 1 /\ v[n + 1] = h
        /\ \A i \in 1..n : v[i] = w[i]
    BY AppendProperties
  <1>2. IsHeader(h) /\ Length(h) \in Nat
    BY HeaderForm
  <1>3. \A i \in 1..n : IsHeader(w[i]) =>
          /\ Length(w[i]) \in Nat
          /\ i + Length(w[i]) <= n
          /\ \A j \in (i + 1)..(i + Length(w[i])) : ~IsHeader(w[j])
          /\ i + Length(w[i]) + 1 \in 1..n => IsHeader(w[i + Length(w[i]) + 1])
    <2> TAKE i \in 1..n
    <2> HAVE IsHeader(w[i])
    <2>1. Length(w[i]) \in Nat
      <3>1. w[i] \in Headers \cup Unit
        OBVIOUS
      <3> QED BY <3>1, HeaderForm
    <2>2. /\ ~(i + Length(w[i]) > n)
          /\ \A j \in (i + 1)..(i + Length(w[i])) : j \in 1..n => ~IsHeader(w[j])
          /\ i + Length(w[i]) + 1 \in 1..n => IsHeader(w[i + Length(w[i]) + 1])
      BY DEF Framed
    <2> HIDE DEF n
    <2>3. \A j \in (i + 1)..(i + Length(w[i])) : j \in 1..n
      BY <1>1, <2>1, <2>2
    <2> QED BY <1>1, <2>1, <2>2, <2>3
  <1>4. n = 0 \/ IsHeader(w[1])
    BY EmptySeq DEF Framed
  <1> HIDE DEF v, n
  <1>5. IsHeader(v[1])
    BY <1>1, <1>2, <1>4
  <1>6. ASSUME NEW i \in 1..Len(v), IsHeader(v[i])
        PROVE  /\ i + Length(v[i]) > Len(v) => i = Len(v)
               /\ \A j \in (i + 1)..(i + Length(v[i])) : j \in 1..Len(v) => ~IsHeader(v[j])
               /\ i + Length(v[i]) + 1 \in 1..Len(v) => IsHeader(v[i + Length(v[i]) + 1])
    <2>1. CASE i \in 1..n
      <3> DEFINE l == Length(w[i])
      <3>1. v[i] = w[i] /\ IsHeader(w[i]) /\ l \in Nat /\ i + l <= n
        BY <1>1, <1>3, <1>6, <2>1
      <3>2. \A j \in (i + 1)..(i + l) : ~IsHeader(v[j])
        <4> TAKE j \in (i + 1)..(i + l)
        <4>1. j \in 1..n
          BY <1>1, <2>1, <3>1
        <4> QED BY <1>1, <1>3, <2>1, <3>1, <4>1
      <3>3. IsHeader(v[i + l + 1])
        <4>1. i + l + 1 \in 1..n \/ i + l + 1 = n + 1
          BY <1>1, <2>1, <3>1
        <4> QED BY <1>1, <1>2, <1>3, <2>1, <3>1, <4>1
      <3> HIDE DEF l
      <3> QED BY <1>1, <2>1, <3>1, <3>2, <3>3 DEF l
    <2>2. CASE i = n + 1
      BY <1>1, <1>2, <2>2
    <2> QED BY <1>1, <2>1, <2>2
  <1> QED BY <1>5, <1>6 DEF Framed, v

\* The payload that is owed comes.
LEMMA FramedPayload ==
  ASSUME NEW w \in Seq(Headers \cup Unit), NEW data \in Seq(Unit), NEW busy, Framed(w, busy),
         w # <<>>, IsHeader(w[Len(w)]), Length(w[Len(w)]) = Len(data)
  PROVE  Framed(w \o data, FALSE)
  <1> DEFINE v == w \o data
             n == Len(w)
             d == Len(data)
  <1>1. /\ n \in Nat /\ d \in Nat /\ Len(v) = n + d
        /\ \A i \in 1..(n + d) : v[i] = IF i <= n THEN w[i] ELSE data[i - n]
    BY ConcatProperties
  <1>2. \A i \in 1..d : ~IsHeader(data[i])
    <2>1. \A i \in 1..d : data[i] \in Unit
      OBVIOUS
    <2> QED BY <2>1, HeaderForm
  <1>3. n > 0 /\ IsHeader(w[1]) /\ IsHeader(w[n]) /\ Length(w[n]) = d
    BY EmptySeq DEF Framed
  <1>4. \A i \in 1..n : IsHeader(w[i]) =>
          /\ Length(w[i]) \in Nat
          /\ i + Length(w[i]) > n => i = n
          /\ \A j \in (i + 1)..(i + Length(w[i])) : j \in 1..n => ~IsHeader(w[j])
          /\ i + Length(w[i]) + 1 \in 1..n => IsHeader(w[i + Length(w[i]) + 1])
    <2> TAKE i \in 1..n
    <2> HAVE IsHeader(w[i])
    <2>1. Length(w[i]) \in Nat
      <3>1. w[i] \in Headers \cup Unit
        OBVIOUS
      <3> QED BY <3>1, HeaderForm
    <2> QED BY <1>1, <2>1 DEF Framed
  <1> HIDE DEF v, n, d
  <1>5. \A i \in (n + 1)..(n + d) : ~IsHeader(v[i])
    <2> TAKE i \in (n + 1)..(n + d)
    <2>1. i \in 1..(n + d) /\ ~(i <= n) /\ i - n \in 1..d
      BY <1>1
    <2> QED BY <1>1, <1>2, <2>1
  <1>6. IsHeader(v[1])
    BY <1>1, <1>3
  <1>7. ASSUME NEW i \in 1..Len(v), IsHeader(v[i])
        PROVE  /\ ~(i + Length(v[i]) > Len(v))
               /\ \A j \in (i + 1)..(i + Length(v[i])) : ~IsHeader(v[j])
               /\ i + Length(v[i]) + 1 \in 1..Len(v) => IsHeader(v[i + Length(v[i]) + 1])
    <2>1. i \in 1..n /\ v[i] = w[i]
      BY <1>1, <1>5, <1>7
    <2>2. CASE i = n
      <3>1. Length(v[i]) = d
        BY <1>3, <2>1, <2>2
      <3> QED BY <1>1, <1>5, <2>2, <3>1
    <2>3. CASE i # n
      <3> DEFINE l == Length(w[i])
      <3>1. l \in Nat /\ i + l <= n
        BY <1>1, <1>4, <1>7, <2>1, <2>3
      <3>2. i + l # n
        <4> SUFFICES ASSUME i + l = n PROVE FALSE
          OBVIOUS
        <4>1. n \in (i + 1)..(i + l) /\ n \in 1..n
          BY <1>1, <2>1, <2>3, <3>1
        <4> QED BY <1>3, <1>4, <1>7, <2>1, <4>1
      <3>3. \A j \in (i + 1)..(i + l) : j \in 1..n /\ ~IsHeader(v[j])
        <4> TAKE j \in (i + 1)..(i + l)
        <4>1. j \in 1..n /\ j \in 1..(n + d) /\ j <= n
          BY <1>1, <2>1, <3>1
        <4> QED BY <1>1, <1>4, <1>7, <2>1, <4>1
      <3>4. IsHeader(v[i + l + 1])
        <4>1. i + l + 1 \in 1..n /\ i + l + 1 \in 1..(n + d) /\ i + l + 1 <= n
          <5>1. n \in Nat /\ d \in Nat /\ i \in Nat
            BY <1>1, <2>1
          <5> HIDE DEF l
          <5> QED BY <3>1, <3>2, <5>1
        <4> QED BY <1>1, <1>4, <1>7, <2>1, <4>1
      <3>5. v[i] = w[i] /\ l = Length(v[i])
        BY <2>1
      <3> HIDE DEF l
      <3> QED BY <1>1, <2>1, <3>1, <3>3, <3>4, <3>5
    <2> QED BY <2>2, <2>3
  <1> QED BY <1>6, <1>7 DEF Framed, v

\* The first frame is taken.
LEMMA FramedTaken ==
  ASSUME NEW w \in Seq(Headers \cup Unit), NEW busy, Framed(w, busy), w # <<>>,
         NEW n \in Nat, n = Length(w[1]), n < Len(w)
  PROVE  LET v == SubSeq(w, n + 2, Len(w))
         IN /\ Framed(v, busy) /\ Len(v) = Len(w) - (n + 1)
            /\ \A i \in 1..Len(v) : v[i] = w[n + 1 + i]
  <1> DEFINE v == SubSeq(w, n + 2, Len(w))
             k == n + 1
             m == Len(w)
  <1>1. k \in Nat /\ m \in Nat /\ k <= m /\ n + 2 = k + 1
    OBVIOUS
  <1>2. v \in Seq(Headers \cup Unit) /\ Len(v) = m - k /\ \A i \in 1..(m - k) : v[i] = w[k + i]
    <2>1. \A i \in (n + 2)..m : w[i] \in Headers \cup Unit
      OBVIOUS
    <2>2. n + 2 \in Int /\ m \in Int
      OBVIOUS
    <2>3. /\ v \in Seq(Headers \cup Unit)
          /\ Len(v) = IF n + 2 <= m THEN m - (n + 2) + 1 ELSE 0
          /\ \A i \in 1..(m - (n + 2) + 1) : v[i] = w[(n + 2) + i - 1]
      BY <2>1, <2>2, SubSeqProperties
    <2> HIDE DEF v, m, k
    <2>4. Len(v) = m - k
      BY <1>1, <2>3
    <2>5. \A i \in 1..(m - k) : v[i] = w[k + i]
      <3> TAKE i \in 1..(m - k)
      <3>1. i \in 1..(m - (n + 2) + 1) /\ (n + 2) + i - 1 = k + i
        BY <1>1
      <3> QED BY <2>3, <3>1
    <2> QED BY <2>3, <2>4, <2>5
  <1>3. IsHeader(w[1]) /\ 1 \in 1..m /\ 1 + Length(w[1]) = k
    BY DEF Framed
  <1>4. \A i \in 1..m : IsHeader(w[i]) =>
          /\ Length(w[i]) \in Nat
          /\ i + Length(w[i]) > m => i = m /\ busy
          /\ \A j \in (i + 1)..(i + Length(w[i])) : j \in 1..m => ~IsHeader(w[j])
          /\ i + Length(w[i]) + 1 \in 1..m => IsHeader(w[i + Length(w[i]) + 1])
    <2> TAKE i \in 1..m
    <2> HAVE IsHeader(w[i])
    <2>1. Length(w[i]) \in Nat
      <3>1. w[i] \in Headers \cup Unit
        OBVIOUS
      <3> QED BY <3>1, HeaderForm
    <2> QED BY <1>1, <2>1 DEF Framed
  <1> HIDE DEF v, k, m
  <1>5. v # <<>> => IsHeader(v[1])
    <2> HAVE v # <<>>
    <2>1. 1 \in 1..(m - k)
      BY <1>1, <1>2, EmptySeq
    <2>2. v[1] = w[k + 1] /\ k + 1 \in 1..m
      BY <1>1, <1>2, <2>1
    <2> QED BY <1>3, <1>4, <2>2
  <1>6. ASSUME NEW i \in 1..Len(v), IsHeader(v[i])
        PROVE  /\ i + Length(v[i]) > Len(v) => i = Len(v) /\ busy
               /\ \A j \in (i + 1)..(i + Length(v[i])) : j \in 1..Len(v) => ~IsHeader(v[j])
               /\ i + Length(v[i]) + 1 \in 1..Len(v) => IsHeader(v[i + Length(v[i]) + 1])
    <2> DEFINE l == Length(v[i])
    <2>1. k + i \in 1..m /\ v[i] = w[k + i] /\ i \in Nat
      BY <1>1, <1>2
    <2>2. /\ l \in Nat
          /\ k + i + l > m => k + i = m /\ busy
          /\ \A j \in (k + i + 1)..(k + i + l) : j \in 1..m => ~IsHeader(w[j])
          /\ k + i + l + 1 \in 1..m => IsHeader(w[k + i + l + 1])
      BY <1>4, <1>6, <2>1
    <2> HIDE DEF l
    <2>3. i + l > Len(v) => i = Len(v) /\ busy
      BY <1>1, <1>2, <2>1, <2>2
    <2>4. \A j \in (i + 1)..(i + l) : j \in 1..Len(v) => ~IsHeader(v[j])
      <3> TAKE j \in (i + 1)..(i + l)
      <3> HAVE j \in 1..Len(v)
      <3>1. k + j \in (k + i + 1)..(k + i + l) /\ k + j \in 1..m /\ v[j] = w[k + j]
        BY <1>1, <1>2, <2>1, <2>2
      <3> QED BY <2>2, <3>1
    <2>5. i + l + 1 \in 1..Len(v) => IsHeader(v[i + l + 1])
      <3> HAVE i + l + 1 \in 1..Len(v)
      <3>1. k + (i + l + 1) \in 1..m /\ v[i + l + 1] = w[k + (i + l + 1)]
        <4> DEFINE j == i + l + 1
        <4>1. j \in 1..(m - k)
          BY <1>2
        <4> HIDE DEF j
        <4>2. k + j \in 1..m
          BY <1>1, <4>1
        <4> QED BY <1>2, <4>1, <4>2 DEF j
      <3>2. k + (i + l + 1) = k + i + l + 1
        BY <1>1, <2>1, <2>2
      <3> QED BY <2>2, <3>1, <3>2
    <2> QED BY <2>3, <2>4, <2>5 DEF l
  <1>7. Framed(v, busy)
    BY <1>5, <1>6 DEF Framed
  <1> QED BY <1>2, <1>7 DEF v, k, m

\* The two ways of saying it agree.
LEMMA FramedWire ==
  ASSUME TypeInv
  PROVE  WireFramed <=> Framed(wire, writeLock # {})
  <1>1. wire \in Seq(Headers \cup Unit) /\ DOMAIN wire = 1..Len(wire)
    BY DEF TypeInv
  <1>2. ASSUME WireFramed PROVE Framed(wire, writeLock # {})
    BY <1>1, <1>2 DEF WireFramed, Framed
  <1>3. ASSUME Framed(wire, writeLock # {}) PROVE WireFramed
    BY <1>1, <1>3 DEF WireFramed, Framed
  <1> QED BY <1>2, <1>3

\* Headers and payloads keep to their places.
LEMMA FrameStep ==
  ASSUME TypeInv, TypeInv', LockInv, FrameInv, [Next]_vars
  PROVE  FrameInv'
  <1> DEFINE busy == writeLock # {}
             Owes(t, w) == \/ w = <<>> /\ out[t].data = <<>>
                           \/ /\ w # <<>> /\ IsHeader(w[Len(w)])
                              /\ Length(w[Len(w)]) = Len(out[t].data)
  <1>1. /\ out \in [Writers -> {noFrame} \cup Handed] /\ noFrame.step = "none"
        /\ wire \in Seq(Headers \cup Unit)
    BY DEF TypeInv, noFrame
  <1>2. Framed(wire, busy) /\ \A t \in writeLock : Owes(t, wire)
    BY FramedWire DEF FrameInv
  <1>3. ASSUME Framed(wire', writeLock' # {}) PROVE WireFramed'
    <2>1. (TypeInv => (WireFramed <=> Framed(wire, writeLock # {})))'
      BY FramedWire, PTL
    <2> QED BY <1>3, <2>1
  <1>4. CASE UNCHANGED <<out, writeLock, wire>>
    BY <1>4 DEF FrameInv, WireFramed
  <1>5. CASE handleServerMessage /\ UNCHANGED <<out, writeLock>>
    <2> DEFINE n == Length(Head(wire))
               v == SubSeq(wire, n + 2, Len(wire))
    <2>1. /\ wire # <<>> /\ Head(wire) = wire[1] /\ n \in Nat /\ n < Len(wire) /\ wire' = v
      BY <1>5, MessageForm
    <2>2. n = Length(wire[1])
      BY <2>1
    <2> HIDE DEF n
    <2>3. /\ Framed(v, busy) /\ Len(v) = Len(wire) - (n + 1)
          /\ \A i \in 1..Len(v) : v[i] = wire[n + 1 + i]
      BY <1>1, <1>2, <2>1, <2>2, FramedTaken
    <2>4. ASSUME NEW t \in writeLock'
          PROVE  \/ wire' = <<>> /\ out'[t].data = <<>>
                 \/ /\ wire' # <<>> /\ IsHeader(wire'[Len(wire')])
                    /\ Length(wire'[Len(wire')]) = Len(out'[t].data)
      <3>1. /\ IsHeader(wire[Len(wire)]) /\ Length(wire[Len(wire)]) = Len(out[t].data)
            /\ out' = out
        BY <1>2, <1>5, <2>1, <2>4
      <3>2. t \in Writers /\ out[t] \in Handed
        BY <1>1, <1>5, <2>4 DEF LockInv
      <3>3. out[t].data \in Seq(Unit)
        BY <3>2 DEF Handed
      <3>4. v \in Seq(Headers \cup Unit)
        BY <2>1 DEF TypeInv
      <3> HIDE DEF v
      <3>5. CASE Len(v) = 0
        <4>1. Len(wire) = n + 1
          BY <1>1, <2>1, <2>3, <3>5
        <4>2. n = 0
          <5> SUFFICES ASSUME n > 0 PROVE FALSE
            BY <2>1
          <5>1. IsHeader(wire[1]) /\ n + 1 \in 2..(1 + n) /\ n + 1 \in 1..Len(wire) /\ 1 \in 1..Len(wire)
            BY <1>2, <2>1, <4>1 DEF Framed
          <5>2. ~IsHeader(wire[n + 1])
            BY <1>2, <2>1, <2>2, <5>1 DEF Framed
          <5> QED BY <3>1, <4>1, <5>2
        <4>3. Len(out[t].data) = 0
          <5>1. Len(wire) = 1 /\ Length(wire[1]) = 0
            BY <2>2, <4>1, <4>2
          <5> QED BY <3>1, <5>1
        <4>4. out[t].data = <<>> /\ v = <<>>
          BY <3>3, <3>4, <3>5, <4>3, EmptySeq
        <4> QED BY <2>1, <3>1, <4>4
      <3>6. CASE Len(v) # 0
        <4>1. Len(v) \in 1..Len(v) /\ n + 1 + Len(v) = Len(wire)
          BY <1>1, <2>1, <2>3, <3>4, <3>6
        <4>2. v[Len(v)] = wire[Len(wire)] /\ v # <<>>
          BY <2>3, <3>6, <4>1
        <4> QED BY <2>1, <3>1, <4>2
      <3> QED BY <3>5, <3>6
    <2>5. WireFramed'
      BY <1>3, <1>5, <2>1, <2>3
    <2> QED BY <2>4, <2>5 DEF FrameInv
  <1>6. CASE \E t \in Writers, f \in Handed :
               /\ out[t].step = "none" /\ f.step = "lock" /\ out' = [out EXCEPT ![t] = f]
               /\ UNCHANGED <<writeLock, wire>>
    <2>1. \A t \in writeLock : out'[t] = out[t]
      BY <1>1, <1>6 DEF LockInv
    <2>2. WireFramed'
      BY <1>2, <1>3, <1>6
    <2> QED BY <1>2, <1>6, <2>1, <2>2 DEF FrameInv
  <1>7. ASSUME NEW t \in Writers, WriteHeader(t)
        PROVE  FrameInv'
    <2> DEFINE f == out[t]
               h == Header(f.op, Len(f.data))
               v == Append(wire, h)
    <2>1. f \in Handed /\ f.op \in {"text", "pong", "close"} /\ f.data \in Seq(Unit)
      <3>1. f \in Handed
        BY <1>1, <1>7 DEF WriteHeader
      <3> QED BY <3>1 DEF Handed
    <2>2. out'[t].data = f.data
      BY <1>1, <1>7, <2>1 DEF WriteHeader, Handed
    <2>3. writeLock = {} /\ writeLock' = {t} /\ wire' = v
      BY <1>7 DEF WriteHeader
    <2> HIDE DEF f
    <2>4. h \in Headers /\ Length(h) = Len(f.data) /\ IsHeader(h)
      <3>1. Len(f.data) \in Nat
        BY <2>1
      <3> QED BY <2>1, <3>1, HeaderForm
    <2> HIDE DEF h
    <2>5. Framed(wire, FALSE)
      BY <1>2, <2>3
    <2>6. Framed(v, TRUE)
      BY <1>1, <2>4, <2>5, FramedHeader
    <2>7. v # <<>> /\ v[Len(v)] = h
      <3>1. v \in Seq(Headers \cup Unit) /\ Len(v) = Len(wire) + 1 /\ v[Len(wire) + 1] = h
        BY <1>1, <2>4, AppendProperties
      <3>2. Len(wire) \in Nat
        BY <1>1
      <3> HIDE DEF v
      <3>3. v # <<>>
        BY <3>1, <3>2, EmptySeq
      <3> QED BY <3>1, <3>3
    <2> HIDE DEF v
    <2>8. WireFramed'
      <3>1. (writeLock' # {}) = TRUE
        BY <2>3
      <3> QED BY <1>3, <2>3, <2>6, <3>1
    <2> QED BY <2>2, <2>3, <2>4, <2>7, <2>8 DEF FrameInv
  <1>8. ASSUME NEW t \in Writers, WritePayload(t)
        PROVE  FrameInv'
    <2> DEFINE data == out[t].data
    <2>1. data \in Seq(Unit)
      <3>1. out[t] \in Handed
        BY <1>1, <1>8 DEF WritePayload
      <3> QED BY <3>1 DEF Handed
    <2>2. t \in writeLock /\ writeLock' = {} /\ wire' = wire \o data
      <3>1. t \in writeLock /\ writeLock' = writeLock \ {t} /\ wire' = wire \o data
        BY <1>8 DEF WritePayload, LockInv
      <3> QED BY <3>1 DEF LockInv
    <2>3. Owes(t, wire)
      BY <1>2, <2>2
    <2> HIDE DEF data
    <2>4. Framed(wire \o data, FALSE)
      <3>1. CASE wire = <<>> /\ data = <<>>
        <4>1. wire \o data = <<>>
          BY <3>1
        <4> QED BY <4>1 DEF Framed
      <3>2. CASE /\ wire # <<>> /\ IsHeader(wire[Len(wire)])
                 /\ Length(wire[Len(wire)]) = Len(data)
        BY <1>1, <1>2, <2>1, <3>2, FramedPayload
      <3> QED BY <2>3, <3>1, <3>2 DEF data
    <2>5. WireFramed'
      <3>1. (writeLock' # {}) = FALSE
        BY <2>2
      <3> QED BY <1>3, <2>2, <2>4, <3>1
    <2> QED BY <2>2, <2>5 DEF FrameInv
  <1>9. ASSUME NEW t \in Writers, WriteFails(t)
        PROVE  FrameInv'
    <2>1. \A u \in writeLock : out'[u] = out[u]
      BY <1>1, <1>9 DEF WriteFails, LockInv
    <2>2. UNCHANGED <<writeLock, wire>>
      BY <1>9 DEF WriteFails
    <2>3. WireFramed'
      BY <1>2, <1>3, <2>2
    <2> QED BY <1>2, <2>1, <2>2, <2>3 DEF FrameInv
  <1> QED BY <1>4, <1>5, <1>6, <1>7, <1>8, <1>9, FrameMoves DEF WriteFrame
-----------------------------------------------------------------------------
(* Commands, one by one *)

\* Read ends the line of a frame that does not.
LEMMA PayloadLine ==
  ASSUME NEW l \in AnyLine, NEW data \in {Body(l), Bytes(l)}
  PROVE  Payload(data) = Bytes(l)
  <1>1. CASE data = Body(l)
    <2>1. Len(data) = 2 /\ data # <<>> /\ data[2] # newline
      <3>1. Len(Body(l)) = 2 /\ Body(l)[2] # newline /\ Body(l) \in Seq(Unit)
        BY LineUnits
      <3>2. Len(<<>>) = 0
        OBVIOUS
      <3> DEFINE b == Body(l)
      <3> HIDE DEF b
      <3>3. Len(b) = 2 /\ b # <<>> /\ b[2] # newline
        BY <3>1, <3>2 DEF b
      <3> QED BY <1>1, <3>3 DEF b
    <2>2. Last(data) # newline
      BY <2>1 DEF Last
    <2> QED BY <1>1, <2>1, <2>2 DEF Payload, Bytes
  <1>2. CASE data = Bytes(l)
    <2>1. Len(Bytes(l)) = 3 /\ Bytes(l)[3] = newline
      BY LineUnits
    <2>2. Last(data) = newline
      BY <1>2, <2>1 DEF Last
    <2> QED BY <1>2, <2>2 DEF Payload
  <1> QED BY <1>1, <1>2

\* A line that is ended is not empty.
LEMMA BytesSome ==
  ASSUME NEW l \in AnyLine
  PROVE  Bytes(l) # <<>> /\ Bytes(l) \in Seq(Unit) /\ \E i \in 1..Len(Bytes(l)) : Bytes(l)[i] = newline
  <1>1. Bytes(l) \in Seq(Unit) /\ Len(Bytes(l)) = 3 /\ Bytes(l)[3] = newline
    BY LineUnits
  <1> DEFINE b == Bytes(l)
  <1> HIDE DEF b
  <1>2. Len(b) = 3 /\ Len(<<>>) = 0
    BY <1>1 DEF b
  <1>3. b # <<>> /\ 3 \in 1..Len(b)
    BY <1>2
  <1> QED BY <1>1, <1>3 DEF b

\* The frames of commands that are to come, when the first next ones have come.
Coming(texts, cmds, next) ==
  /\ Len(texts) = Len(cmds) - next
  /\ \A i \in 1..Len(texts) : texts[i].data \in {Body(cmds[next + i]), Bytes(cmds[next + i])}

\* CommandInv, without its definitions.
LEMMA CommandForm ==
  ASSUME TypeInv
  PROVE  CommandInv <=>
           LET k    == Len(handled)
               held == scan \o readBuf
           IN /\ k <= Len(sent) /\ \A i \in 1..k : handled[i] = Body(sent[i])
              /\ held # <<>> => k < Len(sent) /\ held = Bytes(sent[k + 1])
              /\ Coming(Select(up, Texts), sent, IF held = <<>> THEN k ELSE k + 1)
  <1>1. DOMAIN handled = 1..Len(handled) /\ up \in Seq(Upward)
    BY DEF TypeInv
  <1>2. Select(up, Texts) \in Seq(Upward)
    BY <1>1, SelectType
  <1>3. DOMAIN Select(up, Texts) = 1..Len(Select(up, Texts))
    BY <1>2
  <1> QED BY <1>1, <1>3 DEF CommandInv, CommandsIntact, Coming

\* What is held has no part in the step.
LEMMA HeldSame ==
  ASSUME TypeInv, TypeInv', CommandInv, UNCHANGED <<sent, handled>>,
         Select(up, Texts)' = Select(up, Texts), (scan \o readBuf)' = scan \o readBuf
  PROVE  CommandInv'
  <1>1. (TypeInv => (CommandInv <=>
           LET k    == Len(handled)
               held == scan \o readBuf
           IN /\ k <= Len(sent) /\ \A i \in 1..k : handled[i] = Body(sent[i])
              /\ held # <<>> => k < Len(sent) /\ held = Bytes(sent[k + 1])
              /\ Coming(Select(up, Texts), sent, IF held = <<>> THEN k ELSE k + 1)))'
    BY CommandForm, PTL
  <1> QED BY <1>1, CommandForm

\* One more command in a frame of its own.
LEMMA CommandSent ==
  ASSUME TypeInv, TypeInv', CommandInv, NEW c \in Command, SendCommand(c)
  PROVE  CommandInv'
  <1> DEFINE k == Len(handled)
             held == scan \o readBuf
             next == IF held = <<>> THEN k ELSE k + 1
             texts == Select(up, Texts)
  <1>1. /\ up \in Seq(Upward) /\ sent \in Seq(Command) /\ handled \in Seq(Seq(Unit)) /\ k \in Nat
        /\ Len(sent) \in Nat /\ texts \in Seq(Upward)
    <2>1. up \in Seq(Upward) /\ sent \in Seq(Command) /\ handled \in Seq(Seq(Unit))
      BY DEF TypeInv
    <2>2. texts \in Seq(Upward)
      BY <2>1, SelectType
    <2> HIDE DEF texts
    <2> QED BY <2>1, <2>2
  <1>2. /\ k <= Len(sent) /\ \A i \in 1..k : handled[i] = Body(sent[i])
        /\ held # <<>> => k < Len(sent) /\ held = Bytes(sent[k + 1])
        /\ Coming(texts, sent, next)
    BY CommandForm
  <1>3. sent' = Append(sent, c) /\ UNCHANGED <<scan, readBuf, handled>>
    BY DEF SendCommand, server
  <1>4. PICK data \in {Body(c), Bytes(c)} : up' = Append(up, [op |-> "text", data |-> data])
    BY DEF SendCommand
  <1> DEFINE f == [op |-> "text", data |-> data]
  <1>5. f \in Upward /\ f \in Texts /\ f.data = data
    <2>1. data \in Seq(Unit)
      BY LineTypes
    <2> QED BY <2>1 DEF Upward, Texts
  <1> HIDE DEF f
  <1>6. Select(up', Texts) = Append(texts, f)
    BY <1>1, <1>4, <1>5, SelectAppend DEF f
  <1> DEFINE longer == Append(texts, f)
             cmds == Append(sent, c)
  <1>7. /\ Len(longer) = Len(texts) + 1 /\ longer[Len(texts) + 1] = f
        /\ \A i \in 1..Len(texts) : longer[i] = texts[i]
    BY <1>1, <1>5, AppendProperties
  <1>8. /\ Len(cmds) = Len(sent) + 1 /\ cmds[Len(sent) + 1] = c
        /\ \A i \in 1..Len(sent) : cmds[i] = sent[i]
    BY <1>1, AppendProperties
  <1> HIDE DEF longer, cmds, texts, k
  <1>9. next \in Nat /\ next <= Len(sent)
    BY <1>1, <1>2
  <1> HIDE DEF next
  <1>10. Coming(longer, cmds, next)
    <2>1. Len(texts) = Len(sent) - next /\ Len(longer) = Len(cmds) - next
      BY <1>1, <1>2, <1>7, <1>8, <1>9 DEF Coming
    <2>2. ASSUME NEW i \in 1..Len(longer)
          PROVE  longer[i].data \in {Body(cmds[next + i]), Bytes(cmds[next + i])}
      <3>1. CASE i \in 1..Len(texts)
        <4>1. next + i \in 1..Len(sent)
          BY <1>1, <1>9, <2>1, <3>1
        <4>2. longer[i] = texts[i] /\ cmds[next + i] = sent[next + i]
          BY <1>7, <1>8, <3>1, <4>1
        <4>3. texts[i].data \in {Body(sent[next + i]), Bytes(sent[next + i])}
          BY <1>2, <3>1 DEF Coming
        <4> QED BY <4>2, <4>3
      <3>2. CASE i = Len(texts) + 1
        <4>1. next + i = Len(sent) + 1
          BY <1>1, <1>9, <2>1, <3>2
        <4>2. longer[i] = f /\ cmds[next + i] = c
          BY <1>7, <1>8, <3>2, <4>1
        <4> QED BY <1>5, <4>2
      <3>3. Len(texts) \in Nat
        BY <1>1
      <3> QED BY <1>7, <3>1, <3>2, <3>3
    <2> QED BY <2>1, <2>2 DEF Coming
  <1>11. k <= Len(cmds) /\ \A i \in 1..k : handled[i] = Body(cmds[i])
    <2>1. \A i \in 1..k : i \in 1..Len(sent)
      BY <1>1, <1>2
    <2> QED BY <1>1, <1>2, <1>8, <2>1
  <1>12. held # <<>> => k < Len(cmds) /\ held = Bytes(cmds[k + 1])
    <2> HAVE held # <<>>
    <2> HIDE DEF k, held
    <2>1. k < Len(sent) /\ held = Bytes(sent[k + 1])
      BY <1>2
    <2>2. k + 1 \in 1..Len(sent)
      BY <1>1, <2>1
    <2>3. cmds[k + 1] = sent[k + 1] /\ Len(cmds) = Len(sent) + 1
      BY <1>8, <2>2
    <2> QED BY <1>1, <2>1, <2>3
  <1>13. /\ Len(handled') = k /\ (scan \o readBuf)' = held /\ handled' = handled
         /\ Select(up, Texts)' = longer /\ sent' = cmds
    BY <1>3, <1>6 DEF longer, cmds, k
  <1>14. (TypeInv => (CommandInv <=>
           LET k_1    == Len(handled)
               held_1 == scan \o readBuf
           IN /\ k_1 <= Len(sent) /\ \A i \in 1..k_1 : handled[i] = Body(sent[i])
              /\ held_1 # <<>> => k_1 < Len(sent) /\ held_1 = Bytes(sent[k_1 + 1])
              /\ Coming(Select(up, Texts), sent, IF held_1 = <<>> THEN k_1 ELSE k_1 + 1)))'
    BY CommandForm, PTL
  <1> HIDE DEF held
  <1> QED BY <1>10, <1>11, <1>12, <1>13, <1>14 DEF next

\* The next frame: a command of its own, or none.
LEMMA CommandRead ==
  ASSUME TypeInv, TypeInv', CommandInv, ReadFrame
  PROVE  CommandInv'
  <1> DEFINE k == Len(handled)
             texts == Select(up, Texts)
             rest == Select(up', Texts)
             f == Head(up)
  <1>1. /\ up \in Seq(Upward) /\ up # <<>> /\ up' = Tail(up) /\ up' \in Seq(Upward) /\ f \in Upward
        /\ sent \in Seq(Command) /\ k \in Nat /\ Len(sent) \in Nat
        /\ texts \in Seq(Upward) /\ rest \in Seq(Upward)
    <2>1. up \in Seq(Upward) /\ up # <<>> /\ up' = Tail(up)
      BY DEF ReadFrame, TypeInv
    <2>2. up' \in Seq(Upward) /\ f \in Upward
      BY <2>1, HeadTailProperties
    <2>3. texts \in Seq(Upward) /\ rest \in Seq(Upward)
      BY <2>1, <2>2, SelectType
    <2>4. sent \in Seq(Command) /\ handled \in Seq(Seq(Unit))
      BY DEF TypeInv
    <2> HIDE DEF texts, rest, f
    <2> QED BY <2>1, <2>2, <2>3, <2>4
  <1>2. texts = IF f \in Texts THEN <<f>> \o rest ELSE rest
    BY <1>1, SelectHead
  <1>3. readBuf = <<>> /\ UNCHANGED <<scan, sent, handled>> /\ ~Contains(scan, newline)
    BY DEF ReadFrame, NeedsData, hist
  <1>4. CASE f \notin Texts
    <2>1. f.op # "text" /\ rest = texts
      BY <1>1, <1>2, <1>4 DEF Texts
    <2>2. readBuf' = readBuf
      BY <2>1 DEF ReadFrame
    <2> QED BY <1>3, <2>1, <2>2, HeldSame
  <1>5. CASE f \in Texts
    <2>1. f.op = "text" /\ readBuf' = Payload(f.data)
      <3>1. f.op = "text"
        BY <1>5 DEF Texts
      <3> QED BY <3>1 DEF ReadFrame
    <2>2. scan \in Seq(Unit) /\ scan \o readBuf = scan
      <3>1. scan \in Seq(Unit)
        BY DEF TypeInv
      <3> QED BY <1>3, <3>1, ConcatEmptySeq
    <2>3. /\ k <= Len(sent) /\ \A i \in 1..k : handled[i] = Body(sent[i])
          /\ scan # <<>> => k < Len(sent) /\ scan = Bytes(sent[k + 1])
          /\ Coming(texts, sent, IF scan = <<>> THEN k ELSE k + 1)
      BY <2>2, CommandForm
    <2>4. scan = <<>>
      <3> SUFFICES ASSUME scan # <<>> PROVE FALSE
        OBVIOUS
      <3>1. k + 1 \in 1..Len(sent) /\ scan = Bytes(sent[k + 1])
        BY <1>1, <2>3
      <3>2. sent[k + 1] \in AnyLine
        <4>1. sent[k + 1] \in Command
          BY <1>1, <3>1
        <4> QED BY <4>1, LineTypes
      <3>3. \E i \in 1..Len(scan) : scan[i] = newline
        BY <3>1, <3>2, BytesSome
      <3> QED BY <1>3, <2>2, <3>3 DEF Contains
    <2>5. Coming(texts, sent, k)
      BY <2>3, <2>4
    <2>6. /\ Len(texts) = 1 + Len(rest) /\ texts[1] = f
          /\ \A i \in 1..Len(rest) : texts[1 + i] = rest[i]
      <3> DEFINE one == <<f>>
      <3>1. one \in Seq(Upward) /\ Len(one) = 1 /\ one[1] = f /\ texts = one \o rest
        BY <1>1, <1>2, <1>5
      <3> HIDE DEF one, texts, rest
      <3>2. /\ Len(texts) = Len(one) + Len(rest)
            /\ \A i \in 1..(Len(one) + Len(rest)) :
                 texts[i] = IF i <= Len(one) THEN one[i] ELSE rest[i - Len(one)]
        BY <1>1, <3>1, ConcatProperties
      <3>3. Len(rest) \in Nat
        BY <1>1
      <3>4. texts[1] = f
        BY <3>1, <3>2, <3>3
      <3>5. \A i \in 1..Len(rest) : texts[1 + i] = rest[i]
        <4> TAKE i \in 1..Len(rest)
        <4>1. 1 + i \in 1..(Len(one) + Len(rest)) /\ ~(1 + i <= Len(one)) /\ (1 + i) - Len(one) = i
          BY <3>1, <3>3
        <4> QED BY <3>2, <4>1
      <3> QED BY <3>1, <3>2, <3>4, <3>5
    <2> HIDE DEF k, texts, rest, f
    <2>7. k < Len(sent) /\ f.data \in {Body(sent[k + 1]), Bytes(sent[k + 1])}
      <3>1. Len(rest) \in Nat /\ 1 \in 1..Len(texts)
        BY <1>1, <2>6
      <3>2. k \in Nat /\ Len(sent) \in Nat /\ Len(texts) = Len(sent) - k
        BY <1>1, <2>5 DEF Coming
      <3>3. k < Len(sent)
        BY <2>6, <3>1, <3>2
      <3>4. f.data \in {Body(sent[k + 1]), Bytes(sent[k + 1])}
        BY <2>5, <2>6, <3>1 DEF Coming
      <3> QED BY <3>3, <3>4
    <2>8. Coming(rest, sent, k + 1)
      <3>1. Len(rest) = Len(sent) - (k + 1) /\ Len(rest) \in Nat
        <4>1. Len(rest) \in Nat /\ k \in Nat /\ Len(sent) \in Nat
          BY <1>1
        <4>2. Len(texts) = Len(sent) - k /\ Len(texts) = 1 + Len(rest)
          BY <2>5, <2>6 DEF Coming
        <4> QED BY <4>1, <4>2
      <3>2. ASSUME NEW i \in 1..Len(rest)
            PROVE  rest[i].data \in {Body(sent[(k + 1) + i]), Bytes(sent[(k + 1) + i])}
        <4>1. 1 + i \in 1..Len(texts) /\ k + (1 + i) = (k + 1) + i
          <5>1. k \in Nat /\ Len(texts) = 1 + Len(rest)
            BY <1>1, <2>6
          <5> QED BY <3>1, <5>1
        <4>2. texts[1 + i].data \in {Body(sent[k + (1 + i)]), Bytes(sent[k + (1 + i)])}
          BY <2>5, <4>1 DEF Coming
        <4> QED BY <2>6, <4>1, <4>2
      <3> QED BY <3>1, <3>2 DEF Coming
    <2>9. sent[k + 1] \in AnyLine
      <3>1. k + 1 \in 1..Len(sent)
        BY <1>1, <2>7
      <3>2. sent[k + 1] \in Command
        BY <1>1, <3>1
      <3> QED BY <3>2, LineTypes
    <2>10. readBuf' = Bytes(sent[k + 1])
      BY <2>1, <2>7, <2>9, PayloadLine
    <2>11. (scan \o readBuf)' = Bytes(sent[k + 1]) /\ Bytes(sent[k + 1]) # <<>>
      <3>1. scan' = <<>> /\ Bytes(sent[k + 1]) \in Seq(Unit) /\ Bytes(sent[k + 1]) # <<>>
        BY <1>3, <2>4, <2>9, BytesSome
      <3> QED BY <2>10, <3>1, ConcatEmptySeq
    <2>12. (TypeInv => (CommandInv <=>
             LET k_1    == Len(handled)
                 held_1 == scan \o readBuf
             IN /\ k_1 <= Len(sent) /\ \A i \in 1..k_1 : handled[i] = Body(sent[i])
                /\ held_1 # <<>> => k_1 < Len(sent) /\ held_1 = Bytes(sent[k_1 + 1])
                /\ Coming(Select(up, Texts), sent, IF held_1 = <<>> THEN k_1 ELSE k_1 + 1)))'
      BY CommandForm, PTL
    <2>13. Len(handled') = k /\ Select(up, Texts)' = rest
      BY <1>3 DEF k, rest
    <2> QED BY <1>3, <2>3, <2>7, <2>8, <2>11, <2>12, <2>13
  <1> QED BY <1>4, <1>5

\* A command that is handled was held, and nothing is held then.
LEMMA CommandScanned ==
  ASSUME TypeInv, TypeInv', CommandInv, ScanLine
  PROVE  CommandInv'
  <1> DEFINE k == Len(handled)
             c == sent[k + 1]
  <1>1. /\ k < Len(sent) /\ c \in Command /\ scan = Bytes(c) /\ readBuf = <<>> /\ scan' = <<>>
        /\ handled' = Append(handled, Body(c)) /\ UNCHANGED <<up, readBuf, sent>>
    BY ScanStep
  <1>2. /\ handled \in Seq(Seq(Unit)) /\ k \in Nat /\ sent \in Seq(Command) /\ Len(sent) \in Nat
        /\ c \in AnyLine
    <2>1. handled \in Seq(Seq(Unit)) /\ sent \in Seq(Command)
      BY DEF TypeInv
    <2>2. c \in AnyLine
      BY <1>1, LineTypes
    <2> HIDE DEF c
    <2> QED BY <2>1, <2>2
  <1> HIDE DEF c
  <1>3. Bytes(c) \in Seq(Unit) /\ Bytes(c) # <<>> /\ Body(c) \in Seq(Unit)
    BY <1>2, BytesSome, LineTypes
  <1>4. scan \o readBuf # <<>> /\ (scan \o readBuf)' = <<>>
    <2>1. scan \o readBuf = Bytes(c)
      BY <1>1, <1>3, ConcatEmptySeq
    <2>2. readBuf' = <<>> /\ scan' = <<>>
      BY <1>1
    <2>3. <<>> \o <<>> = <<>>
      OBVIOUS
    <2> QED BY <1>3, <2>1, <2>2, <2>3
  <1>5. /\ \A i \in 1..k : handled[i] = Body(sent[i])
        /\ Coming(Select(up, Texts), sent, k + 1)
    BY <1>4, CommandForm
  <1>6. /\ Len(handled') = k + 1 /\ handled'[k + 1] = Body(c)
        /\ \A i \in 1..k : handled'[i] = handled[i]
    BY <1>1, <1>2, <1>3, AppendProperties
  <1> HIDE DEF k
  <1>7. k + 1 <= Len(sent) /\ \A i \in 1..(k + 1) : handled'[i] = Body(sent[i])
    <2>1. \A i \in 1..(k + 1) : i \in 1..k \/ i = k + 1
      BY <1>2
    <2>2. handled'[k + 1] = Body(sent[k + 1])
      BY <1>6 DEF c
    <2> QED BY <1>1, <1>2, <1>5, <1>6, <2>1, <2>2
  <1>8. (TypeInv => (CommandInv <=>
           LET k_1    == Len(handled)
               held_1 == scan \o readBuf
           IN /\ k_1 <= Len(sent) /\ \A i \in 1..k_1 : handled[i] = Body(sent[i])
              /\ held_1 # <<>> => k_1 < Len(sent) /\ held_1 = Bytes(sent[k_1 + 1])
              /\ Coming(Select(up, Texts), sent, IF held_1 = <<>> THEN k_1 ELSE k_1 + 1)))'
    BY CommandForm, PTL
  <1> QED BY <1>1, <1>4, <1>5, <1>6, <1>7, <1>8

\* Commands keep their order, and each its line.
LEMMA CommandStep ==
  ASSUME TypeInv, TypeInv', CommandInv, [Next]_vars
  PROVE  CommandInv'
  <1>1. CASE SendQuery \/ SendWrite
    <2>1. PICK kind \in {"QUERY", "WRITE"} : SendCommand([kind |-> kind, id |-> Len(sent) + 1])
      BY <1>1 DEF SendQuery, SendWrite
    <2> DEFINE c == [kind |-> kind, id |-> Len(sent) + 1]
    <2>2. Len(sent) + 1 \in 1..MaxCommands
      BY <2>1, GatewayAssumption DEF SendCommand, TypeInv
    <2>3. c \in Command
      BY <2>2 DEF Command
    <2> QED BY <2>1, <2>3, CommandSent
  <1>2. ASSUME NEW op \in {"ping", "oversized", "close"}, UNCHANGED <<server, sent, handled>>,
               up' = Append(up, [op |-> op, data |-> <<>>])
        PROVE  CommandInv'
    <2> DEFINE f == [op |-> op, data |-> <<>>]
    <2>1. f \in Upward /\ f \notin Texts
      <3>1. <<>> \in Seq(Unit)
        OBVIOUS
      <3> QED BY <3>1 DEF Upward, Texts
    <2>2. up \in Seq(Upward) /\ up' = Append(up, f)
      BY <1>2 DEF TypeInv
    <2> HIDE DEF f
    <2>3. Select(up', Texts) = Select(up, Texts)
      BY <2>1, <2>2, SelectAppend
    <2> QED BY <1>2, <2>3, HeldSame DEF server
  <1>3. CASE SendOther("ping") \/ SendOther("oversized") \/ disconnectServer
    BY <1>2, <1>3 DEF SendOther, disconnectServer
  <1>4. CASE Serve
    <2>1. CASE ReadRest
      <3> DEFINE n == IF Len(readBuf) < ReadSize THEN Len(readBuf) ELSE ReadSize
                 a == SubSeq(readBuf, 1, n)
                 b == SubSeq(readBuf, n + 1, Len(readBuf))
      <3>1. readBuf \in Seq(Unit) /\ scan \in Seq(Unit) /\ Len(readBuf) \in Nat
        BY DEF TypeInv
      <3>2. n \in Nat /\ n <= Len(readBuf) /\ n + 1 \in Nat \ {0}
        BY <3>1, GatewayAssumption
      <3>3. scan' = scan \o a /\ readBuf' = b
        BY <2>1 DEF ReadRest
      <3> HIDE DEF n
      <3>4. a \in Seq(Unit) /\ b \in Seq(Unit)
        BY <3>1, <3>2, PartType
      <3>5. a \o b = readBuf
        BY <3>1, <3>2, SplitConcat
      <3> HIDE DEF a, b
      <3>6. (scan \o a) \o b = scan \o readBuf
        <4>1. (scan \o a) \o b = scan \o (a \o b)
          BY <3>1, <3>4, ConcatAssociative, SMTT(30)
        <4> QED BY <3>5, <4>1
      <3>7. (scan \o readBuf)' = scan \o readBuf
        BY <3>3, <3>6
      <3>8. UNCHANGED <<up, sent, handled>>
        BY <2>1 DEF ReadRest, hist
      <3> QED BY <3>7, <3>8, HeldSame
    <2>2. CASE FlushReply
      BY <2>2, HeldSame DEF FlushReply, hist
    <2> QED BY <1>4, <2>1, <2>2, CommandRead, CommandScanned DEF Serve
  <1>5. ASSUME UNCHANGED <<up, readBuf, scan, sent, handled>>
        PROVE  CommandInv'
    BY <1>5, HeldSame
  <1>6. CASE handleServerMessage \/ BroadcastAlert \/ UNCHANGED vars
    BY <1>5, <1>6 DEF handleServerMessage, BroadcastAlert, vars, server, hist
  <1>7. CASE \E t \in Writers : WriteFrame(t)
    <2>1. UNCHANGED <<up, readBuf, scan, sent, handled>>
      BY <1>7 DEF WriteFrame, WriteHeader, WritePayload, WriteFails, server, hist
    <2> QED BY <1>5, <2>1
  <1> QED BY <1>1, <1>3, <1>4, <1>6, <1>7 DEF Next
-----------------------------------------------------------------------------
(* The answer on its way *)

\* A header at the end of the wire.
LEMMA TextsHeader ==
  ASSUME NEW w \in Seq(Headers \cup Unit), NEW h \in Headers, NEW T, TextOnlyAt(w, T)
  PROVE  LET v == Append(w, h)
         IN /\ h.op # "text" /\ Len(w) + 1 \notin T => TextOnlyAt(v, T)
            /\ h.op = "text" /\ T = {} => TextOnlyAt(v, {Len(v)})
            /\ Len(v) = Len(w) + 1 /\ \A i \in 1..Len(w) : v[i] = w[i]
  <1> DEFINE v == Append(w, h)
             n == Len(w)
  <1>1. /\ n \in Nat /\ v \in Seq(Headers \cup Unit) /\ Len(v) = n + 1 /\ v[n + 1] = h
        /\ \A i \in 1..n : v[i] = w[i]
    BY AppendProperties
  <1>2. IsHeader(h)
    BY HeaderForm
  <1>3. DOMAIN w = 1..n /\ DOMAIN v = 1..(n + 1)
    BY <1>1
  <1> HIDE DEF v, n
  <1>4. \A i \in 1..(n + 1) : i \in 1..n \/ i = n + 1
    BY <1>1
  <1>5. \A i \in 1..n : (IsHeader(v[i]) /\ v[i].op = "text") <=> i \in T
    BY <1>1, <1>3 DEF TextOnlyAt
  <1>6. ASSUME h.op # "text", n + 1 \notin T
        PROVE  TextOnlyAt(v, T)
    BY <1>1, <1>3, <1>4, <1>5, <1>6 DEF TextOnlyAt
  <1>7. ASSUME h.op = "text", T = {}
        PROVE  TextOnlyAt(v, {n + 1})
    <2>1. \A i \in 1..n : i # n + 1
      BY <1>1
    <2> QED BY <1>1, <1>2, <1>3, <1>4, <1>5, <1>7, <2>1 DEF TextOnlyAt
  <1> QED BY <1>1, <1>6, <1>7 DEF v, n

\* A payload at the end of the wire.
LEMMA TextsPayload ==
  ASSUME NEW w \in Seq(Headers \cup Unit), NEW data \in Seq(Unit),
         NEW T, \A i \in T : i \in 1..Len(w), TextOnlyAt(w, T)
  PROVE  LET v == w \o data
         IN /\ TextOnlyAt(v, T) /\ Len(v) = Len(w) + Len(data)
            /\ \A i \in 1..Len(w) : v[i] = w[i]
            /\ \A k \in 1..Len(data) : v[Len(w) + k] = data[k]
  <1> DEFINE v == w \o data
             n == Len(w)
             d == Len(data)
  <1>1. /\ n \in Nat /\ d \in Nat /\ Len(v) = n + d /\ v \in Seq(Headers \cup Unit)
        /\ \A i \in 1..(n + d) : v[i] = IF i <= n THEN w[i] ELSE data[i - n]
    <2>1. data \in Seq(Headers \cup Unit)
      BY SeqMonotonic
    <2> QED BY <2>1, ConcatProperties
  <1>2. \A i \in 1..d : ~IsHeader(data[i])
    <2>1. \A i \in 1..d : data[i] \in Unit
      OBVIOUS
    <2> QED BY <2>1, HeaderForm
  <1>3. DOMAIN w = 1..n /\ DOMAIN v = 1..(n + d) /\ \A i \in T : i \in 1..n
    BY <1>1
  <1> HIDE DEF v, n, d
  <1>4. \A i \in 1..n : v[i] = w[i]
    BY <1>1
  <1>5. \A k \in 1..d : v[n + k] = data[k]
    <2> TAKE k \in 1..d
    <2>1. n + k \in 1..(n + d) /\ ~(n + k <= n) /\ (n + k) - n = k
      BY <1>1
    <2> QED BY <1>1, <2>1
  <1>6. ASSUME NEW i \in 1..(n + d)
        PROVE  (IsHeader(v[i]) /\ v[i].op = "text") <=> i \in T
    <2>1. CASE i \in 1..n
      BY <1>3, <1>4, <2>1 DEF TextOnlyAt
    <2>2. CASE i \notin 1..n
      <3>1. i - n \in 1..d /\ n + (i - n) = i
        BY <1>1, <2>2
      <3>2. ~IsHeader(v[i])
        BY <1>2, <1>5, <3>1
      <3> QED BY <1>3, <2>2, <3>2
    <2> QED BY <2>1, <2>2
  <1> QED BY <1>1, <1>3, <1>4, <1>5, <1>6 DEF TextOnlyAt, v, n, d

\* The first k elements of the wire are taken.
LEMMA TextsTaken ==
  ASSUME NEW w \in Seq(Headers \cup Unit), NEW v \in Seq(Headers \cup Unit), NEW k \in Nat,
         Len(v) = Len(w) - k, \A i \in 1..Len(v) : v[i] = w[k + i],
         NEW T, TextOnlyAt(w, T), NEW U, \A i \in 1..Len(v) : i \in U <=> k + i \in T
  PROVE  TextOnlyAt(v, U)
  <1>1. DOMAIN v = 1..Len(v) /\ DOMAIN w = 1..Len(w) /\ Len(v) \in Nat /\ Len(w) \in Nat
    OBVIOUS
  <1>2. \A i \in 1..Len(v) : k + i \in 1..Len(w)
    BY <1>1
  <1> QED BY <1>1, <1>2 DEF TextOnlyAt

\* What the frame in hand says of the wire.
LEMMA LastHeader ==
  ASSUME TypeInv, LockInv, FrameInv, out["conn"].step = "payload", out["conn"].data # <<>>
  PROVE  /\ wire # <<>> /\ Len(wire) \in 1..Len(wire) /\ IsHeader(wire[Len(wire)])
         /\ Length(wire[Len(wire)]) = Len(out["conn"].data)
  <1>1. "conn" \in writeLock
    BY DEF LockInv, Writers
  <1>2. wire # <<>> /\ wire \in Seq(Headers \cup Unit)
    BY <1>1 DEF FrameInv, TypeInv
  <1>3. Len(wire) \in 1..Len(wire)
    BY <1>2, EmptySeq
  <1> QED BY <1>1, <1>2, <1>3 DEF FrameInv

\* A writer takes an answer one step further, or loses it.
LEMMA AnswerWritten ==
  ASSUME TypeInv, LockInv, FrameInv, out["alert"] = noFrame, NEW t \in Writers, WriteFrame(t),
         NEW a \in Seq(Unit), a # <<>>
  PROVE  (Silent => Silent') /\ (UnderWay(a) => UnderWay(a)')
  <1> DEFINE f == out["conn"]
  <1>1. t = "conn"
    <2>1. out[t].step # "none" /\ noFrame.step = "none"
      BY DEF WriteFrame, WriteHeader, WritePayload, WriteFails, noFrame
    <2> QED BY <2>1 DEF Writers
  <1>2. /\ out \in [Writers -> {noFrame} \cup Handed] /\ wire \in Seq(Headers \cup Unit)
        /\ "conn" \in Writers /\ noFrame.step = "none"
    BY DEF TypeInv, Writers, noFrame
  <1>3. f \in Handed /\ f # noFrame
    <2>1. f.step # "none"
      BY <1>1 DEF WriteFrame, WriteHeader, WritePayload, WriteFails
    <2> QED BY <1>2, <2>1
  <1>4. f.op \in {"text", "pong", "close"} /\ f.data \in Seq(Unit)
    BY <1>3 DEF Handed
  <1>5. UNCHANGED reply
    BY DEF WriteFrame, WriteHeader, WritePayload, WriteFails, server
  <1>6. Len(wire) \in Nat /\ DOMAIN wire = 1..Len(wire) /\ DOMAIN a = 1..Len(a) /\ Len(a) \in Nat
    BY <1>2
  <1>7. CASE WriteHeader("conn")
    <2> DEFINE h == Header(f.op, Len(f.data))
    <2>1. wire' = Append(wire, h) /\ f.step = "lock"
      BY <1>7 DEF WriteHeader
    <2>2. out'["conn"].op = f.op /\ out'["conn"].data = f.data /\ out'["conn"].step = "payload"
      BY <1>2, <1>3, <1>7 DEF WriteHeader, Handed
    <2>3. h \in Headers /\ h.op = f.op
      <3>1. Len(f.data) \in Nat
        BY <1>4
      <3> QED BY <1>4, <3>1, HeaderForm
    <2> HIDE DEF h, f
    <2>4. /\ \A T : TextOnlyAt(wire, T) /\ f.op # "text" /\ Len(wire) + 1 \notin T => TextOnlyAt(wire', T)
          /\ TextOnlyAt(wire, {}) /\ f.op = "text" => TextOnlyAt(wire', {Len(wire')})
          /\ Len(wire') = Len(wire) + 1 /\ \A i \in 1..Len(wire) : wire'[i] = wire[i]
      <3>1. Len(wire') = Len(wire) + 1 /\ \A i \in 1..Len(wire) : wire'[i] = wire[i]
        BY <1>2, <2>1, <2>3, AppendProperties
      <3>2. ASSUME NEW T, TextOnlyAt(wire, T), f.op # "text", Len(wire) + 1 \notin T
            PROVE  TextOnlyAt(wire', T)
        BY <1>2, <2>1, <2>3, <3>2, TextsHeader
      <3>3. ASSUME TextOnlyAt(wire, {}), f.op = "text"
            PROVE  TextOnlyAt(wire', {Len(wire')})
        BY <1>2, <2>1, <2>3, <3>3, TextsHeader
      <3> QED BY <3>1, <3>2, <3>3
    <2>5. NoText => f.op # "text" /\ NoText'
      BY <1>3, <2>2 DEF NoText, f
    <2>6. NoText /\ TextOnlyAt(wire, {}) => NoText' /\ TextOnlyAt(wire, {})'
      BY <2>4, <2>5
    <2>7. (Silent => Silent') /\ (InBuffer(a) => InBuffer(a)')
      BY <1>5, <2>6 DEF Silent, InBuffer
    <2>8. InFrame(a) => InFrame(a)'
      <3> HAVE InFrame(a)
      <3>1. reply = <<>> /\ f.op = "text" /\ f.data = a /\ TextOnlyAt(wire, {})
        BY <2>1 DEF InFrame, f
      <3>2. TextOnlyAt(wire', {Len(wire')}) /\ out'["conn"] # noFrame
        BY <1>2, <2>2, <2>4, <3>1
      <3> QED BY <1>5, <2>2, <3>1, <3>2 DEF InFrame
    <2>9. OnWire(a) => OnWire(a)'
      <3> HAVE OnWire(a)
      <3>1. PICK i \in DOMAIN wire :
              /\ TextOnlyAt(wire, {i}) /\ Length(wire[i]) = Len(a) /\ i + Len(a) <= Len(wire)
              /\ \A k \in DOMAIN a : wire[i + k] = a[k]
        BY DEF OnWire
      <3>2. reply' = <<>> /\ NoText' /\ f.op # "text"
        BY <1>5, <2>5 DEF OnWire
      <3>3. i \in 1..Len(wire) /\ Len(wire) + 1 \notin {i}
        BY <1>6
      <3>4. TextOnlyAt(wire', {i})
        BY <2>4, <3>1, <3>2, <3>3
      <3>5. /\ i \in 1..Len(wire') /\ i + Len(a) <= Len(wire') /\ wire'[i] = wire[i]
            /\ \A k \in 1..Len(a) : wire'[i + k] = wire[i + k]
        <4>1. \A k \in 1..Len(a) : i + k \in 1..Len(wire)
          BY <1>6, <3>1, <3>3
        <4> QED BY <1>6, <2>4, <3>1, <3>3, <4>1
      <3>6. DOMAIN wire' = 1..Len(wire')
        <4>1. wire' \in Seq(Headers \cup Unit)
          BY <1>2, <2>1, <2>3, AppendProperties
        <4> QED BY <4>1
      <3> QED BY <1>6, <3>1, <3>2, <3>4, <3>5, <3>6 DEF OnWire
    <2> QED BY <2>7, <2>8, <2>9 DEF UnderWay
  <1>8. CASE WritePayload("conn")
    <2> DEFINE data == f.data
    <2>1. wire' = wire \o data /\ f.step = "payload" /\ out'["conn"] = noFrame
      BY <1>2, <1>8 DEF WritePayload
    <2>2. NoText'
      BY <2>1 DEF NoText
    <2> HIDE DEF f
    <2>3. /\ \A T : TextOnlyAt(wire, T) /\ (\A i \in T : i \in 1..Len(wire)) => TextOnlyAt(wire', T)
          /\ Len(wire') = Len(wire) + Len(data) /\ wire' \in Seq(Headers \cup Unit)
          /\ \A i \in 1..Len(wire) : wire'[i] = wire[i]
          /\ \A k \in 1..Len(data) : wire'[Len(wire) + k] = data[k]
      <3>1. data \in Seq(Unit) /\ data \in Seq(Headers \cup Unit)
        BY <1>4, SeqMonotonic
      <3>2. wire' \in Seq(Headers \cup Unit)
        BY <1>2, <2>1, <3>1
      <3> HIDE DEF data
      <3>3. ASSUME NEW T, TextOnlyAt(wire, T), \A i \in T : i \in 1..Len(wire)
            PROVE  /\ TextOnlyAt(wire', T) /\ Len(wire') = Len(wire) + Len(data)
                   /\ \A i \in 1..Len(wire) : wire'[i] = wire[i]
                   /\ \A k \in 1..Len(data) : wire'[Len(wire) + k] = data[k]
        BY <1>2, <2>1, <3>1, <3>3, TextsPayload
      <3> DEFINE S == {i \in 1..Len(wire) : IsHeader(wire[i]) /\ wire[i].op = "text"}
      <3>4. TextOnlyAt(wire, S) /\ \A i \in S : i \in 1..Len(wire)
        BY <1>6 DEF TextOnlyAt
      <3> HIDE DEF S
      <3> QED BY <3>2, <3>3, <3>4
    <2>4. TextOnlyAt(wire, {}) => TextOnlyAt(wire', {})
      BY <2>3
    <2>5. (Silent => Silent') /\ (InBuffer(a) => InBuffer(a)')
      BY <1>5, <2>2, <2>4 DEF Silent, InBuffer
    <2>6. ASSUME NEW i \in 1..Len(wire), TextOnlyAt(wire, {i}), reply = <<>>, Length(wire[i]) = Len(a),
                 i + Len(a) <= Len(wire'), \A k \in 1..Len(a) : wire'[i + k] = a[k]
          PROVE  OnWire(a)'
      <3>1. TextOnlyAt(wire', {i}) /\ wire'[i] = wire[i]
        BY <2>3, <2>6
      <3>2. i \in DOMAIN wire'
        <4>1. Len(data) \in Nat
          BY <1>4
        <4> QED BY <1>6, <2>3, <4>1
      <3> QED BY <1>5, <1>6, <2>2, <2>6, <3>1, <3>2 DEF OnWire
    <2>7. InFrame(a) => OnWire(a)'
      <3> HAVE InFrame(a)
      <3>1. reply = <<>> /\ data = a /\ TextOnlyAt(wire, {Len(wire)})
        BY <2>1 DEF InFrame, f
      <3>2. Len(wire) \in 1..Len(wire) /\ Length(wire[Len(wire)]) = Len(a)
        BY <2>1, <3>1, LastHeader DEF f
      <3>3. Len(wire) + Len(a) <= Len(wire') /\ \A k \in 1..Len(a) : wire'[Len(wire) + k] = a[k]
        BY <1>6, <2>3, <3>1
      <3> QED BY <2>6, <3>1, <3>2, <3>3
    <2>8. OnWire(a) => OnWire(a)'
      <3> HAVE OnWire(a)
      <3>1. PICK i \in DOMAIN wire :
              /\ TextOnlyAt(wire, {i}) /\ Length(wire[i]) = Len(a) /\ i + Len(a) <= Len(wire)
              /\ \A k \in DOMAIN a : wire[i + k] = a[k]
        BY DEF OnWire
      <3>2. i \in 1..Len(wire) /\ \A k \in 1..Len(a) : i + k \in 1..Len(wire)
        BY <1>6, <3>1
      <3>3. i + Len(a) <= Len(wire')
        <4>1. Len(data) \in Nat
          BY <1>4
        <4> QED BY <1>6, <2>3, <3>1, <3>2, <4>1
      <3>4. \A k \in 1..Len(a) : wire'[i + k] = a[k]
        BY <1>6, <2>3, <3>1, <3>2
      <3> QED BY <2>6, <3>1, <3>2, <3>3, <3>4 DEF OnWire
    <2> QED BY <2>5, <2>7, <2>8 DEF UnderWay
  <1>9. CASE WriteFails("conn")
    <2>1. out'["conn"] = noFrame /\ UNCHANGED <<reply, wire>> /\ f.step = "lock"
      BY <1>2, <1>9 DEF WriteFails, server
    <2>2. NoText'
      BY <2>1 DEF NoText
    <2>3. (Silent => Silent') /\ (InBuffer(a) => InBuffer(a)')
      BY <2>1, <2>2 DEF Silent, InBuffer
    <2>4. InFrame(a) => Silent'
      BY <2>1, <2>2 DEF InFrame, Silent
    <2>5. OnWire(a) => OnWire(a)'
      BY <2>1, <2>2 DEF OnWire
    <2> QED BY <2>3, <2>4, <2>5 DEF UnderWay
  <1> QED BY <1>1, <1>7, <1>8, <1>9 DEF WriteFrame

\* The browser takes a frame: it is no part of the answer, or all of it.
LEMMA AnswerRead ==
  ASSUME TypeInv, LockInv, FrameInv, handleServerMessage, pending
  PROVE  /\ Silent => Silent' /\ UNCHANGED <<pending, rows, shown>>
         /\ \A q \in Nat, n \in RowCounts \cup {-1} :
              UnderWay(Answer(q, n)) /\ rows = <<>> =>
                \/ UnderWay(Answer(q, n))' /\ UNCHANGED <<pending, rows, shown>>
                \/ /\ ~pending'
                   /\ \/ shown' = shown
                      \/ /\ n \in Nat
                         /\ shown' = [query |-> query, rows |-> [i \in 1..n |-> Body(Row(q, i))],
                                      crossed |-> crossed]
  <1> DEFINE h == Head(wire)
             m == Length(h)
             part == SubSeq(wire, 2, m + 1)
             lines == IF h.op = "text" THEN Lines(part) ELSE <<>>
             k == m + 1
  <1>1. /\ wire \in Seq(Headers \cup Unit) /\ wire # <<>> /\ h = wire[1]
        /\ h \in Headers /\ m \in Nat /\ m < Len(wire) /\ part \in Seq(Unit)
        /\ wire' = SubSeq(wire, m + 2, Len(wire)) /\ wire' \in Seq(Headers \cup Unit)
        /\ lines \in Seq(Seq(Unit)) /\ OnLines(lines)
    BY MessageForm
  <1>2. UNCHANGED <<reply, out>>
    BY DEF handleServerMessage, server
  <1> HIDE DEF h
  <1>3. m = Length(wire[1]) /\ IsHeader(wire[1])
    BY <1>1, HeaderForm
  <1> HIDE DEF m
  <1>4. k \in Nat /\ Len(wire') = Len(wire) - k /\ \A i \in 1..Len(wire') : wire'[i] = wire[k + i]
    <2>1. Framed(wire, writeLock # {})
      BY FramedWire DEF FrameInv
    <2>2. /\ Len(wire') = Len(wire) - (m + 1)
          /\ \A i \in 1..Len(wire') : wire'[i] = wire[m + 1 + i]
      <3>1. wire \in Seq(Headers \cup Unit) /\ wire # <<>> /\ m \in Nat /\ m < Len(wire)
        BY <1>1
      <3>2. LET rest == SubSeq(wire, m + 2, Len(wire))
            IN /\ Len(rest) = Len(wire) - (m + 1)
               /\ \A i \in 1..Len(rest) : rest[i] = wire[m + 1 + i]
        BY <1>3, <2>1, <3>1, FramedTaken
      <3> QED BY <1>1, <3>2
    <2> QED BY <1>1, <2>2
  <1>5. /\ DOMAIN wire = 1..Len(wire) /\ DOMAIN wire' = 1..Len(wire') /\ Len(wire) \in Nat
        /\ Len(wire') \in Nat /\ 1 \in 1..Len(wire)
    BY <1>1, EmptySeq
  <1>6. CASE h.op # "text"
    <2>1. UNCHANGED <<pending, rows, shown>>
      <3>1. lines = <<>>
        BY <1>6
      <3> HIDE DEF lines
      <3> QED BY <1>1, <3>1, OnLinesTypes
    <2> HIDE DEF lines, part, k
    <2>2. ASSUME NEW T, TextOnlyAt(wire, T), NEW U, \A i \in 1..Len(wire') : i \in U <=> k + i \in T
          PROVE  TextOnlyAt(wire', U)
      BY <1>1, <1>4, <2>2, TextsTaken
    <2>3. TextOnlyAt(wire, {}) => TextOnlyAt(wire', {})
      BY <2>2
    <2>4. NoText => NoText'
      BY <1>2 DEF NoText
    <2>5. Silent => Silent'
      BY <1>2, <2>3, <2>4 DEF Silent
    <2>6. ASSUME NEW a \in Seq(Unit), UnderWay(a)
          PROVE  UnderWay(a)'
      <3>1. InBuffer(a) => InBuffer(a)'
        BY <1>2, <2>3, <2>4 DEF InBuffer
      <3>2. InFrame(a) => InFrame(a)'
        <4> HAVE InFrame(a)
        <4>1. TextOnlyAt(wire, {Len(wire)}) => TextOnlyAt(wire', {Len(wire')})
          <5> HAVE TextOnlyAt(wire, {Len(wire)})
          <5>1. \A i \in 1..Len(wire') : i \in {Len(wire')} <=> k + i \in {Len(wire)}
            BY <1>4, <1>5
          <5> QED BY <2>2, <5>1
        <4> QED BY <1>2, <2>3, <4>1 DEF InFrame
      <3>3. OnWire(a) => OnWire(a)'
        <4> HAVE OnWire(a)
        <4>1. PICK i \in DOMAIN wire :
                /\ TextOnlyAt(wire, {i}) /\ Length(wire[i]) = Len(a) /\ i + Len(a) <= Len(wire)
                /\ \A j \in DOMAIN a : wire[i + j] = a[j]
          BY DEF OnWire
        <4>2. i \in 1..Len(wire) /\ i # 1 /\ IsHeader(wire[i])
          <5>1. h.op # "text" /\ h = wire[1]
            BY <1>1, <1>6
          <5>2. 1 \notin {i} /\ IsHeader(wire[i])
            BY <1>5, <4>1, <5>1 DEF TextOnlyAt
          <5> QED BY <1>5, <5>2
        <4>3. i > k
          <5> SUFFICES ASSUME i <= k PROVE FALSE
            BY <1>4, <4>2
          <5>1. i \in 2..(1 + Length(wire[1])) /\ i \in 1..Len(wire)
            <6>1. i \in Nat /\ i # 0 /\ i # 1 /\ i <= m + 1
              BY <4>2 DEF k
            <6>2. i \in 2..(1 + m)
              BY <1>1, <6>1
            <6> QED BY <1>3, <4>2, <6>2
          <5>2. ~IsHeader(wire[i])
            BY <1>3, <1>5, <5>1 DEF FrameInv, WireFramed
          <5> QED BY <4>2, <5>2
        <4> DEFINE j == i - k
        <4>4. j \in 1..Len(wire') /\ k + j = i /\ Len(a) \in Nat /\ DOMAIN a = 1..Len(a)
          BY <1>4, <1>5, <4>2, <4>3
        <4> HIDE DEF j
        <4>5. TextOnlyAt(wire', {j})
          <5>1. \A l \in 1..Len(wire') : l \in {j} <=> k + l \in {i}
            BY <1>4, <1>5, <4>2, <4>4
          <5> QED BY <2>2, <4>1, <5>1
        <4>6. Length(wire'[j]) = Len(a) /\ j + Len(a) <= Len(wire')
          <5>1. wire'[j] = wire[i] /\ Length(wire[i]) = Len(a)
            BY <1>4, <4>1, <4>4
          <5>2. j + Len(a) <= Len(wire')
            <6>1. i + Len(a) <= Len(wire) /\ j \in Nat /\ Len(wire') = Len(wire) - k
              BY <1>4, <1>5, <4>1, <4>4
            <6> QED BY <1>4, <1>5, <4>4, <6>1
          <5> QED BY <5>1, <5>2
        <4>7. \A l \in 1..Len(a) : wire'[j + l] = a[l]
          <5> TAKE l \in 1..Len(a)
          <5>1. j + l \in 1..Len(wire') /\ k + (j + l) = i + l
            BY <1>4, <1>5, <4>4, <4>6
          <5> QED BY <1>4, <4>1, <4>4, <5>1
        <4>8. reply' = <<>> /\ NoText'
          BY <1>2, <2>4 DEF OnWire
        <4> QED BY <1>5, <4>4, <4>5, <4>6, <4>7, <4>8 DEF OnWire
      <3> QED BY <2>5, <2>6, <3>1, <3>2, <3>3 DEF UnderWay
    <2>7. \A q \in Nat, n \in RowCounts \cup {-1} :
            UnderWay(Answer(q, n)) => UnderWay(Answer(q, n))'
      <3> TAKE q \in Nat, n \in RowCounts \cup {-1}
      <3>1. Answer(q, n) \in Seq(Unit)
        BY AnswerForm
      <3> DEFINE a == Answer(q, n)
      <3>2. UnderWay(a) => UnderWay(a)'
        <4> HIDE DEF a
        <4>1. a \in Seq(Unit)
          BY <3>1 DEF a
        <4> QED BY <2>6, <4>1
      <3> QED BY <3>2
    <2> QED BY <2>1, <2>5, <2>7
  <1>7. CASE h.op = "text"
    <2>1. \A T : TextOnlyAt(wire, T) => 1 \in T
      BY <1>1, <1>3, <1>5, <1>7 DEF TextOnlyAt
    <2>2. ~Silent
      BY <2>1 DEF Silent
    <2>3. ASSUME NEW q \in Nat, NEW n \in RowCounts \cup {-1}, UnderWay(Answer(q, n)), rows = <<>>
          PROVE  /\ ~pending'
                 /\ \/ shown' = shown
                    \/ /\ n \in Nat
                       /\ shown' = [query |-> query, rows |-> [i \in 1..n |-> Body(Row(q, i))],
                                    crossed |-> crossed]
      <3> DEFINE a == Answer(q, n)
      <3>1. a \in Seq(Unit) /\ Len(a) >= 3 /\ Len(a) \in Nat /\ DOMAIN a = 1..Len(a) /\ a # <<>>
        <4>1. a \in Seq(Unit) /\ Len(a) >= 3
          BY AnswerForm
        <4> HIDE DEF a
        <4>2. Len(<<>>) = 0
          OBVIOUS
        <4> QED BY <4>1, <4>2
      <3> HIDE DEF a
      <3>2. ~InBuffer(a)
        BY <2>1 DEF InBuffer
      <3>3. ~InFrame(a)
        <4> SUFFICES ASSUME InFrame(a) PROVE FALSE
          OBVIOUS
        <4>1. out["conn"].step = "payload" /\ out["conn"].data = a /\ TextOnlyAt(wire, {Len(wire)})
          BY <2>1 DEF InFrame
        <4>2. Len(wire) = 1
          BY <2>1, <4>1
        <4>3. Length(wire[Len(wire)]) = Len(a)
          BY <3>1, <4>1, LastHeader
        <4>4. m = Len(a)
          BY <1>3, <4>2, <4>3
        <4> QED BY <1>1, <3>1, <4>2, <4>4
      <3>4. OnWire(a)
        BY <2>2, <2>3, <3>2, <3>3 DEF UnderWay, a
      <3>5. PICK i \in DOMAIN wire :
              /\ TextOnlyAt(wire, {i}) /\ Length(wire[i]) = Len(a) /\ i + Len(a) <= Len(wire)
              /\ \A j \in DOMAIN a : wire[i + j] = a[j]
        BY <3>4 DEF OnWire
      <3>6. i = 1
        BY <2>1, <3>5
      <3>7. m = Len(a) /\ \A j \in 1..Len(a) : wire[1 + j] = a[j]
        BY <1>3, <3>1, <3>5, <3>6
      <3>8. part = a
        <4>1. /\ Len(part) = IF 2 <= m + 1 THEN (m + 1) - 2 + 1 ELSE 0
              /\ \A j \in 1..((m + 1) - 2 + 1) : part[j] = wire[2 + j - 1]
          <5>1. \A j \in 2..(m + 1) : wire[j] \in Headers \cup Unit
            BY <1>1, <1>5
          <5>2. 2 \in Int /\ m + 1 \in Int
            BY <1>1
          <5> QED BY <5>1, <5>2, SubSeqProperties
        <4> HIDE DEF part
        <4>2. Len(part) = Len(a)
          BY <3>1, <3>7, <4>1
        <4>3. \A j \in 1..Len(a) : part[j] = a[j]
          <5> TAKE j \in 1..Len(a)
          <5>1. j \in 1..((m + 1) - 2 + 1) /\ 2 + j - 1 = 1 + j
            BY <3>1, <3>7
          <5> QED BY <3>7, <4>1, <5>1
        <4> QED BY <1>1, <3>1, <4>2, <4>3, SeqEqual
      <3>9. OnLines(Lines(Answer(q, n)))
        BY <1>1, <1>7, <3>8 DEF a
      <3>10. /\ pending' = FALSE
             /\ n = -1 => shown' = shown
             /\ n # -1 => /\ n \in Nat
                          /\ shown' = [query |-> query, rows |-> [j \in 1..n |-> Body(Row(q, j))],
                                       crossed |-> crossed]
        BY <2>3, <3>9, AnswerShown
      <3> QED BY <3>10
    <2> QED BY <2>2, <2>3
  <1> QED BY <1>6, <1>7

\* An answer that was given is one.
LEMMA AnswerGiven ==
  ASSUME TypeInv, QueryInv, pending, ~crossed, Len(handled) = query
  PROVE  /\ query \in Nat /\ answer[query] \in RowCounts \cup {-1}
         /\ Answer(query, answer[query]) \in Seq(Unit) /\ Answer(query, answer[query]) # <<>>
  <1>1. query \in 1..MaxCommands /\ query \in Nat
    BY GatewayAssumption DEF TypeInv, QueryInv
  <1>2. answer[query] \in RowCounts \cup {-1}
    <2>1. answer[query] \in RowCounts \cup {-1, -2} /\ answer[query] # -2
      BY <1>1 DEF TypeInv, QueryInv
    <2> QED BY <2>1
  <1> DEFINE n == answer[query]
             a == Answer(query, n)
  <1>3. a \in Seq(Unit) /\ Len(a) >= 3
    <2> HIDE DEF n
    <2> QED BY <1>1, <1>2, AnswerForm DEF n
  <1> HIDE DEF a
  <1>4. a # <<>>
    <2>1. Len(<<>>) = 0
      OBVIOUS
    <2> QED BY <1>3, <2>1
  <1> QED BY <1>1, <1>2, <1>3, <1>4 DEF a

\* No command is sent or handled, and the answer stays on its way.
LEMMA QuerySame ==
  ASSUME TypeInv, QueryInv, UNCHANGED <<query, sent, handled, answer, crossed>>, pending' => pending,
         pending /\ ~crossed => UNCHANGED out["alert"],
         pending' /\ ~crossed /\ rows = <<>> /\ Silent => rows' = <<>> /\ Silent',
         \A q \in Nat, n \in RowCounts \cup {-1} :
           /\ pending' /\ ~crossed /\ rows = <<>> /\ Answer(q, n) # <<>> /\ Answer(q, n) \in Seq(Unit)
           /\ UnderWay(Answer(q, n)) /\ Len(Answer(q, n)) <= BufSize
           => rows' = <<>> /\ UnderWay(Answer(q, n))'
  PROVE  QueryInv'
  <1> SUFFICES ASSUME pending', ~crossed'
               PROVE  (/\ query > 0 /\ query = Len(sent) /\ sent[query].kind = "QUERY"
                       /\ Len(handled) \in {query - 1, query} /\ out["alert"] = noFrame
                       /\ Len(handled) = query - 1 => rows = <<>> /\ Silent
                       /\ Len(handled) = query =>
                            LET a == Answer(query, answer[query])
                            IN answer[query] # -2 /\ (Len(a) <= BufSize => rows = <<>> /\ UnderWay(a)))'
    BY DEF QueryInv
  <1>1. pending /\ ~crossed /\ pending'
    OBVIOUS
  <1>2. /\ query > 0 /\ query = Len(sent) /\ sent[query].kind = "QUERY"
        /\ Len(handled) \in {query - 1, query} /\ out["alert"] = noFrame
        /\ Len(handled) = query - 1 => rows = <<>> /\ Silent
        /\ Len(handled) = query =>
             /\ answer[query] # -2
             /\ Len(Answer(query, answer[query])) <= BufSize =>
                  rows = <<>> /\ UnderWay(Answer(query, answer[query]))
    BY <1>1 DEF QueryInv
  <1>3. ASSUME Len(handled) = query, Len(Answer(query, answer[query])) <= BufSize
        PROVE  rows' = <<>> /\ UnderWay(Answer(query, answer[query]))'
    <2>1. /\ query \in Nat /\ answer[query] \in RowCounts \cup {-1}
          /\ Answer(query, answer[query]) \in Seq(Unit) /\ Answer(query, answer[query]) # <<>>
      BY <1>1, <1>3, AnswerGiven
    <2>2. PICK q \in Nat, n \in RowCounts \cup {-1} : q = query /\ n = answer[query]
      BY <2>1
    <2>3. rows' = <<>> /\ UnderWay(Answer(q, n))'
      BY <1>1, <1>2, <1>3, <2>1, <2>2
    <2>4. query' = q /\ answer'[query'] = n
      BY <2>2
    <2> QED BY <2>3, <2>4
  <1> QED BY <1>1, <1>2, <1>3

\* A query that finds nothing under way is the last command, and no answer comes yet.
LEMMA QuerySent ==
  ASSUME TypeInv, CommandInv, SendQuery
  PROVE  QueryInv'
  <1> SUFFICES ASSUME ~crossed' PROVE QueryInv'
    BY DEF QueryInv
  <1> DEFINE q == Len(sent) + 1
             c == [kind |-> "QUERY", id |-> q]
  <1>1. /\ SendCommand(c) /\ rows' = <<>> /\ query' = q
        /\ crossed' = (pending \/ ~Quiet)
    BY DEF SendQuery
  <1>2. /\ sent' = Append(sent, c) /\ UNCHANGED <<server, out, wire, handled>>
    BY <1>1 DEF SendCommand
  <1>3. Quiet
    BY <1>1
  <1>4. /\ up = <<>> /\ scan \o readBuf = <<>> /\ reply = <<>> /\ wire = <<>>
        /\ out["conn"] = noFrame /\ out["alert"] = noFrame
    BY <1>3 DEF Quiet, Writers
  <1>5. Len(handled) \in Nat /\ Len(sent) \in Nat /\ sent \in Seq(Command)
    BY DEF TypeInv
  <1>6. Len(handled) = Len(sent)
    <2>1. Coming(Select(up, Texts), sent, Len(handled))
      BY <1>4, CommandForm
    <2>2. Select(up, Texts) = <<>>
      BY <1>4, SelectEmpty
    <2>3. Len(<<>>) = Len(sent) - Len(handled) /\ Len(<<>>) = 0
      BY <2>1, <2>2 DEF Coming
    <2> QED BY <1>5, <2>3
  <1>7. Len(sent') = q /\ sent'[q] = c /\ c.kind = "QUERY"
    <2>1. c \in Command
      <3>1. q \in 1..MaxCommands
        BY <1>1, <1>5, GatewayAssumption DEF SendCommand
      <3> HIDE DEF q
      <3> QED BY <3>1 DEF Command
    <2> HIDE DEF c
    <2>2. Len(sent') = q /\ sent'[q] = c
      BY <1>2, <1>5, <2>1, AppendProperties
    <2> QED BY <2>2 DEF c
  <1>8. Silent'
    <2>1. TextOnlyAt(<<>>, {})
      BY DEF TextOnlyAt
    <2> QED BY <1>2, <1>4, <2>1 DEF Silent, NoText, server
  <1>9. Len(handled') = query' - 1 /\ query' > 0
    BY <1>1, <1>2, <1>5, <1>6
  <1>10. Len(handled') # query'
    BY <1>1, <1>5, <1>9
  <1> QED BY <1>1, <1>2, <1>4, <1>7, <1>8, <1>9, <1>10 DEF QueryInv

\* The query is handled and its answer is in the buffer.
LEMMA QueryScanned ==
  ASSUME TypeInv, CommandInv, QueryInv, ScanLine
  PROVE  QueryInv'
  <1> DEFINE k == Len(handled)
             c == sent[k + 1]
  <1>1. /\ k < Len(sent) /\ c \in Command /\ c.id = k + 1 /\ handled' = Append(handled, Body(c))
        /\ IF c.kind = "QUERY"
           THEN \E n \in RowCounts \cup {-1} :
                  /\ reply' = Answer(c.id, n)
                  /\ answer' = [answer EXCEPT ![c.id] = n]
           ELSE reply' = Bytes(Ok(c.id)) /\ answer' = answer
        /\ UNCHANGED <<out, wire, browser, sent, crossed>>
    BY ScanStep
  <1> SUFFICES ASSUME pending, ~crossed PROVE QueryInv'
    BY <1>1 DEF QueryInv, browser
  <1>2. k \in Nat /\ Len(sent) \in Nat /\ handled \in Seq(Seq(Unit))
    BY DEF TypeInv
  <1>3. /\ query > 0 /\ query = Len(sent) /\ sent[query].kind = "QUERY"
        /\ k \in {query - 1, query} /\ out["alert"] = noFrame
        /\ k = query - 1 => rows = <<>> /\ Silent
    BY DEF QueryInv
  <1>4. k = query - 1 /\ k + 1 = query
    BY <1>1, <1>2, <1>3
  <1>5. c = sent[query] /\ c.kind = "QUERY" /\ c.id = query
    BY <1>1, <1>3, <1>4
  <1>6. Len(handled') = query
    <2>1. Body(c) \in Seq(Unit)
      BY <1>1, LineTypes
    <2> HIDE DEF c
    <2>2. Len(handled') = k + 1
      BY <1>1, <1>2, <2>1, AppendProperties
    <2> QED BY <1>4, <2>2
  <1> HIDE DEF c
  <1>7. PICK n \in RowCounts \cup {-1} :
          reply' = Answer(query, n) /\ answer' = [answer EXCEPT ![query] = n]
    BY <1>1, <1>5
  <1>8. answer'[query] = n /\ n # -2
    <2>1. query \in 1..MaxCommands
      BY <1>3, GatewayAssumption DEF TypeInv
    <2>2. n # -2
      BY GatewayAssumption
    <2> QED BY <1>7, <2>1, <2>2 DEF TypeInv
  <1>9. rows' = <<>> /\ reply' = Answer(query, answer'[query])
    BY <1>1, <1>3, <1>4, <1>7, <1>8 DEF browser
  <1>10. NoText' /\ TextOnlyAt(wire, {})'
    BY <1>1, <1>3, <1>4 DEF Silent, NoText
  <1>11. UnderWay(Answer(query, answer[query]))'
    <2>1. query' = query
      BY <1>1 DEF browser
    <2> QED BY <1>9, <1>10, <2>1 DEF UnderWay, InBuffer
  <1>12. Len(handled') # query - 1
    BY <1>2, <1>4, <1>6
  <1> QED BY <1>1, <1>3, <1>6, <1>8, <1>9, <1>11, <1>12 DEF QueryInv, browser

\* The connection's other steps: an answer leaves the buffer in one frame, if it fits.
LEMMA QueryServed ==
  ASSUME TypeInv, QueryInv, ReadFrame \/ ReadRest \/ FlushReply
  PROVE  QueryInv'
  <1>1. UNCHANGED <<query, rows, pending, sent, handled, answer, crossed, wire>>
    BY DEF ReadFrame, ReadRest, FlushReply, browser, hist
  <1>2. out \in [Writers -> {noFrame} \cup Handed] /\ "conn" \in Writers
    BY DEF TypeInv, Writers
  <1>3. UNCHANGED out["alert"]
    <2>1. out' = out \/ \E g : out' = [out EXCEPT !["conn"] = g]
      BY DEF ReadFrame, ReadRest, FlushReply
    <2> QED BY <1>2, <2>1 DEF Writers
  <1>4. CASE ReadFrame \/ ReadRest
    <2>1. reply = <<>> /\ out["conn"] = noFrame /\ UNCHANGED reply
      BY <1>4 DEF ReadFrame, ReadRest, NeedsData, Reading
    <2>2. NoText'
      <3>1. \A data : InHand("pong", data).op # "text" /\ InHand("close", data).op # "text"
        BY DEF InHand
      <3>2. \/ out' = out
            \/ \E data : out' = [out EXCEPT !["conn"] = InHand("pong", data)]
            \/ \E data : out' = [out EXCEPT !["conn"] = InHand("close", data)]
        BY <1>4 DEF ReadFrame, ReadRest
      <3> QED BY <1>2, <2>1, <3>1, <3>2 DEF NoText
    <2>3. Silent => Silent'
      BY <1>1, <2>1, <2>2 DEF Silent
    <2>4. \A a : UnderWay(a) => UnderWay(a)'
      <3> TAKE a
      <3>1. InBuffer(a) => InBuffer(a)'
        BY <1>1, <2>1, <2>2 DEF InBuffer
      <3>2. ~InFrame(a)
        BY <2>1 DEF InFrame
      <3>3. OnWire(a) => OnWire(a)'
        BY <1>1, <2>1, <2>2 DEF OnWire
      <3> QED BY <2>3, <3>1, <3>2, <3>3 DEF UnderWay
    <2> QED BY <1>1, <1>3, <2>3, <2>4, QuerySame
  <1>5. CASE FlushReply
    <2> DEFINE n == IF Len(reply) < BufSize THEN Len(reply) ELSE BufSize
    <2>1. /\ reply # <<>> /\ reply \in Seq(Unit)
          /\ out' = [out EXCEPT !["conn"] = InHand("text", SubSeq(reply, 1, n))]
          /\ reply' = SubSeq(reply, n + 1, Len(reply))
      BY <1>5 DEF FlushReply, TypeInv
    <2>2. ~Silent /\ \A a : UnderWay(a) => InBuffer(a)
      BY <2>1 DEF Silent, UnderWay, InFrame, OnWire
    <2>3. ASSUME NEW a \in Seq(Unit), Len(a) <= BufSize, InBuffer(a)
          PROVE  InFrame(a)'
      <3>1. reply = a /\ TextOnlyAt(wire, {}) /\ n = Len(a) /\ Len(a) \in Nat
        BY <2>1, <2>3, GatewayAssumption DEF InBuffer
      <3> HIDE DEF n
      <3>2. SubSeq(a, 1, Len(a)) = a
        BY SubSeqFull
      <3>3. SubSeq(a, Len(a) + 1, Len(a)) = <<>>
        <4>1. Len(a) \in Int /\ Len(a) + 1 \in Int /\ Len(a) < Len(a) + 1
          BY <3>1
        <4> QED BY <4>1, SubSeqEmpty
      <3>4. reply' = <<>> /\ out'["conn"] = InHand("text", a)
        BY <1>2, <2>1, <3>1, <3>2, <3>3
      <3> DEFINE f == InHand("text", a)
      <3>5. f.op = "text" /\ f.data = a /\ f.step = "lock" /\ f # noFrame
        BY DEF InHand, noFrame
      <3>6. TextOnlyAt(wire', {})
        BY <1>1, <3>1
      <3> QED BY <3>4, <3>5, <3>6 DEF InFrame
    <2>4. \A a \in Seq(Unit) : UnderWay(a) /\ Len(a) <= BufSize => UnderWay(a)'
      BY <2>2, <2>3 DEF UnderWay
    <2>5. UNCHANGED <<query, sent, handled, answer, crossed, pending, rows>>
      BY <1>1
    <2> QED BY <1>3, <2>2, <2>4, <2>5, QuerySame
  <1> QED BY <1>4, <1>5

\* The invariant of a pending query holds after every step.
LEMMA QueryStep ==
  ASSUME TypeInv, TypeInv', LockInv, FrameInv, CommandInv, QueryInv, [Next]_vars
  PROVE  QueryInv'
  <1>1. CASE SendQuery
    BY <1>1, QuerySent
  <1>2. CASE SendWrite \/ BroadcastAlert
    BY <1>2 DEF SendWrite, BroadcastAlert, QueryInv
  <1>3. ASSUME UNCHANGED <<query, sent, handled, answer, crossed, pending, rows, out, reply, wire>>
        PROVE  QueryInv'
    BY <1>3 DEF QueryInv, Silent, UnderWay, InBuffer, InFrame, OnWire, NoText
  <1>4. CASE SendOther("ping") \/ SendOther("oversized") \/ disconnectServer \/ UNCHANGED vars
    BY <1>3, <1>4 DEF SendOther, disconnectServer, vars, server, browser, hist
  <1>5. CASE handleServerMessage
    <2>1. UNCHANGED <<query, sent, handled, answer, crossed, out>>
      BY <1>5 DEF handleServerMessage, hist
    <2>2. PICK lines \in Seq(Seq(Unit)) : OnLines(lines)
      BY <1>5, MessageForm
    <2>3. pending' => pending
      BY <2>2, OnLinesTypes
    <2>4. pending' /\ Silent => rows' = rows /\ Silent'
      BY <1>5, <2>3, AnswerRead
    <2>5. \A q \in Nat, n \in RowCounts \cup {-1} :
            pending' /\ rows = <<>> /\ UnderWay(Answer(q, n)) => rows' = rows /\ UnderWay(Answer(q, n))'
      BY <1>5, <2>3, AnswerRead
    <2> QED BY <2>1, <2>3, <2>4, <2>5, QuerySame
  <1>6. CASE Serve
    BY <1>6, QueryScanned, QueryServed DEF Serve
  <1>7. ASSUME NEW t \in Writers, WriteFrame(t)
        PROVE  QueryInv'
    <2>1. UNCHANGED <<query, sent, handled, answer, crossed, pending, rows>>
      BY <1>7 DEF WriteFrame, WriteHeader, WritePayload, WriteFails, browser, hist
    <2>2. CASE ~(pending /\ ~crossed)
      BY <2>1, <2>2 DEF QueryInv
    <2>3. CASE pending /\ ~crossed
      <3>1. out["alert"] = noFrame
        BY <2>3 DEF QueryInv
      <3>2. out'["alert"] = out["alert"]
        <4>1. t # "alert"
          BY <1>7, <3>1 DEF WriteFrame, WriteHeader, WritePayload, WriteFails, noFrame
        <4>2. out \in [Writers -> {noFrame} \cup Handed] /\ "alert" \in Writers
          BY DEF TypeInv, Writers
        <4> QED BY <1>7, <4>1, <4>2 DEF WriteFrame, WriteHeader, WritePayload, WriteFails
      <3>3. \A a \in Seq(Unit) : a # <<>> => (Silent => Silent') /\ (UnderWay(a) => UnderWay(a)')
        BY <1>7, <3>1, AnswerWritten
      <3>4. Silent => Silent'
        <4>1. \E a \in Seq(Unit) : a # <<>>
          <5>1. newline \in Unit
            BY LineUnits
          <5>2. <<newline>> \in Seq(Unit) /\ <<newline>> # <<>>
            BY <5>1
          <5> QED BY <5>2
        <4> QED BY <3>3, <4>1
      <3> QED BY <2>1, <3>2, <3>3, <3>4, QuerySame
    <2> QED BY <2>2, <2>3
  <1> QED BY <1>1, <1>2, <1>4, <1>5, <1>6, <1>7 DEF Next

\* What is shown is the answer to a query that was handled.
LEMMA ShownStep ==
  ASSUME TypeInv, TypeInv', LockInv, FrameInv, CommandInv, AnswerInv, [Next]_vars
  PROVE  /\ shown'.query # 0 /\ ~shown'.crossed => shown'.query <= Len(handled')
         /\ AnswerExact'
  <1>1. shown.query # 0 /\ ~shown.crossed => shown.query <= Len(handled)
    BY DEF AnswerInv
  <1>2. AnswerExact /\ QueryInv
    BY DEF AnswerInv
  <1>3. ASSUME UNCHANGED <<shown, handled, answer>>
        PROVE  /\ shown'.query # 0 /\ ~shown'.crossed => shown'.query <= Len(handled')
               /\ AnswerExact'
    BY <1>1, <1>2, <1>3 DEF AnswerExact
  <1>4. CASE ScanLine
    <2> DEFINE k == Len(handled)
               c == sent[k + 1]
               q == shown.query
    <2>1. /\ c \in Command /\ c.id = k + 1 /\ handled' = Append(handled, Body(c)) /\ shown' = shown
          /\ answer' = answer \/ \E n : answer' = [answer EXCEPT ![c.id] = n]
      BY <1>4, ScanStep DEF browser
    <2>2. k \in Nat /\ q \in Nat /\ handled \in Seq(Seq(Unit))
      BY GatewayAssumption DEF TypeInv
    <2>3. Len(handled') = k + 1
      <3>1. Body(c) \in Seq(Unit)
        BY <2>1, LineTypes
      <3> HIDE DEF c
      <3> QED BY <2>1, <2>2, <3>1, AppendProperties
    <2> HIDE DEF c
    <2>4. q # 0 /\ ~shown.crossed => q <= Len(handled') /\ answer'[q] = answer[q]
      <3> HAVE q # 0 /\ ~shown.crossed
      <3>1. q <= k
        BY <1>1
      <3>2. q # c.id /\ q <= Len(handled')
        BY <2>1, <2>2, <2>3, <3>1
      <3>3. q \in 1..MaxCommands /\ answer = [i \in 1..MaxCommands |-> answer[i]]
        <4>1. q \in 0..MaxCommands /\ answer \in [1..MaxCommands -> RowCounts \cup {-1, -2}]
          BY DEF TypeInv
        <4>2. q # 0 /\ MaxCommands \in Nat
          BY GatewayAssumption
        <4>3. q \in 1..MaxCommands
          BY <2>2, <4>1, <4>2
        <4> QED BY <4>1, <4>3
      <3> QED BY <2>1, <3>2, <3>3
    <2> QED BY <1>2, <2>1, <2>4 DEF AnswerExact
  <1>5. CASE handleServerMessage
    <2>1. UNCHANGED <<handled, answer, query, crossed>>
      BY <1>5 DEF handleServerMessage, hist
    <2>2. PICK lines \in Seq(Seq(Unit)) : OnLines(lines)
      BY <1>5, MessageForm
    <2>3. CASE shown' = shown
      BY <1>3, <2>1, <2>3
    <2>4. CASE shown' # shown /\ crossed
      <3>1. shown'.crossed
        BY <2>2, <2>4, OnLinesTypes
      <3> QED BY <3>1 DEF AnswerExact
    <2>5. CASE shown' # shown /\ ~crossed
      <3>1. pending /\ shown'.query = query
        BY <2>2, <2>5, OnLinesTypes
      <3>2. Len(handled) = query
        <4>1. Len(handled) \in {query - 1, query} /\ (Len(handled) = query - 1 => Silent)
          BY <1>2, <2>5, <3>1 DEF QueryInv
        <4>2. ~Silent
          BY <1>5, <2>5, <3>1, AnswerRead
        <4> QED BY <4>1, <4>2
      <3>3. shown'.query <= Len(handled')
        BY <2>1, <3>1, <3>2 DEF TypeInv
      <3>4. ASSUME Len(Answer(query, answer[query])) <= BufSize
            PROVE  /\ answer[query] >= 0
                   /\ shown'.rows = [i \in 1..answer[query] |-> Body(Row(query, i))]
        <4>1. query \in Nat /\ answer[query] \in RowCounts \cup {-1}
          BY <1>2, <2>5, <3>1, <3>2, AnswerGiven
        <4>2. rows = <<>> /\ UnderWay(Answer(query, answer[query]))
          BY <1>2, <2>5, <3>1, <3>2, <3>4 DEF QueryInv
        <4>3. /\ answer[query] \in Nat
              /\ shown' = [query |-> query, rows |-> [i \in 1..answer[query] |-> Body(Row(query, i))],
                           crossed |-> crossed]
          BY <1>5, <2>5, <3>1, <4>1, <4>2, AnswerRead
        <4> QED BY <4>3
      <3>5. AnswerExact'
        <4>1. shown'.query = query /\ answer' = answer
          BY <2>1, <3>1
        <4> QED BY <3>4, <4>1 DEF AnswerExact
      <3> QED BY <3>3, <3>5
    <2> QED BY <2>3, <2>4, <2>5
  <1>6. CASE ReadFrame \/ ReadRest \/ FlushReply
    BY <1>3, <1>6 DEF ReadFrame, ReadRest, FlushReply, browser, hist
  <1>7. CASE SendQuery \/ SendWrite
    BY <1>3, <1>7 DEF SendQuery, SendWrite, SendCommand
  <1>8. CASE SendOther("ping") \/ SendOther("oversized") \/ disconnectServer \/ BroadcastAlert
    BY <1>3, <1>8 DEF SendOther, disconnectServer, BroadcastAlert, browser
  <1>9. CASE UNCHANGED vars
    BY <1>3, <1>9 DEF vars, browser, hist
  <1>10. CASE \E t \in Writers : WriteFrame(t)
    <2>1. UNCHANGED <<shown, handled, answer>>
      BY <1>10 DEF WriteFrame, WriteHeader, WritePayload, WriteFails, browser, hist
    <2> QED BY <1>3, <2>1
  <1> QED BY <1>4, <1>5, <1>6, <1>7, <1>8, <1>9, <1>10 DEF Next, Serve
-----------------------------------------------------------------------------
(* The theorems *)

\* A gateway that starts has the invariants.
LEMMA InitHolds == Init => TypeInv /\ LockInv /\ FrameInv /\ CommandInv /\ AnswerInv
  <1> SUFFICES ASSUME Init PROVE LockInv /\ FrameInv /\ CommandInv /\ AnswerInv
    BY InitTypes
  <1>1. LockInv
    BY DEF Init, LockInv, noFrame
  <1>2. FrameInv
    BY DEF Init, FrameInv, WireFramed
  <1>3. CommandInv
    <2>1. /\ handled = <<>> /\ sent = <<>> /\ up = <<>> /\ scan \o readBuf = <<>>
      BY DEF Init
    <2>2. Select(up, Texts) = <<>>
      BY <2>1, SelectEmpty
    <2>3. Len(<<>>) = 0 /\ \A i \in 1..0 : FALSE
      OBVIOUS
    <2>4. Coming(<<>>, <<>>, 0)
      BY <2>3 DEF Coming
    <2> QED BY <2>1, <2>2, <2>3, <2>4, InitTypes, CommandForm
  <1>4. AnswerInv
    <2>1. shown.query = 0 /\ pending = FALSE
      BY DEF Init
    <2> QED BY <2>1 DEF AnswerInv, AnswerExact, QueryInv
  <1> QED BY <1>1, <1>2, <1>3, <1>4

\* Types, lock, frames, commands and answers, together.
Together == TypeInv /\ LockInv /\ FrameInv /\ CommandInv /\ AnswerInv

\* They hold together.
LEMMA AlwaysHolds == Spec => []Together
  <1>1. Together /\ [Next]_vars => Together'
    <2> SUFFICES ASSUME Together, [Next]_vars PROVE Together'
      OBVIOUS
    <2>1. TypeInv /\ LockInv /\ FrameInv /\ CommandInv /\ AnswerInv
      BY DEF Together
    <2>2. TypeInv'
      BY <2>1, NextTypes
    <2>3. LockInv' /\ FrameInv' /\ CommandInv'
      BY <2>1, <2>2, LockStep, FrameStep, CommandStep
    <2>4. QueryInv'
      BY <2>1, <2>2, QueryStep DEF AnswerInv
    <2>5. AnswerInv'
      BY <2>1, <2>2, <2>4, ShownStep DEF AnswerInv
    <2> QED BY <2>2, <2>3, <2>5 DEF Together
  <1>2. Init => Together
    BY InitHolds DEF Together
  <1> QED BY <1>1, <1>2, PTL DEF Spec

\* RFC 6455: the bytes to the browser are headers and payloads as long as they say,
\* for payloads of any length and whoever writes them, wsConn.Write, a pong or a
\* close, or a broadcast.
THEOREM FramesHold == Spec => []WireFramed
  <1>1. Together => WireFramed
    BY DEF Together, FrameInv
  <1> QED BY <1>1, AlwaysHolds, PTL

\* What wsConn.Read gives to the scanner are the commands that were sent, one by one,
\* whole and in order, with a newline or without, in pieces of any size.
THEOREM CommandsArrive == Spec => []CommandsIntact
  <1>1. Together => CommandsIntact
    BY DEF Together, CommandInv
  <1> QED BY <1>1, AlwaysHolds, PTL

\* runQuery and handleServerMessage: the rows that are shown are those of the answer, all
\* and in order, when it fits the server's buffer and nothing else was under way; however
\* many rows it has and whatever frames come between.
THEOREM AnswersExact == Spec => []AnswerExact
  <1>1. Together => AnswerExact
    BY DEF Together, AnswerInv
  <1> QED BY <1>1, AlwaysHolds, PTL
=============================================================================
