---------------------------- MODULE GorillaTimes ----------------------------
(***************************************************************************)
(* The timestamp stream of the chunk codec (compression/compression.go,    *)
(* encodeDoD and decodeDoD), encoder and decoder side by side.  The 64-bit *)
(* arithmetic and the widths 7, 9, 12 and 32 of the prefix classes are     *)
(* parameters, so that small words show what happens at their limits.      *)
(***************************************************************************)
EXTENDS BitStream

CONSTANTS
  Widths,   \* bits of the four prefix classes: <<7, 9, 12, 32>>
  Times,    \* timestamps a chunk may hold
  MaxDoD    \* bound on the inputs: absolute value of the delta of deltas

ASSUME GorillaTimesAssumption ==
  /\ MaxDoD \in Nat
  /\ Widths \in [1..4 -> 2..W]
  /\ \A i \in 1..3 : Widths[i] < Widths[i + 1]
  /\ Times \subseteq 0..(Pow2[W] - 1)

VARIABLES
  timeEnc,   \* the encoder: previous timestamp and delta
  timeDec,   \* the decoder: the same, as it decoded them
  timeLag    \* bits written and not read, in total

timeVars == <<timeEnc, timeDec, timeLag>>

Unsigned(n) == n % Pow2[W]

\* int64 arithmetic wraps around.
Signed(n) == LET u == Unsigned(n) IN IF u < Pow2[W - 1] THEN u ELSE u - Pow2[W]

\* Mutant: the field is taken for an unsigned number.
signExtend64_Not(v, n) == v

signExtend64(v, n) == IF v < Pow2[n - 1] THEN v ELSE v - Pow2[n]
-----------------------------------------------------------------------------
\* Go's negation leaves the most negative number as it is.
abs(n) == IF n < 0 THEN Signed(-n) ELSE n

Prefix == << <<1, 0>>, <<1, 1, 0>>, <<1, 1, 1, 0>>, <<1, 1, 1, 1>> >>

\* Mutant: the bound is the first number that needs one bit more.
Holds_Wide(i, dod) == i = 4 \/ abs(dod) <= Pow2[Widths[i] - 1]

\* Class i has room for dod; the last one takes whatever is left.
Holds(i, dod) == i = 4 \/ abs(dod) < Pow2[Widths[i] - 1]

encodeDoD(dod) ==
  IF dod = 0 THEN <<0>>
  ELSE LET i == CHOOSE k \in 1..4 : Holds(k, dod) /\ \A j \in 1..(k - 1) : ~Holds(j, dod)
       IN Prefix[i] \o writeBits(dod, Widths[i])

\* Mutant: the third class is read with the width of the second.
WidthRead_Swapped(i) == IF i = 3 THEN Widths[2] ELSE Widths[i]

WidthRead(i) == Widths[i]

decodeDoD(stream) ==
  IF stream[1] = 0 THEN [dod |-> 0, used |-> 1]
  ELSE LET i == CHOOSE k \in 1..4 : SubSeq(stream, 1, Len(Prefix[k])) = Prefix[k]
           n == Len(Prefix[i])
       IN [dod |-> signExtend64(readBits(stream, n + 1, WidthRead(i)), WidthRead(i)),
           used |-> n + WidthRead(i)]
-----------------------------------------------------------------------------
\* The first timestamp and the first delta are written as whole words.
TimesInit ==
  /\ \E t0, t1 \in Times : timeEnc = [ts |-> t1, delta |-> Signed(t1 - t0)]
  /\ timeDec = timeEnc
  /\ timeLag = 0

NextTimestamp(ts) ==
  LET delta   == Signed(ts - timeEnc.ts)
      dod     == Signed(delta - timeEnc.delta)
      written == encodeDoD(dod)
      read    == decodeDoD(written \o Following(W))
      decoded == Signed(timeDec.delta + read.dod)
  IN /\ -MaxDoD <= dod /\ dod <= MaxDoD
     /\ timeEnc' = [ts |-> ts, delta |-> delta]
     /\ timeDec' = [ts |-> Unsigned(timeDec.ts + decoded), delta |-> decoded]
     /\ timeLag' = timeLag + Len(written) - read.used

TimesNext == \E ts \in Times : NextTimestamp(ts)

TimesSpec == TimesInit /\ [][TimesNext]_timeVars
-----------------------------------------------------------------------------
(* Properties *)

\* compression_test.go: decoding gives back the timestamps that were encoded, in
\* time order or not, at the limits of every prefix class.
TimesRoundTrip == timeDec = timeEnc

\* The decoder takes exactly the bits the encoder wrote, even after a timestamp
\* it got wrong.
TimesAligned == timeLag = 0
=============================================================================
