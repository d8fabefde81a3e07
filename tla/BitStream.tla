----------------------------- MODULE BitStream -----------------------------
(***************************************************************************)
(* bitWriter and bitReader of compression/compression.go: streams of bits, *)
(* most significant bit first.  A stream is a sequence of 0 and 1; the     *)
(* zero bits flush pads the last byte with are never read, since the chunk *)
(* header says how many points there are.                                  *)
(***************************************************************************)
EXTENDS Integers, Sequences

CONSTANT W   \* bits of a word: 64

ASSUME WordAssumption == W \in Nat \ {0}

\* The powers of two that fit a word, as a function: its laws can be proved.
Pow2[n \in 0..W] == IF n = 0 THEN 1 ELSE 2 * Pow2[n - 1]

Bit == {0, 1}

Zeros(n) == [i \in 1..n |-> 0]

\* The lowest n bits of value, also of a negative one in two's complement.
writeBits(value, n) == [i \in 1..n |-> (value \div Pow2[n - i]) % 2]

\* n bits of the stream from position pos, as a number.
readBits(stream, pos, n) ==
  LET result[k \in 0..n] == IF k = 0 THEN 0 ELSE 2 * result[k - 1] + stream[pos + k - 1]
  IN result[n]

\* What follows a code in the stream: a decoder that reads too far finds bits.
Following(n) == [i \in 1..n |-> 1]
=============================================================================
