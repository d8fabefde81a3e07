--------------------------- MODULE GorillaValues ---------------------------
(***************************************************************************)
(* The value stream of the chunk codec (compression/compression.go,        *)
(* encodeXOR and decodeXOR), encoder and decoder side by side: every step  *)
(* encodes one more value and decodes the bits that were written.  The     *)
(* 64-bit words, the 5-bit field for the leading zeros and the 6-bit field *)
(* for the length scale down together: 2^MBCBits = W and 2^LZBits = W / 2. *)
(***************************************************************************)
EXTENDS BitStream, FiniteSetsExt

CONSTANTS
  LZBits,    \* bits of the field for leading zeros: 5
  MBCBits,   \* bits of the field for the number of meaningful bits: 6
  MaxLZ      \* bound on the inputs: leading zeros in the XOR of neighbours

ASSUME GorillaValuesAssumption ==
  /\ LZBits \in 0..W /\ MaxLZ \in Nat
  /\ MBCBits \in 0..W /\ Pow2[MBCBits] = W

VARIABLES
  valueEnc,   \* the encoder: previous word and window
  valueDec,   \* the decoder: what it decoded last and its window
  valueLag    \* bits written and not read, in total

valueVars == <<valueEnc, valueDec, valueLag>>

Word == [1..W -> Bit]

Codec == [prev : Word, lz : 0..W, mbc : 0..W, hasWindow : BOOLEAN]

Xor(a, b) == [i \in 1..W |-> (a[i] + b[i]) % 2]

Ones(x) == {i \in 1..W : x[i] = 1}
LeadingZeros(x) == Min(Ones(x) \cup {W + 1}) - 1
TrailingZeros(x) == W - Max(Ones(x) \cup {0})
-----------------------------------------------------------------------------
\* Mutant: the trailing zeros are not looked at.
Fits_LeadingOnly(st, lz, tz) == st.hasWindow /\ lz >= st.lz

\* All the bits that changed lie inside the window written last.
Fits(st, lz, tz) == st.hasWindow /\ lz >= st.lz /\ tz >= W - st.lz - st.mbc

\* The bits written for cur, and the encoder's state after them.
encodeXOR(cur, st) ==
  LET xor == Xor(cur, st.prev)
      lz  == LeadingZeros(xor)
      tz  == TrailingZeros(xor)
      mbc == W - lz - tz
  IN CASE cur = st.prev ->
            [code |-> <<0>>, next |-> st]
       [] cur # st.prev /\ Fits(st, lz, tz) ->
            [code |-> <<1, 0>> \o SubSeq(xor, st.lz + 1, st.lz + st.mbc),
             next |-> [st EXCEPT !.prev = cur]]
       [] OTHER ->
            [code |-> <<1, 1>> \o writeBits(lz, LZBits) \o writeBits(mbc - 1, MBCBits)
                        \o SubSeq(xor, lz + 1, lz + mbc),
             next |-> [prev |-> cur, lz |-> lz, mbc |-> mbc, hasWindow |-> TRUE]]

\* mbc bits of the stream after position pos, put behind lz zeros: what decodeXOR
\* gets by shifting them left by 64 - lz - mbc.
Placed(stream, pos, lz, mbc) ==
  Zeros(lz) \o SubSeq(stream, pos + 1, pos + mbc) \o Zeros(W - lz - mbc)

\* Mutant: the stored length is taken for mbc.
storedMBC_Raw(stream, pos) == readBits(stream, pos, MBCBits)

\* The field holds mbc - 1.
storedMBC(stream, pos) == readBits(stream, pos, MBCBits) + 1

\* The decoder's state after the code at the head of the stream, and the bits it took.
decodeXOR(stream, st) ==
  LET mbc == storedMBC(stream, 3 + LZBits)
      lz  == readBits(stream, 3, LZBits)
  IN CASE stream[1] = 0 ->
            [next |-> st, used |-> 1]
       [] stream[1] = 1 /\ stream[2] = 0 /\ st.hasWindow ->
            [next |-> [st EXCEPT !.prev = Xor(@, Placed(stream, 2, st.lz, st.mbc))],
             used |-> 2 + st.mbc]
       [] OTHER ->
            [next |-> [prev |-> Xor(st.prev, Placed(stream, 2 + LZBits + MBCBits, lz, mbc)),
                       lz |-> lz, mbc |-> mbc, hasWindow |-> TRUE],
             used |-> 2 + LZBits + MBCBits + mbc]
-----------------------------------------------------------------------------
\* The first value is written as it is; there is no window yet.
ValuesInit ==
  /\ valueEnc \in {[prev |-> v, lz |-> 0, mbc |-> 0, hasWindow |-> FALSE] : v \in Word}
  /\ valueDec = valueEnc
  /\ valueLag = 0

NextValue(cur) ==
  /\ LeadingZeros(Xor(cur, valueEnc.prev)) \in 0..MaxLZ \cup {W}
  /\ LET written == encodeXOR(cur, valueEnc)
         read    == decodeXOR(written.code \o Following(2 * W), valueDec)
     IN /\ valueEnc' = written.next
        /\ valueDec' = read.next
        /\ valueLag' = valueLag + Len(written.code) - read.used

ValuesNext == \E cur \in Word : NextValue(cur)

ValuesSpec == ValuesInit /\ [][ValuesNext]_valueVars
-----------------------------------------------------------------------------
(* Properties *)

\* compression_test.go: decoding gives back the values that were encoded,
\* whatever values came before and whichever window is in use.
ValuesRoundTrip == valueDec.prev = valueEnc.prev

\* The decoder takes exactly the bits the encoder wrote, value by value, even
\* after a value it got wrong: an error never spreads to the framing of the stream.
ValuesAligned == valueLag = 0
=============================================================================
