SPECIFICATION ValuesSpec
CONSTANTS
  W = 8
  LZBits = 2
  MBCBits = 3
  MaxLZ = 3
INVARIANTS
  ValuesRoundTrip
  ValuesAligned
