SPECIFICATION ValuesSpec
CONSTANTS
  W = 4
  LZBits = 1
  MBCBits = 2
  MaxLZ = 4
INVARIANTS
  ValuesRoundTrip
