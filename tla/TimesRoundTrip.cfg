SPECIFICATION TimesSpec
CONSTANTS
  W = 7
  Widths <- Widths7
  Times <- AllTimes
  MaxDoD = 31
INVARIANTS
  TimesRoundTrip
  TimesAligned
