SPECIFICATION LiveSpec
CONSTANTS
  Series = {s1, s2}
  Writers = {w1, w2}
  Timestamps = {0, 3, 4}
  HourSecs = 2
  HoursPerDay = 2
  HourlyThreshold = 3
  DailyThreshold = 6
  QueryTimes = {0, 1, 3, 6, 9}
  Faults = {"write", "append", "torn"}
  MaxWrites = 3
INVARIANTS
  TypeOK
  Accounted
  CountedOnce
  
  DailyOnce
  FlushFinalizes
  TierMissesAccounted
PROPERTIES
  ImplementsHourLedger
  PointsReachBucket
