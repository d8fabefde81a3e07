SPECIFICATION LiveSpec
CONSTANTS
  Series = {s1, s2}
  Timestamps = {10}
  MaxPointsPerChunk = 2
  MaxChunkDuration = 10
  MaxNamedID = 2
  InOrder = FALSE
  Faults <- AllFaults
  MaxWrites = 2
  MaxChunks = 2
PROPERTIES
  OperationsFinish
