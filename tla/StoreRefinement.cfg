SPECIFICATION Spec
CONSTANTS
  Series = {s1, s2}
  Timestamps = {10}
  MaxPointsPerChunk = 2
  MaxChunkDuration = 10
  MaxNamedID = 2
  InOrder = FALSE
  Faults = {"index", "indexLost"}
  MaxWrites = 3
  MaxChunks = 2
SYMMETRY SeriesSymmetry
INVARIANTS
  TypeOK
  IndexConsistent

  
