SPECIFICATION QuerySpec
CONSTANTS
  Series = {s1}
  Timestamps = {10, 20, 30}
  MaxPointsPerChunk = 2
  MaxChunkDuration = 10
  MaxNamedID = 2
  InOrder = TRUE
  Faults = {"wal0", "wal2", "chunk", "index", "truncate", "indexLost", "chunkRead"}
  MaxWrites = 3
  MaxChunks = 2
INVARIANTS
  
  QueryReturnsOnce
  MetaNeverOvercounts
  RangesCover
