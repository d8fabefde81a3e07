SPECIFICATION Spec
CONSTANTS
  Series = {s1}
  Timestamps = {10, 20}
  MaxPointsPerChunk = 2
  MaxChunkDuration = 10
  MaxNamedID = 3
  InOrder = FALSE
  Faults <- DurableFaults
  MaxWrites = 3
  MaxChunks = 3
INVARIANTS
  
  
  NoPhantoms
  StoredOnce
PROPERTIES
  ChunksImmutable
