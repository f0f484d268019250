SPECIFICATION SpecOwnership
CONSTANTS
  Limit = 3
  FirstCapacity = 2
  MaxEmpty = 1
  MaxChunk = 1
  Sources <- AnySource
  Readers = {r1}
  ChunkOut = 1
INVARIANT
  AcceptedWhole
CHECK_DEADLOCK FALSE
