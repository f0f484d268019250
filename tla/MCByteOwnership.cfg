SPECIFICATION SpecOwnership
CONSTANTS
  Limit = 12
  FirstCapacity = 2
  MaxEmpty = 2
  MaxChunk = 5
  Sources <- SafeSources
  Readers = {r1, r2}
  ChunkOut = 5
INVARIANTS
  OwnershipTypeOK
  AcceptedWhole
  LimitIsExact
  SlowStreamSurvives
  StreamsAreSnapshots
PROPERTIES
  BodyIsDecided
  ReadsAsBodyReader
CHECK_DEADLOCK FALSE
