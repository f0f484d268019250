SPECIFICATION Spec
CONSTANTS
  Callers = {c1, c2}
  Keys = {1}
  MaxObjectBytes = 0
  MaxEtag = 3
  MaxBytesArgs <- NoMaxBytes
  NoObject = NoObject
  Faults = {}
INVARIANT
  RacesAreAnswered
