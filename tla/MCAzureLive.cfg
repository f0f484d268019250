SPECIFICATION Spec
CONSTANTS
  Callers = {c1, c2}
  Keys = {1}
  MaxObjectBytes = 0
  MaxEtag = 2
  MaxBytesArgs <- NoMaxBytes
  NoObject = NoObject
  CreateIfMissing = TRUE
  Faults = {"service", "resend", "container"}
PROPERTIES
  CallsAreAnswered
  StoreRecovers
