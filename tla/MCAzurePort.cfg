SPECIFICATION Spec
CONSTANTS
  Callers = {c1, c2}
  Keys = {1}
  MaxObjectBytes = 0
  MaxEtag = 3
  MaxBytesArgs <- SomeMaxBytes
  NoObject = NoObject
  CreateIfMissing = TRUE
  Faults = {"body", "service", "resend", "container"}
SYMMETRY CallersSymmetry
INVARIANTS
  TypeOK
  OneCreation
PROPERTY
  ImplementsBlobStore
