SPECIFICATION Spec
CONSTANTS
  PackageCount = 2
  Integrities <- TwoBuilds
  None = 0
  Attempts = 2
  Commits <- SevenCommits
  Content <- SomeCommits
  Main <- Merged
  TagVersion <- V
  MaxFailures = 1
  MaxPreparations = 2
  MaxTagMoves = 1
INVARIANTS
  TypeOK
  NoMixedRelease
  DependenciesFirst
  DoneIsComplete
  ReviewedSource
PROPERTIES
  ImplementsPublication
  RetriesComplete
CHECK_DEADLOCK FALSE
