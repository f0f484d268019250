SPECIFICATION Spec
CONSTANTS
  Keys <- FourKeys
  Prefixes <- SomePrefixes
  Limits <- SomeLimits
  MaxListPageSize = 2
  Stores <- SomeStores
INVARIANTS
  TypeOK
  WalkFindsSteadyKeys
  WalkListsOnce
  WalkStaysHome
PROPERTY
  WalkEnds
