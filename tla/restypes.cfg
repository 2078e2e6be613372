CONSTANTS
  p1 = p1
  p2 = p2
  w1 = w1
  w2 = w2
  Preparers = {p1, p2}
  Threads = {w1, w2}
  Releases <- ThreeReleases
  Types <- OnlyOrg
  Latest <- Versioned
  Schema <- SchemaOf
  Parts = 2
  Overlap = "same release"
  WrongMethods = TRUE
SPECIFICATION Spec
SYMMETRY PreparerSymmetry
INVARIANTS
  TypeOK
  KnownIsPrepared
  RoutesHaveTables
  TypesAreNewest
