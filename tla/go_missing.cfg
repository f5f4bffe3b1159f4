\* A call that names a graph the cluster does not have, before one that does.
CONSTANTS
  Vertices <- PairVertices
  Deps <- PairDeps
  Expected <- PairExpected
  Conditional = {}
  ConfigNames = {}
  ExpectConfig <- PairConfig
  NegatedConfig = {}
  NoName = "none"
  Unresolved = {}
  MayMiss = TRUE
  MaxRuns = 2
SPECIFICATION FairSpec
PROPERTIES AlwaysReturns
CHECK_DEADLOCK FALSE
