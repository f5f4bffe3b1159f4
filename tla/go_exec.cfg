\* Branches, a condition, a config setting, a missing graph and subgraph, reuse.
CONSTANTS
  Vertices <- GoVertices
  Deps <- GoDeps
  Expected <- GoExpected
  Conditional = {"next"}
  ConfigNames = {"exp"}
  ExpectConfig <- GoConfig
  NegatedConfig = {"two"}
  NoName = "none"
  Unresolved = {"other"}
  MayMiss = TRUE
  MaxRuns = 2
SPECIFICATION FairSpec
INVARIANTS QuietOnReturn
PROPERTIES ReturnsUnlessMissing ImplementsDag
CHECK_DEADLOCK FALSE
