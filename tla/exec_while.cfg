\* A while graph, its context used twice.
CONSTANTS
  Vertices <- LoopVertices
  Deps <- LoopDeps
  Expected <- LoopExpected
  Runnable = {"w", "b1", "b2"}
  CondVertices = {"w"}
  IgnoreError = {"w", "b1", "b2"}
  EarlyExit = {"b1"}
  IOVertices = {"b1"}
  Injecting = {}
  FutureMode = {"b2"}
  SkipAsError = TRUE
  HasDeadline = FALSE
  ConfigNames = {}
  ExpectConfig <- LoopConfig
  NegatedConfig = {}
  NoName = "none"
  IsWhile = TRUE
  WhileVertex = "w"
  FailCodes = {7}
  MaxRounds = 3
  MaxRuns = 2
  Root = "root"
SPECIFICATION FairSpec
INVARIANTS QuietAtLast ExitEndsLoop ReuseIsClean
PROPERTIES ExecutionEnds
CHECK_DEADLOCK FALSE
