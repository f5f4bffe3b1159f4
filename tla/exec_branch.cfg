\* A branching graph with early exit, an end time and a config setting.
CONSTANTS
  Vertices <- BranchVertices
  Deps <- BranchDeps
  Expected <- BranchExpected
  Runnable = {"cond", "yes", "no", "meet", "side"}
  CondVertices = {"cond"}
  IgnoreError = {"cond", "no", "meet"}
  EarlyExit = {"side", "no"}
  IOVertices = {"side"}
  Injecting = {"yes"}
  FutureMode = {}
  SkipAsError = FALSE
  HasDeadline = TRUE
  ConfigNames = {"exp"}
  ExpectConfig <- BranchConfig
  NegatedConfig = {"no"}
  NoName = "none"
  IsWhile = FALSE
  WhileVertex = "cond"
  FailCodes = {7}
  MaxRounds = 1
  MaxRuns = 1
  Root = "root"
SPECIFICATION FairSpec
INVARIANTS TypeOK ReadyAfterDeps RunsAsExpected OnceEach QuietWhenDone ExitCodeReported ExitStopsDependents
PROPERTIES ExecutionEnds ImplementsDag
CHECK_DEADLOCK FALSE
