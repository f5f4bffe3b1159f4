\* Values passed on, competed for, taken from subgraphs, in two executions.
CONSTANTS
  Vertices = {"a", "b", "c", "d"}
  Keys = {"x", "y", "z", "o", "s", "$v"}
  Graphs <- AllGraphs
  Outer = {"o"}
  Container = {"s"}
  Var <- Vars
  NoKey = "none"
  MaxRuns = 2
SPECIFICATION Spec
INVARIANTS TypeOK OwnRun InputsArrive MovedOnce PassedOn
CHECK_DEADLOCK FALSE
