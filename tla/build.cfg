\* Every small graph: relations, data flow, shared conditions, errors; and three
\* tasks with every sequence of up to three calls.
CONSTANTS
  Ids = {"a", "b", "c", "n"}
  Conds = {"k"}
  Data = {"x", "y", "z"}
  None = "none"
  Plans <- AllPlans
  StrictDsl = TRUE
  ExprSet = TRUE
  MaxStack = 5
  TaskIds <- MCTaskIds
  MaxCalls = 3
SPECIFICATION TaskSpec
INVARIANTS CircleDecided InputsOrdered ConditionGuards BranchesAfterCondition TasksOrdered
CHECK_DEADLOCK FALSE
