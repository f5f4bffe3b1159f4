\* An explicit relation that is declared after the input it should override.
CONSTANTS
  Ids = {"a", "b"}
  Conds = {}
  Data = {"x"}
  None = "none"
  Plans <- LatePlans
  StrictDsl = TRUE
  ExprSet = TRUE
  MaxStack = 5
SPECIFICATION Spec
INVARIANTS ExplicitOverrides
CHECK_DEADLOCK FALSE
