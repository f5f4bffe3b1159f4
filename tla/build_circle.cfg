\* The example with a circle.
CONSTANTS
  Ids = {"p0", "p1", "p2", "p3", "p4"}
  Conds = {}
  Data = {"xxxx", "v0", "d1", "ffy", "ff1", "ff2", "ff3"}
  None = "none"
  Plans <- CirclePlans
  StrictDsl = FALSE
  ExprSet = FALSE
  MaxStack = 12
SPECIFICATION Spec
INVARIANTS CircleRefused
CHECK_DEADLOCK FALSE
