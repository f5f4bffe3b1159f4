\* Every small graph, data flow, contradicting relations, errors and versions.
CONSTANTS
  Ids = {"a", "b", "c"}
  Data = {"x", "y", "z"}
  Names = {"g", "h"}
  Clusters <- MCClusters
  None = "none"
SPECIFICATION Spec
INVARIANTS VerdictDeserved BuiltAsDeclared
CHECK_DEADLOCK FALSE
