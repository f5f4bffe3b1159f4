------------------------------ MODULE MCGoExec ------------------------------
EXTENDS GoExec

\* Two start vertices; next needs both to succeed, other the first to fail, and
\* last takes any outcome of the two.
GoVertices == {"one", "two", "next", "other", "last"}
GoDeps ==
  [v \in GoVertices |->
    CASE v = "next" -> {"one", "two"}
      [] v = "other" -> {"one"}
      [] v = "last" -> {"next", "other"}
      [] OTHER -> {}]
GoExpected ==
  [v \in GoVertices |-> [d \in GoVertices |->
    CASE v = "next" -> {"OK"} [] v = "other" -> {"ERR"} [] OTHER -> Results]]
GoConfig == [v \in GoVertices |-> IF v = "two" THEN "exp" ELSE "none"]

\* A vertex and a subgraph after it.
PairVertices == {"op", "sub"}
PairDeps == [v \in PairVertices |-> IF v = "sub" THEN {"op"} ELSE {}]
PairExpected == [v \in PairVertices |-> [d \in PairVertices |-> Results]]
PairConfig == [v \in PairVertices |-> "none"]
=============================================================================
