---------------------------- MODULE MCGraphExec ----------------------------
(***************************************************************************)
(* Small graphs for GraphExec.                                             *)
(***************************************************************************)
EXTENDS GraphExec

All == Results

\* A condition with an if and an else branch that meet in a join vertex, and
\* an independent start vertex that may end the graph early.
\*     cond --OK--> yes --any--> meet      side --any--> meet
\*     cond --ERR-> no  --any--> meet
BranchVertices == {"cond", "yes", "no", "meet", "side"}
BranchDeps ==
  [v \in BranchVertices |->
    CASE v \in {"yes", "no"} -> {"cond"}
      [] v = "meet" -> {"yes", "no", "side"}
      [] OTHER -> {}]
BranchExpected ==
  [v \in BranchVertices |-> [d \in BranchVertices |->
    CASE v = "yes" -> {"OK"} [] v = "no" -> {"ERR"} [] OTHER -> All]]
BranchConfig ==
  [v \in BranchVertices |-> IF v = "no" THEN "exp" ELSE "none"]

\* A generated while graph: the condition and a body of two vertices.
LoopVertices == {"w", "b1", "b2"}
LoopDeps == [v \in LoopVertices |-> IF v = "w" THEN {} ELSE {"w"}]
LoopExpected == [v \in LoopVertices |-> [d \in LoopVertices |-> {"OK"}]]
LoopConfig == [v \in LoopVertices |-> "none"]
=============================================================================
