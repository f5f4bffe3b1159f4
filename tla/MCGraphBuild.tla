---------------------------- MODULE MCGraphBuild ----------------------------
(***************************************************************************)
(* Graphs for GraphBuild.                                                  *)
(***************************************************************************)
EXTENDS GraphBuild

Plain(v) ==
  [id |-> v, runnable |-> TRUE, known |-> TRUE,
   expect |-> None, expectDeps |-> {}, expectConfig |-> "none",
   selectKnown |-> TRUE, fieldsNamed |-> TRUE,
   deps |-> {}, depsOnOk |-> {}, depsOnErr |-> {},
   successor |-> {}, onOk |-> {}, onErr |-> {},
   consequent |-> {}, alternative |-> {},
   input |-> <<>>, output |-> {}, isStart |-> FALSE]

Takes(x, req, ext) ==
  [from |-> {x}, aggregate |-> FALSE, required |-> req, extern |-> ext,
   inOut |-> FALSE]

\* Every graph of deps over three vertices, and every one that some vertex
\* turns around with a successor relation.
DepPlans ==
  {<<[Plain("a") EXCEPT !.deps = da, !.onOk = sa],
     [Plain("b") EXCEPT !.deps = db],
     [Plain("c") EXCEPT !.deps = dc]>> :
     da \in SUBSET {"a", "b", "c"}, db \in SUBSET {"a", "b", "c"},
     dc \in SUBSET {"a", "b", "c"}, sa \in {{}, {"b"}}}

\* Data flow: a takes what it needs from b or from outside, c aggregates, b
\* works on one of its fields in place.
DataPlans ==
  {<<[Plain("a") EXCEPT !.input = <<Takes(x, r, e)>>, !.output = {"x"}],
     [Plain("b") EXCEPT !.output = {"y"}, !.onErr = s,
        !.input = <<[Takes("y", FALSE, FALSE) EXCEPT !.inOut = TRUE]>>],
     [Plain("c") EXCEPT !.deps = d,
        !.input = <<[Takes(x, r, e) EXCEPT !.from = {"x", "y"},
                                           !.aggregate = TRUE]>>]>> :
     x \in {"x", "y", "z"}, r \in BOOLEAN, e \in BOOLEAN,
     s \in {{}, {"c"}}, d \in {{}, {"a"}}}

\* Two vertices with the same condition, in either order and with their own
\* dependencies.
CondPlans ==
  {<<[Plain("a") EXCEPT !.expect = "k", !.deps = d, !.expectDeps = e],
     [Plain("b") EXCEPT !.expect = "k", !.expectConfig = g],
     [Plain("c") EXCEPT !.successor = s]>> :
     d \in {{}, {"c"}}, e \in {{}, {"c"}},
     g \in {"none", "known"}, s \in {{}, {"a"}, {"b"}}}

\* Declarations that Build refuses, and the graphs of no and of one vertex.
ErrorPlans ==
  { <<>>, <<Plain("a")>>, <<[Plain("a") EXCEPT !.deps = {"a"}]>>,
    <<Plain("a"), [Plain("a") EXCEPT !.deps = {"a"}]>>,
    <<Plain("a"), [Plain("b") EXCEPT !.deps = {"c"}]>>,
    <<Plain("a"), [Plain("b") EXCEPT !.deps = {"a"}, !.known = FALSE]>>,
    <<Plain("a"), [Plain("b") EXCEPT !.deps = {"a"}, !.selectKnown = FALSE]>>,
    <<Plain("a"), [Plain("b") EXCEPT !.deps = {"a"}, !.fieldsNamed = FALSE]>>,
    <<Plain("a"), [Plain("b") EXCEPT !.deps = {"a"}, !.expectConfig = "unknown"]>>,
    <<[Plain("a") EXCEPT !.output = {"x"}],
      [Plain("b") EXCEPT !.output = {"x"}, !.deps = {"a"}]>> }

AllPlans == DepPlans \cup DataPlans \cup CondPlans \cup ErrorPlans

\* A consumer declared before the condition that guards it.
LatePlans ==
  {<<[Plain("a") EXCEPT !.input = <<Takes("x", FALSE, FALSE)>>],
     [Plain("b") EXCEPT !.output = {"x"}, !.consequent = {"a"}]>>}

\* example/circle.toml: phase0 feeds phase1 and phase2, and phase1, phase3 and
\* phase4 form a circle.
CirclePlans ==
  {<<[Plain("p0") EXCEPT !.input = <<Takes("xxxx", FALSE, TRUE)>>,
                         !.output = {"v0", "d1"}],
     [Plain("p1") EXCEPT !.input = <<Takes("d1", TRUE, FALSE),
                                     Takes("ffy", FALSE, FALSE)>>,
                         !.output = {"ff1"}],
     [Plain("p2") EXCEPT !.input = <<Takes("v0", FALSE, FALSE)>>,
                         !.output = {"ff2"}],
     [Plain("p3") EXCEPT !.input = <<Takes("ff1", FALSE, FALSE),
                                     Takes("ff2", FALSE, FALSE)>>,
                         !.output = {"ff3"}],
     [Plain("p4") EXCEPT !.input = <<Takes("ff3", FALSE, FALSE)>>,
                         !.output = {"ffy"}]>>}
=============================================================================
