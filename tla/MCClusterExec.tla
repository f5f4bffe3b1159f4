--------------------------- MODULE MCClusterExec ----------------------------
(***************************************************************************)
(* Clusters for ClusterExec: "top", whose graph "main" is called, and      *)
(* "sub" with the graphs "g", in which x may fail and end the graph before *)
(* y, and "h", which has one vertex.                                       *)
(***************************************************************************)
EXTENDS ClusterExec

Plain ==
  [deps |-> {}, expected |-> {"OK", "ERR"}, cluster |-> None, graph |-> None, slot |-> 0,
   config |-> None, args |-> {}, select |-> <<>>, exits |-> FALSE, ignore |-> TRUE,
   fails |-> FALSE]
Runs(k, g) == [Plain EXCEPT !.cluster = k, !.graph = g]
Config(n, negated) == [name |-> n, negated |-> negated]
Of(vs, w) == [vertices |-> vs, while |-> w]

Base ==
  [v \in Vertices |->
     IF v = "x" THEN [Plain EXCEPT !.exits = TRUE, !.fails = TRUE]
     ELSE IF v = "y" THEN [Plain EXCEPT !.deps = {"x"}, !.args = {"k"}]
     ELSE Plain]

SubGraphs == ("g" :> Of({"x", "y"}, None)) @@ ("h" :> Of({"z"}, None))
Graphs(sub) == [k \in Clusters |-> IF k = "sub" THEN sub ELSE {"main", "loop"}]

\* Settings: k asks for the parameter k; the last one has no processor.
TopSettings == <<[name |-> "n", key |-> "k", processor |-> TRUE],
                 [name |-> "o", key |-> "k", processor |-> FALSE]>>
SubSettings == <<[name |-> "m", key |-> "m", processor |-> TRUE]>>
Settings == [k \in Clusters |-> IF k = "sub" THEN SubSettings ELSE TopSettings]

OnSetting == <<[expr |-> FALSE, on |-> "n", args |-> {"m"}]>>
OnParams == <<[expr |-> TRUE, on |-> "k", args |-> {"m"}]>>

\* Two subgraphs: one may select arguments that turn a setting of its cluster on
\* and passes its error on, the other expects a setting.
Two(atOnce, g, depS, depT) ==
  [atOnce |-> atOnce, loaded |-> {"top", "sub"}, graphs |-> Graphs({"g", "h"}), settings |-> Settings,
   graph |-> SubGraphs @@ ("main" :> Of({"s", "t"}, None)),
   vertex |-> [Base EXCEPT
     !["s"] = [Runs("sub", g) EXCEPT !.deps = depS, !.select = OnSetting, !.exits = TRUE],
     !["t"] = [Runs("sub", "h") EXCEPT !.deps = depT, !.slot = 1, !.config = Config("n", FALSE)],
     !["y"] = [@ EXCEPT !.config = Config("m", TRUE)]]]

\* A loop around the subgraph.
Loop(atOnce, select) ==
  [atOnce |-> atOnce, loaded |-> {"top"}, graphs |-> Graphs({"g", "h"}), settings |-> Settings,
   graph |-> SubGraphs @@ ("main" :> Of({"s"}, None)) @@ ("loop" :> Of({"w", "b"}, "w")),
   vertex |-> [Base EXCEPT
     !["s"] = [Runs("top", "loop") EXCEPT !.select = select],
     !["w"] = [Plain EXCEPT !.fails = TRUE, !.ignore = FALSE],
     !["b"] = [Runs("sub", "h") EXCEPT !.deps = {"w"}, !.expected = {"OK"}],
     !["z"] = [Plain EXCEPT !.exits = TRUE, !.fails = TRUE, !.config = Config("n", FALSE)]]]

\* A graph that the other cluster does not have, in a loop.
Lacking ==
  [atOnce |-> 1, loaded |-> {"top", "sub"}, graphs |-> Graphs({}), settings |-> Settings,
   graph |-> ("main" :> Of({"s"}, None)) @@ ("loop" :> Of({"w", "b"}, "w")),
   vertex |-> [Base EXCEPT
     !["s"] = Runs("top", "loop"),
     !["w"] = [Plain EXCEPT !.fails = TRUE, !.ignore = FALSE],
     !["b"] = [Runs("sub", "g") EXCEPT !.deps = {"w"}, !.expected = {"OK"}]]]

MCDesigns ==
  <<Two(2, "g", {}, {"s"}), Two(1, "g", {"t"}, {}), Two(1, "g", {}, {}),
    Two(2, "h", {"t"}, {}), Loop(1, OnParams), Loop(1, OnSetting), Lacking>>

\* One call with parameters and a time out, one without.
MCGiven == [e \in Calls |-> IF e = "e1" THEN {"k"} ELSE NoParams]
=============================================================================
