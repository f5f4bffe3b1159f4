---------------------------- MODULE MCGraphData -----------------------------
(***************************************************************************)
(* Graphs for GraphData.                                                   *)
(***************************************************************************)
EXTENDS GraphData

In(k, req, mv) ==
  [ids |-> <<k>>, aggregate |-> FALSE, required |-> req, move |-> mv,
   extern |-> FALSE, fieldExtern |-> FALSE]
All(ks, req) == [In("x", req, FALSE) EXCEPT !.ids = ks, !.aggregate = TRUE]
Extern(i) == [i EXCEPT !.extern = TRUE, !.fieldExtern = TRUE]
Out(k) == [id |-> k, inOut |-> 0, from |-> NoKey]

Make(in, out, in_graph, after, asError) ==
  [input |-> [v \in Vertices |-> IF v \in DOMAIN in THEN in[v] ELSE <<>>],
   output |-> [v \in Vertices |-> IF v \in DOMAIN out THEN out[v] ELSE <<>>],
   inner |-> [v \in Vertices |-> IF v \in DOMAIN in_graph THEN in_graph[v] ELSE {}],
   deps |-> [v \in Vertices |-> IF v \in DOMAIN after THEN after[v] ELSE {}],
   skipAsError |-> asError]
None == [v \in {} |-> {}]

\* recall_3 of example/recall_test.toml: b works on x in place and gives it on
\* as y, also when it is skipped; c takes y.
Chains ==
  {Make([b |-> <<In("x", r, TRUE)>>,
         c |-> <<In("y", q, TRUE), Extern(In("$v", FALSE, FALSE))>>],
        [a |-> <<Out("x"), Out("z")>>, b |-> <<[id |-> "y", inOut |-> 1, from |-> "x"]>>],
        None, None, e) : r \in BOOLEAN, q \in BOOLEAN, e \in BOOLEAN}

\* b and c take the same value, c also one of the caller; d aggregates.
Races ==
  {Make([b |-> <<In("x", r, TRUE)>>,
         c |-> <<In("x", q, TRUE), Extern(In("o", FALSE, TRUE))>>,
         d |-> <<All(<<"y", "z", "$v">>, FALSE)>>],
        [a |-> <<Out("x")>>, b |-> <<Out("y")>>, c |-> <<Out("z")>>],
        None, None, FALSE) : r \in BOOLEAN, q \in BOOLEAN}

\* a is a subgraph, b takes its value when it has ended, or looks without
\* waiting; c reads a service of the container.
Nested ==
  {Make([b |-> <<Extern(In("x", FALSE, m))>>,
         c |-> <<Extern(In("s", TRUE, FALSE)), In("y", r, FALSE)>>],
        [b |-> <<Out("y"), Out("$v")>>],
        [a |-> {"x"}], [b |-> d, c |-> {}], FALSE) :
     m \in BOOLEAN, r \in BOOLEAN, d \in {{}, {"a"}}}

\* The caller has a value too, for b and c when a makes none or it is gone.
Fallback ==
  {Make([b |-> <<In("o", r, m)>>, c |-> <<In("o", FALSE, TRUE)>>], [a |-> <<Out("o")>>],
        None, None, FALSE) : r \in BOOLEAN, m \in BOOLEAN}

\* The producer has the value with another type.
Faulty == {Make([b |-> <<In("y", FALSE, FALSE)>>], [a |-> <<Out("x")>>], None,
                [b |-> {"a"}], FALSE)}

AllGraphs == Chains \cup Races \cup Nested \cup Fallback \cup Faulty
Vars == [k \in {"$v"} |-> "z"]

=============================================================================
