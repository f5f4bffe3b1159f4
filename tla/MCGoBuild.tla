----------------------------- MODULE MCGoBuild ------------------------------
(***************************************************************************)
(* Clusters for GoBuild.                                                   *)
(***************************************************************************)
EXTENDS GoBuild

Plain(v) ==
  [id |-> v, operator |-> "known", setup |-> TRUE, lonelyWhile |-> FALSE,
   cond |-> FALSE, expect |-> FALSE, config |-> "none", selectKnown |-> TRUE,
   onErr |-> {}, onOk |-> {}, deps |-> {}, elseNext |-> {}, ifNext |-> {}, next |-> {},
   input |-> <<>>, output |-> <<>>, start |-> FALSE]
Takes(x, required, extern) ==
  [from |-> <<x>>, aggregate |-> FALSE, required |-> required, extern |-> extern,
   inOut |-> FALSE, field |-> "known"]
Makes(x) == [data |-> x, field |-> "known"]
GraphOf(name, version, priority, vs) ==
  [name |-> name, version |-> version, priority |-> priority, vertex |-> vs]
Single(vs) == <<GraphOf("g", 1, 0, vs)>>

\* Every graph of deps over three vertices.
DepClusters ==
  {Single(<<[Plain("a") EXCEPT !.deps = da], [Plain("b") EXCEPT !.onOk = db],
            [Plain("c") EXCEPT !.onErr = dc]>>) :
     da, db, dc \in SUBSET {"a", "b", "c"}}

\* b takes data of a, and the two also state relations, which may differ.
RelationClusters ==
  {Single(<<[Plain("a") EXCEPT !.output = <<Makes("x")>>, !.elseNext = e, !.ifNext = i,
                               !.next = n, !.cond = k],
            [Plain("b") EXCEPT !.input = <<Takes("x", r, FALSE), Takes("x", q, TRUE)>>,
                               !.onErr = oe, !.deps = d]>>) :
     e, i, n \in {{}, {"b"}}, oe, d \in {{}, {"a"}}, k, r, q \in BOOLEAN}

\* Data flow: made twice, worked on in place, aggregated, from outside.
DataClusters ==
  {Single(<<[Plain("a") EXCEPT !.output = <<Makes("x")>>, !.start = s],
            [Plain("b") EXCEPT !.output = <<Makes(y)>>, !.deps = {"a"},
               !.input = <<[Takes("x", TRUE, FALSE) EXCEPT !.inOut = TRUE]>>],
            [Plain("c") EXCEPT
               !.input = <<[Takes("x", FALSE, e) EXCEPT !.from = <<"x", "y">>,
                                                        !.aggregate = TRUE]>>]>>) :
     s, e \in BOOLEAN, y \in {"x", "y", "z"}}

Pair == <<Plain("a"), [Plain("b") EXCEPT !.deps = {"a"}]>>
Bad(n) == Single(<<Plain("a"), n>>)
B == [Plain("b") EXCEPT !.deps = {"a"}]
NoField == [B EXCEPT !.output = <<Makes("x"), [Makes("y") EXCEPT !.field = "other"]>>]
ErrorClusters ==
  { <<>>, Single(<<>>), Single(<<Plain("a")>>), Single(<<[Plain("a") EXCEPT !.start = TRUE]>>),
    Bad([B EXCEPT !.id = "a"]), Bad([B EXCEPT !.lonelyWhile = TRUE]),
    Bad([B EXCEPT !.expect = TRUE]), Bad([B EXCEPT !.expect = TRUE, !.config = "known"]),
    Bad([B EXCEPT !.config = "known"]), Bad([B EXCEPT !.config = "unknown"]),
    Bad([B EXCEPT !.operator = "unknown"]), Bad([B EXCEPT !.operator = "none"]),
    Bad([B EXCEPT !.selectKnown = FALSE]), Bad([B EXCEPT !.setup = FALSE]),
    Bad([B EXCEPT !.deps = {"c"}]), Bad([B EXCEPT !.start = TRUE]),
    Bad([B EXCEPT !.input = <<[Takes("x", TRUE, TRUE) EXCEPT !.field = "empty"]>>]),
    Bad([B EXCEPT !.input = <<[Takes("x", TRUE, TRUE) EXCEPT !.field = "other"]>>]),
    Bad(NoField),
    Bad([B EXCEPT !.output = <<Makes("x"), Makes("x")>>]) }

\* Graphs of one name, with versions and priorities, beside another graph.
VersionClusters ==
  {<<GraphOf("g", 1, p, Pair), GraphOf("h", 1, 0, Pair), GraphOf("g", v, q, w),
     GraphOf("g", 3, r, Pair)>> :
     p, q, r \in {0, 1}, v \in {1, 2},
     w \in {Pair, <<Plain("a")>>, <<Plain("a"), NoField>>, <<[Plain("a") EXCEPT !.deps = {"b"}], B>>}}

MCClusters ==
  DepClusters \cup RelationClusters \cup DataClusters \cup ErrorClusters \cup VersionClusters
=============================================================================
