------------------------------ MODULE GoBuild -------------------------------
(***************************************************************************)
(* GraphCluster.Build of the Go engine (go/dag.go): which graphs of a      *)
(* cluster are kept, how the declarations of a graph become vertices and   *)
(* dependencies with the results they expect, and whether the cluster is   *)
(* saved. Graphs and vertices are built in the order of a Go map, which is *)
(* any order.                                                              *)
(*                                                                         *)
(* A declaration has the id and the operator that the first loop gives it  *)
(* and its inputs and outputs as buildInputOutput leaves them.             *)
(***************************************************************************)
EXTENDS Integers, Sequences, FiniteSets, FiniteSetsExt, SequencesExt

CONSTANTS
  Ids,       \* of vertices
  Data,      \* names and types of data
  Names,     \* of graphs
  Clusters,  \* the clusters to build: sequences of graphs
  None

ASSUME IdAssumption == IsFiniteSet(Ids) /\ None \notin Ids \cup Names

\* ResultOk, ResultErr and ResultAll.
Expectations == {"ok", "err", "all"}

\* An input or output of a vertex; the operator may have no such field, or the
\* name of the field is empty.
Field == {"known", "other", "empty"}
Input == [from : Seq(Data), aggregate : BOOLEAN, required : BOOLEAN,
          extern : BOOLEAN, inOut : BOOLEAN, field : Field]
Declaration ==
  [id : Ids,
   operator : {"known", "unknown", "none"},     \* none: runs a graph
   setup : BOOLEAN,                             \* its expressions can be parsed
   lonelyWhile : BOOLEAN,                       \* while without a graph
   cond : BOOLEAN, expect : BOOLEAN,
   config : {"none", "known", "unknown"},       \* expect_config
   selectKnown : BOOLEAN,                       \* so are the settings of select_args
   onErr : SUBSET Ids, onOk : SUBSET Ids, deps : SUBSET Ids,
   elseNext : SUBSET Ids, ifNext : SUBSET Ids, next : SUBSET Ids,
   input : Seq(Input), output : Seq([data : Data, field : Field]),
   start : BOOLEAN]
Options ==
  [strict : BOOLEAN,      \* strict_dsl
   operators : BOOLEAN,   \* the default processors are registered
   settings : BOOLEAN]    \* the conditions of its config_settings can be parsed
Graph == [name : Names, version : Nat, priority : Int, vertex : Seq(Declaration)]

ASSUME ClusterAssumption == Clusters \subseteq Seq(Graph)

VARIABLES
  plan,      \* GraphCluster.Graph
  options,   \* what else the cluster declares
  kept,      \* graphMap: the position of the graph of a name, 0 if none
  stage,     \* where Build is, or how it ended
  pos,       \* the graph or vertex the current loop is at
  todo,      \* names of graphs still to build
  cur,       \* the graph that is being built
  nodes,     \* the keys of its vertexMap
  producer,  \* its dataMapping
  left,      \* its vertices that the current loop has not visited
  mask,      \* mask[v][d]: what v expects of d, None if v does not depend on d
  built,     \* the masks of the graphs that are built
  subject,   \* the vertex that testCircle looks for
  visited,   \* the vertices findVertexInSuccessors has been called for
  stack      \* its frames: successors left to look at

search == <<subject, visited, stack>>
graphVars == <<nodes, producer, left, mask, search>>
vars == <<plan, options, kept, stage, pos, todo, cur, built, graphVars>>

Ended == {"saved", "failed", "circle", "panic"}
NoMask == [v \in Ids |-> [d \in Ids |-> None]]
Successors(v) == {s \in Ids : mask[s][v] # None}
Declared == plan[kept[cur]].vertex
DeclarationOf(v) == Declared[CHOOSE i \in DOMAIN Declared : Declared[i].id = v]

TypeOK ==
  /\ plan \in Clusters /\ options \in Options /\ kept \in [Names -> 0..Len(plan)]
  /\ stage \in {"begin", "keep", "graphs", "register", "build", "test"} \cup Ended
  /\ pos \in Nat /\ todo \subseteq Names /\ cur \in Names \cup {None}
  /\ nodes \subseteq Ids /\ left \subseteq nodes
  /\ producer \in [Data -> nodes \cup {None}]
  /\ mask \in [Ids -> [Ids -> Expectations \cup {None}]]
  /\ DOMAIN built \subseteq Names
  /\ subject \in Ids \cup {None} /\ visited \subseteq nodes
  /\ stack \in Seq(SUBSET Ids)

Init ==
  /\ plan \in Clusters /\ options \in Options
  /\ kept = [g \in Names |-> 0]
  /\ stage = "begin" /\ pos = 1 /\ todo = {} /\ cur = None /\ built = <<>>
  /\ nodes = {} /\ producer = [x \in Data |-> None] /\ left = {} /\ mask = NoMask
  /\ subject = None /\ visited = {} /\ stack = <<>>

\* Build returns an error, or the process panics; the rest is dropped.
End(how) == stage' = how /\ UNCHANGED <<plan, options, kept, pos, todo, cur, built, graphVars>>
-----------------------------------------------------------------------------
(***************************************************************************)
(* GraphCluster.Build.                                                     *)
(***************************************************************************)
Begin ==
  /\ stage = "begin"
  /\ IF plan = <<>> \/ ~options.operators THEN End("failed")
     ELSE /\ stage' = "keep"
          /\ UNCHANGED <<plan, options, kept, pos, todo, cur, built, graphVars>>

\* A graph of the same name and another version.
Replaces(g, old) == g.priority > old.priority

\* One graph of the cluster: the one of the highest priority is kept.
Keep ==
  /\ stage = "keep" /\ pos <= Len(plan)
  /\ LET g == plan[pos]
         old == plan[kept[g.name]]
     IN IF kept[g.name] # 0 /\ old.version = g.version
        THEN End("failed")
        ELSE /\ kept' = IF kept[g.name] = 0 \/ Replaces(g, old)
                        THEN [kept EXCEPT ![g.name] = pos] ELSE kept
             /\ pos' = pos + 1
             /\ UNCHANGED <<plan, options, stage, todo, cur, built, graphVars>>

KeepEnds ==
  /\ stage = "keep" /\ pos > Len(plan)
  /\ stage' = "graphs" /\ todo' = {g \in Names : kept[g] # 0}
  /\ UNCHANGED <<plan, options, kept, pos, cur, built, graphVars>>

StartGraph(g) ==
  /\ stage = "graphs" /\ g \in todo
  /\ IF plan[kept[g]].vertex = <<>> THEN End("failed")
     ELSE /\ stage' = "register" /\ pos' = 1 /\ cur' = g
          /\ nodes' = {} /\ producer' = [x \in Data |-> None] /\ mask' = NoMask
          /\ UNCHANGED <<plan, options, kept, todo, built, left, search>>

\* newGraphClusterExecuteContext and its build succeed: every operator of the
\* graphs and every config setting can be set up.
PoolBuilt ==
  /\ options.settings
  /\ \A g \in DOMAIN built : \A i \in DOMAIN plan[kept[g]].vertex : plan[kept[g]].vertex[i].setup

\* The contexts of the pool are built and the cluster is saved.
Save ==
  /\ stage = "graphs" /\ todo = {}
  /\ End(IF PoolBuilt THEN "saved" ELSE "failed")
-----------------------------------------------------------------------------
(***************************************************************************)
(* Graph.build, first loop: vertices and the data they produce.            *)
(***************************************************************************)
BadDeclaration(n) ==
  \/ n.lonelyWhile
  \/ n.expect /\ n.config # "none"
  \/ n.config = "unknown"
  \/ n.id \in nodes
  \/ n.operator = "unknown"
  \/ \E k \in DOMAIN n.input : n.input[k].field = "empty"

\* The k-th output cannot be mapped.
BadOutput(n, k) ==
  \/ n.output[k].field # "known"
  \/ /\ options.strict
     /\ \/ producer[n.output[k].data] # None
        \/ \E j \in 1..(k - 1) : n.output[j].data = n.output[k].data

Register ==
  /\ stage = "register" /\ pos <= Len(Declared)
  /\ LET n == Declared[pos]
         bad == {k \in DOMAIN n.output : BadOutput(n, k)}
     IN IF BadDeclaration(n) THEN End("failed")
        ELSE IF bad # {}
        THEN End(IF n.output[Min(bad)].field = "other" THEN "panic" ELSE "failed")
        ELSE /\ nodes' = nodes \cup {n.id}
             /\ producer' = [x \in Data |->
                  IF \E k \in DOMAIN n.output : n.output[k].data = x THEN n.id ELSE producer[x]]
             /\ pos' = pos + 1
             /\ UNCHANGED <<plan, options, kept, stage, todo, cur, left, mask, built, search>>

RegisterEnds ==
  /\ stage = "register" /\ pos > Len(Declared)
  /\ stage' = "build" /\ left' = nodes
  /\ UNCHANGED <<plan, options, kept, pos, todo, cur, nodes, producer, mask, built, search>>
-----------------------------------------------------------------------------
(***************************************************************************)
(* Second loop: Vertex.build.                                              *)
(***************************************************************************)
Elements(s) == {s[k] : k \in DOMAIN s}

\* An in-out field does not make a vertex depend on itself, unless it is
\* aggregated.
Producers(n, in) ==
  {producer[x] : x \in Elements(in.from)} \
    ({None} \cup IF in.inOut /\ ~in.aggregate THEN {n.id} ELSE {})

\* The calls of depend, in their order: those in one entry are for different
\* pairs of a vertex and a dependency.
Dependencies(n) ==
  [k \in DOMAIN n.input |->
     [pairs |-> {n.id} \X Producers(n, n.input[k]),
      expected |-> IF n.input[k].required THEN "ok" ELSE "all", implicit |-> TRUE]]
  \o <<[pairs |-> {n.id} \X n.onErr, expected |-> "err", implicit |-> FALSE],
       [pairs |-> {n.id} \X n.onOk, expected |-> "ok", implicit |-> FALSE],
       [pairs |-> {n.id} \X n.deps, expected |-> "all", implicit |-> FALSE],
       [pairs |-> n.elseNext \X {n.id}, expected |-> "err", implicit |-> FALSE],
       [pairs |-> n.ifNext \X {n.id}, expected |-> "ok", implicit |-> FALSE],
       [pairs |-> n.next \X {n.id}, expected |-> "all", implicit |-> FALSE]>>

Mutant_Depend(m, c) == \* the first call decides
  [v \in Ids |-> [d \in Ids |->
     IF <<v, d>> \in c.pairs /\ m[v][d] = None THEN c.expected ELSE m[v][d]]]
\* Vertex.depend: an implicit dependency leaves one that exists as it is.
Depend(m, c) ==
  [v \in Ids |-> [d \in Ids |->
     IF <<v, d>> \in c.pairs /\ ~(c.implicit /\ m[v][d] # None)
     THEN c.expected ELSE m[v][d]]]

Related(n) == n.onErr \cup n.onOk \cup n.deps \cup n.elseNext \cup n.ifNext \cup n.next

\* An input that is looked up although the operator has no such field, or that
\* nothing provides.
BadInput(in) ==
  in.from # <<>> /\ \/ in.field = "other"
                    \/ ~in.extern /\ \E x \in Elements(in.from) : producer[x] = None

BuildVertex(v) ==
  /\ stage = "build" /\ v \in left
  /\ LET n == DeclarationOf(v)
         bad == {k \in DOMAIN n.input : BadInput(n.input[k])}
     IN IF ~n.selectKnown THEN End("failed")
        ELSE IF bad # {}
        THEN End(IF n.input[Min(bad)].field = "other" THEN "panic" ELSE "failed")
        ELSE IF ~(Related(n) \subseteq nodes) THEN End("failed")
        ELSE /\ mask' = FoldLeft(Depend, mask, Dependencies(n))
             /\ left' = left \ {v}
             /\ UNCHANGED <<plan, options, kept, stage, pos, todo, cur, nodes, producer, built, search>>
-----------------------------------------------------------------------------
(***************************************************************************)
(* Third loop: Vertex.verify, and testCircle.                              *)
(***************************************************************************)
Verified(n) ==
  LET hasDeps == \E d \in Ids : mask[n.id][d] # None
  IN n.cond \/ IF n.start THEN ~hasDeps ELSE hasDeps \/ Successors(n.id) # {}

Verify ==
  /\ stage = "build" /\ left = {}
  /\ IF \A k \in DOMAIN Declared : Verified(Declared[k])
     THEN /\ stage' = "test" /\ left' = nodes
          /\ UNCHANGED <<plan, options, kept, pos, todo, cur, nodes, producer, mask, built, search>>
     ELSE End("failed")

Mutant_Enter(u, v, seen, frames) == \* only its direct successors
  /\ stage' = IF v \in Successors(u) THEN "circle" ELSE stage
  /\ visited' = {}
  /\ stack' = frames
\* findVertexInSuccessors: u looks for v.
Enter(u, v, seen, frames) ==
  /\ stage' = IF v \in Successors(u) THEN "circle" ELSE stage
  /\ visited' = seen \cup {u}
  /\ stack' = Append(frames, Successors(u))

TestVertex(v) ==
  /\ stage = "test" /\ stack = <<>> /\ v \in left
  /\ left' = left \ {v}
  /\ subject' = v
  /\ Enter(v, v, {}, <<>>)
  /\ UNCHANGED <<plan, options, kept, pos, todo, cur, nodes, producer, mask, built>>

\* The next successor of the innermost call, entered unless it was before.
Descend(s) ==
  /\ stage = "test" /\ stack # <<>> /\ s \in Last(stack)
  /\ LET frames == [stack EXCEPT ![Len(stack)] = @ \ {s}]
     IN IF s \in visited THEN stack' = frames /\ UNCHANGED <<stage, visited>>
        ELSE Enter(s, subject, visited, frames)
  /\ UNCHANGED <<plan, options, kept, pos, todo, cur, nodes, producer, left, mask, built, subject>>

Return ==
  /\ stage = "test" /\ stack # <<>> /\ Last(stack) = {}
  /\ stack' = Front(stack)
  /\ UNCHANGED <<plan, options, kept, stage, pos, todo, cur, nodes, producer, left, mask, built,
                 subject, visited>>

\* No vertex finds itself: the graph is built.
TestEnds ==
  /\ stage = "test" /\ stack = <<>> /\ left = {}
  /\ stage' = "graphs" /\ todo' = todo \ {cur} /\ cur' = None
  /\ built' = [g \in DOMAIN built \cup {cur} |-> IF g = cur THEN mask ELSE built[g]]
  /\ subject' = None /\ visited' = {}
  /\ UNCHANGED <<plan, options, kept, pos, nodes, producer, left, mask, stack>>

Next ==
  \/ Begin \/ Keep \/ KeepEnds \/ Save
  \/ \E g \in Names : StartGraph(g)
  \/ Register \/ RegisterEnds \/ Verify
  \/ \E v \in Ids : BuildVertex(v) \/ TestVertex(v) \/ Descend(v)
  \/ Return \/ TestEnds

Spec == Init /\ [][Next]_vars
-----------------------------------------------------------------------------
(***************************************************************************)
(* What the declarations mean, without an order of building.               *)
(***************************************************************************)
Vertices(g) == Elements(g.vertex)

\* The last vertex that has x among its outputs.
Maker(g, x) ==
  LET makers == {i \in DOMAIN g.vertex :
                   \E k \in DOMAIN g.vertex[i].output : g.vertex[i].output[k].data = x}
  IN IF makers = {} THEN None ELSE g.vertex[Max(makers)].id

\* What the inputs of n make it expect of d: the first one decides.
Derived(g, n, d) ==
  LET from(in) == {Maker(g, x) : x \in Elements(in.from)} \
                    (IF in.inOut /\ ~in.aggregate THEN {n.id} ELSE {})
      hits == {k \in DOMAIN n.input : d \in from(n.input[k])}
  IN IF hits = {} THEN None ELSE IF n.input[Min(hits)].required THEN "ok" ELSE "all"

\* What the relations of n and those of d make n expect of d.
Widest(err, ok, all, v) ==
  IF v \in all THEN "all" ELSE IF v \in ok THEN "ok" ELSE IF v \in err THEN "err" ELSE None
Explicit(g, n, d) ==
  ({Widest(n.onErr, n.onOk, n.deps, d)} \cup
   {Widest(m.elseNext, m.ifNext, m.next, n.id) : m \in {m \in Vertices(g) : m.id = d}})
    \ {None}

Edges(g) ==
  {<<p[1].id, p[2]>> : p \in {q \in Vertices(g) \X Ids :
     Explicit(g, q[1], q[2]) # {} \/ Derived(g, q[1], q[2]) # None}}

Cyclic(g) ==
  \E S \in (SUBSET Ids) \ {{}} : \A v \in S : \E d \in S : <<v, d>> \in Edges(g)

\* A vertex that nothing in its own declaration speaks against, but for fields
\* that its operator does not have.
WellFormed(n) ==
  /\ ~n.lonelyWhile /\ n.operator # "unknown" /\ n.selectKnown /\ n.setup
  /\ IF n.expect THEN n.config = "none" ELSE n.config # "unknown"
  /\ \A f \in Elements(n.input) \cup Elements(n.output) : f.field # "empty"
MissingField(g) ==
  \E n \in Vertices(g) :
    \E f \in Elements(n.input) \cup Elements(n.output) : f.field = "other"

Connected(g, n) ==
  IF n.start THEN ~\E d \in Ids : <<n.id, d>> \in Edges(g)
  ELSE \E d \in Ids : <<n.id, d>> \in Edges(g) \/ <<d, n.id>> \in Edges(g)

\* Nothing but a missing field or a circle speaks against g.
Faultless(g) ==
  /\ g.vertex # <<>>
  /\ \A i, j \in DOMAIN g.vertex : g.vertex[i].id = g.vertex[j].id => i = j
  /\ options.strict => \A x \in Data : Cardinality({<<i, k>> \in (DOMAIN g.vertex) \X (1..2) :
       k \in DOMAIN g.vertex[i].output /\ g.vertex[i].output[k].data = x}) <= 1
  /\ \A n \in Vertices(g) :
       /\ WellFormed(n)
       /\ Related(n) \subseteq {m.id : m \in Vertices(g)}
       /\ \A in \in Elements(n.input), x \in Data :
            x \in Elements(in.from) => in.extern \/ Maker(g, x) # None
       /\ n.cond \/ Connected(g, n)

\* Of the first k graphs, the first one of the name with the highest priority.
Best(name, k) ==
  LET named == {i \in 1..k : plan[i].name = name}
      best == {i \in named : \A j \in named : plan[j].priority <= plan[i].priority}
  IN IF named = {} THEN 0 ELSE Min(best)
Chosen == {plan[Best(name, Len(plan))] : name \in {plan[i].name : i \in DOMAIN plan}}
Clash ==
  \E i \in DOMAIN plan : LET j == Best(plan[i].name, i - 1)
                         IN j # 0 /\ plan[i].version = plan[j].version

\* Nothing speaks against the cluster as a whole.
ClusterSound == plan # <<>> /\ options.operators /\ options.settings /\ ~Clash

\* Whatever the order of the maps, a cluster is saved exactly if nothing speaks
\* against the graphs that their priorities choose. Otherwise the way it ends is
\* deserved: Build panics only where a field is missing, reports a circle only
\* if there is one (the search that does not enter a vertex twice misses none),
\* and returns another error only for another fault.
VerdictDeserved ==
  /\ stage \in Ended =>
       (stage = "saved" <=>
          ClusterSound /\ \A g \in Chosen : Faultless(g) /\ ~MissingField(g) /\ ~Cyclic(g))
  /\ stage = "panic" => \E g \in Chosen : MissingField(g)
  /\ stage = "circle" => \E g \in Chosen : Cyclic(g)
  /\ stage = "failed" => ~ClusterSound \/ \E g \in Chosen : ~Faultless(g)

\* In a saved cluster every vertex expects of its dependencies what an explicit
\* relation says, of this vertex or of the dependency, and what its inputs
\* imply only where there is none; in particular whichever vertex was built
\* first. Where both sides state something different the order decides.
BuiltAsDeclared ==
  stage = "saved" =>
    \A g \in Chosen : \A n \in Vertices(g), d \in Ids :
      LET said == Explicit(g, n, d)
      IN IF said = {} THEN built[g.name][n.id][d] = Derived(g, n, d)
         ELSE built[g.name][n.id][d] \in said
=============================================================================
