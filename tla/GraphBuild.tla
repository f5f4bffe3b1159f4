----------------------------- MODULE GraphBuild -----------------------------
(***************************************************************************)
(* Graph::Build of the C++ engine (didagle/graph/graph.cpp, vertex.cpp):   *)
(* how the declarations of a graph become vertices, dependencies with the  *)
(* results they expect, and a verdict.                                     *)
(*                                                                         *)
(* A declaration lists its inputs and outputs as FillInputOutput leaves    *)
(* them. The vertex generated for the condition of an `expect` has the     *)
(* condition for its id.                                                   *)
(***************************************************************************)
EXTENDS Integers, Sequences, FiniteSets

CONSTANTS
  Ids,       \* ids of declared vertices
  Conds,     \* conditions of `expect`, the ids of generated vertices
  Data,      \* data ids
  None,      \* no condition, no producer
  Plans,     \* the graphs to build: sequences of declarations
  StrictDsl, \* strict_dsl
  ExprSet,   \* default_expr_processor is not empty
  MaxStack   \* bound: nested calls the stack of the building thread takes

ASSUME IdAssumption ==
  /\ IsFiniteSet(Ids \cup Conds) /\ Ids \cap Conds = {} /\ Ids # {}
  /\ None \notin Ids \cup Conds
  /\ MaxStack \in Nat /\ MaxStack >= Cardinality(Ids \cup Conds)
  /\ StrictDsl \in BOOLEAN /\ ExprSet \in BOOLEAN

Nodes == Ids \cup Conds
Results == {"OK", "ERR", "SKIP"}

Input == [from : SUBSET Data, aggregate : BOOLEAN, required : BOOLEAN,
          extern : BOOLEAN, inOut : BOOLEAN]
Declaration ==
  [id : Nodes,
   runnable : BOOLEAN,                            \* has a processor or a graph
   known : BOOLEAN,                               \* the processor is registered
   expect : Conds \cup {None}, expectDeps : SUBSET Nodes,
   expectConfig : {"none", "known", "unknown"},   \* ContainsConfigSetting
   selectKnown : BOOLEAN,                         \* so are all of select_args
   fieldsNamed : BOOLEAN,                         \* no data field is empty
   deps : SUBSET Nodes, depsOnOk : SUBSET Nodes, depsOnErr : SUBSET Nodes,
   successor : SUBSET Nodes, onOk : SUBSET Nodes, onErr : SUBSET Nodes,
   consequent : SUBSET Nodes, alternative : SUBSET Nodes,
   input : Seq(Input), output : SUBSET Data, isStart : BOOLEAN]

\* The ids that Build makes up for generated vertices are in no declaration.
ASSUME PlanAssumption ==
  /\ Plans \subseteq Seq(Declaration)
  /\ \A p \in Plans : \A i \in DOMAIN p :
       /\ p[i].id \in Ids
       /\ p[i].expectDeps \cup p[i].deps \cup p[i].depsOnOk \cup p[i].depsOnErr \subseteq Ids
       /\ p[i].successor \cup p[i].onOk \cup p[i].onErr \subseteq Ids
       /\ p[i].consequent \cup p[i].alternative \subseteq Ids

VARIABLES
  plan,      \* the declared vertices, in order
  gens,      \* _gen_vertex
  stage,     \* where Build is, or its verdict
  pos,       \* the vertex the current loop is at
  step,      \* the part of Vertex::Build that is next
  nodes,     \* the keys of _nodes
  producer,  \* _data_mapping_table
  mask,      \* mask[v][d]: what v expects of d, {} if v does not depend on d
  untested,  \* vertices TestCircle has not looked at
  subject,   \* the vertex it is looking for
  stack      \* frames of FindVertexInSuccessors: successors left to enter

vars == <<plan, gens, stage, pos, step, nodes, producer, mask, untested,
          subject, stack>>

Built == plan \o gens
Successors(v) == {s \in Nodes : mask[s][v] # {}}

TypeOK ==
  /\ plan \in Seq(Declaration) /\ gens \in Seq(Declaration)
  /\ stage \in {"register", "build", "verify", "circle",
                "ok", "failed", "hasCircle", "overflow"}
  /\ pos \in Nat /\ step \in Nat
  /\ nodes \subseteq Nodes
  /\ producer \in [Data -> Ids \cup {None}]
  /\ mask \in [Nodes -> [Nodes -> SUBSET Results]]
  /\ untested \subseteq Nodes /\ subject \in Nodes
  /\ stack \in Seq(SUBSET Nodes)

Init ==
  /\ plan \in Plans
  /\ gens = <<>>
  /\ stage = "register" /\ pos = 1 /\ step = 1
  /\ nodes = {}
  /\ producer = [x \in Data |-> None]
  /\ mask = [v \in Nodes |-> [d \in Nodes |-> {}]]
  /\ untested = {} /\ stack = <<>> /\ subject = CHOOSE v \in Nodes : TRUE

\* A build that fails is dropped, with what its last loop body had changed.
Fail == stage' = "failed"
search == <<untested, subject, stack>>
-----------------------------------------------------------------------------
(***************************************************************************)
(* The first loop: generated conditions, ids, produced data.               *)
(***************************************************************************)
\* The vertex generated for the condition of n, which gets n's dependencies
\* unless n names some for it.
CondVertex(n) ==
  [n EXCEPT !.id = n.expect, !.expect = None, !.expectDeps = {},
            !.runnable = ExprSet, !.expectConfig = "none", !.selectKnown = TRUE,
            !.fieldsNamed = TRUE,
            !.deps = IF n.expectDeps # {} THEN n.expectDeps ELSE n.deps,
            !.depsOnOk = IF n.expectDeps # {} THEN {} ELSE n.depsOnOk,
            !.depsOnErr = IF n.expectDeps # {} THEN {} ELSE n.depsOnErr,
            !.successor = {}, !.onOk = {}, !.onErr = {},
            !.consequent = {}, !.alternative = {},
            !.input = <<>>, !.output = {}, !.isStart = FALSE]

Generated == {gens[i].id : i \in DOMAIN gens}

BadDeclaration(n) ==
  \/ n.expect # None /\ n.expectConfig # "none"
  \/ n.expectConfig = "unknown"
  \/ n.id \in nodes
  \/ StrictDsl /\ ~n.known
  \/ ~n.fieldsNamed
  \/ \E x \in n.output : producer[x] # None

Mutant_Registered(n) == \* the generated vertex may also fail
  [n EXCEPT !.deps = IF n.expect = None THEN @ ELSE @ \cup {n.expect},
            !.onOk = @ \cup n.consequent,
            !.onErr = @ \cup n.alternative]

\* n after the loop body: it expects its condition to hold, and MergeSuccessor.
Registered(n) ==
  [n EXCEPT !.depsOnOk = IF n.expect = None THEN @ ELSE @ \cup {n.expect},
            !.onOk = @ \cup n.consequent,
            !.onErr = @ \cup n.alternative]

Register ==
  /\ stage = "register" /\ pos <= Len(plan)
  /\ LET n == plan[pos]
         generate == n.expect \notin Generated \cup {None}
     IN IF BadDeclaration(n)
        THEN Fail /\ UNCHANGED <<plan, gens, pos, nodes, producer>>
        ELSE /\ gens' = IF generate THEN Append(gens, CondVertex(n)) ELSE gens
             /\ plan' = [plan EXCEPT ![pos] = Registered(n)]
             /\ nodes' = nodes \cup {n.id} \cup ({n.expect} \ {None})
             /\ producer' = [x \in Data |->
                               IF x \in n.output THEN n.id ELSE producer[x]]
             /\ pos' = pos + 1
             /\ UNCHANGED stage
  /\ UNCHANGED <<step, mask, search>>

\* A single vertex is a start vertex: no dependency has been built yet.
RegisterEnds ==
  /\ stage = "register" /\ pos > Len(plan)
  /\ plan' = IF Len(plan) = 1 /\ gens = <<>>
             THEN [plan EXCEPT ![1].isStart = TRUE] ELSE plan
  /\ stage' = "build" /\ pos' = 1 /\ step' = 1
  /\ UNCHANGED <<gens, nodes, producer, mask, search>>
-----------------------------------------------------------------------------
(***************************************************************************)
(* Vertex::Build of the declared vertices, then of the generated ones.     *)
(***************************************************************************)
Mutant_Depend(pairs, expected) == \* the last call decides
  mask' = [v \in Nodes |-> [d \in Nodes |->
             IF <<v, d>> \in pairs THEN expected ELSE mask[v][d]]]
\* Vertex::Depend for pairs of a vertex and a dependency: the first call that
\* names a dependency decides what is expected of it.
Depend(pairs, expected) ==
  mask' = [v \in Nodes |-> [d \in Nodes |->
             IF <<v, d>> \in pairs /\ mask[v][d] = {} THEN expected
             ELSE mask[v][d]]]

Relations(n) ==
  <<[ids |-> n.deps, expected |-> Results],
    [ids |-> n.depsOnOk, expected |-> {"OK"}],
    [ids |-> n.depsOnErr, expected |-> {"ERR"}],
    [ids |-> n.successor, expected |-> Results],
    [ids |-> n.onOk, expected |-> {"OK"}],
    [ids |-> n.onErr, expected |-> {"ERR"}]>>

\* The k-th relation of n makes v depend on d.
Names(n, k, v, d) ==
  IF k <= 3 THEN n.id = v /\ d \in Relations(n)[k].ids
  ELSE n.id = d /\ v \in Relations(n)[k].ids

\* BuildDeps (steps 1 to 3) and BuildSuccessors (steps 4 to 6).
BuildRelation ==
  /\ stage = "build" /\ pos <= Len(Built) /\ step <= 6
  /\ LET n == Built[pos]
         r == Relations(n)[step]
     IN IF \/ step = 1 /\ ~(n.runnable /\ n.selectKnown)
           \/ ~(r.ids \subseteq nodes)
        THEN Fail /\ UNCHANGED <<mask, step>>
        ELSE /\ Depend({p \in Nodes \X Nodes : Names(n, step, p[1], p[2])},
                       r.expected)
             /\ step' = step + 1
             /\ UNCHANGED stage
  /\ UNCHANGED <<plan, gens, pos, nodes, producer, search>>

Mutant_Producers(n, in) == \* aggregated data are overlooked
  IF in.aggregate THEN {}
  ELSE {producer[x] : x \in in.from} \ ({None} \cup
         IF in.inOut THEN {n.id} ELSE {})
\* The producers of the data an input names; an in-out field does not make a
\* vertex depend on itself.
Producers(n, in) ==
  {producer[x] : x \in in.from} \ ({None} \cup
     IF in.inOut /\ ~in.aggregate THEN {n.id} ELSE {})

\* One input of the vertex.
BuildInput ==
  /\ stage = "build" /\ pos <= Len(Built) /\ step > 6
  /\ step - 6 <= Len(Built[pos].input)
  /\ LET n == Built[pos]
         in == n.input[step - 6]
     IN IF ~in.extern /\ \E x \in in.from : producer[x] = None
        THEN Fail /\ UNCHANGED <<mask, step>>
        ELSE /\ Depend({n.id} \X Producers(n, in),
                       IF in.required THEN {"OK"} ELSE Results)
             /\ step' = step + 1
             /\ UNCHANGED stage
  /\ UNCHANGED <<plan, gens, pos, nodes, producer, search>>

BuildNext ==
  /\ stage = "build" /\ pos <= Len(Built)
  /\ step - 6 > Len(Built[pos].input)
  /\ pos' = pos + 1 /\ step' = 1
  /\ UNCHANGED <<plan, gens, stage, nodes, producer, mask, search>>

BuildEnd ==
  /\ stage = "build" /\ pos > Len(Built)
  /\ stage' = "verify"
  /\ UNCHANGED <<plan, gens, pos, step, nodes, producer, mask, search>>

\* Vertex::Verify: a start vertex declares no dependency, another one is
\* connected.
Verified(n) ==
  IF n.isStart THEN n.deps \cup n.depsOnOk \cup n.depsOnErr = {}
  ELSE Successors(n.id) # {} \/ \E d \in Nodes : mask[n.id][d] # {}

Verify ==
  /\ stage = "verify"
  /\ IF \A i \in DOMAIN Built : Verified(Built[i])
     THEN stage' = "circle" /\ untested' = nodes
     ELSE Fail /\ UNCHANGED untested
  /\ UNCHANGED <<plan, gens, pos, step, nodes, producer, mask, subject, stack>>
-----------------------------------------------------------------------------
(***************************************************************************)
(* TestCircle: is v among the successors of v? FindVertexInSuccessors      *)
(* calls itself and keeps no record of where it has been.                  *)
(***************************************************************************)
Mutant_Enter(u, v, frames) == \* only direct successors are looked at
  /\ stage' = IF v \in Successors(u) THEN "hasCircle" ELSE stage
  /\ stack' = frames
Enter(u, v, frames) ==
  /\ stage' = IF v \in Successors(u) THEN "hasCircle"
              ELSE IF Successors(u) # {} /\ Len(frames) >= MaxStack
              THEN "overflow" ELSE stage
  /\ stack' = IF Successors(u) = {} \/ Len(frames) >= MaxStack THEN frames
              ELSE Append(frames, Successors(u))

TestVertex(v) ==
  /\ stage = "circle" /\ stack = <<>> /\ v \in untested
  /\ untested' = untested \ {v}
  /\ subject' = v
  /\ Enter(v, v, <<>>)
  /\ UNCHANGED <<plan, gens, pos, step, nodes, producer, mask>>

Descend(s) ==
  /\ stage = "circle" /\ stack # <<>>
  /\ s \in stack[Len(stack)]
  /\ Enter(s, subject, [stack EXCEPT ![Len(stack)] = @ \ {s}])
  /\ UNCHANGED <<plan, gens, pos, step, nodes, producer, mask, untested, subject>>

Return ==
  /\ stage = "circle" /\ stack # <<>> /\ stack[Len(stack)] = {}
  /\ stack' = SubSeq(stack, 1, Len(stack) - 1)
  /\ UNCHANGED <<plan, gens, stage, pos, step, nodes, producer, mask, untested,
                 subject>>

\* No vertex finds itself; an empty graph is an error.
TestEnds ==
  /\ stage = "circle" /\ stack = <<>> /\ untested = {}
  /\ stage' = IF nodes = {} THEN "failed" ELSE "ok"
  /\ UNCHANGED <<plan, gens, pos, step, nodes, producer, mask, search>>

Next ==
  \/ Register \/ RegisterEnds
  \/ BuildRelation \/ BuildInput \/ BuildNext \/ BuildEnd \/ Verify
  \/ (\E v \in Nodes : TestVertex(v) \/ Descend(v)) \/ Return \/ TestEnds

Spec == Init /\ [][Next]_vars
-----------------------------------------------------------------------------
Cyclic ==
  \E S \in (SUBSET Nodes) \ {{}} : \A v \in S : \E d \in S : mask[v][d] # {}

\* The search from each vertex for itself decides whether the graph has a
\* circle: no graph with one is accepted, and none without one is refused as
\* having one or exhausts the stack.
CircleDecided ==
  /\ stage = "ok" => ~Cyclic
  /\ stage \in {"hasCircle", "overflow"} => Cyclic

\* In an accepted graph every input comes from a dependency or from outside,
\* also where the producer was declared later or an explicit relation named
\* the producer first.
InputsOrdered ==
  stage = "ok" =>
    \A i \in DOMAIN plan : \A k \in DOMAIN plan[i].input :
      \A x \in plan[i].input[k].from :
        \/ producer[x] = None /\ plan[i].input[k].extern
        \/ producer[x] # None /\ mask[plan[i].id][producer[x]] # {}
        \/ producer[x] = plan[i].id /\ plan[i].input[k].inOut

\* A vertex guarded by a condition runs only if the condition holds, also when
\* several vertices share the generated condition vertex.
ConditionGuards ==
  stage = "ok" =>
    \A i \in DOMAIN plan : plan[i].expect # None =>
      mask[plan[i].id][plan[i].expect] = {"OK"}

\* What the documentation says of two kinds of graphs.

\* "V(cond) succeed_on_ok V(A)", "explicit configuration overrides implicit
\* derivation": where an explicit relation names a dependency, what is expected
\* is what it says, and an input does not decide.
Explicit(v, d) ==
  {Relations(Built[p[1]])[p[2]].expected :
     p \in {q \in (DOMAIN Built) \X (1..6) : Names(Built[q[1]], q[2], v, d)}}
ExplicitOverrides ==
  stage = "ok" =>
    \A v, d \in Nodes : Explicit(v, d) # {} => mask[v][d] \in Explicit(v, d)

\* A graph with a circle is refused; the stack is never exhausted.
CircleRefused == stage # "overflow"
=============================================================================
