-------------------------- MODULE GraphBuild_proofs --------------------------
(***************************************************************************)
(* Proofs about GraphBuild: for every plan, the search for a circle        *)
(* decides rightly, an accepted graph orders every input after what        *)
(* produces it, and a vertex with a condition runs only if it holds.       *)
(*                                                                         *)
(* What a search without a record of where it has been finds is stated     *)
(* with Reach, the vertices that successors lead to; its lemmas come       *)
(* first. They need the least element of a set of naturals and the pigeon  *)
(* hole principle, no induction over paths.                                *)
(***************************************************************************)
EXTENDS GraphBuild, TLAPS, WellFoundedInduction, FiniteSetTheorems

\* A set of naturals that is not empty has a least element.
LEMMA LeastNatural ==
  ASSUME NEW T, T \subseteq Nat, T # {}
  PROVE  \E x \in T : \A y \in T : x <= y
<1> DEFINE R == OpToRel(<, Nat)
<1>1. IsWellFoundedOn(R, Nat)
  BY NatLessThanWellFounded
<1>2. \A x, y \in Nat : <<y, x>> \in R <=> y < x
  BY DEF OpToRel
<1> HIDE DEF R
<1>3. PICK x \in T : \A y \in T : ~(<<y, x>> \in R)
  BY <1>1, WFMin
<1>4. \A y \in T : ~(y < x)
  BY <1>2, <1>3
<1>5. \A y \in T : x <= y
  BY <1>4
<1> QED
  BY <1>5

\* What can be reached in one or more steps of E, as the least set that holds
\* the first steps and is closed under further ones.
Closed(E, S) == \A w \in S : E[w] \subseteq S
Reach(N, E, u) == {v \in N : \A S \in SUBSET N : E[u] \subseteq S /\ Closed(E, S) => v \in S}

LEMMA ReachClosed ==
  ASSUME NEW N, NEW E \in [N -> SUBSET N], NEW u \in N
  PROVE  /\ E[u] \subseteq Reach(N, E, u) /\ Closed(E, Reach(N, E, u))
         /\ Reach(N, E, u) \subseteq N
<1>1. E[u] \subseteq Reach(N, E, u) /\ Reach(N, E, u) \subseteq N
  BY DEF Reach
<1>2. ASSUME NEW w \in Reach(N, E, u), NEW v \in E[w]
      PROVE  v \in Reach(N, E, u)
  <2>1. w \in N /\ v \in N
    BY <1>1
  <2>2. ASSUME NEW S \in SUBSET N, E[u] \subseteq S, Closed(E, S)
        PROVE  v \in S
    <3>1. w \in S
      BY <2>2 DEF Reach
    <3> QED
      BY <2>2, <3>1 DEF Closed
  <2> QED
    BY <2>1, <2>2 DEF Reach
<1> QED
  BY <1>1, <1>2 DEF Closed

LEMMA ReachLeast ==
  ASSUME NEW N, NEW E, NEW u, NEW S \in SUBSET N, E[u] \subseteq S, Closed(E, S)
  PROVE  Reach(N, E, u) \subseteq S
BY DEF Reach

LEMMA ReachTransitive ==
  ASSUME NEW N, NEW E \in [N -> SUBSET N], NEW u \in N, NEW v \in Reach(N, E, u)
  PROVE  Reach(N, E, v) \subseteq Reach(N, E, u)
<1>1. /\ Closed(E, Reach(N, E, u)) /\ Reach(N, E, u) \in SUBSET N
  BY ReachClosed
<1>2. E[v] \subseteq Reach(N, E, u)
  BY <1>1 DEF Closed
<1> QED
  BY <1>1, <1>2, ReachLeast

\* What is reached is reached through a first step ...
LEMMA ReachFirst ==
  ASSUME NEW N, NEW E \in [N -> SUBSET N], NEW u \in N, NEW v \in Reach(N, E, u)
  PROVE  v \in E[u] \/ \E w \in E[u] : v \in Reach(N, E, w)
<1> DEFINE S == {x \in N : x \in E[u] \/ \E w \in E[u] : x \in Reach(N, E, w)}
<1>1. E[u] \subseteq N /\ E[u] \subseteq S /\ S \in SUBSET N
  OBVIOUS
<1>2. Closed(E, S)
  <2> SUFFICES ASSUME NEW x \in S, NEW y \in E[x]
               PROVE  y \in S
    BY DEF Closed
  <2>1. CASE x \in E[u]
    <3>1. y \in Reach(N, E, x) /\ y \in N
      BY <1>1, <2>1, ReachClosed
    <3> QED
      BY <2>1, <3>1
  <2>2. CASE \E w \in E[u] : x \in Reach(N, E, w)
    <3>1. PICK w \in E[u] : x \in Reach(N, E, w)
      BY <2>2
    <3>2. y \in Reach(N, E, w) /\ y \in N
      BY <1>1, <3>1, ReachClosed DEF Closed
    <3> QED
      BY <3>2
  <2> QED
    BY <2>1, <2>2
<1>3. Reach(N, E, u) \subseteq S
  BY <1>1, <1>2, ReachLeast
<1> QED
  BY <1>3

\* ... and by a last one.
LEMMA ReachLast ==
  ASSUME NEW N, NEW E \in [N -> SUBSET N], NEW u \in N, NEW v \in Reach(N, E, u)
  PROVE  v \in E[u] \/ \E w \in Reach(N, E, u) : v \in E[w]
<1> DEFINE S == {x \in N : x \in E[u] \/ \E w \in Reach(N, E, u) : x \in E[w]}
<1>1. /\ E[u] \subseteq Reach(N, E, u) /\ Closed(E, Reach(N, E, u))
      /\ Reach(N, E, u) \subseteq N
  BY ReachClosed
<1>2. E[u] \subseteq S /\ S \in SUBSET N
  BY <1>1
<1>3. S \subseteq Reach(N, E, u)
  BY <1>1 DEF Closed
<1>4. Closed(E, S)
  BY <1>1, <1>3 DEF Closed
<1>5. Reach(N, E, u) \subseteq S
  BY <1>2, <1>4, ReachLeast
<1> QED
  BY <1>5

\* Every member of S has a predecessor in S.
Circular(E, S) == S # {} /\ \A v \in S : \E d \in S : v \in E[d]

LEMMA ReachCircular ==
  ASSUME NEW N, NEW E \in [N -> SUBSET N], NEW x \in N, x \in Reach(N, E, x)
  PROVE  \E S \in SUBSET N : Circular(E, S)
<1> DEFINE S == {y \in Reach(N, E, x) : x \in Reach(N, E, y)}
<1>0. Reach(N, E, x) \subseteq N /\ E[x] \subseteq Reach(N, E, x)
  BY ReachClosed
<1>1. x \in S /\ S \in SUBSET N
  BY <1>0
<1>2. ASSUME NEW v \in S
      PROVE  \E d \in S : v \in E[d]
  <2>1. CASE v \in E[x]
    BY <1>1, <2>1
  <2>2. CASE \E w \in Reach(N, E, x) : v \in E[w]
    <3>1. PICK w \in Reach(N, E, x) : v \in E[w]
      BY <2>2
    <3>2. w \in N /\ v \in Reach(N, E, w)
      BY <1>0, <3>1, ReachClosed
    <3>3. Reach(N, E, v) \subseteq Reach(N, E, w)
      BY <3>2, ReachTransitive
    <3> QED
      BY <3>1, <3>3
  <2> QED
    BY <2>1, <2>2, ReachLast
<1>3. Circular(E, S)
  BY <1>1, <1>2 DEF Circular
<1> QED
  BY <1>1, <1>3

\* In a finite graph a set without a first member holds a circle: one of its
\* members that the fewest others reach is reached by itself.
LEMMA CircularReach ==
  ASSUME NEW N, IsFiniteSet(N), NEW E \in [N -> SUBSET N],
         NEW S \in SUBSET N, Circular(E, S)
  PROVE  \E x \in S : x \in Reach(N, E, x)
<1> DEFINE Above(v) == {d \in S : v \in Reach(N, E, d)}
           Counts == {Cardinality(Above(v)) : v \in S}
<1> SUFFICES ASSUME \A x \in S : x \notin Reach(N, E, x)
             PROVE  FALSE
  OBVIOUS
<1>1. IsFiniteSet(S)
  BY FS_Subset
<1>2. \A v \in S : IsFiniteSet(Above(v)) /\ Cardinality(Above(v)) \in Nat
  <2> TAKE v \in S
  <2>1. Above(v) \in SUBSET S
    OBVIOUS
  <2> HIDE DEF Above
  <2> QED
    BY <1>1, <2>1, FS_Subset, FS_CardinalityType
<1> HIDE DEF Above
<1>3. Counts \subseteq Nat /\ Counts # {}
  BY <1>2 DEF Circular
<1>4. PICK m \in Counts : \A y \in Counts : m <= y
  BY <1>3, LeastNatural
<1>5. PICK v \in S : m = Cardinality(Above(v))
  BY <1>4
<1>6. \A d \in S : Cardinality(Above(v)) <= Cardinality(Above(d))
  BY <1>4, <1>5
<1>7. PICK d \in S : v \in E[d]
  BY DEF Circular
<1>8. v \in Reach(N, E, d)
  BY <1>7, ReachClosed
<1>9. Above(d) \subseteq Above(v)
  <2> SUFFICES ASSUME NEW e \in S, d \in Reach(N, E, e)
               PROVE  v \in Reach(N, E, e)
    BY DEF Above
  <2>1. Reach(N, E, d) \subseteq Reach(N, E, e)
    BY ReachTransitive
  <2> QED
    BY <1>8, <2>1
<1>10. d \in Above(v) /\ d \notin Above(d)
  BY <1>8 DEF Above
<1>11. Cardinality(Above(d)) <= Cardinality(Above(v)) /\ Cardinality(Above(d)) # Cardinality(Above(v))
  BY <1>2, <1>9, <1>10, FS_Subset
<1> QED
  BY <1>2, <1>6, <1>11
-----------------------------------------------------------------------------
(***************************************************************************)
(* The inductive invariant.                                                *)
(***************************************************************************)
\* The declared vertices the first loop is through with.
Seen == IF stage = "register" THEN {i \in DOMAIN plan : i < pos} ELSE DOMAIN plan

\* Declared vertices name declared vertices, and their own condition once they
\* are registered.
PlanNames ==
  \A i \in DOMAIN plan :
    /\ plan[i].id \in Ids
    /\ plan[i].expectDeps \cup plan[i].deps \cup plan[i].depsOnErr \subseteq Ids
    /\ plan[i].successor \cup plan[i].onOk \cup plan[i].onErr \subseteq Ids
    /\ plan[i].consequent \cup plan[i].alternative \subseteq Ids
    /\ plan[i].depsOnOk \subseteq IF i \in Seen THEN Ids \cup {plan[i].expect} ELSE Ids

\* Generated vertices depend on declared ones, are nobody's predecessor by
\* their own account and have no data.
GenNames ==
  \A j \in DOMAIN gens :
    /\ gens[j].id \in Conds
    /\ gens[j].successor = {} /\ gens[j].onOk = {} /\ gens[j].onErr = {}
    /\ gens[j].input = <<>>

\* What the first loop leaves, unless it fails.
Registry ==
  stage # "failed" =>
    /\ nodes = {plan[i].id : i \in Seen} \cup Generated
    /\ \A i \in Seen : plan[i].expect # None => plan[i].expect \in plan[i].depsOnOk
    /\ \A i, j \in Seen : plan[i].id = plan[j].id => i = j
    /\ \A x \in Data : producer[x] # None => producer[x] \in nodes \cap Ids

\* The second loop is at vertex pos, part step.
Before(j, l, i, k) == j < i \/ (j = i /\ l < k)
Done(i, k) == stage = "build" => Before(i, k, pos, step)

\* A dependency is between vertices of the graph, ...
Linked == \A v, d \in Nodes : mask[v][d] # {} => v \in nodes /\ d \in nodes

\* ... every relation that was built made one, ...
RelationsBuilt ==
  \A i \in DOMAIN Built, k \in 1..6 : Done(i, k) =>
    \A v, d \in Nodes : Names(Built[i], k, v, d) => mask[v][d] # {}

\* ... so did every input, ...
Arrives(n, in, x) ==
  \/ producer[x] = None /\ in.extern
  \/ producer[x] # None /\ mask[n.id][producer[x]] # {}
  \/ producer[x] = n.id /\ in.inOut
InputsBuilt ==
  \A i \in DOMAIN Built : \A k \in DOMAIN Built[i].input : Done(i, 6 + k) =>
    \A x \in Built[i].input[k].from : Arrives(Built[i], Built[i].input[k], x)

\* ... and one that no input made is as the first relation says that names it.
ByRelation(v, d, i, k) ==
  /\ Names(Built[i], k, v, d) /\ mask[v][d] = Relations(Built[i])[k].expected
  /\ \A j \in DOMAIN Built, l \in 1..6 : Before(j, l, i, k) => ~Names(Built[j], l, v, d)
ByInput(v, d) ==
  \E i \in DOMAIN Built : \E k \in DOMAIN Built[i].input :
    v = Built[i].id /\ d \in Producers(Built[i], Built[i].input[k])
FirstDecides ==
  \A v, d \in Nodes : mask[v][d] # {} =>
    \/ \E i \in DOMAIN Built, k \in 1..6 : Done(i, k) /\ ByRelation(v, d, i, k)
    \/ ByInput(v, d)

BuildInv ==
  /\ stage = "register" => mask = [v \in Nodes |-> [d \in Nodes |-> {}]]
  /\ stage \in {"register", "build"} => pos \in Nat \ {0} /\ step \in Nat \ {0}
  /\ stage \notin {"register", "failed"} =>
       Linked /\ RelationsBuilt /\ InputsBuilt /\ FirstDecides

\* The search for a circle: its frames follow a path p from the subject; a
\* subject on a circle can still be found from what is left in a frame.
Edges == [v \in Nodes |-> Successors(v)]
Self(v) == v \in Reach(Nodes, Edges, v)
OnPath(p) ==
  /\ \A k \in DOMAIN stack : stack[k] \subseteq Edges[p[k]]
  /\ \A i, j \in DOMAIN stack : i < j => p[j] \in Reach(Nodes, Edges, p[i])
  /\ stack # <<>> => p[1] = subject
Ahead == \E k \in DOMAIN stack : \E s \in stack[k] : subject \in Reach(Nodes, Edges, s)
CircleInv ==
  /\ stage \in {"register", "build", "verify"} => stack = <<>>
  /\ stage = "circle" =>
       /\ \E p \in [DOMAIN stack -> Nodes] : OnPath(p)
       /\ stack # <<>> /\ Self(subject) => Ahead
       /\ \A v \in nodes \ untested : Self(v) => v = subject /\ stack # <<>>
  /\ stage = "ok" => \A v \in nodes : ~Self(v)
  /\ stage \in {"hasCircle", "overflow"} => \E v \in Nodes : Self(v)

IInv == TypeOK /\ PlanNames /\ GenNames /\ Registry /\ BuildInv /\ CircleInv
-----------------------------------------------------------------------------
(***************************************************************************)
(* Declarations and relations.                                             *)
(***************************************************************************)
LEMMA RegisteredType ==
  ASSUME NEW n \in Declaration
  PROVE  LET r == Registered(n) IN
         /\ r \in Declaration
         /\ r.id = n.id /\ r.expect = n.expect /\ r.expectDeps = n.expectDeps
         /\ r.deps = n.deps /\ r.depsOnErr = n.depsOnErr /\ r.successor = n.successor
         /\ r.consequent = n.consequent /\ r.alternative = n.alternative
         /\ r.input = n.input /\ r.output = n.output
         /\ r.depsOnOk = n.depsOnOk \cup ({n.expect} \ {None})
         /\ r.onOk = n.onOk \cup n.consequent /\ r.onErr = n.onErr \cup n.alternative
<1>1. n.expect = None \/ n.expect \in Nodes
  BY DEF Declaration, Nodes
<1> QED
  BY <1>1 DEF Declaration, Registered

LEMMA CondVertexType ==
  ASSUME NEW n \in Declaration, n.expect # None
  PROVE  LET r == CondVertex(n) IN
         /\ r \in Declaration /\ r.id = n.expect /\ r.id \in Conds
         /\ r.successor = {} /\ r.onOk = {} /\ r.onErr = {} /\ r.input = <<>>
<1>1. n.expect \in Conds /\ n.expect \in Nodes
  BY DEF Declaration, Nodes
<1> DEFINE a == [n EXCEPT !.id = n.expect, !.expect = None, !.expectDeps = {},
                          !.runnable = ExprSet, !.expectConfig = "none", !.selectKnown = TRUE,
                          !.fieldsNamed = TRUE]
           b == [a EXCEPT !.deps = IF n.expectDeps # {} THEN n.expectDeps ELSE n.deps,
                          !.depsOnOk = IF n.expectDeps # {} THEN {} ELSE n.depsOnOk,
                          !.depsOnErr = IF n.expectDeps # {} THEN {} ELSE n.depsOnErr]
           c == [b EXCEPT !.successor = {}, !.onOk = {}, !.onErr = {},
                          !.consequent = {}, !.alternative = {},
                          !.input = <<>>, !.output = {}, !.isStart = FALSE]
<1>2. a \in Declaration
  BY <1>1, IdAssumption DEF Declaration
<1>3. c = CondVertex(n)
  BY DEF CondVertex
<1>4. LET r == CondVertex(n) IN
         r.id = n.expect /\ r.successor = {} /\ r.onOk = {} /\ r.onErr = {} /\ r.input = <<>>
  BY ZenonT(60) DEF Declaration, CondVertex
<1> HIDE DEF a
<1>5. b \in Declaration
  BY ZenonT(40), <1>1, <1>2 DEF Declaration
<1> HIDE DEF b
<1>6. <<>> \in Seq(Input)
  OBVIOUS
<1>7. c \in Declaration
  BY <1>5, <1>6 DEF Declaration
<1> QED
  BY <1>1, <1>3, <1>4, <1>7

LEMMA RelationsAre ==
  ASSUME NEW n
  PROVE  /\ Relations(n)[1].ids = n.deps /\ Relations(n)[1].expected = Results
         /\ Relations(n)[2].ids = n.depsOnOk /\ Relations(n)[2].expected = {"OK"}
         /\ Relations(n)[3].ids = n.depsOnErr /\ Relations(n)[3].expected = {"ERR"}
         /\ Relations(n)[4].ids = n.successor /\ Relations(n)[4].expected = Results
         /\ Relations(n)[5].ids = n.onOk /\ Relations(n)[5].expected = {"OK"}
         /\ Relations(n)[6].ids = n.onErr /\ Relations(n)[6].expected = {"ERR"}
BY DEF Relations

LEMMA RelationType ==
  ASSUME NEW n \in Declaration, NEW k \in 1..6
  PROVE  /\ Relations(n)[k].ids \subseteq Nodes
         /\ Relations(n)[k].expected \subseteq Results
         /\ Relations(n)[k].expected # {}
<1>1. /\ n.deps \subseteq Nodes /\ n.depsOnOk \subseteq Nodes /\ n.depsOnErr \subseteq Nodes
      /\ n.successor \subseteq Nodes /\ n.onOk \subseteq Nodes /\ n.onErr \subseteq Nodes
  BY DEF Declaration
<1>2. k = 1 \/ k = 2 \/ k = 3 \/ k = 4 \/ k = 5 \/ k = 6
  OBVIOUS
<1>3. Results # {} /\ {"OK"} \subseteq Results /\ {"ERR"} \subseteq Results
  BY DEF Results
<1>4. CASE k = 1
  BY <1>1, <1>3, <1>4, RelationsAre
<1>5. CASE k = 2
  BY <1>1, <1>3, <1>5, RelationsAre
<1>6. CASE k = 3
  BY <1>1, <1>3, <1>6, RelationsAre
<1>7. CASE k = 4
  BY <1>1, <1>3, <1>7, RelationsAre
<1>8. CASE k = 5
  BY <1>1, <1>3, <1>8, RelationsAre
<1>9. CASE k = 6
  BY <1>1, <1>3, <1>9, RelationsAre
<1> QED
  BY <1>2, <1>4, <1>5, <1>6, <1>7, <1>8, <1>9

LEMMA BuiltAre ==
  ASSUME NEW p \in Seq(Declaration), NEW g \in Seq(Declaration)
  PROVE  /\ DOMAIN (p \o g) = 1..(Len(p) + Len(g))
         /\ \A i \in DOMAIN (p \o g) : (p \o g)[i] \in Declaration
         /\ \A i \in DOMAIN p : i \in DOMAIN (p \o g) /\ (p \o g)[i] = p[i]
         /\ \A i \in DOMAIN (p \o g) \ DOMAIN p : \E j \in DOMAIN g : (p \o g)[i] = g[j]
         /\ \A j \in DOMAIN g :
              \E i \in DOMAIN (p \o g) \ DOMAIN p : (p \o g)[i] = g[j]
<1>1. /\ DOMAIN (p \o g) = 1..(Len(p) + Len(g))
      /\ DOMAIN p = 1..Len(p) /\ DOMAIN g = 1..Len(g)
      /\ Len(p) \in Nat /\ Len(g) \in Nat
  OBVIOUS
<1>2. \A i \in DOMAIN p : i \in DOMAIN (p \o g) /\ (p \o g)[i] = p[i]
  OBVIOUS
<1>3. \A i \in DOMAIN (p \o g) \ DOMAIN p :
        i - Len(p) \in DOMAIN g /\ (p \o g)[i] = g[i - Len(p)]
  OBVIOUS
<1>4. \A j \in DOMAIN g :
        j + Len(p) \in DOMAIN (p \o g) \ DOMAIN p /\ (p \o g)[j + Len(p)] = g[j]
  OBVIOUS
<1>5. \A i \in DOMAIN p : p[i] \in Declaration
  OBVIOUS
<1>6. \A j \in DOMAIN g : g[j] \in Declaration
  OBVIOUS
<1>7. \A i \in DOMAIN (p \o g) : (p \o g)[i] \in Declaration
  BY <1>1, <1>2, <1>3, <1>5, <1>6
<1> QED
  BY <1>1, <1>2, <1>3, <1>4, <1>7
-----------------------------------------------------------------------------
(***************************************************************************)
(* The first loop.                                                         *)
(***************************************************************************)
\* The state a build starts from: a sequence of declarations, empty tables.
Fresh ==
  /\ plan \in Seq(Declaration)
  /\ \A i \in DOMAIN plan :
       /\ plan[i].id \in Ids
       /\ plan[i].expectDeps \cup plan[i].deps \cup plan[i].depsOnOk \cup plan[i].depsOnErr \subseteq Ids
       /\ plan[i].successor \cup plan[i].onOk \cup plan[i].onErr \subseteq Ids
       /\ plan[i].consequent \cup plan[i].alternative \subseteq Ids
  /\ gens = <<>> /\ stage = "register" /\ pos = 1 /\ step = 1 /\ nodes = {}
  /\ producer = [x \in Data |-> None]
  /\ mask = [v \in Nodes |-> [d \in Nodes |-> {}]]
  /\ untested = {} /\ stack = <<>> /\ subject \in Nodes

LEMMA FreshInv == Fresh => IInv
<1> SUFFICES ASSUME Fresh
             PROVE  IInv
  OBVIOUS
<1>1. TypeOK
  <2>1. mask \in [Nodes -> [Nodes -> SUBSET Results]]
    BY DEF Fresh
  <2>2. producer \in [Data -> Ids \cup {None}]
    BY DEF Fresh
  <2> QED
    BY <2>1, <2>2 DEF Fresh, TypeOK
<1>2. stage = "register" /\ gens = <<>> /\ pos = 1 /\ step = 1 /\ nodes = {}
      /\ producer = [x \in Data |-> None]
  BY DEF Fresh
<1>3. Seen = {}
  <2>1. plan \in Seq(Declaration)
    BY <1>1 DEF TypeOK
  <2> QED
    BY <1>2, <2>1 DEF Seen
<1>4. PlanNames
  <2> SUFFICES ASSUME NEW i \in DOMAIN plan
               PROVE  PlanNames!(i)
    BY DEF PlanNames
  <2> QED
    BY <1>3 DEF Fresh
<1>5. GenNames /\ Registry
  BY <1>2, <1>3 DEF GenNames, Registry, Generated
<1>6. BuildInv /\ CircleInv
  BY <1>2 DEF BuildInv, CircleInv, Fresh
<1> QED
  BY <1>1, <1>4, <1>5, <1>6 DEF IInv

LEMMA InitInv ==
  ASSUME Init
  PROVE  IInv
<1>1. Nodes # {}
  BY IdAssumption DEF Nodes
<1>2. subject \in Nodes
  BY <1>1 DEF Init
<1>3. plan \in Seq(Declaration)
  BY PlanAssumption DEF Init
<1>4. plan \in Plans
  BY DEF Init
<1> QED
  BY <1>2, <1>3, <1>4, PlanAssumption, FreshInv DEF Init, Fresh

\* A build that fails.
LEMMA FailStep ==
  ASSUME IInv, Fail,
         UNCHANGED <<plan, gens, pos, step, nodes, producer, mask, untested, subject, stack>>
  PROVE  IInv'
<1>1. TypeOK'
  BY DEF IInv, TypeOK, Fail
<1>2. PlanNames'
  <2> SUFFICES ASSUME NEW i \in DOMAIN plan
               PROVE  PlanNames!(i)'
    BY DEF PlanNames
  <2>1. PlanNames!(i)
    BY DEF IInv, PlanNames
  <2>2. i \in Seen'
    BY DEF Fail, Seen
  <2> QED
    BY <2>1, <2>2
<1>3. GenNames' /\ Registry' /\ BuildInv' /\ CircleInv'
  BY DEF IInv, GenNames, Registry, BuildInv, CircleInv, Fail
<1> QED
  BY <1>1, <1>2, <1>3 DEF IInv

LEMMA RegisterStep ==
  ASSUME IInv, Register
  PROVE  IInv'
<1> DEFINE n == plan[pos]
<1>0. /\ TypeOK /\ PlanNames /\ GenNames /\ Registry /\ BuildInv
      /\ stage = "register" /\ pos \in DOMAIN plan /\ n \in Declaration
  <2>1. /\ TypeOK /\ PlanNames /\ GenNames /\ Registry /\ BuildInv
        /\ stage = "register" /\ pos <= Len(plan)
    BY DEF IInv, Register
  <2>2. plan \in Seq(Declaration) /\ pos \in Nat \ {0}
    BY <2>1 DEF TypeOK, BuildInv
  <2> QED
    BY <2>1, <2>2
<1>1. CASE BadDeclaration(n)
  BY <1>1, FailStep DEF Register, search
<1>2. CASE ~BadDeclaration(n)
  <2> DEFINE r == Registered(n)
             c == CondVertex(n)
             generate == n.expect \notin Generated \cup {None}
  <2>1. /\ gens' = IF generate THEN Append(gens, c) ELSE gens
        /\ plan' = [plan EXCEPT ![pos] = r]
        /\ nodes' = nodes \cup {n.id} \cup ({n.expect} \ {None})
        /\ producer' = [x \in Data |-> IF x \in n.output THEN n.id ELSE producer[x]]
        /\ pos' = pos + 1
        /\ UNCHANGED <<stage, step, mask, untested, subject, stack>>
    BY <1>2 DEF Register, search
  <2>2. /\ plan \in Seq(Declaration) /\ gens \in Seq(Declaration) /\ pos \in Nat \ {0}
        /\ nodes \subseteq Nodes /\ producer \in [Data -> Ids \cup {None}]
    BY <1>0 DEF TypeOK, BuildInv
  <2>3. r \in Declaration /\ (n.expect # None => c \in Declaration)
    BY <1>0, RegisteredType, CondVertexType
  <2>4. n.id \in Ids /\ n.id \in Nodes /\ n.expect \in Nodes \cup {None} /\ n.id \notin nodes
    BY <1>0, <1>2 DEF PlanNames, Declaration, Nodes, BadDeclaration
  <2> HIDE DEF r, c
  <2>5. /\ plan' \in Seq(Declaration) /\ DOMAIN plan' = DOMAIN plan
        /\ plan'[pos] = r /\ \A i \in DOMAIN plan \ {pos} : plan'[i] = plan[i]
    BY <1>0, <2>1, <2>2, <2>3
  <2>6. /\ gens' \in Seq(Declaration)
        /\ generate => /\ DOMAIN gens' = DOMAIN gens \cup {Len(gens) + 1}
                       /\ \A j \in DOMAIN gens : gens'[j] = gens[j]
                       /\ gens'[Len(gens) + 1] = c
        /\ ~generate => gens' = gens
    BY <2>1, <2>2, <2>3
  <2>7. TypeOK'
    <3>1. nodes' \subseteq Nodes /\ producer' \in [Data -> Ids \cup {None}] /\ pos' \in Nat
      BY <2>1, <2>2, <2>4
    <3> QED
      BY <1>0, <2>1, <2>5, <2>6, <3>1 DEF TypeOK
  <2>8. Seen' = Seen \cup {pos} /\ pos \notin Seen /\ Seen \subseteq DOMAIN plan
    BY <1>0, <2>1, <2>2, <2>5 DEF Seen
  <2>9. PlanNames'
    <3> SUFFICES ASSUME NEW i \in DOMAIN plan'
                 PROVE  PlanNames!(i)'
      BY DEF PlanNames
    <3>1. CASE i = pos
      <4>1. PlanNames!(pos)
        BY <1>0 DEF PlanNames
      <4> QED
        BY <1>0, <2>5, <2>8, <3>1, <4>1, RegisteredType DEF r
    <3>2. CASE i # pos
      <4>1. PlanNames!(i)
        BY <1>0, <2>5 DEF PlanNames
      <4> QED
        BY <2>5, <2>8, <3>2, <4>1
    <3> QED
      BY <3>1, <3>2
  <2>10. GenNames'
    <3>1. generate => /\ c.id \in Conds /\ c.input = <<>>
                      /\ c.successor = {} /\ c.onOk = {} /\ c.onErr = {}
      BY <1>0, CondVertexType DEF c
    <3> HIDE DEF generate
    <3> SUFFICES ASSUME NEW j \in DOMAIN gens'
                 PROVE  GenNames!(j)'
      BY DEF GenNames
    <3>2. CASE j \in DOMAIN gens
      <4>1. gens'[j] = gens[j]
        BY <2>6, <3>2
      <4>2. GenNames!(j)
        BY <1>0, <3>2 DEF GenNames
      <4> QED
        BY <4>1, <4>2
    <3>3. CASE j \notin DOMAIN gens
      <4>1. generate /\ gens'[j] = c
        BY <2>6, <3>3
      <4> QED
        BY <3>1, <4>1
    <3> QED
      BY <3>2, <3>3
  <2>11. Generated' = Generated \cup ({n.expect} \ {None})
    <3>1. CASE generate
      <4>1. c.id = n.expect /\ n.expect # None
        BY <1>0, <3>1, CondVertexType DEF c
      <4> QED
        BY <2>6, <3>1, <4>1 DEF Generated
    <3>2. CASE ~generate
      BY <2>6, <3>2 DEF Generated
    <3> QED
      BY <3>1, <3>2
  <2>12. Registry'
    <3>1. \A i \in DOMAIN plan : plan'[i].id = plan[i].id /\ plan'[i].expect = plan[i].expect
      BY <1>0, <2>5, RegisteredType DEF r
    <3>2. nodes = {plan[i].id : i \in Seen} \cup Generated
      BY <1>0 DEF Registry
    <3>3. nodes' = {plan'[i].id : i \in Seen'} \cup Generated'
      BY <2>1, <2>5, <2>8, <2>11, <3>1, <3>2
    <3>4. \A i \in Seen' : plan'[i].expect # None => plan'[i].expect \in plan'[i].depsOnOk
      <4>1. n.expect # None => n.expect \in r.depsOnOk
        BY <1>0, RegisteredType DEF r
      <4>2. \A i \in Seen : plan[i].expect # None => plan[i].expect \in plan[i].depsOnOk
        BY <1>0 DEF Registry
      <4> TAKE i \in Seen'
      <4>3. CASE i = pos
        BY <2>5, <4>1, <4>3, <3>1, <1>0
      <4>4. CASE i # pos
        <5>1. i \in Seen /\ plan'[i] = plan[i]
          BY <2>5, <2>8, <4>4
        <5> QED
          BY <4>2, <5>1
      <4> QED
        BY <4>3, <4>4
    <3>5. \A i, j \in Seen' : plan'[i].id = plan'[j].id => i = j
      <4>1. \A i, j \in Seen : plan[i].id = plan[j].id => i = j
        BY <1>0 DEF Registry
      <4>2. \A i \in Seen : plan[i].id # plan[pos].id
        BY <2>4, <3>2
      <4> TAKE i, j \in Seen'
      <4>3. i \in DOMAIN plan /\ j \in DOMAIN plan
        BY <1>0, <2>8
      <4>4. plan'[i].id = plan[i].id /\ plan'[j].id = plan[j].id
        BY <3>1, <4>3
      <4>5. (i \in Seen \/ i = pos) /\ (j \in Seen \/ j = pos)
        BY <2>8
      <4> QED
        BY <4>1, <4>2, <4>4, <4>5
    <3>6. \A x \in Data : producer'[x] # None => producer'[x] \in nodes' \cap Ids
      BY <1>0, <2>1, <2>4 DEF Registry
    <3> QED
      BY <3>3, <3>4, <3>5, <3>6 DEF Registry
  <2>13. BuildInv' /\ CircleInv'
    BY <1>0, <2>1, <2>2 DEF IInv, BuildInv, CircleInv
  <2> QED
    BY <2>7, <2>9, <2>10, <2>12, <2>13 DEF IInv
<1> QED
  BY <1>1, <1>2

LEMMA RegisterEndsStep ==
  ASSUME IInv, RegisterEnds
  PROVE  IInv'
<1>0. /\ TypeOK /\ PlanNames /\ GenNames /\ Registry /\ BuildInv
      /\ stage = "register" /\ stage' = "build" /\ pos' = 1 /\ step' = 1
      /\ UNCHANGED <<gens, nodes, producer, mask, untested, subject, stack>>
      /\ plan \in Seq(Declaration) /\ pos \in Nat /\ pos > Len(plan)
  BY DEF IInv, TypeOK, RegisterEnds, search
<1> DEFINE Same(m, n) ==
             /\ m.id = n.id /\ m.expect = n.expect /\ m.expectDeps = n.expectDeps
             /\ m.deps = n.deps /\ m.depsOnOk = n.depsOnOk /\ m.depsOnErr = n.depsOnErr
             /\ m.successor = n.successor /\ m.onOk = n.onOk /\ m.onErr = n.onErr
             /\ m.consequent = n.consequent /\ m.alternative = n.alternative
<1>1. /\ plan' \in Seq(Declaration) /\ DOMAIN plan' = DOMAIN plan
      /\ \A i \in DOMAIN plan : Same(plan'[i], plan[i])
  <2>1. CASE plan' = plan
    BY <1>0, <2>1
  <2>2. CASE Len(plan) = 1 /\ plan' = [plan EXCEPT ![1].isStart = TRUE]
    <3> DEFINE m == [plan[1] EXCEPT !.isStart = TRUE]
    <3>1. 1 \in DOMAIN plan /\ plan[1] \in Declaration /\ DOMAIN plan = {1}
      BY <1>0, <2>2
    <3>2. m \in Declaration /\ Same(m, plan[1])
      BY <3>1 DEF Declaration
    <3>3. plan' = [plan EXCEPT ![1] = m]
      BY <2>2
    <3> HIDE DEF m, Same
    <3>4. plan' \in Seq(Declaration) /\ DOMAIN plan' = DOMAIN plan /\ plan'[1] = m
      BY <1>0, <3>1, <3>2, <3>3
    <3> QED
      BY <3>1, <3>2, <3>4
  <2> QED
    BY <2>1, <2>2 DEF RegisterEnds
<1>2. \A i \in DOMAIN plan : i < pos
  BY <1>0
<1>3. Seen = DOMAIN plan /\ Seen' = DOMAIN plan
  BY <1>0, <1>1, <1>2 DEF Seen
<1>4. TypeOK'
  BY <1>0, <1>1 DEF TypeOK
<1>5. PlanNames'
  <2> SUFFICES ASSUME NEW i \in DOMAIN plan'
               PROVE  PlanNames!(i)'
    BY DEF PlanNames
  <2>1. PlanNames!(i)
    BY <1>0, <1>1 DEF PlanNames
  <2>2. Same(plan'[i], plan[i]) /\ i \in Seen /\ i \in Seen'
    BY <1>1, <1>3
  <2> QED
    BY <2>1, <2>2
<1>6. GenNames' /\ CircleInv'
  BY <1>0 DEF IInv, GenNames, CircleInv
<1>7. Registry'
  <2>1. \A i \in DOMAIN plan : /\ plan'[i].id = plan[i].id /\ plan'[i].expect = plan[i].expect
                               /\ plan'[i].depsOnOk = plan[i].depsOnOk
    BY <1>1
  <2>2. /\ nodes = {plan[i].id : i \in DOMAIN plan} \cup Generated /\ Generated' = Generated
        /\ \A i \in DOMAIN plan : plan[i].expect # None => plan[i].expect \in plan[i].depsOnOk
        /\ \A i, j \in DOMAIN plan : plan[i].id = plan[j].id => i = j
        /\ \A x \in Data : producer[x] # None => producer[x] \in nodes \cap Ids
    BY <1>0, <1>3 DEF Registry, Generated
  <2>3. nodes' = {plan'[i].id : i \in Seen'} \cup Generated'
    BY <1>0, <1>3, <2>1, <2>2
  <2> QED
    BY <1>0, <1>3, <2>1, <2>2, <2>3 DEF Registry
<1>8. BuildInv'
  <2>1. \A v, d \in Nodes : mask'[v][d] = {}
    BY <1>0 DEF BuildInv
  <2>2. \A i \in Nat \ {0} : \A k \in Nat \ {0} : ~Done(i, k)'
    BY <1>0 DEF Done, Before
  <2>3. /\ DOMAIN Built' \subseteq Nat \ {0}
        /\ \A i \in DOMAIN Built' : DOMAIN Built'[i].input \subseteq Nat \ {0}
    <3>1. plan' \in Seq(Declaration) /\ gens' \in Seq(Declaration)
      BY <1>4 DEF TypeOK
    <3>2. /\ DOMAIN Built' = 1..(Len(plan') + Len(gens'))
          /\ \A i \in DOMAIN Built' : Built'[i] \in Declaration
      BY <3>1, BuiltAre DEF Built
    <3>3. \A i \in DOMAIN Built' : Built'[i].input \in Seq(Input)
      BY <3>2 DEF Declaration
    <3> QED
      BY <3>1, <3>2, <3>3
  <2>4. Linked' /\ FirstDecides'
    BY <2>1 DEF Linked, FirstDecides
  <2>5. RelationsBuilt'
    BY <2>2, <2>3 DEF RelationsBuilt
  <2>6. InputsBuilt'
    <3>1. \A i \in DOMAIN Built' : \A k \in DOMAIN Built'[i].input : ~Done(i, 6 + k)'
      BY <2>2, <2>3
    <3> QED
      BY <3>1 DEF InputsBuilt
  <2> QED
    BY <1>0, <2>4, <2>5, <2>6 DEF BuildInv
<1> QED
  BY <1>4, <1>5, <1>6, <1>7, <1>8 DEF IInv
-----------------------------------------------------------------------------
(***************************************************************************)
(* The second loop.                                                        *)
(***************************************************************************)
LEMMA SameDeclarations ==
  ASSUME IInv, UNCHANGED <<plan, gens, nodes, producer>>,
         stage \notin {"register", "failed"}, stage' \notin {"register", "failed"}
  PROVE  PlanNames' /\ GenNames' /\ Registry' /\ Built' = Built
<1>1. Seen' = Seen
  BY DEF Seen
<1>2. PlanNames'
  <2> SUFFICES ASSUME NEW i \in DOMAIN plan
               PROVE  PlanNames!(i)'
    BY DEF PlanNames
  <2>1. PlanNames!(i)
    BY DEF IInv, PlanNames
  <2> QED
    BY <1>1, <2>1
<1>3. GenNames'
  BY DEF IInv, GenNames
<1>4. Registry'
  <2>1. Registry
    BY DEF IInv
  <2> QED
    BY <1>1, <2>1 DEF Registry, Generated
<1> QED
  BY <1>2, <1>3, <1>4 DEF Built

\* What the vertices of the graph are.
LEMMA BuiltNodes ==
  ASSUME IInv, stage \notin {"register", "failed"}
  PROVE  /\ \A i \in DOMAIN Built : /\ Built[i] \in Declaration /\ i \in Nat \ {0}
                                    /\ Built[i].id \in nodes /\ Built[i].id \in Nodes
         /\ \A i \in DOMAIN plan : i \in DOMAIN Built /\ Built[i] = plan[i]
         /\ \A i \in DOMAIN Built \ DOMAIN plan : \E j \in DOMAIN gens : Built[i] = gens[j]
         /\ DOMAIN Built = 1..Len(Built)
<1>1. plan \in Seq(Declaration) /\ gens \in Seq(Declaration) /\ nodes \subseteq Nodes
  BY DEF IInv, TypeOK
<1>2. /\ DOMAIN Built = 1..(Len(plan) + Len(gens))
      /\ \A i \in DOMAIN Built : Built[i] \in Declaration
      /\ \A i \in DOMAIN plan : i \in DOMAIN Built /\ Built[i] = plan[i]
      /\ \A i \in DOMAIN Built \ DOMAIN plan : \E j \in DOMAIN gens : Built[i] = gens[j]
  BY <1>1, BuiltAre DEF Built
<1>3. Len(plan) \in Nat /\ Len(gens) \in Nat /\ Built \in Seq(Declaration)
  BY <1>1 DEF Built
<1>4. nodes = {plan[i].id : i \in DOMAIN plan} \cup {gens[j].id : j \in DOMAIN gens}
  BY DEF IInv, Registry, Seen, Generated
<1>5. \A i \in DOMAIN Built : Built[i].id \in nodes
  BY <1>2, <1>4
<1> QED
  BY <1>1, <1>2, <1>3, <1>5

\* A call of Depend never changes what was decided before.
LEMMA DependOnce ==
  ASSUME TypeOK, NEW pairs, NEW expected \in SUBSET Results, Depend(pairs, expected)
  PROVE  /\ mask' \in [Nodes -> [Nodes -> SUBSET Results]]
         /\ \A v, d \in Nodes : mask[v][d] # {} => mask'[v][d] = mask[v][d]
         /\ \A v, d \in Nodes : mask[v][d] = {} =>
              mask'[v][d] = IF <<v, d>> \in pairs THEN expected ELSE {}
<1>1. mask \in [Nodes -> [Nodes -> SUBSET Results]]
  BY DEF TypeOK
<1> QED
  BY <1>1 DEF Depend

\* One part of Vertex::Build is done, with a call of Depend.
OnePart(pairs, expected) ==
  /\ stage = "build" /\ stage' = stage /\ pos \in DOMAIN Built
  /\ pos' = pos /\ step' = step + 1
  /\ UNCHANGED <<plan, gens, nodes, producer, untested, subject, stack>>
  /\ expected \in SUBSET Results /\ expected # {} /\ Depend(pairs, expected)
  /\ \A v, d \in Nodes : <<v, d>> \in pairs => v \in nodes /\ d \in nodes

LEMMA PartDone ==
  ASSUME IInv, NEW pairs, NEW expected, OnePart(pairs, expected)
  PROVE  /\ TypeOK' /\ PlanNames' /\ GenNames' /\ Registry' /\ CircleInv' /\ Built' = Built
         /\ Linked'
         /\ pos \in Nat \ {0} /\ step \in Nat \ {0}
         /\ \A v, d \in Nodes : mask[v][d] # {} => mask'[v][d] = mask[v][d]
         /\ \A v, d \in Nodes : mask[v][d] = {} =>
              mask'[v][d] = IF <<v, d>> \in pairs THEN expected ELSE {}
         /\ \A i, k \in Nat : Done(i, k)' <=> Done(i, k) \/ (i = pos /\ k = step)
<1>1. PlanNames' /\ GenNames' /\ Registry' /\ Built' = Built
  BY SameDeclarations DEF OnePart
<1>2. pos \in Nat \ {0} /\ step \in Nat \ {0} /\ Linked
  BY DEF IInv, BuildInv, OnePart
<1>3. /\ mask' \in [Nodes -> [Nodes -> SUBSET Results]]
      /\ \A v, d \in Nodes : mask[v][d] # {} => mask'[v][d] = mask[v][d]
      /\ \A v, d \in Nodes : mask[v][d] = {} =>
           mask'[v][d] = IF <<v, d>> \in pairs THEN expected ELSE {}
  BY DependOnce DEF OnePart, IInv
<1>4. TypeOK'
  BY <1>2, <1>3 DEF IInv, TypeOK, OnePart
<1>5. Linked'
  <2> SUFFICES ASSUME NEW v \in Nodes, NEW d \in Nodes, mask'[v][d] # {}
               PROVE  v \in nodes' /\ d \in nodes'
    BY DEF Linked
  <2>1. nodes' = nodes
    BY DEF OnePart
  <2>2. CASE mask[v][d] # {}
    BY <1>2, <2>1, <2>2 DEF Linked
  <2>3. CASE mask[v][d] = {}
    BY <1>3, <2>1, <2>3 DEF OnePart
  <2> QED
    BY <2>2, <2>3
<1>6. CircleInv'
  BY DEF IInv, OnePart, CircleInv
<1>7. \A i, k \in Nat : Done(i, k)' <=> Done(i, k) \/ (i = pos /\ k = step)
  BY <1>2 DEF OnePart, Done, Before
<1> QED
  BY <1>1, <1>2, <1>3, <1>4, <1>5, <1>6, <1>7

\* What was built stays built.
LEMMA PartKept ==
  ASSUME IInv, NEW pairs, NEW expected, OnePart(pairs, expected)
  PROVE  /\ \A i \in DOMAIN Built, k \in 1..6 : Done(i, k) =>
              \A v, d \in Nodes : Names(Built[i], k, v, d) => mask'[v][d] # {}
         /\ \A i \in DOMAIN Built : \A k \in DOMAIN Built[i].input : Done(i, 6 + k) =>
              \A x \in Built[i].input[k].from : Arrives(Built[i], Built[i].input[k], x)'
         /\ \A v, d \in Nodes : mask[v][d] # {} =>
              \/ \E i \in DOMAIN Built, k \in 1..6 : Done(i, k)' /\ ByRelation(v, d, i, k)'
              \/ ByInput(v, d)'
<1>0. /\ RelationsBuilt /\ InputsBuilt /\ FirstDecides /\ Built' = Built /\ producer' = producer
      /\ \A v, d \in Nodes : mask[v][d] # {} => mask'[v][d] = mask[v][d]
      /\ \A i, k \in Nat : Done(i, k) => Done(i, k)'
  BY PartDone DEF IInv, BuildInv, OnePart
<1>1. \A i \in DOMAIN Built : i \in Nat /\ Built[i] \in Declaration /\ Built[i].id \in Nodes
  BY BuiltNodes DEF OnePart
<1>2. ASSUME NEW i \in DOMAIN Built, NEW k \in 1..6, Done(i, k), NEW v \in Nodes, NEW d \in Nodes,
             Names(Built[i], k, v, d)
      PROVE  mask'[v][d] # {}
  BY <1>0, <1>2 DEF RelationsBuilt
<1>3. ASSUME NEW i \in DOMAIN Built, NEW k \in DOMAIN Built[i].input, Done(i, 6 + k),
             NEW x \in Built[i].input[k].from
      PROVE  Arrives(Built[i], Built[i].input[k], x)'
  <2>1. Arrives(Built[i], Built[i].input[k], x)
    BY <1>0, <1>3 DEF InputsBuilt
  <2>2. producer[x] \in Nodes \/ producer[x] = None
    <3>1. Built[i].input \in Seq(Input)
      BY <1>1 DEF Declaration
    <3>2. Built[i].input[k] \in Input
      BY <3>1
    <3>3. x \in Data
      BY <3>2 DEF Input
    <3> QED
      BY <3>3 DEF IInv, TypeOK, Nodes
  <2> QED
    BY <1>0, <1>1, <2>1, <2>2 DEF Arrives
<1>4. ASSUME NEW v \in Nodes, NEW d \in Nodes, mask[v][d] # {}
      PROVE  \/ \E i \in DOMAIN Built, k \in 1..6 : Done(i, k)' /\ ByRelation(v, d, i, k)'
             \/ ByInput(v, d)'
  <2>1. ByInput(v, d) => ByInput(v, d)'
    BY <1>0 DEF ByInput, Producers
  <2>2. \A i, k : ByRelation(v, d, i, k) => ByRelation(v, d, i, k)'
    BY <1>0, <1>4 DEF ByRelation
  <2>3. \A i \in DOMAIN Built, k \in 1..6 : Done(i, k) => Done(i, k)'
    BY <1>0, <1>1
  <2>4. (\E i \in DOMAIN Built, k \in 1..6 : Done(i, k) /\ ByRelation(v, d, i, k)) \/ ByInput(v, d)
    BY <1>0, <1>4 DEF FirstDecides
  <2> QED
    BY <2>1, <2>2, <2>3, <2>4
<1> QED
  BY <1>2, <1>3, <1>4

LEMMA BuildRelationStep ==
  ASSUME IInv, BuildRelation
  PROVE  IInv'
<1> DEFINE n == Built[pos]
           r == Relations(n)[step]
           pairs == {p \in Nodes \X Nodes : Names(n, step, p[1], p[2])}
<1>0. /\ stage = "build" /\ pos \in DOMAIN Built /\ step \in 1..6 /\ n \in Declaration
      /\ n.id \in nodes /\ nodes \subseteq Nodes
  <2>1. stage = "build" /\ pos <= Len(Built) /\ step <= 6
    BY DEF BuildRelation
  <2>2. pos \in Nat \ {0} /\ step \in Nat \ {0} /\ nodes \subseteq Nodes
    BY <2>1 DEF IInv, BuildInv, TypeOK
  <2>3. /\ DOMAIN Built = 1..Len(Built)
        /\ \A i \in DOMAIN Built : Built[i] \in Declaration /\ Built[i].id \in nodes
    BY <2>1, BuiltNodes
  <2>4. Len(Built) \in Nat
    BY DEF IInv, TypeOK, Built
  <2> QED
    BY <2>1, <2>2, <2>3, <2>4
<1>1. CASE stage' = "failed" /\ UNCHANGED <<mask, step>>
  BY <1>1, FailStep DEF BuildRelation, search, Fail
<1>2. CASE stage' # "failed" \/ ~UNCHANGED <<mask, step>>
  <2>1. /\ r.ids \subseteq nodes /\ Depend(pairs, r.expected)
        /\ step' = step + 1 /\ stage' = stage
        /\ UNCHANGED <<plan, gens, pos, nodes, producer, untested, subject, stack>>
    BY <1>2 DEF BuildRelation, search, Fail
  <2>2. r.expected \in SUBSET Results /\ r.expected # {} /\ r.ids \subseteq Nodes
    BY <1>0, RelationType
  <2> HIDE DEF r
  <2>3. \A v, d \in Nodes : <<v, d>> \in pairs <=> Names(n, step, v, d)
    OBVIOUS
  <2>4. \A v, d \in Nodes : Names(n, step, v, d) => v \in nodes /\ d \in nodes
    BY <1>0, <2>1 DEF Names, r
  <2> HIDE DEF n, pairs
  <2>5. OnePart(pairs, r.expected)
    BY <1>0, <2>1, <2>2, <2>3, <2>4 DEF OnePart
  <2>6. /\ TypeOK' /\ PlanNames' /\ GenNames' /\ Registry' /\ CircleInv' /\ Built' = Built
        /\ Linked' /\ pos \in Nat \ {0} /\ step \in Nat \ {0}
        /\ \A v, d \in Nodes : mask[v][d] # {} => mask'[v][d] = mask[v][d]
        /\ \A v, d \in Nodes : mask[v][d] = {} =>
             mask'[v][d] = IF <<v, d>> \in pairs THEN r.expected ELSE {}
        /\ \A i, k \in Nat : Done(i, k)' <=> Done(i, k) \/ (i = pos /\ k = step)
    BY <2>5, PartDone
  <2>7. \A i \in DOMAIN Built : i \in Nat /\ Built[i] \in Declaration
    BY <1>0, BuiltNodes
  <2>8. RelationsBuilt'
    <3> SUFFICES ASSUME NEW i \in DOMAIN Built, NEW k \in 1..6, Done(i, k)',
                        NEW v \in Nodes, NEW d \in Nodes, Names(Built[i], k, v, d)
                 PROVE  mask'[v][d] # {}
      BY <2>6 DEF RelationsBuilt
    <3>1. CASE Done(i, k)
      BY <2>5, <3>1, PartKept
    <3>2. CASE i = pos /\ k = step
      BY <2>2, <2>3, <2>6, <3>2 DEF n
    <3> QED
      BY <2>6, <2>7, <3>1, <3>2
  <2>9. InputsBuilt'
    <3> SUFFICES ASSUME NEW i \in DOMAIN Built, NEW k \in DOMAIN Built[i].input, Done(i, 6 + k)',
                        NEW x \in Built[i].input[k].from
                 PROVE  Arrives(Built[i], Built[i].input[k], x)'
      BY <2>6 DEF InputsBuilt
    <3>1. Built[i].input \in Seq(Input)
      BY <2>7 DEF Declaration
    <3>2. 6 + k \in Nat /\ 6 + k # step
      BY <1>0, <3>1
    <3>3. Done(i, 6 + k)
      BY <2>6, <2>7, <3>2
    <3> QED
      BY <2>5, <3>3, PartKept
  <2>10. FirstDecides'
    <3> SUFFICES ASSUME NEW v \in Nodes, NEW d \in Nodes, mask'[v][d] # {}
                 PROVE  \/ \E i \in DOMAIN Built, k \in 1..6 :
                             Done(i, k)' /\ ByRelation(v, d, i, k)'
                        \/ ByInput(v, d)'
      BY <2>6 DEF FirstDecides
    <3>1. CASE mask[v][d] # {}
      BY <2>5, <3>1, PartKept
    <3>2. CASE mask[v][d] = {}
      <4>1. Names(n, step, v, d) /\ mask'[v][d] = r.expected
        BY <2>3, <2>6, <3>2
      <4>2. ASSUME NEW j \in DOMAIN Built, NEW l \in 1..6, Before(j, l, pos, step)
            PROVE  ~Names(Built[j], l, v, d)
        <5>1. Done(j, l) /\ RelationsBuilt
          BY <1>0, <4>2 DEF Done, IInv, BuildInv
        <5> QED
          BY <3>2, <5>1 DEF RelationsBuilt
      <4>3. PICK i \in DOMAIN Built, k \in 1..6 : i = pos /\ k = step
        BY <1>0
      <4>4. ByRelation(v, d, i, k)'
        <5>1. \A j \in DOMAIN Built, l \in 1..6 :
                Before(j, l, i, k) => ~Names(Built[j], l, v, d)
          BY <4>2, <4>3
        <5>2. Names(Built[i], k, v, d) /\ mask'[v][d] = Relations(Built[i])[k].expected
          BY <4>1, <4>3 DEF n, r
        <5> QED
          BY <2>6, <5>1, <5>2 DEF ByRelation
      <4>5. Done(i, k)'
        BY <2>6, <2>7, <4>3
      <4> QED
        BY <4>4, <4>5
    <3> QED
      BY <3>1, <3>2
  <2>11. BuildInv'
    BY <1>0, <2>1, <2>6, <2>8, <2>9, <2>10 DEF BuildInv
  <2> QED
    BY <2>6, <2>11 DEF IInv
<1> QED
  BY <1>1, <1>2

LEMMA BuildInputStep ==
  ASSUME IInv, BuildInput
  PROVE  IInv'
<1> DEFINE n == Built[pos]
           in == n.input[step - 6]
           expected == IF in.required THEN {"OK"} ELSE Results
           pairs == {n.id} \X Producers(n, in)
<1>0. /\ stage = "build" /\ pos \in DOMAIN Built /\ step \in Nat /\ step > 6 /\ n \in Declaration
      /\ n.id \in nodes /\ n.id \in Nodes /\ nodes \subseteq Nodes /\ Registry
      /\ step - 6 \in DOMAIN n.input /\ in \in Input
  <2>1. stage = "build" /\ pos <= Len(Built) /\ step > 6 /\ step - 6 <= Len(Built[pos].input)
    BY DEF BuildInput
  <2>2. pos \in Nat \ {0} /\ step \in Nat \ {0} /\ nodes \subseteq Nodes /\ Registry
    BY <2>1 DEF IInv, BuildInv, TypeOK
  <2>3. /\ DOMAIN Built = 1..Len(Built)
        /\ \A i \in DOMAIN Built : Built[i] \in Declaration /\ Built[i].id \in nodes
    BY <2>1, BuiltNodes
  <2>4. Len(Built) \in Nat
    BY DEF IInv, TypeOK, Built
  <2>5. pos \in DOMAIN Built /\ n \in Declaration /\ n.id \in nodes
    BY <2>1, <2>2, <2>3, <2>4
  <2>6. n.input \in Seq(Input)
    BY <2>5 DEF Declaration
  <2> HIDE DEF n
  <2>7. step - 6 \in DOMAIN n.input
    BY <2>1, <2>2, <2>6 DEF n
  <2>8. in \in Input
    BY <2>6, <2>7
  <2> QED
    BY <2>1, <2>2, <2>5, <2>7, <2>8
<1>1. CASE stage' = "failed" /\ UNCHANGED <<mask, step>>
  BY <1>1, FailStep DEF BuildInput, search, Fail
<1>2. CASE stage' # "failed" \/ ~UNCHANGED <<mask, step>>
  <2>1. /\ in.extern \/ \A x \in in.from : producer[x] # None
        /\ Depend(pairs, expected)
        /\ step' = step + 1 /\ stage' = stage
        /\ UNCHANGED <<plan, gens, pos, nodes, producer, untested, subject, stack>>
    BY <1>2 DEF BuildInput, search, Fail
  <2>2. expected \in SUBSET Results /\ expected # {} /\ in.from \subseteq Data
    BY <1>0 DEF Results, Input
  <2> HIDE DEF expected
  <2>3. \A d \in Producers(n, in) : d \in nodes
    <3>1. \A x \in Data : producer[x] # None => producer[x] \in nodes
      BY <1>0 DEF Registry
    <3> QED
      BY <2>2, <3>1 DEF Producers
  <2>4. \A v, d \in Nodes : <<v, d>> \in pairs => v \in nodes /\ d \in nodes
    BY <1>0, <2>3
  <2>5. OnePart(pairs, expected)
    BY <1>0, <2>1, <2>2, <2>4 DEF OnePart
  <2>6. /\ TypeOK' /\ PlanNames' /\ GenNames' /\ Registry' /\ CircleInv' /\ Built' = Built
        /\ Linked' /\ pos \in Nat \ {0} /\ step \in Nat \ {0}
        /\ \A v, d \in Nodes : mask[v][d] # {} => mask'[v][d] = mask[v][d]
        /\ \A v, d \in Nodes : mask[v][d] = {} =>
             mask'[v][d] = IF <<v, d>> \in pairs THEN expected ELSE {}
        /\ \A i, k \in Nat : Done(i, k)' <=> Done(i, k) \/ (i = pos /\ k = step)
    BY <2>5, PartDone
  <2>7. \A i \in DOMAIN Built : i \in Nat /\ Built[i] \in Declaration
    BY <1>0, BuiltNodes
  <2>8. RelationsBuilt'
    <3> SUFFICES ASSUME NEW i \in DOMAIN Built, NEW k \in 1..6, Done(i, k)',
                        NEW v \in Nodes, NEW d \in Nodes, Names(Built[i], k, v, d)
                 PROVE  mask'[v][d] # {}
      BY <2>6 DEF RelationsBuilt
    <3>1. Done(i, k)
      BY <1>0, <2>6, <2>7
    <3> QED
      BY <2>5, <3>1, PartKept
  <2>9. ASSUME NEW x \in in.from
        PROVE  \/ producer[x] = None /\ in.extern
               \/ producer[x] # None /\ mask'[n.id][producer[x]] # {}
               \/ producer[x] = n.id /\ in.inOut
    <3>1. x \in Data
      BY <2>2
    <3>2. CASE producer[x] = None
      BY <2>1, <3>2
    <3>3. CASE producer[x] # None /\ producer[x] = n.id /\ in.inOut
      BY <3>3
    <3>4. CASE producer[x] # None /\ ~(producer[x] = n.id /\ in.inOut)
      <4>1. producer[x] \in Producers(n, in)
        BY <3>4 DEF Producers
      <4>2. producer[x] \in Nodes
        BY <1>0, <2>3, <4>1
      <4>3. <<n.id, producer[x]>> \in pairs
        BY <4>1
      <4>4. mask'[n.id][producer[x]] # {}
        BY <1>0, <2>2, <2>6, <4>2, <4>3
      <4> QED
        BY <3>4, <4>4
    <3> QED
      BY <3>2, <3>3, <3>4
  <2>10. InputsBuilt'
    <3> SUFFICES ASSUME NEW i \in DOMAIN Built, NEW k \in DOMAIN Built[i].input, Done(i, 6 + k)',
                        NEW x \in Built[i].input[k].from
                 PROVE  Arrives(Built[i], Built[i].input[k], x)'
      BY <2>6 DEF InputsBuilt
    <3>1. Built[i].input \in Seq(Input)
      BY <2>7 DEF Declaration
    <3>2. k \in Nat /\ 6 + k \in Nat
      BY <3>1
    <3>3. CASE Done(i, 6 + k)
      BY <2>5, <3>3, PartKept
    <3>4. CASE i = pos /\ 6 + k = step
      <4>1. k = step - 6
        BY <1>0, <3>2, <3>4
      <4>2. Built[i] = n /\ Built[i].input[k] = in /\ producer' = producer
        BY <2>1, <3>4, <4>1
      <4>3. \/ producer[x] = None /\ in.extern
            \/ producer[x] # None /\ mask'[n.id][producer[x]] # {}
            \/ producer[x] = n.id /\ in.inOut
        BY <2>9, <4>2
      <4> HIDE DEF n, in
      <4> QED
        BY <2>6, <4>2, <4>3 DEF Arrives
    <3> QED
      BY <2>6, <2>7, <3>2, <3>3, <3>4
  <2>11. FirstDecides'
    <3> SUFFICES ASSUME NEW v \in Nodes, NEW d \in Nodes, mask'[v][d] # {}
                 PROVE  \/ \E i \in DOMAIN Built, k \in 1..6 :
                             Done(i, k)' /\ ByRelation(v, d, i, k)'
                        \/ ByInput(v, d)'
      BY <2>6 DEF FirstDecides
    <3>1. CASE mask[v][d] # {}
      BY <2>5, <3>1, PartKept
    <3>2. CASE mask[v][d] = {}
      <4>1. v = n.id /\ d \in Producers(n, in)
        BY <2>6, <3>2
      <4>2. ByInput(v, d)
        BY <1>0, <4>1 DEF ByInput
      <4>3. producer' = producer
        BY <2>1
      <4>4. ByInput(v, d)'
        BY <2>6, <4>2, <4>3 DEF ByInput, Producers
      <4> QED
        BY <4>4
    <3> QED
      BY <3>1, <3>2
  <2>12. BuildInv'
    BY <1>0, <2>1, <2>6, <2>8, <2>10, <2>11 DEF BuildInv
  <2> QED
    BY <2>6, <2>12 DEF IInv
<1> QED
  BY <1>1, <1>2

\* A step that leaves the dependencies alone.
LEMMA SameMask ==
  ASSUME IInv, UNCHANGED <<plan, gens, nodes, producer, mask>>,
         stage \notin {"register", "failed"}, stage' \notin {"register", "failed"},
         stage' = "build" => pos' \in Nat \ {0} /\ step' \in Nat \ {0},
         \A i \in DOMAIN Built, k \in 1..6 : Done(i, k)' <=> Done(i, k),
         \A i \in DOMAIN Built : \A k \in DOMAIN Built[i].input : Done(i, 6 + k)' <=> Done(i, 6 + k)
  PROVE  PlanNames' /\ GenNames' /\ Registry' /\ BuildInv'
<1>1. PlanNames' /\ GenNames' /\ Registry' /\ Built' = Built
  BY SameDeclarations
<1>2. Linked /\ RelationsBuilt /\ InputsBuilt /\ FirstDecides
  BY DEF IInv, BuildInv
<1>3. Linked'
  BY <1>2 DEF Linked
<1>4. RelationsBuilt'
  BY <1>1, <1>2 DEF RelationsBuilt
<1>5. InputsBuilt'
  <2> SUFFICES ASSUME NEW i \in DOMAIN Built, NEW k \in DOMAIN Built[i].input, Done(i, 6 + k)',
                      NEW x \in Built[i].input[k].from
               PROVE  Arrives(Built[i], Built[i].input[k], x)'
    BY <1>1 DEF InputsBuilt
  <2>1. Arrives(Built[i], Built[i].input[k], x)
    BY <1>2 DEF InputsBuilt
  <2> QED
    BY <1>1, <2>1 DEF Arrives
<1>6. FirstDecides'
  <2>1. \A v, d : ByInput(v, d) => ByInput(v, d)'
    BY <1>1 DEF ByInput, Producers
  <2>2. \A v, d, i, k : ByRelation(v, d, i, k) => ByRelation(v, d, i, k)'
    BY <1>1 DEF ByRelation
  <2> SUFFICES ASSUME NEW v \in Nodes, NEW d \in Nodes, mask[v][d] # {}
               PROVE  \/ \E i \in DOMAIN Built, k \in 1..6 : Done(i, k)' /\ ByRelation(v, d, i, k)'
                      \/ ByInput(v, d)'
    BY <1>1 DEF FirstDecides
  <2>3. (\E i \in DOMAIN Built, k \in 1..6 : Done(i, k) /\ ByRelation(v, d, i, k)) \/ ByInput(v, d)
    BY <1>2 DEF FirstDecides
  <2> QED
    BY <2>1, <2>2, <2>3
<1> QED
  BY <1>1, <1>3, <1>4, <1>5, <1>6 DEF BuildInv

LEMMA BuildNextStep ==
  ASSUME IInv, BuildNext
  PROVE  IInv'
<1>0. /\ stage = "build" /\ stage' = "build" /\ pos <= Len(Built)
      /\ step - 6 > Len(Built[pos].input) /\ pos' = pos + 1 /\ step' = 1
      /\ UNCHANGED <<plan, gens, nodes, producer, mask, untested, subject, stack>>
  BY DEF BuildNext, search
<1>1. pos \in Nat \ {0} /\ step \in Nat \ {0}
  BY <1>0 DEF IInv, BuildInv
<1>2. \A i \in DOMAIN Built : /\ i \in Nat /\ Built[i].input \in Seq(Input)
                              /\ DOMAIN Built[i].input = 1..Len(Built[i].input)
                              /\ Len(Built[i].input) \in Nat
  <2>1. \A i \in DOMAIN Built : i \in Nat /\ Built[i] \in Declaration
    BY <1>0, BuiltNodes
  <2>2. \A i \in DOMAIN Built : Built[i].input \in Seq(Input)
    BY <2>1 DEF Declaration
  <2> QED
    BY <2>1, <2>2
<1>3. pos \in DOMAIN Built
  <2>1. DOMAIN Built = 1..Len(Built)
    BY <1>0, BuiltNodes
  <2>2. Len(Built) \in Nat
    BY DEF IInv, TypeOK, Built
  <2> QED
    BY <1>0, <1>1, <2>1, <2>2
<1>4. ASSUME NEW i \in DOMAIN Built, NEW k \in Nat \ {0}, k <= 6 + Len(Built[i].input)
      PROVE  Done(i, k)' <=> Done(i, k)
  <2>1. i = pos => k < step
    BY <1>0, <1>1, <1>2, <1>3, <1>4
  <2>2. i \in Nat
    BY <1>2
  <2> QED
    BY <1>0, <1>1, <2>1, <2>2 DEF Done, Before
<1>5. \A i \in DOMAIN Built, k \in 1..6 : Done(i, k)' <=> Done(i, k)
  BY <1>2, <1>4
<1>6. \A i \in DOMAIN Built : \A k \in DOMAIN Built[i].input : Done(i, 6 + k)' <=> Done(i, 6 + k)
  BY <1>2, <1>4
<1>7. PlanNames' /\ GenNames' /\ Registry' /\ BuildInv'
  BY <1>0, <1>1, <1>5, <1>6, SameMask
<1>8. TypeOK' /\ CircleInv'
  BY <1>0, <1>1 DEF IInv, TypeOK, CircleInv
<1> QED
  BY <1>7, <1>8 DEF IInv

LEMMA BuildEndStep ==
  ASSUME IInv, BuildEnd
  PROVE  IInv'
<1>0. /\ stage = "build" /\ stage' = "verify" /\ pos > Len(Built)
      /\ UNCHANGED <<plan, gens, pos, step, nodes, producer, mask, untested, subject, stack>>
  BY DEF BuildEnd, search
<1>1. \A i \in DOMAIN Built : i < pos
  <2>1. DOMAIN Built = 1..Len(Built)
    BY <1>0, BuiltNodes
  <2>2. Len(Built) \in Nat /\ pos \in Nat
    BY DEF IInv, TypeOK, Built
  <2> QED
    BY <1>0, <2>1, <2>2
<1>2. \A i \in DOMAIN Built : \A k : Done(i, k) /\ Done(i, k)'
  BY <1>0, <1>1 DEF Done, Before
<1>3. PlanNames' /\ GenNames' /\ Registry' /\ BuildInv'
  BY <1>0, <1>2, SameMask
<1>4. TypeOK' /\ CircleInv'
  BY <1>0 DEF IInv, TypeOK, CircleInv
<1> QED
  BY <1>3, <1>4 DEF IInv

\* From here on only the search changes anything.
LEMMA SearchKeeps ==
  ASSUME IInv, UNCHANGED <<plan, gens, pos, step, nodes, producer, mask>>,
         stage \in {"verify", "circle"}, stage' \in {"circle", "ok", "hasCircle", "overflow"}
  PROVE  PlanNames' /\ GenNames' /\ Registry' /\ BuildInv' /\ Edges' = Edges
<1>1. \A i, k : Done(i, k) /\ Done(i, k)'
  BY DEF Done
<1>2. PlanNames' /\ GenNames' /\ Registry' /\ BuildInv'
  BY <1>1, SameMask
<1> QED
  BY <1>2 DEF Edges, Successors

LEMMA VerifyStep ==
  ASSUME IInv, Verify
  PROVE  IInv'
<1>0. /\ stage = "verify"
      /\ UNCHANGED <<plan, gens, pos, step, nodes, producer, mask, subject, stack>>
  BY DEF Verify
<1>1. CASE stage' = "failed" /\ untested' = untested
  BY <1>0, <1>1, FailStep DEF Fail
<1>2. CASE stage' = "circle" /\ untested' = nodes
  <2>1. stack' = <<>> /\ nodes \subseteq Nodes
    BY <1>0 DEF IInv, CircleInv, TypeOK
  <2>2. TypeOK'
    BY <1>0, <1>2, <2>1 DEF IInv, TypeOK
  <2>3. \E p \in [DOMAIN stack' -> Nodes] : OnPath(p)'
    <3>1. [k \in {} |-> subject] \in [{} -> Nodes]
      OBVIOUS
    <3>2. DOMAIN stack' = {}
      BY <2>1
    <3> QED
      BY <2>1, <3>1, <3>2 DEF OnPath
  <2>4. CircleInv'
    BY <1>0, <1>2, <2>1, <2>3 DEF CircleInv
  <2> QED
    BY <1>0, <1>2, <2>2, <2>4, SearchKeeps DEF IInv
<1> QED
  BY <1>1, <1>2 DEF Verify, Fail
-----------------------------------------------------------------------------
(***************************************************************************)
(* The search for a circle.                                                *)
(***************************************************************************)
LEMMA EdgesType == Edges \in [Nodes -> SUBSET Nodes]
BY DEF Edges, Successors

\* The frames of a search for v that follow the path q and from which v, if it
\* is on a circle, can be reached, or else from u, which is entered next.
Searching(v, u, frames, q) ==
  /\ frames \in Seq(SUBSET Nodes) /\ q \in [DOMAIN frames -> Nodes]
  /\ \A k \in DOMAIN frames : frames[k] \subseteq Edges[q[k]] /\ u \in Reach(Nodes, Edges, q[k])
  /\ \A i, j \in DOMAIN frames : i < j => q[j] \in Reach(Nodes, Edges, q[i])
  /\ IF frames = <<>> THEN u = v ELSE q[1] = v
  /\ Self(v) => \/ \E k \in DOMAIN frames : \E s \in frames[k] : v \in Reach(Nodes, Edges, s)
                \/ v \in Reach(Nodes, Edges, u)

\* A search that is deeper than there are vertices has been somewhere twice.
LEMMA TooDeep ==
  ASSUME NEW v \in Nodes, NEW u \in Nodes, NEW frames, NEW q, Searching(v, u, frames, q),
         Len(frames) >= MaxStack
  PROVE  \E w \in Nodes : Self(w)
<1> DEFINE L == Len(frames)
           f == [k \in 1..(L + 1) |-> IF k = L + 1 THEN u ELSE q[k]]
<1>1. L \in Nat /\ DOMAIN frames = 1..L /\ q \in [1..L -> Nodes]
  BY DEF Searching
<1>2. f \in [1..(L + 1) -> Nodes]
  BY <1>1
<1>3. IsFiniteSet(Nodes) /\ Cardinality(Nodes) \in Nat /\ Cardinality(Nodes) <= L
  BY <1>1, IdAssumption, FS_CardinalityType DEF Nodes
<1>4. IsFiniteSet(1..(L + 1)) /\ Cardinality(1..(L + 1)) = L + 1
  BY <1>1, FS_Interval
<1>5. \A i, j \in 1..(L + 1) : i < j => f[j] \in Reach(Nodes, Edges, f[i])
  <2> SUFFICES ASSUME NEW i \in 1..(L + 1), NEW j \in 1..(L + 1), i < j
               PROVE  f[j] \in Reach(Nodes, Edges, f[i])
    OBVIOUS
  <2>1. i \in DOMAIN frames /\ f[i] = q[i]
    BY <1>1
  <2>2. CASE j = L + 1
    BY <2>1, <2>2 DEF Searching
  <2>3. CASE j # L + 1
    <3>1. j \in DOMAIN frames /\ f[j] = q[j]
      BY <1>1, <2>3
    <3> QED
      BY <2>1, <3>1 DEF Searching
  <2> QED
    BY <2>2, <2>3
<1> HIDE DEF f
<1>6. Cardinality(Nodes) < Cardinality(1..(L + 1))
  BY <1>1, <1>3, <1>4
<1>7. PICK x, y \in 1..(L + 1) : x # y /\ f[x] = f[y]
  BY <1>2, <1>3, <1>4, <1>6, FS_PigeonHole
<1>8. f[x] \in Nodes /\ f[x] \in Reach(Nodes, Edges, f[x])
  <2>1. x < y \/ y < x
    BY <1>1, <1>7
  <2> QED
    BY <1>2, <1>5, <1>7, <2>1
<1> QED
  BY <1>8 DEF Self

LEMMA EnterStep ==
  ASSUME stage = "circle", NEW v \in Nodes, NEW u \in Nodes, NEW frames, NEW q,
         Searching(v, u, frames, q), Enter(u, v, frames), Edges' = Edges, subject' = v
  PROVE  /\ stage' \in {"circle", "hasCircle", "overflow"} /\ stack' \in Seq(SUBSET Nodes)
         /\ stage' = "circle" =>
              /\ \E p \in [DOMAIN stack' -> Nodes] : OnPath(p)'
              /\ Self(v) => stack' # <<>> /\ Ahead'
         /\ stage' # "circle" => \E w \in Nodes : Self(w)
<1>0. Edges \in [Nodes -> SUBSET Nodes] /\ Successors(u) = Edges[u]
  BY EdgesType DEF Edges
<1>1. /\ frames \in Seq(SUBSET Nodes) /\ q \in [DOMAIN frames -> Nodes]
      /\ DOMAIN frames = 1..Len(frames) /\ Len(frames) \in Nat
  BY DEF Searching
<1>2. CASE v \in Edges[u]
  <2>1. stage' = "hasCircle" /\ stack' \in Seq(SUBSET Nodes)
    BY <1>0, <1>1, <1>2 DEF Enter
  <2>2. Self(v)
    <3>1. CASE frames = <<>>
      <4>1. u = v
        BY <3>1 DEF Searching
      <4> QED
        BY <1>0, <1>2, <4>1, ReachClosed DEF Self
    <3>2. CASE frames # <<>>
      <4>1. 1 \in DOMAIN frames
        BY <1>1, <3>2
      <4>2. u \in Reach(Nodes, Edges, v)
        BY <3>2, <4>1 DEF Searching
      <4>3. Closed(Edges, Reach(Nodes, Edges, v))
        BY <1>0, ReachClosed
      <4> QED
        BY <1>2, <4>2, <4>3 DEF Closed, Self
    <3> QED
      BY <3>1, <3>2
  <2> QED
    BY <2>1, <2>2
<1>3. CASE v \notin Edges[u] /\ Edges[u] # {} /\ Len(frames) >= MaxStack
  <2>1. stage' = "overflow" /\ stack' = frames
    BY <1>0, <1>3 DEF Enter
  <2> QED
    BY <1>1, <1>3, <2>1, TooDeep
<1>4. CASE v \notin Edges[u] /\ Edges[u] = {}
  <2>1. stage' = "circle" /\ stack' = frames
    BY <1>0, <1>4 DEF Enter
  <2>2. v \notin Reach(Nodes, Edges, u)
    BY <1>0, <1>4, ReachFirst
  <2>3. Self(v) => \E k \in DOMAIN frames : \E s \in frames[k] : v \in Reach(Nodes, Edges, s)
    BY <2>2 DEF Searching
  <2>4. OnPath(q)'
    BY <2>1 DEF Searching, OnPath
  <2>5. Self(v) => stack' # <<>> /\ Ahead'
    BY <1>1, <2>1, <2>3 DEF Ahead
  <2> QED
    BY <1>1, <2>1, <2>4, <2>5
<1>5. CASE v \notin Edges[u] /\ Edges[u] # {} /\ ~(Len(frames) >= MaxStack)
  <2> DEFINE L == Len(frames) + 1
             p == [k \in 1..L |-> IF k = L THEN u ELSE q[k]]
  <2>1. stage' = "circle" /\ stack' = Append(frames, Edges[u])
    BY <1>0, <1>5 DEF Enter
  <2>2. /\ stack' \in Seq(SUBSET Nodes) /\ DOMAIN stack' = 1..L /\ stack'[L] = Edges[u]
        /\ \A k \in DOMAIN frames : k \in 1..L /\ stack'[k] = frames[k]
    BY <1>0, <1>1, <2>1
  <2>3. p \in [1..L -> Nodes] /\ p[L] = u /\ \A k \in DOMAIN frames : p[k] = q[k]
    BY <1>1
  <2>4. \A k \in 1..L : k \in DOMAIN frames \/ k = L
    BY <1>1
  <2>5. OnPath(p)'
    <3> HIDE DEF p
    <3>1. \A k \in 1..L : stack'[k] \subseteq Edges[p[k]]
      BY <2>2, <2>3, <2>4 DEF Searching
    <3>2. ASSUME NEW i \in 1..L, NEW j \in 1..L, i < j
          PROVE  p[j] \in Reach(Nodes, Edges, p[i])
      <4>1. i \in DOMAIN frames
        BY <1>1, <3>2
      <4>2. CASE j = L
        BY <2>3, <4>1, <4>2 DEF Searching
      <4>3. CASE j \in DOMAIN frames
        BY <2>3, <3>2, <4>1, <4>3 DEF Searching
      <4> QED
        BY <2>4, <4>2, <4>3
    <3>3. p[1] = v
      <4>1. CASE frames = <<>>
        BY <2>3, <4>1 DEF Searching
      <4>2. CASE frames # <<>>
        <5>1. 1 \in DOMAIN frames
          BY <1>1, <4>2
        <5> QED
          BY <2>3, <4>2, <5>1 DEF Searching
      <4> QED
        BY <4>1, <4>2
    <3> QED
      BY <2>2, <3>1, <3>2, <3>3 DEF OnPath
  <2>6. Self(v) => Ahead'
    <3> HAVE Self(v)
    <3>1. CASE \E k \in DOMAIN frames : \E s \in frames[k] : v \in Reach(Nodes, Edges, s)
      BY <2>2, <3>1 DEF Ahead
    <3>2. CASE v \in Reach(Nodes, Edges, u)
      <4>1. PICK w \in Edges[u] : v \in Reach(Nodes, Edges, w)
        BY <1>0, <1>5, <3>2, ReachFirst
      <4>2. L \in 1..L
        BY <1>1
      <4> QED
        BY <2>2, <4>1, <4>2 DEF Ahead
    <3> QED
      BY <3>1, <3>2 DEF Searching
  <2>7. stack' # <<>>
    BY <1>1, <2>2
  <2> QED
    BY <2>1, <2>2, <2>3, <2>5, <2>6, <2>7
<1> QED
  BY <1>2, <1>3, <1>4, <1>5

LEMMA TestVertexStep ==
  ASSUME IInv, NEW v \in Nodes, TestVertex(v)
  PROVE  IInv'
<1>0. /\ stage = "circle" /\ stack = <<>> /\ untested' = untested \ {v} /\ subject' = v
      /\ Enter(v, v, <<>>) /\ UNCHANGED <<plan, gens, pos, step, nodes, producer, mask>>
  BY DEF TestVertex
<1>1. Edges' = Edges
  BY <1>0 DEF Edges, Successors
<1>2. PICK q : q \in [{} -> Nodes]
  <2>1. [k \in {} |-> v] \in [{} -> Nodes]
    OBVIOUS
  <2> QED
    BY <2>1
<1>3. Searching(v, v, <<>>, q)
  BY <1>2 DEF Searching, Self
<1>4. /\ stage' \in {"circle", "hasCircle", "overflow"} /\ stack' \in Seq(SUBSET Nodes)
      /\ stage' = "circle" =>
           /\ \E p \in [DOMAIN stack' -> Nodes] : OnPath(p)'
           /\ Self(v) => stack' # <<>> /\ Ahead'
      /\ stage' # "circle" => \E w \in Nodes : Self(w)
  BY <1>0, <1>1, <1>3, EnterStep
<1>5. TypeOK'
  BY <1>0, <1>4 DEF IInv, TypeOK
<1>6. \A w : Self(w)' <=> Self(w)
  BY <1>1 DEF Self
<1>7. \A w \in nodes' \ untested' : Self(w) => w = v
  BY <1>0 DEF IInv, CircleInv
<1>8. CircleInv'
  BY <1>0, <1>4, <1>6, <1>7 DEF CircleInv
<1> QED
  BY <1>0, <1>4, <1>5, <1>8, SearchKeeps DEF IInv

LEMMA DescendStep ==
  ASSUME IInv, NEW s \in Nodes, Descend(s)
  PROVE  IInv'
<1> DEFINE L == Len(stack)
           frames == [stack EXCEPT ![L] = @ \ {s}]
<1>0. /\ stage = "circle" /\ stack # <<>> /\ s \in stack[L] /\ Enter(s, subject, frames)
      /\ UNCHANGED <<plan, gens, pos, step, nodes, producer, mask, untested, subject>>
  BY DEF Descend
<1>1. Edges' = Edges /\ Edges \in [Nodes -> SUBSET Nodes]
  BY <1>0, EdgesType DEF Edges, Successors
<1>2. /\ stack \in Seq(SUBSET Nodes) /\ subject \in Nodes /\ DOMAIN stack = 1..L
      /\ L \in DOMAIN stack
  BY <1>0 DEF IInv, TypeOK
<1>3. /\ frames \in Seq(SUBSET Nodes) /\ DOMAIN frames = DOMAIN stack
      /\ frames # <<>> /\ frames[L] = stack[L] \ {s}
      /\ \A k \in DOMAIN stack : k # L => frames[k] = stack[k]
  BY <1>0, <1>2
<1> HIDE DEF frames
<1>4. PICK p \in [DOMAIN stack -> Nodes] : OnPath(p)
  BY <1>0 DEF IInv, CircleInv
<1>5. s \in Edges[p[L]] /\ p[L] \in Nodes
  BY <1>0, <1>2, <1>4 DEF OnPath
<1>6. \A k \in DOMAIN stack : s \in Reach(Nodes, Edges, p[k])
  <2> TAKE k \in DOMAIN stack
  <2>1. p[k] \in Nodes
    BY <1>4
  <2>2. CASE k = L
    BY <1>1, <1>5, <2>1, <2>2, ReachClosed
  <2>3. CASE k # L
    <3>1. k < L
      BY <1>2, <2>3
    <3>2. p[L] \in Reach(Nodes, Edges, p[k])
      BY <1>2, <1>4, <3>1 DEF OnPath
    <3>3. Closed(Edges, Reach(Nodes, Edges, p[k]))
      BY <1>1, <2>1, ReachClosed
    <3> QED
      BY <1>5, <3>2, <3>3 DEF Closed
  <2> QED
    BY <2>2, <2>3
<1>7. Searching(subject, s, frames, p)
  <2>1. \A k \in DOMAIN frames : frames[k] \subseteq Edges[p[k]]
    BY <1>3, <1>4 DEF OnPath
  <2>2. Self(subject) =>
          \/ \E k \in DOMAIN frames : \E t \in frames[k] : subject \in Reach(Nodes, Edges, t)
          \/ subject \in Reach(Nodes, Edges, s)
    <3> HAVE Self(subject)
    <3>1. PICK k \in DOMAIN stack : \E t \in stack[k] : subject \in Reach(Nodes, Edges, t)
      BY <1>0 DEF IInv, CircleInv, Ahead
    <3>2. PICK t \in stack[k] : subject \in Reach(Nodes, Edges, t)
      BY <3>1
    <3>3. CASE k = L /\ t = s
      BY <3>2, <3>3
    <3>4. CASE ~(k = L /\ t = s)
      <4>1. k \in DOMAIN frames /\ t \in frames[k]
        BY <1>3, <3>4
      <4> QED
        BY <3>2, <4>1
    <3> QED
      BY <3>3, <3>4
  <2>3. p[1] = subject /\ \A i, j \in DOMAIN stack : i < j => p[j] \in Reach(Nodes, Edges, p[i])
    BY <1>0, <1>4 DEF OnPath
  <2> QED
    BY <1>3, <1>4, <1>6, <2>1, <2>2, <2>3 DEF Searching
<1>8. /\ stage' \in {"circle", "hasCircle", "overflow"} /\ stack' \in Seq(SUBSET Nodes)
      /\ stage' = "circle" =>
           /\ \E r \in [DOMAIN stack' -> Nodes] : OnPath(r)'
           /\ Self(subject) => stack' # <<>> /\ Ahead'
      /\ stage' # "circle" => \E w \in Nodes : Self(w)
  BY <1>0, <1>1, <1>2, <1>7, EnterStep
<1>9. TypeOK'
  BY <1>0, <1>8 DEF IInv, TypeOK
<1>10. \A w : Self(w)' <=> Self(w)
  BY <1>1 DEF Self
<1>11. \A w \in nodes' \ untested' : Self(w) => w = subject
  BY <1>0 DEF IInv, CircleInv
<1>12. CircleInv'
  BY <1>0, <1>8, <1>10, <1>11 DEF CircleInv
<1> QED
  BY <1>0, <1>8, <1>9, <1>12, SearchKeeps DEF IInv

LEMMA ReturnStep ==
  ASSUME IInv, Return
  PROVE  IInv'
<1> DEFINE L == Len(stack)
<1>0. /\ stage = "circle" /\ stack # <<>> /\ stack[L] = {} /\ stack' = SubSeq(stack, 1, L - 1)
      /\ UNCHANGED <<plan, gens, stage, pos, step, nodes, producer, mask, untested, subject>>
  BY DEF Return
<1>1. Edges' = Edges
  BY <1>0 DEF Edges, Successors
<1>2. stack \in Seq(SUBSET Nodes) /\ DOMAIN stack = 1..L /\ L \in Nat \ {0}
  BY <1>0 DEF IInv, TypeOK
<1>3. /\ stack' \in Seq(SUBSET Nodes) /\ DOMAIN stack' = 1..(L - 1)
      /\ \A k \in 1..(L - 1) : k \in DOMAIN stack /\ stack'[k] = stack[k]
  BY <1>0, <1>2
<1>4. PICK p \in [DOMAIN stack -> Nodes] : OnPath(p)
  BY <1>0 DEF IInv, CircleInv
<1>5. \E r \in [DOMAIN stack' -> Nodes] : OnPath(r)'
  <2>0. [k \in 1..(L - 1) |-> p[k]] \in [DOMAIN stack' -> Nodes]
    BY <1>3, <1>4
  <2>1. PICK r \in [DOMAIN stack' -> Nodes] : \A k \in 1..(L - 1) : r[k] = p[k]
    BY <2>0
  <2>2. stack' # <<>> => L - 1 >= 1
    <3>1. L - 1 = 0 => stack' = <<>>
      BY <1>0, <1>2
    <3> QED
      BY <1>2, <3>1
  <2>3. OnPath(r)'
    <3>1. \A k \in DOMAIN stack' : stack'[k] \subseteq Edges[r[k]]
      BY <1>3, <1>4, <2>1 DEF OnPath
    <3>2. \A i, j \in DOMAIN stack' : i < j => r[j] \in Reach(Nodes, Edges, r[i])
      BY <1>3, <1>4, <2>1 DEF OnPath
    <3>3. stack' # <<>> => r[1] = subject
      BY <1>0, <1>2, <1>4, <2>1, <2>2 DEF OnPath
    <3> QED
      BY <1>0, <1>1, <3>1, <3>2, <3>3 DEF OnPath
  <2> QED
    BY <2>1, <2>3
<1>6. Self(subject) => stack' # <<>> /\ Ahead'
  <2> HAVE Self(subject)
  <2>1. PICK k \in DOMAIN stack : \E t \in stack[k] : subject \in Reach(Nodes, Edges, t)
    BY <1>0 DEF IInv, CircleInv, Ahead
  <2>2. k \in 1..(L - 1)
    BY <1>0, <1>2, <2>1
  <2> QED
    BY <1>0, <1>1, <1>3, <2>1, <2>2 DEF Ahead
<1>7. TypeOK'
  BY <1>0, <1>3 DEF IInv, TypeOK
<1>8. \A w : Self(w)' <=> Self(w)
  BY <1>1 DEF Self
<1>9. \A w \in nodes' \ untested' : Self(w) => w = subject
  BY <1>0 DEF IInv, CircleInv
<1>10. CircleInv'
  BY <1>0, <1>5, <1>6, <1>8, <1>9 DEF CircleInv
<1> QED
  BY <1>0, <1>7, <1>10, SearchKeeps DEF IInv

LEMMA TestEndsStep ==
  ASSUME IInv, TestEnds
  PROVE  IInv'
<1>0. /\ stage = "circle" /\ stack = <<>> /\ untested = {} /\ stage' \in {"failed", "ok"}
      /\ UNCHANGED <<plan, gens, pos, step, nodes, producer, mask, untested, subject, stack>>
  BY DEF TestEnds, search
<1>1. CASE stage' = "failed"
  BY <1>0, <1>1, FailStep DEF Fail
<1>2. CASE stage' = "ok"
  <2>1. Edges' = Edges
    BY <1>0 DEF Edges, Successors
  <2>2. \A w \in nodes' : ~Self(w)'
    BY <1>0, <2>1 DEF IInv, CircleInv, Self
  <2>3. TypeOK' /\ CircleInv'
    BY <1>0, <1>2, <2>2 DEF IInv, TypeOK, CircleInv
  <2> QED
    BY <1>0, <1>2, <2>3, SearchKeeps DEF IInv
<1> QED
  BY <1>0, <1>1, <1>2
-----------------------------------------------------------------------------
(***************************************************************************)
(* The theorems.                                                           *)
(***************************************************************************)
LEMMA StutterStep ==
  ASSUME IInv, UNCHANGED vars
  PROVE  IInv'
<1>1. UNCHANGED <<plan, gens, stage, pos, step, nodes, producer, mask, untested, subject, stack>>
  BY DEF vars
<1>2. TypeOK' /\ PlanNames' /\ GenNames' /\ Registry'
  <2>1. TypeOK'
    BY <1>1 DEF IInv, TypeOK
  <2>2. PlanNames'
    <3>1. Seen' = Seen
      BY <1>1 DEF Seen
    <3> SUFFICES ASSUME NEW i \in DOMAIN plan
                 PROVE  PlanNames!(i)'
      BY <1>1 DEF PlanNames
    <3>2. PlanNames!(i)
      BY DEF IInv, PlanNames
    <3> QED
      BY <1>1, <3>1, <3>2
  <2>3. GenNames'
    BY <1>1 DEF IInv, GenNames
  <2>4. Registry'
    <3>1. Seen' = Seen /\ Generated' = Generated
      BY <1>1 DEF Seen, Generated
    <3>2. Registry
      BY DEF IInv
    <3> QED
      BY <1>1, <3>1, <3>2 DEF Registry
  <2> QED
    BY <2>1, <2>2, <2>3, <2>4
<1>3. Built' = Built /\ Edges' = Edges
  BY <1>1 DEF Built, Edges, Successors
<1>4. BuildInv'
  <2>1. CASE stage \in {"register", "failed"}
    BY <1>1, <2>1 DEF IInv, BuildInv
  <2>2. CASE stage \notin {"register", "failed"}
    <3>1. \A i, k : Done(i, k)' <=> Done(i, k)
      BY <1>1 DEF Done
    <3>2. stage = "build" => pos \in Nat \ {0} /\ step \in Nat \ {0}
      BY DEF IInv, BuildInv
    <3> QED
      BY <1>1, <2>2, <3>1, <3>2, SameMask
  <2> QED
    BY <2>1, <2>2
<1>5. CircleInv'
  BY <1>1, <1>3 DEF IInv, CircleInv, OnPath, Ahead, Self
<1> QED
  BY <1>2, <1>4, <1>5 DEF IInv

LEMMA NextStep ==
  ASSUME IInv, [Next]_vars
  PROVE  IInv'
<1>1. CASE Register
  BY <1>1, RegisterStep
<1>2. CASE RegisterEnds
  BY <1>2, RegisterEndsStep
<1>3. CASE BuildRelation
  BY <1>3, BuildRelationStep
<1>4. CASE BuildInput
  BY <1>4, BuildInputStep
<1>5. CASE BuildNext
  BY <1>5, BuildNextStep
<1>6. CASE BuildEnd
  BY <1>6, BuildEndStep
<1>7. CASE Verify
  BY <1>7, VerifyStep
<1>8. ASSUME NEW v \in Nodes, TestVertex(v)
      PROVE  IInv'
  BY <1>8, TestVertexStep
<1>9. ASSUME NEW v \in Nodes, Descend(v)
      PROVE  IInv'
  BY <1>9, DescendStep
<1>10. CASE Return
  BY <1>10, ReturnStep
<1>11. CASE TestEnds
  BY <1>11, TestEndsStep
<1>12. CASE UNCHANGED vars
  BY <1>12, StutterStep
<1> QED
  BY <1>1, <1>2, <1>3, <1>4, <1>5, <1>6, <1>7, <1>8, <1>9, <1>10, <1>11, <1>12 DEF Next

\* The inductive invariant holds throughout every build: the tables of Build
\* have their types, and its three loops leave what IInv says of them.
THEOREM BuildInvariant == Spec => []IInv
<1>1. Init => IInv
  BY InitInv
<1>2. IInv /\ [Next]_vars => IInv'
  BY NextStep
<1> QED
  BY <1>1, <1>2, PTL DEF Spec

LEMMA IInvCircle ==
  ASSUME IInv
  PROVE  CircleDecided
<1>0. Edges \in [Nodes -> SUBSET Nodes] /\ IsFiniteSet(Nodes)
  BY EdgesType, IdAssumption DEF Nodes
<1>1. \A v, d \in Nodes : v \in Edges[d] <=> mask[v][d] # {}
  BY DEF Edges, Successors
<1>2. ASSUME stage = "ok"
      PROVE  ~Cyclic
  <2> SUFFICES ASSUME Cyclic
               PROVE  FALSE
    OBVIOUS
  <2>1. PICK S \in SUBSET Nodes : S # {} /\ \A v \in S : \E d \in S : mask[v][d] # {}
    BY DEF Cyclic
  <2>2. Circular(Edges, S)
    BY <1>1, <2>1 DEF Circular
  <2>3. PICK x \in S : x \in Reach(Nodes, Edges, x)
    BY <1>0, <2>2, CircularReach
  <2>4. x \in nodes
    BY <1>2, <2>1 DEF IInv, BuildInv, Linked
  <2> QED
    BY <1>2, <2>3, <2>4 DEF IInv, CircleInv, Self
<1>3. ASSUME stage \in {"hasCircle", "overflow"}
      PROVE  Cyclic
  <2>1. PICK x \in Nodes : x \in Reach(Nodes, Edges, x)
    BY <1>3 DEF IInv, CircleInv, Self
  <2>2. PICK S \in SUBSET Nodes : Circular(Edges, S)
    BY <1>0, <2>1, ReachCircular
  <2>3. S \in (SUBSET Nodes) \ {{}} /\ \A v \in S : \E d \in S : mask[v][d] # {}
    BY <1>1, <2>2 DEF Circular
  <2> QED
    BY <2>3 DEF Cyclic
<1> QED
  BY <1>2, <1>3 DEF CircleDecided

LEMMA IInvInputs ==
  ASSUME IInv
  PROVE  InputsOrdered
<1> SUFFICES ASSUME stage = "ok", NEW i \in DOMAIN plan, NEW k \in DOMAIN plan[i].input,
                    NEW x \in plan[i].input[k].from
             PROVE  Arrives(plan[i], plan[i].input[k], x)
  BY DEF InputsOrdered, Arrives
<1>1. i \in DOMAIN Built /\ Built[i] = plan[i]
  BY BuiltNodes
<1>2. InputsBuilt /\ Done(i, 6 + k)
  BY DEF IInv, BuildInv, Done
<1> QED
  BY <1>1, <1>2 DEF InputsBuilt

LEMMA IInvConditions ==
  ASSUME IInv
  PROVE  ConditionGuards
<1> SUFFICES ASSUME stage = "ok", NEW i \in DOMAIN plan, plan[i].expect # None
             PROVE  mask[plan[i].id][plan[i].expect] = {"OK"}
  BY DEF ConditionGuards
<1> DEFINE v == plan[i].id
           c == plan[i].expect
<1>1. i \in DOMAIN Built /\ Built[i] = plan[i] /\ plan[i] \in Declaration
  BY BuiltNodes
<1>2. v \in Ids /\ v \in Nodes /\ c \in Conds /\ c \in Nodes /\ c \notin Ids
  <2>1. c \in Conds
    BY <1>1 DEF Declaration
  <2>2. v \in Ids
    BY DEF IInv, PlanNames
  <2> QED
    BY <2>1, <2>2, IdAssumption DEF Nodes
<1>3. c \in plan[i].depsOnOk
  BY DEF IInv, Registry, Seen
<1> HIDE DEF v, c
<1>4. Names(Built[i], 2, v, c)
  BY <1>1, <1>3, RelationsAre DEF Names, v
<1>5. mask[v][c] # {}
  BY <1>1, <1>2, <1>4 DEF IInv, BuildInv, RelationsBuilt, Done
<1>6. ASSUME NEW j \in DOMAIN Built, NEW k \in 1..6, Names(Built[j], k, v, c)
      PROVE  k = 2
  <2>1. CASE j \in DOMAIN plan
    <3>1. Built[j] = plan[j] /\ plan[j].id \in Ids
          /\ plan[j].deps \subseteq Ids /\ plan[j].depsOnErr \subseteq Ids
      BY <2>1, BuiltNodes DEF IInv, PlanNames
    <3>2. k <= 3
      BY <1>2, <1>6, <3>1 DEF Names
    <3>3. k # 1 /\ k # 3
      <4>1. Relations(plan[j])[1].ids = plan[j].deps
            /\ Relations(plan[j])[3].ids = plan[j].depsOnErr
        BY RelationsAre
      <4> QED
        BY <1>2, <1>6, <3>1, <3>2, <4>1 DEF Names
    <3> QED
      BY <3>2, <3>3
  <2>2. CASE j \notin DOMAIN plan
    <3>1. PICK g \in DOMAIN gens : Built[j] = gens[g]
      BY <2>2, BuiltNodes
    <3>2. /\ Built[j].id \notin Ids
          /\ Built[j].successor = {} /\ Built[j].onOk = {} /\ Built[j].onErr = {}
      BY <3>1, IdAssumption DEF IInv, GenNames
    <3>3. k \notin {1, 2, 3}
      <4>1. k \in {1, 2, 3} => Built[j].id = v
        BY <1>6 DEF Names
      <4> QED
        BY <1>2, <3>2, <4>1
    <3>4. k \notin {4, 5, 6}
      <4>1. \A m \in {4, 5, 6} : Relations(Built[j])[m].ids = {}
        BY <3>2, RelationsAre, ZenonT(60)
      <4>2. k \in {4, 5, 6} => v \in Relations(Built[j])[k].ids
        BY <1>6 DEF Names
      <4> QED
        BY <4>1, <4>2
    <3> QED
      BY <3>3, <3>4
  <2> QED
    BY <2>1, <2>2
<1>7. ~ByInput(v, c)
  <2>1. \A j \in DOMAIN Built : \A k \in DOMAIN Built[j].input :
          \A d \in Producers(Built[j], Built[j].input[k]) : d \in Ids
    <3> TAKE j \in DOMAIN Built
    <3>0. Built[j] \in Declaration
      BY BuiltNodes
    <3>1. Built[j].input \in Seq(Input)
      BY <3>0 DEF Declaration
    <3>2. \A k \in DOMAIN Built[j].input : Built[j].input[k].from \subseteq Data
      <4>1. \A k \in DOMAIN Built[j].input : Built[j].input[k] \in Input
        BY <3>1
      <4>2. \A in \in Input : in.from \subseteq Data
        BY DEF Input
      <4> QED
        BY <4>1, <4>2
    <3>3. producer \in [Data -> Ids \cup {None}]
      BY DEF IInv, TypeOK
    <3> TAKE k \in DOMAIN Built[j].input
    <3> TAKE d \in Producers(Built[j], Built[j].input[k])
    <3>4. PICK x \in Built[j].input[k].from : d = producer[x] /\ d # None
      BY DEF Producers
    <3>5. x \in Data
      BY <3>2
    <3> QED
      BY <3>3, <3>4, <3>5
  <2> QED
    BY <1>2, <2>1 DEF ByInput
<1>8. PICK j \in DOMAIN Built, k \in 1..6 : ByRelation(v, c, j, k)
  BY <1>2, <1>5, <1>7 DEF IInv, BuildInv, FirstDecides
<1>9. k = 2 /\ mask[v][c] = Relations(Built[j])[k].expected
  BY <1>6, <1>8 DEF ByRelation
<1>10. mask[v][c] = {"OK"}
  BY <1>9, RelationsAre
<1> QED
  BY <1>10 DEF v, c

\* Graph::TestCircle is right about every graph: one that Build accepts has no
\* circle, and one that it refuses for a circle, or on which the search that
\* keeps no record of where it has been exhausts a stack that holds a call per
\* vertex, has one.
THEOREM CircleDecidedAlways == Spec => []CircleDecided
<1>1. IInv => CircleDecided
  BY IInvCircle
<1> QED
  BY <1>1, BuildInvariant, PTL

\* Vertex::Build and FindVertexByData: in every graph that is accepted each
\* input comes from outside or from a vertex that this one depends on, in
\* whichever order the vertices were declared.
THEOREM InputsOrderedAlways == Spec => []InputsOrdered
<1>1. IInv => InputsOrdered
  BY IInvInputs
<1> QED
  BY <1>1, BuildInvariant, PTL

\* The vertex that Build generates for `expect`: in every graph that is
\* accepted a vertex with a condition expects it to end with OK, and no other
\* relation or input has decided that before.
THEOREM ConditionGuardsAlways == Spec => []ConditionGuards
<1>1. IInv => ConditionGuards
  BY IInvConditions
<1> QED
  BY <1>1, BuildInvariant, PTL
=============================================================================
