------------------------ MODULE ClusterLevels_proofs -------------------------
(***************************************************************************)
(* The levels of a nested execution agree, for any clusters: a graph is at *)
(* work exactly if the vertex or the call that started it waits for it.    *)
(* From that follows, in the last part, that the results of subgraphs stay *)
(* reachable.                                                              *)
(*                                                                         *)
(* For that the invariant says, of each context, what the state of its     *)
(* holder implies for it: a graph is unused while its vertex has not come  *)
(* to it in this round, in course while the vertex runs, and at rest when  *)
(* the vertex is done. As in ClusterExec_proofs it is stated of any        *)
(* contexts C and vertices V.                                              *)
(***************************************************************************)
EXTENDS ClusterExec_proofs

Undone(C, V, c) == {v \in Members(C[c].graph) : V[c][v].st # "done"}

\* The graph of c was set, and all its vertices wait to be started.
Unused(C, V, c) ==
  /\ C[c].graph \in DOMAIN Decls.graph /\ ~C[c].ended
  /\ C[c].join = Cardinality(Members(C[c].graph))
  /\ \A v \in Vertices : V[c][v].st = "waiting"

\* The vertices that wait are those with a dependency that is not done.
Going(C, V, c) ==
  /\ C[c].graph \in DOMAIN Decls.graph
  /\ \A v \in Vertices :
       V[c][v].st # "waiting" <=> /\ v \in Members(C[c].graph)
                                  /\ \A d \in Decl(v).deps : V[c][d].st = "done"
  /\ C[c].join = Cardinality(Undone(C, V, c))
  /\ C[c].ended => Undone(C, V, c) = {}

\* The closure of the graph is still to be called, or has been called.
Active(C, V, c) == Going(C, V, c) /\ (Undone(C, V, c) = {} => C[c].ended)
Spent(C, V, c) == Going(C, V, c) /\ Undone(C, V, c) = {} /\ ~C[c].ended
AtRest(C, V, c) == Unused(C, V, c) \/ Spent(C, V, c)

SubLevel(C, V, d, u) ==
  LET r == V[d][u] IN
  /\ r.open => /\ C[r.sub].graph = Decl(u).graph
               /\ r.st \in {"waiting", "ready"} => Unused(C, V, r.sub)
               /\ r.st = "running" => Active(C, V, r.sub)
               /\ r.st = "done" => AtRest(C, V, r.sub)
  /\ ~r.open /\ r.sub # 0 => ~C[r.sub].ended
  /\ r.st = "running" /\ Decl(u).cluster # None => r.open

\* A call that runs waits for its graph; one that is done does not.
TopLevel(C, V, T, K) ==
  \A e \in Calls : T[e] # 0 =>
    /\ K[e] = "running" => Active(C, V, T[e])
    /\ K[e] = "done" => Spent(C, V, T[e])

StatesOf(V) ==
  \A c \in Ctxs, v \in Vertices : V[c][v].st \in {"waiting", "ready", "running", "done"}

Levels(C, V, T, K) ==
  /\ StatesOf(V) /\ TopLevel(C, V, T, K)
  /\ \A d \in Ctxs, u \in Vertices : SubLevel(C, V, d, u)

LInv == design \in DOMAIN Designs /\ Levels(ctx, vtx, top, call)
-----------------------------------------------------------------------------
LEMMA Built ==
  ASSUME design \in DOMAIN Designs
  PROVE  /\ "main" \in DOMAIN Decls.graph
         /\ \A v \in Vertices :
              /\ Decl(v).cluster # None /\ Decl(v).graph \in Decls.graphs[Decl(v).cluster]
                   => Decl(v).graph \in DOMAIN Decls.graph
              /\ Decl(v).cluster # None => Decl(v).slot \in Slots
              /\ v \notin Decl(v).deps
         /\ \A g \in DOMAIN Decls.graph :
              /\ Members(g) \subseteq Vertices /\ Members(g) # {}
              /\ IsFiniteSet(Members(g)) /\ Cardinality(Members(g)) \in Nat
              /\ Cardinality(Members(g)) # 0
              /\ \A v \in Members(g) : Decl(v).deps \subseteq Members(g)
              /\ \A v \in Vertices, d \in Members(g) : d \in Decl(v).deps => v \in Members(g)
              /\ \A u, v \in Members(g) :
                   Decl(u).cluster # None /\ Decl(v).cluster # None /\ u # v =>
                     Decl(u).slot # Decl(v).slot
         /\ \A S \in SUBSET Vertices : S # {} => \E v \in S : Decl(v).deps \cap S = {}
<1> DEFINE D == Designs[design]
<1>1. /\ "main" \in DOMAIN D.graph
      /\ \A v \in Vertices : D.vertex[v].cluster # None =>
           /\ D.vertex[v].graph \in D.graphs[D.vertex[v].cluster] =>
                D.vertex[v].graph \in DOMAIN D.graph
           /\ D.vertex[v].slot \in 0..1
      /\ \A g \in DOMAIN D.graph :
           /\ D.graph[g].vertices \subseteq Vertices /\ D.graph[g].vertices # {}
           /\ \A v \in D.graph[g].vertices : D.vertex[v].deps \subseteq D.graph[g].vertices
           /\ \A v \in Vertices \ D.graph[g].vertices :
                D.vertex[v].deps \cap D.graph[g].vertices = {}
           /\ \A u, v \in D.graph[g].vertices :
                D.vertex[u].cluster # None /\ D.vertex[v].cluster # None =>
                  D.vertex[u].slot # D.vertex[v].slot \/ u = v
      /\ \A S \in (SUBSET Vertices) \ {{}} : \E v \in S : D.vertex[v].deps \cap S = {}
  BY BuiltAssumption
<1>2. Decls = D
  BY DEF Decls
<1>3. \A v : Decl(v) = D.vertex[v]
  BY <1>2 DEF Decl
<1>4. \A g : Members(g) = D.graph[g].vertices
  BY <1>2 DEF Members
<1> HIDE DEF D
<1>5. \A S \in SUBSET Vertices : S # {} => \E v \in S : Decl(v).deps \cap S = {}
  BY <1>1, <1>3
<1>6. \A v \in Vertices : v \notin Decl(v).deps
  <2> TAKE v \in Vertices
  <2>1. {v} \in SUBSET Vertices /\ {v} # {}
    OBVIOUS
  <2>2. \E u \in {v} : Decl(u).deps \cap {v} = {}
    BY <1>5, <2>1
  <2> QED
    BY <2>2
<1>7. ASSUME NEW g \in DOMAIN Decls.graph
      PROVE  /\ Members(g) \subseteq Vertices /\ Members(g) # {}
             /\ \A v \in Members(g) : Decl(v).deps \subseteq Members(g)
             /\ \A v \in Vertices, d \in Members(g) : d \in Decl(v).deps => v \in Members(g)
             /\ \A u, v \in Members(g) :
                  Decl(u).cluster # None /\ Decl(v).cluster # None /\ u # v =>
                    Decl(u).slot # Decl(v).slot
  BY <1>1, <1>2, <1>3, <1>4
<1>8. ASSUME NEW g \in DOMAIN Decls.graph
      PROVE  IsFiniteSet(Members(g)) /\ Cardinality(Members(g)) \in Nat
             /\ Cardinality(Members(g)) # 0
  BY <1>7, ClusterAssumption, FS_Subset, FS_CardinalityType, FS_EmptySet
<1> QED
  BY <1>1, <1>2, <1>3, <1>5, <1>6, <1>7, <1>8 DEF Slots

LEMMA UndoneFinite ==
  ASSUME design \in DOMAIN Designs, NEW C, NEW V, NEW c, C[c].graph \in DOMAIN Decls.graph
  PROVE  /\ Undone(C, V, c) \subseteq Members(C[c].graph) /\ Undone(C, V, c) \subseteq Vertices
         /\ IsFiniteSet(Undone(C, V, c)) /\ Cardinality(Undone(C, V, c)) \in Nat
         /\ Cardinality(Undone(C, V, c)) = 0 <=> Undone(C, V, c) = {}
<1>1. Undone(C, V, c) \subseteq Members(C[c].graph)
  BY DEF Undone
<1> QED
  BY <1>1, Built, FS_Subset, FS_CardinalityType, FS_EmptySet

\* A graph that is not done has a vertex at work.
LEMMA AtWork ==
  ASSUME design \in DOMAIN Designs, NEW C, NEW V, StatesOf(V), NEW c \in Ctxs,
         Going(C, V, c), Undone(C, V, c) # {}
  PROVE  \E v \in Vertices : V[c][v].st \in {"ready", "running"}
<1>1. Undone(C, V, c) \subseteq Vertices /\ Undone(C, V, c) \subseteq Members(C[c].graph)
  BY UndoneFinite DEF Going
<1>2. PICK v \in Undone(C, V, c) : Decl(v).deps \cap Undone(C, V, c) = {}
  BY <1>1, Built
<1>3. v \in Members(C[c].graph) /\ v \in Vertices /\ V[c][v].st # "done"
  BY <1>1 DEF Undone
<1>4. \A d \in Decl(v).deps : d \in Members(C[c].graph)
  BY <1>3, Built DEF Going
<1>5. \A d \in Decl(v).deps : V[c][d].st = "done"
  BY <1>2, <1>4 DEF Undone
<1>6. V[c][v].st # "waiting"
  BY <1>3, <1>5 DEF Going
<1> QED
  BY <1>3, <1>6 DEF StatesOf

LEMMA NotAtRest ==
  ASSUME NEW C, NEW V, NEW c \in Ctxs, NEW v \in Vertices, V[c][v].st \in {"ready", "running"}
  PROVE  ~Unused(C, V, c) /\ ~Spent(C, V, c) /\ ~AtRest(C, V, c) /\ V[c] # FreshVertices
<1>1. ~Unused(C, V, c) /\ V[c] # FreshVertices
  BY FreshShape DEF Unused
<1>2. ~Spent(C, V, c)
  BY DEF Spent, Going, Undone
<1> QED
  BY <1>1, <1>2 DEF AtRest

\* What a context is doing depends on its graph, counter, end and vertices.
LEMMA SameCourse ==
  ASSUME NEW C, NEW V, NEW D, NEW W, NEW s, NEW t,
         C[s].graph = D[t].graph, C[s].join = D[t].join, C[s].ended = D[t].ended,
         \A v \in Vertices : V[s][v].st = W[t][v].st,
         design \in DOMAIN Designs
  PROVE  /\ Unused(C, V, s) => Unused(D, W, t)
         /\ Going(C, V, s) => Going(D, W, t)
         /\ Active(C, V, s) => Active(D, W, t)
         /\ Spent(C, V, s) => Spent(D, W, t)
         /\ AtRest(C, V, s) => AtRest(D, W, t)
<1>1. ASSUME C[s].graph \in DOMAIN Decls.graph PROVE Undone(C, V, s) = Undone(D, W, t)
  <2>1. Members(C[s].graph) \subseteq Vertices
    BY <1>1, Built
  <2> QED
    BY <2>1 DEF Undone
<1>2. Unused(C, V, s) => Unused(D, W, t)
  BY DEF Unused
<1>3. Going(C, V, s) => Going(D, W, t)
  <2> HAVE Going(C, V, s)
  <2>1. C[s].graph \in DOMAIN Decls.graph /\ Undone(C, V, s) = Undone(D, W, t)
    BY <1>1 DEF Going
  <2>2. \A v \in Members(C[s].graph) : \A d \in Decl(v).deps : d \in Vertices
    BY <2>1, Built
  <2> QED
    BY <2>1, <2>2 DEF Going
<1> QED
  BY <1>1, <1>2, <1>3 DEF Active, Spent, AtRest, Going
-----------------------------------------------------------------------------
(***************************************************************************)
(* The course of one graph: its start, the end of a vertex, the end.       *)
(***************************************************************************)
LEMMA StartActive ==
  ASSUME design \in DOMAIN Designs, NEW D, NEW W, NEW s,
         D[s].graph \in DOMAIN Decls.graph, ~D[s].ended,
         D[s].join = Cardinality(Members(D[s].graph)),
         \A v \in Vertices : W[s][v].st = IF v \in Members(D[s].graph) /\ Decl(v).deps = {}
                                          THEN "ready" ELSE "waiting"
  PROVE  Active(D, W, s)
<1>1. Members(D[s].graph) \subseteq Vertices /\ Members(D[s].graph) # {}
  BY Built
<1>2. Undone(D, W, s) = Members(D[s].graph)
  BY <1>1 DEF Undone
<1>3. ASSUME NEW v \in Vertices
      PROVE  W[s][v].st # "waiting" <=> /\ v \in Members(D[s].graph)
                                        /\ \A d \in Decl(v).deps : W[s][d].st = "done"
  <2>1. v \in Members(D[s].graph) => Decl(v).deps \subseteq Vertices
    BY <1>1, Built
  <2>2. v \in Members(D[s].graph) /\ (\A d \in Decl(v).deps : W[s][d].st = "done")
          => Decl(v).deps = {}
    BY <2>1
  <2> QED
    BY <2>2
<1> QED
  BY <1>1, <1>2, <1>3 DEF Active, Going

\* The end of v. R are the vertices of c after it, before any is notified.
LEMMA EndCounts ==
  ASSUME design \in DOMAIN Designs, NEW C, NEW V, NEW c \in Ctxs, NEW v \in Vertices,
         Going(C, V, c), V[c][v].st \in {"ready", "running"}
  PROVE  /\ v \in Undone(C, V, c) /\ v \in Members(C[c].graph) /\ ~C[c].ended
         /\ Cardinality(Undone(C, V, c) \ {v}) = C[c].join - 1
         /\ C[c].join - 1 = 0 <=> Undone(C, V, c) = {v}
<1>0. C[c].graph \in DOMAIN Decls.graph
  BY DEF Going
<1>1. v \in Undone(C, V, c) /\ v \in Members(C[c].graph) /\ ~C[c].ended
  BY DEF Going, Undone
<1>2. /\ IsFiniteSet(Undone(C, V, c)) /\ Cardinality(Undone(C, V, c)) \in Nat
      /\ C[c].join = Cardinality(Undone(C, V, c))
  BY <1>0, UndoneFinite DEF Going
<1>3. Cardinality(Undone(C, V, c) \ {v}) = C[c].join - 1 /\ IsFiniteSet(Undone(C, V, c) \ {v})
  BY <1>1, <1>2, FS_RemoveElement
<1>4. C[c].join - 1 = 0 <=> Undone(C, V, c) \ {v} = {}
  BY <1>3, FS_EmptySet
<1> QED
  BY <1>1, <1>3, <1>4

\* From V to W the end of v in c is told to the vertices that wait for it.
Told(V, W, c, v) ==
  \A u \in Vertices :
    IF v \in Decl(u).deps /\ \A d \in Decl(u).deps : d = v \/ V[c][d].st = "done"
    THEN W[c][u].st = "ready"
    ELSE W[c][u].st = IF u = v THEN "done" ELSE V[c][u].st

LEMMA NotifiedActive ==
  ASSUME design \in DOMAIN Designs, NEW C, NEW V, NEW c \in Ctxs, NEW v \in Vertices,
         Going(C, V, c), V[c][v].st \in {"ready", "running"},
         NEW D, NEW W, D[c].graph = C[c].graph, D[c].join = C[c].join - 1,
         D[c].join # 0, ~D[c].ended, Told(V, W, c, v)
  PROVE  Active(D, W, c)
<1>0. C[c].graph \in DOMAIN Decls.graph /\ Members(C[c].graph) \subseteq Vertices
  BY Built DEF Going
<1>1. v \in Members(C[c].graph) /\ ~C[c].ended /\ v \notin Decl(v).deps
  BY Built DEF Going, Undone
<1>3. \A u \in Vertices : v \in Decl(u).deps =>
        u \in Members(C[c].graph) /\ V[c][u].st = "waiting" /\ u # v
  BY <1>0, <1>1, Built DEF Going
<1>4. \A u \in Vertices : W[c][u].st = "done" <=> u = v \/ V[c][u].st = "done"
  BY <1>3 DEF Told
<1>5. /\ D[c].join = Cardinality(Undone(D, W, c))
      /\ Undone(D, W, c) # {}
  <2>2. Undone(D, W, c) = Undone(C, V, c) \ {v}
    BY <1>0, <1>4 DEF Undone
  <2>3. /\ v \in Undone(C, V, c) /\ Cardinality(Undone(C, V, c) \ {v}) = C[c].join - 1
        /\ C[c].join - 1 = 0 <=> Undone(C, V, c) = {v}
    BY EndCounts
  <2> QED
    BY <2>2, <2>3
<1>6. ASSUME NEW u \in Vertices
      PROVE  W[c][u].st # "waiting" <=> /\ u \in Members(C[c].graph)
                                        /\ \A d \in Decl(u).deps : W[c][d].st = "done"
  <2>1. u \in Members(C[c].graph) => Decl(u).deps \subseteq Vertices
    BY <1>0, Built
  <2>2. u \in Members(C[c].graph) => \A d \in Decl(u).deps :
          W[c][d].st = "done" <=> d = v \/ V[c][d].st = "done"
    BY <1>4, <2>1
  <2>3. CASE v \in Decl(u).deps
    <3>1. u \in Members(C[c].graph) /\ V[c][u].st = "waiting" /\ u # v
      BY <1>3, <2>3
    <3>2. (\A d \in Decl(u).deps : d = v \/ V[c][d].st = "done") <=>
            \A d \in Decl(u).deps : W[c][d].st = "done"
      BY <2>2, <3>1
    <3> QED
      BY <2>3, <3>1, <3>2 DEF Told
  <2>4. CASE v \notin Decl(u).deps
    <3>1. W[c][u].st = IF u = v THEN "done" ELSE V[c][u].st
      BY <2>4 DEF Told
    <3>2. W[c][u].st # "waiting" <=> V[c][u].st # "waiting"
      BY <3>1
    <3>3. u \in Members(C[c].graph) =>
            ((\A d \in Decl(u).deps : V[c][d].st = "done") <=>
             (\A d \in Decl(u).deps : W[c][d].st = "done"))
      BY <2>2, <2>4
    <3> QED
      BY <3>2, <3>3 DEF Going
  <2> QED
    BY <2>3, <2>4
<1> QED
  BY <1>0, <1>1, <1>5, <1>6 DEF Active, Going

LEMMA ToldStates ==
  ASSUME design \in DOMAIN Designs, NEW C, NEW V, NEW W, NEW c \in Ctxs, NEW v \in Vertices,
         Going(C, V, c), V[c][v].st \in {"ready", "running"}, Told(V, W, c, v)
  PROVE  /\ W[c][v].st = "done"
         /\ \A u \in Vertices : u # v =>
              \/ W[c][u].st = V[c][u].st
              \/ V[c][u].st = "waiting" /\ W[c][u].st = "ready"
<1>0. C[c].graph \in DOMAIN Decls.graph /\ v \in Members(C[c].graph) /\ v \notin Decl(v).deps
  BY Built DEF Going
<1>1. \A u \in Vertices : v \in Decl(u).deps => V[c][u].st = "waiting" /\ u # v
  BY <1>0, Built DEF Going
<1> QED
  BY <1>0, <1>1 DEF Told

LEMMA LastActive ==
  ASSUME design \in DOMAIN Designs, NEW C, NEW V, NEW c \in Ctxs, NEW v \in Vertices,
         Going(C, V, c), V[c][v].st \in {"ready", "running"},
         NEW R, R[v].st = "done", \A u \in Vertices : u # v => R[u].st = V[c][u].st,
         NEW D, NEW W, D[c].graph = C[c].graph, D[c].join = C[c].join - 1, D[c].join = 0,
         D[c].ended, W[c] = R
  PROVE  Active(D, W, c) /\ Undone(C, V, c) = {v}
<1>0. C[c].graph \in DOMAIN Decls.graph /\ Members(C[c].graph) \subseteq Vertices
  BY Built DEF Going
<1>1. /\ v \in Members(C[c].graph) /\ v \in Undone(C, V, c)
      /\ Undone(D, W, c) = Undone(C, V, c) \ {v} /\ Undone(D, W, c) = {}
      /\ D[c].join = Cardinality(Undone(D, W, c))
  <2>1. \A u \in Vertices : W[c][u].st = "done" <=> u = v \/ V[c][u].st = "done"
    OBVIOUS
  <2>2. Undone(D, W, c) = Undone(C, V, c) \ {v}
    BY <1>0, <2>1 DEF Undone
  <2>3. /\ v \in Undone(C, V, c) /\ Cardinality(Undone(C, V, c) \ {v}) = C[c].join - 1
        /\ C[c].join - 1 = 0 <=> Undone(C, V, c) = {v}
        /\ v \in Members(C[c].graph)
    BY EndCounts
  <2> QED
    BY <2>2, <2>3
<1>2. \A u \in Members(C[c].graph) : W[c][u].st = "done"
  BY <1>1 DEF Undone
<1>3. ASSUME NEW u \in Vertices
      PROVE  W[c][u].st # "waiting" <=> /\ u \in Members(C[c].graph)
                                        /\ \A d \in Decl(u).deps : W[c][d].st = "done"
  <2>1. CASE u \in Members(C[c].graph)
    BY <1>0, <1>2, <2>1, Built
  <2>2. CASE u \notin Members(C[c].graph)
    BY <1>1, <2>2 DEF Going
  <2> QED
    BY <2>1, <2>2
<1> QED
  BY <1>0, <1>1, <1>3 DEF Active, Going
-----------------------------------------------------------------------------
\* The levels agree but for the vertex v of c, which is about to be done: it
\* does not wait for its graph any more.
But(C, V, T, K, c, v) ==
  /\ StatesOf(V) /\ TopLevel(C, V, T, K)
  /\ V[c][v].st \in {"ready", "running"}
  /\ \A d \in Ctxs, u \in Vertices : ~(d = c /\ u = v) => SubLevel(C, V, d, u)
  /\ V[c][v].open => /\ C[V[c][v].sub].graph = Decl(v).graph
                     /\ AtRest(C, V, V[c][v].sub)
  /\ ~V[c][v].open /\ V[c][v].sub # 0 => ~C[V[c][v].sub].ended

Reported(T, K) == \A e \in Calls : T[e] # 0 => K[e] \in {"running", "done"}

LEMMA ReadyBut ==
  ASSUME NEW C, NEW V, NEW T, NEW K, Levels(C, V, T, K),
         NEW c \in Ctxs, NEW v \in Vertices, V[c][v].st = "ready"
  PROVE  But(C, V, T, K, c, v)
<1>1. SubLevel(C, V, c, v) /\ \A d \in Ctxs, u \in Vertices : SubLevel(C, V, d, u)
  BY DEF Levels
<1>2. V[c][v].open => /\ C[V[c][v].sub].graph = Decl(v).graph
                      /\ AtRest(C, V, V[c][v].sub)
  BY <1>1 DEF SubLevel, AtRest
<1>3. ~V[c][v].open /\ V[c][v].sub # 0 => ~C[V[c][v].sub].ended
  BY <1>1 DEF SubLevel
<1> QED
  BY <1>1, <1>2, <1>3 DEF But, Levels

\* A graph with a vertex at work is waited for.
LEMMA WhoWaits ==
  ASSUME NEW C, NEW V, NEW P, NEW b, NEW T, NEW K, Hold(C, V, P, b, T), Reported(T, K),
         NEW c \in Ctxs, NEW v \in Vertices, But(C, V, T, K, c, v)
  PROVE  /\ Active(C, V, c)
         /\ \A e \in Calls : T[e] = c => K[e] = "running"
         /\ \A d \in Ctxs, u \in Vertices : V[d][u].sub = c =>
              V[d][u].open /\ V[d][u].st = "running" /\ ~(d = c /\ u = v)
<1>0. c # 0 /\ ~Unused(C, V, c) /\ ~Spent(C, V, c) /\ ~AtRest(C, V, c) /\ V[c] # FreshVertices
  BY NotAtRest, Constants DEF But
<1>1. ASSUME NEW e \in Calls, T[e] = c
      PROVE  K[e] = "running" /\ Active(C, V, c)
  <2>1. T[e] # 0 /\ K[e] \in {"running", "done"}
    BY <1>0, <1>1 DEF Reported
  <2> QED
    BY <1>0, <1>1, <2>1 DEF But, TopLevel
<1>2. ASSUME NEW d \in Ctxs, NEW u \in Vertices, V[d][u].sub = c
      PROVE  /\ V[d][u].open /\ V[d][u].st = "running" /\ ~(d = c /\ u = v)
             /\ Active(C, V, c)
  <2>1. V[d][u].open
    BY <1>0, <1>2 DEF Hold, OpenOf
  <2>2. ~(d = c /\ u = v)
    BY <1>0, <1>2, <2>1 DEF But
  <2>3. SubLevel(C, V, d, u) /\ V[d][u].st \in {"waiting", "ready", "running", "done"}
    BY <2>2 DEF But, StatesOf
  <2> QED
    BY <1>0, <1>2, <2>1, <2>2, <2>3 DEF SubLevel
<1>3. (\E e \in Calls : T[e] = c) \/ \E d \in Ctxs, u \in Vertices : V[d][u].sub = c
  BY <1>0 DEF Hold, UsedOf
<1> QED
  BY <1>1, <1>2, <1>3

\* A step in one context c, whose graph goes on: v is done, others are ready.
LEMMA OneDone ==
  ASSUME design \in DOMAIN Designs,
         NEW C, NEW V, NEW P, NEW b, NEW T, NEW K, Hold(C, V, P, b, T), Reported(T, K),
         NEW c \in Ctxs, NEW v \in Vertices, But(C, V, T, K, c, v),
         NEW D, NEW W, Active(D, W, c), StatesOf(W), D[c].graph = C[c].graph,
         \A d \in Ctxs : d # c => D[d] = C[d] /\ W[d] = V[d],
         \A u \in Vertices : W[c][u].sub = V[c][u].sub /\ W[c][u].open = V[c][u].open,
         W[c][v].st = "done",
         \A u \in Vertices : u # v => \/ W[c][u].st = V[c][u].st
                                      \/ V[c][u].st = "waiting" /\ W[c][u].st = "ready"
  PROVE  Levels(D, W, T, K)
<1>0. c # 0 /\ ~Unused(C, V, c) /\ ~Spent(C, V, c) /\ ~AtRest(C, V, c) /\ V[c] # FreshVertices
  BY NotAtRest, Constants DEF But
<1>1. /\ \A e \in Calls : T[e] = c => K[e] = "running"
      /\ \A d \in Ctxs, u \in Vertices : V[d][u].sub = c =>
           V[d][u].open /\ V[d][u].st = "running" /\ ~(d = c /\ u = v)
  BY WhoWaits
<1>2. ASSUME NEW d \in Ctxs, d # c
      PROVE  /\ Unused(C, V, d) => Unused(D, W, d)
             /\ Active(C, V, d) => Active(D, W, d)
             /\ Spent(C, V, d) => Spent(D, W, d)
             /\ AtRest(C, V, d) => AtRest(D, W, d)
  <2>1. D[d] = C[d] /\ W[d] = V[d]
    BY <1>2
  <2> QED
    BY <2>1, SameCourse
<1>3. TopLevel(D, W, T, K)
  <2> SUFFICES ASSUME NEW e \in Calls, T[e] # 0
               PROVE  /\ K[e] = "running" => Active(D, W, T[e])
                      /\ K[e] = "done" => Spent(D, W, T[e])
    BY DEF TopLevel
  <2>1. T[e] \in Ctxs
    BY DEF Hold, ShapeOf
  <2> QED
    BY <1>1, <1>2, <2>1 DEF But, TopLevel
<1>4. ASSUME NEW d \in Ctxs, NEW u \in Vertices
      PROVE  SubLevel(D, W, d, u)
  <2> DEFINE s == V[d][u].sub
  <2>0. /\ s \in Ctxs \cup {0} /\ (V[d][u].open => s # 0)
        /\ W[d][u].sub = s /\ W[d][u].open = V[d][u].open
    BY DEF Hold, ShapeOf, OpenOf
  <2>1. s \in Ctxs => D[s].graph = C[s].graph
    OBVIOUS
  <2>2. CASE d = c /\ u = v
    <3>1. /\ V[d][u].open => C[s].graph = Decl(u).graph /\ AtRest(C, V, s)
          /\ ~V[d][u].open /\ s # 0 => ~C[s].ended
          /\ s # c
      BY <1>1, <2>2 DEF But
    <3>2. W[d][u].st = "done"
      BY <2>2
    <3> QED
      BY <1>2, <2>0, <2>1, <3>1, <3>2 DEF SubLevel
  <2>3. CASE ~(d = c /\ u = v)
    <3>1. SubLevel(C, V, d, u)
      BY <2>3 DEF But
    <3>2. \/ W[d][u].st = V[d][u].st
          \/ V[d][u].st = "waiting" /\ W[d][u].st = "ready"
      BY <2>3
    <3>3. CASE s = c
      <4>1. V[d][u].open /\ V[d][u].st = "running"
        BY <1>1, <3>3
      <4> QED
        BY <2>0, <2>1, <3>1, <3>2, <3>3, <4>1 DEF SubLevel
    <3>4. CASE s # c
      <4>1. s \in Ctxs => D[s] = C[s]
        BY <3>4
      <4> HIDE DEF s
      <4>2. s \in Ctxs => /\ Unused(C, V, s) => Unused(D, W, s)
                          /\ Active(C, V, s) => Active(D, W, s)
                          /\ AtRest(C, V, s) => AtRest(D, W, s)
        BY <1>2, <3>4
      <4> QED
        BY <2>0, <3>1, <3>2, <4>1, <4>2 DEF SubLevel, s
    <3> QED
      BY <3>3, <3>4
  <2> QED
    BY <2>2, <2>3
<1> QED
  BY <1>3, <1>4 DEF Levels
-----------------------------------------------------------------------------
(***************************************************************************)
(* Another round: what is below the graph is at rest, and is reset.        *)
(***************************************************************************)
SameOpen(V) ==
  \A d \in Ctxs, u \in Vertices :
    V[d][u].open = vtx[d][u].open /\ (V[d][u].open => V[d][u].sub = vtx[d][u].sub)

LEMMA BelowClosed ==
  ASSUME NEW V, SameOpen(V), NEW c \in Ctxs
  PROVE  /\ c \in Below(c) /\ Below(c) \subseteq Ctxs
         /\ \A d \in Below(c), u \in Vertices :
              V[d][u].open /\ V[d][u].sub \in Ctxs => V[d][u].sub \in Below(c)
<1>1. Below(c) \subseteq Ctxs /\ c \in Below(c)
  BY DEF Below
<1>2. ASSUME NEW d \in Below(c), NEW u \in Vertices, V[d][u].open, V[d][u].sub \in Ctxs
      PROVE  V[d][u].sub \in Below(c)
  <2>1. d \in Ctxs /\ vtx[d][u].open /\ vtx[d][u].sub = V[d][u].sub
    BY <1>1, <1>2 DEF SameOpen
  <2>2. ASSUME NEW S \in SUBSET Ctxs, c \in S,
               \A x \in S, w \in Vertices : vtx[x][w].open => vtx[x][w].sub \in S
        PROVE  vtx[d][u].sub \in S
    <3>1. d \in S
      BY <2>2 DEF Below
    <3> QED
      BY <2>1, <2>2, <3>1
  <2> QED
    BY <1>2, <2>1, <2>2 DEF Below
<1> QED
  BY <1>1, <1>2

\* What is below c was opened by a vertex of c or of what is below c.
LEMMA BelowHeld ==
  ASSUME NEW V, SameOpen(V), NEW c \in Ctxs, NEW d \in Below(c), d # c,
         \A x \in Ctxs, u \in Vertices : V[x][u].open => V[x][u].sub \in Ctxs
  PROVE  \E x \in Below(c), u \in Vertices : V[x][u].open /\ V[x][u].sub = d
<1> DEFINE S == {y \in Ctxs : \/ y = c
                              \/ \E x \in Below(c), u \in Vertices :
                                   V[x][u].open /\ V[x][u].sub = y}
<1>0. Below(c) \subseteq Ctxs /\ c \in Below(c)
  BY DEF Below
<1>1. S \in SUBSET Ctxs /\ c \in S
  OBVIOUS
<1>2. S \subseteq Below(c)
  BY <1>0, BelowClosed
<1>3. ASSUME NEW x \in S, NEW u \in Vertices, vtx[x][u].open
      PROVE  vtx[x][u].sub \in S
  <2>1. x \in Below(c) /\ x \in Ctxs
    BY <1>2
  <2>2. V[x][u].open /\ V[x][u].sub = vtx[x][u].sub /\ V[x][u].sub \in Ctxs
    BY <1>3, <2>1 DEF SameOpen
  <2> QED
    BY <2>1, <2>2
<1>4. d \in S
  <2> HIDE DEF S
  <2> QED
    BY <1>1, <1>3 DEF Below
<1> QED
  BY <1>4

\* The graphs that the vertices of c started are at rest if those are done or
\* wait.
LEMMA BelowAtRest ==
  ASSUME NEW C, NEW V, NEW P, NEW b, NEW T, NEW K, Hold(C, V, P, b, T), SameOpen(V),
         NEW c \in Ctxs, NEW v \in Vertices, But(C, V, T, K, c, v),
         \A u \in Vertices : u # v => V[c][u].st \in {"waiting", "done"},
         NEW d \in Below(c), d # c
  PROVE  AtRest(C, V, d)
<1> DEFINE S == {x \in Ctxs : x = c \/ AtRest(C, V, x)}
<1>1. S \in SUBSET Ctxs /\ c \in S
  OBVIOUS
<1>2. ASSUME NEW x \in S, NEW u \in Vertices, vtx[x][u].open
      PROVE  vtx[x][u].sub \in S
  <2>1. V[x][u].open /\ V[x][u].sub = vtx[x][u].sub /\ V[x][u].sub \in Ctxs
    BY <1>2 DEF SameOpen, Hold, OpenOf, ShapeOf
  <2>2. CASE x = c /\ u = v
    BY <2>1, <2>2 DEF But
  <2>3. CASE ~(x = c /\ u = v)
    <3>1. SubLevel(C, V, x, u)
      BY <2>3 DEF But
    <3>2. V[x][u].st \in {"waiting", "done"}
      <4>1. CASE x = c
        BY <2>3, <4>1
      <4>2. CASE x # c
        <5>1. AtRest(C, V, x) /\ V[x][u].st \in {"waiting", "ready", "running", "done"}
          BY <4>2 DEF But, StatesOf
        <5> QED
          BY <5>1, NotAtRest
      <4> QED
        BY <4>1, <4>2
    <3> QED
      BY <2>1, <3>1, <3>2 DEF SubLevel, AtRest
  <2> QED
    BY <2>2, <2>3
<1>3. d \in S
  <2> HIDE DEF S
  <2> QED
    BY <1>1, <1>2 DEF Below
<1> QED
  BY <1>3

\* The graph of c starts again; what is below it was reset.
LEMMA Again ==
  ASSUME design \in DOMAIN Designs,
         NEW C, NEW V, NEW P, NEW b, NEW T, NEW K, Hold(C, V, P, b, T), Reported(T, K),
         SameOpen(V), NEW c \in Ctxs, NEW v \in Vertices, But(C, V, T, K, c, v),
         \A u \in Vertices : u # v => V[c][u].st \in {"waiting", "done"},
         NEW D, NEW W, Active(D, W, c), StatesOf(W),
         \A d \in Ctxs : D[d].graph = C[d].graph /\ D[d].ended = C[d].ended,
         \A d \in Ctxs, u \in Vertices : W[d][u].sub = V[d][u].sub /\ W[d][u].open = V[d][u].open,
         \A d \in Ctxs : d \notin Below(c) => D[d] = C[d] /\ W[d] = V[d],
         \A d \in Below(c) : d # c => /\ D[d].join = Cardinality(Members(D[d].graph))
                                      /\ \A u \in Vertices : W[d][u].st = "waiting",
         \A u \in Vertices : W[c][u].st \in {"waiting", "ready"}
  PROVE  Levels(D, W, T, K)
<1>0. /\ c # 0 /\ ~Unused(C, V, c) /\ ~Spent(C, V, c) /\ ~AtRest(C, V, c)
      /\ Below(c) \subseteq Ctxs /\ c \in Below(c)
  BY NotAtRest, Constants, BelowClosed DEF But
<1>1. /\ \A e \in Calls : T[e] = c => K[e] = "running"
      /\ \A d \in Ctxs, u \in Vertices : V[d][u].sub = c =>
           V[d][u].open /\ V[d][u].st = "running" /\ ~(d = c /\ u = v)
  BY WhoWaits
<1>2. \A x \in Ctxs, u \in Vertices : V[x][u].open => V[x][u].sub \in Ctxs
  BY DEF Hold, OpenOf, ShapeOf
<1>3. ASSUME NEW d \in Below(c), d # c
      PROVE  AtRest(C, V, d) /\ Unused(D, W, d)
  <2>1. AtRest(C, V, d)
    BY <1>3, BelowAtRest
  <2>2. C[d].graph \in DOMAIN Decls.graph /\ ~C[d].ended
    BY <2>1 DEF AtRest, Unused, Spent, Going
  <2> QED
    BY <1>0, <1>3, <2>1, <2>2 DEF Unused
<1>4. ASSUME NEW d \in Ctxs, d \notin Below(c)
      PROVE  /\ Unused(C, V, d) => Unused(D, W, d)
             /\ Active(C, V, d) => Active(D, W, d)
             /\ Spent(C, V, d) => Spent(D, W, d)
             /\ AtRest(C, V, d) => AtRest(D, W, d)
  <2>1. D[d] = C[d] /\ W[d] = V[d]
    BY <1>4
  <2> QED
    BY <2>1, SameCourse
<1>5. ASSUME NEW d \in Below(c), d # c
      PROVE  \E x \in Below(c), u \in Vertices : V[x][u].open /\ V[x][u].sub = d
  BY <1>2, <1>5, BelowHeld
<1>6. TopLevel(D, W, T, K)
  <2> SUFFICES ASSUME NEW e \in Calls, T[e] # 0
               PROVE  /\ K[e] = "running" => Active(D, W, T[e])
                      /\ K[e] = "done" => Spent(D, W, T[e])
    BY DEF TopLevel
  <2>1. T[e] \in Ctxs /\ \A x \in Ctxs, u \in Vertices : V[x][u].sub # T[e]
    <3>1. T[e] \in Ctxs
      BY DEF Hold, ShapeOf
    <3>2. TopOf(C, V, P, b, T)
      BY DEF Hold
    <3> QED
      BY <3>1, <3>2 DEF TopOf
  <2>2. T[e] = c \/ T[e] \notin Below(c)
    BY <1>0, <1>5, <2>1
  <2> QED
    BY <1>1, <1>4, <2>1, <2>2 DEF But, TopLevel
<1>7. ASSUME NEW d \in Ctxs, NEW u \in Vertices
      PROVE  SubLevel(D, W, d, u)
  <2> DEFINE s == V[d][u].sub
  <2>0. /\ s \in Ctxs \cup {0} /\ (V[d][u].open => s # 0)
        /\ W[d][u].sub = s /\ W[d][u].open = V[d][u].open
        /\ s \in Ctxs => D[s].graph = C[s].graph /\ D[s].ended = C[s].ended
    BY DEF Hold, ShapeOf, OpenOf
  <2>1. /\ V[d][u].open => C[s].graph = Decl(u).graph
        /\ ~V[d][u].open /\ s # 0 => ~C[s].ended
    <3>1. CASE d = c /\ u = v
      BY <3>1 DEF But
    <3>2. CASE ~(d = c /\ u = v)
      <4>1. SubLevel(C, V, d, u)
        BY <3>2 DEF But
      <4> QED
        BY <4>1 DEF SubLevel
    <3> QED
      BY <3>1, <3>2
  <2>2. CASE d \in Below(c)
    <3>1. W[d][u].st \in {"waiting", "ready"}
      BY <2>2
    <3>2. V[d][u].open => s \in Below(c)
      BY <1>2, <2>2, BelowClosed
    <3>3. V[d][u].open => s # c
      <4>1. CASE d = c
        BY <1>1, <4>1
      <4>2. CASE d # c
        BY <1>1, <1>3, <2>2, <4>2, NotAtRest
      <4> QED
        BY <4>1, <4>2
    <3>4. V[d][u].open => Unused(D, W, s)
      BY <1>3, <3>2, <3>3
    <3> HIDE DEF s
    <3> QED
      BY <2>0, <2>1, <3>1, <3>4 DEF SubLevel
  <2>3. CASE d \notin Below(c)
    <3>1. SubLevel(C, V, d, u) /\ W[d] = V[d]
      BY <1>0, <2>3 DEF But
    <3>2. s \in Ctxs => s = c \/ s \notin Below(c)
      <4> SUFFICES ASSUME s \in Below(c), s # c PROVE FALSE
        OBVIOUS
      <4>1. PICK x \in Below(c), w \in Vertices : V[x][w].sub = s
        BY <1>5
      <4>2. x = d
        BY <1>0, <4>1, Constants DEF Hold, SubOf
      <4> QED
        BY <2>3, <4>1, <4>2
    <3>3. CASE s = c
      <4>1. V[d][u].open /\ V[d][u].st = "running"
        BY <1>1, <3>3
      <4> QED
        BY <2>0, <2>1, <3>1, <3>3, <4>1 DEF SubLevel
    <3>4. CASE s # c
      <4> HIDE DEF s
      <4>1. s \in Ctxs => /\ Unused(C, V, s) => Unused(D, W, s)
                          /\ Active(C, V, s) => Active(D, W, s)
                          /\ AtRest(C, V, s) => AtRest(D, W, s)
        BY SMTT(40), <1>4, <3>2, <3>4
      <4> QED
        BY <2>0, <2>1, <3>1, <4>1 DEF SubLevel, s
    <3> QED
      BY <3>3, <3>4
  <2> QED
    BY <2>2, <2>3
<1> QED
  BY <1>6, <1>7 DEF Levels

\* FinishVertex, with each of its outcomes.
LEMMA FinishLevels ==
  ASSUME design \in DOMAIN Designs,
         NEW C, NEW V, NEW P, NEW b, NEW T, NEW K, Hold(C, V, P, b, T), Reported(T, K),
         SameOpen(V), NEW c \in Ctxs, NEW v \in Vertices, But(C, V, T, K, c, v),
         NEW code, FinishVertex(c, v, code, C, V)
  PROVE  Levels(ctx', vtx', T, K)
<1>0. /\ ShapeOf(C, V, P, b, T) /\ Row(V[c]) /\ DOMAIN C[c] = CFields
      /\ V[c][v].st \in {"ready", "running"} /\ StatesOf(V)
  BY DEF Hold, ShapeOf, But
<1>1. Active(C, V, c) /\ Going(C, V, c)
  BY WhoWaits DEF Active
<1>2. Work(C, V, P, b)
  BY <1>0, FinishWork DEF SameOpen
<1>3. \A d \in Ctxs, u \in Vertices :
        vtx'[d][u].sub = V[d][u].sub /\ vtx'[d][u].open = V[d][u].open
  BY <1>2 DEF Work, SameHold
<1> DEFINE final == Code(v, code)
           y == IF final = "ok" THEN "OK" ELSE "ERR"
           done == [V[c] EXCEPT ![v] = [@ EXCEPT !.st = "done", !.code = final,
                                                 !.result = y]]
           now == [C[c] EXCEPT !.join = @ - 1,
                               !.exit = @ \/ (code = "err" /\ Decl(v).exits),
                               !.child = Children(v, V[c][v], @)]
           Joining(d) == Cardinality(Members(C[d].graph))
<1>4. /\ done[v].st = "done" /\ \A u \in Vertices : u # v => done[u].st = V[c][u].st
      /\ Row(done)
  BY <1>0 DEF Row, VFields
<1>5. /\ now.join = C[c].join - 1 /\ now.ended = C[c].ended /\ now.graph = C[c].graph
      /\ DOMAIN now = CFields
  BY <1>0 DEF CFields
<1>6. /\ Cardinality(Undone(C, V, c) \ {v}) = C[c].join - 1
      /\ C[c].join - 1 = 0 <=> Undone(C, V, c) = {v}
      /\ ~C[c].ended /\ C[c].graph \in DOMAIN Decls.graph
  BY <1>0, <1>1, EndCounts DEF Going
<1> HIDE DEF done, now, final, y
<1>7. CASE /\ now.join # 0
           /\ ctx' = [C EXCEPT ![c] = now]
           /\ vtx' = [V EXCEPT ![c] = Notified(v, done)]
  <2>1. /\ ctx'[c] = now /\ vtx'[c] = Notified(v, done)
        /\ \A d \in Ctxs : d # c => ctx'[d] = C[d] /\ vtx'[d] = V[d]
    BY <1>0, <1>7 DEF ShapeOf
  <2>2. /\ Active(ctx', vtx', c) /\ vtx'[c][v].st = "done"
        /\ \A u \in Vertices : u # v =>
             \/ vtx'[c][u].st = V[c][u].st
             \/ V[c][u].st = "waiting" /\ vtx'[c][u].st = "ready"
    <3>1. /\ ctx'[c].graph = C[c].graph /\ ctx'[c].join = C[c].join - 1
          /\ ctx'[c].join # 0 /\ ~ctx'[c].ended /\ vtx'[c] = Notified(v, done)
      BY <1>5, <1>6, <1>7, <2>1
    <3>2. ASSUME NEW u \in Vertices
          PROVE  IF v \in Decl(u).deps /\ \A d \in Decl(u).deps : d = v \/ V[c][d].st = "done"
                 THEN vtx'[c][u].st = "ready"
                 ELSE vtx'[c][u].st = IF u = v THEN "done" ELSE V[c][u].st
      <4>1. vtx'[c][u].st = IF v \in Decl(u).deps /\ \A d \in Decl(u).deps : done[d].st = "done"
                            THEN "ready" ELSE done[u].st
        BY <1>4, <3>1 DEF Notified, Row, VFields
      <4>2. v \in Decl(u).deps => Decl(u).deps \subseteq Vertices
        BY <1>6, <1>0, <1>1, Built, EndCounts
      <4> QED
        BY <1>4, <4>1, <4>2
    <3>3. Told(V, vtx', c, v)
      BY <3>2 DEF Told
    <3>4. Active(ctx', vtx', c)
      BY <1>0, <1>1, <3>1, <3>3, NotifiedActive
    <3> QED
      BY <1>0, <1>1, <3>3, <3>4, ToldStates
  <2>3. StatesOf(vtx')
    BY <1>0, <1>4, <2>1, <2>2 DEF StatesOf
  <2> QED
    BY <1>3, <1>5, <2>1, <2>2, <2>3, OneDone
<1>8. CASE /\ now.join = 0
           /\ ctx' = [C EXCEPT ![c] = [now EXCEPT !.ended = TRUE]]
           /\ vtx' = [V EXCEPT ![c] = done]
  <2> DEFINE e == [now EXCEPT !.ended = TRUE]
  <2>0. e.ended /\ e.join = now.join /\ e.graph = now.graph
    BY <1>5 DEF CFields
  <2> HIDE DEF e
  <2>1. /\ ctx'[c] = e /\ vtx'[c] = done
        /\ \A d \in Ctxs : d # c => ctx'[d] = C[d] /\ vtx'[d] = V[d]
    BY <1>0, <1>8 DEF ShapeOf, e
  <2>2. Active(ctx', vtx', c)
    <3>1. /\ ctx'[c].graph = C[c].graph /\ ctx'[c].join = C[c].join - 1
          /\ ctx'[c].join = 0 /\ ctx'[c].ended /\ vtx'[c] = done
      BY <1>5, <1>8, <2>0, <2>1
    <3> QED
      BY <1>0, <1>1, <1>4, <3>1, LastActive
  <2>3. StatesOf(vtx')
    BY <1>0, <1>4, <2>1 DEF StatesOf
  <2> QED
    BY <1>3, <1>4, <1>5, <2>0, <2>1, <2>2, <2>3, OneDone
<1>9. CASE /\ now.join = 0
           /\ ctx' = [d \in Ctxs |->
                        IF d = c THEN [now EXCEPT !.join = Joining(c), !.round = @ + 1]
                        ELSE IF d \in Below(c) THEN [C[d] EXCEPT !.join = Joining(d)]
                        ELSE C[d]]
           /\ vtx' = [d \in Ctxs |->
                        IF d = c THEN Started(C[c].graph, Rewound(done))
                        ELSE IF d \in Below(c) THEN Rewound(V[d]) ELSE V[d]]
  <2> DEFINE r == [now EXCEPT !.join = Joining(c), !.round = @ + 1]
             R == Started(C[c].graph, Rewound(done))
             q(d) == [C[d] EXCEPT !.join = Joining(d)]
  <2>0. /\ r.graph = C[c].graph /\ r.join = Joining(c) /\ r.ended = C[c].ended
    BY <1>5 DEF CFields
  <2>1. ASSUME NEW d \in Ctxs
        PROVE  /\ q(d).graph = C[d].graph /\ q(d).join = Joining(d) /\ q(d).ended = C[d].ended
               /\ \A u \in Vertices : Rewound(V[d])[u].st = "waiting"
    <3>1. DOMAIN C[d] = CFields /\ Row(V[d])
      BY <1>0 DEF ShapeOf
    <3> QED
      BY <3>1, RewoundKeeps DEF CFields
  <2>2. \A u \in Vertices : R[u].st = IF u \in Members(C[c].graph) /\ Decl(u).deps = {}
                                      THEN "ready" ELSE "waiting"
    <3>1. Row(Rewound(done)) /\ \A u \in Vertices : Rewound(done)[u].st = "waiting"
      BY <1>4, RewoundKeeps DEF SameHold
    <3> QED
      BY <3>1 DEF Started, Row, VFields
  <2>3. \A d \in Ctxs :
          /\ ctx'[d] = IF d = c THEN r ELSE IF d \in Below(c) THEN q(d) ELSE C[d]
          /\ vtx'[d] = IF d = c THEN R
                       ELSE IF d \in Below(c) THEN Rewound(V[d]) ELSE V[d]
    BY <1>9
  <2> HIDE DEF r, R, q
  <2>4. \A d \in Ctxs : ctx'[d].graph = C[d].graph /\ ctx'[d].ended = C[d].ended
    BY <2>0, <2>1, <2>3
  <2>5. /\ \A d \in Ctxs : d \notin Below(c) => ctx'[d] = C[d] /\ vtx'[d] = V[d]
        /\ \A d \in Below(c) : d # c => /\ ctx'[d].join = Cardinality(Members(ctx'[d].graph))
                                        /\ \A u \in Vertices : vtx'[d][u].st = "waiting"
    BY <2>1, <2>3, <2>4, BelowClosed
  <2>6. \A u \in Vertices : vtx'[c][u].st \in {"waiting", "ready"}
    BY <2>2, <2>3
  <2>7. Active(ctx', vtx', c)
    BY <1>6, <2>0, <2>2, <2>3, StartActive
  <2>8. StatesOf(vtx')
    BY <1>0, <2>5, <2>6 DEF StatesOf
  <2>9. \A u \in Vertices : u # v => V[c][u].st \in {"waiting", "done"}
    <3> TAKE u \in Vertices
    <3> HAVE u # v
    <3>1. u \notin Undone(C, V, c)
      BY <1>5, <1>6, <1>9
    <3> QED
      BY <1>1, <3>1 DEF Going, Undone
  <2> QED
    BY <1>3, <2>4, <2>5, <2>6, <2>7, <2>8, <2>9, Again
<1> QED
  BY <1>7, <1>8, <1>9 DEF FinishVertex, done, now, final, y
-----------------------------------------------------------------------------
(***************************************************************************)
(* The steps.                                                              *)
(***************************************************************************)
LEMMA LPrimed ==
  ASSUME design' = design, design \in DOMAIN Designs, Levels(ctx', vtx', top', call')
  PROVE  LInv'
<1>1. Decls' = Decls
  BY DEF Decls
<1>2. \A v : Decl(v)' = Decl(v)
  BY <1>1 DEF Decl
<1>3. \A g : Members(g)' = Members(g)
  BY <1>1 DEF Members
<1>4. \A c : Undone(ctx, vtx, c)' = Undone(ctx', vtx', c)
  BY <1>3 DEF Undone
<1>5. \A c : Unused(ctx', vtx', c) => Unused(ctx, vtx, c)'
  BY <1>1, <1>3 DEF Unused
<1>6. \A c : Going(ctx', vtx', c) => Going(ctx, vtx, c)'
  BY <1>1, <1>2, <1>3, <1>4 DEF Going
<1>7. \A c : /\ Active(ctx', vtx', c) => Active(ctx, vtx, c)'
             /\ Spent(ctx', vtx', c) => Spent(ctx, vtx, c)'
             /\ AtRest(ctx', vtx', c) => AtRest(ctx, vtx, c)'
  BY <1>4, <1>5, <1>6 DEF Active, Spent, AtRest
<1>8. StatesOf(vtx)'
  BY DEF Levels, StatesOf
<1>9. TopLevel(ctx, vtx, top, call)'
  BY <1>7 DEF Levels, TopLevel
<1>10. ASSUME NEW d \in Ctxs, NEW u \in Vertices
       PROVE  SubLevel(ctx, vtx, d, u)'
  <2>1. SubLevel(ctx', vtx', d, u)
    BY DEF Levels
  <2> QED
    BY <1>2, <1>5, <1>7, <2>1 DEF SubLevel
<1> QED
  BY <1>8, <1>9, <1>10 DEF LInv, Levels

LEMMA CallsReported ==
  ASSUME IInv
  PROVE  Reported(top, call)
  BY DEF IInv, CallInv, Reported

\* The levels do not see that a vertex borrowed a context.
LEMMA LentLevels ==
  ASSUME IInv, LInv, NEW c \in Ctxs, NEW v \in Vertices, vtx[c][v].st = "ready",
         NEW s \in Ctxs \cup {0}, Borrow(c, v, s)
  PROVE  /\ Levels(Lent(v, s), Holding(c, v, s), top, call) /\ SameOpen(Holding(c, v, s))
         /\ \A d \in Ctxs : /\ Lent(v, s)[d].graph = ctx[d].graph
                            /\ Lent(v, s)[d].join = ctx[d].join
                            /\ Lent(v, s)[d].ended = ctx[d].ended
<1> DEFINE C == Lent(v, s)  V == Holding(c, v, s)
<1>0. /\ ShapeOf(ctx, vtx, pool, born, top) /\ PoolOf(pool, born) /\ UsedOf(ctx, vtx, pool, born, top)
      /\ SubOf(vtx, pool, born) /\ TopOf(ctx, vtx, pool, born, top)
      /\ OpenOf(ctx, vtx) /\ loaded \subseteq Clusters /\ design \in DOMAIN Designs
  BY DEF IInv, Hold, CallInv, LInv
<1>1. \A d \in Ctxs, u \in Vertices :
        /\ V[d][u].sub = IF d = c /\ u = v THEN s ELSE vtx[d][u].sub
        /\ V[d][u].open = vtx[d][u].open /\ V[d][u].st = vtx[d][u].st
  BY Lend
<1>2. \A d \in Ctxs : /\ C[d].graph = ctx[d].graph /\ C[d].join = ctx[d].join
                      /\ C[d].ended = ctx[d].ended
  <2>1. CASE s = 0
    BY <2>1 DEF Lent
  <2>2. CASE s # 0
    <3>1. \A d \in Ctxs : C[d] = IF d = s THEN [ctx[s] EXCEPT !.cluster = Decl(v).cluster]
                                 ELSE ctx[d]
      BY <1>0, <2>2 DEF Lent, ShapeOf
    <3> DEFINE r == [ctx[s] EXCEPT !.cluster = Decl(v).cluster]
    <3>2. r.graph = ctx[s].graph /\ r.join = ctx[s].join /\ r.ended = ctx[s].ended
      BY <1>0, <2>2 DEF ShapeOf, CFields
    <3> HIDE DEF r
    <3>3. \A d \in Ctxs : C[d] = IF d = s THEN r ELSE ctx[d]
      BY <3>1 DEF r
    <3> QED
      BY <3>2, <3>3
  <2> QED
    BY <2>1, <2>2
<1> HIDE DEF C, V
<1>3. vtx[c][v].open => vtx[c][v].sub # 0 /\ s = vtx[c][v].sub
  BY <1>0 DEF OpenOf, Borrow
<1>4. SameOpen(V)
  BY <1>1, <1>3 DEF SameOpen
<1>5. s # 0 /\ s # vtx[c][v].sub => ~ctx[s].ended
  <2> HAVE s # 0 /\ s # vtx[c][v].sub
  <2>1. GetContext(Decl(v).cluster, s) /\ Decl(v).cluster \in Clusters
    BY <1>0 DEF Borrow
  <2>2. Idle(pool, born, s) /\ s \in Ctxs
    BY <1>0, <2>1, Got DEF ShapeOf
  <2>3. ctx[s] = FreshContext(None)
    BY <1>0, <2>2 DEF UsedOf
  <2> QED
    BY <2>3 DEF FreshContext
<1>6. ASSUME NEW d \in Ctxs
      PROVE  /\ Unused(ctx, vtx, d) => Unused(C, V, d)
             /\ Active(ctx, vtx, d) => Active(C, V, d)
             /\ Spent(ctx, vtx, d) => Spent(C, V, d)
             /\ AtRest(ctx, vtx, d) => AtRest(C, V, d)
  <2>1. /\ ctx[d].graph = C[d].graph /\ ctx[d].join = C[d].join /\ ctx[d].ended = C[d].ended
        /\ \A u \in Vertices : vtx[d][u].st = V[d][u].st
    BY <1>1, <1>2
  <2> QED
    BY <1>0, <2>1, SameCourse
<1>7. StatesOf(V) /\ TopLevel(C, V, top, call)
  <2>1. \A e \in Calls : top[e] # 0 => top[e] \in Ctxs
    BY <1>0 DEF ShapeOf
  <2> QED
    BY <1>1, <1>6, <2>1 DEF LInv, Levels, StatesOf, TopLevel
<1>8. ASSUME NEW d \in Ctxs, NEW u \in Vertices
      PROVE  SubLevel(C, V, d, u)
  <2>1. SubLevel(ctx, vtx, d, u) /\ vtx[d][u].sub \in Ctxs \cup {0}
    BY <1>0 DEF LInv, Levels, ShapeOf
  <2>2. V[d][u].open = vtx[d][u].open /\ V[d][u].st = vtx[d][u].st
    BY <1>1
  <2>3. CASE V[d][u].sub = vtx[d][u].sub
    <3> DEFINE x == vtx[d][u].sub
    <3>1. x \in Ctxs => /\ C[x].graph = ctx[x].graph /\ C[x].ended = ctx[x].ended
                        /\ Unused(ctx, vtx, x) => Unused(C, V, x)
                        /\ Active(ctx, vtx, x) => Active(C, V, x)
                        /\ AtRest(ctx, vtx, x) => AtRest(C, V, x)
      BY <1>2, <1>6
    <3>2. V[d][u].open => x # 0
      BY <1>0, <2>2 DEF OpenOf
    <3> QED
      BY <2>1, <2>2, <2>3, <3>1, <3>2 DEF SubLevel
  <2>4. CASE V[d][u].sub # vtx[d][u].sub
    <3>1. d = c /\ u = v /\ V[d][u].sub = s /\ s # vtx[c][v].sub /\ ~V[d][u].open
      BY <1>1, <1>3, <2>4
    <3>2. s # 0 => ~C[s].ended
      BY <1>2, <1>5, <3>1
    <3>3. V[d][u].st = "ready"
      BY <2>2, <3>1
    <3> QED
      BY <3>1, <3>2, <3>3 DEF SubLevel
  <2> QED
    BY <2>3, <2>4
<1>9. Levels(C, V, top, call)
  BY <1>7, <1>8 DEF Levels
<1> QED
  BY <1>2, <1>4, <1>9 DEF C, V

LEMMA LentFinishLevels ==
  ASSUME IInv, LInv, NEW c \in Ctxs, NEW v \in Vertices, vtx[c][v].st = "ready",
         NEW s \in Ctxs \cup {0}, Borrow(c, v, s), NEW code,
         FinishVertex(c, v, code, Lent(v, s), Holding(c, v, s)),
         UNCHANGED <<design, loaded, top, call, late>>
  PROVE  LInv'
<1> DEFINE C == Lent(v, s)  V == Holding(c, v, s)
<1>1. /\ Hold(C, V, pool', born', top) /\ V[c][v].st = "ready"
      /\ design \in DOMAIN Designs /\ Reported(top, call)
  BY Lend, CallsReported DEF LInv
<1>2. Levels(C, V, top, call) /\ SameOpen(V)
  BY LentLevels
<1>3. FinishVertex(c, v, code, C, V)
  OBVIOUS
<1> HIDE DEF C, V
<1>4. But(C, V, top, call, c, v)
  BY <1>1, <1>2, ReadyBut
<1>5. Levels(ctx', vtx', top, call)
  BY <1>1, <1>2, <1>3, <1>4, FinishLevels
<1> QED
  BY <1>1, <1>5, LPrimed

LEMMA RunActive ==
  ASSUME design \in DOMAIN Designs, NEW C, NEW V, NEW D, NEW W, NEW c, NEW v \in Vertices,
         Active(C, V, c), V[c][v].st = "ready", W[c][v].st = "running",
         \A u \in Vertices : u # v => W[c][u].st = V[c][u].st,
         D[c].graph = C[c].graph, D[c].join = C[c].join, D[c].ended = C[c].ended
  PROVE  Active(D, W, c)
<1>1. C[c].graph \in DOMAIN Decls.graph /\ Members(C[c].graph) \subseteq Vertices
  BY Built DEF Active, Going
<1>2. \A u \in Vertices : /\ W[c][u].st # "waiting" <=> V[c][u].st # "waiting"
                          /\ W[c][u].st = "done" <=> V[c][u].st = "done"
  OBVIOUS
<1>3. Undone(D, W, c) = Undone(C, V, c)
  BY <1>1, <1>2 DEF Undone
<1>4. \A u \in Members(C[c].graph) : \A d \in Decl(u).deps : d \in Vertices
  BY <1>1, Built
<1> QED
  BY <1>1, <1>2, <1>3, <1>4 DEF Active, Going

\* A vertex starts to run, and the graph it holds, if any, is started.
LEMMA StartLevels ==
  ASSUME design \in DOMAIN Designs,
         NEW C, NEW V, NEW P, NEW b, NEW T, NEW K, Hold(C, V, P, b, T), Reported(T, K),
         Levels(C, V, T, K), NEW c \in Ctxs, NEW v \in Vertices, V[c][v].st = "ready",
         NEW s \in Ctxs \cup {0}, s = V[c][v].sub, s # c,
         NEW D, NEW W, StatesOf(W), W[c][v].st = "running", W[c][v].sub = s,
         IF s = 0 THEN ~W[c][v].open /\ Decl(v).cluster = None
         ELSE W[c][v].open /\ D[s].graph = Decl(v).graph /\ Active(D, W, s),
         \A d \in Ctxs, u \in Vertices : ~(d = c /\ u = v) =>
           /\ W[d][u].sub = V[d][u].sub /\ W[d][u].open = V[d][u].open
           /\ \/ W[d][u].st = V[d][u].st
              \/ V[d][u].st = "waiting" /\ W[d][u].st = "ready",
         \A u \in Vertices : u # v => W[c][u].st = V[c][u].st,
         D[c].graph = C[c].graph, D[c].join = C[c].join, D[c].ended = C[c].ended,
         \A d \in Ctxs : d \notin {c, s} => D[d] = C[d] /\ W[d] = V[d]
  PROVE  Levels(D, W, T, K)
<1>1. But(C, V, T, K, c, v) /\ c # 0
  BY ReadyBut, Constants
<1>2. /\ Active(C, V, c) /\ \A e \in Calls : T[e] = c => K[e] = "running"
      /\ \A d \in Ctxs, u \in Vertices : V[d][u].sub = c =>
           V[d][u].open /\ V[d][u].st = "running" /\ ~(d = c /\ u = v)
  BY <1>1, WhoWaits
<1>3. Active(D, W, c)
  BY <1>2, RunActive
<1>4. ASSUME NEW d \in Ctxs, d \notin {c, s}
      PROVE  /\ Unused(C, V, d) => Unused(D, W, d)
             /\ Active(C, V, d) => Active(D, W, d)
             /\ Spent(C, V, d) => Spent(D, W, d)
             /\ AtRest(C, V, d) => AtRest(D, W, d)
  <2>1. D[d] = C[d] /\ W[d] = V[d]
    BY <1>4
  <2> QED
    BY <2>1, SameCourse
<1>5. TopLevel(D, W, T, K)
  <2> SUFFICES ASSUME NEW e \in Calls, T[e] # 0
               PROVE  /\ K[e] = "running" => Active(D, W, T[e])
                      /\ K[e] = "done" => Spent(D, W, T[e])
    BY DEF TopLevel
  <2>1. T[e] \in Ctxs
    BY DEF Hold, ShapeOf
  <2>2. T[e] # s
    <3>1. TopOf(C, V, P, b, T)
      BY DEF Hold
    <3> QED
      BY <3>1 DEF TopOf
  <2> QED
    BY <1>2, <1>3, <1>4, <2>1, <2>2 DEF Levels, TopLevel
<1>6. SubLevel(D, W, c, v)
  BY DEF SubLevel
<1>7. ASSUME NEW d \in Ctxs, NEW u \in Vertices, ~(d = c /\ u = v)
      PROVE  SubLevel(D, W, d, u)
  <2> DEFINE x == V[d][u].sub
  <2>0. /\ x \in Ctxs \cup {0} /\ (V[d][u].open => x # 0)
        /\ W[d][u].sub = x /\ W[d][u].open = V[d][u].open
    BY <1>7 DEF Hold, ShapeOf, OpenOf
  <2>1. SubLevel(C, V, d, u)
    BY DEF Levels
  <2>2. \/ W[d][u].st = V[d][u].st
        \/ V[d][u].st = "waiting" /\ W[d][u].st = "ready"
    BY <1>7
  <2>3. x # 0 => x # s
    BY <1>7 DEF Hold, SubOf
  <2>4. CASE x = c
    <3>1. V[d][u].open /\ V[d][u].st = "running"
      BY <1>2, <2>4
    <3> QED
      BY <1>3, <2>0, <2>1, <2>2, <2>4, <3>1 DEF SubLevel
  <2>5. CASE x # c
    <3>1. x \in Ctxs => /\ D[x] = C[x]
                        /\ Unused(C, V, x) => Unused(D, W, x)
                        /\ Active(C, V, x) => Active(D, W, x)
                        /\ AtRest(C, V, x) => AtRest(D, W, x)
      BY <1>4, <2>3, <2>5, Constants
    <3> HIDE DEF x
    <3> QED
      BY <2>0, <2>1, <2>2, <3>1 DEF SubLevel, x
  <2> QED
    BY <2>4, <2>5
<1> QED
  BY <1>5, <1>6, <1>7 DEF Levels

LEMMA ExecuteProcessorLevels ==
  ASSUME IInv, LInv, NEW c \in Ctxs, NEW v \in Vertices, ExecuteProcessor(c, v)
  PROVE  LInv'
<1>0. /\ Hold(ctx, vtx, pool, born, top) /\ ShapeOf(ctx, vtx, pool, born, top)
      /\ SubOf(vtx, pool, born) /\ OpenOf(ctx, vtx) /\ Row(vtx[c])
      /\ design \in DOMAIN Designs /\ Levels(ctx, vtx, top, call) /\ StatesOf(vtx)
  BY DEF IInv, Hold, LInv, ShapeOf, Levels
<1>1. /\ ctx' = ctx /\ top' = top /\ call' = call /\ design' = design
      /\ vtx[c][v].st = "ready" /\ Decl(v).cluster = None
  BY DEF ExecuteProcessor
<1> DEFINE r == [vtx[c][v] EXCEPT !.st = "running", !.using = Selected(c, v)]
<1>2. vtx' = [vtx EXCEPT ![c] = [vtx[c] EXCEPT ![v] = r]]
  BY DEF ExecuteProcessor
<1>3. r.st = "running" /\ r.sub = vtx[c][v].sub /\ r.open = vtx[c][v].open
  BY <1>0 DEF Row, VFields
<1> HIDE DEF r
<1>4. /\ vtx'[c][v] = r /\ \A u \in Vertices : u # v => vtx'[c][u] = vtx[c][u]
      /\ \A d \in Ctxs : d # c => vtx'[d] = vtx[d]
  BY <1>0, <1>2 DEF ShapeOf, Row
<1>5. vtx[c][v].sub = 0 /\ ~vtx[c][v].open
  BY <1>0, <1>1, ClusterAssumption DEF SubOf, OpenOf
<1>6. StatesOf(vtx')
  BY <1>0, <1>3, <1>4 DEF StatesOf
<1>7. \A d \in Ctxs, u \in Vertices : ~(d = c /\ u = v) => vtx'[d][u] = vtx[d][u]
  BY <1>4
<1>8. Levels(ctx', vtx', top, call)
  BY <1>0, <1>1, <1>3, <1>4, <1>5, <1>6, <1>7, StartLevels, CallsReported, Constants
<1> QED
  BY <1>0, <1>1, <1>8, LPrimed

LEMMA StartedStates ==
  ASSUME NEW R, Row(R), NEW g, \A u \in Vertices : R[u].st = "waiting"
  PROVE  \A u \in Vertices :
           /\ Started(g, R)[u].st = IF u \in Members(g) /\ Decl(u).deps = {}
                                    THEN "ready" ELSE "waiting"
           /\ Started(g, R)[u].sub = R[u].sub /\ Started(g, R)[u].open = R[u].open
  BY DEF Started, Row, VFields

LEMMA FirstRoundLevels ==
  ASSUME IInv, LInv, NEW c \in Ctxs, NEW v \in Vertices, vtx[c][v].st = "ready",
         NEW s \in Ctxs, Borrow(c, v, s), ~vtx[c][v].open, FirstRound(c, v, s),
         Decl(v).cluster # None, Decl(v).graph \in Decls.graphs[Decl(v).cluster],
         UNCHANGED <<design, loaded, top, call, late>>
  PROVE  LInv'
<1> DEFINE C == Lent(v, s)  V == Holding(c, v, s)  g == Decl(v).graph
<1>0. /\ ShapeOf(ctx, vtx, pool, born, top) /\ Row(vtx[c]) /\ DOMAIN ctx[c] = CFields
      /\ s # 0 /\ design \in DOMAIN Designs /\ g \in DOMAIN Decls.graph
  BY Constants, Built DEF IInv, Hold, LInv, ShapeOf
<1>1. /\ Hold(C, V, pool', born', top)
      /\ \A d \in Ctxs, u \in Vertices :
           /\ V[d][u].sub = IF d = c /\ u = v THEN s ELSE vtx[d][u].sub
           /\ V[d][u].open = vtx[d][u].open /\ V[d][u].st = vtx[d][u].st
  BY Lend
<1>2. /\ Levels(C, V, top, call)
      /\ \A d \in Ctxs : /\ C[d].graph = ctx[d].graph /\ C[d].join = ctx[d].join
                         /\ C[d].ended = ctx[d].ended
  BY LentLevels
<1>3. V[s] = FreshVertices /\ s # c
  <2>1. V[s] = FreshVertices
    BY <1>0, <1>1 DEF Hold, OpenOf
  <2> QED
    BY <1>1, <2>1, FreshShape
<1>4. /\ \A d \in Ctxs : d # s => C[d] = ctx[d]
      /\ \A d \in Ctxs : d # c => V[d] = vtx[d]
  BY <1>0 DEF Lent, Holding, ShapeOf
<1> HIDE DEF C, V
<1> DEFINE B == Begun(s, Decl(v).cluster, g, Args(c, v, Selected(c, v)), ctx[c].end, c)
           k == [ctx[c] EXCEPT !.child[0] = s]
           r == [vtx[c][v] EXCEPT !.st = "running", !.sub = s, !.open = TRUE,
                                  !.using = Selected(c, v)]
           R == [vtx[c] EXCEPT ![v] = r]
<1>5. /\ ctx' = [[ctx EXCEPT ![c] = k] EXCEPT ![s] = B]
      /\ vtx' = [[vtx EXCEPT ![c] = R] EXCEPT ![s] = Started(g, vtx[s])]
  BY <1>0, <1>3 DEF FirstRound, ShapeOf
<1>6. B.graph = g /\ B.join = Cardinality(Members(g)) /\ ~B.ended
  BY DEF Begun, FreshContext
<1>7. k.graph = ctx[c].graph /\ k.join = ctx[c].join /\ k.ended = ctx[c].ended
  BY <1>0 DEF CFields
<1>8. r.st = "running" /\ r.sub = s /\ r.open
  BY <1>0 DEF Row, VFields
<1> HIDE DEF B, k, r, g
<1>9. /\ ctx'[s] = B /\ ctx'[c] = k /\ vtx'[s] = Started(g, vtx[s])
      /\ vtx'[c][v] = r /\ \A u \in Vertices : u # v => vtx'[c][u] = vtx[c][u]
      /\ \A d \in Ctxs : d \notin {c, s} => ctx'[d] = ctx[d] /\ vtx'[d] = vtx[d]
  BY <1>0, <1>3, <1>5 DEF ShapeOf, Row
<1>10. /\ \A u \in Vertices : vtx[s][u].st = "waiting" /\ V[s][u] = vtx[s][u]
       /\ \A u \in Vertices :
            /\ vtx'[s][u].st = IF u \in Members(g) /\ Decl(u).deps = {}
                               THEN "ready" ELSE "waiting"
            /\ vtx'[s][u].sub = vtx[s][u].sub /\ vtx'[s][u].open = vtx[s][u].open
  <2>1. Row(vtx[s]) /\ \A u \in Vertices : vtx[s][u].st = "waiting" /\ V[s][u] = vtx[s][u]
    BY <1>0, <1>3, <1>4, FreshShape DEF ShapeOf
  <2> QED
    BY <1>9, <2>1, StartedStates
<1>11. Active(ctx', vtx', s)
  <2>1. ctx'[s].graph = g /\ ctx'[s].join = Cardinality(Members(g)) /\ ~ctx'[s].ended
    BY <1>6, <1>9
  <2> QED
    BY <1>0, <1>10, <2>1, StartActive DEF g
<1>12. ASSUME NEW d \in Ctxs, NEW u \in Vertices, ~(d = c /\ u = v)
       PROVE  /\ vtx'[d][u].sub = V[d][u].sub /\ vtx'[d][u].open = V[d][u].open
              /\ \/ vtx'[d][u].st = V[d][u].st
                 \/ V[d][u].st = "waiting" /\ vtx'[d][u].st = "ready"
  <2>1. CASE d = c
    BY <1>1, <1>9, <1>12, <2>1
  <2>2. CASE d = s
    BY <1>3, <1>10, <2>2
  <2>3. CASE d \notin {c, s}
    BY <1>4, <1>9, <2>3
  <2> QED
    BY <2>1, <2>2, <2>3
<1>13. StatesOf(vtx')
  <2>1. StatesOf(V)
    BY <1>2 DEF Levels
  <2> QED
    BY <1>8, <1>9, <1>12, <2>1 DEF StatesOf
<1>14. /\ V[c][v].st = "ready" /\ s = V[c][v].sub
       /\ vtx'[c][v].st = "running" /\ vtx'[c][v].sub = s /\ vtx'[c][v].open
       /\ ctx'[s].graph = Decl(v).graph
       /\ \A u \in Vertices : u # v => vtx'[c][u].st = V[c][u].st
       /\ ctx'[c].graph = C[c].graph /\ ctx'[c].join = C[c].join /\ ctx'[c].ended = C[c].ended
       /\ \A d \in Ctxs : d \notin {c, s} => ctx'[d] = C[d] /\ vtx'[d] = V[d]
  BY <1>1, <1>2, <1>4, <1>6, <1>7, <1>8, <1>9 DEF g
<1>15. Levels(ctx', vtx', top, call)
  BY <1>0, <1>1, <1>2, <1>3, <1>11, <1>12, <1>13, <1>14, StartLevels, CallsReported
<1> QED
  BY <1>0, <1>15, LPrimed

LEMMA NextRoundLevels ==
  ASSUME IInv, LInv, NEW c \in Ctxs, NEW v \in Vertices, vtx[c][v].st = "ready",
         NEW s \in Ctxs, Borrow(c, v, s), vtx[c][v].open, NextRound(c, v, s),
         UNCHANGED <<design, loaded, top, call, late>>
  PROVE  LInv'
<1> DEFINE g == Decl(v).graph
<1>0. /\ Hold(ctx, vtx, pool, born, top) /\ ShapeOf(ctx, vtx, pool, born, top) /\ OpenOf(ctx, vtx)
      /\ Row(vtx[c]) /\ Row(vtx[s]) /\ DOMAIN ctx[s] = CFields
      /\ s # 0 /\ design \in DOMAIN Designs /\ Levels(ctx, vtx, top, call)
  BY Constants DEF IInv, Hold, LInv, ShapeOf
<1>1. vtx[c][v].sub # 0 /\ s = vtx[c][v].sub
  BY <1>0 DEF OpenOf, Borrow
<1>2. Unused(ctx, vtx, s) /\ ctx[s].graph = g
  <2>1. SubLevel(ctx, vtx, c, v)
    BY <1>0 DEF Levels
  <2> QED
    BY <1>1, <2>1 DEF SubLevel
<1>3. s # c
  BY <1>2, NotAtRest
<1> DEFINE q == [ctx[s] EXCEPT !.round = 1]
           r == [vtx[c][v] EXCEPT !.st = "running", !.using = Selected(c, v)]
           R == [vtx[c] EXCEPT ![v] = r]
<1>4. ctx' = [ctx EXCEPT ![s] = q] /\ vtx' = [[vtx EXCEPT ![c] = R] EXCEPT ![s] = Started(g, vtx[s])]
  <2> DEFINE W == [vtx EXCEPT ![c][v].st = "running", ![c][v].using = Selected(c, v)]
  <2>1. ctx' = [ctx EXCEPT ![s] = q] /\ vtx' = [W EXCEPT ![s] = Started(g, W[s])]
    BY DEF NextRound
  <2>2. W = [vtx EXCEPT ![c] = R]
    OBVIOUS
  <2> HIDE DEF W, R, q, g
  <2>3. W[s] = vtx[s]
    BY <1>0, <1>3, <2>2 DEF ShapeOf
  <2> QED
    BY <2>1, <2>2, <2>3
<1>5. q.graph = ctx[s].graph /\ q.join = ctx[s].join /\ q.ended = ctx[s].ended
  BY <1>0 DEF CFields
<1>6. r.st = "running" /\ r.sub = vtx[c][v].sub /\ r.open = vtx[c][v].open
  BY <1>0 DEF Row, VFields
<1> HIDE DEF q, r, g
<1>7. /\ ctx'[s] = q /\ ctx'[c] = ctx[c] /\ vtx'[s] = Started(g, vtx[s])
      /\ vtx'[c][v] = r /\ \A u \in Vertices : u # v => vtx'[c][u] = vtx[c][u]
      /\ \A d \in Ctxs : d \notin {c, s} => ctx'[d] = ctx[d] /\ vtx'[d] = vtx[d]
  BY <1>0, <1>3, <1>4 DEF ShapeOf, Row
<1>8. /\ \A u \in Vertices : vtx[s][u].st = "waiting"
      /\ \A u \in Vertices :
           /\ vtx'[s][u].st = IF u \in Members(g) /\ Decl(u).deps = {}
                              THEN "ready" ELSE "waiting"
           /\ vtx'[s][u].sub = vtx[s][u].sub /\ vtx'[s][u].open = vtx[s][u].open
  <2>1. \A u \in Vertices : vtx[s][u].st = "waiting"
    BY <1>2 DEF Unused
  <2> QED
    BY <1>0, <1>7, <2>1, StartedStates
<1>9. Active(ctx', vtx', s)
  <2>1. /\ ctx'[s].graph = g /\ ctx'[s].join = Cardinality(Members(g)) /\ ~ctx'[s].ended
        /\ g \in DOMAIN Decls.graph
    BY <1>2, <1>5, <1>7 DEF Unused
  <2> QED
    BY <1>0, <1>8, <2>1, StartActive
<1>10. ASSUME NEW d \in Ctxs, NEW u \in Vertices, ~(d = c /\ u = v)
       PROVE  /\ vtx'[d][u].sub = vtx[d][u].sub /\ vtx'[d][u].open = vtx[d][u].open
              /\ \/ vtx'[d][u].st = vtx[d][u].st
                 \/ vtx[d][u].st = "waiting" /\ vtx'[d][u].st = "ready"
  <2>1. CASE d = c
    BY <1>7, <1>10, <2>1
  <2>2. CASE d = s
    BY <1>8, <2>2
  <2>3. CASE d \notin {c, s}
    BY <1>7, <2>3
  <2> QED
    BY <2>1, <2>2, <2>3
<1>11. StatesOf(vtx')
  <2>1. StatesOf(vtx)
    BY <1>0 DEF Levels
  <2> QED
    BY <1>6, <1>7, <1>10, <2>1 DEF StatesOf
<1>12. /\ vtx'[c][v].st = "running" /\ vtx'[c][v].sub = s /\ vtx'[c][v].open
       /\ ctx'[s].graph = Decl(v).graph
       /\ \A u \in Vertices : u # v => vtx'[c][u].st = vtx[c][u].st
  BY <1>1, <1>2, <1>5, <1>6, <1>7 DEF g
<1>13. Levels(ctx', vtx', top, call)
  BY <1>0, <1>1, <1>3, <1>7, <1>9, <1>10, <1>11, <1>12, StartLevels, CallsReported
<1> QED
  BY <1>0, <1>13, LPrimed

LEMMA ExecuteLevels ==
  ASSUME IInv, LInv, NEW c \in Ctxs, NEW v \in Vertices,
         ExecuteSkipped(c, v) \/ ExecuteSubGraph(c, v)
  PROVE  LInv'
<1>1. CASE ExecuteSkipped(c, v)
  BY <1>1, LentFinishLevels DEF ExecuteSkipped
<1>2. CASE ExecuteSubGraph(c, v)
  <2>1. PICK s \in Ctxs :
          /\ Borrow(c, v, s)
          /\ \/ vtx[c][v].open /\ NextRound(c, v, s)
             \/ ~vtx[c][v].open /\ Decl(v).graph \in Decls.graphs[Decl(v).cluster]
                /\ FirstRound(c, v, s)
             \/ NoGraph(c, v, s)
    BY <1>2 DEF ExecuteSubGraph
  <2>2. /\ vtx[c][v].st = "ready" /\ Decl(v).cluster # None
        /\ UNCHANGED <<design, loaded, top, call, late>>
    BY <1>2 DEF ExecuteSubGraph
  <2>3. CASE vtx[c][v].open /\ NextRound(c, v, s)
    BY <2>1, <2>2, <2>3, NextRoundLevels
  <2>4. CASE /\ ~vtx[c][v].open /\ Decl(v).graph \in Decls.graphs[Decl(v).cluster]
             /\ FirstRound(c, v, s)
    BY <2>1, <2>2, <2>4, FirstRoundLevels
  <2>5. CASE NoGraph(c, v, s)
    BY <2>1, <2>2, <2>5, LentFinishLevels DEF NoGraph
  <2> QED
    BY <2>1, <2>3, <2>4, <2>5
<1> QED
  BY <1>1, <1>2

LEMMA ReturnLevels ==
  ASSUME IInv, LInv, NEW c \in Ctxs, NEW v \in Vertices, NEW code, Return(c, v, code)
  PROVE  LInv'
<1>1. /\ Hold(ctx, vtx, pool, born, top) /\ SubOf(vtx, pool, born) /\ OpenOf(ctx, vtx)
      /\ design \in DOMAIN Designs /\ Levels(ctx, vtx, top, call)
  BY DEF IInv, Hold, LInv
<1>2. /\ vtx[c][v].st = "running" /\ Decl(v).cluster = None
      /\ FinishVertex(c, v, code, ctx, vtx) /\ UNCHANGED <<design, top, call>>
  BY DEF Return
<1>3. vtx[c][v].sub = 0 /\ ~vtx[c][v].open
  BY <1>1, <1>2, ClusterAssumption DEF SubOf, OpenOf
<1>4. But(ctx, vtx, top, call, c, v)
  BY <1>1, <1>2, <1>3 DEF But, Levels
<1>5. SameOpen(vtx)
  BY DEF SameOpen
<1>6. Levels(ctx', vtx', top, call)
  BY <1>1, <1>2, <1>4, <1>5, FinishLevels, CallsReported
<1> QED
  BY <1>1, <1>2, <1>6, LPrimed

\* The end of a graph is reported: it is spent, and the other contexts go on.
LEMMA EndSpent ==
  ASSUME design \in DOMAIN Designs, Hold(ctx, vtx, pool, born, top), NEW s \in Ctxs,
         Active(ctx, vtx, s), ctx[s].ended
  PROVE  LET C == [ctx EXCEPT ![s].ended = FALSE]
         IN /\ Spent(C, vtx, s) /\ C[s].graph = ctx[s].graph /\ ~C[s].ended
            /\ \A d \in Ctxs : d # s =>
                 /\ C[d] = ctx[d]
                 /\ Unused(ctx, vtx, d) => Unused(C, vtx, d)
                 /\ Active(ctx, vtx, d) => Active(C, vtx, d)
                 /\ Spent(ctx, vtx, d) => Spent(C, vtx, d)
                 /\ AtRest(ctx, vtx, d) => AtRest(C, vtx, d)
<1> DEFINE r == [ctx[s] EXCEPT !.ended = FALSE]  C == [ctx EXCEPT ![s].ended = FALSE]
<1>0. ShapeOf(ctx, vtx, pool, born, top) /\ DOMAIN ctx[s] = CFields
  BY DEF Hold, ShapeOf
<1>1. r.graph = ctx[s].graph /\ r.join = ctx[s].join /\ ~r.ended
  BY <1>0 DEF CFields
<1>2. C = [ctx EXCEPT ![s] = r]
  OBVIOUS
<1> HIDE DEF r, C
<1>3. C[s] = r /\ \A d \in Ctxs : d # s => C[d] = ctx[d]
  BY <1>0, <1>2 DEF ShapeOf
<1>4. Spent(C, vtx, s)
  <2>1. Undone(ctx, vtx, s) = {} /\ Going(ctx, vtx, s)
    BY DEF Active, Going
  <2>2. Undone(C, vtx, s) = Undone(ctx, vtx, s)
    BY <1>1, <1>3 DEF Undone
  <2> QED
    BY <1>1, <1>3, <2>1, <2>2 DEF Spent, Going
<1>5. ASSUME NEW d \in Ctxs, d # s
      PROVE  /\ Unused(ctx, vtx, d) => Unused(C, vtx, d)
             /\ Active(ctx, vtx, d) => Active(C, vtx, d)
             /\ Spent(ctx, vtx, d) => Spent(C, vtx, d)
             /\ AtRest(ctx, vtx, d) => AtRest(C, vtx, d)
  <2>1. C[d] = ctx[d]
    BY <1>3, <1>5
  <2> QED
    BY <2>1, SameCourse
<1> QED
  BY <1>1, <1>3, <1>4, <1>5 DEF C

\* With its end reported, a subgraph is at rest while its vertex is to be done.
LEMMA EndBut ==
  ASSUME IInv, LInv, NEW c \in Ctxs, NEW v \in Vertices, SubGraphDone(c, v)
  PROVE  LET C == [ctx EXCEPT ![vtx[c][v].sub].ended = FALSE]
         IN Hold(C, vtx, pool, born, top) /\ But(C, vtx, top, call, c, v)
<1> DEFINE s == vtx[c][v].sub  C == [ctx EXCEPT ![s].ended = FALSE]
<1>1. /\ Hold(ctx, vtx, pool, born, top) /\ vtx[c][v].st = "running" /\ vtx[c][v].open
      /\ ctx[s].ended /\ UNCHANGED <<design, top, call>>
      /\ design \in DOMAIN Designs /\ Levels(ctx, vtx, top, call)
  BY DEF IInv, SubGraphDone, LInv
<1>2. s \in Ctxs /\ ~Rested(vtx, pool, born, s) /\ s # 0
  BY <1>1, Constants DEF Hold, OpenOf, ShapeOf, SubOf, Rested
<1>3. Hold(C, vtx, pool, born, top)
  BY <1>1, <1>2, EndReported
<1>4. Active(ctx, vtx, s) /\ ctx[s].graph = Decl(v).graph
  <2>1. SubLevel(ctx, vtx, c, v)
    BY <1>1 DEF Levels
  <2> QED
    BY <1>1, <2>1 DEF SubLevel
<1>5. /\ Spent(C, vtx, s) /\ C[s].graph = ctx[s].graph /\ ~C[s].ended
      /\ \A d \in Ctxs : d # s =>
           /\ C[d] = ctx[d]
           /\ Unused(ctx, vtx, d) => Unused(C, vtx, d)
           /\ Active(ctx, vtx, d) => Active(C, vtx, d)
           /\ Spent(ctx, vtx, d) => Spent(C, vtx, d)
           /\ AtRest(ctx, vtx, d) => AtRest(C, vtx, d)
  BY <1>1, <1>2, <1>4, EndSpent
<1> HIDE DEF C
<1>6. But(C, vtx, top, call, c, v)
  <2>1. TopLevel(C, vtx, top, call)
    <3> SUFFICES ASSUME NEW e \in Calls, top[e] # 0
                 PROVE  /\ call[e] = "running" => Active(C, vtx, top[e])
                        /\ call[e] = "done" => Spent(C, vtx, top[e])
      BY DEF TopLevel
    <3>1. top[e] \in Ctxs /\ TopOf(ctx, vtx, pool, born, top)
      BY <1>1 DEF Hold, ShapeOf
    <3>2. top[e] # s
      BY <3>1 DEF TopOf
    <3> QED
      BY <1>1, <1>5, <3>1, <3>2 DEF Levels, TopLevel
  <2>2. ASSUME NEW d \in Ctxs, NEW u \in Vertices, ~(d = c /\ u = v)
        PROVE  SubLevel(C, vtx, d, u)
    <3> DEFINE x == vtx[d][u].sub
    <3>1. /\ x \in Ctxs \cup {0} /\ (vtx[d][u].open => x # 0) /\ (x # 0 => x # s)
          /\ SubLevel(ctx, vtx, d, u)
      <4>1. x # 0 => x # s
        BY <1>1, <1>2, <2>2 DEF Hold, SubOf
      <4> QED
        BY <1>1, <4>1 DEF Hold, ShapeOf, OpenOf, Levels
    <3>2. x \in Ctxs => /\ C[x] = ctx[x]
                        /\ Unused(ctx, vtx, x) => Unused(C, vtx, x)
                        /\ Active(ctx, vtx, x) => Active(C, vtx, x)
                        /\ AtRest(ctx, vtx, x) => AtRest(C, vtx, x)
      BY <1>5, <3>1, Constants
    <3> HIDE DEF x
    <3> QED
      BY <3>1, <3>2 DEF SubLevel, x
  <2>3. StatesOf(vtx)
    BY <1>1 DEF Levels
  <2> QED
    BY <1>1, <1>4, <1>5, <2>1, <2>2, <2>3 DEF But, AtRest
<1> QED
  BY <1>3, <1>6 DEF C

LEMMA SubGraphDoneLevels ==
  ASSUME IInv, LInv, NEW c \in Ctxs, NEW v \in Vertices, SubGraphDone(c, v)
  PROVE  LInv'
<1> DEFINE s == vtx[c][v].sub  C == [ctx EXCEPT ![s].ended = FALSE]
<1>1. PICK code : FinishVertex(c, v, code, C, vtx)
  BY DEF SubGraphDone
<1>2. design \in DOMAIN Designs /\ UNCHANGED <<design, top, call>>
  BY DEF SubGraphDone, LInv
<1>3. Hold(C, vtx, pool, born, top) /\ But(C, vtx, top, call, c, v)
  BY EndBut
<1> HIDE DEF C
<1>4. SameOpen(vtx)
  BY DEF SameOpen
<1>5. Levels(ctx', vtx', top, call)
  BY <1>1, <1>2, <1>3, <1>4, FinishLevels, CallsReported
<1> QED
  BY <1>2, <1>5, LPrimed

LEMMA GraphDoneLevels ==
  ASSUME IInv, LInv, NEW e \in Calls, GraphDone(e)
  PROVE  LInv'
<1> DEFINE s == top[e]  C == [ctx EXCEPT ![s].ended = FALSE]
<1>1. /\ Hold(ctx, vtx, pool, born, top) /\ CallInv
      /\ UNCHANGED <<design, top, vtx>> /\ ctx[s].ended
      /\ call[e] = "running" /\ call' = [call EXCEPT ![e] = "done"]
      /\ ctx' = C /\ design \in DOMAIN Designs /\ Levels(ctx, vtx, top, call)
  BY DEF IInv, GraphDone, LInv
<1>2. /\ s # 0 /\ s \in Ctxs /\ TopOf(ctx, vtx, pool, born, top) /\ Active(ctx, vtx, s)
  BY <1>1 DEF CallInv, Hold, ShapeOf, Levels, TopLevel
<1>3. /\ Spent(C, vtx, s) /\ C[s].graph = ctx[s].graph /\ ~C[s].ended
      /\ \A d \in Ctxs : d # s =>
           /\ C[d] = ctx[d]
           /\ Unused(ctx, vtx, d) => Unused(C, vtx, d)
           /\ Active(ctx, vtx, d) => Active(C, vtx, d)
           /\ Spent(ctx, vtx, d) => Spent(C, vtx, d)
           /\ AtRest(ctx, vtx, d) => AtRest(C, vtx, d)
  BY <1>1, <1>2, EndSpent
<1> HIDE DEF C
<1>4. \A f \in Calls : call'[f] = IF f = e THEN "done" ELSE call[f]
  BY <1>1 DEF CallInv
<1>5. TopLevel(C, vtx, top, call')
  <2> SUFFICES ASSUME NEW f \in Calls, top[f] # 0
               PROVE  /\ call'[f] = "running" => Active(C, vtx, top[f])
                      /\ call'[f] = "done" => Spent(C, vtx, top[f])
    BY DEF TopLevel
  <2>1. CASE f = e
    BY <1>3, <1>4, <2>1
  <2>2. CASE f # e
    <3>1. top[f] \in Ctxs /\ top[f] # s
      BY <1>1, <1>2, <2>2 DEF Hold, ShapeOf, TopOf
    <3> QED
      BY <1>1, <1>3, <1>4, <2>2, <3>1 DEF Levels, TopLevel
  <2> QED
    BY <2>1, <2>2
<1>6. ASSUME NEW d \in Ctxs, NEW u \in Vertices
      PROVE  SubLevel(C, vtx, d, u)
  <2> DEFINE x == vtx[d][u].sub
  <2>1. /\ x \in Ctxs \cup {0} /\ (vtx[d][u].open => x # 0) /\ x # s
        /\ SubLevel(ctx, vtx, d, u)
    <3>1. x # s
      BY <1>2 DEF TopOf
    <3> QED
      BY <1>1, <3>1 DEF Hold, ShapeOf, OpenOf, Levels
  <2>2. x \in Ctxs => /\ C[x] = ctx[x]
                      /\ Unused(ctx, vtx, x) => Unused(C, vtx, x)
                      /\ Active(ctx, vtx, x) => Active(C, vtx, x)
                      /\ AtRest(ctx, vtx, x) => AtRest(C, vtx, x)
    BY <1>3, <2>1
  <2> HIDE DEF x
  <2> QED
    BY <2>1, <2>2 DEF SubLevel, x
<1>7. StatesOf(vtx)
  BY <1>1 DEF Levels
<1>8. Levels(ctx', vtx', top', call')
  BY <1>1, <1>5, <1>6, <1>7 DEF Levels
<1> QED
  BY <1>1, <1>8, LPrimed

LEMMA CallLevels ==
  ASSUME IInv, LInv, NEW e \in Calls, Execute(e)
  PROVE  LInv'
<1> DEFINE B(s) == Begun(s, "top", "main", CallArgs(e), IF e \in Timed THEN e ELSE None, 0)
<1>0. /\ ShapeOf(ctx, vtx, pool, born, top) /\ PoolOf(pool, born)
      /\ TopOf(ctx, vtx, pool, born, top) /\ SubOf(vtx, pool, born)
      /\ UsedOf(ctx, vtx, pool, born, top) /\ OpenOf(ctx, vtx) /\ CallInv
      /\ design \in DOMAIN Designs /\ Levels(ctx, vtx, top, call)
      /\ "main" \in DOMAIN Decls.graph
  BY Built DEF IInv, Hold, LInv
<1>1. PICK s \in Ctxs : /\ GetContext("top", s)
                        /\ top' = [top EXCEPT ![e] = s]
                        /\ ctx' = [ctx EXCEPT ![s] = B(s)]
                        /\ vtx' = [vtx EXCEPT ![s] = Started("main", vtx[s])]
  BY <1>0 DEF Execute
<1>2. call' = [call EXCEPT ![e] = "running"] /\ design' = design
  BY DEF Execute
<1>3. /\ s # 0 /\ vtx[s] = FreshVertices
      /\ \A f \in Calls : top[f] # s
      /\ \A d \in Ctxs, u \in Vertices : vtx[d][u].sub # s
  <2>1. pool \in [Clusters -> Seq(Ctxs)] /\ born \in 0..MaxCtxs /\ "top" \in Clusters
    BY <1>0, ClusterAssumption DEF ShapeOf
  <2>2. Idle(pool, born, s)
    BY <1>0, <1>1, <2>1, Got
  <2> QED
    BY <1>0, <2>2, Constants DEF UsedOf, TopOf, SubOf
<1>4. B(s).graph = "main" /\ B(s).join = Cardinality(Members("main")) /\ ~B(s).ended
  BY DEF Begun, FreshContext
<1> HIDE DEF B
<1>5. /\ ctx'[s] = B(s) /\ \A d \in Ctxs : d # s => ctx'[d] = ctx[d]
      /\ vtx'[s] = Started("main", vtx[s]) /\ \A d \in Ctxs : d # s => vtx'[d] = vtx[d]
      /\ \A f \in Calls : top'[f] = IF f = e THEN s ELSE top[f]
      /\ \A f \in Calls : call'[f] = IF f = e THEN "running" ELSE call[f]
  BY <1>0, <1>1, <1>2 DEF ShapeOf, CallInv
<1>6. \A u \in Vertices :
        /\ vtx'[s][u].st = IF u \in Members("main") /\ Decl(u).deps = {}
                           THEN "ready" ELSE "waiting"
        /\ vtx'[s][u].sub = 0 /\ vtx'[s][u].open = FALSE
  <2>1. Row(vtx[s]) /\ \A u \in Vertices : /\ vtx[s][u].st = "waiting" /\ vtx[s][u].sub = 0
                                           /\ vtx[s][u].open = FALSE
    BY <1>3, FreshShape
  <2> QED
    BY <1>5, <2>1, StartedStates
<1>7. Active(ctx', vtx', s)
  <2>1. ctx'[s].graph = "main" /\ ctx'[s].join = Cardinality(Members("main")) /\ ~ctx'[s].ended
    BY <1>4, <1>5
  <2> QED
    BY <1>0, <1>6, <2>1, StartActive
<1>8. ASSUME NEW d \in Ctxs, d # s
      PROVE  /\ Unused(ctx, vtx, d) => Unused(ctx', vtx', d)
             /\ Active(ctx, vtx, d) => Active(ctx', vtx', d)
             /\ Spent(ctx, vtx, d) => Spent(ctx', vtx', d)
             /\ AtRest(ctx, vtx, d) => AtRest(ctx', vtx', d)
  <2>1. ctx'[d] = ctx[d] /\ vtx'[d] = vtx[d]
    BY <1>5, <1>8
  <2> QED
    BY <1>0, <2>1, SameCourse
<1>9. TopLevel(ctx', vtx', top', call')
  <2> SUFFICES ASSUME NEW f \in Calls, top'[f] # 0
               PROVE  /\ call'[f] = "running" => Active(ctx', vtx', top'[f])
                      /\ call'[f] = "done" => Spent(ctx', vtx', top'[f])
    BY DEF TopLevel
  <2>1. CASE f = e
    BY <1>5, <1>7, <2>1
  <2>2. CASE f # e
    <3>1. top[f] \in Ctxs /\ top[f] # s /\ top'[f] = top[f] /\ call'[f] = call[f] /\ top[f] # 0
      BY <1>0, <1>3, <1>5, <2>2 DEF ShapeOf
    <3> QED
      BY <1>0, <1>8, <3>1 DEF Levels, TopLevel
  <2> QED
    BY <2>1, <2>2
<1>10. ASSUME NEW d \in Ctxs, NEW u \in Vertices
       PROVE  SubLevel(ctx', vtx', d, u)
  <2>1. CASE d = s
    BY <1>6, <2>1 DEF SubLevel
  <2>2. CASE d # s
    <3> DEFINE x == vtx[d][u].sub
    <3>1. /\ x \in Ctxs \cup {0} /\ (vtx[d][u].open => x # 0) /\ x # s
          /\ SubLevel(ctx, vtx, d, u) /\ vtx'[d][u] = vtx[d][u]
      BY <1>0, <1>3, <1>5, <2>2 DEF ShapeOf, OpenOf, Levels
    <3>2. x \in Ctxs => /\ ctx'[x] = ctx[x]
                        /\ Unused(ctx, vtx, x) => Unused(ctx', vtx', x)
                        /\ Active(ctx, vtx, x) => Active(ctx', vtx', x)
                        /\ AtRest(ctx, vtx, x) => AtRest(ctx', vtx', x)
      BY <1>5, <1>8, <3>1
    <3> HIDE DEF x
    <3> QED
      BY <3>1, <3>2 DEF SubLevel, x
  <2> QED
    BY <2>1, <2>2
<1>11. StatesOf(vtx')
  <2>1. StatesOf(vtx)
    BY <1>0 DEF Levels
  <2> QED
    BY <1>5, <1>6, <2>1 DEF StatesOf
<1>12. Levels(ctx', vtx', top', call')
  BY <1>9, <1>10, <1>11 DEF Levels
<1> QED
  BY <1>0, <1>2, <1>12, LPrimed

\* Nothing runs any more in what is left of a call that is done, and no vertex
\* waits for it.
LEMMA LeftAtRest ==
  ASSUME IInv, LInv, NEW e \in Calls, call[e] = "done", NEW c \in Under(top[e])
  PROVE  \A d \in Ctxs, u \in Vertices : vtx[d][u].sub = c => vtx[d][u].st # "running"
<1>0. /\ ShapeOf(ctx, vtx, pool, born, top) /\ TopOf(ctx, vtx, pool, born, top)
      /\ SubOf(vtx, pool, born) /\ OpenOf(ctx, vtx) /\ Levels(ctx, vtx, top, call)
      /\ top[e] # 0 /\ top[e] \in Ctxs
  BY DEF IInv, CallInv, Hold, ShapeOf, LInv
<1> DEFINE Calm(d) == \A u \in Vertices : vtx[d][u].st \in {"waiting", "done"}
           S == {d \in Ctxs : /\ Calm(d)
                              /\ \A x \in Ctxs, u \in Vertices :
                                   vtx[x][u].sub = d => vtx[x][u].st # "running"}
<1>1. ASSUME NEW d \in Ctxs, AtRest(ctx, vtx, d) \/ vtx[d] = FreshVertices
      PROVE  Calm(d)
  <2> SUFFICES ASSUME NEW u \in Vertices
               PROVE  vtx[d][u].st \in {"waiting", "done"}
    OBVIOUS
  <2>1. vtx[d][u].st \in {"waiting", "ready", "running", "done"}
    BY <1>0 DEF Levels, StatesOf
  <2> QED
    BY <1>1, <2>1, NotAtRest
<1>2. top[e] \in S
  <2>1. Spent(ctx, vtx, top[e])
    BY <1>0 DEF Levels, TopLevel
  <2>2. Calm(top[e])
    BY <1>0, <1>1, <2>1 DEF AtRest
  <2>3. \A x \in Ctxs, u \in Vertices : vtx[x][u].sub # top[e]
    BY <1>0 DEF TopOf
  <2> QED
    BY <1>0, <2>2, <2>3
<1>3. ASSUME NEW d \in S, NEW u \in Vertices, vtx[d][u].sub # 0
      PROVE  vtx[d][u].sub \in S
  <2> DEFINE s == vtx[d][u].sub
  <2>1. s \in Ctxs /\ d \in Ctxs /\ vtx[d][u].st \in {"waiting", "done"}
    BY <1>0, <1>3 DEF ShapeOf
  <2>2. Calm(s)
    <3>1. CASE vtx[d][u].open
      <4>1. SubLevel(ctx, vtx, d, u)
        BY <1>0, <2>1 DEF Levels
      <4>2. AtRest(ctx, vtx, s)
        BY <2>1, <3>1, <4>1 DEF SubLevel, AtRest
      <4> QED
        BY <1>1, <2>1, <4>2
    <3>2. CASE ~vtx[d][u].open
      <4>1. vtx[s] = FreshVertices
        BY <1>0, <1>3, <2>1, <3>2 DEF OpenOf
      <4> QED
        BY <1>1, <2>1, <4>1
    <3> QED
      BY <3>1, <3>2
  <2>3. \A x \in Ctxs, w \in Vertices : vtx[x][w].sub = s => x = d /\ w = u
    BY <1>0, <1>3, <2>1 DEF SubOf
  <2> QED
    BY <2>1, <2>2, <2>3
<1>4. c \in S
  <2>1. S \in SUBSET Ctxs
    OBVIOUS
  <2> HIDE DEF S
  <2> QED
    BY <1>2, <1>3, <2>1 DEF Under
<1> QED
  BY <1>4

LEMMA ReleaseLevels ==
  ASSUME IInv, LInv, NEW e \in Calls, Release(e)
  PROVE  LInv'
<1>0. /\ ShapeOf(ctx, vtx, pool, born, top) /\ TopOf(ctx, vtx, pool, born, top)
      /\ SubOf(vtx, pool, born) /\ OpenOf(ctx, vtx) /\ CallInv
      /\ Levels(ctx, vtx, top, call) /\ design \in DOMAIN Designs
  BY SMTT(30) DEF IInv, Hold, LInv
<1>1. PICK c \in Under(top[e]) :
        /\ \A v \in Vertices : vtx[c][v].sub = 0
        /\ IF top[e] = c
           THEN call' = [call EXCEPT ![e] = "left"] /\ top' = [top EXCEPT ![e] = 0]
           ELSE UNCHANGED <<call, top>>
        /\ ctx' = [ctx EXCEPT ![c] = FreshContext(None)]
        /\ vtx' = [d \in Ctxs |->
                     IF d = c THEN FreshVertices
                     ELSE [v \in Vertices |->
                             IF vtx[d][v].sub = c
                             THEN [vtx[d][v] EXCEPT !.sub = 0, !.open = FALSE]
                             ELSE vtx[d][v]]]
  BY DEF Release
<1>2. call[e] = "done" /\ design' = design
  BY DEF Release
<1>3. /\ c \in Ctxs /\ c # 0 /\ top[e] # 0
      /\ c = top[e] \/ \E d \in Ctxs, u \in Vertices : vtx[d][u].sub = c
  BY <1>0, <1>2, UnderInUse, Constants DEF CallInv
<1>4. \A d \in Ctxs, u \in Vertices : vtx[d][u].sub = c => vtx[d][u].st # "running"
  BY <1>2, LeftAtRest
<1>5. ctx'[c] = FreshContext(None) /\ \A d \in Ctxs : d # c => ctx'[d] = ctx[d]
  BY <1>0, <1>1, <1>3 DEF ShapeOf
<1>6. /\ vtx'[c] = FreshVertices
      /\ \A d \in Ctxs, u \in Vertices : d # c =>
           /\ vtx'[d][u].st = vtx[d][u].st
           /\ IF vtx[d][u].sub = c THEN vtx'[d][u].sub = 0 /\ ~vtx'[d][u].open
              ELSE vtx'[d][u] = vtx[d][u]
  <2>1. \A d \in Ctxs, u \in Vertices :
          LET r == [vtx[d][u] EXCEPT !.sub = 0, !.open = FALSE]
          IN r.sub = 0 /\ r.open = FALSE /\ r.st = vtx[d][u].st
    BY <1>0 DEF ShapeOf, Row, VFields
  <2>2. \A d \in Ctxs, u \in Vertices : d # c =>
          vtx'[d][u] = IF vtx[d][u].sub = c
                       THEN [vtx[d][u] EXCEPT !.sub = 0, !.open = FALSE]
                       ELSE vtx[d][u]
    BY <1>1
  <2> QED
    BY <1>1, <1>3, <2>1, <2>2
<1>7. ASSUME NEW d \in Ctxs, d # c
      PROVE  /\ Unused(ctx, vtx, d) => Unused(ctx', vtx', d)
             /\ Active(ctx, vtx, d) => Active(ctx', vtx', d)
             /\ Spent(ctx, vtx, d) => Spent(ctx', vtx', d)
             /\ AtRest(ctx, vtx, d) => AtRest(ctx', vtx', d)
  <2>1. ctx'[d] = ctx[d] /\ \A u \in Vertices : vtx'[d][u].st = vtx[d][u].st
    BY <1>5, <1>6, <1>7
  <2> QED
    BY <1>0, <2>1, SameCourse
<1>8. TopLevel(ctx', vtx', top', call')
  <2> SUFFICES ASSUME NEW f \in Calls, top'[f] # 0
               PROVE  /\ call'[f] = "running" => Active(ctx', vtx', top'[f])
                      /\ call'[f] = "done" => Spent(ctx', vtx', top'[f])
    BY DEF TopLevel
  <2>1. top'[f] = top[f] /\ call'[f] = call[f] /\ top[f] # c
    <3>1. CASE top[e] = c
      <4>1. f # e
        BY <1>0, <1>1, <3>1 DEF ShapeOf
      <4>2. top[f] # c
        BY <1>0, <1>3, <3>1, <4>1 DEF TopOf
      <4> QED
        BY <1>0, <1>1, <3>1, <4>1, <4>2 DEF ShapeOf, CallInv
    <3>2. CASE top[e] # c
      <4>1. top'[f] = top[f] /\ call'[f] = call[f]
        BY <1>1, <3>2
      <4>2. top[f] # c
        BY <1>0, <1>3, <3>2, <4>1 DEF TopOf
      <4> QED
        BY <4>1, <4>2
    <3> QED
      BY <3>1, <3>2
  <2>2. top[f] \in Ctxs /\ top[f] # 0
    BY <1>0, <2>1 DEF ShapeOf
  <2> QED
    BY <1>0, <1>7, <2>1, <2>2 DEF Levels, TopLevel
<1>9. ASSUME NEW d \in Ctxs, NEW u \in Vertices
      PROVE  SubLevel(ctx', vtx', d, u)
  <2>1. CASE d = c
    BY <1>6, <2>1, FreshShape DEF SubLevel
  <2>2. CASE d # c /\ vtx[d][u].sub = c
    <3>1. vtx'[d][u].sub = 0 /\ ~vtx'[d][u].open /\ vtx'[d][u].st # "running"
      BY <1>4, <1>6, <2>2
    <3> QED
      BY <3>1 DEF SubLevel
  <2>3. CASE d # c /\ vtx[d][u].sub # c
    <3> DEFINE x == vtx[d][u].sub
    <3>1. /\ x \in Ctxs \cup {0} /\ (vtx[d][u].open => x # 0) /\ x # c
          /\ SubLevel(ctx, vtx, d, u) /\ vtx'[d][u] = vtx[d][u]
      BY <1>0, <1>6, <2>3 DEF ShapeOf, OpenOf, Levels
    <3>2. x \in Ctxs => /\ ctx'[x] = ctx[x]
                        /\ Unused(ctx, vtx, x) => Unused(ctx', vtx', x)
                        /\ Active(ctx, vtx, x) => Active(ctx', vtx', x)
                        /\ AtRest(ctx, vtx, x) => AtRest(ctx', vtx', x)
      BY <1>5, <1>7, <3>1
    <3> HIDE DEF x
    <3> QED
      BY <3>1, <3>2 DEF SubLevel, x
  <2> QED
    BY <2>1, <2>2, <2>3
<1>10. StatesOf(vtx')
  <2>1. StatesOf(vtx)
    BY <1>0 DEF Levels
  <2> QED
    BY <1>6, <2>1, FreshShape DEF StatesOf
<1>11. Levels(ctx', vtx', top', call')
  BY <1>8, <1>9, <1>10 DEF Levels
<1> QED
  BY <1>0, <1>2, <1>11, LPrimed
-----------------------------------------------------------------------------
LEMMA OtherLevels ==
  ASSUME IInv, LInv,
         \/ \E e \in Calls : Expire(e)
         \/ \E k \in Clusters : Load(k)
         \/ Terminated
         \/ UNCHANGED vars
  PROVE  LInv'
<1>1. UNCHANGED <<design, ctx, vtx, top, call>>
  BY DEF Expire, Load, Terminated, vars
<1>2. Levels(ctx', vtx', top', call') /\ design \in DOMAIN Designs
  BY <1>1 DEF LInv
<1> QED
  BY <1>1, <1>2, LPrimed

LEMMA InitLevels ==
  ASSUME Init
  PROVE  LInv
<1>1. \A c \in Ctxs, v \in Vertices : /\ vtx[c][v].st = "waiting" /\ ~vtx[c][v].open
                                      /\ vtx[c][v].sub = 0
  BY FreshShape DEF Init
<1>2. \A e \in Calls : top[e] = 0
  BY DEF Init
<1>3. \A c \in Ctxs, v \in Vertices : SubLevel(ctx, vtx, c, v)
  BY <1>1 DEF SubLevel
<1> QED
  BY <1>1, <1>2, <1>3 DEF Init, LInv, Levels, StatesOf, TopLevel

LEMMA NextLevels ==
  ASSUME IInv, LInv, [Next]_vars
  PROVE  LInv'
<1>1. CASE \E c \in Ctxs, v \in Vertices :
             \/ ExecuteSkipped(c, v) \/ ExecuteProcessor(c, v) \/ ExecuteSubGraph(c, v)
             \/ \E code \in {"ok", "err"} : Return(c, v, code)
             \/ SubGraphDone(c, v)
  BY <1>1, ExecuteLevels, ExecuteProcessorLevels, ReturnLevels, SubGraphDoneLevels
<1>2. CASE \E e \in Calls : Execute(e) \/ GraphDone(e) \/ Release(e)
  BY <1>2, CallLevels, GraphDoneLevels, ReleaseLevels
<1>3. CASE \/ \E e \in Calls : Expire(e)
           \/ \E k \in Clusters : Load(k)
           \/ Terminated
           \/ UNCHANGED vars
  BY <1>3, OtherLevels
<1> QED
  BY <1>1, <1>2, <1>3 DEF Next

\* Each level of nested graphs (VertexContext::ExecuteSubGraph, the closures of
\* GraphContext::Execute, ResetState) is unused, in course or at rest as the
\* vertex or call that holds it says, through rounds, failures and release.
THEOREM LevelsInvariance == Spec => [](IInv /\ LInv)
  BY InitHolds, NextStep, InitLevels, NextLevels, PTL DEF Spec

LEMMA LevelsMeet ==
  ASSUME IInv, LInv
  PROVE  LevelsAgree
<1>0. /\ Hold(ctx, vtx, pool, born, top) /\ ShapeOf(ctx, vtx, pool, born, top)
      /\ SubOf(vtx, pool, born) /\ UsedOf(ctx, vtx, pool, born, top) /\ OpenOf(ctx, vtx)
      /\ Levels(ctx, vtx, top, call) /\ design \in DOMAIN Designs /\ StatesOf(vtx)
      /\ Reported(top, call)
  BY CallsReported DEF IInv, Hold, LInv, Levels
<1> SUFFICES ASSUME NEW c \in 1..born
             PROVE  Busy(c) <=> \/ \E e \in Calls : top[e] = c /\ call[e] = "running"
                                \/ \E h \in Holders(c) : vtx[h[1]][h[2]].st = "running"
  BY DEF LevelsAgree
<1>1. c \in Ctxs /\ c # 0 /\ born \in Nat
  BY <1>0, Constants DEF ShapeOf
<1>2. ASSUME NEW d \in Ctxs, NEW u \in Vertices, vtx[d][u].sub = c
      PROVE  <<d, u>> \in Holders(c)
  <2>1. ~Idle(pool, born, d)
    BY <1>0, <1>1, <1>2, FreshShape DEF UsedOf
  <2>2. d \in 1..born
    BY <1>1, <2>1, Constants DEF Idle
  <2> QED
    BY <1>2, <2>2 DEF Holders
<1>3. ASSUME Active(ctx, vtx, c)
      PROVE  Busy(c)
  <2>1. CASE Undone(ctx, vtx, c) = {}
    BY <1>3, <2>1 DEF Active, Busy
  <2>2. CASE Undone(ctx, vtx, c) # {}
    BY <1>0, <1>1, <1>3, <2>2, AtWork DEF Active, Busy
  <2> QED
    BY <2>1, <2>2
<1>4. ASSUME NEW e \in Calls, top[e] = c, call[e] = "running"
      PROVE  Busy(c)
  BY <1>0, <1>1, <1>3, <1>4 DEF Levels, TopLevel
<1>5. ASSUME NEW h \in Holders(c), vtx[h[1]][h[2]].st = "running"
      PROVE  Busy(c)
  <2>1. h[1] \in Ctxs /\ h[2] \in Vertices /\ vtx[h[1]][h[2]].sub = c
    <3>1. h[1] \in 1..born /\ h[2] \in Vertices /\ vtx[h[1]][h[2]].sub = c
      BY DEF Holders
    <3>2. born \in 0..MaxCtxs
      BY <1>0 DEF ShapeOf
    <3>3. h[1] \in Ctxs
      BY <3>1, <3>2, Constants
    <3> QED
      BY <3>1, <3>3
  <2>2. Decl(h[2]).cluster # None /\ SubLevel(ctx, vtx, h[1], h[2])
    <3>1. \A d \in Ctxs, u \in Vertices :
             vtx[d][u].sub # 0 => Decl(u).cluster \in Clusters
      BY <1>0 DEF SubOf
    <3>2. Decl(h[2]).cluster \in Clusters
      BY <1>1, <2>1, <3>1, Constants
    <3>3. Decl(h[2]).cluster # None
      BY <3>2, ClusterAssumption
    <3>4. \A d \in Ctxs, u \in Vertices : SubLevel(ctx, vtx, d, u)
      BY <1>0 DEF Levels
    <3> QED
      BY <2>1, <3>3, <3>4
  <2>3. Active(ctx, vtx, c)
    BY <1>5, <2>1, <2>2 DEF SubLevel
  <2> QED
    BY <1>3, <2>3
<1>6. ASSUME Busy(c)
      PROVE  \/ \E e \in Calls : top[e] = c /\ call[e] = "running"
             \/ \E h \in Holders(c) : vtx[h[1]][h[2]].st = "running"
  <2>1. ~Unused(ctx, vtx, c) /\ ~Spent(ctx, vtx, c) /\ ~AtRest(ctx, vtx, c)
        /\ (ctx[c] # FreshContext(None) \/ vtx[c] # FreshVertices)
    <3>1. CASE ctx[c].ended
      BY <3>1 DEF Unused, Spent, AtRest, FreshContext
    <3>2. CASE \E v \in Vertices : vtx[c][v].st \in {"ready", "running"}
      BY <1>1, <3>2, NotAtRest
    <3> QED
      BY <1>6, <3>1, <3>2 DEF Busy
  <2>2. (\E e \in Calls : top[e] = c) \/ \E d \in Ctxs, u \in Vertices : vtx[d][u].sub = c
    BY <1>0, <1>1, <2>1 DEF UsedOf
  <2>3. ASSUME NEW e \in Calls, top[e] = c
        PROVE  call[e] = "running"
    BY <1>0, <1>1, <2>1, <2>3 DEF Reported, Levels, TopLevel
  <2>4. ASSUME NEW d \in Ctxs, NEW u \in Vertices, vtx[d][u].sub = c
        PROVE  vtx[d][u].st = "running"
    <3>1. SubLevel(ctx, vtx, d, u) /\ vtx[d][u].st \in {"waiting", "ready", "running", "done"}
      BY <1>0 DEF Levels, StatesOf
    <3>2. vtx[d][u].open
      <4>1. CASE ctx[c].ended
        BY <1>1, <2>4, <3>1, <4>1 DEF SubLevel
      <4>2. CASE \E v \in Vertices : vtx[c][v].st \in {"ready", "running"}
        BY <1>0, <1>1, <2>4, <4>2, FreshShape DEF OpenOf
      <4> QED
        BY <1>6, <4>1, <4>2 DEF Busy
    <3> QED
      BY <2>1, <2>4, <3>1, <3>2 DEF SubLevel
  <2>5. ASSUME NEW d \in Ctxs, NEW u \in Vertices, vtx[d][u].sub = c
        PROVE  \E h \in Holders(c) : vtx[h[1]][h[2]].st = "running"
    <3>1. <<d, u>> \in Holders(c) /\ vtx[<<d, u>>[1]][<<d, u>>[2]].st = "running"
      BY <1>2, <2>4, <2>5
    <3> QED
      BY <3>1
  <2> QED
    BY <2>2, <2>3, <2>5
<1> QED
  BY <1>4, <1>5, <1>6

\* A graph is at work exactly if its call or the vertex around it waits for it,
\* at every depth of nesting and in every round: no end is reported twice (the
\* closures of VertexContext::ExecuteSubGraph and GraphStore::Execute) and none
\* that is waited for is missed.
THEOREM LevelsAgreeHolds == Spec => []LevelsAgree
  BY LevelsInvariance, LevelsMeet, PTL
-----------------------------------------------------------------------------
(***************************************************************************)
(* The children of a context. That a vertex is done with its subgraph says *)
(* that the subgraph is where the vertex put it, or that position 0 was    *)
(* taken by a subgraph that was started later. The positions of vertices   *)
(* of one graph differ, and that the vertices are of one graph is what the *)
(* levels say.                                                             *)
(***************************************************************************)
Kept(C, V, c, v) ==
  \/ C[c].child[Decl(v).slot] = V[c][v].sub
  \/ Decl(v).slot = 0 /\ \E u \in Vertices \ {v} :
       Decl(u).cluster # None /\ V[c][u].st \in {"running", "done"} /\ V[c][u].code # "skip"

ChildOf(C, V, c) ==
  /\ DOMAIN C[c].child = Slots
  /\ \A v \in Vertices : V[c][v].st # "done" => V[c][v].code # "skip"
  /\ \A v \in Vertices : V[c][v].open /\ V[c][v].st = "done" => Kept(C, V, c, v)

KInv == \A c \in Ctxs : ChildOf(ctx, vtx, c)

LEMMA ChildSame ==
  ASSUME NEW C, NEW V, NEW D, NEW W, NEW c, ChildOf(C, V, c),
         D[c].child = C[c].child,
         \A v \in Vertices : /\ W[c][v].st = V[c][v].st /\ W[c][v].code = V[c][v].code
                             /\ W[c][v].open /\ W[c][v].st = "done" =>
                                  V[c][v].open /\ W[c][v].sub = V[c][v].sub
  PROVE  ChildOf(D, W, c)
  BY DEF ChildOf, Kept

\* Nothing is done in the graph of c.
LEMMA ChildNone ==
  ASSUME NEW D, NEW W, NEW c, DOMAIN D[c].child = Slots,
         \A v \in Vertices : W[c][v].st # "done" /\ W[c][v].code # "skip"
  PROVE  ChildOf(D, W, c)
  BY DEF ChildOf

\* The vertex v of c is done.
LEMMA ChildDone ==
  ASSUME design \in DOMAIN Designs,
         NEW C, NEW V, NEW P, NEW b, NEW T, Hold(C, V, P, b, T), NEW c \in Ctxs,
         NEW v \in Vertices, Going(C, V, c), V[c][v].st \in {"ready", "running"},
         ChildOf(C, V, c), NEW D, NEW W,
         D[c].child = Children(v, V[c][v], C[c].child),
         W[c][v].st = "done", V[c][v].st = "running" => W[c][v].code # "skip",
         \A u \in Vertices : /\ W[c][u].sub = V[c][u].sub /\ W[c][u].open = V[c][u].open
                             /\ u # v => /\ W[c][u].code = V[c][u].code
                                         /\ \/ W[c][u].st = V[c][u].st
                                            \/ /\ V[c][u].st = "waiting"
                                               /\ W[c][u].st = "ready"
  PROVE  ChildOf(D, W, c)
<1>0. /\ DOMAIN C[c].child = Slots
      /\ \A u \in Vertices : V[c][u].st # "done" => V[c][u].code # "skip"
      /\ \A u \in Vertices : V[c][u].open /\ V[c][u].st = "done" => Kept(C, V, c, u)
  BY DEF ChildOf
<1>1. \A u \in Vertices : V[c][u].open => Decl(u).cluster # None /\ Decl(u).slot \in Slots
  <2>1. \A u \in Vertices : V[c][u].open => Decl(u).cluster \in Clusters
    BY DEF Hold, OpenOf, SubOf
  <2> QED
    BY <2>1, Built, ClusterAssumption
<1>2. ASSUME NEW u \in Vertices, u # v, V[c][u].open, V[c][u].st = "done", V[c][v].open
      PROVE  Decl(u).slot # Decl(v).slot
  <2>1. C[c].graph \in DOMAIN Decls.graph /\ u \in Members(C[c].graph) /\ v \in Members(C[c].graph)
    BY <1>2 DEF Going
  <2> QED
    BY <1>1, <1>2, <2>1, Built
<1>3. DOMAIN D[c].child = Slots
  BY <1>0 DEF Children
<1>4. V[c][v].open => D[c].child[Decl(v).slot] = V[c][v].sub
  BY <1>0, <1>1 DEF Children
<1>5. ASSUME NEW u \in Vertices, u # v, V[c][u].open, V[c][u].st = "done"
      PROVE  D[c].child[Decl(u).slot] = C[c].child[Decl(u).slot]
  BY <1>0, <1>1, <1>2, <1>5 DEF Children
<1>6. ASSUME NEW u \in Vertices, W[c][u].open, W[c][u].st = "done"
      PROVE  Kept(D, W, c, u)
  <2>1. CASE u = v
    BY <1>4, <1>6, <2>1 DEF Kept
  <2>2. CASE u # v
    <3>1. V[c][u].open /\ V[c][u].st = "done" /\ Kept(C, V, c, u)
      BY <1>0, <1>6, <2>2
    <3>2. CASE C[c].child[Decl(u).slot] = V[c][u].sub
      BY <1>5, <2>2, <3>1, <3>2 DEF Kept
    <3>3. CASE Decl(u).slot = 0 /\ \E w \in Vertices \ {u} :
                 /\ Decl(w).cluster # None /\ V[c][w].st \in {"running", "done"}
                 /\ V[c][w].code # "skip"
      <4>1. PICK w \in Vertices \ {u} :
              /\ Decl(w).cluster # None /\ V[c][w].st \in {"running", "done"}
              /\ V[c][w].code # "skip"
        BY <3>3
      <4>2. W[c][w].st \in {"running", "done"} /\ W[c][w].code # "skip"
        BY <4>1
      <4> QED
        BY <3>3, <4>1, <4>2 DEF Kept
    <3> QED
      BY <3>1, <3>2, <3>3 DEF Kept
  <2> QED
    BY <2>1, <2>2
<1>7. \A u \in Vertices : W[c][u].st # "done" => W[c][u].code # "skip"
  BY SMTT(30), <1>0
<1> QED
  BY <1>3, <1>6, <1>7 DEF ChildOf

\* FinishVertex keeps the children of the context and of those below.
LEMMA FinishChildren ==
  ASSUME design \in DOMAIN Designs,
         NEW C, NEW V, NEW P, NEW b, NEW T, NEW K, Hold(C, V, P, b, T), Reported(T, K),
         SameOpen(V), NEW c \in Ctxs, NEW v \in Vertices, But(C, V, T, K, c, v),
         \A d \in Ctxs : ChildOf(C, V, d),
         NEW code, FinishVertex(c, v, code, C, V), V[c][v].st = "running" => code \in {"ok", "err"}
  PROVE  \A d \in Ctxs : ChildOf(ctx', vtx', d)
<1>0. /\ ShapeOf(C, V, P, b, T) /\ Row(V[c]) /\ DOMAIN C[c] = CFields
      /\ V[c][v].st \in {"ready", "running"}
  BY DEF Hold, ShapeOf, But
<1>1. Going(C, V, c)
  BY WhoWaits DEF Active
<1> DEFINE final == Code(v, code)
           y == IF final = "ok" THEN "OK" ELSE "ERR"
           done == [V[c] EXCEPT ![v] = [@ EXCEPT !.st = "done", !.code = final,
                                                 !.result = y]]
           now == [C[c] EXCEPT !.join = @ - 1,
                               !.exit = @ \/ (code = "err" /\ Decl(v).exits),
                               !.child = Children(v, V[c][v], @)]
           Joining(d) == Cardinality(Members(C[d].graph))
<1>2. V[c][v].st = "running" => final # "skip"
  BY DEF Code
<1>3. /\ done[v].st = "done" /\ done[v].code = final
      /\ done[v].sub = V[c][v].sub /\ done[v].open = V[c][v].open
      /\ \A u \in Vertices : u # v => done[u] = V[c][u]
      /\ Row(done)
  BY <1>0 DEF Row, VFields
<1>4. now.child = Children(v, V[c][v], C[c].child) /\ DOMAIN now = CFields
  BY <1>0 DEF CFields
<1> HIDE DEF done, now, final, y
<1>5. ASSUME NEW d \in Ctxs, ctx'[d].child = C[d].child, vtx'[d] = V[d]
      PROVE  ChildOf(ctx', vtx', d)
  BY <1>5, ChildSame
<1>6. CASE /\ ctx' = [C EXCEPT ![c] = now]
           /\ vtx' = [V EXCEPT ![c] = Notified(v, done)]
  <2>1. /\ ctx'[c] = now /\ vtx'[c] = Notified(v, done)
        /\ \A d \in Ctxs : d # c => ctx'[d] = C[d] /\ vtx'[d] = V[d]
    BY <1>0, <1>6 DEF ShapeOf
  <2>2. \A u \in Vertices :
          /\ vtx'[c][u].sub = done[u].sub /\ vtx'[c][u].open = done[u].open
          /\ vtx'[c][u].code = done[u].code
          /\ vtx'[c][u].st = IF v \in Decl(u).deps /\ \A d \in Decl(u).deps : done[d].st = "done"
                             THEN "ready" ELSE done[u].st
    BY <1>3, <2>1 DEF Notified, Row, VFields
  <2>3. \A u \in Vertices : v \in Decl(u).deps => V[c][u].st = "waiting" /\ u # v
    <3>1. C[c].graph \in DOMAIN Decls.graph /\ v \in Members(C[c].graph) /\ v \notin Decl(v).deps
      BY <1>0, <1>1, Built DEF Going
    <3> QED
      BY <1>0, <1>1, <3>1, Built DEF Going
  <2>4. ChildOf(ctx', vtx', c)
    <3>1. /\ ctx'[c].child = Children(v, V[c][v], C[c].child)
          /\ vtx'[c][v].st = "done" /\ (V[c][v].st = "running" => vtx'[c][v].code # "skip")
      BY <1>2, <1>3, <1>4, <2>1, <2>2, <2>3
    <3>2. ASSUME NEW u \in Vertices
          PROVE  /\ vtx'[c][u].sub = V[c][u].sub /\ vtx'[c][u].open = V[c][u].open
                 /\ u # v => /\ vtx'[c][u].code = V[c][u].code
                             /\ \/ vtx'[c][u].st = V[c][u].st
                                \/ V[c][u].st = "waiting" /\ vtx'[c][u].st = "ready"
      BY <1>3, <2>2, <2>3
    <3> QED
      BY <1>0, <1>1, <3>1, <3>2, ChildDone
  <2> QED
    BY <1>5, <2>1, <2>4
<1>7. CASE /\ ctx' = [C EXCEPT ![c] = [now EXCEPT !.ended = TRUE]]
           /\ vtx' = [V EXCEPT ![c] = done]
  <2> DEFINE r == [now EXCEPT !.ended = TRUE]
  <2>0. r.child = now.child
    BY <1>4 DEF CFields
  <2> HIDE DEF r
  <2>1. /\ ctx'[c] = r /\ vtx'[c] = done
        /\ \A d \in Ctxs : d # c => ctx'[d] = C[d] /\ vtx'[d] = V[d]
    BY <1>0, <1>7 DEF ShapeOf, r
  <2>2. ChildOf(ctx', vtx', c)
    <3>1. /\ ctx'[c].child = Children(v, V[c][v], C[c].child)
          /\ vtx'[c][v].st = "done" /\ (V[c][v].st = "running" => vtx'[c][v].code # "skip")
      BY <1>2, <1>3, <1>4, <2>0, <2>1
    <3>2. ASSUME NEW u \in Vertices
          PROVE  /\ vtx'[c][u].sub = V[c][u].sub /\ vtx'[c][u].open = V[c][u].open
                 /\ u # v => vtx'[c][u].code = V[c][u].code /\ vtx'[c][u].st = V[c][u].st
      BY <1>3, <2>1
    <3> QED
      BY <1>0, <1>1, <3>1, <3>2, ChildDone
  <2> QED
    BY <1>5, <2>1, <2>2
<1>8. CASE /\ ctx' = [d \in Ctxs |->
                        IF d = c THEN [now EXCEPT !.join = Joining(c), !.round = @ + 1]
                        ELSE IF d \in Below(c) THEN [C[d] EXCEPT !.join = Joining(d)]
                        ELSE C[d]]
           /\ vtx' = [d \in Ctxs |->
                        IF d = c THEN Started(C[c].graph, Rewound(done))
                        ELSE IF d \in Below(c) THEN Rewound(V[d]) ELSE V[d]]
  <2> DEFINE r == [now EXCEPT !.join = Joining(c), !.round = @ + 1]
             R == Started(C[c].graph, Rewound(done))
             q(d) == [C[d] EXCEPT !.join = Joining(d)]
  <2>0. r.child = now.child /\ DOMAIN now.child = Slots
    <3>1. DOMAIN C[c].child = Slots
      BY DEF ChildOf
    <3>2. DOMAIN now.child = Slots
      BY <1>4, <3>1 DEF Children
    <3> QED
      BY <1>4, <3>2 DEF CFields
  <2>1. ASSUME NEW d \in Ctxs
        PROVE  /\ q(d).child = C[d].child
               /\ \A u \in Vertices : Rewound(V[d])[u].st = "waiting" /\ Rewound(V[d])[u].code = None
    <3>1. DOMAIN C[d] = CFields /\ Row(V[d])
      BY <1>0 DEF ShapeOf
    <3> QED
      BY <3>1 DEF CFields, Rewound, Row, VFields
  <2>2. \A u \in Vertices : R[u].st \in {"ready", "waiting"} /\ R[u].code = None
    <3>1. /\ Row(Rewound(done))
          /\ \A u \in Vertices : Rewound(done)[u].st = "waiting" /\ Rewound(done)[u].code = None
      BY <1>3 DEF Rewound, Row, VFields
    <3> QED
      BY <3>1 DEF Started, Row, VFields
  <2>3. \A d \in Ctxs :
          /\ ctx'[d] = IF d = c THEN r ELSE IF d \in Below(c) THEN q(d) ELSE C[d]
          /\ vtx'[d] = IF d = c THEN R
                       ELSE IF d \in Below(c) THEN Rewound(V[d]) ELSE V[d]
    BY <1>8
  <2> HIDE DEF r, R, q
  <2>4. None # "skip"
    BY ClusterAssumption
  <2> SUFFICES ASSUME NEW d \in Ctxs
               PROVE  ChildOf(ctx', vtx', d)
    OBVIOUS
  <2>5. CASE d = c
    <3>1. /\ DOMAIN ctx'[d].child = Slots
          /\ \A u \in Vertices : vtx'[d][u].st # "done" /\ vtx'[d][u].code # "skip"
      BY <2>0, <2>2, <2>3, <2>4, <2>5
    <3> QED
      BY <3>1, ChildNone
  <2>6. CASE d # c /\ d \in Below(c)
    <3>1. DOMAIN C[d].child = Slots
      BY DEF ChildOf
    <3>2. /\ DOMAIN ctx'[d].child = Slots
          /\ \A u \in Vertices : vtx'[d][u].st # "done" /\ vtx'[d][u].code # "skip"
      BY <2>1, <2>3, <2>4, <2>6, <3>1
    <3> QED
      BY <3>2, ChildNone
  <2>7. CASE d # c /\ d \notin Below(c)
    BY <1>5, <2>3, <2>7
  <2> QED
    BY <2>5, <2>6, <2>7
<1> QED
  BY <1>6, <1>7, <1>8 DEF FinishVertex, done, now, final, y

LEMMA KPrimed ==
  ASSUME design' = design, \A c \in Ctxs : ChildOf(ctx', vtx', c)
  PROVE  KInv'
<1>1. \A v : Decl(v)' = Decl(v)
  BY DEF Decl, Decls
<1>2. \A c, v : Kept(ctx', vtx', c, v) => Kept(ctx, vtx, c, v)'
  BY <1>1 DEF Kept
<1>3. \A c \in Ctxs : ChildOf(ctx, vtx, c)'
  BY <1>2 DEF ChildOf
<1> QED
  BY <1>3 DEF KInv

LEMMA LentChildren ==
  ASSUME IInv, LInv, KInv, NEW c \in Ctxs, NEW v \in Vertices, vtx[c][v].st = "ready",
         NEW s \in Ctxs \cup {0}, Borrow(c, v, s)
  PROVE  \A d \in Ctxs : ChildOf(Lent(v, s), Holding(c, v, s), d)
<1> DEFINE C == Lent(v, s)  V == Holding(c, v, s)
<1>0. ShapeOf(ctx, vtx, pool, born, top) /\ Row(vtx[c])
  BY DEF IInv, Hold, ShapeOf
<1>1. \A d \in Ctxs, u \in Vertices :
        /\ V[d][u].sub = IF d = c /\ u = v THEN s ELSE vtx[d][u].sub
        /\ V[d][u].open = vtx[d][u].open /\ V[d][u].st = vtx[d][u].st
  BY Lend
<1>2. \A d \in Ctxs, u \in Vertices : V[d][u].code = vtx[d][u].code
  <2> DEFINE r == [vtx[c][v] EXCEPT !.sub = s]
  <2>1. V = [vtx EXCEPT ![c] = [vtx[c] EXCEPT ![v] = r]]
    BY DEF Holding
  <2>2. r.code = vtx[c][v].code
    BY <1>0 DEF Row, VFields
  <2> HIDE DEF r, V
  <2> QED
    BY <1>0, <2>1, <2>2 DEF ShapeOf, Row
<1>3. \A d \in Ctxs : C[d].child = ctx[d].child
  <2>1. CASE s = 0
    BY <2>1 DEF Lent
  <2>2. CASE s # 0
    <3> DEFINE r == [ctx[s] EXCEPT !.cluster = Decl(v).cluster]
    <3>1. r.child = ctx[s].child
      BY <1>0, <2>2 DEF ShapeOf, CFields
    <3>2. C = [ctx EXCEPT ![s] = r]
      BY <2>2 DEF Lent
    <3> HIDE DEF r, C
    <3> QED
      BY <1>0, <3>1, <3>2 DEF ShapeOf
  <2> QED
    BY <2>1, <2>2
<1> HIDE DEF C, V
<1>4. ASSUME NEW d \in Ctxs
      PROVE  ChildOf(C, V, d)
  <2>1. ChildOf(ctx, vtx, d) /\ C[d].child = ctx[d].child
    BY <1>3 DEF KInv
  <2>2. ASSUME NEW u \in Vertices
        PROVE  /\ V[d][u].st = vtx[d][u].st /\ V[d][u].code = vtx[d][u].code
               /\ V[d][u].open /\ V[d][u].st = "done" =>
                    vtx[d][u].open /\ V[d][u].sub = vtx[d][u].sub
    BY <1>1, <1>2
  <2> QED
    BY <2>1, <2>2, ChildSame
<1> QED
  BY <1>4 DEF C, V

LEMMA LentFinishChildren ==
  ASSUME IInv, LInv, KInv, NEW c \in Ctxs, NEW v \in Vertices, vtx[c][v].st = "ready",
         NEW s \in Ctxs \cup {0}, Borrow(c, v, s), NEW code,
         FinishVertex(c, v, code, Lent(v, s), Holding(c, v, s)),
         UNCHANGED <<design, loaded, top, call, late>>
  PROVE  KInv'
<1> DEFINE C == Lent(v, s)  V == Holding(c, v, s)
<1>1. /\ Hold(C, V, pool', born', top) /\ V[c][v].st = "ready"
      /\ design \in DOMAIN Designs /\ Reported(top, call)
  BY Lend, CallsReported DEF LInv
<1>2. Levels(C, V, top, call) /\ SameOpen(V)
  BY LentLevels
<1>3. \A d \in Ctxs : ChildOf(C, V, d)
  BY LentChildren
<1>4. FinishVertex(c, v, code, C, V)
  OBVIOUS
<1> HIDE DEF C, V
<1>5. But(C, V, top, call, c, v)
  BY <1>1, <1>2, ReadyBut
<1>6. \A d \in Ctxs : ChildOf(ctx', vtx', d)
  BY <1>1, <1>2, <1>3, <1>4, <1>5, FinishChildren
<1> QED
  BY <1>6, KPrimed

\* The vertex v of c runs; child 0 may be the graph it started.
LEMMA ChildRuns ==
  ASSUME NEW C, NEW V, NEW D, NEW W, NEW c \in Ctxs, NEW v \in Vertices, ChildOf(C, V, c),
         V[c][v].st = "ready", W[c][v].st = "running", W[c][v].code = V[c][v].code,
         \A u \in Vertices : u # v => W[c][u] = V[c][u],
         \/ D[c].child = C[c].child
         \/ /\ Decl(v).cluster # None /\ DOMAIN D[c].child = Slots
            /\ \A i \in Slots : i # 0 => D[c].child[i] = C[c].child[i],
         \A u \in Vertices : V[c][u].open => Decl(u).slot \in Slots
  PROVE  ChildOf(D, W, c)
<1>1. \A u \in Vertices : W[c][u].st # "done" => W[c][u].code # "skip"
  BY DEF ChildOf
<1>2. DOMAIN D[c].child = Slots /\ W[c][v].code # "skip"
  BY DEF ChildOf
<1>3. ASSUME NEW u \in Vertices, W[c][u].open, W[c][u].st = "done"
      PROVE  Kept(D, W, c, u)
  <2>1. u # v /\ Kept(C, V, c, u) /\ W[c][u] = V[c][u] /\ Decl(u).slot \in Slots
    BY <1>3 DEF ChildOf
  <2>2. CASE Decl(u).slot = 0 /\ Decl(v).cluster # None
    BY <1>2, <2>1, <2>2 DEF Kept
  <2>3. CASE /\ C[c].child[Decl(u).slot] = V[c][u].sub
             /\ Decl(u).slot # 0 \/ Decl(v).cluster = None
    BY <2>1, <2>3 DEF Kept
  <2>4. CASE Decl(u).slot = 0 /\ \E w \in Vertices \ {u} :
               /\ Decl(w).cluster # None /\ V[c][w].st \in {"running", "done"}
               /\ V[c][w].code # "skip"
    <3>1. PICK w \in Vertices \ {u} :
            /\ Decl(w).cluster # None /\ V[c][w].st \in {"running", "done"}
            /\ V[c][w].code # "skip"
      BY <2>4
    <3>2. w # v /\ W[c][w] = V[c][w]
      BY <3>1
    <3> QED
      BY <2>4, <3>1, <3>2 DEF Kept
  <2> QED
    BY <2>1, <2>2, <2>3, <2>4 DEF Kept
<1> QED
  BY <1>1, <1>2, <1>3 DEF ChildOf

LEMMA SlotOpen ==
  ASSUME IInv, LInv
  PROVE  \A c \in Ctxs, u \in Vertices : vtx[c][u].open => Decl(u).slot \in Slots
<1>1. \A c \in Ctxs, u \in Vertices : vtx[c][u].open => Decl(u).cluster \in Clusters
  BY DEF IInv, Hold, OpenOf, SubOf
<1> QED
  BY <1>1, Built, ClusterAssumption DEF LInv

LEMMA ExecuteProcessorChildren ==
  ASSUME IInv, LInv, KInv, NEW c \in Ctxs, NEW v \in Vertices, ExecuteProcessor(c, v)
  PROVE  KInv'
<1>0. ShapeOf(ctx, vtx, pool, born, top) /\ Row(vtx[c])
  BY DEF IInv, Hold, ShapeOf
<1>1. ctx' = ctx /\ design' = design /\ vtx[c][v].st = "ready"
  BY DEF ExecuteProcessor
<1> DEFINE r == [vtx[c][v] EXCEPT !.st = "running", !.using = Selected(c, v)]
<1>2. vtx' = [vtx EXCEPT ![c] = [vtx[c] EXCEPT ![v] = r]]
  BY DEF ExecuteProcessor
<1>3. r.st = "running" /\ r.code = vtx[c][v].code
  BY <1>0 DEF Row, VFields
<1> HIDE DEF r
<1>4. /\ vtx'[c][v] = r /\ \A u \in Vertices : u # v => vtx'[c][u] = vtx[c][u]
      /\ \A d \in Ctxs : d # c => vtx'[d] = vtx[d]
  BY <1>0, <1>2 DEF ShapeOf, Row
<1>5. ChildOf(ctx', vtx', c)
  BY <1>1, <1>3, <1>4, ChildRuns, SlotOpen DEF KInv
<1>6. ASSUME NEW d \in Ctxs, d # c
      PROVE  ChildOf(ctx', vtx', d)
  <2>1. ChildOf(ctx, vtx, d) /\ ctx'[d] = ctx[d] /\ vtx'[d] = vtx[d]
    BY <1>1, <1>4, <1>6 DEF KInv
  <2> QED
    BY <2>1, ChildSame
<1> QED
  BY <1>1, <1>5, <1>6, KPrimed

LEMMA FirstRoundChildren ==
  ASSUME IInv, LInv, KInv, NEW c \in Ctxs, NEW v \in Vertices, vtx[c][v].st = "ready",
         NEW s \in Ctxs, Borrow(c, v, s), ~vtx[c][v].open, FirstRound(c, v, s),
         Decl(v).cluster # None, UNCHANGED <<design, loaded, top, call, late>>
  PROVE  KInv'
<1> DEFINE V == Holding(c, v, s)  g == Decl(v).graph
<1>0. /\ ShapeOf(ctx, vtx, pool, born, top) /\ Row(vtx[c]) /\ DOMAIN ctx[c] = CFields
      /\ s # 0 /\ ChildOf(ctx, vtx, c)
  BY Constants DEF IInv, Hold, ShapeOf, KInv
<1>1. vtx[s] = FreshVertices /\ s # c
  <2>1. /\ Hold(Lent(v, s), V, pool', born', top) /\ V[c][v].sub = s /\ ~V[c][v].open
        /\ V[c][v].st = "ready"
    BY Lend
  <2> HIDE DEF V
  <2>2. V[s] = FreshVertices
    BY <1>0, <2>1 DEF Hold, OpenOf
  <2>3. s # c
    BY <2>1, <2>2, FreshShape
  <2> QED
    BY <1>0, <2>2, <2>3 DEF V, Holding, ShapeOf
<1> DEFINE B == Begun(s, Decl(v).cluster, g, Args(c, v, Selected(c, v)), ctx[c].end, c)
           k == [ctx[c] EXCEPT !.child[0] = s]
           r == [vtx[c][v] EXCEPT !.st = "running", !.sub = s, !.open = TRUE,
                                  !.using = Selected(c, v)]
           R == [vtx[c] EXCEPT ![v] = r]
<1>2. /\ ctx' = [[ctx EXCEPT ![c] = k] EXCEPT ![s] = B]
      /\ vtx' = [[vtx EXCEPT ![c] = R] EXCEPT ![s] = Started(g, vtx[s])]
  BY <1>0, <1>1 DEF FirstRound, ShapeOf
<1>3. DOMAIN B.child = Slots
  BY DEF Begun, FreshContext
<1>4. DOMAIN k.child = Slots /\ \A i \in Slots : i # 0 => k.child[i] = ctx[c].child[i]
  <2>1. k.child = [ctx[c].child EXCEPT ![0] = s] /\ DOMAIN ctx[c].child = Slots
    BY <1>0 DEF CFields, ChildOf
  <2> QED
    BY <2>1
<1>5. r.st = "running" /\ r.code = vtx[c][v].code
  BY <1>0 DEF Row, VFields
<1> HIDE DEF B, k, r, g
<1>6. /\ ctx'[s] = B /\ ctx'[c] = k /\ vtx'[s] = Started(g, vtx[s])
      /\ vtx'[c][v] = r /\ \A u \in Vertices : u # v => vtx'[c][u] = vtx[c][u]
      /\ \A d \in Ctxs : d \notin {c, s} => ctx'[d] = ctx[d] /\ vtx'[d] = vtx[d]
  BY <1>0, <1>1, <1>2 DEF ShapeOf, Row
<1>7. ChildOf(ctx', vtx', c)
  <2>1. /\ vtx'[c][v].st = "running" /\ vtx'[c][v].code = vtx[c][v].code
        /\ DOMAIN ctx'[c].child = Slots
        /\ \A i \in Slots : i # 0 => ctx'[c].child[i] = ctx[c].child[i]
    BY <1>4, <1>5, <1>6
  <2>2. \A u \in Vertices : vtx[c][u].open => Decl(u).slot \in Slots
    BY SlotOpen
  <2> QED
    BY <1>0, <1>6, <2>1, <2>2, ChildRuns
<1>8. ChildOf(ctx', vtx', s)
  <2>1. \A u \in Vertices : /\ FreshVertices[u].st = "waiting" /\ FreshVertices[u].code = None
                            /\ DOMAIN FreshVertices[u] = VFields
    BY DEF FreshVertices, FreshVertex, VFields
  <2>2. \A u \in Vertices : vtx'[s][u].st \in {"waiting", "ready"} /\ vtx'[s][u].code = None
    BY <1>1, <1>6, <2>1 DEF Started, VFields
  <2>3. None # "skip" /\ DOMAIN ctx'[s].child = Slots
    BY <1>3, <1>6, ClusterAssumption
  <2> QED
    BY <2>2, <2>3, ChildNone
<1>9. ASSUME NEW d \in Ctxs, d \notin {c, s}
      PROVE  ChildOf(ctx', vtx', d)
  <2>1. ChildOf(ctx, vtx, d) /\ ctx'[d] = ctx[d] /\ vtx'[d] = vtx[d]
    BY <1>6, <1>9 DEF KInv
  <2> QED
    BY <2>1, ChildSame
<1> QED
  BY <1>7, <1>8, <1>9, KPrimed

LEMMA StartedCodes ==
  ASSUME NEW R, Row(R), NEW g,
         \A u \in Vertices : R[u].st = "waiting" /\ R[u].code # "skip"
  PROVE  \A u \in Vertices : Started(g, R)[u].st # "done" /\ Started(g, R)[u].code # "skip"
  BY DEF Started, Row, VFields

LEMMA NextRoundChildren ==
  ASSUME IInv, LInv, KInv, NEW c \in Ctxs, NEW v \in Vertices, vtx[c][v].st = "ready",
         NEW s \in Ctxs, Borrow(c, v, s), vtx[c][v].open, NextRound(c, v, s),
         UNCHANGED <<design, loaded, top, call, late>>
  PROVE  KInv'
<1> DEFINE g == Decl(v).graph
<1>0. /\ ShapeOf(ctx, vtx, pool, born, top) /\ OpenOf(ctx, vtx)
      /\ Row(vtx[c]) /\ Row(vtx[s]) /\ DOMAIN ctx[s] = CFields
      /\ Levels(ctx, vtx, top, call) /\ ChildOf(ctx, vtx, c) /\ ChildOf(ctx, vtx, s)
  BY DEF IInv, Hold, LInv, ShapeOf, KInv
<1>1. vtx[c][v].sub # 0 /\ s = vtx[c][v].sub
  BY <1>0 DEF OpenOf, Borrow
<1>2. Unused(ctx, vtx, s)
  <2>1. SubLevel(ctx, vtx, c, v)
    BY <1>0 DEF Levels
  <2> QED
    BY <1>1, <2>1 DEF SubLevel
<1>3. s # c
  BY <1>2, NotAtRest
<1> DEFINE q == [ctx[s] EXCEPT !.round = 1]
           r == [vtx[c][v] EXCEPT !.st = "running", !.using = Selected(c, v)]
           R == [vtx[c] EXCEPT ![v] = r]
<1>4. ctx' = [ctx EXCEPT ![s] = q] /\ vtx' = [[vtx EXCEPT ![c] = R] EXCEPT ![s] = Started(g, vtx[s])]
  <2> DEFINE W == [vtx EXCEPT ![c][v].st = "running", ![c][v].using = Selected(c, v)]
  <2>1. ctx' = [ctx EXCEPT ![s] = q] /\ vtx' = [W EXCEPT ![s] = Started(g, W[s])]
    BY DEF NextRound
  <2>2. W = [vtx EXCEPT ![c] = R]
    OBVIOUS
  <2> HIDE DEF W, R, q, g
  <2>3. W[s] = vtx[s]
    BY <1>0, <1>3, <2>2 DEF ShapeOf
  <2> QED
    BY <2>1, <2>2, <2>3
<1>5. q.child = ctx[s].child
  BY <1>0 DEF CFields
<1>6. r.st = "running" /\ r.code = vtx[c][v].code
  BY <1>0 DEF Row, VFields
<1> HIDE DEF q, r, g
<1>7. /\ ctx'[s] = q /\ ctx'[c] = ctx[c] /\ vtx'[s] = Started(g, vtx[s])
      /\ vtx'[c][v] = r /\ \A u \in Vertices : u # v => vtx'[c][u] = vtx[c][u]
      /\ \A d \in Ctxs : d \notin {c, s} => ctx'[d] = ctx[d] /\ vtx'[d] = vtx[d]
  BY <1>0, <1>3, <1>4 DEF ShapeOf, Row
<1>8. ChildOf(ctx', vtx', c)
  <2>1. /\ vtx'[c][v].st = "running" /\ vtx'[c][v].code = vtx[c][v].code
        /\ ctx'[c].child = ctx[c].child
    BY <1>6, <1>7
  <2>2. \A u \in Vertices : vtx[c][u].open => Decl(u).slot \in Slots
    BY SlotOpen
  <2> QED
    BY <1>0, <1>7, <2>1, <2>2, ChildRuns
<1>9. ChildOf(ctx', vtx', s)
  <2>1. \A u \in Vertices : vtx[s][u].st = "waiting" /\ vtx[s][u].code # "skip"
    BY <1>0, <1>2 DEF Unused, ChildOf
  <2>2. \A u \in Vertices : vtx'[s][u].st # "done" /\ vtx'[s][u].code # "skip"
    BY <1>0, <1>7, <2>1, StartedCodes
  <2>3. DOMAIN ctx'[s].child = Slots
    BY <1>0, <1>5, <1>7 DEF ChildOf
  <2> QED
    BY <2>2, <2>3, ChildNone
<1>10. ASSUME NEW d \in Ctxs, d \notin {c, s}
       PROVE  ChildOf(ctx', vtx', d)
  <2>1. ChildOf(ctx, vtx, d) /\ ctx'[d] = ctx[d] /\ vtx'[d] = vtx[d]
    BY <1>7, <1>10 DEF KInv
  <2> QED
    BY <2>1, ChildSame
<1> QED
  BY <1>8, <1>9, <1>10, KPrimed

LEMMA ExecuteChildren ==
  ASSUME IInv, LInv, KInv, NEW c \in Ctxs, NEW v \in Vertices,
         ExecuteSkipped(c, v) \/ ExecuteSubGraph(c, v)
  PROVE  KInv'
<1>1. CASE ExecuteSkipped(c, v)
  BY <1>1, LentFinishChildren DEF ExecuteSkipped
<1>2. CASE ExecuteSubGraph(c, v)
  <2>1. PICK s \in Ctxs :
          /\ Borrow(c, v, s)
          /\ \/ vtx[c][v].open /\ NextRound(c, v, s)
             \/ ~vtx[c][v].open /\ FirstRound(c, v, s)
             \/ NoGraph(c, v, s)
    BY <1>2 DEF ExecuteSubGraph
  <2>2. /\ vtx[c][v].st = "ready" /\ Decl(v).cluster # None
        /\ UNCHANGED <<design, loaded, top, call, late>>
    BY <1>2 DEF ExecuteSubGraph
  <2>3. CASE vtx[c][v].open /\ NextRound(c, v, s)
    BY <2>1, <2>2, <2>3, NextRoundChildren
  <2>4. CASE ~vtx[c][v].open /\ FirstRound(c, v, s)
    BY <2>1, <2>2, <2>4, FirstRoundChildren
  <2>5. CASE NoGraph(c, v, s)
    BY <2>1, <2>2, <2>5, LentFinishChildren DEF NoGraph
  <2> QED
    BY <2>1, <2>3, <2>4, <2>5
<1> QED
  BY <1>1, <1>2

LEMMA ReturnChildren ==
  ASSUME IInv, LInv, KInv, NEW c \in Ctxs, NEW v \in Vertices, NEW code \in {"ok", "err"},
         Return(c, v, code)
  PROVE  KInv'
<1>1. /\ Hold(ctx, vtx, pool, born, top) /\ SubOf(vtx, pool, born) /\ OpenOf(ctx, vtx)
      /\ design \in DOMAIN Designs /\ Levels(ctx, vtx, top, call)
      /\ \A d \in Ctxs : ChildOf(ctx, vtx, d)
  BY DEF IInv, Hold, LInv, KInv
<1>2. /\ vtx[c][v].st = "running" /\ Decl(v).cluster = None
      /\ FinishVertex(c, v, code, ctx, vtx) /\ UNCHANGED <<design, top, call>>
  BY DEF Return
<1>3. vtx[c][v].sub = 0 /\ ~vtx[c][v].open
  BY <1>1, <1>2, ClusterAssumption DEF SubOf, OpenOf
<1>4. But(ctx, vtx, top, call, c, v)
  BY <1>1, <1>2, <1>3 DEF But, Levels
<1>5. SameOpen(vtx)
  BY DEF SameOpen
<1>6. \A d \in Ctxs : ChildOf(ctx', vtx', d)
  BY <1>1, <1>2, <1>4, <1>5, FinishChildren, CallsReported
<1> QED
  BY <1>2, <1>6, KPrimed

\* A context with its end reported has the children it had.
LEMMA EndChildren ==
  ASSUME Hold(ctx, vtx, pool, born, top), KInv, NEW s \in Ctxs
  PROVE  \A d \in Ctxs : ChildOf([ctx EXCEPT ![s].ended = FALSE], vtx, d)
<1> DEFINE r == [ctx[s] EXCEPT !.ended = FALSE]  C == [ctx EXCEPT ![s].ended = FALSE]
<1>0. ShapeOf(ctx, vtx, pool, born, top) /\ DOMAIN ctx[s] = CFields
  BY DEF Hold, ShapeOf
<1>1. r.child = ctx[s].child /\ C = [ctx EXCEPT ![s] = r]
  BY <1>0 DEF CFields
<1> HIDE DEF r, C
<1>2. \A d \in Ctxs : C[d].child = ctx[d].child
  BY <1>0, <1>1 DEF ShapeOf
<1>3. ASSUME NEW d \in Ctxs
      PROVE  ChildOf(C, vtx, d)
  <2>1. ChildOf(ctx, vtx, d) /\ C[d].child = ctx[d].child
    BY <1>2 DEF KInv
  <2> QED
    BY <2>1, ChildSame
<1> QED
  BY <1>3 DEF C

LEMMA SubGraphDoneChildren ==
  ASSUME IInv, LInv, KInv, NEW c \in Ctxs, NEW v \in Vertices, SubGraphDone(c, v)
  PROVE  KInv'
<1> DEFINE s == vtx[c][v].sub  C == [ctx EXCEPT ![s].ended = FALSE]
<1>1. PICK code \in {"ok", "err"} : FinishVertex(c, v, code, C, vtx)
  BY DEF SubGraphDone
<1>2. design \in DOMAIN Designs /\ UNCHANGED <<design, top, call>>
  BY DEF SubGraphDone, LInv
<1>3. Hold(C, vtx, pool, born, top) /\ But(C, vtx, top, call, c, v)
  BY EndBut
<1>4. \A d \in Ctxs : ChildOf(C, vtx, d)
  <2>1. Hold(ctx, vtx, pool, born, top) /\ vtx[c][v].open
    BY DEF IInv, SubGraphDone
  <2>2. s \in Ctxs
    BY <2>1 DEF Hold, OpenOf, ShapeOf
  <2> QED
    BY <2>1, <2>2, EndChildren
<1> HIDE DEF C
<1>5. SameOpen(vtx)
  BY DEF SameOpen
<1>6. \A d \in Ctxs : ChildOf(ctx', vtx', d)
  BY <1>1, <1>2, <1>3, <1>4, <1>5, FinishChildren, CallsReported
<1> QED
  BY <1>2, <1>6, KPrimed

LEMMA GraphDoneChildren ==
  ASSUME IInv, LInv, KInv, NEW e \in Calls, GraphDone(e)
  PROVE  KInv'
<1>1. /\ Hold(ctx, vtx, pool, born, top) /\ call[e] = "running"
      /\ UNCHANGED <<design, vtx>> /\ ctx' = [ctx EXCEPT ![top[e]].ended = FALSE]
  BY DEF IInv, GraphDone
<1>2. top[e] \in Ctxs
  BY <1>1 DEF IInv, CallInv, Hold, ShapeOf
<1>3. \A d \in Ctxs : ChildOf(ctx', vtx', d)
  BY <1>1, <1>2, EndChildren
<1> QED
  BY <1>1, <1>3, KPrimed

LEMMA FreshCodes ==
  /\ Row(FreshVertices) /\ \A k : DOMAIN FreshContext(k).child = Slots
  /\ \A u \in Vertices : FreshVertices[u].st = "waiting" /\ FreshVertices[u].code # "skip"
<1>1. None # "skip"
  BY ClusterAssumption
<1> QED
  BY <1>1 DEF FreshVertices, FreshVertex, FreshContext, Row, VFields

LEMMA CallChildren ==
  ASSUME IInv, LInv, KInv, NEW e \in Calls, Execute(e)
  PROVE  KInv'
<1> DEFINE B(s) == Begun(s, "top", "main", CallArgs(e), IF e \in Timed THEN e ELSE None, 0)
<1>0. /\ ShapeOf(ctx, vtx, pool, born, top) /\ PoolOf(pool, born)
      /\ UsedOf(ctx, vtx, pool, born, top)
  BY DEF IInv, Hold
<1>1. PICK s \in Ctxs : /\ GetContext("top", s)
                        /\ ctx' = [ctx EXCEPT ![s] = B(s)]
                        /\ vtx' = [vtx EXCEPT ![s] = Started("main", vtx[s])]
  BY <1>0 DEF Execute
<1>2. vtx[s] = FreshVertices
  <2>1. pool \in [Clusters -> Seq(Ctxs)] /\ born \in 0..MaxCtxs /\ "top" \in Clusters
    BY <1>0, ClusterAssumption DEF ShapeOf
  <2>2. Idle(pool, born, s)
    BY <1>0, <1>1, <2>1, Got
  <2> QED
    BY <1>0, <2>2 DEF UsedOf
<1>3. DOMAIN B(s).child = Slots
  BY DEF Begun, FreshContext
<1> HIDE DEF B
<1>4. /\ ctx'[s] = B(s) /\ \A d \in Ctxs : d # s => ctx'[d] = ctx[d]
      /\ vtx'[s] = Started("main", vtx[s]) /\ \A d \in Ctxs : d # s => vtx'[d] = vtx[d]
  BY <1>0, <1>1 DEF ShapeOf
<1>5. ChildOf(ctx', vtx', s)
  <2>1. \A u \in Vertices : vtx'[s][u].st # "done" /\ vtx'[s][u].code # "skip"
    BY <1>2, <1>4, FreshCodes, StartedCodes
  <2>2. DOMAIN ctx'[s].child = Slots
    BY <1>3, <1>4
  <2> QED
    BY <2>1, <2>2, ChildNone
<1>6. ASSUME NEW d \in Ctxs, d # s
      PROVE  ChildOf(ctx', vtx', d)
  <2>1. ChildOf(ctx, vtx, d) /\ ctx'[d] = ctx[d] /\ vtx'[d] = vtx[d]
    BY <1>4, <1>6 DEF KInv
  <2> QED
    BY <2>1, ChildSame
<1>7. design' = design
  BY DEF Execute
<1> QED
  BY <1>5, <1>6, <1>7, KPrimed

LEMMA ReleaseChildren ==
  ASSUME IInv, LInv, KInv, NEW e \in Calls, Release(e)
  PROVE  KInv'
<1>0. ShapeOf(ctx, vtx, pool, born, top) /\ TopOf(ctx, vtx, pool, born, top)
  BY SMTT(30) DEF IInv, Hold
<1>1. PICK c \in Under(top[e]) :
        /\ ctx' = [ctx EXCEPT ![c] = FreshContext(None)]
        /\ vtx' = [d \in Ctxs |->
                     IF d = c THEN FreshVertices
                     ELSE [v \in Vertices |->
                             IF vtx[d][v].sub = c
                             THEN [vtx[d][v] EXCEPT !.sub = 0, !.open = FALSE]
                             ELSE vtx[d][v]]]
  BY DEF Release
<1>2. design' = design /\ c \in Ctxs
  BY <1>1 DEF Release, Under
<1>3. ctx'[c] = FreshContext(None) /\ \A d \in Ctxs : d # c => ctx'[d] = ctx[d]
  BY <1>0, <1>1, <1>2 DEF ShapeOf
<1>4. /\ vtx'[c] = FreshVertices
      /\ \A d \in Ctxs, u \in Vertices : d # c =>
           /\ vtx'[d][u].st = vtx[d][u].st /\ vtx'[d][u].code = vtx[d][u].code
           /\ vtx'[d][u].open => vtx'[d][u] = vtx[d][u]
  <2>1. \A d \in Ctxs, u \in Vertices :
          LET r == [vtx[d][u] EXCEPT !.sub = 0, !.open = FALSE]
          IN r.open = FALSE /\ r.st = vtx[d][u].st /\ r.code = vtx[d][u].code
    BY <1>0 DEF ShapeOf, Row, VFields
  <2>2. \A d \in Ctxs, u \in Vertices : d # c =>
          vtx'[d][u] = IF vtx[d][u].sub = c
                       THEN [vtx[d][u] EXCEPT !.sub = 0, !.open = FALSE]
                       ELSE vtx[d][u]
    BY <1>1
  <2> QED
    BY <1>1, <1>2, <2>1, <2>2
<1>5. ChildOf(ctx', vtx', c)
  <2>1. \A u \in Vertices : vtx'[c][u].st # "done" /\ vtx'[c][u].code # "skip"
    BY <1>4, FreshCodes
  <2>2. DOMAIN ctx'[c].child = Slots
    BY <1>3, FreshCodes
  <2> QED
    BY <2>1, <2>2, ChildNone
<1>6. ASSUME NEW d \in Ctxs, d # c
      PROVE  ChildOf(ctx', vtx', d)
  <2>1. ChildOf(ctx, vtx, d) /\ ctx'[d].child = ctx[d].child
    BY <1>3, <1>6 DEF KInv
  <2>2. ASSUME NEW u \in Vertices
        PROVE  /\ vtx'[d][u].st = vtx[d][u].st /\ vtx'[d][u].code = vtx[d][u].code
               /\ vtx'[d][u].open /\ vtx'[d][u].st = "done" =>
                    vtx[d][u].open /\ vtx'[d][u].sub = vtx[d][u].sub
    BY <1>4, <1>6
  <2> QED
    BY <2>1, <2>2, ChildSame
<1> QED
  BY <1>2, <1>5, <1>6, KPrimed

LEMMA OtherChildren ==
  ASSUME KInv,
         \/ \E e \in Calls : Expire(e)
         \/ \E k \in Clusters : Load(k)
         \/ Terminated
         \/ UNCHANGED vars
  PROVE  KInv'
<1>1. UNCHANGED <<design, ctx, vtx>>
  BY DEF Expire, Load, Terminated, vars
<1>2. \A c \in Ctxs : ChildOf(ctx', vtx', c)
  BY <1>1 DEF KInv
<1> QED
  BY <1>1, <1>2, KPrimed

LEMMA InitChildren ==
  ASSUME Init
  PROVE  KInv
<1> SUFFICES ASSUME NEW c \in Ctxs
             PROVE  ChildOf(ctx, vtx, c)
  BY DEF KInv
<1>1. ctx[c] = FreshContext(None) /\ vtx[c] = FreshVertices
  BY DEF Init
<1>2. /\ DOMAIN ctx[c].child = Slots
      /\ \A u \in Vertices : vtx[c][u].st # "done" /\ vtx[c][u].code # "skip"
  BY <1>1, FreshCodes
<1> QED
  BY <1>2, ChildNone

LEMMA NextChildren ==
  ASSUME IInv, LInv, KInv, [Next]_vars
  PROVE  KInv'
<1>1. CASE \E c \in Ctxs, v \in Vertices :
             \/ ExecuteSkipped(c, v) \/ ExecuteProcessor(c, v) \/ ExecuteSubGraph(c, v)
             \/ \E code \in {"ok", "err"} : Return(c, v, code)
             \/ SubGraphDone(c, v)
  BY <1>1, ExecuteChildren, ExecuteProcessorChildren, ReturnChildren, SubGraphDoneChildren
<1>2. CASE \E e \in Calls : Execute(e) \/ GraphDone(e) \/ Release(e)
  BY <1>2, CallChildren, GraphDoneChildren, ReleaseChildren
<1>3. CASE \/ \E e \in Calls : Expire(e)
           \/ \E k \in Clusters : Load(k)
           \/ Terminated
           \/ UNCHANGED vars
  BY <1>3, OtherChildren
<1> QED
  BY <1>1, <1>2, <1>3 DEF Next

\* A subgraph of a vertex that is done is in the vertex's own position among the
\* children of the graph's data context (GraphDataContext::SetChild), unless the
\* position is 0 and another subgraph ran in this round.
THEOREM ChildInvariance == Spec => [](IInv /\ LInv /\ KInv)
  BY InitHolds, NextStep, InitLevels, NextLevels, InitChildren, NextChildren, PTL DEF Spec

LEMMA ChildrenReached ==
  ASSUME IInv, LInv, KInv
  PROVE  ChildReachable
<1> SUFFICES ASSUME NEW c \in 1..born, NEW v \in Vertices,
                    vtx[c][v].open, vtx[c][v].st = "done"
             PROVE  \/ \E i \in Slots : ctx[c].child[i] = vtx[c][v].sub
                    \/ Decl(v).slot = 0 /\ \E u \in Vertices \ {v} :
                         /\ Decl(u).cluster # None /\ vtx[c][u].st \in {"running", "done"}
                         /\ vtx[c][u].code # "skip"
  BY DEF ChildReachable
<1>1. c \in Ctxs
  BY Constants DEF IInv, Hold, ShapeOf
<1>2. Kept(ctx, vtx, c, v) /\ Decl(v).slot \in Slots
  BY <1>1, SlotOpen DEF KInv, ChildOf
<1> QED
  BY <1>2 DEF Kept

\* What a subgraph made stays reachable from the graph around it until the
\* release (SetChild in VertexContext::FinishVertexProcess), except that child 0
\* may be overwritten by a subgraph started later (GetRunGraph).
THEOREM ChildReachableHolds == Spec => []ChildReachable
  BY ChildInvariance, ChildrenReached, PTL
=============================================================================
