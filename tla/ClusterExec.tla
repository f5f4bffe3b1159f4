---------------------------- MODULE ClusterExec -----------------------------
(***************************************************************************)
(* Executions that span clusters, in the C++ engine: a vertex may run a    *)
(* graph of another cluster (or of its own, as a generated while graph     *)
(* does) in a context it borrows from that cluster's pool and keeps until  *)
(* the execution is released. Modelled are the contexts and who holds      *)
(* them, the state they carry from round to round and from one execution   *)
(* to the next, and what passes down: parameters, config settings, the end *)
(* time and the data contexts of the children (cluster_context.cpp,        *)
(* vertex_context.cpp, params.cpp).                                        *)
(*                                                                         *)
(* The threads and counters of one graph are GraphExec's matter: here a    *)
(* vertex is ready when its dependencies are done. Reloads and the life of *)
(* the caller's data context are GraphStore's.                             *)
(***************************************************************************)
EXTENDS Integers, Sequences, FiniteSets, FiniteSetsExt, TLC

CONSTANTS
  Calls,      \* executions of the graph "main" of the cluster "top"
  Given,      \* the keys of the parameters of each call, NoParams if none
  Timed,      \* the calls with a time out
  Clusters,
  Vertices,   \* of all graphs: no two graphs share one
  Names,      \* of config settings
  Designs,    \* sets of clusters, as Build left them, by name
  Nesting,    \* bound: contexts that hold one another
  MaxRounds,  \* bound: rounds of a loop
  MaxCtxs,    \* bound: contexts created
  None, NoParams

ASSUME ClusterAssumption ==
  /\ IsFiniteSet(Calls) /\ IsFiniteSet(Vertices) /\ "top" \in Clusters
  /\ Timed \subseteq Calls /\ None \notin Calls \cup Clusters \cup {"skip"}
  /\ \A d \in DOMAIN Designs : Designs[d].loaded \subseteq Clusters
  /\ Nesting \in Nat /\ MaxRounds \in Nat /\ MaxCtxs \in Nat

\* What Graph::Build and GraphContext::Setup leave: the dependencies are within
\* a graph and have no circle, and subgraphs have positions of their own. A graph
\* has a vertex: one without would never end.
ASSUME BuiltAssumption == \A i \in DOMAIN Designs : LET D == Designs[i] IN
  /\ "main" \in DOMAIN D.graph
  /\ \A v \in Vertices : D.vertex[v].cluster # None =>
       /\ D.vertex[v].graph \in D.graphs[D.vertex[v].cluster] => D.vertex[v].graph \in DOMAIN D.graph
       /\ D.vertex[v].slot \in 0..1
  /\ \A g \in DOMAIN D.graph : LET members == D.graph[g].vertices IN
       /\ members \subseteq Vertices /\ members # {}
       /\ \A v \in members : D.vertex[v].deps \subseteq members
       /\ \A v \in Vertices \ members : D.vertex[v].deps \cap members = {}
       /\ \A u, v \in members : D.vertex[u].cluster # None /\ D.vertex[v].cluster # None =>
            D.vertex[u].slot # D.vertex[v].slot \/ u = v
  /\ \A S \in (SUBSET Vertices) \ {{}} : \E v \in S : D.vertex[v].deps \cap S = {}

Ctxs == 1..MaxCtxs
Null == <<>>

VARIABLES
  design,  \* the clusters of this behaviour
  loaded,  \* GraphStore::_graphs
  pool,    \* the contexts in the queue of each cluster
  born,    \* contexts created so far
  top,     \* the context of each call, 0 if none
  call,    \* "new", "running", "done" (graph_done called) or "left"
  late,    \* the calls whose end time has passed
  ctx,     \* GraphClusterContext and the GraphContext it runs
  vtx,     \* VertexContext, by context and vertex
  parent   \* the parents of Params objects that have one

vars == <<design, loaded, pool, born, top, call, late, ctx, vtx, parent>>

\* A Params object: the one of a call, or the args (index 0) or one of the
\* select_args of a vertex in a context.
Decls == Designs[design]
CallArgs(e) == IF Given[e] = NoParams THEN Null ELSE <<0, e, 0>>
Args(c, v, i) == <<c, v, i>>
Own(p) ==
  IF p[1] = 0 THEN Given[p[2]]
  ELSE IF p[3] = 0 THEN Decls.vertex[p[2]].args
  ELSE Decls.vertex[p[2]].select[p[3]].args

Decl(v) == Decls.vertex[v]
Members(g) == Decls.graph[g].vertices
Slots == 0..1 \* positions in _executed_childrens

FreshContext(k) ==
  [cluster |-> k, graph |-> None, params |-> Null, end |-> None, outer |-> 0,
   exit |-> FALSE, join |-> 0, round |-> 0, ended |-> FALSE,
   value |-> [n \in Names |-> None], child |-> [i \in Slots |-> 0]]
FreshVertex == [st |-> "waiting", code |-> None, result |-> None,
                sub |-> 0, open |-> FALSE, using |-> 0]
FreshVertices == [v \in Vertices |-> FreshVertex]

Objects == {Null} \cup {<<0, e, 0>> : e \in Calls} \cup (Ctxs \X Vertices \X (0..1))

TypeOK ==
  /\ design \in DOMAIN Designs /\ loaded \subseteq Clusters
  /\ pool \in [Clusters -> Seq(Ctxs)] /\ born \in Ctxs \cup {0}
  /\ top \in [Calls -> Ctxs \cup {0}]
  /\ call \in [Calls -> {"new", "running", "done", "left"}]
  /\ late \subseteq Timed
  /\ \A c \in Ctxs :
       /\ ctx[c].cluster \in Clusters \cup {None}
       /\ ctx[c].params \in Objects /\ ctx[c].end \in Timed \cup {None}
       /\ ctx[c].outer \in Ctxs \cup {0} /\ ctx[c].join \in 0..Cardinality(Vertices)
       /\ ctx[c].value \in [Names -> BOOLEAN \cup {None}]
       /\ ctx[c].child \in [Slots -> Ctxs \cup {0}]
  /\ vtx \in [Ctxs -> [Vertices ->
       [st : {"waiting", "ready", "running", "done"},
        code : {None, "ok", "err", "skip"}, result : {None, "OK", "ERR"},
        sub : Ctxs \cup {0}, open : BOOLEAN, using : 0..1]]]
  /\ DOMAIN parent \subseteq Objects \ {Null}
  /\ \A p \in DOMAIN parent : parent[p] \in Objects \ {Null}

Init ==
  /\ design \in DOMAIN Designs
  /\ loaded = Decls.loaded
  /\ pool = [k \in Clusters |-> <<>>] /\ born = 0
  /\ top = [e \in Calls |-> 0] /\ call = [e \in Calls |-> "new"] /\ late = {}
  /\ ctx = [c \in Ctxs |-> FreshContext(None)]
  /\ vtx = [c \in Ctxs |-> FreshVertices]
  /\ parent = <<>>
-----------------------------------------------------------------------------
(***************************************************************************)
(* Params: an object and its parents are a line.                           *)
(***************************************************************************)
Up(par, p) == IF p \in DOMAIN par THEN par[p] ELSE Null
Line(par, p) ==
  LET up[n \in Nat] == IF n = 0 THEN p ELSE Up(par, up[n - 1])
  IN [n \in 0..(Nesting + 1) |-> up[n]]

\* Params::Get: the nearest object of the line that has the key.
Get(par, p, key) ==
  LET line == Line(par, p)
      hits == {n \in DOMAIN line : line[n] # Null /\ key \in Own(line[n])}
  IN IF hits = {} THEN Null ELSE line[Min(hits)]

\* Params::SetParent: the end of the line gets the parent, unless it is on the
\* line already.
SetParent(par, p, q) ==
  LET line == Line(par, p)
      length == Min({n \in DOMAIN line : Up(par, line[n]) = Null})
  IN IF \E n \in DOMAIN line : line[n] = q THEN par
     ELSE (line[length] :> q) @@ par
-----------------------------------------------------------------------------
(***************************************************************************)
(* Contexts.                                                               *)
(***************************************************************************)

\* GraphStore::GetGraphClusterContext: c is the context that a caller gets
\* from the queue of cluster k, or a new one.
GetContext(k, c) ==
  IF pool[k] # <<>>
  THEN /\ c = Head(pool[k])
       /\ pool' = [pool EXCEPT ![k] = Tail(@)]
       /\ UNCHANGED born
  ELSE /\ c = born + 1 /\ c \in Ctxs
       /\ born' = c
       /\ UNCHANGED pool

\* The result of a config setting: its expression asks for a parameter.
Holds(par, p, key) == p # Null /\ Get(par, p, key) # Null

\* GraphClusterContext::Execute evaluates the settings that have a processor;
\* the i-th result is stored under the i-th name.
Evaluate(k, par, p) ==
  LET settings == Decls.settings[k]
      HasProcessor(s) == s.processor
      evaluated == SelectSeq(settings, HasProcessor)
  IN [n \in Names |->
        IF \E i \in DOMAIN evaluated : settings[i].name = n
        THEN LET i == Max({j \in DOMAIN evaluated : settings[j].name = n})
             IN Holds(par, p, evaluated[i].key)
        ELSE None]

\* GraphDataContext::Get of a setting: the graph's own data, then those of the
\* graphs around it.
Setting(c, name) ==
  LET out[n \in Nat] == IF n = 0 THEN c
                        ELSE IF out[n - 1] = 0 THEN 0 ELSE ctx[out[n - 1]].outer
      set == {n \in 0..Nesting : out[n] # 0 /\ ctx[out[n]].value[name] # None}
  IN set # {} /\ ctx[out[Min(set)]].value[name]

\* The start of graph g: its vertices without dependencies are ready.
Started(g, vertices) ==
  [v \in Vertices |-> IF v \in Members(g) /\ Decl(v).deps = {}
                      THEN [vertices[v] EXCEPT !.st = "ready"] ELSE vertices[v]]

Mutant_Begun(c, k, g, p, end, outer) == \* the end time is left to the caller
  [FreshContext(k) EXCEPT !.graph = g, !.params = p, !.outer = outer,
     !.join = Cardinality(Members(g)), !.round = 1, !.value = Evaluate(k, parent', p)]

\* SetExternGraphDataContext, SetExecuteParams, SetEndTime and the successful
\* GraphClusterContext::Execute of a context that was reset.
Begun(c, k, g, p, end, outer) ==
  [FreshContext(k) EXCEPT !.graph = g, !.params = p, !.end = end, !.outer = outer,
     !.join = Cardinality(Members(g)), !.round = 1, !.value = Evaluate(k, parent', p)]

\* GraphStore::Load of another cluster.
Load(k) ==
  /\ k \notin loaded
  /\ loaded' = loaded \cup {k}
  /\ UNCHANGED <<design, pool, born, top, call, late, ctx, vtx, parent>>

\* GraphStore::Execute up to the start of the graph. A bound on the calls at
\* once comes with the clusters.
Execute(e) ==
  /\ call[e] = "new"
  /\ Cardinality({f \in Calls : call[f] \in {"running", "done"}}) < Decls.atOnce
  /\ call' = [call EXCEPT ![e] = "running"]
  /\ UNCHANGED <<design, loaded, late, parent>>
  /\ \E c \in Ctxs :
       /\ GetContext("top", c)
       /\ top' = [top EXCEPT ![e] = c]
       /\ ctx' = [ctx EXCEPT ![c] =
                    Begun(c, "top", "main", CallArgs(e), IF e \in Timed THEN e ELSE None, 0)]
       /\ vtx' = [vtx EXCEPT ![c] = Started("main", @)]

Expire(e) ==
  /\ e \in Timed \ late /\ call[e] = "running"
  /\ late' = late \cup {e}
  /\ UNCHANGED <<design, loaded, pool, born, top, call, ctx, vtx, parent>>
-----------------------------------------------------------------------------
(***************************************************************************)
(* The end of a vertex and of a graph.                                     *)
(***************************************************************************)

\* An error ends the graph, or counts as success, or stays.
Code(v, code) ==
  IF code = "err" /\ ~Decl(v).exits /\ Decl(v).ignore THEN "ok" ELSE code

Mutant_Children(v, record, child) == \* the position of the vertex is forgotten
  child
\* The data context of the subgraph takes its place among the children.
Children(v, record, child) ==
  IF record.open /\ Decl(v).slot \in DOMAIN child
  THEN [child EXCEPT ![Decl(v).slot] = record.sub] ELSE child

\* The vertices for which v was the last dependency are ready.
Notified(v, vertices) ==
  [u \in Vertices |->
     IF v \in Decl(u).deps /\ \A d \in Decl(u).deps : vertices[d].st = "done"
     THEN [vertices[u] EXCEPT !.st = "ready"] ELSE vertices[u]]

\* ResetState, of a graph and of the subgraphs below: the borrowed contexts,
\* the parents of parameters and the exit codes stay.
Below(c) ==
  LET Closed(S) ==
        c \in S /\ \A d \in S, v \in Vertices : vtx[d][v].open => vtx[d][v].sub \in S
  IN {d \in Ctxs : \A S \in SUBSET Ctxs : Closed(S) => d \in S}
Rewound(vertices) ==
  [v \in Vertices |-> [vertices[v] EXCEPT !.st = "waiting", !.code = None, !.result = None]]

\* FinishVertexProcess and OnVertexDone, from the contexts C and the vertices V
\* that the caller leaves: another vertex of the graph is still to join, or
\* this was the last one, and the condition of a while graph asks for another
\* round or the closure is called.
FinishVertex(c, v, code, C, V) ==
  LET final == Code(v, code)
      done == [V[c] EXCEPT ![v] = [@ EXCEPT
                 !.st = "done", !.code = final,
                 !.result = IF final = "ok" THEN "OK" ELSE "ERR"]]
      now == [C[c] EXCEPT !.join = @ - 1, !.exit = @ \/ (code = "err" /\ Decl(v).exits),
                          !.child = Children(v, V[c][v], @)]
      w == Decls.graph[C[c].graph].while
      again == w # None /\ done[w].code = "ok"
      Joining(d) == Cardinality(Members(C[d].graph))
  IN \/ /\ now.join # 0
        /\ ctx' = [C EXCEPT ![c] = now] /\ vtx' = [V EXCEPT ![c] = Notified(v, done)]
     \/ /\ now.join = 0 /\ ~again
        /\ ctx' = [C EXCEPT ![c] = [now EXCEPT !.ended = TRUE]]
        /\ vtx' = [V EXCEPT ![c] = done]
     \/ /\ now.join = 0 /\ again
        /\ ctx' = [d \in Ctxs |->
                     IF d = c THEN [now EXCEPT !.join = Joining(c), !.round = @ + 1]
                     ELSE IF d \in Below(c) THEN [C[d] EXCEPT !.join = Joining(d)]
                     ELSE C[d]]
        /\ vtx' = [d \in Ctxs |->
                     IF d = c THEN Started(C[c].graph, Rewound(done))
                     ELSE IF d \in Below(c) THEN Rewound(V[d]) ELSE V[d]]
-----------------------------------------------------------------------------
(***************************************************************************)
(* VertexContext::Execute.                                                 *)
(***************************************************************************)

\* The first of the select_args that matches, by an expression over the
\* parameters of the context or by a setting; 0 stands for the args.
Selected(c, v) ==
  LET select == Decl(v).select
      match == {i \in DOMAIN select :
                  IF select[i].expr THEN Holds(parent, ctx[c].params, select[i].on)
                  ELSE Setting(c, select[i].on)}
  IN IF match = {} THEN 0 ELSE Min(match)

\* GetExecParams: what was selected gets the parameters of the context as its
\* parent.
GetExecParams(c, v) ==
  parent' = IF ctx[c].params = Null THEN parent
            ELSE SetParent(parent, Args(c, v, Selected(c, v)), ctx[c].params)

\* expect_config, possibly negated.
ConfigMatches(c, v) ==
  Decl(v).config = None \/ Setting(c, Decl(v).config.name) # Decl(v).config.negated

\* What keeps a vertex from running, once it has or lacks its subgraph s.
Skipped(c, v, s) ==
  \/ Decl(v).cluster # None /\ s = 0
  \/ \E d \in Decl(v).deps : vtx[c][d].result \notin Decl(v).expected
  \/ ~ConfigMatches(c, v)
  \/ ctx[c].end \in late
  \/ ctx[c].exit

Mutant_Borrow(c, v, s) == \* again in every round
  IF Decl(v).cluster \in loaded
  THEN GetContext(Decl(v).cluster, s)
  ELSE s = vtx[c][v].sub /\ UNCHANGED <<pool, born>>

\* A context for the subgraph is taken, if there is none from an earlier round,
\* before anything else is looked at.
Borrow(c, v, s) ==
  IF Decl(v).cluster \in loaded /\ vtx[c][v].sub = 0
  THEN GetContext(Decl(v).cluster, s)
  ELSE s = vtx[c][v].sub /\ UNCHANGED <<pool, born>>

\* The vertex holds s, which knows its cluster.
Lent(v, s) == IF s = 0 THEN ctx ELSE [ctx EXCEPT ![s].cluster = Decl(v).cluster]
Holding(c, v, s) == [vtx EXCEPT ![c][v].sub = s]

ExecuteSkipped(c, v) ==
  /\ vtx[c][v].st = "ready"
  /\ \E s \in Ctxs \cup {0} :
       /\ Borrow(c, v, s) /\ Skipped(c, v, s)
       /\ FinishVertex(c, v, "skip", Lent(v, s), Holding(c, v, s))
  /\ UNCHANGED <<design, loaded, top, call, late, parent>>

ExecuteProcessor(c, v) ==
  /\ vtx[c][v].st = "ready" /\ Decl(v).cluster = None /\ ~Skipped(c, v, 0)
  /\ vtx' = [vtx EXCEPT ![c][v].st = "running", ![c][v].using = Selected(c, v)]
  /\ GetExecParams(c, v)
  /\ UNCHANGED <<design, loaded, pool, born, top, call, late, ctx>>

\* The first execution of a subgraph in s. The data context of the subgraph
\* becomes child 0 of the graph around it, whichever vertex runs it.
FirstRound(c, v, s) ==
  LET g == Decl(v).graph IN
  /\ ctx' = [ctx EXCEPT
               ![c].child[0] = s,
               ![s] = Begun(s, Decl(v).cluster, g, Args(c, v, Selected(c, v)),
                            ctx[c].end, c)]
  /\ vtx' = [vtx EXCEPT
               ![c][v] = [@ EXCEPT !.st = "running", !.sub = s, !.open = TRUE,
                                   !.using = Selected(c, v)],
               ![s] = Started(g, @)]

\* A later round: the graph context of the first one is executed again.
NextRound(c, v, s) ==
  /\ ctx' = [ctx EXCEPT ![s].round = 1]
  /\ LET running == [vtx EXCEPT ![c][v].st = "running", ![c][v].using = Selected(c, v)]
     IN vtx' = [running EXCEPT ![s] = Started(Decl(v).graph, @)]

Mutant_NoGraph(c, v, s) == \* returns an error and does not call the closure
  /\ ctx' = Lent(v, s)
  /\ vtx' = [Holding(c, v, s) EXCEPT ![c][v].st = "running"]

\* The cluster has no such graph: the closure gets -1. What was set in s (its
\* parameters, end time and data context) is not read.
NoGraph(c, v, s) == FinishVertex(c, v, "err", Lent(v, s), Holding(c, v, s))

ExecuteSubGraph(c, v) ==
  /\ vtx[c][v].st = "ready" /\ Decl(v).cluster # None
  /\ GetExecParams(c, v)
  /\ \E s \in Ctxs :
       /\ Borrow(c, v, s) /\ ~Skipped(c, v, s)
       /\ \/ vtx[c][v].open /\ NextRound(c, v, s)
          \/ ~vtx[c][v].open /\ Decl(v).graph \in Decls.graphs[Decl(v).cluster]
             /\ FirstRound(c, v, s)
          \/ Decl(v).graph \notin Decls.graphs[Decl(v).cluster] /\ NoGraph(c, v, s)
  /\ UNCHANGED <<design, loaded, top, call, late>>

\* The processor returns; the condition of a loop fails in the last round.
Return(c, v, code) ==
  /\ vtx[c][v].st = "running" /\ Decl(v).cluster = None
  /\ code = "err" => Decl(v).fails
  /\ code = "ok" => ~(v = Decls.graph[ctx[c].graph].while /\ ctx[c].round = MaxRounds)
  /\ FinishVertex(c, v, code, ctx, vtx)
  /\ UNCHANGED <<design, loaded, pool, born, top, call, late, parent>>

\* The closure of a subgraph gets its exit code.
SubGraphDone(c, v) ==
  LET s == vtx[c][v].sub IN
  /\ vtx[c][v].st = "running" /\ vtx[c][v].open /\ ctx[s].ended
  /\ FinishVertex(c, v, IF ctx[s].exit THEN "err" ELSE "ok",
                  [ctx EXCEPT ![s].ended = FALSE], vtx)
  /\ UNCHANGED <<design, loaded, pool, born, top, call, late, parent>>

\* The end of the graph of a call: graph_done.
GraphDone(e) ==
  /\ call[e] = "running" /\ ctx[top[e]].ended
  /\ call' = [call EXCEPT ![e] = "done"]
  /\ ctx' = [ctx EXCEPT ![top[e]].ended = FALSE]
  /\ UNCHANGED <<design, loaded, pool, born, top, late, vtx, parent>>
-----------------------------------------------------------------------------
(***************************************************************************)
(* Release: the reset of a context releases those its vertices hold first. *)
(***************************************************************************)

\* A context and those its vertices hold, at every depth.
Under(c) ==
  LET Closed(S) == c \in S /\ \A d \in S, v \in Vertices : vtx[d][v].sub \in S \cup {0}
  IN {d \in Ctxs : \A S \in SUBSET Ctxs : Closed(S) => d \in S}

Mutant_Orphans(c) == parent \* SetParent(nullptr) is left out
Orphans(c) == [p \in {q \in DOMAIN parent : q[1] # c} |-> parent[p]]

\* Reset of a context of the call, its graph and its vertices, and its return
\* to the queue of its cluster; the holder forgets it.
Release(e) ==
  /\ call[e] = "done"
  /\ \E c \in Under(top[e]) :
       /\ \A v \in Vertices : vtx[c][v].sub = 0
       /\ IF top[e] = c
          THEN call' = [call EXCEPT ![e] = "left"] /\ top' = [top EXCEPT ![e] = 0]
          ELSE UNCHANGED <<call, top>>
       /\ pool' = [pool EXCEPT ![ctx[c].cluster] = Append(@, c)]
       /\ ctx' = [ctx EXCEPT ![c] = FreshContext(None)]
       /\ vtx' = [d \in Ctxs |->
                    IF d = c THEN FreshVertices
                    ELSE [v \in Vertices |->
                            IF vtx[d][v].sub = c
                            THEN [vtx[d][v] EXCEPT !.sub = 0, !.open = FALSE]
                            ELSE vtx[d][v]]]
       /\ parent' = Orphans(c)
  /\ UNCHANGED <<design, loaded, born, late>>

\* Every call is over; anything else without a next step would be a call that
\* waits for ever.
Terminated ==
  /\ \A e \in Calls : call[e] = "left"
  /\ UNCHANGED vars

Next ==
  \/ \E c \in Ctxs, v \in Vertices :
       \/ ExecuteSkipped(c, v) \/ ExecuteProcessor(c, v) \/ ExecuteSubGraph(c, v)
       \/ \E code \in {"ok", "err"} : Return(c, v, code)
       \/ SubGraphDone(c, v)
  \/ \E e \in Calls : Execute(e) \/ Expire(e) \/ GraphDone(e) \/ Release(e)
  \/ \E k \in Clusters : Load(k)
  \/ Terminated

Spec == Init /\ [][Next]_vars
-----------------------------------------------------------------------------
Busy(c) == ctx[c].ended \/ \E v \in Vertices : vtx[c][v].st \in {"ready", "running"}

\* The vertices that hold a context.
Holders(c) == {h \in (1..born) \X Vertices : vtx[h[1]][h[2]].sub = c}

\* A context has one place: the queue of its cluster, a call, or a vertex of a
\* context in use. One that is in a queue has nothing left of its last use.
ContextHeld ==
  \A c \in 1..born :
    LET queues == {k \in Clusters : \E i \in DOMAIN pool[k] : pool[k][i] = c}
        calls == {e \in Calls : top[e] = c}
    IN /\ Cardinality(queues) + Cardinality(calls) + Cardinality(Holders(c)) = 1
       /\ queues # {} => ctx[c] = FreshContext(None) /\ vtx[c] = FreshVertices

\* The parameters a context is executed with: those of its call, or those the
\* vertex around it selected.
Handed(c) ==
  IF \E e \in Calls : top[e] = c THEN CallArgs(CHOOSE e \in Calls : top[e] = c)
  ELSE LET h == CHOOSE h \in Holders(c) : TRUE
       IN Args(h[1], h[2], vtx[h[1]][h[2]].using)

\* A processor sees its own or selected args, then those of the vertices
\* around it, then those of its own call and of no other; and a setting was
\* evaluated with the parameters of this execution, if those listed before it
\* have a processor.
SeesOwnCall ==
  /\ \A e \in Calls : Up(parent, CallArgs(e)) = Null
  /\ \A c \in 1..born : Busy(c) =>
       /\ \A v \in Vertices : vtx[c][v].st = "running" =>
            Up(parent, Args(c, v, vtx[c][v].using)) = Handed(c)
       /\ LET settings == Decls.settings[ctx[c].cluster]
          IN \A i \in DOMAIN settings :
               (\A j \in 1..i : settings[j].processor) =>
                 ctx[c].value[settings[i].name] = Holds(parent, Handed(c), settings[i].key)

\* The levels agree: a graph is at work exactly if the vertex or the call that
\* started it waits for it. So no closure is called twice, nobody waits for one
\* that will not be called, and ResetState finds the graphs below at rest.
LevelsAgree ==
  \A c \in 1..born :
    Busy(c) <=> \/ \E e \in Calls : top[e] = c /\ call[e] = "running"
                \/ \E h \in Holders(c) : vtx[h[1]][h[2]].st = "running"

\* What a subgraph made stays reachable from the graph around it, up to the
\* release, unless it is child 0 and another subgraph was started after it.
ChildReachable ==
  \A c \in 1..born, v \in Vertices : vtx[c][v].open /\ vtx[c][v].st = "done" =>
    \/ \E i \in Slots : ctx[c].child[i] = vtx[c][v].sub
    \/ Decl(v).slot = 0 /\ \E u \in Vertices \ {v} :
         Decl(u).cluster # None /\ vtx[c][u].st \in {"running", "done"} /\ vtx[c][u].code # "skip"

\* After the end time of a call nothing that works for it starts, at whatever
\* depth.
NoLateStart ==
  [][\A c \in Ctxs, v \in Vertices :
       vtx[c][v].st = "ready" /\ vtx'[c][v].st = "running" =>
         \A e \in late : call[e] = "running" => c \notin Under(top[e])]_vars
=============================================================================
