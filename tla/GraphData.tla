----------------------------- MODULE GraphData ------------------------------
(***************************************************************************)
(* The data of one C++ graph context: GraphDataContext (processor/api.h,   *)
(* processor.cpp), the injection of inputs and the collection of outputs   *)
(* (processor_di.cpp), and what GraphContext::Setup registers for them.    *)
(*                                                                         *)
(* Vertices of one graph run in parallel, in the order their dependencies  *)
(* allow (GraphExec), and read, take and store values in one table without *)
(* locks; a value that is not there is looked for in the context of the    *)
(* caller, in the DI container and in the contexts of executed subgraphs.  *)
(* A key stands for a name and a type. The context is reset and used again *)
(* up to MaxRuns times.                                                    *)
(***************************************************************************)
EXTENDS Integers, SequencesExt

CONSTANTS
  Vertices, Keys,
  Graphs,     \* the graphs to execute
  Outer,      \* keys the caller sets before it calls
  Container,  \* keys the DI container has builders for
  Var,        \* the value of each `$` key in the parameters, NoKey if not set
  NoKey,
  MaxRuns     \* bound: executions in the context

Input ==
  [ids : Seq(Keys) \ {<<>>},  \* its id, or the ids of `aggregate`
   aggregate : BOOLEAN, required : BOOLEAN, move : BOOLEAN,
   extern : BOOLEAN,        \* of the configuration
   fieldExtern : BOOLEAN]   \* of the processor's declaration
Output ==
  [id : Keys,
   inOut : Nat,             \* the input whose value it is, 0 if its own
   from : Keys \cup {NoKey}]  \* move_from_when_skipped

\* A subgraph vertex has no processor; inner[v] are the keys of its context.
Graph ==
  [input : [Vertices -> Seq(Input)], output : [Vertices -> Seq(Output)],
   inner : [Vertices -> SUBSET Keys], deps : [Vertices -> SUBSET Vertices],
   skipAsError : BOOLEAN]

ASSUME DataAssumption ==
  /\ Graphs \subseteq Graph
  /\ \A g \in Graphs : \A v \in Vertices :
       /\ \A n \in DOMAIN g.output[v] : g.output[v][n].inOut \in 0..Len(g.input[v])
       /\ \A n \in DOMAIN g.input[v] : g.input[v][n].aggregate \/ Len(g.input[v][n].ids) = 1
       /\ g.inner[v] # {} => g.input[v] = <<>> /\ g.output[v] = <<>>
  /\ Outer \subseteq Keys /\ Container \subseteq Keys
  /\ DOMAIN Var \subseteq Keys /\ NoKey \notin Keys
  /\ \A k \in DOMAIN Var : Var[k] \in (Keys \ DOMAIN Var) \cup {NoKey}
  /\ {"own", "caller", "container", "children"} \cap Vertices = {}
  /\ MaxRuns \in Nat

VARIABLES
  graph,   \* the graph of the context
  run,     \* executions so far
  phase,   \* "idle", "executing" or "failed": the setup or the run
  data,    \* data[c][k]: the value in context c, which is own (of the graph),
           \* the caller's, the container's or that of a subgraph vertex
  child,   \* the vertices with a context in _executed_childrens
  pos,     \* where the thread of each vertex is
  step,    \* the lookup or the output it is at
  place,   \* the contexts left in the current lookup
  held,    \* held[v][i]: the values of input i
  res      \* _result

vars == <<graph, run, phase, data, child, pos, step, place, held, res>>

Contexts == Vertices \cup {"own", "caller", "container"}
Values == [by : Vertices \cup {"caller", "container"}, key : Keys, run : 0..MaxRuns]
NoValue == [by |-> "none"]
-----------------------------------------------------------------------------
(***************************************************************************)
(* What Setup makes of the declarations.                                   *)
(***************************************************************************)
Outputs == UNION {{o.id : o \in ToSet(graph.output[v])} : v \in Vertices}
Producers(k) == {v \in Vertices : \E o \in ToSet(graph.output[v]) : o.id = k}

\* The dependencies that Vertex::Build derives from data, with the explicit
\* ones; those in RequiredDeps, whose first mention is by a required input,
\* must have ended with OK.
Mutant_DataDeps(v) == \* an aggregated input depends on the first id only
  {p \in Vertices \ {v} : \E i \in ToSet(graph.input[v]) : p \in Producers(i.ids[1])}
DataDeps(v) ==
  {p \in Vertices \ {v} : \E i \in ToSet(graph.input[v]) :
     \E k \in ToSet(i.ids) : p \in Producers(k)}
Deps(v) == graph.deps[v] \cup DataDeps(v)
RequiredDeps(v) ==
  {p \in DataDeps(v) \ graph.deps[v] :
     LET first == CHOOSE n \in DOMAIN graph.input[v] :
                    /\ \E k \in ToSet(graph.input[v][n].ids) : p \in Producers(k)
                    /\ \A m \in 1..(n - 1) :
                         \A k \in ToSet(graph.input[v][m].ids) : p \notin Producers(k)
     IN graph.input[v][first].required}

\* Duplicate outputs, and inputs nobody in the graph produces.
SetupFails ==
  \/ \E v, w \in Vertices : \E n \in DOMAIN graph.output[v], m \in DOMAIN graph.output[w] :
       graph.output[v][n].id = graph.output[w][m].id /\ <<v, n>> # <<w, m>>
  \/ \E v \in Vertices : \E i \in ToSet(graph.input[v]) :
       ~i.extern /\ ~i.aggregate /\ i.ids[1] \notin Outputs

\* RegisterData: the keys that have an entry in the table of the graph.
Registered ==
  {k \in Outputs : k \notin DOMAIN Var} \cup
  UNION {{i.ids[1] : i \in {j \in ToSet(graph.input[v]) :
                              ~j.fieldExtern /\ ~j.aggregate}} : v \in Vertices}

Table(c) ==
  CASE c = "own" -> Registered
    [] c = "caller" -> Outer
    [] c = "container" -> Container
    [] OTHER -> graph.inner[c]

\* The lookups of InjectInputs for one input. An input that was registered
\* looks at its own entry, whatever the name; the result of a lookup that is
\* not decisive is overwritten by the next one.
Resolve(k) == IF k \in DOMAIN Var THEN Var[k] ELSE k
Lookup(n, i, name, decisive) ==
  [input |-> n, name |-> name, move |-> i.move,
   entry |-> IF i.fieldExtern \/ i.aggregate THEN name ELSE i.ids[1],
   required |-> decisive /\ i.required]
InputLookups(n, i) ==
  IF ~i.aggregate THEN <<Lookup(n, i, Resolve(i.ids[1]), TRUE)>>
  ELSE FlattenSeq([j \in DOMAIN i.ids |->
         IF Resolve(i.ids[j]) \in {i.ids[j], NoKey}
         THEN <<Lookup(n, i, i.ids[j], TRUE)>>
         ELSE <<Lookup(n, i, Resolve(i.ids[j]), FALSE),
                Lookup(n, i, i.ids[j], TRUE)>>])
Lookups(v) ==
  FlattenSeq([n \in DOMAIN graph.input[v] |-> InputLookups(n, graph.input[v][n])])

\* The contexts that Get and Move search, in order: Move not the container.
\* The contexts of subgraphs come last, together. Contexts without an entry
\* for the key are left out, and a variable that is not set is not looked up.
Path(l) ==
  LET Where(c, there) == IF there THEN <<c>> ELSE <<>>
  IN Where("own", l.entry \in Registered /\ l.name # NoKey)
     \o Where("caller", l.name \in Outer)
     \o Where("container", l.name \in Container /\ ~l.move)
     \o Where("children", \E v \in Vertices : l.name \in graph.inner[v])
-----------------------------------------------------------------------------
TypeOK ==
  /\ graph \in Graphs /\ run \in 0..MaxRuns
  /\ phase \in {"idle", "executing", "failed"}
  /\ data \in [Contexts -> [Keys -> Values \cup {NoValue}]]
  /\ \A c \in Contexts : \A k \in Keys : data[c][k] # NoValue => k \in Table(c)
  /\ child \subseteq Vertices
  /\ pos \in [Vertices -> {"waiting", "injecting", "running", "emitting",
                           "moving", "clearing", "done"}]
  /\ step \in [Vertices -> Nat \ {0}]
  /\ \A v \in Vertices : ToSet(place[v]) \subseteq Contexts \cup {"children"}
  /\ \A v \in Vertices : held[v] \in [DOMAIN graph.input[v] -> SUBSET Values]
  /\ res \in [Vertices -> {"INVALID", "OK", "ERR", "SKIP"}]

Empty == [k \in Keys |-> NoValue]
FreshHeld == [v \in Vertices |-> [n \in DOMAIN graph.input[v] |-> {}]]
FromCaller(n) ==
  [k \in Keys |-> IF k \in Outer THEN [by |-> "caller", key |-> k, run |-> n] ELSE NoValue]
FromContainer ==
  [k \in Keys |-> IF k \in Container
                  THEN [by |-> "container", key |-> k, run |-> 0] ELSE NoValue]

Init ==
  /\ graph \in Graphs
  /\ run = 0 /\ phase = "idle"
  /\ data = [c \in Contexts |-> CASE c = "caller" -> FromCaller(0)
                                   [] c = "container" -> FromContainer
                                   [] OTHER -> Empty]
  /\ child = {}
  /\ pos = [v \in Vertices |-> "done"]
  /\ step = [v \in Vertices |-> 1] /\ place = [v \in Vertices |-> <<>>]
  /\ held = FreshHeld
  /\ res = [v \in Vertices |-> "INVALID"]

\* A graph whose Setup failed is not in the context: done(-1).
ExecuteFails ==
  /\ phase = "idle" /\ SetupFails
  /\ phase' = "failed"
  /\ UNCHANGED <<graph, run, data, child, pos, step, place, held, res>>

\* An execution starts. The caller may have set its values again.
Execute ==
  /\ phase = "idle" /\ ~SetupFails /\ run < MaxRuns
  /\ run' = run + 1 /\ phase' = "executing"
  /\ \E again \in BOOLEAN :
       data' = IF again THEN [data EXCEPT !["caller"] = FromCaller(run')] ELSE data
  /\ pos' = [v \in Vertices |-> "waiting"]
  /\ UNCHANGED <<graph, child, step, place, held, res>>

Mutant_Reset == \* the contexts of subgraphs stay children
  /\ phase = "executing" /\ \A v \in Vertices : pos[v] = "done"
  /\ phase' = "idle"
  /\ data' = [data EXCEPT !["own"] = Empty]
  /\ held' = FreshHeld
  /\ res' = [v \in Vertices |-> "INVALID"]
  /\ UNCHANGED <<graph, run, child, pos, step, place>>

\* Reset of the vertices, which give the contexts of their subgraphs back,
\* and of the data context.
Reset ==
  /\ phase = "executing" /\ \A v \in Vertices : pos[v] = "done"
  /\ phase' = "idle"
  /\ data' = [c \in Contexts |-> IF c \in {"caller", "container"} THEN data[c] ELSE Empty]
  /\ child' = {}
  /\ held' = FreshHeld
  /\ res' = [v \in Vertices |-> "INVALID"]
  /\ UNCHANGED <<graph, run, pos, step, place>>
-----------------------------------------------------------------------------
(***************************************************************************)
(* The steps of a vertex.                                                  *)
(***************************************************************************)
Ready(v) == phase = "executing" /\ pos[v] = "waiting" /\ \A d \in Deps(v) : pos[d] = "done"

\* On to lookup n, or to the processor.
Seek(v, n) ==
  LET more == n <= Len(Lookups(v)) IN
  /\ pos' = [pos EXCEPT ![v] = IF more THEN "injecting" ELSE "running"]
  /\ step' = [step EXCEPT ![v] = IF more THEN n ELSE 1]
  /\ place' = [place EXCEPT ![v] = IF more THEN Path(Lookups(v)[n]) ELSE <<>>]

\* On to output n, collected or moved, or to the end.
Deliver(v, n, stage) ==
  LET more == n <= Len(graph.output[v]) IN
  /\ pos' = [pos EXCEPT ![v] = IF more THEN stage ELSE "done"]
  /\ step' = [step EXCEPT ![v] = IF more THEN n ELSE 1]
  /\ place' = [place EXCEPT ![v] = <<>>]

\* Execute, when a dependency, a setting, the end time or an early exit says no.
Skip(v) ==
  /\ Ready(v)
  /\ res' = [res EXCEPT ![v] = IF graph.skipAsError THEN "ERR" ELSE "SKIP"]
  /\ Deliver(v, 1, "moving")
  /\ UNCHANGED <<graph, run, phase, data, child, held>>

Start(v) ==
  /\ Ready(v) /\ \A d \in RequiredDeps(v) : res[d] = "OK"
  /\ Seek(v, 1)
  /\ UNCHANGED <<graph, run, phase, data, child, held, res>>

\* Where the current lookup of v finds a value now.
Current(v) == Lookups(v)[step[v]]
KeyIn(l, c) == IF c = "own" THEN l.entry ELSE l.name
Sources(v) ==
  IF place[v] = <<>> THEN {}
  ELSE {c \in IF Head(place[v]) = "children" THEN child ELSE {Head(place[v])} :
          LET k == KeyIn(Current(v), c) IN k \in Table(c) /\ data[c][k] # NoValue}

Mutant_Take(v) == \* a moved value stays where it is
  /\ pos[v] = "injecting"
  /\ \E c \in Sources(v) :
       LET l == Current(v)  val == data[c][KeyIn(l, c)] IN
       /\ held' = [held EXCEPT ![v][l.input] =
                     IF graph.input[v][l.input].aggregate THEN @ \cup {val} ELSE {val}]
       /\ UNCHANGED data
  /\ Seek(v, step[v] + 1)
  /\ UNCHANGED <<graph, run, phase, child, res>>

\* Get reads a value, Move exchanges it for null.
Take(v) ==
  /\ pos[v] = "injecting"
  /\ \E c \in Sources(v) :
       LET l == Current(v)  val == data[c][KeyIn(l, c)] IN
       /\ held' = [held EXCEPT ![v][l.input] =
                     IF graph.input[v][l.input].aggregate THEN @ \cup {val} ELSE {val}]
       /\ data' = IF l.move THEN [data EXCEPT ![c][KeyIn(l, c)] = NoValue] ELSE data
  /\ Seek(v, step[v] + 1)
  /\ UNCHANGED <<graph, run, phase, child, res>>

\* Not there: the next context.
PassBy(v) ==
  /\ pos[v] = "injecting" /\ Sources(v) = {} /\ Len(place[v]) > 1
  /\ place' = [place EXCEPT ![v] = Tail(@)]
  /\ UNCHANGED <<graph, run, phase, data, child, pos, step, held, res>>

\* Nowhere: V_CODE_SKIP if the input is required.
Miss(v) ==
  /\ pos[v] = "injecting" /\ Sources(v) = {} /\ Len(place[v]) <= 1
  /\ IF Current(v).required
     THEN res' = [res EXCEPT ![v] = "ERR"] /\ Deliver(v, 1, "moving")
     ELSE Seek(v, step[v] + 1) /\ UNCHANGED res
  /\ UNCHANGED <<graph, run, phase, data, child, held>>

\* The processor returns, and FinishVertexProcess collects the outputs or
\* moves what is to be moved when skipped.
Finish(v) ==
  /\ pos[v] = "running" /\ graph.inner[v] = {}
  /\ \/ res' = [res EXCEPT ![v] = "OK"] /\ Deliver(v, 1, "emitting")
     \/ res' = [res EXCEPT ![v] = "ERR"] /\ Deliver(v, 1, "moving")
  /\ UNCHANGED <<graph, run, phase, data, child, held>>

\* A subgraph ends, with some of its values made, and its context becomes a
\* child of this one. It was already child 0 while it ran (GetRunGraph): who is
\* not ordered after v may read a value then, as if v had ended here and those
\* that depend on it were to start later.
FinishSubGraph(v) ==
  /\ pos[v] = "running" /\ graph.inner[v] # {}
  /\ \E made \in SUBSET graph.inner[v], r \in {"OK", "ERR"} :
       /\ data' = [data EXCEPT ![v] = [k \in Keys |->
                     IF k \in made THEN [by |-> v, key |-> k, run |-> run] ELSE NoValue]]
       /\ res' = [res EXCEPT ![v] = r]
  /\ child' = child \cup {v}
  /\ Deliver(v, 1, "emitting")
  /\ UNCHANGED <<graph, run, phase, held>>

Produced(v, o) ==
  IF o.inOut = 0 THEN [by |-> v, key |-> o.id, run |-> run]
  ELSE CHOOSE val \in held[v][o.inOut] \cup {NoValue} :
         val = NoValue => held[v][o.inOut] = {}

Mutant_Emit(v) == \* Set creates the entry
  LET o == graph.output[v][step[v]] IN
  /\ pos[v] = "emitting"
  /\ data' = IF Resolve(o.id) # NoKey
             THEN [data EXCEPT !["own"][Resolve(o.id)] = Produced(v, o)] ELSE data
  /\ Deliver(v, step[v] + 1, "emitting")
  /\ UNCHANGED <<graph, run, phase, child, held, res>>

\* CollectOutputs: Set, which finds an entry or, creation being disabled for
\* the execution, does nothing.
Emit(v) ==
  LET o == graph.output[v][step[v]] IN
  /\ pos[v] = "emitting"
  /\ data' = IF Resolve(o.id) \in Registered
             THEN [data EXCEPT !["own"][Resolve(o.id)] = Produced(v, o)] ELSE data
  /\ Deliver(v, step[v] + 1, "emitting")
  /\ UNCHANGED <<graph, run, phase, child, held, res>>

\* GetValue: the context of the entry, whatever its value.
EntryContexts(k) ==
  IF k \in Registered THEN {"own"}
  ELSE IF k \in Outer THEN {"caller"}
  ELSE {c \in child : k \in graph.inner[c]}

Movable(o) == o.from # NoKey /\ EntryContexts(o.from) # {} /\ o.id \in Registered

Mutant_MoveCopy(v) == \* the arguments of Move swapped
  LET o == graph.output[v][step[v]] IN
  /\ pos[v] = "moving" /\ Movable(o)
  /\ \E c \in EntryContexts(o.from) :
       /\ data' = [data EXCEPT ![c][o.from] = data["own"][o.id]]
       /\ place' = [place EXCEPT ![v] = <<c>>]
  /\ pos' = [pos EXCEPT ![v] = "clearing"]
  /\ UNCHANGED <<graph, run, phase, child, step, held, res>>

\* MoveDataWhenSkipped: Move of the context loads and stores one entry ...
MoveCopy(v) ==
  LET o == graph.output[v][step[v]] IN
  /\ pos[v] = "moving" /\ Movable(o)
  /\ \E c \in EntryContexts(o.from) :
       /\ data' = [data EXCEPT !["own"][o.id] = data[c][o.from]]
       /\ place' = [place EXCEPT ![v] = <<c>>]
  /\ pos' = [pos EXCEPT ![v] = "clearing"]
  /\ UNCHANGED <<graph, run, phase, child, step, held, res>>

\* ... and then clears the other.
MoveClear(v) ==
  /\ pos[v] = "clearing"
  /\ data' = [data EXCEPT ![Head(place[v])][graph.output[v][step[v]].from] = NoValue]
  /\ Deliver(v, step[v] + 1, "moving")
  /\ UNCHANGED <<graph, run, phase, child, held, res>>

MoveNothing(v) ==
  /\ pos[v] = "moving" /\ ~Movable(graph.output[v][step[v]])
  /\ Deliver(v, step[v] + 1, "moving")
  /\ UNCHANGED <<graph, run, phase, data, child, held, res>>

Next ==
  \/ ExecuteFails \/ Execute \/ Reset
  \/ \E v \in Vertices :
       \/ Skip(v) \/ Start(v) \/ Take(v) \/ PassBy(v) \/ Miss(v)
       \/ Finish(v) \/ FinishSubGraph(v) \/ Emit(v)
       \/ MoveCopy(v) \/ MoveClear(v) \/ MoveNothing(v)

Spec == Init /\ [][Next]_vars
-----------------------------------------------------------------------------
Takers(k) ==
  {v \in Vertices : \E l \in ToSet(Lookups(v)) : l.move /\ k \in {l.name, l.entry}}
Movers(k) == {v \in Vertices : \E o \in ToSet(graph.output[v]) : o.from = k}
Own(p, k) ==
  \E o \in ToSet(graph.output[p]) : o.id = k /\ o.inOut = 0

\* No value of an earlier execution reaches a vertex: neither from the table,
\* which keeps its entries, nor from the context of a subgraph, which has gone
\* back to its pool.
OwnRun ==
  \A v \in Vertices : \A n \in DOMAIN held[v] : \A val \in held[v][n] :
    val.by \in Vertices => val.run = run

\* Nothing but input n of v takes what is stored for key k, and no output is
\* stored there under another name.
OnlyFor(v, n, k) ==
  /\ \A w \in Vertices : \A l \in ToSet(Lookups(w)) :
       l.move /\ k \in {l.name, l.entry} => w = v /\ l.input = n
  /\ \A w \in Vertices : \A o \in ToSet(graph.output[w]) :
       o.from # k /\ (Resolve(o.id) = k => o.id = k)

\* A running vertex has what the producers of its inputs made, each of which
\* has ended: nothing is missing unless its producer failed or something else
\* may have taken it, whoever else reads the table meanwhile.
InputsArrive ==
  \A v \in Vertices : pos[v] = "running" =>
    \A n \in DOMAIN graph.input[v] : \A k \in ToSet(graph.input[v][n].ids) :
      \A p \in Producers(k) \ {v} :
        /\ pos[p] = "done"
        /\ res[p] = "OK" /\ Own(p, k) /\ OnlyFor(v, n, k) /\ k \notin DOMAIN Var =>
             [by |-> p, key |-> k, run |-> run] \in held[v][n]

\* A value that an output gives on was moved to its vertex, and no other output
\* gives it on; an entry that an output is moved from when its vertex is
\* skipped is for this vertex to take and for this output alone.
GivesOnAlone(p, n) ==
  /\ graph.input[p][graph.output[p][n].inOut].move
  /\ \A m \in DOMAIN graph.output[p] :
       graph.output[p][m].inOut = graph.output[p][n].inOut => m = n
MovesAlone(p, n) ==
  /\ Takers(graph.output[p][n].from) \subseteq {p}
  /\ \A q \in Vertices : \A m \in DOMAIN graph.output[q] :
       graph.output[q][m].from = graph.output[p][n].from => q = p /\ m = n
Orderly ==
  \A p \in Vertices : \A n \in DOMAIN graph.output[p] :
    /\ graph.output[p][n].inOut # 0 => GivesOnAlone(p, n)
    /\ graph.output[p][n].from # NoKey => MovesAlone(p, n)

\* A value that is moved has one owner at a time, however many vertices try to
\* take it at once.
MovedOnce ==
  Orderly => \A v, w \in Vertices : v # w /\ pos[v] = "running" /\ pos[w] = "running" =>
    \A n \in DOMAIN held[v], m \in DOMAIN held[w] :
      graph.input[v][n].move /\ graph.input[w][m].move =>
        held[v][n] \cap held[w][m] = {}

\* Output m of p is moved, when p is skipped, from where q stores its value to
\* where input n of v looks for it, and nothing else is stored in or taken out
\* of these two entries.
Route(q, p, m, v, n) ==
  LET id == graph.output[p][m].id  from == graph.output[p][m].from IN
  /\ q \in Deps(p) /\ Own(q, from)
  /\ v # p /\ graph.input[v][n].ids = <<id>>
  /\ Takers(from) \subseteq {p}
  /\ \A w \in Vertices : \A j \in DOMAIN graph.output[w] :
       /\ graph.output[w][j].from = from => w = p /\ j = m
       /\ Resolve(graph.output[w][j].id) = from => graph.output[w][j].id = from
  /\ OnlyFor(v, n, id)
  /\ {id, from} \cap DOMAIN Var = {}

\* move_from_when_skipped: if a vertex is skipped before it took its input,
\* the consumer of its output gets the value it would have worked on.
PassedOn ==
  \A q, p, v \in Vertices : \A m \in DOMAIN graph.output[p], n \in DOMAIN graph.input[v] :
    (/\ pos[v] = "running" /\ res[q] = "OK" /\ res[p] # "OK"
     /\ \A i \in DOMAIN held[p] : held[p][i] = {}
     /\ Route(q, p, m, v, n))
    => held[v][n] = {[by |-> q, key |-> graph.output[p][m].from, run |-> run]}

=============================================================================
