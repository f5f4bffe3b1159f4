# TLA+ models of didagle

didagle executes directed acyclic graphs of operators. A graph is declared in
TOML (or as a group of tasks in C++); the engine derives the dependencies,
executes each vertex when its dependencies are finished, on threads that the
application provides, and calls a closure at the end. There are two engines,
one in C++ (`src/didagle`) and one in Go (`src/go`).

This directory holds TLA+ modules that model the parts of the two engines where
order matters, TLC configurations that check them on small graphs, and proofs,
checked by TLAPS, that hold for every graph: of building in C++, declared or from
tasks, of the execution in both engines, of the store, of the data of a context and
of executions that span clusters.
`PROJECT.json` lists runs, mutants, hazards, findings and theorems, and maps
every definition to the source lines it stands for.

## The system

| Part | State | Operations | Hard because |
|---|---|---|---|
| Graph execution, C++ (`store/graph_context.*`, `vertex_context.*`) | per vertex: counter of unfinished dependencies, their results, own result and code; per graph: join counter, early exit code, closure | `Execute`, `ExecuteReadyVertexs`, `OnVertexDone`, `SetDependencyResult`, `FinishVertexProcess`, `ResetState`, `Reset` | any number of threads, none owned by the engine, act on one context with two atomic counters and otherwise plain fields; the last thread restarts or hands back the context while others are still returning |
| Graph building, C++ (`graph/graph.cpp`, `vertex.cpp`) | vertices by id, producers by data id, dependencies with expected results | `Graph::Build`, `Vertex::Build`, `Verify`, `TestCircle` | one dependency may be named several times, explicitly and by data; the order of declaration decides |
| Task groups (`store/graph_task.*`, `LoadTaskGroup`) | tasks and four relations between them | `Add`, `Clone`, `Precede`, `Succeed`, `Consequent`, `Alternative`, `Name` | relations are stated from both ends and in any order, by ids that may change; a group is loaded again after a failure |
| Clusters within clusters (`store/cluster_context.*`, `vertex_context.*`, `graph/params.*`) | per context: running graph, parameters, config settings, end time, outer and child data contexts; per vertex: the context its subgraph borrowed | `GraphClusterContext::Execute`, `GetRunGraph`, `ExecuteSubGraph`, `GetExecParams`, `SetParent`, `Reset` | contexts come from pools, are kept over the rounds of a loop and carry state from round to round and from one call to the next |
| Store (`store/graph_store.*`, `cluster_context.*`, `background_worker.*`) | cluster by name, pool of contexts per cluster, count of running graphs | `Load`, `Execute`, `GetContext`, `ReleaseContext`, the destructors | shared pointers decide when a context returns to its pool, on which thread, and when a replaced cluster dies |
| Data context and injection (`processor/*`) | values by name and type, parent and children, release closure | `RegisterData`, `Get`, `Set`, `Move`, `InjectInputs`, `CollectOutputs`, `MoveDataWhenSkipped`, `Reset`, `SetReleaseClosure` | vertices in parallel read and write it without locks and rely on the execution order; moved values have several takers; entries and subgraph contexts are reused |
| Parameters (`graph/params.*`) | tree of values with a parent | `Get`, `GetVar` | dotted names, inheritance |
| Go execution (`go/context.go`) | as in C++, with a `WaitGroup` per pooled context | `ExecuteGraph`, `execute`, `vertexDone`, `Reset`, `recycle` | one goroutine per vertex; the caller resets the context when the `WaitGroup` lets it go |
| Go building (`go/dag.go`) | graphs by name, vertices by id, producers by data id, dependencies with expected results | `GraphCluster.Build`, `Graph.build`, `Vertex.build`, `verify`, `testCircle` | everything is built in the order of Go maps; explicit relations override derived ones |
| Go operators (`operator*.go`, `gval_op.go`, `params.go`) | registry of operators, parameter maps | reflection on operators, the while operator | user expressions |
| Python generator (`py/`), DI container, tracing, logging, tools | - | text and adapters | - |

How they interact: `GraphStore::Load` builds a cluster (building). `Execute`
borrows a context from the cluster's pool, evaluates the config settings and
starts a graph (execution). Vertices take inputs from the data context and put
outputs into it, or execute a subgraph in a context borrowed from another
cluster. The end of the graph calls `graph_done`, which drops the data context;
the last reference to that calls the release closure, which posts the reset of
the cluster context to a worker.

What makes the parts correct: a vertex runs once, after its dependencies and
only if they ended as it expects; the closure is called once, with the right
code, after the last access to the context; a context is never shared; a
replaced cluster lives as long as its executions; the destructor leaves nothing
behind; a built graph orders every producer before its consumers, guards
branches by their conditions and has no circle; building and execution end.

## Modules

`DagRun` is what a user of either engine may rely on about order, without
counters or threads: a vertex waits, runs or is passed over, and ends with a
result; it runs only if its dependencies ended as it expects; an execution ends
when every vertex has. Both execution models are shown to implement it.

`GraphExec` models one `GraphContext`. The thread that finishes a vertex goes
on with one of those it made ready and posts the others, by tail calls, so a
thread is identified with the vertex it works for at the moment, and `pc[v]` is
its position: `scheduled` (`Execute` is called or posted), `running` (in the
processor or subgraph), `exiting` (between the test and the store of
`SetEarlyExitCode`), `finishing` (before the decrement of the join counter),
`joined` (after it, before the read of the list of successors), `notifying`,
`subtracting`, `loading` (the steps of `SetDependencyResult` for
one successor: the store of the result, then the decrement, or the load if a
result was there before), `dispatching` (`ExecuteReadyVertexs`), `done`. Each
access to shared state is a step of its own. The result bit mask is a set. The
history variables `ran`, `calls`, `dones`, `exits`, `exitRound` are read by
properties only.

`GraphBuild` models `Graph::Build`. A declaration has its inputs and outputs as
`FillInputOutput` leaves them, ids as the first lines of the loop complete
them; `fieldsNamed` says that none of them has an empty field. `mask[v][d]` is the
expected result stored by `Vertex::Depend`; the
successor sets are its inverse. The recursion of the circle test is a stack of
frames with a bound, `MaxStack`, for the stack of the thread.

`GraphTask` extends it with the task API: tasks are added, related and renamed
by calls in any order, `LoadTaskGroup` makes declarations of the tasks and
`Graph::Build` runs on them; after a failure the calls may go on and the group
be loaded again, after a success the built cluster is kept. The fields `after`
and `ids` of a task record what was stated, by position and not by id, and are
read by properties only; `taken` is the group as the last build found it.

`ClusterExec` composes contexts: a call runs the graph `main` of a cluster, and
a vertex may run a graph of another cluster, or of its own, in a context it
borrows from that cluster's pool. `ctx` holds what a `GraphClusterContext` and
the `GraphContext` it runs keep, `vtx` what a `VertexContext` keeps (`sub` is
the borrowed context, `open` says that a graph of it is set in `_subgraph_ctx`),
`parent` the parents of `Params` objects. `SeesOwnCall` compares what a lookup
through the parents finds with what the declarations and the call give.
Steps are coarser than in `GraphExec`, which shows that the threads of one graph
may be taken as one: a vertex is ready when its dependencies are done, and its
end is one step. `Release` resets one context at a time, from the inside out,
as the nested `Reset` does.

`GraphStore` models ownership in the store, for one cluster name: the current
handle, the handles that `Load` and `FindGraphClusterByName` returned and callers
keep (`kept`), the pools, the data contexts of the callers and who holds them (a
shared pointer count is a set of holders), the release closure, the reset
workers and the destructor. What happens between the start and the end of a
graph is left to `GraphExec`. `child` is the pointer through which a caller
reads results from the graph's own data context after the execution.

`GraphData` models the data of one graph context: the table that `Setup`
registers entries in, the inputs a vertex looks up one after the other (with
aggregates and names taken from variables), each lookup going through the
graph's own table, the caller's context, the DI container and the contexts of
executed subgraphs, one step per context, the outputs it collects one by one,
and the moves for skipped vertices, with the copy and the clearing of an entry
as two steps. A key stands for a name with a type; a value is a record of who
made it, for which key and in which execution. When a vertex may start is taken
from `GraphExec`: after its dependencies, and not if a required one failed; any
vertex may be skipped, for the other reasons there are. The values of a subgraph
appear at its end, all at once. In the code its context is a child (number 0) from
its start, so that a vertex beside it may read a value earlier; in the model that is
an execution in which the subgraph ended before, and its dependents started late.
That a subgraph is displaced as child 0 by another one is in `ClusterExec` only, and
a reader that finds one value of a running subgraph and misses another is not
modelled.

`GoExec` models one pooled context of the Go engine, with a goroutine per
vertex, in the same way.

`GoBuild` models `GraphCluster.Build` of the Go engine. The loops over Go maps
take any vertex or graph that is left. `options` is what the cluster declares
beside its graphs: `strict_dsl`, whether its default processors are registered
(tested first, in `Begin`) and whether its config settings can be set up (tested
last, in `PoolBuilt`). A nil field that the build would dereference ends it as
`panic`. What the declarations mean is defined beside it without any order
(`Derived`, `Explicit`, `Edges`, `Faultless`, `MissingField`), and the built graph and
the verdict are compared with that. Of several inputs from one producer the first
decides (`Derived`): an optional one before a required one makes the dependency
optional, although `src/didagle/README.md` (lines 131-133) derives `deps_on_ok` from
every required input.

`MC...` modules define the small graphs. The `..._proofs` modules hold the proofs:
`GraphBuild_proofs` and `GraphTask_proofs` (which extends it), `GraphExec_proofs`,
`GoExec_proofs`, `GraphStore_proofs`, `GraphData_proofs`, `ClusterExec_proofs` and
`ClusterLevels_proofs` (which extends it).

Definitions called `Mutant_...` are faulty variants of the definition they
precede; each property of a passing run is violated when the one named in
`PROJECT.json` is put in place, so no property holds by the shape of the model.

## Runs

| Run | Instance | What it shows |
|---|---|---|
| `exec_branch` | five vertices: condition, if and else branch, a start vertex beside them that may exit early, and a vertex all meet in; end time, failing injection, config setting, skip not an error | all safety properties of an execution, termination, and that it implements `DagRun` |
| `exec_while` | while graph of a condition and two body vertices, three rounds, two executions of one context, early exit from the body, lost future | `ResetState` may start the next round at once; early exit ends the loop; reuse is clean; every execution ends, unless a future was lost |
| `exec_lost` | the same graph | violation of `AlwaysEnds`: an exceptional future never finishes its vertex |
| `build` | all graphs of explicit relations over three vertices, families with data flow, shared conditions and faulty declarations, and groups of up to three tasks after any three calls | circles are decided rightly, inputs ordered, conditions guard; an accepted group is ordered exactly as stated, a renamed task makes it fail or keeps its relations, and branches added after their condition are exclusive |
| `build_late` | a consumer declared before the condition that produces its input and guards it | violation of `ExplicitOverrides` |
| `build_circle` | `example/circle.toml` | violation of `CircleRefused`: the stack overflows |
| `store` | three executions, two of them with one data context and one of a missing graph, two loads, whose handles callers keep, look up again and let go, pool of one | contexts are owned by one execution or one pool, old clusters live as long as needed, results stay readable while the caller keeps its data context, the destructor leaves nothing behind but what callers keep, and ends |
| `cluster` | two calls, one with parameters and a time out; seven sets of clusters: two subgraphs one after the other in either order or side by side, a loop around a subgraph whose cluster may be loaded late, a graph that is missing; config settings, one without a processor, select_args by setting and by expression | a context is held by one vertex, call or pool and comes back clean; arguments and settings are those of the own call; caller and callee agree at each level; results of subgraphs stay reachable; nothing starts after the end time; no call hangs |
| `data` | 25 graphs of up to four vertices: a chain with an in-place vertex that may be skipped, two takers of one value with an aggregate behind them, a subgraph beside its reader, a value the caller has as well, a setup that fails; two executions of one context | inputs arrive whoever else reads the table, a moved value has one owner, a skipped vertex passes its input on, nothing of the first execution is seen by the second |
| `go_exec` | five vertices with two branches and a config setting, two executions of one context, calls that name a missing graph | order, quiet return, termination unless something is missing, implements `DagRun` |
| `go_build` | all graphs of three vertices, all combinations of explicit and derived relations between two, data made twice, in place, aggregated or from outside, an optional input before a required one, faulty declarations and clusters, versions and priorities; every order of the maps | a cluster is saved exactly if nothing speaks against it; it panics only where a field is missing, reports a circle only where there is one and refuses the rest only for another fault; the built graph is what is declared |
| `go_missing` | a vertex and a subgraph | violation of `AlwaysReturns` after a call for a missing graph |

### Bounds

`MaxRounds` (passes of a loop), `MaxRuns` (executions of a pooled context),
`MaxStack` (nested calls), `MaxCalls` (calls of the task API), `MaxLoads`,
`PoolSize` and the set `Execs`; in `cluster` also `MaxCtxs` (contexts created) and
`Nesting` (how far the lookup of a parameter or a setting goes up), both as large
as two calls need, and
the number of calls at once, two for the smaller designs and one for the others. Two executions reach every state a reused
context can carry over, since `Reset` forgets everything else; three rounds have
a first, a middle and a last one. Five vertices give two concurrent branches, a
join of three and an independent thread. The circle test is bounded by a stack
deeper than the number of vertices, so an overflow is a recursion that repeats a
vertex. Two loads give a replaced and a current handle, and with a pool of one
both ways of getting a context occur. In `data` four vertices give two that
compete and one that consumes what both made. In `cluster` one call after another
reuses every context, two at once compete for the pool, and three levels have a
context that both holds and is held. Deadlock is checked in `cluster`, where only the
end of all calls has no next step. Elsewhere it is not: an execution, a build and a
store end, and the bounds stop the rest.

### Fairness

`GraphExec`: the engine's own steps and dispatching are weakly fair (a posted
task runs, a thread goes on), and so is the outcome of a processor (it returns
or its future completes). Nothing is assumed of the end time, of `Reset` or of
a future that ends with an exception. `GraphBuild`, `GraphTask`
and `GoBuild` are loops of one thread, without fairness; `ClusterExec` has none
either: rounds and calls are bounded, so each behaviour ends, and the deadlock
check shows that it ends with every call released.
`GraphStore`: graphs end, reset workers run what is posted, the destructor
polls; callers need not let go of their data contexts, which is why
`DestructorEnds` has that as its premise. `GoExec`: goroutines are scheduled and
operators return.

## Proofs

Each theorem holds for every value of the constants (any finite graph, any number
of rounds, runs, calls and contexts) and every interleaving. None of the properties
is inductive; each module strengthens them to an invariant, `IInv`, of named parts,
with one lemma per action. What the parts say is what a reader of the code has to
know to believe it.

| Module | Theorems |
|---|---|
| `GraphBuild_proofs` | `BuildInvariant`, `CircleDecidedAlways`, `InputsOrderedAlways`, `ConditionGuardsAlways` |
| `GraphTask_proofs` | `TaskInvariant`, `TaskCircleDecided`, `BranchesAfterConditionAlways`, `TasksOrderedAlways` |
| `GraphExec_proofs` | `Invariance`, `TypeCorrect`, `ReadyAfterDepsHolds`, `RunsAsExpectedHolds`, `OnceEachHolds`, `QuietWhenDoneHolds`, `QuietAtLastHolds`, `ExitCodeReportedHolds`, `ExitStopsDependentsHolds`, `ExitEndsLoopHolds`, `ReuseIsCleanHolds`, `ImplementsDagHolds` |
| `GoExec_proofs` | `GoInvariance`, `GoTypeCorrect`, `QuietOnReturnHolds`, `GoImplementsDagHolds` |
| `GraphStore_proofs` | `StoreInvariance`, `StoreTypeCorrect`, `ContextOwnedHolds`, `OwnClusterHolds`, `DataAliveHolds`, `ResultsReadableHolds`, `DestroyedCleanHolds` |
| `GraphData_proofs` | `DataInvariance`, `DataTypeCorrect`, `OwnRunHolds`, `ArrivalInvariance`, `InputsArriveHolds`, `MoveInvariance`, `MovedOnceHolds`, `PassInvariance`, `PassedOnHolds` |
| `ClusterExec_proofs` | `ClusterInvariance`, `ContextHeldHolds`, `NoLateStartHolds` |
| `ClusterLevels_proofs` | `LevelsInvariance`, `LevelsAgreeHolds`, `ChildInvariance`, `ChildReachableHolds` |

### Assumptions

All are named, stand in the module that declares the constants and are evaluated by
TLC in the runs. `IdAssumption` and `PlanAssumption` of the builder: there are finitely
many ids, those of generated conditions are in no declaration (`graph.cpp:32` stores
a generated vertex under its id without a look whether one was declared with it), and the stack holds a
call per vertex (with less the search may run out of stack on a graph without a
circle). `TaskAssumption`: tasks get ids. `GraphAssumption`, `CodeAssumption`, `FlagAssumption` and
`GoAssumption`: vertices are finite and nonempty, the dependency functions are
functions, codes are nonzero integers, flags are Boolean. That a graph has no circle
is not needed for safety. `StoreAssumption`: finitely many executions, each with its
data context. `DataAssumption`: what `Setup` leaves, e.g. an in-place output names an
input of its vertex, and an input that is no aggregate has one id. `ClusterAssumption` and `BuiltAssumption`: what building leaves,
i.e. dependencies stay within a graph and have no circle, a graph that a vertex finds in its
cluster exists, subgraphs of one graph have different positions, and a graph has
a vertex. The last one is needed: `GraphContext::Execute` calls its closure when the
last vertex is done, so a graph without vertices never does.

### Building

`IInv` of `GraphBuild_proofs` follows the three loops of `Graph::Build`:

* `PlanNames`, `GenNames`, `Registry`: which declarations the first loop has been at
  (`Seen`), that a generated condition is in the table under its own id, and that ids
  and producers in the tables are those of the vertices seen so far;
* `Linked`, `RelationsBuilt`, `InputsBuilt`: the second loop has made a dependency of
  every relation and every input before its present place (`Done`), and none with a
  vertex that is not in the table;
* `FirstDecides`: a dependency that exists was made by a relation or an input, and
  what it expects was decided by the first of them. This is what `ConditionGuards`
  needs: the only relation that leads to a generated condition is that of `expect`;
* `CircleInv`: the frames of the circle test are a path from the vertex it looks for
  (`OnPath`); as long as that vertex is on a circle, a frame still holds a vertex
  from which it can be reached (`Ahead`); vertices already tested are on none.

The circle test keeps no record of where it has been, so its frames may repeat a
vertex. That a path which does so, or which is longer than there are vertices, shows
a circle is the pigeon hole principle; that a graph whose vertices all fail to reach
themselves has no set closed under predecessors, which is how `Cyclic` is stated,
is an argument by a minimal reachable set (`Reach` is the least closed set, so no
induction over paths is needed).

`GraphTask_proofs` adds `Related`, for the tasks of a group and for those taken by the
last load: a task stated to follow another keeps an id the other has or had, and every
id kept was that of a task so related. `FromTasks` says that the declarations being
built are those of the tasks taken, with branches merged for the vertices the first
loop has seen. With `RelationsBuilt`, `FirstDecides` and the premise that no id was
used for two tasks, the dependencies are exactly the relations stated.

### One context, C++

`IInv` of `GraphExec_proofs` says what the counters mean:

* `SettledInv`: a vertex past its processor has a result, the others none;
* `SlotInv`: the slot of dependency `d` in successor `s` is filled exactly if
  `d`'s thread has passed the store, and then holds `d`'s result;
* `CountInv`: the counter of `s` is the number of dependencies whose thread has
  not passed the decrement, and `s` leaves its waiting state at zero;
* `JoinInv`: the join counter is the number of vertices that have not passed
  theirs;
* `LoopInv`, `IdleInv`, `ListInv`, `PhaseInv`, `CallInv`: where a thread is in
  the loop over successors, that a vertex is on one ready list or on none, and
  how `phase`, `calls` and `pc` agree;
* `ExitInv`, `RanInv`: an early-exit code is stored before the vertex joins, and
  what ran had matching dependencies.

The step that matters is the last decrement: the join counter is one, so every
other vertex has joined; a vertex that has not finished notifying would have a
successor that is still waiting and so has not joined; hence all loops are at
their end and all lists are empty, and `ResetState` or the closure meets nobody who
has something left to do. A thread may be as late as before the read of the length
of its list (`joined`) or before its end (`notifying`, nothing to do): `Setup` made that
list and neither `Reset` nor `ResetState` changes it, so the late read is harmless as long
as the context is not deleted.
The counting uses the cardinality lemmas of the library's finite set theorems.

For early exits there are also `FailedInv` (an early-exit vertex that ran and settled
with an error has left a code, so the guard of its dependents cannot miss it) and
`RoundInv` (the round of the first exit, and that in the one after it nothing runs
and every settled vertex was skipped, so the condition cannot ask for a third).

The last part shows that every step is a step of `DagRun`, under the
refinement mapping of `GraphExec`, or stutters; the guards of `DagRun` come from
`IInv`.

### Go

The same counters, and `GroupInv`: as long as vertices are pending the `WaitGroup`
is not zero. A call for a missing graph only adds to it, so it spoils later calls
(finding 4), but `Wait` never returns early.

### Store

`PlaceInv` says where every context ever created is (a pool, an execution, or
deleted), `HoldInv` that an execution holds one context and nobody else holds it,
`CallInv` and `ReleaseInv` that the release closure is with exactly one data context
until it is called, `CountInv` what `running_graphs_` counts. The last part of
`CountInv` bounds the contexts by the calls begun and the loads, which makes the
numbering of contexts in the model sufficient. `DoneInv` says that nothing is posted for reset
between the end of a graph and `done` as long as the caller keeps the data context,
`DestroyInv` that a destroyed store has no handle and counts no execution. With the
others `DestroyedClean` follows: every execution is counted, so its context is in a pool
or deleted (`PlaceInv`), and a pool that is not deleted has a handle somebody holds,
which can only be a caller. It holds at any time after the destructor has returned,
while callers let go of handles and data contexts.

### Data

`Rest` and `Control` are the types: where a vertex's thread is exists in the graph.
`Stored` and `Holding` say of every value in every context, and of every value in a
vertex's hands, where it is from: one that a vertex made is of this execution, and
there is none between executions. A lookup walks through contexts that others write
in the meantime, so it is needed of all of them at once.

The other three properties say what becomes of a value after it was stored. Each has a
premise that says for which graphs it can be expected, because for some that `Build`
and `Setup` accept it is false: a vertex with two moved inputs of one name gets the
value once; two takers may share a value that is being moved for a skipped vertex,
or that an in-place vertex read without moving it and stored under another name.
`OnlyFor`, `Orderly` and `Route` exclude these, and every graph of the run is `Orderly`.

* `InputsArrive`. `Results` says that a vertex takes inputs only after its dependencies
  are done, with their results, `Taken` that an input is empty until one of its lookups
  was made. `Arrival` follows a value that is awaited: once stored it is in the table or
  with its consumer (`KeptFor`), and the lookup for it begins at the table and has found
  it once it lies behind (`FoundFor`). The sequence of lookups is a concatenation
  (`FlattenSeq`) of those of each input; the lemmas about it argue by the least index for
  which they would fail, since induction over a sequence is out of reach.
* `MovedOnce`. A value is at one place (`Lone`): an entry of a table, where one that is
  being cleared no longer counts (`Clearing`), or the hands of a vertex that has not
  given it on yet (`InHand`). `MoveCopy` thus moves it in one step, although the value
  can be read twice until `MoveClear`; nobody but its vertex moves from that entry, which
  is what `Orderly` is for. A value is nowhere before its vertex has made it, so storing
  it gives it one place (`Born`); a lookup that moves does not go to the container
  (`Paths`), and between executions only the caller and the container have values
  (`Idle`).
* `PassedOn`. Until the move the value is where its producer stored it, as long as the
  skipped vertex has taken nothing (`InStock`); after it, it is in the entry where the
  consumer looks or with the consumer, whose only lookup for it begins at the table
  (`OnWay`). That the consumer comes after both is `Past`.

### Clusters

`ClusterExec_proofs` counts holders: `Hold` says that a context in use is with one
call or one vertex, that those in a queue and those not created are fresh, and that
a subgraph has the end time of the context around it. One step may borrow a context
and finish the vertex, so `Hold` is stated of any contexts, vertices and pools, and
carried first to the state in between.

`ClusterLevels_proofs` adds `LInv`: what a vertex's state says of the context it holds.
While the vertex has not come to it in this round the subgraph is `Unused` (counters
full, everything waiting); while it runs the subgraph is `Active` (the waiting
vertices are those with an unfinished dependency, the join counter is the number of
the unfinished, and the closure is yet to be called); when it is done it is at rest
(`Unused` or `Spent`). The step that matters is again the last join: an ended graph
has no vertex left that runs, so every context below it is at rest (`BelowAtRest`),
and `ResetState`, which resets the graphs below at every depth, makes all of them
`Unused` (`Again`). That a graph in course is never stuck (`AtWork`) is where the
absence of circles is used. `But` is the same for a state in which one vertex is
about to be done and its subgraph has already reported.

`KInv`, on top of it, is about the children: the subgraph of a vertex that is done is in
the vertex's own position, unless that is 0 and another subgraph ran in this round.
It needs the levels, since only vertices of one graph have different positions.

### Only model-checked

* Liveness (`ExecutionEnds`, `DestructorEnds`, `ReturnsUnlessMissing`), which needs
  fairness and `ENABLED`, beyond the prover, and the deadlock check of `cluster`.
* `SeesOwnCall`: a parameter or a setting is looked up along a line of objects of any
  length, and that the line stays the same from round to round is an induction over
  a recursive function.
* `VerdictDeserved` and `BuiltAsDeclared` of `GoBuild`: what is declared is defined by
  folds over the versions of a graph and over paths, and the provers cannot use
  the facts about folds, which have an operator as a parameter.

## Findings

Four places where the code does not do what its documentation, comments or tests
say; each is a run that violates one property:

1. an exception in a processor's future is lost and the execution never ends
   (`exec_lost`);
2. an input declared first overrides an explicit relation (`build_late`); for the
   same reason the if and else branches of a task group both run when they were
   added before their condition, which is why `BranchesAfterCondition` is about
   branches added after it;
3. the circle test overflows the stack on a circle beside its start, as in
   `example/circle.toml` (`build_circle`);
4. in Go, a call for a missing graph makes the next call on the same pooled
   context hang (`go_missing`).

Observations without a run. On contexts within contexts:

* the store's destructor may return before a closure has been called: `graph_done`
  drops the data context before it calls `done`, and with the last reference gone
  the reset worker counts the execution as finished, although `CHANGELOG.md` (line 18)
  says that the destructor waits for all running graphs. `DestroyedClean` says when: only
  if the caller gave its data context up before `done`. The thread is then still in the
  closure of a `GraphContext` that may be reused or deleted; `ContextOwned` is about
  executions that have not given their context back, and does not follow it;
* a caller that keeps a handle keeps the contexts in its pool beyond the store;
* every subgraph puts its data context at child 0 of the graph around it when it
  starts, and at its own position when it ends; a subgraph whose position is 0 is
  displaced by any that starts later (the exception in `ChildReachable`);
* the early exit code of a subgraph in a loop outlives the round: `ResetState`
  keeps it, and the body is inert in the rounds after;
* `GetExecParams` selects again in every round, but the subgraph's context keeps
  the parameters of the first;
* `inherit_default` has no effect: `Setup` makes the default arguments the parent
  and the `Reset` at its end takes it away;
* a config setting whose processor is not registered shifts the names of those
  after it, when `strict_dsl` is off.

On building:

* contradicting explicit relations between two vertices are decided, in Go, by the
  order of a map: the graph may differ from one load to the next;
* an id that one task gave up and another took moves the relations stated with it
  (the premise of `TasksOrdered`);
* statements made after a group was built are ignored without an error;
* in C++ a graph of lower priority is built too if it is declared first, and the
  cluster is refused if that fails.

On data:

* an input named by a variable that is registered in the table is looked up at
  the entry of its `$` name, which nobody writes, so a value of the resolved
  name in the same graph is not found (graph `recall_3` of
  `example/recall_test.toml`);
* for an aggregate with a variable among its ids, the result of the lookup under
  the resolved name is overwritten by that under the `$` name: a required one
  always fails;
* an output whose name comes from a variable is dropped, without an error, unless
  some vertex registered that name;
* moving one entry to another is a load and a later clear, and a vertex that
  takes the value in between shares it;
* a vertex that took its input and then fails has nothing left to pass on: the
  premise of `PassedOn` excludes it;
* after an `Execute` of a missing graph the caller's data context keeps the child
  of its previous execution.

## Not modelled

C++: the while graphs that `GraphCluster::Build` generates (their execution is
in `exec_while` and `cluster`) and its choice among graphs of one name; task
groups within groups; parsing, typed values and dotted names of `Params`;
data as seen from within a subgraph, except config settings; the shared pointer
kept next to a value; arenas and user contexts; expressions, events and logs, DOT
output, the DI container's factories, coroutine adapters, command line tools.
In `GraphExec` an injection may fail, no more, and a subgraph is a vertex that
returns some code. Go: operators and reflection, parameters, the while operator.
The Python generator writes text.

Memory order: the code's atomics are sequentially consistent, and plain fields
are read after an atomic that orders them, except the early exit code, which is
read and written without order; the model lets any interleaving of the test and
the store happen.

## Open

What could be proved next: the part of `SeesOwnCall` that does not depend on the
length of the line (the args of a running vertex have the parameters of its context
as their parent, and those of a call none); `GoBuild`, after its reference definitions
are restated with least closed sets in place of folds, as `Reach` is in
`GraphBuild_proofs`. What could be modelled next: the while graphs that
`GraphCluster::Build` generates, and data as seen from within a subgraph.
