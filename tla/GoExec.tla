------------------------------- MODULE GoExec -------------------------------
(***************************************************************************)
(* A pooled GraphClusterExecuteContext of the Go engine (go/context.go):   *)
(* ExecuteGraph by one goroutine per vertex, the WaitGroup its caller      *)
(* waits on, and the reuse of the context from the sync.Pool.              *)
(***************************************************************************)
EXTENDS Integers, FiniteSets

CONSTANTS
  Vertices,      \* the vertices of the graph
  Deps,          \* Deps[v]: the keys of v's depsVertexIdxMap
  Expected,      \* Expected[v][d]: depsExpectResults, as a set of results
  Conditional,   \* vertices with an expression to evaluate: Expect
  ConfigNames,   \* the names of ConfigSetting
  ExpectConfig,  \* the name v's ExpectConfig tests, or NoName
  NegatedConfig, \* vertices whose ExpectConfig starts with '!'
  NoName,
  Unresolved,    \* subgraph vertices whose cluster is not loaded
  MayMiss,       \* callers may name a graph the cluster does not have
  MaxRuns        \* bound: calls of ExecuteGraph

Results == {"OK", "ERR"}
Invalid == "INVALID"

ASSUME GoAssumption ==
  /\ IsFiniteSet(Vertices) /\ Vertices # {}
  /\ Deps \in [Vertices -> SUBSET Vertices]
  /\ Expected \in [Vertices -> [Vertices -> SUBSET Results]]
  /\ NoName \notin ConfigNames
  /\ ExpectConfig \in [Vertices -> ConfigNames \cup {NoName}]
  /\ MayMiss \in BOOLEAN /\ MaxRuns \in Nat

VARIABLES
  phase,    \* "pooled", or "executing": ExecuteGraph has not returned
  pc,       \* the goroutine of each vertex
  waiting,  \* waitingNum
  depRes,   \* depsResults
  result,   \* the argument of vertexDone, a skip already turned into an error
  pending,  \* pendingVertices
  wg,       \* the counter of the WaitGroup
  config,   \* the config settings in runningParams
  todo,     \* successors vertexDone has still to visit
  target,   \* the successor whose counter it is about to touch
  runs,     \* calls of ExecuteGraph so far
  calls,    \* history: how often execute was called on each vertex
  missed    \* history: a call named a graph that does not exist

vars == <<phase, pc, waiting, depRes, result, pending, wg, config, todo, target,
          runs, calls, missed>>

Start == {v \in Vertices : Deps[v] = {}}
Successors(v) == {s \in Vertices : v \in Deps[s]}

TypeOK ==
  /\ phase \in {"pooled", "executing"}
  /\ pc \in [Vertices -> {"idle", "scheduled", "running", "finishing",
                          "notifying", "counting", "gone", "lost"}]
  /\ waiting \in [Vertices -> Nat]
  /\ depRes \in [Vertices -> [Vertices -> Results \cup {Invalid}]]
  /\ result \in [Vertices -> Results \cup {Invalid}]
  /\ pending \in Nat /\ wg \in Nat
  /\ config \in [ConfigNames -> BOOLEAN]
  /\ todo \in [Vertices -> SUBSET Vertices] /\ target \in [Vertices -> Vertices]
  /\ runs \in Nat /\ calls \in [Vertices -> Nat] /\ missed \in BOOLEAN

-----------------------------------------------------------------------------
FreshWaiting == [v \in Vertices |-> Cardinality(Deps[v])]

Init ==
  /\ phase = "pooled"
  /\ pc = [v \in Vertices |-> "idle"]
  /\ waiting = FreshWaiting
  /\ depRes = [v \in Vertices |-> [d \in Vertices |-> Invalid]]
  /\ result = [v \in Vertices |-> Invalid]
  /\ pending = Cardinality(Vertices) /\ wg = 1
  /\ config \in [ConfigNames -> {FALSE}]
  /\ todo = [v \in Vertices |-> {}] /\ target = [v \in Vertices |-> v]
  /\ runs = 0 /\ calls = [v \in Vertices |-> 0] /\ missed = FALSE

\* The config settings are evaluated, and each start vertex gets a goroutine.
ExecuteGraph(settings) ==
  /\ phase = "pooled" /\ runs < MaxRuns
  /\ phase' = "executing"
  /\ runs' = runs + 1
  /\ config' = settings
  /\ pc' = [v \in Vertices |-> IF v \in Start THEN "scheduled" ELSE "idle"]
  /\ calls' = [v \in Vertices |-> 0]
  /\ UNCHANGED <<waiting, depRes, result, pending, wg, todo, target, missed>>

\* ErrGraphNotFound; the deferred recycle resets the context, and Reset adds
\* to the WaitGroup although nothing has been subtracted.
ExecuteMissing ==
  /\ phase = "pooled" /\ MayMiss /\ runs < MaxRuns
  /\ runs' = runs + 1
  /\ wg' = wg + 1
  /\ missed' = TRUE
  /\ UNCHANGED <<phase, pc, waiting, depRes, result, pending, config, todo,
                 target, calls>>

\* wg.Wait returns, then the deferred recycle: Reset of the graph and of its
\* vertices, and the context is back in the pool.
Return ==
  /\ phase = "executing" /\ wg = 0
  /\ phase' = "pooled"
  /\ wg' = wg + 1
  /\ pending' = Cardinality(Vertices)
  /\ waiting' = FreshWaiting
  /\ depRes' = [v \in Vertices |-> [d \in Vertices |-> Invalid]]
  /\ result' = [v \in Vertices |-> Invalid]
  /\ pc' = [v \in Vertices |-> "idle"]
  /\ UNCHANGED <<config, todo, target, runs, calls, missed>>
-----------------------------------------------------------------------------
(***************************************************************************)
(* VertexExecuteContext.execute.                                           *)
(***************************************************************************)
Mutant_DepsMatch(v) == \* a failed dependency is not an obstacle
  \A d \in Deps[v] : depRes[v][d] = "OK" => "OK" \in Expected[v][d]
DepsMatch(v) == \A d \in Deps[v] : depRes[v][d] \in Expected[v][d]

ConfigMatch(v) ==
  ExpectConfig[v] # NoName => (config[ExpectConfig[v]] <=> v \notin NegatedConfig)

Mutant_Skip(v) == \* returns without vertexDone
  /\ pc[v] = "scheduled"
  /\ ~DepsMatch(v) \/ ~ConfigMatch(v) \/ v \in Conditional
  /\ result' = [result EXCEPT ![v] = "ERR"]
  /\ pc' = [pc EXCEPT ![v] = "gone"]
  /\ calls' = [calls EXCEPT ![v] = @ + 1]
  /\ UNCHANGED <<phase, waiting, depRes, pending, wg, config, todo, target, runs,
                 missed>>

\* A skipped vertex reports an error to its successors. The expression of a
\* conditional one may be false.
Skip(v) ==
  /\ pc[v] = "scheduled"
  /\ ~DepsMatch(v) \/ ~ConfigMatch(v) \/ v \in Conditional
  /\ result' = [result EXCEPT ![v] = "ERR"]
  /\ pc' = [pc EXCEPT ![v] = "finishing"]
  /\ calls' = [calls EXCEPT ![v] = @ + 1]
  /\ UNCHANGED <<phase, waiting, depRes, pending, wg, config, todo, target, runs,
                 missed>>

Run(v) ==
  /\ pc[v] = "scheduled" /\ DepsMatch(v) /\ ConfigMatch(v)
  /\ pc' = [pc EXCEPT ![v] = "running"]
  /\ calls' = [calls EXCEPT ![v] = @ + 1]
  /\ UNCHANGED <<phase, waiting, depRes, result, pending, wg, config, todo,
                 target, runs, missed>>

\* The operator or the subgraph returns, or panics: recover makes an error of it.
Complete(v, r) ==
  /\ pc[v] = "running" /\ v \notin Unresolved
  /\ result' = [result EXCEPT ![v] = r]
  /\ pc' = [pc EXCEPT ![v] = "finishing"]
  /\ UNCHANGED <<phase, waiting, depRes, pending, wg, config, todo, target, runs,
                 calls, missed>>

\* The cluster of the subgraph is not found: execute returns an error that
\* nobody reads, without vertexDone.
SubgraphMissing(v) ==
  /\ pc[v] = "running" /\ v \in Unresolved
  /\ pc' = [pc EXCEPT ![v] = "lost"]
  /\ UNCHANGED <<phase, waiting, depRes, result, pending, wg, config, todo,
                 target, runs, calls, missed>>
-----------------------------------------------------------------------------
(***************************************************************************)
(* vertexDone.                                                             *)
(***************************************************************************)
PendingOther(v) ==
  /\ pc[v] = "finishing" /\ pending # 1
  /\ pending' = pending - 1
  /\ pc' = [pc EXCEPT ![v] = "notifying"]
  /\ todo' = [todo EXCEPT ![v] = Successors(v)]
  /\ UNCHANGED <<phase, waiting, depRes, result, wg, config, target, runs, calls,
                 missed>>

Mutant_PendingLast(v) == \* tests the counter before it subtracts
  /\ pc[v] = "finishing" /\ pending <= 2
  /\ pending' = pending - 1
  /\ wg' = wg - 1
  /\ pc' = [pc EXCEPT ![v] = "gone"]
  /\ UNCHANGED <<phase, waiting, depRes, result, config, todo, target, runs,
                 calls, missed>>

\* The last vertex wakes the caller.
PendingLast(v) ==
  /\ pc[v] = "finishing" /\ pending = 1
  /\ pending' = 0
  /\ wg' = wg - 1
  /\ pc' = [pc EXCEPT ![v] = "gone"]
  /\ UNCHANGED <<phase, waiting, depRes, result, config, todo, target, runs,
                 calls, missed>>

\* setDependencyResult stores the result ...
NotifyResult(v, s) ==
  /\ pc[v] = "notifying" /\ s \in todo[v]
  /\ todo' = [todo EXCEPT ![v] = @ \ {s}]
  /\ target' = [target EXCEPT ![v] = s]
  /\ depRes' = [depRes EXCEPT ![s][v] = result[v]]
  /\ pc' = [pc EXCEPT ![v] = "counting"]
  /\ UNCHANGED <<phase, waiting, result, pending, wg, config, runs, calls, missed>>

\* ... and counts it; the successor it is the last dependency of gets its
\* goroutine.
NotifyCount(v) ==
  LET s == target[v] IN
  /\ pc[v] = "counting"
  /\ waiting' = [waiting EXCEPT ![s] = @ - 1]
  /\ pc' = [pc EXCEPT ![v] = "notifying",
                      ![s] = IF waiting[s] = 1 THEN "scheduled" ELSE @]
  /\ UNCHANGED <<phase, depRes, result, pending, wg, config, todo, target, runs,
                 calls, missed>>

NotifyEnd(v) ==
  /\ pc[v] = "notifying" /\ todo[v] = {}
  /\ pc' = [pc EXCEPT ![v] = "gone"]
  /\ UNCHANGED <<phase, waiting, depRes, result, pending, wg, config, todo,
                 target, runs, calls, missed>>
-----------------------------------------------------------------------------
\* The steps of the goroutine of v.
Goroutine(v) ==
  \/ Skip(v) \/ Run(v) \/ SubgraphMissing(v)
  \/ \E r \in Results : Complete(v, r)
  \/ PendingOther(v) \/ PendingLast(v)
  \/ \E s \in Vertices : NotifyResult(v, s)
  \/ NotifyCount(v) \/ NotifyEnd(v)

Next ==
  \/ \E settings \in [ConfigNames -> BOOLEAN] : ExecuteGraph(settings)
  \/ ExecuteMissing
  \/ Return
  \/ \E v \in Vertices : Goroutine(v)

Spec == Init /\ [][Next]_vars

\* Goroutines are scheduled and operators return.
FairSpec == Spec /\ WF_vars(Return) /\ \A v \in Vertices : WF_vars(Goroutine(v))
-----------------------------------------------------------------------------
\* When the caller may return and reset the context, every vertex was executed
\* once and no goroutine has anything left to write.
QuietOnReturn ==
  phase = "executing" /\ wg = 0 =>
    \A v \in Vertices : calls[v] = 1 /\ todo[v] = {} /\ pc[v] \in {"notifying", "gone"}

\* ExecuteGraph returns, unless a graph or a cluster was not found.
ReturnsUnlessMissing ==
  phase = "executing" ~>
    phase = "pooled" \/ missed \/ \E v \in Vertices : pc[v] = "lost"

\* ExecuteGraph returns.
AlwaysReturns == phase = "executing" ~> phase = "pooled"
-----------------------------------------------------------------------------
Status(v) ==
  CASE pc[v] \in {"idle", "scheduled"} -> "waiting"
    [] pc[v] \in {"running", "lost"} -> "running"
    [] OTHER -> result[v]

Dag == INSTANCE DagRun WITH
         Passed <- {"ERR"},
         MayLoop <- FALSE,
         status <- [v \in Vertices |-> Status(v)],
         outcome <- IF phase = "pooled" THEN "idle"
                    ELSE IF pending = 0 THEN "done" ELSE "executing"

\* The Go engine executes graphs as DagRun says, like the C++ engine.
ImplementsDag == Dag!DagSpec
=============================================================================
