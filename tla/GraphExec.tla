----------------------------- MODULE GraphExec -----------------------------
(***************************************************************************)
(* One GraphContext of the C++ engine (didagle/store/graph_context.cpp)    *)
(* and its VertexContexts (didagle/store/vertex_context.cpp): the          *)
(* execution of a built graph by threads that the engine neither owns nor  *)
(* orders, the loop of a generated while graph, early exit, the end time,  *)
(* and the reuse of the context after Reset.                               *)
(*                                                                         *)
(* A thread that executes a vertex goes on, by tail calls, with the vertex *)
(* it makes ready last and posts the others to the async executor, so the  *)
(* program counter of a vertex is that of the thread working for it. Root  *)
(* is the thread that hands out the start vertices.                        *)
(***************************************************************************)
EXTENDS Integers, FiniteSets

CONSTANTS
  Vertices,      \* the vertices of the graph
  Deps,          \* Deps[v]: the keys of v's _deps_idx
  Expected,      \* Expected[v][d]: _deps_expected_results, a bit mask as a set
  Runnable,      \* vertices with a processor or a subgraph context
  CondVertices,  \* IsCondVertex()
  IgnoreError,   \* ignore_processor_execute_error
  EarlyExit,     \* early_exit_graph_if_failed on the vertex or on the graph
  IOVertices,    \* isIOProcessor()
  Injecting,     \* vertices whose InjectInputs may fail
  FutureMode,    \* processors that return a future or a coroutine
  SkipAsError,   \* vertex_skip_as_error
  HasDeadline,   \* an end time was set for the execution
  ConfigNames,   \* the names of the cluster's config_setting
  ExpectConfig,  \* ExpectConfig[v]: the name v's expect_config tests, or NoName
  NegatedConfig, \* vertices whose expect_config starts with '!'
  NoName,
  IsWhile,       \* _is_gen_while_graph
  WhileVertex,   \* _while_ctx, the only start vertex of a while graph
  FailCodes,     \* the nonzero codes a processor may return
  MaxRounds,     \* bound: the loop condition fails in this round at the latest
  MaxRuns,       \* bound: executions of the pooled context
  Root           \* the thread that dispatches the start vertices

Results == {"OK", "ERR", "SKIP"}
Invalid == "INVALID"
V_CODE_ERR == 2
V_CODE_SKIP == 3

\* The codes a processor can end with: what it returns, and the error code
\* that the engine substitutes for an exception.
ReturnCodes == {0, V_CODE_ERR} \cup FailCodes

ASSUME GraphAssumption ==
  /\ IsFiniteSet(Vertices) /\ Vertices # {}
  /\ Deps \in [Vertices -> SUBSET Vertices]
  /\ Expected \in [Vertices -> [Vertices -> SUBSET Results]]
  /\ Root \notin Vertices
ASSUME CodeAssumption ==
  /\ FailCodes \subseteq Int \ {0}
  /\ MaxRounds \in Nat \ {0}
  /\ MaxRuns \in Nat
ASSUME FlagAssumption ==
  /\ SkipAsError \in BOOLEAN /\ HasDeadline \in BOOLEAN /\ IsWhile \in BOOLEAN
  /\ NoName \notin ConfigNames
  /\ ExpectConfig \in [Vertices -> ConfigNames \cup {NoName}]
  /\ IsWhile => WhileVertex \in Vertices

VARIABLES
  phase,    \* "idle" (Reset, in the pool), "executing" or "done" (_done called)
  round,    \* which pass of the while loop this is; 1 in an ordinary graph
  pc,       \* the thread of each vertex
  waiting,  \* _waiting_num
  depRes,   \* _deps_results, by dependency
  result,   \* _result
  code,     \* _code
  join,     \* _join_vertex_num
  earlyRc,  \* early_exist_rc_
  expired,  \* ustime() has passed the end time
  config,   \* the config settings' values in the data context
  todo,     \* successors the OnVertexDone loop of a vertex has still to visit
  target,   \* the successor whose counter the loop is about to touch
  ready,    \* ready_successors of each thread; _start_ctxs for Root
  doneRc,   \* the code _done was called with
  runs      \* executions so far

\* History, read by properties only.
VARIABLES
  ran,      \* vertices whose processor or subgraph was started in this round
  calls,    \* how often Execute() was called on each vertex in this round
  dones,    \* how often _done was called in this execution
  exits,    \* codes of the early-exit vertices that failed in this execution
  exitRound \* the round in which earlyRc was set, 0 if it was not

history == <<ran, calls, dones, exits, exitRound>>
vars == <<phase, round, pc, waiting, depRes, result, code, join, earlyRc,
          expired, config, todo, target, ready, doneRc, runs, history>>

Dispatchers == Vertices \cup {Root}
Start == {v \in Vertices : Deps[v] = {}}
Successors(v) == {s \in Vertices : v \in Deps[s]}

PCs == {"idle", "ready", "scheduled", "running", "exiting", "lost",
        "finishing", "joined", "notifying", "subtracting", "loading",
        "dispatching", "done"}

\* The thread of v is past its decrement of the join counter.
Joined(v) ==
  pc[v] \in {"joined", "notifying", "subtracting", "loading", "dispatching", "done"}

TypeOK ==
  /\ phase \in {"idle", "executing", "done"}
  /\ round \in Nat
  /\ pc \in [Vertices -> PCs]
  /\ waiting \in [Vertices -> Nat]
  /\ depRes \in [Vertices -> [Vertices -> Results \cup {Invalid}]]
  /\ result \in [Vertices -> Results \cup {Invalid}]
  /\ code \in [Vertices -> ReturnCodes \cup {V_CODE_SKIP}]
  /\ join \in Nat
  /\ earlyRc \in ReturnCodes
  /\ expired \in BOOLEAN
  /\ config \in [ConfigNames -> {"true", "false", "unset"}]
  /\ todo \in [Vertices -> SUBSET Vertices]
  /\ target \in [Vertices -> Vertices]
  /\ ready \in [Dispatchers -> SUBSET Vertices]
  /\ doneRc \in ReturnCodes
  /\ runs \in Nat
  /\ ran \in SUBSET Vertices
  /\ calls \in [Vertices -> Nat]
  /\ dones \in Nat
  /\ exits \in SUBSET ReturnCodes
  /\ exitRound \in Nat

-----------------------------------------------------------------------------
\* The values ResetState() leaves in a context (graph and vertices).
Mutant_FreshWaiting == \* the last of several dependencies is not counted
  [v \in Vertices |-> IF Cardinality(Deps[v]) <= 1 THEN Cardinality(Deps[v])
                      ELSE Cardinality(Deps[v]) - 1]
FreshWaiting == [v \in Vertices |-> Cardinality(Deps[v])]
FreshDepRes == [v \in Vertices |-> [d \in Vertices |-> Invalid]]

Mutant_ResetJoin(startPc) == \* the join counter forgets a vertex
  /\ join' = Cardinality(Vertices) - 1
  /\ waiting' = FreshWaiting
  /\ depRes' = FreshDepRes
  /\ result' = [v \in Vertices |-> Invalid]
  /\ code' = [v \in Vertices |-> 0]
  /\ pc' = [v \in Vertices |-> IF v \in Start THEN startPc ELSE "idle"]
  /\ todo' = [v \in Vertices |-> {}]
  /\ target' = [v \in Vertices |-> v]
  /\ ran' = {}
  /\ calls' = [v \in Vertices |-> 0]

Mutant_ResetWaiting(startPc) == \* the dependency counters are left as they are
  /\ join' = Cardinality(Vertices)
  /\ waiting' = waiting
  /\ depRes' = FreshDepRes
  /\ result' = [v \in Vertices |-> Invalid]
  /\ code' = [v \in Vertices |-> 0]
  /\ pc' = [v \in Vertices |-> IF v \in Start THEN startPc ELSE "idle"]
  /\ todo' = [v \in Vertices |-> {}]
  /\ target' = [v \in Vertices |-> v]
  /\ ran' = {}
  /\ calls' = [v \in Vertices |-> 0]

\* A fresh round: every vertex waits for all its dependencies again, the
\* start vertices excepted, whose thread state the caller gives.
ResetState(startPc) ==
  /\ join' = Cardinality(Vertices)
  /\ waiting' = FreshWaiting
  /\ depRes' = FreshDepRes
  /\ result' = [v \in Vertices |-> Invalid]
  /\ code' = [v \in Vertices |-> 0]
  /\ pc' = [v \in Vertices |-> IF v \in Start THEN startPc ELSE "idle"]
  /\ todo' = [v \in Vertices |-> {}]
  /\ target' = [v \in Vertices |-> v]
  /\ ran' = {}
  /\ calls' = [v \in Vertices |-> 0]

\* ready_vertexs becomes the start vertices, for the thread that calls
\* ExecuteReadyVertexs(_start_ctxs).
StartList == [a \in Dispatchers |-> IF a = Root THEN Start ELSE {}]
NoList == [a \in Dispatchers |-> {}]

Init ==
  /\ phase = "idle"
  /\ round = 1
  /\ pc = [v \in Vertices |-> "idle"]
  /\ waiting = FreshWaiting
  /\ depRes = FreshDepRes
  /\ result = [v \in Vertices |-> Invalid]
  /\ code = [v \in Vertices |-> 0]
  /\ join = Cardinality(Vertices)
  /\ earlyRc = 0
  /\ expired = FALSE
  /\ config = [c \in ConfigNames |-> "unset"]
  /\ todo = [v \in Vertices |-> {}]
  /\ target = [v \in Vertices |-> v]
  /\ ready = NoList
  /\ doneRc = 0
  /\ runs = 0
  /\ ran = {} /\ calls = [v \in Vertices |-> 0]
  /\ dones = 0 /\ exits = {} /\ exitRound = 0

\* GraphContext::Execute, called by GraphClusterContext::Execute once it has
\* evaluated the config settings.
Execute(settings) ==
  /\ phase = "idle" /\ runs < MaxRuns
  /\ phase' = "executing"
  /\ runs' = runs + 1
  /\ config' = settings
  /\ ready' = StartList
  /\ pc' = [v \in Vertices |-> IF v \in Start THEN "ready" ELSE pc[v]]
  /\ dones' = 0
  /\ UNCHANGED <<round, waiting, depRes, result, code, join, earlyRc, expired,
                 todo, target, doneRc, ran, calls, exits, exitRound>>

Mutant_Reset == \* early_exist_rc_ survives
  /\ phase = "done"
  /\ phase' = "idle"
  /\ ResetState("idle")
  /\ ready' = NoList
  /\ expired' = FALSE
  /\ round' = 1
  /\ exits' = {} /\ exitRound' = 0
  /\ UNCHANGED <<earlyRc, config, doneRc, runs, dones>>

\* GraphContext::Reset, by the release closure after _done.
Reset ==
  /\ phase = "done"
  /\ phase' = "idle"
  /\ ResetState("idle")
  /\ ready' = NoList
  /\ earlyRc' = 0
  /\ expired' = FALSE
  /\ round' = 1
  /\ exits' = {} /\ exitRound' = 0
  /\ UNCHANGED <<config, doneRc, runs, dones>>

\* The end time passes.
Expire ==
  /\ phase = "executing" /\ HasDeadline /\ ~expired
  /\ expired' = TRUE
  /\ UNCHANGED <<phase, round, pc, waiting, depRes, result, code, join, earlyRc,
                 config, todo, target, ready, doneRc, runs, history>>

-----------------------------------------------------------------------------
(***************************************************************************)
(* ExecuteReadyVertexs. The vertices are listed in the order of a hash     *)
(* table, so any order; all but one are posted, and the thread goes on     *)
(* with the first that is not an IO processor, or with the first.          *)
(***************************************************************************)
Dispatching(a) == IF a = Root THEN ready[Root] # {} ELSE pc[a] = "dispatching"

Mutant_Post(a, r) == \* the posted vertex stays on the list
  /\ Dispatching(a)
  /\ r \in ready[a] /\ ready[a] # {r}
  /\ pc' = [pc EXCEPT ![r] = "scheduled"]
  /\ UNCHANGED <<phase, round, waiting, depRes, result, code, join, earlyRc,
                 expired, config, todo, target, ready, doneRc, runs, history>>

\* Hand r to the async executor; the vertex kept for the thread itself is not
\* an IO vertex unless all of them are.
Post(a, r) ==
  /\ Dispatching(a)
  /\ r \in ready[a] /\ ready[a] # {r}
  /\ ready[a] \ {r} \subseteq IOVertices => ready[a] \subseteq IOVertices
  /\ ready' = [ready EXCEPT ![a] = @ \ {r}]
  /\ pc' = [pc EXCEPT ![r] = "scheduled"]
  /\ UNCHANGED <<phase, round, waiting, depRes, result, code, join, earlyRc,
                 expired, config, todo, target, doneRc, runs, history>>

\* The last vertex of the list runs in place: the thread now works for it.
RunInPlace(a, r) ==
  /\ Dispatching(a)
  /\ ready[a] = {r}
  /\ ready' = [ready EXCEPT ![a] = {}]
  /\ pc' = [v \in Vertices |-> IF v = r THEN "scheduled"
                               ELSE IF v = a THEN "done" ELSE pc[v]]
  /\ UNCHANGED <<phase, round, waiting, depRes, result, code, join, earlyRc,
                 expired, config, todo, target, doneRc, runs, history>>

-----------------------------------------------------------------------------
(***************************************************************************)
(* VertexContext::Execute.                                                 *)
(***************************************************************************)
Mutant_DepsMatch(v) == \* the mask is not applied
  \A d \in Deps[v] : depRes[v][d] # Invalid
DepsMatch(v) ==
  \A d \in Deps[v] : depRes[v][d] # Invalid /\ depRes[v][d] \in Expected[v][d]

\* A config setting that is not in the data context counts as false.
ConfigMatch(v) ==
  ExpectConfig[v] # NoName =>
    ((config[ExpectConfig[v]] = "true") <=> (v \notin NegatedConfig))

Mutant_Admitted(v) == \* the early exit code is not read
  v \in Runnable /\ DepsMatch(v) /\ ConfigMatch(v) /\ ~expired
Admitted(v) ==
  v \in Runnable /\ DepsMatch(v) /\ ConfigMatch(v) /\ ~expired /\ earlyRc = 0

\* FinishVertexProcess up to OnVertexDone, once the code is adjusted.
Settle(v, c) ==
  /\ code' = [code EXCEPT ![v] = c]
  /\ result' = [result EXCEPT ![v] =
                  IF c = 0 THEN "OK" ELSE IF @ = Invalid THEN "ERR" ELSE @]
  /\ pc' = [pc EXCEPT ![v] = "finishing"]

Mutant_Skip(v) == \* returns without FinishVertexProcess
  /\ pc[v] = "scheduled" /\ ~Admitted(v)
  /\ result' = [result EXCEPT ![v] = IF SkipAsError THEN "ERR" ELSE "SKIP"]
  /\ code' = [code EXCEPT ![v] = V_CODE_SKIP]
  /\ pc' = [pc EXCEPT ![v] = "done"]
  /\ calls' = [calls EXCEPT ![v] = @ + 1]
  /\ UNCHANGED <<phase, round, waiting, depRes, join, earlyRc, expired, config,
                 todo, target, ready, doneRc, runs, ran, dones, exits, exitRound>>

\* The vertex is passed over.
Skip(v) ==
  /\ pc[v] = "scheduled" /\ ~Admitted(v)
  /\ result' = [result EXCEPT ![v] = IF SkipAsError THEN "ERR" ELSE "SKIP"]
  /\ code' = [code EXCEPT ![v] = V_CODE_SKIP]
  /\ pc' = [pc EXCEPT ![v] = "finishing"]
  /\ calls' = [calls EXCEPT ![v] = @ + 1]
  /\ UNCHANGED <<phase, round, waiting, depRes, join, earlyRc, expired, config,
                 todo, target, ready, doneRc, runs, ran, dones, exits, exitRound>>

\* ExecuteProcessor or ExecuteSubGraph begins.
Run(v) ==
  /\ pc[v] = "scheduled" /\ Admitted(v)
  /\ pc' = [pc EXCEPT ![v] = "running"]
  /\ ran' = ran \cup {v}
  /\ calls' = [calls EXCEPT ![v] = @ + 1]
  /\ UNCHANGED <<phase, round, waiting, depRes, result, code, join, earlyRc,
                 expired, config, todo, target, ready, doneRc, runs, dones,
                 exits, exitRound>>

\* InjectInputs fails: the code is not adjusted, the result is an error even
\* where a skip is not.
InjectFails(v) ==
  /\ pc[v] = "running" /\ v \in Injecting
  /\ Settle(v, V_CODE_SKIP)
  /\ UNCHANGED <<phase, round, waiting, depRes, join, earlyRc, expired, config,
                 todo, target, ready, doneRc, runs, history>>

\* The bound of the loop: in the last round the condition does not hold.
MayReturn(v, rc) == ~(IsWhile /\ v = WhileVertex /\ round = MaxRounds /\ rc = 0)

\* FinishVertexProcess(rc, true) of a vertex that does not end the graph:
\* the error is dropped unless it steers the graph.
Complete(v, rc) ==
  /\ pc[v] = "running" /\ MayReturn(v, rc)
  /\ rc = 0 \/ v \notin EarlyExit
  /\ Settle(v, IF v \in IgnoreError /\ v \notin CondVertices THEN 0 ELSE rc)
  /\ UNCHANGED <<phase, round, waiting, depRes, join, earlyRc, expired, config,
                 todo, target, ready, doneRc, runs, history>>

Mutant_ExitTest(v, rc) == \* the error is dropped before the exit test
  /\ pc[v] = "running" /\ rc # 0 /\ v \in EarlyExit
  /\ IF earlyRc = 0 /\ v \notin IgnoreError
     THEN /\ code' = [code EXCEPT ![v] = rc]
          /\ pc' = [pc EXCEPT ![v] = "exiting"]
          /\ UNCHANGED result
     ELSE Settle(v, rc)
  /\ exits' = exits \cup {rc}
  /\ UNCHANGED <<phase, round, waiting, depRes, join, earlyRc, expired, config,
                 todo, target, ready, doneRc, runs, ran, calls, dones, exitRound>>

\* FinishVertexProcess(rc, true) of a failed early-exit vertex: SetEarlyExitCode
\* tests early_exist_rc_ ...
ExitTest(v, rc) ==
  /\ pc[v] = "running" /\ rc # 0 /\ v \in EarlyExit
  /\ IF earlyRc = 0
     THEN /\ code' = [code EXCEPT ![v] = rc]
          /\ pc' = [pc EXCEPT ![v] = "exiting"]
          /\ UNCHANGED result
     ELSE Settle(v, rc)
  /\ exits' = exits \cup {rc}
  /\ UNCHANGED <<phase, round, waiting, depRes, join, earlyRc, expired, config,
                 todo, target, ready, doneRc, runs, ran, calls, dones, exitRound>>

\* ... and sets it, in a later step: it is a plain int.
ExitStore(v) ==
  /\ pc[v] = "exiting"
  /\ earlyRc' = code[v]
  /\ exitRound' = IF exitRound = 0 THEN round ELSE exitRound
  /\ Settle(v, code[v])
  /\ UNCHANGED <<phase, round, waiting, depRes, join, expired, config, todo,
                 target, ready, doneRc, runs, ran, calls, dones, exits>>

\* The future of an asynchronous processor ends with an exception:
\* thenValue does not call the continuation and nobody finishes the vertex.
FutureThrows(v) ==
  /\ pc[v] = "running" /\ v \in FutureMode
  /\ pc' = [pc EXCEPT ![v] = "lost"]
  /\ UNCHANGED <<phase, round, waiting, depRes, result, code, join, earlyRc,
                 expired, config, todo, target, ready, doneRc, runs, history>>

-----------------------------------------------------------------------------
(***************************************************************************)
(* GraphContext::OnVertexDone.                                             *)
(***************************************************************************)
LoopAgain == IsWhile /\ code[WhileVertex] = 0

\* fetch_sub on the join counter by a vertex that is not the last.
JoinOther(v) ==
  /\ pc[v] = "finishing" /\ join # 1
  /\ join' = join - 1
  /\ pc' = [pc EXCEPT ![v] = "joined"]
  /\ todo' = [todo EXCEPT ![v] = Successors(v)]
  /\ UNCHANGED <<phase, round, waiting, depRes, result, code, earlyRc, expired,
                 config, target, ready, doneRc, runs, history>>

Mutant_JoinLast(v) == \* compares what is left, not what was there
  /\ pc[v] = "finishing" /\ join - 1 = 1 /\ ~LoopAgain
  /\ join' = join - 1
  /\ pc' = [pc EXCEPT ![v] = "done"]
  /\ phase' = "done"
  /\ doneRc' = earlyRc
  /\ dones' = dones + 1
  /\ UNCHANGED <<round, waiting, depRes, result, code, earlyRc, expired, config,
                 todo, target, ready, runs, ran, calls, exits, exitRound>>

\* The last vertex: the graph is done.
JoinLast(v) ==
  /\ pc[v] = "finishing" /\ join = 1 /\ ~LoopAgain
  /\ join' = 0
  /\ pc' = [pc EXCEPT ![v] = "done"]
  /\ phase' = "done"
  /\ doneRc' = earlyRc
  /\ dones' = dones + 1
  /\ UNCHANGED <<round, waiting, depRes, result, code, earlyRc, expired, config,
                 todo, target, ready, runs, ran, calls, exits, exitRound>>

Mutant_JoinLoop(v) == \* Reset in place of ResetState
  /\ pc[v] = "finishing" /\ join = 1 /\ LoopAgain
  /\ ResetState("ready")
  /\ ready' = StartList
  /\ round' = round + 1
  /\ earlyRc' = 0
  /\ UNCHANGED <<phase, expired, config, doneRc, runs, dones, exits, exitRound>>

\* The last vertex of a while graph whose condition held: ResetState and
\* ExecuteReadyVertexs(_start_ctxs). early_exist_rc_ is kept.
JoinLoop(v) ==
  /\ pc[v] = "finishing" /\ join = 1 /\ LoopAgain
  /\ ResetState("ready")
  /\ ready' = StartList
  /\ round' = round + 1
  /\ UNCHANGED <<phase, earlyRc, expired, config, doneRc, runs, dones, exits,
                 exitRound>>

\* The thread goes on to the loop over the successors, whose number it reads
\* from the vertex after the decrement.
NotifyBegin(v) ==
  /\ pc[v] = "joined"
  /\ pc' = [pc EXCEPT ![v] = "notifying"]
  /\ UNCHANGED <<phase, round, waiting, depRes, result, code, join, earlyRc,
                 expired, config, todo, target, ready, doneRc, runs, history>>

\* SetDependencyResult, first half: store the result in the successor's slot.
NotifyResult(v, s) ==
  /\ pc[v] = "notifying" /\ s \in todo[v]
  /\ todo' = [todo EXCEPT ![v] = @ \ {s}]
  /\ target' = [target EXCEPT ![v] = s]
  /\ depRes' = [depRes EXCEPT ![s][v] = result[v]]
  /\ pc' = [pc EXCEPT ![v] =
              IF depRes[s][v] = Invalid THEN "subtracting" ELSE "loading"]
  /\ UNCHANGED <<phase, round, waiting, result, code, join, earlyRc, expired,
                 config, ready, doneRc, runs, history>>

\* Second half: fetch_sub (or load, if the slot was taken) on its counter; a
\* returned 1 makes it ready. The last successor, if the only ready one, runs
\* in place.
NotifyCount(v) ==
  LET s == target[v]
      left == IF pc[v] = "subtracting" THEN waiting[s] - 1 ELSE waiting[s]
      inPlace == todo[v] = {} /\ ready[v] = {}
  IN
  /\ pc[v] \in {"subtracting", "loading"}
  /\ waiting' = [waiting EXCEPT ![s] = left]
  /\ IF waiting[s] = 1
     THEN /\ ready' = IF inPlace THEN ready
                      ELSE [ready EXCEPT ![v] = @ \cup {s}]
          /\ pc' = [u \in Vertices |->
                      IF u = s THEN (IF inPlace THEN "scheduled" ELSE "ready")
                      ELSE IF u = v THEN (IF inPlace THEN "done" ELSE "notifying")
                      ELSE pc[u]]
     ELSE /\ pc' = [pc EXCEPT ![v] = "notifying"]
          /\ UNCHANGED ready
  /\ UNCHANGED <<phase, round, depRes, result, code, join, earlyRc, expired,
                 config, todo, target, doneRc, runs, history>>

\* The loop over the successors ends.
NotifyEnd(v) ==
  /\ pc[v] = "notifying" /\ todo[v] = {}
  /\ pc' = [pc EXCEPT ![v] = IF ready[v] = {} THEN "done" ELSE "dispatching"]
  /\ UNCHANGED <<phase, round, waiting, depRes, result, code, join, earlyRc,
                 expired, config, todo, target, ready, doneRc, runs, history>>

-----------------------------------------------------------------------------
Dispatch(a) == \E r \in Vertices : Post(a, r) \/ RunInPlace(a, r)

\* The steps of the engine's thread for v.
Engine(v) ==
  \/ Skip(v) \/ Run(v) \/ ExitStore(v)
  \/ JoinOther(v) \/ JoinLast(v) \/ JoinLoop(v) \/ NotifyBegin(v)
  \/ \E s \in Vertices : NotifyResult(v, s)
  \/ NotifyCount(v) \/ NotifyEnd(v)

\* The outcome of the processor or subgraph of v.
Outcome(v) ==
  \/ InjectFails(v)
  \/ \E rc \in ReturnCodes : Complete(v, rc) \/ ExitTest(v, rc)

Next ==
  \/ \E settings \in [ConfigNames -> {"true", "false", "unset"}] : Execute(settings)
  \/ Reset
  \/ Expire
  \/ \E a \in Dispatchers : Dispatch(a)
  \/ \E v \in Vertices : Engine(v) \/ Outcome(v) \/ FutureThrows(v)

Spec == Init /\ [][Next]_vars

\* Posted tasks run, threads go on, and every processor returns.
Fairness ==
  /\ \A a \in Dispatchers : WF_vars(Dispatch(a))
  /\ \A v \in Vertices : WF_vars(Engine(v)) /\ WF_vars(Outcome(v))

FairSpec == Spec /\ Fairness
-----------------------------------------------------------------------------
(***************************************************************************)
(* What the engine promises.                                               *)
(***************************************************************************)

\* A vertex leaves its waiting state only when every dependency has finished
\* for good, and it then holds the very result each of them ended with
\* (SetDependencyResult stores before it decrements).
ReadyAfterDeps ==
  \A v \in Vertices : pc[v] # "idle" =>
    \A d \in Deps[v] : Joined(d) /\ result[d] # Invalid
                       /\ depRes[v][d] = result[d]

\* A processor runs only if all its dependencies ended as it expects, whatever
\* the order in which they reported.
RunsAsExpected ==
  \A v \in ran : \A d \in Deps[v] : result[d] \in Expected[v][d]

\* Execute() is called on a vertex at most once per round, and the caller's
\* closure at most once per execution.
OnceEach == dones <= 1 /\ \A v \in Vertices : calls[v] <= 1

\* When _done is called every vertex has been executed, and a thread that is
\* still in OnVertexDone is about to leave it with nothing left to notify,
\* count or post: no late write reaches the context after Reset. It may still
\* have to read how many successors its vertex has, none, which Reset keeps.
QuietWhenDone ==
  phase = "done" =>
    /\ ready = NoList
    /\ \A v \in Vertices :
         /\ calls[v] = 1
         /\ \/ pc[v] = "done"
            \/ pc[v] \in {"joined", "notifying"} /\ todo[v] = {}

\* The thread that takes the join counter to zero finds no other thread with
\* anything left to write, count or post in the context, so that ResetState may
\* start the next round of a loop at once (graph_context.cpp:168). Others may
\* still read the number of successors of a vertex that has none.
QuietAtLast ==
  \A v \in Vertices : pc[v] = "finishing" /\ join = 1 =>
    /\ ready = NoList
    /\ \A u \in Vertices \ {v} :
         pc[u] = "done" \/ (pc[u] \in {"joined", "notifying"} /\ todo[u] = {})

\* The closure gets a nonzero code exactly when an early-exit vertex failed,
\* and then the code of one of those: SetEarlyExitCode comes before the join
\* counter, although it tests and stores without a lock.
ExitCodeReported ==
  phase = "done" => IF exits = {} THEN doneRc = 0 ELSE doneRc \in exits

\* Nothing that depends on a failed early-exit vertex is run, not even a
\* vertex that accepts errors.
ExitStopsDependents ==
  \A v \in ran : \A d \in Deps[v] :
    d \in EarlyExit /\ d \in ran => result[d] = "OK" \/ code[d] = V_CODE_SKIP

\* After an early exit a while graph makes at most one more pass, and runs
\* nothing in it: ResetState keeps the exit code, and the skipped condition
\* vertex ends the loop.
ExitEndsLoop ==
  exitRound # 0 /\ round > exitRound => round = exitRound + 1 /\ ran = {}

\* A context taken from the pool again carries nothing over from the execution
\* before it.
ReuseIsClean ==
  phase = "idle" =>
    /\ earlyRc = 0 /\ join = Cardinality(Vertices) /\ waiting = FreshWaiting
    /\ \A v \in Vertices : result[v] = Invalid /\ \A d \in Vertices : depRes[v][d] = Invalid

\* Every execution ends with a call of the closure, unless a processor's
\* future was lost.
ExecutionEnds ==
  phase = "executing" ~> (phase = "done" \/ \E v \in Vertices : pc[v] = "lost")

\* The same without the exception.
AlwaysEnds == phase = "executing" ~> phase = "done"
-----------------------------------------------------------------------------
\* The status of a vertex as the user sees it.
Status(v) ==
  CASE pc[v] \in {"idle", "ready", "scheduled"} -> "waiting"
    [] pc[v] \in {"running", "exiting", "lost"} -> "running"
    [] OTHER -> result[v]

Dag == INSTANCE DagRun WITH
         Passed <- {IF SkipAsError THEN "ERR" ELSE "SKIP"},
         MayLoop <- IsWhile,
         status <- [v \in Vertices |-> Status(v)],
         outcome <- phase

\* With its counters, lists and threads the engine executes graphs as DagRun
\* says: this is the whole of what a user may rely on about ordering.
ImplementsDag == Dag!DagSpec
=============================================================================
