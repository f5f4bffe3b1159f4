----------------------------- MODULE GraphStore -----------------------------
(***************************************************************************)
(* GraphStore of the C++ engine (didagle/store/graph_store.cpp,            *)
(* cluster_context.cpp) and the ownership of what an execution uses: the   *)
(* cluster handle, replaced by Load while executions of the old one run    *)
(* and callers keep it, its pool of contexts, the caller's data context,   *)
(* whose destructor hands the context to the reset workers, and the        *)
(* destructor of the store.                                                *)
(*                                                                         *)
(* One cluster name; a handle is the number of the Load that made it. What *)
(* a graph does between its start and its end is GraphExec's matter.       *)
(***************************************************************************)
EXTENDS Integers, FiniteSets

CONSTANTS
  Execs,     \* calls of Execute
  DataCtxs,  \* GraphDataContexts of the callers
  DataOf,    \* the data context each call is given
  Missing,   \* calls that name a graph the cluster does not have
  MaxLoads,  \* bound: handles loaded
  PoolSize,  \* default_context_pool_size
  NoExec

ASSUME StoreAssumption ==
  /\ IsFiniteSet(Execs) /\ NoExec \notin Execs
  /\ DataOf \in [Execs -> DataCtxs] /\ Missing \subseteq Execs
  /\ MaxLoads \in Nat /\ PoolSize \in Nat

VARIABLES
  store,    \* "open", "closing" (in the destructor) or "destroyed"
  loaded,   \* the handle in _graphs, 0 if none
  kept,     \* handles of which a caller has a shared_ptr
  pool,     \* the contexts queued in each handle
  born,     \* contexts created so far: they are numbered
  owner,    \* the handle whose GetContext or Build created each context
  cluster,  \* _running_cluster of each context, 0 if null
  freed,    \* deleted contexts
  frame,    \* "new", "executing" or "returned": the call of Execute
  graph,    \* the graph of the call: "none", "running", the steps of the
            \* closure graph_done, or "left"
  ctx,      \* the context of the call
  closure,  \* graph_done still holds the data context
  user,     \* the caller holds the data context
  child,    \* _executed_childrens[0] of each data context: the context whose
            \* graph its values are looked up in, 0 if null
  release,  \* release_closure_ of each data context: the call it is for
  reset,    \* release_func of each call: "no", "posted", "released", "counted"
  running   \* running_graphs_

vars == <<store, loaded, kept, pool, born, owner, cluster, freed, frame, graph, ctx,
          closure, user, child, release, reset, running>>
contexts == <<kept, pool, born, owner, cluster, freed>>

Handles == 1..MaxLoads
Contexts == 1..(MaxLoads * PoolSize + Cardinality(Execs))

TypeOK ==
  /\ store \in {"open", "closing", "destroyed"}
  /\ loaded \in Handles \cup {0} /\ kept \subseteq Handles
  /\ pool \in [Handles -> SUBSET Contexts]
  /\ born \in Contexts \cup {0}
  /\ owner \in [Contexts -> Handles \cup {0}]
  /\ cluster \in [Contexts -> Handles \cup {0}]
  /\ freed \subseteq Contexts
  /\ frame \in [Execs -> {"new", "executing", "returned"}]
  /\ graph \in [Execs -> {"none", "running", "resetData", "callDone",
                          "resetParams", "left"}]
  /\ ctx \in [Execs -> Contexts \cup {0}]
  /\ closure \in [Execs -> BOOLEAN]
  /\ user \in [DataCtxs -> BOOLEAN]
  /\ child \in [DataCtxs -> Contexts \cup {0}]
  /\ release \in [DataCtxs -> Execs \cup {NoExec}]
  /\ reset \in [Execs -> {"no", "posted", "released", "counted"}]
  /\ running \in 0..Cardinality(Execs)

Init ==
  /\ store = "open" /\ loaded = 0 /\ kept = {}
  /\ pool = [h \in Handles |-> {}]
  /\ born = 0
  /\ owner = [c \in Contexts |-> 0] /\ cluster = [c \in Contexts |-> 0]
  /\ freed = {}
  /\ frame = [e \in Execs |-> "new"] /\ graph = [e \in Execs |-> "none"]
  /\ ctx = [e \in Execs |-> 0]
  /\ closure = [e \in Execs |-> FALSE]
  /\ user = [d \in DataCtxs |-> TRUE]
  /\ child = [d \in DataCtxs |-> 0]
  /\ release = [d \in DataCtxs |-> NoExec]
  /\ reset = [e \in Execs |-> "no"]
  /\ running = 0

\* shared_ptr counts, as who holds what.
HandleHeld(h, current, callers, running_cluster) ==
  current = h \/ h \in callers \/ \E c \in Contexts : running_cluster[c] = h
Mutant_DataHeld(d, frames, closures, users) == \* graph_done has a raw pointer
  users[d] \/ \E e \in Execs : DataOf[e] = d /\ frames[e] = "executing"
DataHeld(d, frames, closures, users) ==
  users[d] \/ \E e \in Execs : DataOf[e] = d /\ (frames[e] = "executing" \/ closures[e])

\* The handles that lose their last owner delete the contexts in their pools.
Drop(current, callers, running_cluster, pools) ==
  LET dead == {h \in Handles : ~HandleHeld(h, current, callers, running_cluster)}
  IN /\ pool' = [h \in Handles |-> IF h \in dead THEN {} ELSE pools[h]]
     /\ freed' = freed \cup UNION {pools[h] : h \in dead}

\* ~GraphDataContext: the release closure posts release_func.
Unreferenced(d, frames, closures, users) ==
  /\ reset' = IF release[d] # NoExec /\ ~DataHeld(d, frames, closures, users)
              THEN [reset EXCEPT ![release[d]] = "posted"] ELSE reset
  /\ release' = IF DataHeld(d, frames, closures, users) THEN release
                ELSE [release EXCEPT ![d] = NoExec]
-----------------------------------------------------------------------------
\* Load or LoadString of a script that builds, which returns the handle too.
Load ==
  /\ store = "open" /\ loaded < MaxLoads
  /\ loaded' = loaded + 1 /\ kept' = kept \cup {loaded + 1}
  /\ born' = born + PoolSize
  /\ owner' = [c \in Contexts |->
                 IF c \in (born + 1)..(born + PoolSize) THEN loaded + 1 ELSE owner[c]]
  /\ Drop(loaded + 1, kept', cluster,
          [pool EXCEPT ![loaded + 1] = (born + 1)..(born + PoolSize)])
  /\ UNCHANGED <<child, store, cluster, frame, graph, ctx, closure, user, release,
                 reset, running>>

FindGraphClusterByName ==
  /\ store = "open" /\ loaded # 0
  /\ kept' = kept \cup {loaded}
  /\ UNCHANGED <<child, store, loaded, pool, born, owner, cluster, freed, frame, graph,
                 ctx, closure, user, release, reset, running>>

\* A caller lets go of a handle it was returned, also when the store is gone.
DropHandle(h) ==
  /\ h \in kept
  /\ kept' = kept \ {h}
  /\ Drop(loaded, kept', cluster, pool)
  /\ UNCHANGED <<child, store, loaded, born, owner, cluster, frame, graph, ctx, closure,
                 user, release, reset, running>>

\* Execute of a cluster that is not loaded calls done(-1).
ExecuteFails(e) ==
  /\ store = "open" /\ loaded = 0 /\ frame[e] = "new" /\ user[DataOf[e]]
  /\ frame' = [frame EXCEPT ![e] = "returned"]
  /\ graph' = [graph EXCEPT ![e] = "left"]
  /\ UNCHANGED <<child, store, loaded, contexts, ctx, closure, user, release, reset,
                 running>>

Mutant_GetContext(e) == \* the context stays in the queue
  IF pool[loaded] # {}
  THEN \E c \in pool[loaded] :
         /\ ctx' = [ctx EXCEPT ![e] = c]
         /\ cluster' = [cluster EXCEPT ![c] = loaded]
         /\ UNCHANGED <<pool, born, owner, freed>>
  ELSE /\ born' = born + 1
       /\ owner' = [owner EXCEPT ![born + 1] = loaded]
       /\ ctx' = [ctx EXCEPT ![e] = born + 1]
       /\ cluster' = [cluster EXCEPT ![born + 1] = loaded]
       /\ UNCHANGED <<pool, freed>>

\* GraphClusterHandle::GetContext and SetRunningCluster.
GetContext(e) ==
  IF pool[loaded] # {}
  THEN \E c \in pool[loaded] :
         /\ pool' = [pool EXCEPT ![loaded] = @ \ {c}]
         /\ ctx' = [ctx EXCEPT ![e] = c]
         /\ cluster' = [cluster EXCEPT ![c] = loaded]
         /\ UNCHANGED <<born, owner, freed>>
  ELSE /\ born' = born + 1
       /\ owner' = [owner EXCEPT ![born + 1] = loaded]
       /\ ctx' = [ctx EXCEPT ![e] = born + 1]
       /\ cluster' = [cluster EXCEPT ![born + 1] = loaded]
       /\ UNCHANGED <<pool, freed>>

Mutant_SetReleaseClosure(e) == \* the closure before is just overwritten
  /\ release' = [release EXCEPT ![DataOf[e]] = e]
  /\ UNCHANGED reset

\* SetReleaseClosure: the closure of the execution before is called first.
SetReleaseClosure(e) ==
  LET d == DataOf[e] IN
  /\ reset' = IF release[d] # NoExec
              THEN [reset EXCEPT ![release[d]] = "posted"] ELSE reset
  /\ release' = [release EXCEPT ![d] = e]

\* Execute up to the start of the graph. A caller uses a data context again
\* only when the call before has returned and called its closure.
Execute(e) ==
  /\ store = "open" /\ loaded # 0 /\ frame[e] = "new" /\ user[DataOf[e]]
  /\ \A f \in Execs : DataOf[f] = DataOf[e] /\ frame[f] # "new" =>
       frame[f] = "returned" /\ graph[f] \in {"resetParams", "left"}
  /\ GetContext(e)
  /\ running' = running + 1
  /\ SetReleaseClosure(e)
  /\ frame' = [frame EXCEPT ![e] = "executing"]
  /\ closure' = [closure EXCEPT ![e] = TRUE]
  /\ graph' = [graph EXCEPT ![e] = IF e \in Missing THEN "resetData" ELSE "running"]
  /\ child' = IF e \in Missing THEN child ELSE [child EXCEPT ![DataOf[e]] = ctx'[e]]
  /\ UNCHANGED <<store, loaded, kept, user>>

\* The graph ends and calls graph_done.
GraphDone(e) ==
  /\ graph[e] = "running"
  /\ graph' = [graph EXCEPT ![e] = "resetData"]
  /\ UNCHANGED <<child, store, loaded, contexts, frame, ctx, closure, user, release,
                 reset, running>>

Mutant_ResetData(e) == \* and posts the release, as an earlier graph_done did
  /\ graph[e] = "resetData"
  /\ graph' = [graph EXCEPT ![e] = "callDone"]
  /\ closure' = [closure EXCEPT ![e] = FALSE]
  /\ reset' = [reset EXCEPT ![e] = "posted"]
  /\ UNCHANGED <<child, store, loaded, contexts, frame, ctx, user, release, running>>

\* graph_done: data_ctx.reset() ...
ResetData(e) ==
  /\ graph[e] = "resetData"
  /\ graph' = [graph EXCEPT ![e] = "callDone"]
  /\ closure' = [closure EXCEPT ![e] = FALSE]
  /\ Unreferenced(DataOf[e], frame, closure', user)
  /\ UNCHANGED <<child, store, loaded, contexts, frame, ctx, user, running>>

\* ... done(code) ...
CallDone(e) ==
  /\ graph[e] = "callDone"
  /\ graph' = [graph EXCEPT ![e] = "resetParams"]
  /\ UNCHANGED <<child, store, loaded, contexts, frame, ctx, closure, user, release,
                 reset, running>>

\* ... params.reset(), and the thread leaves the closure.
ResetParams(e) ==
  /\ graph[e] = "resetParams"
  /\ graph' = [graph EXCEPT ![e] = "left"]
  /\ UNCHANGED <<child, store, loaded, contexts, frame, ctx, closure, user, release,
                 reset, running>>

\* Execute sets the child of the data context and returns.
ExecuteReturns(e) ==
  /\ frame[e] = "executing" /\ (e \in Missing => graph[e] = "left")
  /\ frame' = [frame EXCEPT ![e] = "returned"]
  /\ child' = IF e \in Missing THEN child ELSE [child EXCEPT ![DataOf[e]] = ctx[e]]
  /\ Unreferenced(DataOf[e], frame', closure, user)
  /\ UNCHANGED <<store, loaded, contexts, graph, ctx, closure, user, running>>

\* The caller gives its reference up.
UserDrops(d) ==
  /\ user[d]
  /\ user' = [user EXCEPT ![d] = FALSE]
  /\ Unreferenced(d, frame, closure, user')
  /\ UNCHANGED <<child, store, loaded, contexts, frame, graph, ctx, closure, running>>

Mutant_Release(e) == \* to the pool of the handle that is loaded now
  /\ reset[e] = "posted"
  /\ reset' = [reset EXCEPT ![e] = "released"]
  /\ cluster' = [cluster EXCEPT ![ctx[e]] = 0]
  /\ Drop(loaded, kept, cluster',
          [pool EXCEPT ![IF loaded = 0 THEN 1 ELSE loaded] = @ \cup {ctx[e]}])
  /\ UNCHANGED <<child, store, loaded, kept, born, owner, frame, graph, ctx, closure,
                 user, release, running>>

\* release_func on a reset worker: ReleaseContext, with the handle held until
\* the context is back in its pool.
Release(e) ==
  /\ reset[e] = "posted"
  /\ reset' = [reset EXCEPT ![e] = "released"]
  /\ cluster' = [cluster EXCEPT ![ctx[e]] = 0]
  /\ Drop(loaded, kept, cluster',
          [pool EXCEPT ![cluster[ctx[e]]] = @ \cup {ctx[e]}])
  /\ UNCHANGED <<child, store, loaded, kept, born, owner, frame, graph, ctx, closure,
                 user, release, running>>

Mutant_Count(e) == \* once more than it was added
  /\ reset[e] = "released"
  /\ reset' = [reset EXCEPT ![e] = "counted"]
  /\ running' = running - 2
  /\ UNCHANGED <<child, store, loaded, contexts, frame, graph, ctx, closure, user,
                 release>>

Count(e) ==
  /\ reset[e] = "released"
  /\ reset' = [reset EXCEPT ![e] = "counted"]
  /\ running' = running - 1
  /\ UNCHANGED <<child, store, loaded, contexts, frame, graph, ctx, closure, user,
                 release>>

\* ~GraphStore, called when no call of Execute is on its way: it waits for
\* running_graphs_, then the members are destroyed.
BeginDestroy ==
  /\ store = "open" /\ \A e \in Execs : frame[e] # "executing"
  /\ store' = "closing"
  /\ UNCHANGED <<child, loaded, contexts, frame, graph, ctx, closure, user, release,
                 reset, running>>

Mutant_EndDestroy == \* does not wait
  /\ store = "closing"
  /\ store' = "destroyed"
  /\ loaded' = 0
  /\ Drop(0, kept, cluster, pool)
  /\ UNCHANGED <<child, kept, born, owner, cluster, frame, graph, ctx, closure, user,
                 release, reset, running>>

EndDestroy ==
  /\ store = "closing" /\ running = 0
  /\ store' = "destroyed"
  /\ loaded' = 0
  /\ Drop(0, kept, cluster, pool)
  /\ UNCHANGED <<child, kept, born, owner, cluster, frame, graph, ctx, closure, user,
                 release, reset, running>>

\* What goes on once Execute was called.
Proceed(e) ==
  \/ GraphDone(e) \/ ResetData(e) \/ CallDone(e) \/ ResetParams(e)
  \/ ExecuteReturns(e) \/ Release(e) \/ Count(e)

Next ==
  \/ Load \/ FindGraphClusterByName \/ \E h \in Handles : DropHandle(h)
  \/ \E e \in Execs : ExecuteFails(e) \/ Execute(e) \/ Proceed(e)
  \/ \E d \in DataCtxs : UserDrops(d)
  \/ BeginDestroy \/ EndDestroy

Spec == Init /\ [][Next]_vars

\* Graphs end (GraphExec), reset workers run what is posted and the destructor
\* polls. Callers need not let go of their data contexts.
FairSpec ==
  Spec /\ WF_vars(EndDestroy) /\ \A e \in Execs : WF_vars(Proceed(e))
-----------------------------------------------------------------------------
\* The execution has not given its context back yet. The thread that called
\* graph_done may leave the context's own closure later than that: of what it
\* does there only the caller's done, which may read results, is in the model
\* (ResultsReadable).
Holds(e) == ctx[e] # 0 /\ reset[e] \in {"no", "posted"}

\* A context belongs to one execution or to one pool, never to two, and none
\* is deleted while it belongs to one: also after reloads, and when a data
\* context is used for several executions.
ContextOwned ==
  /\ \A e, f \in Execs : Holds(e) /\ Holds(f) /\ ctx[e] = ctx[f] => e = f
  /\ \A e \in Execs : Holds(e) =>
       ctx[e] \notin freed /\ \A h \in Handles : ctx[e] \notin pool[h]
  /\ \A h, k \in Handles : pool[h] \cap pool[k] # {} => h = k
  /\ \A h \in Handles : pool[h] \cap freed = {}

\* A context never outlives the cluster it points into, and goes back to the
\* pool of that cluster: an execution after a reload gets a context of the new
\* cluster.
OwnCluster ==
  /\ \A e \in Execs : Holds(e) => cluster[ctx[e]] = owner[ctx[e]]
  /\ \A h \in Handles : \A c \in pool[h] : owner[c] = h /\ HandleHeld(h, loaded, kept, cluster)

\* The data context, in which the graph keeps its inputs, lives as long as the
\* graph runs, whenever the caller lets go of it.
DataAlive ==
  \A e \in Execs : graph[e] = "running" =>
    DataHeld(DataOf[e], frame, closure, user) /\ release[DataOf[e]] = e

\* What a graph made can be read through the data context after it has ended,
\* as the tests do: its context is the child and is neither reset nor given to
\* another execution until the caller lets go or executes something else.
ResultsReadable ==
  \A e \in Execs \ Missing :
    (/\ graph[e] \in {"callDone", "resetParams", "left"} /\ user[DataOf[e]]
     /\ release[DataOf[e]] = e) =>
      /\ child[DataOf[e]] = ctx[e] /\ reset[e] = "no"
      /\ \A f \in Execs \ {e} : Holds(f) => ctx[f] # ctx[e]

\* When the destructor has ended no graph runs, every execution has given its
\* context back, and the contexts left are those in the pool of a handle that
\* a caller keeps. A caller's done may still be to be called, but only if that
\* caller gave its data context up before: one that keeps it until done, as the
\* tests do, is waited for.
DestroyedClean ==
  store = "destroyed" =>
    /\ \A e \in Execs :
         /\ graph[e] \notin {"running", "resetData"}
         /\ ctx[e] # 0 => reset[e] = "counted"
         /\ graph[e] = "callDone" => ~user[DataOf[e]]
    /\ \A c \in 1..born : c \in freed \/ \E h \in kept : c \in pool[h]

\* The destructor ends, if no caller keeps a data context.
DestructorEnds ==
  (store = "closing" /\ \A d \in DataCtxs : ~user[d]) ~> store = "destroyed"
=============================================================================
