------------------------------- MODULE DagRun -------------------------------
(***************************************************************************)
(* What executing a graph of dependent vertices means to its user, whoever *)
(* schedules it: a vertex is decided once all its dependencies have ended, *)
(* runs only if they ended as it expects, and the caller is told when all  *)
(* have ended. There is no counter, thread, list or queue here.            *)
(***************************************************************************)
CONSTANTS
  Vertices, Deps, Expected, \* the graph
  Passed,                   \* results of a vertex that is not run
  MayLoop                   \* the graph may start over when all have ended

VARIABLES
  status,   \* "waiting", "running", or the result of each vertex
  outcome   \* "idle", "executing" or "done"

dagVars == <<status, outcome>>

Ended(v) == status[v] \notin {"waiting", "running"}
Decidable(v) ==
  outcome = "executing" /\ status[v] = "waiting" /\ \A d \in Deps[v] : Ended(d)

DagInit ==
  /\ status = [v \in Vertices |-> "waiting"]
  /\ outcome = "idle"

Begin == outcome = "idle" /\ outcome' = "executing" /\ UNCHANGED status

RunVertex(v) ==
  /\ Decidable(v)
  /\ \A d \in Deps[v] : status[d] \in Expected[v][d]
  /\ status' = [status EXCEPT ![v] = "running"]
  /\ UNCHANGED outcome

PassVertex(v) ==
  /\ Decidable(v)
  /\ \E r \in Passed : status' = [status EXCEPT ![v] = r]
  /\ UNCHANGED outcome

EndVertex(v) ==
  /\ status[v] = "running"
  /\ \E r \in {"OK", "ERR"} : status' = [status EXCEPT ![v] = r]
  /\ UNCHANGED outcome

AllEnded == outcome = "executing" /\ \A v \in Vertices : Ended(v)

Finish == AllEnded /\ outcome' = "done" /\ UNCHANGED status

StartOver ==
  /\ AllEnded /\ MayLoop
  /\ status' = [v \in Vertices |-> "waiting"]
  /\ UNCHANGED outcome

Recycle ==
  /\ outcome = "done" /\ outcome' = "idle"
  /\ status' = [v \in Vertices |-> "waiting"]

DagNext ==
  \/ Begin \/ Finish \/ StartOver \/ Recycle
  \/ \E v \in Vertices : RunVertex(v) \/ PassVertex(v) \/ EndVertex(v)

DagSpec == DagInit /\ [][DagNext]_dagVars
=============================================================================
