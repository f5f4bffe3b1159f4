----------------------------- MODULE GraphTask ------------------------------
(***************************************************************************)
(* The task API of the C++ engine (didagle/store/graph_task.cpp): a group  *)
(* of tasks and their relations, stated in any order by calls, which       *)
(* GraphStore::LoadTaskGroup turns into declarations and builds. A group   *)
(* whose build failed is built anew by the next load; one that was         *)
(* accepted is found in the store. A graph may also be declared, as in     *)
(* GraphBuild.                                                             *)
(***************************************************************************)
EXTENDS GraphBuild

CONSTANTS
  TaskIds,  \* the ids that new tasks get, in order; also bounds their number
  MaxCalls  \* bound: calls of Precede, Consequent, Alternative and Name

ASSUME TaskAssumption == TaskIds \in Seq(Ids) /\ MaxCalls \in Nat

VARIABLES
  tasks,  \* TaskGroup::tasks_, in the order of Add
  calls,  \* calls so far
  taken   \* the tasks as the last build found them

taskVars == <<tasks, calls, taken>>

\* A task; `after` and `ids` are not in the code: the tasks it was stated to
\* follow, by position, and the ids it has had.
NewTask(id) ==
  [id |-> id, precede |-> {}, succeed |-> {}, consequent |-> {}, alternative |-> {},
   after |-> {}, ids |-> {id}]

\* A declared graph, or none and a group that is to be stated.
TaskInit == Init /\ tasks = <<>> /\ calls = 0 /\ taken = <<>>

Stating ==
  \/ plan = <<>> /\ stage = "register"
  \/ tasks # <<>> /\ stage \in {"ok", "failed", "hasCircle"}

\* TaskGroup::Add of a function or of a group, and Clone.
Add ==
  /\ Stating /\ Len(tasks) < Len(TaskIds)
  /\ tasks' = Append(tasks, NewTask(TaskIds[Len(tasks) + 1]))
  /\ UNCHANGED <<calls, taken, vars>>

\* A relation, kept in field f of task i, and the way back in task j.
Relate(i, j, f) ==
  tasks' = [tasks EXCEPT ![i][f] = @ \cup {tasks[j].id},
                         ![j].precede = @ \cup {tasks[i].id},
                         ![j].after = @ \cup {i}]

\* Precede, and Succeed, which is Precede the other way round.
Precede(i, j) == Relate(i, j, "succeed")
Consequent(i, j) == Relate(i, j, "consequent")
Alternative(i, j) == Relate(i, j, "alternative")

\* Task::Name: the relations stated so far keep the old id.
Name(i, id) ==
  tasks' = [tasks EXCEPT ![i].id = id, ![i].ids = @ \cup {id}]

Call ==
  /\ Stating /\ calls < MaxCalls
  /\ calls' = calls + 1
  /\ \E i \in DOMAIN tasks :
       \/ \E j \in DOMAIN tasks : Precede(i, j) \/ Consequent(i, j) \/ Alternative(i, j)
       \/ \E id \in Ids \ {tasks[i].id} : Name(i, id)
  /\ UNCHANGED <<taken, vars>>

BareVertex(id) ==
  [id |-> id, runnable |-> TRUE, known |-> TRUE,
   expect |-> None, expectDeps |-> {}, expectConfig |-> "none",
   selectKnown |-> TRUE, fieldsNamed |-> TRUE,
   deps |-> {}, depsOnOk |-> {}, depsOnErr |-> {},
   successor |-> {}, onOk |-> {}, onErr |-> {},
   consequent |-> {}, alternative |-> {},
   input |-> <<>>, output |-> {}, isStart |-> FALSE]

Mutant_TaskDeclaration(t) == \* ids of no task are passed over
  LET known == {tasks[i].id : i \in DOMAIN tasks}
  IN [BareVertex(t.id) EXCEPT
        !.deps = t.precede \cap known, !.successor = t.succeed \cap known,
        !.consequent = t.consequent \cap known, !.alternative = t.alternative \cap known]
\* The vertex of a task.
TaskDeclaration(t) ==
  [BareVertex(t.id) EXCEPT
     !.deps = t.precede, !.successor = t.succeed,
     !.consequent = t.consequent, !.alternative = t.alternative]

\* BuildGraphByTaskGroup and the start of the build, unless the group was
\* accepted before: it is found under its name, whatever was stated since.
LoadTaskGroup ==
  /\ Stating /\ tasks # <<>> /\ stage # "ok"
  /\ plan' = [i \in DOMAIN tasks |-> TaskDeclaration(tasks[i])]
  /\ taken' = tasks
  /\ gens' = <<>> /\ stage' = "register" /\ pos' = 1 /\ step' = 1 /\ nodes' = {}
  /\ producer' = [x \in Data |-> None]
  /\ mask' = [v \in Nodes |-> [d \in Nodes |-> {}]]
  /\ untested' = {} /\ stack' = <<>>
  /\ UNCHANGED <<tasks, calls, subject>>

TaskNext ==
  \/ Add \/ Call \/ LoadTaskGroup
  \/ (plan # <<>> \/ tasks = <<>>) /\ Next /\ UNCHANGED taskVars

TaskSpec == TaskInit /\ [][TaskNext]_<<vars, taskVars>>
-----------------------------------------------------------------------------
\* The branches of a condition task that was added before them run if and
\* only if it ends as they say, unless they also just follow it.
BranchesAfterCondition ==
  stage = "ok" =>
    \A i, j \in DOMAIN taken : i < j /\ taken[j].id \notin taken[i].succeed =>
      LET expected == mask[taken[j].id][taken[i].id] IN
      /\ taken[j].id \in taken[i].consequent => expected = {"OK"}
      /\ taken[j].id \in taken[i].alternative \ taken[i].consequent => expected = {"ERR"}

\* An id is never used for two tasks.
OwnIds == \A i, j \in DOMAIN taken : i # j => taken[i].ids \cap taken[j].ids = {}

\* Whatever the order of the calls, an accepted group runs every task after
\* the tasks it was stated to follow, and waits for no other: a task that is
\* renamed after it was related makes the build fail, never lose the relation.
TasksOrdered ==
  stage = "ok" /\ OwnIds =>
    \A i, j \in DOMAIN taken :
      mask[taken[j].id][taken[i].id] # {} <=> i \in taken[j].after
=============================================================================
