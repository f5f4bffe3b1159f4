-------------------------- MODULE GraphTask_proofs --------------------------
(***************************************************************************)
(* Proofs about GraphTask: what GraphBuild_proofs shows of a build holds   *)
(* for the builds of task groups too, however often they are repeated, and *)
(* an accepted group is ordered as its tasks were related.                 *)
(*                                                                         *)
(* The invariant has two parts beside that of the build: how the relations *)
(* that a group keeps as ids stand to the tasks they were stated between,  *)
(* and that the declarations being built are those of the tasks taken.     *)
(***************************************************************************)
EXTENDS GraphTask, GraphBuild_proofs

Task ==
  [id : Ids, precede : SUBSET Ids, succeed : SUBSET Ids, consequent : SUBSET Ids,
   alternative : SUBSET Ids, after : SUBSET Nat, ids : SUBSET Ids]

\* The ids a task is stated to come before.
Following(t) == t.succeed \cup t.consequent \cup t.alternative

\* A task that was stated to follow another keeps an id of it; an id that a
\* task keeps is or was that of a task it was related to.
Related(ts) ==
  /\ ts \in Seq(Task)
  /\ \A i \in DOMAIN ts : ts[i].id \in ts[i].ids /\ ts[i].after \subseteq DOMAIN ts
  /\ \A i, j \in DOMAIN ts : i \in ts[j].after => ts[i].ids \cap ts[j].precede # {}
  /\ \A j \in DOMAIN ts : \A a \in ts[j].precede :
       \E i \in DOMAIN ts : i \in ts[j].after /\ a \in ts[i].ids
  /\ \A i \in DOMAIN ts : \A b \in Following(ts[i]) :
       \E j \in DOMAIN ts : i \in ts[j].after /\ b \in ts[j].ids

\* Declaration n is the one of task t; its branches are merged once the first
\* loop has been there.
OfTask(n, t) ==
  /\ n.id = t.id /\ n.expect = None /\ n.input = <<>>
  /\ n.deps = t.precede /\ n.depsOnOk = {} /\ n.depsOnErr = {}
  /\ n.successor = t.succeed
  /\ n.consequent = t.consequent /\ n.alternative = t.alternative
Unmerged(n, t) == OfTask(n, t) /\ n.onOk = {} /\ n.onErr = {}
Merged(n, t) == OfTask(n, t) /\ n.onOk = t.consequent /\ n.onErr = t.alternative
FromTask(i) ==
  IF i \in Seen THEN Merged(plan[i], taken[i]) ELSE Unmerged(plan[i], taken[i])
FromTasks ==
  taken # <<>> /\ stage # "failed" =>
    /\ DOMAIN plan = DOMAIN taken /\ gens = <<>>
    /\ \A i \in DOMAIN plan : FromTask(i)

TaskInv == IInv /\ Related(tasks) /\ Related(taken) /\ FromTasks
-----------------------------------------------------------------------------
(***************************************************************************)
(* The calls that state a group.                                           *)
(***************************************************************************)
LEMMA NewTaskIs ==
  ASSUME NEW id \in Ids
  PROVE  /\ NewTask(id) \in Task /\ NewTask(id).id \in NewTask(id).ids
         /\ NewTask(id).precede = {} /\ NewTask(id).after = {}
         /\ Following(NewTask(id)) = {}
BY DEF NewTask, Task, Following

LEMMA AddKeeps ==
  ASSUME Related(tasks), Add
  PROVE  Related(tasks')
<1>0. PICK L \in Nat : L = Len(tasks)
  BY DEF Related
<1>1. tasks \in Seq(Task) /\ DOMAIN tasks = 1..L
  BY <1>0 DEF Related
<1>2. TaskIds[L + 1] \in Ids
  <2>1. TaskIds \in Seq(Ids) /\ L < Len(TaskIds)
    BY <1>0, TaskAssumption DEF Add
  <2>2. L + 1 \in DOMAIN TaskIds
    BY <2>1
  <2> QED
    BY <2>1, <2>2
<1>3. PICK t \in Task : /\ t = NewTask(TaskIds[L + 1]) /\ t.id \in t.ids
                        /\ t.precede = {} /\ t.after = {} /\ Following(t) = {}
  BY <1>2, NewTaskIs
<1>4. tasks' = Append(tasks, t)
  BY <1>0, <1>3 DEF Add
<1>5. /\ tasks' \in Seq(Task) /\ DOMAIN tasks' = DOMAIN tasks \cup {L + 1}
      /\ \A i \in DOMAIN tasks : tasks'[i] = tasks[i]
      /\ tasks'[L + 1] = t
      /\ L + 1 \notin DOMAIN tasks
  BY <1>0, <1>1, <1>4
<1>6. \A i \in DOMAIN tasks' : tasks'[i].id \in tasks'[i].ids /\ tasks'[i].after \subseteq DOMAIN tasks
  BY <1>3, <1>5 DEF Related
<1>7. \A i, j \in DOMAIN tasks' : i \in tasks'[j].after => tasks'[i].ids \cap tasks'[j].precede # {}
  <2> TAKE i, j \in DOMAIN tasks'
  <2> HAVE i \in tasks'[j].after
  <2>1. i \in DOMAIN tasks /\ j \in DOMAIN tasks
    BY <1>3, <1>5, <1>6
  <2> QED
    BY <1>5, <2>1 DEF Related
<1>8. \A j \in DOMAIN tasks' : \A a \in tasks'[j].precede :
        \E i \in DOMAIN tasks' : i \in tasks'[j].after /\ a \in tasks'[i].ids
  <2> TAKE j \in DOMAIN tasks'
  <2> TAKE a \in tasks'[j].precede
  <2>1. j \in DOMAIN tasks /\ a \in tasks[j].precede
    BY <1>3, <1>5
  <2>2. PICK i \in DOMAIN tasks : i \in tasks[j].after /\ a \in tasks[i].ids
    BY <2>1 DEF Related
  <2> QED
    BY <1>5, <2>1, <2>2
<1>9. \A i \in DOMAIN tasks' : \A b \in Following(tasks'[i]) :
        \E j \in DOMAIN tasks' : i \in tasks'[j].after /\ b \in tasks'[j].ids
  <2> TAKE i \in DOMAIN tasks'
  <2> TAKE b \in Following(tasks'[i])
  <2>1. i \in DOMAIN tasks /\ b \in Following(tasks[i])
    BY <1>3, <1>5
  <2>2. PICK j \in DOMAIN tasks : i \in tasks[j].after /\ b \in tasks[j].ids
    BY <2>1 DEF Related
  <2> QED
    BY <1>5, <2>1, <2>2
<1> QED
  BY <1>5, <1>6, <1>7, <1>8, <1>9 DEF Related

\* A relation of task j to task i, whichever field of i keeps it.
LEMMA RelationKeeps ==
  ASSUME Related(tasks), NEW i \in DOMAIN tasks, NEW j \in DOMAIN tasks,
         tasks' \in Seq(Task), DOMAIN tasks' = DOMAIN tasks,
         \A k \in DOMAIN tasks :
           /\ tasks'[k].id = tasks[k].id /\ tasks'[k].ids = tasks[k].ids
           /\ tasks'[k].precede = IF k = j THEN tasks[k].precede \cup {tasks[i].id}
                                  ELSE tasks[k].precede
           /\ tasks'[k].after = IF k = j THEN tasks[k].after \cup {i} ELSE tasks[k].after
           /\ Following(tasks'[k]) \subseteq
                IF k = i THEN Following(tasks[k]) \cup {tasks[j].id} ELSE Following(tasks[k])
  PROVE  Related(tasks')
<1>1. \A k \in DOMAIN tasks : tasks'[k].id \in tasks'[k].ids /\ tasks'[k].after \subseteq DOMAIN tasks
  <2> TAKE k \in DOMAIN tasks
  <2>1. tasks[k].id \in tasks[k].ids /\ tasks[k].after \subseteq DOMAIN tasks
    BY DEF Related
  <2>2. CASE k = j
    BY <2>1, <2>2, ZenonT(60)
  <2>3. CASE k # j
    BY <2>1, <2>3
  <2> QED
    BY <2>2, <2>3
<1>2. \A k, l \in DOMAIN tasks : k \in tasks'[l].after => tasks'[k].ids \cap tasks'[l].precede # {}
  <2> TAKE k, l \in DOMAIN tasks
  <2> HAVE k \in tasks'[l].after
  <2>1. CASE k \in tasks[l].after
    <3>1. tasks[k].ids \cap tasks[l].precede # {}
      BY <2>1 DEF Related
    <3> QED
      BY <3>1
  <2>2. CASE k \notin tasks[l].after
    <3>1. l = j /\ k = i
      BY <2>2
    <3>2. tasks[i].id \in tasks[i].ids
      BY DEF Related
    <3> QED
      BY <3>1, <3>2
  <2> QED
    BY <2>1, <2>2
<1>3. \A l \in DOMAIN tasks : \A a \in tasks'[l].precede :
        \E k \in DOMAIN tasks : k \in tasks'[l].after /\ a \in tasks'[k].ids
  <2> TAKE l \in DOMAIN tasks
  <2> TAKE a \in tasks'[l].precede
  <2>1. CASE a \in tasks[l].precede
    <3>1. PICK k \in DOMAIN tasks : k \in tasks[l].after /\ a \in tasks[k].ids
      BY <2>1 DEF Related
    <3> QED
      BY <3>1
  <2>2. CASE a \notin tasks[l].precede
    <3>1. l = j /\ a = tasks[i].id
      BY <2>2
    <3>2. tasks[i].id \in tasks[i].ids
      BY DEF Related
    <3> QED
      BY <3>1, <3>2
  <2> QED
    BY <2>1, <2>2
<1>4. \A k \in DOMAIN tasks : \A b \in Following(tasks'[k]) :
        \E l \in DOMAIN tasks : k \in tasks'[l].after /\ b \in tasks'[l].ids
  <2> TAKE k \in DOMAIN tasks
  <2> TAKE b \in Following(tasks'[k])
  <2>1. CASE b \in Following(tasks[k])
    <3>1. PICK l \in DOMAIN tasks : k \in tasks[l].after /\ b \in tasks[l].ids
      BY <2>1 DEF Related
    <3> QED
      BY <3>1
  <2>2. CASE b \notin Following(tasks[k])
    <3>1. k = i /\ b = tasks[j].id
      BY <2>2
    <3>2. tasks[j].id \in tasks[j].ids
      BY DEF Related
    <3> QED
      BY <3>1, <3>2
  <2> QED
    BY <2>1, <2>2
<1> QED
  BY <1>1, <1>2, <1>3, <1>4 DEF Related

LEMMA RelateKeeps ==
  ASSUME Related(tasks), NEW i \in DOMAIN tasks, NEW j \in DOMAIN tasks,
         NEW f \in {"succeed", "consequent", "alternative"}, Relate(i, j, f)
  PROVE  Related(tasks')
<1>1. tasks \in Seq(Task) /\ tasks[i] \in Task /\ tasks[j] \in Task
      /\ DOMAIN tasks \subseteq Nat
  BY DEF Related
<1>2. tasks[i].id \in Ids /\ tasks[j].id \in Ids /\ i \in Nat
  BY <1>1 DEF Task
<1>3. PICK t : t = [tasks[i] EXCEPT ![f] = @ \cup {tasks[j].id}]
  OBVIOUS
<1>4. /\ t \in Task /\ t.id = tasks[i].id /\ t.ids = tasks[i].ids
      /\ t.precede = tasks[i].precede /\ t.after = tasks[i].after
      /\ Following(t) \subseteq Following(tasks[i]) \cup {tasks[j].id}
  BY <1>1, <1>2, <1>3 DEF Task, Following
<1>5. PICK ts : ts = [tasks EXCEPT ![i] = t]
  OBVIOUS
<1>6. /\ ts \in Seq(Task) /\ DOMAIN ts = DOMAIN tasks /\ ts[i] = t
      /\ \A k \in DOMAIN tasks : k # i => ts[k] = tasks[k]
  BY <1>1, <1>4, <1>5
<1>7. PICK u : u = [ts[j] EXCEPT !.precede = @ \cup {tasks[i].id}]
  OBVIOUS
<1>8. /\ u \in Task /\ u.id = ts[j].id /\ u.ids = ts[j].ids
      /\ u.precede = ts[j].precede \cup {tasks[i].id} /\ u.after = ts[j].after
      /\ Following(u) = Following(ts[j])
  <2>1. ts[j] \in Task
    BY <1>6
  <2> QED
    BY <1>2, <1>7, <2>1 DEF Task, Following
<1>9. PICK w : w = [u EXCEPT !.after = @ \cup {i}]
  OBVIOUS
<1>10. /\ w \in Task /\ w.id = ts[j].id /\ w.ids = ts[j].ids
       /\ w.precede = ts[j].precede \cup {tasks[i].id} /\ w.after = ts[j].after \cup {i}
       /\ Following(w) = Following(ts[j])
  BY <1>2, <1>8, <1>9 DEF Task, Following
<1>11. PICK us : us = [ts EXCEPT ![j] = u]
  OBVIOUS
<1>12. us \in Seq(Task) /\ DOMAIN us = DOMAIN tasks /\ us[j] = u
       /\ \A k \in DOMAIN tasks : k # j => us[k] = ts[k]
  BY <1>6, <1>8, <1>11
<1>13. tasks' = [us EXCEPT ![j] = [us[j] EXCEPT !.after = @ \cup {i}]]
  BY <1>3, <1>5, <1>7, <1>11 DEF Relate
<1>14. /\ tasks' \in Seq(Task) /\ DOMAIN tasks' = DOMAIN tasks /\ tasks'[j] = w
       /\ \A k \in DOMAIN tasks : k # j => tasks'[k] = ts[k]
  BY <1>9, <1>10, <1>12, <1>13
<1> QED
  <2>1. \A k \in DOMAIN tasks :
          /\ ts[k].id = tasks[k].id /\ ts[k].ids = tasks[k].ids
          /\ ts[k].precede = tasks[k].precede /\ ts[k].after = tasks[k].after
          /\ Following(ts[k]) \subseteq
               IF k = i THEN Following(tasks[k]) \cup {tasks[j].id} ELSE Following(tasks[k])
    BY <1>4, <1>6
  <2>2. \A k \in DOMAIN tasks :
          /\ tasks'[k].id = ts[k].id /\ tasks'[k].ids = ts[k].ids
          /\ tasks'[k].precede = IF k = j THEN ts[k].precede \cup {tasks[i].id}
                                 ELSE ts[k].precede
          /\ tasks'[k].after = IF k = j THEN ts[k].after \cup {i} ELSE ts[k].after
          /\ Following(tasks'[k]) = Following(ts[k])
    BY <1>10, <1>14
  <2>3. \A k \in DOMAIN tasks :
           /\ tasks'[k].id = tasks[k].id /\ tasks'[k].ids = tasks[k].ids
           /\ tasks'[k].precede = IF k = j THEN tasks[k].precede \cup {tasks[i].id}
                                  ELSE tasks[k].precede
           /\ tasks'[k].after = IF k = j THEN tasks[k].after \cup {i} ELSE tasks[k].after
           /\ Following(tasks'[k]) \subseteq
                IF k = i THEN Following(tasks[k]) \cup {tasks[j].id} ELSE Following(tasks[k])
    <3> TAKE k \in DOMAIN tasks
    <3> QED
      BY <2>1, <2>2
  <2> HIDE <2>1, <2>2
  <2> QED
    BY <1>14, <2>3, RelationKeeps

LEMMA NameKeeps ==
  ASSUME Related(tasks), NEW i \in DOMAIN tasks, NEW id \in Ids, Name(i, id)
  PROVE  Related(tasks')
<1>1. tasks \in Seq(Task) /\ tasks[i] \in Task
  BY DEF Related
<1>2. PICK u : u = [tasks[i] EXCEPT !.id = id]
  OBVIOUS
<1>3. /\ u \in Task /\ u.id = id /\ u.ids = tasks[i].ids
      /\ u.precede = tasks[i].precede /\ u.after = tasks[i].after
      /\ Following(u) = Following(tasks[i])
  BY <1>1, <1>2 DEF Task, Following
<1>4. PICK t : t = [u EXCEPT !.ids = @ \cup {id}]
  OBVIOUS
<1>5. /\ t \in Task /\ t.id = id /\ t.ids = tasks[i].ids \cup {id}
      /\ t.precede = tasks[i].precede /\ t.after = tasks[i].after
      /\ Following(t) = Following(tasks[i])
  BY <1>3, <1>4 DEF Task, Following
<1>6. PICK ts : ts = [tasks EXCEPT ![i] = u]
  OBVIOUS
<1>7. /\ ts \in Seq(Task) /\ DOMAIN ts = DOMAIN tasks /\ ts[i] = u
      /\ \A k \in DOMAIN tasks : k # i => ts[k] = tasks[k]
  BY <1>1, <1>3, <1>6
<1>8. tasks' = [ts EXCEPT ![i] = [ts[i] EXCEPT !.ids = @ \cup {id}]]
  BY <1>2, <1>6 DEF Name
<1>9. /\ tasks' \in Seq(Task) /\ DOMAIN tasks' = DOMAIN tasks /\ tasks'[i] = t
      /\ \A k \in DOMAIN tasks : k # i => tasks'[k] = tasks[k]
  BY <1>4, <1>5, <1>7, <1>8
<1>10. \A k \in DOMAIN tasks :
         /\ tasks[k].ids \subseteq tasks'[k].ids
         /\ tasks'[k].precede = tasks[k].precede /\ tasks'[k].after = tasks[k].after
         /\ Following(tasks'[k]) = Following(tasks[k])
  BY <1>5, <1>9
<1>11. \A k \in DOMAIN tasks : tasks'[k].id \in tasks'[k].ids
  BY <1>5, <1>9 DEF Related
<1> QED
  <2>1. \A k, l \in DOMAIN tasks : k \in tasks'[l].after => tasks'[k].ids \cap tasks'[l].precede # {}
    <3> TAKE k, l \in DOMAIN tasks
    <3> HAVE k \in tasks'[l].after
    <3>1. tasks[k].ids \cap tasks[l].precede # {}
      BY <1>10 DEF Related
    <3> QED
      BY <1>10, <3>1
  <2>2. \A l \in DOMAIN tasks : \A a \in tasks'[l].precede :
          \E k \in DOMAIN tasks : k \in tasks'[l].after /\ a \in tasks'[k].ids
    <3> TAKE l \in DOMAIN tasks
    <3> TAKE a \in tasks'[l].precede
    <3>1. PICK k \in DOMAIN tasks : k \in tasks[l].after /\ a \in tasks[k].ids
      BY <1>10 DEF Related
    <3> QED
      BY <1>10, <3>1
  <2>3. \A k \in DOMAIN tasks : \A b \in Following(tasks'[k]) :
          \E l \in DOMAIN tasks : k \in tasks'[l].after /\ b \in tasks'[l].ids
    <3> TAKE k \in DOMAIN tasks
    <3> TAKE b \in Following(tasks'[k])
    <3>1. PICK l \in DOMAIN tasks : k \in tasks[l].after /\ b \in tasks[l].ids
      BY <1>10 DEF Related
    <3> QED
      BY <1>10, <3>1
  <2>4. \A k \in DOMAIN tasks : tasks'[k].after \subseteq DOMAIN tasks
    BY <1>10 DEF Related
  <2> QED
    BY <1>9, <1>11, <2>1, <2>2, <2>3, <2>4 DEF Related

\* Whatever calls are made, in whatever order.
LEMMA CallKeeps ==
  ASSUME Related(tasks), Call
  PROVE  Related(tasks')
<1>1. PICK i \in DOMAIN tasks :
        \/ \E j \in DOMAIN tasks : Precede(i, j) \/ Consequent(i, j) \/ Alternative(i, j)
        \/ \E id \in Ids \ {tasks[i].id} : Name(i, id)
  BY DEF Call
<1>2. ASSUME NEW j \in DOMAIN tasks, Precede(i, j) \/ Consequent(i, j) \/ Alternative(i, j)
      PROVE  Related(tasks')
  <2>1. CASE Precede(i, j)
    BY <2>1, RelateKeeps DEF Precede
  <2>2. CASE Consequent(i, j)
    BY <2>2, RelateKeeps DEF Consequent
  <2>3. CASE Alternative(i, j)
    BY <2>3, RelateKeeps DEF Alternative
  <2> QED
    BY <1>2, <2>1, <2>2, <2>3
<1>3. ASSUME NEW id \in Ids, Name(i, id)
      PROVE  Related(tasks')
  BY <1>3, NameKeeps
<1> QED
  BY <1>1, <1>2, <1>3
-----------------------------------------------------------------------------
(***************************************************************************)
(* The builds of a group.                                                  *)
(***************************************************************************)
LEMMA DeclarationIs ==
  ASSUME NEW t \in Task
  PROVE  /\ TaskDeclaration(t) \in Declaration
         /\ TaskDeclaration(t).id \in Ids
         /\ TaskDeclaration(t).expectDeps = {}
         /\ Unmerged(TaskDeclaration(t), t)
<1>1. /\ t.id \in Ids /\ t.precede \subseteq Ids /\ t.succeed \subseteq Ids
      /\ t.consequent \subseteq Ids /\ t.alternative \subseteq Ids
  BY DEF Task
<1>2. Ids \subseteq Nodes
  BY DEF Nodes
<1>3. PICK b : b = BareVertex(t.id)
  OBVIOUS
<1>4. /\ b \in Declaration /\ b.id = t.id /\ b.expect = None /\ b.expectDeps = {}
      /\ b.input = <<>> /\ b.depsOnOk = {} /\ b.depsOnErr = {} /\ b.onOk = {} /\ b.onErr = {}
  <2>1. <<>> \in Seq(Input)
    OBVIOUS
  <2>2. b \in Declaration
    BY <1>1, <1>2, <1>3, <2>1 DEF BareVertex, Declaration
  <2> QED
    BY <1>3, <2>2 DEF BareVertex
<1>5. TaskDeclaration(t) =
        [b EXCEPT !.deps = t.precede, !.successor = t.succeed,
                  !.consequent = t.consequent, !.alternative = t.alternative]
  BY <1>3 DEF TaskDeclaration
<1>6. TaskDeclaration(t) \in Declaration
  BY <1>1, <1>2, <1>4, <1>5, ZenonT(60) DEF Declaration
<1>7. LET n == TaskDeclaration(t) IN
      /\ n.id = b.id /\ n.expect = b.expect /\ n.expectDeps = b.expectDeps
      /\ n.input = b.input /\ n.depsOnOk = b.depsOnOk /\ n.depsOnErr = b.depsOnErr
      /\ n.onOk = b.onOk /\ n.onErr = b.onErr
      /\ n.deps = t.precede /\ n.successor = t.succeed
      /\ n.consequent = t.consequent /\ n.alternative = t.alternative
  BY <1>4, <1>5 DEF Declaration
<1> QED
  BY <1>1, <1>4, <1>6, <1>7 DEF OfTask, Unmerged

LEMMA LoadKeeps ==
  ASSUME TaskInv, LoadTaskGroup
  PROVE  TaskInv'
<1>1. /\ plan' = [i \in DOMAIN tasks |-> TaskDeclaration(tasks[i])]
      /\ taken' = tasks /\ tasks' = tasks /\ subject' = subject
      /\ gens' = <<>> /\ stage' = "register" /\ pos' = 1 /\ step' = 1 /\ nodes' = {}
      /\ producer' = [x \in Data |-> None]
      /\ mask' = [v \in Nodes |-> [d \in Nodes |-> {}]]
      /\ untested' = {} /\ stack' = <<>>
  BY DEF LoadTaskGroup
<1>2. /\ tasks \in Seq(Task) /\ \A i \in DOMAIN tasks : tasks[i] \in Task
      /\ DOMAIN tasks = 1..Len(tasks) /\ Len(tasks) \in Nat
  BY DEF TaskInv, Related
<1>3. DOMAIN plan' = DOMAIN tasks /\ \A i \in DOMAIN tasks : plan'[i] = TaskDeclaration(tasks[i])
  BY <1>1
<1>4. plan' \in Seq(Declaration)
  <2>1. \A i \in 1..Len(tasks) : TaskDeclaration(tasks[i]) \in Declaration
    BY <1>2, DeclarationIs
  <2> QED
    BY <1>1, <1>2, <2>1
<1>5. \A i \in DOMAIN tasks :
        /\ tasks[i].precede \subseteq Ids /\ tasks[i].succeed \subseteq Ids
        /\ tasks[i].consequent \subseteq Ids /\ tasks[i].alternative \subseteq Ids
  BY <1>2 DEF Task
<1>6. \A i \in DOMAIN tasks : /\ plan'[i].id \in Ids /\ plan'[i].expectDeps = {}
                              /\ Unmerged(plan'[i], tasks[i])
  BY <1>2, <1>3, DeclarationIs
<1>7. Fresh'
  <2>1. \A i \in DOMAIN plan' :
          /\ plan'[i].id \in Ids
          /\ plan'[i].expectDeps \cup plan'[i].deps \cup plan'[i].depsOnOk \cup plan'[i].depsOnErr \subseteq Ids
          /\ plan'[i].successor \cup plan'[i].onOk \cup plan'[i].onErr \subseteq Ids
          /\ plan'[i].consequent \cup plan'[i].alternative \subseteq Ids
    BY <1>3, <1>5, <1>6 DEF OfTask, Unmerged
  <2>2. subject \in Nodes
    BY DEF TaskInv, IInv, TypeOK
  <2> QED
    BY <1>1, <1>4, <2>1, <2>2 DEF Fresh
<1>8. Fresh' => IInv'
  BY FreshInv, PTL
<1>9. FromTasks'
  <2>1. \A i \in DOMAIN plan' : i \notin Seen'
    BY <1>1, <1>2, <1>3 DEF Seen
  <2> QED
    BY <1>1, <1>3, <1>6, <2>1 DEF FromTasks, FromTask
<1> QED
  BY <1>1, <1>7, <1>8, <1>9 DEF TaskInv, Related

\* A loop body of the first loop, for a declaration without a condition.
LEMMA RegisteredIs ==
  ASSUME NEW n \in Declaration, NEW t, Unmerged(n, t)
  PROVE  Merged(Registered(n), t)
<1>1. n.expect = None /\ n.onOk = {} /\ n.onErr = {}
  BY DEF Unmerged, OfTask
<1>2. Registered(n).depsOnOk = n.depsOnOk
  <2>1. Registered(n).depsOnOk = n.depsOnOk \cup ({n.expect} \ {None})
    BY RegisteredType, Zenon
  <2> QED
    BY <1>1, <2>1
<1> QED
  BY <1>1, <1>2, RegisteredType DEF Merged, Unmerged, OfTask

\* No step of a build but the first loop changes a declaration.
LEMMA BuildSteps ==
  ASSUME Next
  PROVE  \/ Register \/ RegisterEnds
         \/ UNCHANGED <<plan, gens>> /\ stage \notin {"register", "failed"} /\ stage' # "register"
<1>1. CASE BuildRelation
  BY <1>1 DEF BuildRelation, Fail
<1>2. CASE BuildInput
  BY <1>2 DEF BuildInput, Fail
<1>3. CASE BuildNext
  BY <1>3 DEF BuildNext
<1>4. CASE BuildEnd
  BY <1>4 DEF BuildEnd
<1>5. CASE Verify
  BY <1>5 DEF Verify, Fail
<1>6. ASSUME NEW v \in Nodes, TestVertex(v)
      PROVE  UNCHANGED <<plan, gens>> /\ stage \notin {"register", "failed"} /\ stage' # "register"
  BY <1>6 DEF TestVertex, Enter
<1>7. ASSUME NEW v \in Nodes, Descend(v)
      PROVE  UNCHANGED <<plan, gens>> /\ stage \notin {"register", "failed"} /\ stage' # "register"
  BY <1>7 DEF Descend, Enter
<1>8. CASE Return
  BY <1>8 DEF Return
<1>9. CASE TestEnds
  BY <1>9 DEF TestEnds
<1> QED
  BY <1>1, <1>2, <1>3, <1>4, <1>5, <1>6, <1>7, <1>8, <1>9 DEF Next

LEMMA NextKeeps ==
  ASSUME TaskInv, Next, UNCHANGED taskVars
  PROVE  TaskInv'
<1>1. IInv'
  BY NextStep DEF TaskInv
<1>2. tasks' = tasks /\ taken' = taken
  BY DEF taskVars
<1>3. FromTasks'
  <2> SUFFICES ASSUME taken # <<>>, stage' # "failed"
               PROVE  /\ DOMAIN plan' = DOMAIN taken /\ gens' = <<>>
                      /\ \A i \in DOMAIN plan' : FromTask(i)'
    BY <1>2 DEF FromTasks
  <2>1. CASE Register
    <3>1. stage = "register" /\ pos <= Len(plan)
      BY <2>1 DEF Register
    <3>2. /\ DOMAIN plan = DOMAIN taken /\ gens = <<>>
          /\ \A i \in DOMAIN plan : FromTask(i)
      BY <3>1 DEF TaskInv, FromTasks
    <3>3. plan \in Seq(Declaration) /\ pos \in Nat \ {0}
      BY <3>1 DEF TaskInv, IInv, TypeOK, BuildInv
    <3>4. pos \in DOMAIN plan /\ plan[pos] \in Declaration
      BY <3>1, <3>3
    <3>5. pos \notin Seen
      BY <3>1, <3>3 DEF Seen
    <3>6. Unmerged(plan[pos], taken[pos])
      BY <3>2, <3>4, <3>5 DEF FromTask
    <3>7. ~BadDeclaration(plan[pos])
      BY <2>1 DEF Register, Fail
    <3>8. /\ plan' = [plan EXCEPT ![pos] = Registered(plan[pos])]
          /\ gens' = IF plan[pos].expect \notin Generated \cup {None}
                     THEN Append(gens, CondVertex(plan[pos])) ELSE gens
          /\ pos' = pos + 1 /\ stage' = stage
      BY <2>1, <3>7 DEF Register
    <3>9. gens' = <<>>
      BY <3>2, <3>6, <3>8 DEF OfTask, Unmerged
    <3>10. DOMAIN plan' = DOMAIN plan /\ Seen' = Seen \cup {pos}
      BY <3>1, <3>3, <3>4, <3>8 DEF Seen
    <3>11. Merged(plan'[pos], taken[pos])
      BY <3>4, <3>6, <3>8, RegisteredIs
    <3>12. \A i \in DOMAIN plan : i # pos => plan'[i] = plan[i]
      BY <3>8
    <3>13. \A i \in DOMAIN plan' : FromTask(i)'
      <4> TAKE i \in DOMAIN plan'
      <4>1. CASE i = pos
        BY <1>2, <3>10, <3>11, <4>1 DEF FromTask
      <4>2. CASE i # pos
        BY <1>2, <3>2, <3>10, <3>12, <4>2 DEF FromTask
      <4> QED
        BY <4>1, <4>2
    <3> QED
      BY <3>2, <3>9, <3>10, <3>13
  <2>2. CASE RegisterEnds
    <3>1. /\ stage = "register" /\ pos > Len(plan) /\ stage' = "build" /\ gens' = gens
          /\ plan' = IF Len(plan) = 1 /\ gens = <<>>
                     THEN [plan EXCEPT ![1].isStart = TRUE] ELSE plan
      BY <2>2 DEF RegisterEnds
    <3>2. /\ DOMAIN plan = DOMAIN taken /\ gens = <<>>
          /\ \A i \in DOMAIN plan : FromTask(i)
      BY <3>1 DEF TaskInv, FromTasks
    <3>3. plan \in Seq(Declaration) /\ pos \in Nat
      BY DEF TaskInv, IInv, TypeOK
    <3>4. DOMAIN plan' = DOMAIN plan
      BY <3>1
    <3>5. Seen = DOMAIN plan /\ Seen' = DOMAIN plan
      <4>1. \A i \in DOMAIN plan : i < pos
        BY <3>1, <3>3
      <4> QED
        BY <3>1, <3>4, <4>1 DEF Seen
    <3>6. \A i \in DOMAIN plan : Merged(plan'[i], taken[i])
      <4> TAKE i \in DOMAIN plan
      <4>1. Merged(plan[i], taken[i]) /\ plan[i] \in Declaration
        BY <3>2, <3>3, <3>5 DEF FromTask
      <4>2. CASE plan'[i] = plan[i]
        BY <4>1, <4>2
      <4>3. CASE plan'[i] # plan[i]
        <5>1. plan'[i] = [plan[i] EXCEPT !.isStart = TRUE]
          BY <3>1, <4>3
        <5> QED
          BY <4>1, <5>1 DEF OfTask, Merged, Declaration
      <4> QED
        BY <4>2, <4>3
    <3> QED
      BY <1>2, <3>1, <3>2, <3>4, <3>5, <3>6 DEF FromTask
  <2>3. CASE UNCHANGED <<plan, gens>> /\ stage \notin {"register", "failed"} /\ stage' # "register"
    <3>1. Seen = DOMAIN plan /\ Seen' = DOMAIN plan
      BY <2>3 DEF Seen
    <3>2. /\ DOMAIN plan = DOMAIN taken /\ gens = <<>>
          /\ \A i \in DOMAIN plan : FromTask(i)
      BY <2>3 DEF TaskInv, FromTasks
    <3> QED
      BY <1>2, <2>3, <3>1, <3>2 DEF FromTask
  <2> QED
    BY <2>1, <2>2, <2>3, BuildSteps
<1> QED
  BY <1>1, <1>2, <1>3 DEF TaskInv, Related
-----------------------------------------------------------------------------
(***************************************************************************)
(* The theorems.                                                           *)
(***************************************************************************)
LEMMA TaskInitInv ==
  ASSUME TaskInit
  PROVE  TaskInv
<1>1. IInv
  BY InitInv DEF TaskInit
<1>2. tasks = <<>> /\ taken = <<>>
  BY DEF TaskInit
<1>3. Related(<<>>)
  BY DEF Related
<1> QED
  BY <1>1, <1>2, <1>3 DEF TaskInv, FromTasks

LEMMA TaskStep ==
  ASSUME TaskInv, [TaskNext]_<<vars, taskVars>>
  PROVE  TaskInv'
<1>1. ASSUME UNCHANGED vars, taken' = taken, Related(tasks')
      PROVE  TaskInv'
  <2>1. IInv'
    BY <1>1, StutterStep DEF TaskInv
  <2>2. UNCHANGED <<plan, gens, stage, pos>>
    BY <1>1 DEF vars
  <2>3. FromTasks'
    <3>1. Seen' = Seen
      BY <2>2 DEF Seen
    <3>2. FromTasks
      BY DEF TaskInv
    <3> QED
      BY <1>1, <2>2, <3>1, <3>2 DEF FromTasks, FromTask
  <2>4. Related(taken)
    BY DEF TaskInv
  <2> QED
    BY <1>1, <2>1, <2>3, <2>4 DEF TaskInv, Related
<1>2. CASE Add
  BY <1>1, <1>2, AddKeeps DEF Add, TaskInv
<1>3. CASE Call
  BY <1>1, <1>3, CallKeeps DEF Call, TaskInv
<1>4. CASE LoadTaskGroup
  BY <1>4, LoadKeeps
<1>5. CASE Next /\ UNCHANGED taskVars
  BY <1>5, NextKeeps
<1>6. CASE UNCHANGED <<vars, taskVars>>
  BY <1>1, <1>6 DEF taskVars, TaskInv, Related
<1> QED
  BY <1>2, <1>3, <1>4, <1>5, <1>6 DEF TaskNext

\* The inductive invariant holds whatever is declared or stated, in whatever
\* order, and however often a group whose build failed is loaded again.
THEOREM TaskInvariant == TaskSpec => []TaskInv
<1>1. TaskInit => TaskInv
  BY TaskInitInv
<1>2. TaskInv /\ [TaskNext]_<<vars, taskVars>> => TaskInv'
  BY TaskStep
<1> QED
  BY <1>1, <1>2, PTL DEF TaskSpec

\* A group that is accepted: its vertices are its tasks, which have ids of
\* their own, and its dependencies are the relations it keeps.
LEMMA Accepted ==
  ASSUME TaskInv, stage = "ok", taken # <<>>
  PROVE  /\ DOMAIN Built = DOMAIN taken /\ DOMAIN taken \subseteq Nat
         /\ \A i \in DOMAIN taken : Merged(Built[i], taken[i]) /\ taken[i].id \in Nodes
         /\ \A i, j \in DOMAIN taken : taken[i].id = taken[j].id => i = j
         /\ nodes = {taken[i].id : i \in DOMAIN taken}
         /\ \A v, d \in Nodes : mask[v][d] # {} =>
              \E i \in DOMAIN taken, k \in 1..6 : ByRelation(v, d, i, k)
         /\ \A i \in DOMAIN taken, k \in 1..6 : \A v, d \in Nodes :
              Names(Built[i], k, v, d) => mask[v][d] # {} /\ v \in nodes /\ d \in nodes
<1>1. /\ DOMAIN plan = DOMAIN taken /\ gens = <<>>
      /\ \A i \in DOMAIN plan : Merged(plan[i], taken[i])
  BY DEF TaskInv, FromTasks, FromTask, Seen
<1>2. plan \in Seq(Declaration)
  BY DEF TaskInv, IInv, TypeOK
<1>3. Built = plan
  BY <1>1, <1>2 DEF Built
<1>4. \A i \in DOMAIN taken : taken[i].id = plan[i].id /\ Built[i].input = <<>>
  BY <1>1, <1>3 DEF Merged, OfTask
<1>5. taken \in Seq(Task)
  BY DEF TaskInv, Related
<1>6. DOMAIN taken \subseteq Nat /\ \A i \in DOMAIN taken : taken[i].id \in Nodes
  <2>1. \A i \in DOMAIN taken : taken[i] \in Task
    BY <1>5
  <2>2. \A t \in Task : t.id \in Nodes
    BY DEF Task, Nodes
  <2>3. DOMAIN taken \subseteq Nat
    BY <1>5
  <2> QED
    BY <2>1, <2>2, <2>3
<1>7. \A i, j \in DOMAIN taken : taken[i].id = taken[j].id => i = j
  BY <1>1, <1>4 DEF TaskInv, IInv, Registry, Seen
<1>8. nodes = {taken[i].id : i \in DOMAIN taken}
  <2>1. nodes = {plan[i].id : i \in DOMAIN plan} \cup Generated
    BY DEF TaskInv, IInv, Registry, Seen
  <2>2. Generated = {}
    BY <1>1 DEF Generated
  <2> QED
    BY <1>1, <1>4, <2>1, <2>2
<1>9. Linked /\ RelationsBuilt /\ FirstDecides
  BY DEF TaskInv, IInv, BuildInv
<1>10. \A v, d \in Nodes : ~ByInput(v, d)
  BY <1>1, <1>3, <1>4 DEF ByInput
<1>11. \A v, d \in Nodes : mask[v][d] # {} =>
         \E i \in DOMAIN taken, k \in 1..6 : ByRelation(v, d, i, k)
  BY <1>1, <1>3, <1>9, <1>10 DEF FirstDecides
<1>12. \A i \in DOMAIN taken, k \in 1..6 : \A v, d \in Nodes :
         Names(Built[i], k, v, d) => mask[v][d] # {}
  BY <1>1, <1>3, <1>9 DEF RelationsBuilt, Done
<1>13. \A v, d \in Nodes : mask[v][d] # {} => v \in nodes /\ d \in nodes
  BY <1>9 DEF Linked
<1>14. DOMAIN Built = DOMAIN taken /\ \A i \in DOMAIN taken : Merged(Built[i], taken[i])
  BY <1>1, <1>3
<1>15. \A i \in DOMAIN taken, k \in 1..6 : \A v, d \in Nodes :
         Names(Built[i], k, v, d) => mask[v][d] # {} /\ v \in nodes /\ d \in nodes
  BY <1>12, <1>13
<1> QED
  BY <1>6, <1>7, <1>8, <1>11, <1>14, <1>15, Zenon

\* The relations of the vertex of a task.
LEMMA TaskNames ==
  ASSUME NEW n, NEW t, Merged(n, t), NEW v, NEW d
  PROVE  /\ Names(n, 1, v, d) <=> t.id = v /\ d \in t.precede
         /\ ~Names(n, 2, v, d) /\ ~Names(n, 3, v, d)
         /\ Names(n, 4, v, d) <=> t.id = d /\ v \in t.succeed
         /\ Names(n, 5, v, d) <=> t.id = d /\ v \in t.consequent
         /\ Names(n, 6, v, d) <=> t.id = d /\ v \in t.alternative
<1>1. /\ n.id = t.id /\ n.deps = t.precede /\ n.depsOnOk = {} /\ n.depsOnErr = {}
      /\ n.successor = t.succeed /\ n.onOk = t.consequent /\ n.onErr = t.alternative
  BY DEF Merged, OfTask
<1>2. 1 <= 3 /\ 2 <= 3 /\ 3 <= 3 /\ ~(4 <= 3) /\ ~(5 <= 3) /\ ~(6 <= 3)
  OBVIOUS
<1> QED
  BY <1>1, <1>2, RelationsAre DEF Names

LEMMA TaskBranches ==
  ASSUME TaskInv
  PROVE  BranchesAfterCondition
<1> SUFFICES ASSUME stage = "ok", NEW i \in DOMAIN taken, NEW j \in DOMAIN taken,
                    i < j, taken[j].id \notin taken[i].succeed
             PROVE  LET expected == mask[taken[j].id][taken[i].id] IN
                    /\ taken[j].id \in taken[i].consequent => expected = {"OK"}
                    /\ taken[j].id \in taken[i].alternative \ taken[i].consequent
                         => expected = {"ERR"}
  BY DEF BranchesAfterCondition
<1>0. taken # <<>>
  OBVIOUS
<1>1. PICK v \in Nodes, d \in Nodes : v = taken[j].id /\ d = taken[i].id
  BY <1>0, Accepted
<1>2. i \in Nat /\ j \in Nat
  BY <1>0, Accepted
<1>3. \A g \in DOMAIN taken : (taken[g].id = v => g = j) /\ (taken[g].id = d => g = i)
  BY <1>0, <1>1, Accepted
<1>4. ASSUME NEW l \in {5, 6}, Names(Built[i], l, v, d),
             l = 6 => v \notin taken[i].consequent
      PROVE  mask[v][d] = Relations(Built[i])[l].expected
  <2>1. mask[v][d] # {}
    BY <1>0, <1>4, Accepted, SMTT(30)
  <2>2. PICK g \in DOMAIN taken, k \in 1..6 : ByRelation(v, d, g, k)
    BY <1>0, <2>1, Accepted
  <2>3. /\ Names(Built[g], k, v, d) /\ mask[v][d] = Relations(Built[g])[k].expected
        /\ ~Before(i, l, g, k)
    BY <1>0, <1>4, <2>2, Accepted DEF ByRelation
  <2>4. Merged(Built[g], taken[g]) /\ Merged(Built[i], taken[i])
    BY <1>0, Accepted
  <2>5. k = 1 \/ k = 2 \/ k = 3 \/ k = 4 \/ k = 5 \/ k = 6
    OBVIOUS
  <2>6. k # 2 /\ k # 3
    BY <2>3, <2>4, TaskNames
  <2>7. k # 1
    <3>1. k = 1 => g = j
      BY <1>3, <2>3, <2>4, TaskNames
    <3> QED
      BY <1>2, <2>3, <3>1 DEF Before
  <2>8. g = i /\ k # 4
    <3>1. k \in {4, 5, 6} => taken[g].id = d
      BY <2>3, <2>4, TaskNames
    <3>2. g = i
      BY <1>3, <2>5, <2>6, <2>7, <3>1
    <3> QED
      BY <1>1, <2>3, <2>4, <3>2, TaskNames
  <2>9. k = l
    <3>1. k = 5 => v \in taken[i].consequent
      BY <2>3, <2>4, <2>8, TaskNames
    <3>2. ~(l < k)
      BY <2>3, <2>8 DEF Before
    <3> QED
      BY <1>4, <2>5, <2>6, <2>7, <2>8, <3>1, <3>2
  <2> QED
    BY <2>3, <2>8, <2>9
<1>5. Merged(Built[i], taken[i])
  BY <1>0, Accepted
<1>6. ASSUME v \in taken[i].consequent
      PROVE  mask[v][d] = {"OK"}
  <2>1. Names(Built[i], 5, v, d)
    BY <1>1, <1>5, <1>6, TaskNames
  <2> QED
    BY <1>4, <2>1, RelationsAre
<1>7. ASSUME v \in taken[i].alternative \ taken[i].consequent
      PROVE  mask[v][d] = {"ERR"}
  <2>1. Names(Built[i], 6, v, d)
    BY <1>1, <1>5, <1>7, TaskNames
  <2> QED
    BY <1>4, <1>7, <2>1, RelationsAre
<1> QED
  BY <1>1, <1>6, <1>7

LEMMA TaskOrder ==
  ASSUME TaskInv
  PROVE  TasksOrdered
<1> SUFFICES ASSUME stage = "ok", OwnIds, NEW i \in DOMAIN taken, NEW j \in DOMAIN taken
             PROVE  mask[taken[j].id][taken[i].id] # {} <=> i \in taken[j].after
  BY DEF TasksOrdered
<1>0. taken # <<>>
  OBVIOUS
<1>1. PICK v \in Nodes, d \in Nodes : v = taken[j].id /\ d = taken[i].id
  BY <1>0, Accepted
<1>2. \A g \in DOMAIN taken : (taken[g].id = v => g = j) /\ (taken[g].id = d => g = i)
  BY <1>0, <1>1, Accepted
<1>3. Related(taken)
  BY DEF TaskInv
<1>4. \A g \in DOMAIN taken : taken[g].id \in taken[g].ids
  BY <1>3 DEF Related
<1>5. \A g \in DOMAIN taken : (v \in taken[g].ids => g = j) /\ (d \in taken[g].ids => g = i)
  BY <1>1, <1>4 DEF OwnIds
<1>6. \A g \in DOMAIN taken : Merged(Built[g], taken[g])
  BY <1>0, Accepted
<1>7. ASSUME i \in taken[j].after
      PROVE  mask[v][d] # {}
  <2>1. PICK a \in taken[i].ids : a \in taken[j].precede
    BY <1>3, <1>7 DEF Related
  <2>2. a \in Nodes
    <3>1. taken[j] \in Task
      BY <1>3 DEF Related
    <3> QED
      BY <2>1, <3>1 DEF Task, Nodes
  <2>3. Names(Built[j], 1, v, a)
    BY <1>1, <1>6, <2>1, TaskNames
  <2>4. a \in nodes
    BY <1>0, <2>2, <2>3, Accepted
  <2>5. PICK g \in DOMAIN taken : a = taken[g].id
    BY <1>0, <2>4, Accepted
  <2>6. g = i
    BY <1>4, <2>1, <2>5 DEF OwnIds
  <2> QED
    BY <1>0, <1>1, <2>3, <2>5, <2>6, Accepted, SMTT(30)
<1>8. ASSUME mask[v][d] # {}
      PROVE  i \in taken[j].after
  <2>1. PICK g \in DOMAIN taken, k \in 1..6 : ByRelation(v, d, g, k)
    BY <1>0, <1>8, Accepted
  <2>2. Names(Built[g], k, v, d)
    BY <2>1 DEF ByRelation
  <2>3. k = 1 \/ k = 2 \/ k = 3 \/ k = 4 \/ k = 5 \/ k = 6
    OBVIOUS
  <2>4. CASE k = 1
    <3>1. g = j /\ d \in taken[j].precede
      BY <1>2, <1>6, <2>2, <2>4, TaskNames
    <3>2. PICK h \in DOMAIN taken : h \in taken[j].after /\ d \in taken[h].ids
      BY <1>3, <3>1 DEF Related
    <3> QED
      BY <1>5, <3>2
  <2>5. CASE k = 2 \/ k = 3
    BY <1>6, <2>2, <2>5, TaskNames
  <2>6. CASE k = 4 \/ k = 5 \/ k = 6
    <3>1. taken[g].id = d /\ v \in Following(taken[g])
      BY <1>6, <2>2, <2>6, TaskNames DEF Following
    <3>2. g = i
      BY <1>2, <3>1
    <3>3. PICK h \in DOMAIN taken : i \in taken[h].after /\ v \in taken[h].ids
      BY <1>3, <3>1, <3>2 DEF Related
    <3> QED
      BY <1>5, <3>3
  <2> QED
    BY <2>3, <2>4, <2>5, <2>6
<1> QED
  BY <1>1, <1>7, <1>8

\* Graph::TestCircle decides rightly, for task groups as for declared graphs,
\* also in a build that repeats one that failed.
THEOREM TaskCircleDecided == TaskSpec => []CircleDecided
<1>1. TaskInv => CircleDecided
  BY IInvCircle DEF TaskInv
<1> QED
  BY <1>1, TaskInvariant, PTL

\* Consequent and Alternative of a task that was added before its branches:
\* Vertex::Build of the condition comes first and decides what they expect.
THEOREM BranchesAfterConditionAlways == TaskSpec => []BranchesAfterCondition
<1>1. TaskInv => BranchesAfterCondition
  BY TaskBranches
<1> QED
  BY <1>1, TaskInvariant, PTL

\* BuildGraphByTaskGroup loses no relation and makes none up: whatever Add,
\* Precede, Consequent, Alternative and Name did before, the dependencies of a
\* group that is accepted are exactly the relations stated, unless an id was
\* used for two tasks.
THEOREM TasksOrderedAlways == TaskSpec => []TasksOrdered
<1>1. TaskInv => TasksOrdered
  BY TaskOrder
<1> QED
  BY <1>1, TaskInvariant, PTL
=============================================================================
