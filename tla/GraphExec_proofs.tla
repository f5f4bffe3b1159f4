-------------------------- MODULE GraphExec_proofs --------------------------
(***************************************************************************)
(* Safety of GraphExec for every graph, flag and bound.                    *)
(*                                                                         *)
(* None of the properties is inductive. The invariant that carries them    *)
(* ties each counter to the set it counts: waiting[v] to the dependencies  *)
(* that have not reported to v yet, join to the vertices that have not     *)
(* passed it, and the slots of v to the results of those that have.        *)
(***************************************************************************)
EXTENDS GraphExec, FiniteSetTheorems, TLAPS

\* The dependencies of s that have still to decrement its counter.
Unreported(s) ==
  {d \in Deps[s] : \/ ~Joined(d)
                   \/ s \in todo[d]
                   \/ pc[d] = "subtracting" /\ target[d] = s}
Unjoined == {v \in Vertices : ~Joined(v)}

Unsettled == {"idle", "ready", "scheduled", "running", "exiting", "lost"}

\* A vertex has a result from the moment it settles.
SettledInv ==
  \A v \in Vertices : result[v] = Invalid <=> pc[v] \in Unsettled

\* What a thread in the loop of OnVertexDone has still to do.
LoopInv ==
  \A v \in Vertices :
    /\ todo[v] \subseteq Successors(v)
    /\ todo[v] # {} => pc[v] \in {"joined", "notifying", "subtracting"}
    /\ pc[v] # "loading"
    /\ pc[v] = "subtracting" => target[v] \in Successors(v) \ todo[v]

\* The slots of a vertex.
SlotInv ==
  \A s \in Vertices : \A d \in Deps[s] :
    depRes[s][d] = IF Joined(d) /\ s \notin todo[d] THEN result[d] ELSE Invalid

\* The two counters.
CountInv == \A s \in Vertices : waiting[s] = Cardinality(Unreported(s))
JoinInv == join = Cardinality(Unjoined)

\* A vertex is idle exactly while a dependency has not reported.
IdleInv ==
  \A s \in Vertices :
    IF phase = "idle" THEN pc[s] = "idle"
    ELSE pc[s] = "idle" <=> Unreported(s) # {}

\* A ready vertex is on exactly one list, and the list has a thread.
ListInv ==
  /\ \A a \in Dispatchers : \A r \in ready[a] : pc[r] = "ready"
  /\ \A a, b \in Dispatchers : a # b => ready[a] \cap ready[b] = {}
  /\ \A v \in Vertices :
       ready[v] # {} => pc[v] \in {"notifying", "subtracting", "dispatching"}
  /\ \A v \in Vertices : pc[v] = "dispatching" => ready[v] # {}

PhaseInv ==
  /\ phase = "done" => Unjoined = {}
  /\ phase = "executing" => Unjoined # {}

CallInv ==
  /\ \A v \in Vertices :
       calls[v] = IF pc[v] \in {"idle", "ready", "scheduled"} THEN 0 ELSE 1
  /\ dones = 0 \/ (dones = 1 /\ phase # "executing")

\* Each failed early-exit vertex has set the code or is about to.
ExitInv ==
  /\ \A v \in Vertices : pc[v] = "exiting" => code[v] \in exits
  /\ earlyRc # 0 => earlyRc \in exits
  /\ exits # {} => earlyRc # 0 \/ \E v \in Vertices : pc[v] = "exiting"
  /\ 0 \notin exits
  /\ phase = "done" => doneRc = earlyRc

\* What a started vertex found out about its dependencies stays true.
RanInv ==
  \A v \in ran : /\ pc[v] \notin {"idle", "ready", "scheduled"}
                  /\ \A d \in Deps[v] : result[d] \in Expected[v][d]

IInv ==
  /\ TypeOK /\ SettledInv /\ LoopInv /\ SlotInv /\ CountInv /\ JoinInv
  /\ IdleInv /\ ListInv /\ PhaseInv /\ CallInv /\ ExitInv /\ RanInv
-----------------------------------------------------------------------------
LEMMA Finite ==
  /\ \A s \in Vertices : IsFiniteSet(Deps[s]) /\ IsFiniteSet(Unreported(s))
  /\ IsFiniteSet(Unjoined)
  /\ \A s \in Vertices : Cardinality(Deps[s]) \in Nat
  /\ Cardinality(Vertices) \in Nat
<1>1. \A s \in Vertices : Deps[s] \subseteq Vertices
  BY GraphAssumption
<1>2. \A s \in Vertices : IsFiniteSet(Deps[s])
  BY <1>1, GraphAssumption, FS_Subset
<1>3. \A s \in Vertices : IsFiniteSet(Unreported(s))
  BY <1>2, FS_Subset DEF Unreported
<1>4. IsFiniteSet(Unjoined)
  BY GraphAssumption, FS_Subset DEF Unjoined
<1>5. QED
  BY <1>2, <1>3, <1>4, GraphAssumption, FS_CardinalityType

\* Type correctness.
LEMMA TypeInit == Init => TypeOK
<1> SUFFICES ASSUME Init PROVE TypeOK
  OBVIOUS
<1>1. waiting \in [Vertices -> Nat] /\ join \in Nat
  BY Finite DEF Init, FreshWaiting
<1>2. depRes \in [Vertices -> [Vertices -> Results \cup {Invalid}]]
  BY DEF Init, FreshDepRes
<1>3. ready \in [Dispatchers -> SUBSET Vertices]
  BY DEF Init, NoList
<1>4. code \in [Vertices -> ReturnCodes \cup {V_CODE_SKIP}]
  BY DEF Init, ReturnCodes
<1>5. expired \in BOOLEAN
  BY DEF Init
<1>6. config \in [ConfigNames -> {"true", "false", "unset"}]
  BY DEF Init
<1> QED
  BY <1>1, <1>2, <1>3, <1>4, <1>5, <1>6
     DEF Init, TypeOK, PCs, ReturnCodes

\* A thread that has still to report or to join is counted.
LEMMA Counted ==
  ASSUME IInv, NEW v \in Vertices
  PROVE  /\ ~Joined(v) => join \in Nat \ {0}
         /\ pc[v] = "subtracting" => waiting[target[v]] \in Nat \ {0}
<1>1. ASSUME ~Joined(v) PROVE join \in Nat \ {0}
  <2>1. v \in Unjoined
    BY <1>1 DEF Unjoined
  <2>2. Unjoined # {} /\ Cardinality(Unjoined) \in Nat
    BY <2>1, Finite, FS_CardinalityType
  <2>3. Cardinality(Unjoined) # 0
    BY <2>2, Finite, FS_EmptySet
  <2> QED
    BY <2>2, <2>3 DEF IInv, JoinInv
<1>2. ASSUME pc[v] = "subtracting" PROVE waiting[target[v]] \in Nat \ {0}
  <2>1. target[v] \in Vertices /\ v \in Unreported(target[v])
    BY <1>2 DEF IInv, TypeOK, LoopInv, Successors, Unreported
  <2>2. Cardinality(Unreported(target[v])) \in Nat
    BY <2>1, Finite, FS_CardinalityType
  <2>3. Cardinality(Unreported(target[v])) # 0
    BY <2>1, Finite, FS_EmptySet
  <2> QED
    BY <2>1, <2>2, <2>3 DEF IInv, CountInv
<1> QED
  BY <1>1, <1>2

\* ResetState and Settle restore the types of what they assign.
LEMMA TypeReset ==
  ASSUME NEW p \in PCs, ResetState(p)
  PROVE  /\ join' \in Nat
         /\ waiting' \in [Vertices -> Nat]
         /\ depRes' \in [Vertices -> [Vertices -> Results \cup {Invalid}]]
         /\ result' \in [Vertices -> Results \cup {Invalid}]
         /\ code' \in [Vertices -> ReturnCodes \cup {V_CODE_SKIP}]
         /\ pc' \in [Vertices -> PCs]
         /\ todo' \in [Vertices -> SUBSET Vertices]
         /\ target' \in [Vertices -> Vertices]
         /\ ran' \in SUBSET Vertices
         /\ calls' \in [Vertices -> Nat]
<1> USE DEF ResetState
<1>1. join' \in Nat /\ waiting' \in [Vertices -> Nat]
  BY Finite DEF FreshWaiting
<1>2. depRes' \in [Vertices -> [Vertices -> Results \cup {Invalid}]]
  BY DEF FreshDepRes
<1>3. code' \in [Vertices -> ReturnCodes \cup {V_CODE_SKIP}]
  BY DEF ReturnCodes
<1>4. pc' \in [Vertices -> PCs]
  BY DEF PCs
<1> QED
  BY <1>1, <1>2, <1>3, <1>4

LEMMA TypeSettle ==
  ASSUME TypeOK, NEW v \in Vertices,
         NEW c \in ReturnCodes \cup {V_CODE_SKIP}, Settle(v, c)
  PROVE  /\ result' \in [Vertices -> Results \cup {Invalid}]
         /\ code' \in [Vertices -> ReturnCodes \cup {V_CODE_SKIP}]
         /\ pc' \in [Vertices -> PCs]
  BY DEF TypeOK, Settle, PCs, Results

LEMMA StartTypes == StartList \in [Dispatchers -> SUBSET Vertices]
                    /\ NoList \in [Dispatchers -> SUBSET Vertices]
  BY DEF StartList, NoList, Start

LEMMA TypeStep == IInv /\ [Next]_vars => TypeOK'
<1> SUFFICES ASSUME IInv, [Next]_vars PROVE TypeOK'
  OBVIOUS
<1>0. TypeOK
  BY DEF IInv
<1>1. ASSUME NEW settings \in [ConfigNames -> {"true", "false", "unset"}],
             Execute(settings)
      PROVE  TypeOK'
  <2>1. pc' \in [Vertices -> PCs] /\ runs' \in Nat
    BY <1>0, <1>1 DEF TypeOK, Execute, PCs
  <2> QED
    BY <1>0, <1>1, <2>1, StartTypes DEF TypeOK, Execute
<1>2. CASE Reset
  BY <1>0, <1>2, TypeReset, StartTypes DEF TypeOK, Reset, PCs, ReturnCodes
<1>3. CASE Expire
  BY <1>0, <1>3 DEF TypeOK, Expire, history
<1>4. ASSUME NEW a \in Dispatchers, NEW r \in Vertices,
             Post(a, r) \/ RunInPlace(a, r)
      PROVE  TypeOK'
  <2>1. pc' \in [Vertices -> PCs]
    BY <1>0, <1>4 DEF TypeOK, Post, RunInPlace, PCs
  <2>2. ready' \in [Dispatchers -> SUBSET Vertices]
    BY SMTT(30), <1>0, <1>4 DEF TypeOK, Post, RunInPlace
  <2> QED
    BY <1>0, <1>4, <2>1, <2>2 DEF TypeOK, Post, RunInPlace, history
<1>5. ASSUME NEW v \in Vertices, Skip(v) PROVE TypeOK'
  <2>1. pc' \in [Vertices -> PCs] /\ calls' \in [Vertices -> Nat]
    BY <1>0, <1>5 DEF TypeOK, Skip, PCs
  <2>2. /\ result' \in [Vertices -> Results \cup {Invalid}]
        /\ code' \in [Vertices -> ReturnCodes \cup {V_CODE_SKIP}]
    BY <1>0, <1>5 DEF TypeOK, Skip, Results
  <2> QED
    BY <1>0, <1>5, <2>1, <2>2 DEF TypeOK, Skip
<1>6. ASSUME NEW v \in Vertices, Run(v) PROVE TypeOK'
  BY <1>0, <1>6 DEF TypeOK, Run, PCs
<1>7. ASSUME NEW v \in Vertices, InjectFails(v) PROVE TypeOK'
  BY <1>0, <1>7, TypeSettle DEF TypeOK, InjectFails, history
<1>8. ASSUME NEW v \in Vertices, NEW rc \in ReturnCodes, Complete(v, rc)
      PROVE  TypeOK'
  <2>1. 0 \in ReturnCodes
    BY DEF ReturnCodes
  <2> QED
    BY <1>0, <1>8, <2>1, TypeSettle DEF TypeOK, Complete, history
<1>9. ASSUME NEW v \in Vertices, NEW rc \in ReturnCodes, ExitTest(v, rc)
      PROVE  TypeOK'
  <2>1. /\ result' \in [Vertices -> Results \cup {Invalid}]
        /\ code' \in [Vertices -> ReturnCodes \cup {V_CODE_SKIP}]
        /\ pc' \in [Vertices -> PCs]
    <3>1. CASE earlyRc = 0
      <4>1. /\ code' = [code EXCEPT ![v] = rc]
            /\ pc' = [pc EXCEPT ![v] = "exiting"]
            /\ UNCHANGED result
        BY <1>9, <3>1 DEF ExitTest
      <4> QED
        BY <1>0, <4>1 DEF TypeOK, PCs
    <3>2. CASE earlyRc # 0
      BY <1>0, <1>9, <3>2, TypeSettle DEF ExitTest
    <3> QED
      BY <3>1, <3>2
  <2> QED
    BY <1>0, <1>9, <2>1 DEF TypeOK, ExitTest
<1>10. ASSUME NEW v \in Vertices, ExitStore(v) PROVE TypeOK'
  <2>1. code[v] \in ReturnCodes
    BY <1>10 DEF IInv, ExitInv, TypeOK, ExitStore
  <2> QED
    BY <1>0, <1>10, <2>1, TypeSettle DEF TypeOK, ExitStore
<1>11. ASSUME NEW v \in Vertices, FutureThrows(v) PROVE TypeOK'
  BY <1>0, <1>11 DEF TypeOK, FutureThrows, PCs, history
<1>12. ASSUME NEW v \in Vertices, JoinOther(v) PROVE TypeOK'
  <2>1. join' \in Nat
    BY <1>0, <1>12, Counted DEF TypeOK, JoinOther, Joined
  <2>2. pc' \in [Vertices -> PCs]
    BY <1>0, <1>12 DEF TypeOK, JoinOther, PCs
  <2>3. todo' \in [Vertices -> SUBSET Vertices]
    BY <1>0, <1>12 DEF TypeOK, JoinOther, Successors
  <2> QED
    BY <1>0, <1>12, <2>1, <2>2, <2>3 DEF TypeOK, JoinOther, history
<1>13. ASSUME NEW v \in Vertices, JoinLast(v) PROVE TypeOK'
  BY <1>0, <1>13 DEF TypeOK, JoinLast, PCs
<1>14. ASSUME NEW v \in Vertices, JoinLoop(v) PROVE TypeOK'
  <2>1. "ready" \in PCs
    BY DEF PCs
  <2> QED
    BY <1>0, <1>14, <2>1, TypeReset, StartTypes DEF TypeOK, JoinLoop
<1>15. ASSUME NEW v \in Vertices, NEW s \in Vertices, NotifyResult(v, s)
       PROVE  TypeOK'
  <2>1. pc' \in [Vertices -> PCs]
    BY <1>0, <1>15 DEF TypeOK, NotifyResult, PCs
  <2>2. depRes' \in [Vertices -> [Vertices -> Results \cup {Invalid}]]
    BY <1>0, <1>15 DEF TypeOK, NotifyResult
  <2> QED
    BY <1>0, <1>15, <2>1, <2>2 DEF TypeOK, NotifyResult, history
<1>16. ASSUME NEW v \in Vertices, NotifyCount(v) PROVE TypeOK'
  <2>1. pc' \in [Vertices -> PCs]
    BY SMTT(30), <1>0, <1>16 DEF TypeOK, NotifyCount, PCs
  <2>2. waiting' \in [Vertices -> Nat]
    <3>1. target[v] \in Vertices /\ waiting[target[v]] \in Nat
      BY <1>0 DEF TypeOK
    <3>2. CASE pc[v] = "subtracting"
      <4>1. waiting[target[v]] - 1 \in Nat
        BY <3>2, Counted
      <4> QED
        BY <1>0, <1>16, <3>2, <4>1 DEF TypeOK, NotifyCount
    <3>3. CASE pc[v] # "subtracting"
      BY <1>0, <1>16, <3>1, <3>3 DEF TypeOK, NotifyCount
    <3> QED
      BY <3>2, <3>3
  <2>3. ready' \in [Dispatchers -> SUBSET Vertices]
    BY <1>0, <1>16 DEF TypeOK, NotifyCount
  <2> QED
    BY <1>0, <1>16, <2>1, <2>2, <2>3 DEF TypeOK, NotifyCount, history
<1>17. ASSUME NEW v \in Vertices, NotifyBegin(v) \/ NotifyEnd(v) PROVE TypeOK'
  BY <1>0, <1>17 DEF TypeOK, NotifyBegin, NotifyEnd, PCs, history
<1>18. CASE UNCHANGED vars
  BY <1>0, <1>18 DEF TypeOK, vars, history
<1> QED
  BY <1>1, <1>2, <1>3, <1>4, <1>5, <1>6, <1>7, <1>8, <1>9, <1>10, <1>11,
     <1>12, <1>13, <1>14, <1>15, <1>16, <1>17, <1>18
     DEF Next, Dispatch, Engine, Outcome
-----------------------------------------------------------------------------
\* The parts of the invariant that counters, lists and slots make up.
Core == /\ SettledInv /\ LoopInv /\ SlotInv /\ CountInv /\ JoinInv
        /\ IdleInv /\ ListInv /\ PhaseInv

\* Nothing is counted differently if no thread joins or reports.
LEMMA SameCounts ==
  ASSUME CountInv, JoinInv, UNCHANGED <<todo, target, waiting, join>>,
         \A u \in Vertices : /\ Joined(u)' <=> Joined(u)
                             /\ pc'[u] = "subtracting" <=> pc[u] = "subtracting"
  PROVE  /\ \A s \in Vertices : Unreported(s)' = Unreported(s)
         /\ Unjoined' = Unjoined
         /\ CountInv' /\ JoinInv'
<1>1. \A s \in Vertices : Unreported(s)' = Unreported(s)
  <2> TAKE s \in Vertices
  <2>1. Deps[s] \subseteq Vertices
    BY GraphAssumption
  <2> QED
    BY <2>1 DEF Unreported
<1>2. Unjoined' = Unjoined
  BY DEF Unjoined
<1> QED
  BY <1>1, <1>2 DEF CountInv, JoinInv

\* A step of a vertex between Execute() and OnVertexDone: its thread moves to
\* q, its result becomes x, and nothing else that is counted changes.
OwnMove(v, q, x) ==
  /\ pc[v] \in {"scheduled", "running", "exiting"}
  /\ q \in {"running", "exiting", "lost", "finishing"}
  /\ pc' = [pc EXCEPT ![v] = q]
  /\ result' = [result EXCEPT ![v] = x]
  /\ x = Invalid <=> q # "finishing"
  /\ UNCHANGED <<phase, depRes, waiting, join, todo, target, ready>>

LEMMA OwnStep ==
  ASSUME IInv, NEW v \in Vertices, NEW q, NEW x, OwnMove(v, q, x)
  PROVE  Core'
<1> USE DEF IInv, OwnMove
<1>1. \A u \in Vertices : /\ Joined(u)' <=> Joined(u)
                          /\ pc'[u] = "subtracting" <=> pc[u] = "subtracting"
                          /\ pc'[u] = "idle" <=> pc[u] = "idle"
                          /\ pc'[u] = "ready" <=> pc[u] = "ready"
                          /\ u # v => pc'[u] = pc[u] /\ result'[u] = result[u]
  BY DEF Joined, TypeOK
<1>2. /\ \A s \in Vertices : Unreported(s)' = Unreported(s)
      /\ Unjoined' = Unjoined /\ CountInv' /\ JoinInv'
  BY <1>1, SameCounts
<1>3. SettledInv'
  BY DEF SettledInv, TypeOK, Unsettled
<1>4. LoopInv'
  BY <1>1 DEF LoopInv, TypeOK, Successors
<1>5. SlotInv'
  <2> SUFFICES ASSUME NEW s \in Vertices, NEW d \in Deps[s]
               PROVE  depRes'[s][d] = IF Joined(d)' /\ s \notin todo'[d]
                                      THEN result'[d] ELSE Invalid
    BY DEF SlotInv
  <2>1. d \in Vertices
    BY GraphAssumption
  <2>2. ~Joined(v)
    BY DEF Joined
  <2> QED
    BY <1>1, <2>1, <2>2 DEF SlotInv
<1>6. IdleInv'
  BY <1>1, <1>2 DEF IdleInv
<1>7. ListInv'
  BY <1>1 DEF ListInv, TypeOK, Dispatchers
<1>8. PhaseInv'
  BY <1>2 DEF PhaseInv
<1> QED
  BY <1>2, <1>3, <1>4, <1>5, <1>6, <1>7, <1>8 DEF Core

\* A context whose vertices have all been reset.
LEMMA FreshStep ==
  ASSUME NEW p \in {"idle", "ready"}, ResetState(p),
         IF p = "idle" THEN phase' = "idle" /\ ready' = NoList
                       ELSE phase' = "executing" /\ ready' = StartList
  PROVE  Core'
<1> USE DEF ResetState
<1>1. \A v \in Vertices : /\ pc'[v] = IF v \in Start THEN p ELSE "idle"
                          /\ ~Joined(v)'
  BY DEF Joined
<1>2. \A s \in Vertices : Unreported(s)' = Deps[s]
  BY <1>1, GraphAssumption DEF Unreported
<1>3. Unjoined' = Vertices
  BY <1>1 DEF Unjoined
<1>4. SettledInv'
  BY <1>1 DEF SettledInv, Unsettled
<1>5. LoopInv'
  BY <1>1 DEF LoopInv
<1>6. SlotInv'
  BY <1>1, GraphAssumption DEF SlotInv, FreshDepRes
<1>7. CountInv'
  BY <1>2 DEF CountInv, FreshWaiting
<1>8. JoinInv'
  BY <1>3 DEF JoinInv
<1>9. IdleInv'
  BY <1>1, <1>2 DEF IdleInv, Start
<1>10. ListInv'
  <2>1. \A a \in Dispatchers : ready'[a] = IF p = "ready" /\ a = Root THEN Start ELSE {}
    BY DEF StartList, NoList
  <2> QED
    BY <1>1, <2>1, GraphAssumption DEF ListInv, Dispatchers, Start
<1>11. PhaseInv'
  BY <1>3, GraphAssumption DEF PhaseInv
<1> QED
  BY <1>2, <1>3, <1>4, <1>5, <1>6, <1>7, <1>8, <1>9, <1>10, <1>11 DEF Core
-----------------------------------------------------------------------------
\* A vertex that is not idle has heard from all its dependencies.
LEMMA DepsReported ==
  ASSUME IInv, NEW v \in Vertices, pc[v] # "idle", NEW d \in Deps[v]
  PROVE  /\ d \in Vertices /\ Joined(d)
         /\ depRes[v][d] = result[d] /\ result[d] # Invalid
<1>1. phase # "idle" /\ Unreported(v) = {}
  BY DEF IInv, IdleInv
<1>2. d \in Vertices
  BY GraphAssumption
<1>3. Joined(d) /\ v \notin todo[d]
  BY <1>1 DEF Unreported
<1>4. depRes[v][d] = result[d]
  BY <1>3 DEF IInv, SlotInv
<1> QED
  BY <1>2, <1>3, <1>4 DEF IInv, SettledInv, Joined, Unsettled

\* The last vertex to join has no successor: a successor would not have run.
LEMMA LastIsSink ==
  ASSUME IInv, NEW v \in Vertices, pc[v] = "finishing", join = 1
  PROVE  Unjoined = {v} /\ Successors(v) = {}
<1>0. ~Joined(v)
  BY DEF Joined
<1>1. PICK x : Unjoined = {x}
  BY Finite, FS_Singleton DEF IInv, JoinInv
<1>2. Unjoined = {v}
  BY <1>0, <1>1 DEF Unjoined
<1>3. ASSUME NEW s \in Successors(v) PROVE FALSE
  <2>1. s \in Vertices /\ v \in Deps[s]
    BY <1>3 DEF Successors
  <2>2. pc[s] = "idle"
    BY <1>0, <2>1, DepsReported
  <2>3. ~Joined(s)
    BY <2>2 DEF Joined
  <2>4. s = v
    BY <1>2, <2>1, <2>3 DEF Unjoined
  <2> QED
    BY <2>2, <2>4
<1> QED
  BY <1>2, <1>3

LEMMA StepExecute ==
  ASSUME IInv, NEW settings, Execute(settings)
  PROVE  Core'
<1> USE DEF IInv, Execute
<1>1. \A v \in Vertices :
        /\ pc[v] = "idle"
        /\ pc'[v] = IF v \in Start THEN "ready" ELSE "idle"
        /\ ~Joined(v) /\ ~Joined(v)'
  BY DEF IdleInv, Joined
<1>2. /\ \A s \in Vertices : Unreported(s)' = Unreported(s)
      /\ Unjoined' = Unjoined /\ CountInv' /\ JoinInv'
  BY <1>1, SameCounts
<1>3. \A s \in Vertices : Unreported(s) = Deps[s]
  BY <1>1, GraphAssumption DEF Unreported
<1>4. SettledInv' /\ LoopInv' /\ SlotInv'
  BY <1>1, GraphAssumption DEF SettledInv, LoopInv, SlotInv, Unsettled, Successors
<1>5. IdleInv'
  BY <1>1, <1>2, <1>3 DEF IdleInv, Start
<1>6. ListInv'
  <2>1. \A a \in Dispatchers : ready'[a] = IF a = Root THEN Start ELSE {}
    BY DEF StartList
  <2>2. \A v \in Vertices : ready'[v] = {} /\ pc'[v] # "dispatching"
    BY <1>1, <2>1, GraphAssumption DEF Dispatchers
  <2>3. \A b \in Dispatchers : \A u \in ready'[b] : pc'[u] = "ready"
    BY <1>1, <2>1 DEF Start
  <2> QED
    BY <2>1, <2>2, <2>3 DEF ListInv
<1>7. PhaseInv'
  <2>1. Unjoined = Vertices
    BY <1>1 DEF Unjoined
  <2> QED
    BY <1>2, <2>1, GraphAssumption DEF PhaseInv
<1> QED
  BY <1>2, <1>4, <1>5, <1>6, <1>7 DEF Core

LEMMA StepDispatch ==
  ASSUME IInv, NEW a \in Dispatchers, NEW r \in Vertices,
         Post(a, r) \/ RunInPlace(a, r)
  PROVE  Core'
<1> USE DEF IInv
<1>1. r \in ready[a] /\ pc[r] = "ready" /\ r # a
  BY DEF Post, RunInPlace, ListInv, Dispatching, Dispatchers
<1>2. a # Root => a \in Vertices /\ pc[a] = "dispatching"
  BY DEF Post, RunInPlace, Dispatching, Dispatchers
<1>3. \A u \in Vertices :
        pc'[u] = IF u = r THEN "scheduled"
                 ELSE IF u = a /\ ready[a] = {r} THEN "done" ELSE pc[u]
  BY <1>1 DEF Post, RunInPlace, TypeOK
<1>4. ready' = [ready EXCEPT ![a] = @ \ {r}]
  BY DEF Post, RunInPlace, TypeOK
<1>5. UNCHANGED <<phase, result, depRes, waiting, join, todo, target>>
  BY DEF Post, RunInPlace
<1>6. \A u \in Vertices : /\ Joined(u)' <=> Joined(u)
                          /\ pc'[u] = "subtracting" <=> pc[u] = "subtracting"
  BY <1>1, <1>2, <1>3, GraphAssumption DEF Joined
<1>7. /\ \A s \in Vertices : Unreported(s)' = Unreported(s)
      /\ Unjoined' = Unjoined /\ CountInv' /\ JoinInv'
  BY <1>5, <1>6, SameCounts
<1>8. SettledInv'
  BY <1>1, <1>2, <1>3, <1>5, GraphAssumption DEF SettledInv, Unsettled
<1>9. LoopInv'
  BY <1>1, <1>2, <1>3, <1>5, GraphAssumption DEF LoopInv, Successors
<1>10. SlotInv'
  BY <1>5, <1>6, GraphAssumption DEF SlotInv
<1>11. IdleInv'
  <2>1. \A u \in Vertices : pc'[u] = "idle" <=> pc[u] = "idle"
    BY <1>1, <1>2, <1>3, GraphAssumption
  <2>2. phase # "idle"
    BY <1>1 DEF IdleInv
  <2> QED
    BY <1>5, <1>7, <2>1, <2>2 DEF IdleInv
<1>12. ListInv'
  <2>1. \A b \in Dispatchers : ready'[b] = IF b = a THEN ready[a] \ {r} ELSE ready[b]
    BY <1>4 DEF TypeOK
  <2>2. \A b \in Dispatchers : r \notin ready'[b]
    BY <1>1, <2>1 DEF ListInv
  <2>3. \A b \in Dispatchers : \A u \in ready'[b] : pc'[u] = "ready"
    <3> SUFFICES ASSUME NEW b \in Dispatchers, NEW u \in ready'[b]
                 PROVE  pc'[u] = "ready"
      OBVIOUS
    <3>1. u \in ready[b] /\ u # r
      BY <2>1, <2>2
    <3>2. u \in Vertices /\ pc[u] = "ready"
      BY <3>1 DEF ListInv, TypeOK
    <3> QED
      BY <1>2, <1>3, <3>1, <3>2, GraphAssumption
  <2>4. \A b, c \in Dispatchers : b # c => ready'[b] \cap ready'[c] = {}
    BY <2>1 DEF ListInv
  <2>5. \A u \in Vertices :
          /\ ready'[u] # {} => pc'[u] \in {"notifying", "subtracting", "dispatching"}
          /\ pc'[u] = "dispatching" => ready'[u] # {}
    BY <1>1, <1>2, <1>3, <2>1 DEF ListInv, Dispatchers
  <2> QED
    BY <2>3, <2>4, <2>5 DEF ListInv
<1>13. PhaseInv'
  BY <1>5, <1>7 DEF PhaseInv
<1> QED
  BY <1>7, <1>8, <1>9, <1>10, <1>11, <1>12, <1>13 DEF Core
-----------------------------------------------------------------------------
\* The loop of OnVertexDone.
LEMMA StepJoinOther ==
  ASSUME IInv, NEW v \in Vertices, JoinOther(v)
  PROVE  Core'
<1> USE DEF IInv
<1>1. \A u \in Vertices : pc'[u] = IF u = v THEN "joined" ELSE pc[u]
  BY DEF JoinOther, TypeOK
<1>2. \A u \in Vertices : todo'[u] = IF u = v THEN Successors(v) ELSE todo[u]
  BY DEF JoinOther, TypeOK
<1>3. pc[v] = "finishing" /\ ~Joined(v) /\ join # 1 /\ join' = join - 1
  BY DEF JoinOther, Joined
<1>4. UNCHANGED <<phase, result, depRes, waiting, target, ready>>
  BY DEF JoinOther
<1>5. \A u \in Vertices : Joined(u)' <=> Joined(u) \/ u = v
  BY <1>1 DEF Joined
<1>6. \A s \in Vertices : Unreported(s)' = Unreported(s)
  <2> TAKE s \in Vertices
  <2>1. Deps[s] \subseteq Vertices
    BY GraphAssumption
  <2>2. v \in Deps[s] => s \in Successors(v)
    BY DEF Successors
  <2> QED
    BY <1>1, <1>2, <1>3, <1>4, <1>5, <2>1, <2>2 DEF Unreported
<1>7. Unjoined' = Unjoined \ {v} /\ v \in Unjoined
  BY <1>3, <1>5 DEF Unjoined
<1>8. Cardinality(Unjoined') = Cardinality(Unjoined) - 1
  BY <1>7, Finite, FS_RemoveElement
<1>9. JoinInv'
  BY <1>3, <1>8 DEF JoinInv
<1>10. CountInv'
  BY <1>4, <1>6 DEF CountInv
<1>11. SettledInv'
  BY <1>1, <1>3, <1>4 DEF SettledInv, Unsettled
<1>12. LoopInv'
  BY <1>1, <1>2, <1>3, <1>4 DEF LoopInv
<1>13. SlotInv'
  <2> SUFFICES ASSUME NEW s \in Vertices, NEW d \in Deps[s]
               PROVE  depRes'[s][d] = IF Joined(d)' /\ s \notin todo'[d]
                                      THEN result'[d] ELSE Invalid
    BY DEF SlotInv
  <2>1. d \in Vertices /\ s \in Successors(d)
    BY GraphAssumption DEF Successors
  <2> QED
    BY <1>2, <1>3, <1>4, <1>5, <2>1 DEF SlotInv
<1>14. IdleInv'
  BY <1>1, <1>3, <1>4, <1>6 DEF IdleInv
<1>15. ListInv'
  BY <1>1, <1>3, <1>4 DEF ListInv, TypeOK, Dispatchers
<1>16. PhaseInv'
  <2>1. phase = "executing"
    BY <1>3, <1>7 DEF PhaseInv, IdleInv, TypeOK
  <2>2. Cardinality(Unjoined) # 1
    BY <1>3 DEF JoinInv
  <2>3. Unjoined # {v}
    BY <2>2, FS_Singleton
  <2> QED
    BY <1>4, <1>7, <2>1, <2>3 DEF PhaseInv
<1> QED
  BY <1>9, <1>10, <1>11, <1>12, <1>13, <1>14, <1>15, <1>16 DEF Core

LEMMA StepJoinLast ==
  ASSUME IInv, NEW v \in Vertices, JoinLast(v)
  PROVE  Core'
<1> USE DEF IInv
<1>1. \A u \in Vertices : pc'[u] = IF u = v THEN "done" ELSE pc[u]
  BY DEF JoinLast, TypeOK
<1>2. pc[v] = "finishing" /\ join = 1 /\ join' = 0 /\ phase' = "done"
  BY DEF JoinLast
<1>3. UNCHANGED <<result, depRes, waiting, todo, target, ready>>
  BY DEF JoinLast
<1>4. Unjoined = {v} /\ Successors(v) = {}
  BY <1>2, LastIsSink
<1>5. \A u \in Vertices : Joined(u)' <=> Joined(u) \/ u = v
  BY <1>1 DEF Joined
<1>6. \A s \in Vertices : Unreported(s)' = Unreported(s) /\ v \notin Deps[s]
  <2> TAKE s \in Vertices
  <2>1. Deps[s] \subseteq Vertices /\ v \notin Deps[s]
    BY <1>4, GraphAssumption DEF Successors
  <2> QED
    BY <1>1, <1>3, <1>5, <2>1 DEF Unreported
<1>7. Unjoined' = {}
  BY <1>4, <1>5 DEF Unjoined
<1>8. JoinInv'
  BY <1>2, <1>7, FS_EmptySet DEF JoinInv
<1>9. CountInv'
  BY <1>3, <1>6 DEF CountInv
<1>10. SettledInv'
  BY <1>1, <1>2, <1>3 DEF SettledInv, Unsettled
<1>11. LoopInv'
  BY <1>1, <1>2, <1>3 DEF LoopInv, Successors
<1>12. SlotInv'
  BY <1>3, <1>5, <1>6, GraphAssumption DEF SlotInv
<1>13. IdleInv'
  BY <1>1, <1>2, <1>6 DEF IdleInv
<1>14. ListInv'
  BY <1>1, <1>2, <1>3 DEF ListInv, TypeOK, Dispatchers
<1>15. PhaseInv'
  BY <1>2, <1>7 DEF PhaseInv
<1> QED
  BY <1>8, <1>9, <1>10, <1>11, <1>12, <1>13, <1>14, <1>15 DEF Core

LEMMA StepNotifyResult ==
  ASSUME IInv, NEW v \in Vertices, NEW s \in Vertices, NotifyResult(v, s)
  PROVE  Core'
<1> USE DEF IInv
<1>1. pc[v] = "notifying" /\ s \in todo[v] /\ v \in Deps[s] /\ Joined(v)
  BY DEF NotifyResult, LoopInv, Successors, Joined
<1>2. depRes[s][v] = Invalid
  BY <1>1 DEF SlotInv
<1>3. \A u \in Vertices :
        /\ pc'[u] = IF u = v THEN "subtracting" ELSE pc[u]
        /\ todo'[u] = IF u = v THEN todo[v] \ {s} ELSE todo[u]
        /\ target'[u] = IF u = v THEN s ELSE target[u]
  BY <1>2 DEF NotifyResult, TypeOK
<1>4. \A t, d \in Vertices :
        depRes'[t][d] = IF t = s /\ d = v THEN result[v] ELSE depRes[t][d]
  BY DEF NotifyResult, TypeOK
<1>5. UNCHANGED <<phase, result, waiting, join, ready>>
  BY DEF NotifyResult
<1>6. \A u \in Vertices : Joined(u)' <=> Joined(u)
  BY <1>1, <1>3 DEF Joined
<1>7. \A t \in Vertices : Unreported(t)' = Unreported(t)
  <2> TAKE t \in Vertices
  <2>1. Deps[t] \subseteq Vertices
    BY GraphAssumption
  <2> QED
    BY <1>1, <1>3, <1>6, <2>1 DEF Unreported
<1>8. Unjoined' = Unjoined
  BY <1>6 DEF Unjoined
<1>9. CountInv' /\ JoinInv'
  BY <1>5, <1>7, <1>8 DEF CountInv, JoinInv
<1>10. SettledInv'
  BY <1>1, <1>3, <1>5 DEF SettledInv, Unsettled
<1>11. LoopInv'
  BY <1>1, <1>3 DEF LoopInv, Successors
<1>12. SlotInv'
  <2> SUFFICES ASSUME NEW t \in Vertices, NEW d \in Deps[t]
               PROVE  depRes'[t][d] = IF Joined(d)' /\ t \notin todo'[d]
                                      THEN result'[d] ELSE Invalid
    BY DEF SlotInv
  <2>1. d \in Vertices
    BY GraphAssumption
  <2> QED
    BY <1>1, <1>3, <1>4, <1>5, <1>6, <2>1 DEF SlotInv
<1>13. IdleInv'
  BY <1>1, <1>3, <1>5, <1>7 DEF IdleInv
<1>14. ListInv'
  BY ZenonT(60), <1>1, <1>3, <1>5 DEF ListInv, TypeOK, Dispatchers
<1>15. PhaseInv'
  BY <1>5, <1>8 DEF PhaseInv
<1> QED
  BY <1>9, <1>10, <1>11, <1>12, <1>13, <1>14, <1>15 DEF Core

LEMMA StepNotifyEnd ==
  ASSUME IInv, NEW v \in Vertices, NotifyEnd(v)
  PROVE  Core'
<1> USE DEF IInv
<1>1. /\ pc[v] = "notifying" /\ todo[v] = {}
      /\ \A u \in Vertices :
           pc'[u] = IF u # v THEN pc[u]
                    ELSE IF ready[v] = {} THEN "done" ELSE "dispatching"
  BY DEF NotifyEnd, TypeOK
<1>2. UNCHANGED <<phase, result, depRes, waiting, join, todo, target, ready>>
  BY DEF NotifyEnd
<1>3. \A u \in Vertices : /\ Joined(u)' <=> Joined(u)
                          /\ pc'[u] = "subtracting" <=> pc[u] = "subtracting"
  BY <1>1 DEF Joined
<1>4. /\ \A s \in Vertices : Unreported(s)' = Unreported(s)
      /\ Unjoined' = Unjoined /\ CountInv' /\ JoinInv'
  BY <1>2, <1>3, SameCounts
<1>5. SettledInv'
  BY <1>1, <1>2 DEF SettledInv, Unsettled
<1>6. LoopInv'
  BY <1>1, <1>2 DEF LoopInv, Successors
<1>7. SlotInv'
  BY <1>2, <1>3, GraphAssumption DEF SlotInv
<1>8. IdleInv'
  BY <1>1, <1>2, <1>4 DEF IdleInv
<1>9. ListInv'
  BY ZenonT(40), <1>1, <1>2 DEF ListInv, TypeOK, Dispatchers
<1>10. PhaseInv'
  BY <1>2, <1>4 DEF PhaseInv
<1> QED
  BY <1>4, <1>5, <1>6, <1>7, <1>8, <1>9, <1>10 DEF Core

LEMMA StepNotifyBegin ==
  ASSUME IInv, NEW v \in Vertices, NotifyBegin(v)
  PROVE  Core'
<1> USE DEF IInv
<1>1. /\ pc[v] = "joined"
      /\ \A u \in Vertices : pc'[u] = IF u = v THEN "notifying" ELSE pc[u]
  BY DEF NotifyBegin, TypeOK
<1>2. UNCHANGED <<phase, result, depRes, waiting, join, todo, target, ready>>
  BY DEF NotifyBegin
<1>3. \A u \in Vertices : /\ Joined(u)' <=> Joined(u)
                          /\ pc'[u] = "subtracting" <=> pc[u] = "subtracting"
  BY <1>1 DEF Joined
<1>4. /\ \A s \in Vertices : Unreported(s)' = Unreported(s)
      /\ Unjoined' = Unjoined /\ CountInv' /\ JoinInv'
  BY <1>2, <1>3, SameCounts
<1>5. SettledInv'
  BY <1>1, <1>2 DEF SettledInv, Unsettled
<1>6. LoopInv'
  BY <1>1, <1>2 DEF LoopInv, Successors
<1>7. SlotInv'
  BY <1>2, <1>3, GraphAssumption DEF SlotInv
<1>8. IdleInv'
  BY <1>1, <1>2, <1>4 DEF IdleInv
<1>9. ListInv'
  BY ZenonT(40), <1>1, <1>2 DEF ListInv, TypeOK, Dispatchers
<1>10. PhaseInv'
  BY <1>2, <1>4 DEF PhaseInv
<1> QED
  BY <1>4, <1>5, <1>6, <1>7, <1>8, <1>9, <1>10 DEF Core
-----------------------------------------------------------------------------
LEMMA StepNotifyCount ==
  ASSUME IInv, NEW v \in Vertices, NotifyCount(v)
  PROVE  Core'
<1> USE DEF IInv
<1> DEFINE s == target[v]
           inPlace == todo[v] = {} /\ ready[v] = {}
<1>1. pc[v] = "subtracting" /\ s \in Vertices /\ s \notin todo[v] /\ v \in Deps[s]
  BY DEF NotifyCount, LoopInv, TypeOK, Successors
<1>2. v \in Unreported(s) /\ phase # "idle"
  BY <1>1 DEF Unreported, IdleInv
<1>3. pc[s] = "idle" /\ s # v
  BY <1>1, <1>2 DEF IdleInv
<1>4. UNCHANGED <<phase, result, depRes, join, todo, target>>
  BY DEF NotifyCount
<1>5. \A u \in Vertices : waiting'[u] = IF u = s THEN waiting[s] - 1 ELSE waiting[u]
  BY <1>1 DEF NotifyCount, TypeOK
<1>6. \A u \in Vertices :
        pc'[u] = IF u = v
                 THEN IF waiting[s] = 1 /\ inPlace THEN "done" ELSE "notifying"
                 ELSE IF u = s /\ waiting[s] = 1
                 THEN IF inPlace THEN "scheduled" ELSE "ready"
                 ELSE pc[u]
  BY <1>3 DEF NotifyCount, TypeOK
<1>7. \A a \in Dispatchers :
        ready'[a] = IF a = v /\ waiting[s] = 1 /\ ~inPlace
                    THEN ready[v] \cup {s} ELSE ready[a]
  BY DEF NotifyCount, TypeOK
<1>8. \A u \in Vertices : Joined(u)' <=> Joined(u)
  BY <1>1, <1>3, <1>6 DEF Joined
<1>9. \A u \in Vertices : Unreported(u)' = IF u = s THEN Unreported(s) \ {v}
                                           ELSE Unreported(u)
  <2> TAKE u \in Vertices
  <2>1. Deps[u] \subseteq Vertices
    BY GraphAssumption
  <2>2. \A d \in Vertices : pc'[d] = "subtracting" <=> pc[d] = "subtracting" /\ d # v
    BY <1>3, <1>6
  <2> QED
    BY <1>1, <1>4, <1>8, <2>1, <2>2, Zenon DEF Unreported, Joined
<1>10. Cardinality(Unreported(s) \ {v}) = Cardinality(Unreported(s)) - 1
  BY <1>1, <1>2, Finite, FS_RemoveElement
<1>11. CountInv'
  BY <1>1, <1>5, <1>9, <1>10 DEF CountInv
<1>12. Unjoined' = Unjoined
  BY <1>8 DEF Unjoined
<1>13. JoinInv' /\ PhaseInv'
  BY <1>4, <1>12 DEF JoinInv, PhaseInv
<1>14. waiting[s] = 1 <=> Unreported(s) \ {v} = {}
  <2>1. IsFiniteSet(Unreported(s) \ {v})
    BY <1>1, Finite, FS_RemoveElement
  <2>2. waiting[s] = Cardinality(Unreported(s)) /\ waiting[s] \in Nat
    BY <1>1 DEF CountInv, TypeOK
  <2>3. Cardinality(Unreported(s) \ {v}) = 0 <=> Unreported(s) \ {v} = {}
    BY <2>1, FS_EmptySet
  <2> HIDE DEF IInv
  <2> QED
    BY <1>10, <2>2, <2>3
<1>15. SettledInv'
  BY <1>1, <1>3, <1>4, <1>6 DEF SettledInv, Unsettled
<1>16. LoopInv'
  BY <1>1, <1>3, <1>4, <1>6 DEF LoopInv
<1>17. SlotInv'
  BY <1>4, <1>8, GraphAssumption DEF SlotInv
<1>18. IdleInv'
  <2> SUFFICES ASSUME NEW u \in Vertices
               PROVE  pc'[u] = "idle" <=> Unreported(u)' # {}
    BY <1>2, <1>4 DEF IdleInv
  <2>1. pc[u] = "idle" <=> Unreported(u) # {}
    BY <1>2 DEF IdleInv
  <2> QED
    BY <1>1, <1>3, <1>6, <1>9, <1>14, <2>1
<1>19. ListInv'
  <2>1. \A a \in Dispatchers : s \notin ready[a]
    BY <1>3 DEF ListInv
  <2>2. \A a \in Dispatchers : \A r \in ready'[a] : pc'[r] = "ready"
    <3> SUFFICES ASSUME NEW a \in Dispatchers, NEW r \in ready'[a]
                 PROVE  pc'[r] = "ready"
      OBVIOUS
    <3>1. CASE r = s
      BY <1>1, <1>3, <1>6, <1>7, <2>1, <3>1
    <3>2. CASE r # s
      <4>1. r \in ready[a]
        BY <1>7, <3>2
      <4>2. r \in Vertices /\ pc[r] = "ready"
        BY <4>1 DEF ListInv, TypeOK
      <4> QED
        BY <1>1, <1>6, <3>2, <4>2
    <3> QED
      BY <3>1, <3>2
  <2>3. \A a, b \in Dispatchers : a # b => ready'[a] \cap ready'[b] = {}
    BY <1>7, <2>1 DEF ListInv
  <2>4. \A u \in Vertices :
          /\ ready'[u] # {} => pc'[u] \in {"notifying", "subtracting", "dispatching"}
          /\ pc'[u] = "dispatching" => ready'[u] # {}
    <3> TAKE u \in Vertices
    <3>1. u \in Dispatchers /\ v \in Dispatchers
      BY DEF Dispatchers
    <3>2. CASE u = v
      BY <1>1, <1>6, <1>7, <3>1, <3>2
    <3>3. CASE u # v
      <4>1. ready'[u] = ready[u]
        BY <1>7, <3>1, <3>3
      <4>2. u = s => ready[u] = {}
        BY <1>1, <1>3 DEF ListInv
      <4> QED
        BY <1>6, <3>3, <4>1, <4>2 DEF ListInv
    <3> QED
      BY <3>2, <3>3
  <2> QED
    BY <2>2, <2>3, <2>4 DEF ListInv
<1> QED
  BY <1>11, <1>13, <1>15, <1>16, <1>17, <1>18, <1>19 DEF Core
-----------------------------------------------------------------------------
LEMMA CoreStep == IInv /\ [Next]_vars => Core'
<1> SUFFICES ASSUME IInv, [Next]_vars PROVE Core'
  OBVIOUS
<1>1. ASSUME NEW settings, Execute(settings) PROVE Core'
  BY <1>1, StepExecute
<1>2. CASE Reset
  BY <1>2, FreshStep DEF Reset
<1>3. CASE Expire \/ UNCHANGED vars
  <2>1. UNCHANGED <<phase, pc, waiting, depRes, result, join, todo, target, ready>>
    BY <1>3 DEF Expire, vars
  <2>2. /\ \A s \in Vertices : Unreported(s)' = Unreported(s)
        /\ Unjoined' = Unjoined /\ CountInv' /\ JoinInv'
    BY <2>1, SameCounts DEF Joined, IInv
  <2>3. SettledInv' /\ LoopInv' /\ SlotInv' /\ ListInv'
    BY <2>1 DEF IInv, SettledInv, LoopInv, SlotInv, ListInv, Joined, Successors
  <2>4. IdleInv' /\ PhaseInv'
    BY <2>1, <2>2 DEF IInv, IdleInv, PhaseInv
  <2> QED
    BY <2>2, <2>3, <2>4 DEF Core
<1>4. ASSUME NEW a \in Dispatchers, NEW r \in Vertices,
             Post(a, r) \/ RunInPlace(a, r)
      PROVE  Core'
  BY <1>4, StepDispatch
<1>5. ASSUME NEW v \in Vertices, Skip(v) PROVE Core'
  <2>1. OwnMove(v, "finishing", IF SkipAsError THEN "ERR" ELSE "SKIP")
    BY <1>5 DEF OwnMove, Skip, Invalid
  <2> QED
    BY <2>1, OwnStep
<1>6. ASSUME NEW v \in Vertices, Run(v) \/ FutureThrows(v) PROVE Core'
  <2> DEFINE q == IF pc[v] = "scheduled" THEN "running" ELSE "lost"
  <2>1. /\ pc[v] \in {"scheduled", "running"} /\ q \in {"running", "lost"}
        /\ pc' = [pc EXCEPT ![v] = q]
        /\ UNCHANGED <<phase, result, depRes, waiting, join, todo, target, ready>>
    BY <1>6 DEF Run, FutureThrows
  <2>2. result[v] = Invalid /\ result' = [result EXCEPT ![v] = Invalid]
    BY <2>1 DEF IInv, TypeOK, SettledInv, Unsettled
  <2>3. OwnMove(v, q, Invalid)
    BY <2>1, <2>2 DEF OwnMove
  <2> QED
    BY <2>3, OwnStep
<1>7. ASSUME NEW v \in Vertices, NEW c, pc[v] \in {"running", "exiting"},
             Settle(v, c),
             UNCHANGED <<phase, depRes, waiting, join, todo, target, ready>>
      PROVE  Core'
  <2> DEFINE x == IF c = 0 THEN "OK"
                  ELSE IF result[v] = Invalid THEN "ERR" ELSE result[v]
  <2>1. /\ pc' = [pc EXCEPT ![v] = "finishing"]
        /\ result' = [result EXCEPT ![v] = x] /\ x # Invalid
    BY <1>7 DEF Settle, Invalid
  <2>2. OwnMove(v, "finishing", x)
    BY <1>7, <2>1 DEF OwnMove
  <2> QED
    BY <2>2, OwnStep
<1>8. ASSUME NEW v \in Vertices, InjectFails(v) PROVE Core'
  BY <1>7, <1>8 DEF InjectFails
<1>9. ASSUME NEW v \in Vertices, NEW rc \in ReturnCodes, Complete(v, rc)
      PROVE  Core'
  BY <1>7, <1>9 DEF Complete
<1>10. ASSUME NEW v \in Vertices, NEW rc \in ReturnCodes, ExitTest(v, rc)
       PROVE  Core'
  <2>1. CASE earlyRc = 0
    <3>1. /\ pc[v] = "running"
          /\ pc' = [pc EXCEPT ![v] = "exiting"]
          /\ UNCHANGED <<phase, result, depRes, waiting, join, todo, target, ready>>
      BY <1>10, <2>1 DEF ExitTest
    <3>2. result' = [result EXCEPT ![v] = Invalid]
      BY <3>1 DEF IInv, TypeOK, SettledInv, Unsettled
    <3>3. OwnMove(v, "exiting", Invalid)
      BY <3>1, <3>2 DEF OwnMove
    <3> QED
      BY <3>3, OwnStep
  <2>2. CASE earlyRc # 0
    BY <1>7, <1>10, <2>2 DEF ExitTest
  <2> QED
    BY <2>1, <2>2
<1>11. ASSUME NEW v \in Vertices, ExitStore(v) PROVE Core'
  BY <1>7, <1>11 DEF ExitStore
<1>12. ASSUME NEW v \in Vertices, JoinOther(v) \/ JoinLast(v) PROVE Core'
  BY <1>12, StepJoinOther, StepJoinLast
<1>13. ASSUME NEW v \in Vertices, JoinLoop(v) PROVE Core'
  <2>1. v \in Unjoined
    BY <1>13 DEF JoinLoop, Unjoined, Joined
  <2>2. phase' = "executing"
    BY <1>13, <2>1 DEF JoinLoop, IInv, TypeOK, PhaseInv, IdleInv
  <2> QED
    BY <1>13, <2>2, FreshStep DEF JoinLoop
<1>14. ASSUME NEW v \in Vertices,
              NotifyBegin(v) \/ NotifyCount(v) \/ NotifyEnd(v)
                \/ \E s \in Vertices : NotifyResult(v, s)
       PROVE  Core'
  BY <1>14, StepNotifyBegin, StepNotifyCount, StepNotifyEnd, StepNotifyResult
<1> QED
  BY <1>1, <1>2, <1>3, <1>4, <1>5, <1>6, <1>8, <1>9, <1>10, <1>11, <1>12,
     <1>13, <1>14 DEF Next, Dispatch, Engine, Outcome
-----------------------------------------------------------------------------
\* What each kind of step does to the histories, to pc and to the exit code.
LEMMA CallStep == IInv /\ [Next]_vars => CallInv'
<1> SUFFICES ASSUME IInv, [Next]_vars PROVE CallInv'
  OBVIOUS
<1> DEFINE Uncalled == {"idle", "ready", "scheduled"}
<1>0. TypeOK /\ CallInv /\ (\A v \in Vertices : ~Joined(v) => v \in Unjoined)
  BY DEF IInv, Unjoined
<1>1. ASSUME calls' = calls, dones' = dones,
             phase' # "executing" \/ phase = "executing",
             \A u \in Vertices : pc'[u] \in Uncalled <=> pc[u] \in Uncalled
      PROVE  CallInv'
  BY <1>0, <1>1 DEF CallInv
<1>2. ASSUME NEW settings, Execute(settings) PROVE CallInv'
  BY <1>0, <1>2 DEF Execute, CallInv, IInv, IdleInv
<1>3. ASSUME NEW p \in {"idle", "ready"}, ResetState(p), dones' = dones,
             phase' # "executing" \/ phase = "executing"
      PROVE  CallInv'
  BY <1>0, <1>3 DEF ResetState, CallInv
<1>4. CASE Reset
  BY <1>3, <1>4 DEF Reset
<1>5. CASE Expire \/ UNCHANGED vars
  BY <1>1, <1>5 DEF Expire, vars, history
<1>6. ASSUME NEW a \in Dispatchers, NEW r \in Vertices,
             Post(a, r) \/ RunInPlace(a, r)
      PROVE  CallInv'
  <2>1. pc[r] = "ready"
    BY <1>6 DEF Post, RunInPlace, IInv, ListInv
  <2>2. a = Root \/ pc[a] = "dispatching"
    BY <1>6 DEF Post, RunInPlace, Dispatching
  <2>3. \A u \in Vertices : pc'[u] \in Uncalled <=> pc[u] \in Uncalled
    BY <1>0, <1>6, <2>1, <2>2, GraphAssumption DEF Post, RunInPlace, TypeOK
  <2> QED
    BY <1>1, <1>6, <2>3 DEF Post, RunInPlace, history
<1>7. ASSUME NEW v \in Vertices, Skip(v) \/ Run(v) PROVE CallInv'
  <2>1. \A u \in Vertices : calls'[u] = IF u = v THEN calls[v] + 1 ELSE calls[u]
    BY <1>0, <1>7 DEF Skip, Run, TypeOK
  <2>2. /\ pc[v] = "scheduled" /\ pc'[v] \notin Uncalled
        /\ \A u \in Vertices : u # v => pc'[u] = pc[u]
    BY <1>0, <1>7 DEF Skip, Run, TypeOK
  <2>3. phase' = phase /\ dones' = dones
    BY <1>7 DEF Skip, Run
  <2> QED
    BY <1>0, <2>1, <2>2, <2>3 DEF CallInv
<1>8. ASSUME NEW v \in Vertices,
             InjectFails(v) \/ ExitStore(v) \/ FutureThrows(v)
               \/ JoinOther(v) \/ NotifyBegin(v) \/ NotifyEnd(v)
      PROVE  CallInv'
  <2>1. \A u \in Vertices : pc'[u] \in Uncalled <=> pc[u] \in Uncalled
    BY <1>0, <1>8 DEF InjectFails, ExitStore, FutureThrows, JoinOther, NotifyBegin,
                      NotifyEnd, Settle, TypeOK
  <2> QED
    BY <1>1, <1>8, <2>1 DEF InjectFails, ExitStore, FutureThrows, JoinOther,
                            NotifyBegin, NotifyEnd, history
<1>9. ASSUME NEW v \in Vertices, NEW rc \in ReturnCodes,
             Complete(v, rc) \/ ExitTest(v, rc)
      PROVE  CallInv'
  <2>1. \A u \in Vertices : pc'[u] \in Uncalled <=> pc[u] \in Uncalled
    BY <1>0, <1>9 DEF Complete, ExitTest, Settle, TypeOK
  <2> QED
    BY <1>1, <1>9, <2>1 DEF Complete, ExitTest, history
<1>10. ASSUME NEW v \in Vertices, JoinLast(v) PROVE CallInv'
  <2>1. dones = 0
    BY <1>0, <1>10 DEF JoinLast, IInv, PhaseInv, IdleInv, CallInv, Joined, TypeOK
  <2> QED
    BY <1>0, <1>10, <2>1 DEF JoinLast, CallInv, TypeOK
<1>11. ASSUME NEW v \in Vertices, JoinLoop(v) PROVE CallInv'
  BY <1>3, <1>11 DEF JoinLoop
<1>12. ASSUME NEW v \in Vertices, NEW s \in Vertices, NotifyResult(v, s)
       PROVE  CallInv'
  <2>1. \A u \in Vertices : pc'[u] \in Uncalled <=> pc[u] \in Uncalled
    BY <1>0, <1>12 DEF NotifyResult, TypeOK
  <2> QED
    BY <1>1, <1>12, <2>1 DEF NotifyResult, history
<1>13. ASSUME NEW v \in Vertices, NotifyCount(v) PROVE CallInv'
  <2>1. pc[v] = "subtracting" /\ target[v] \in Vertices /\ pc[target[v]] = "idle"
    BY <1>13 DEF NotifyCount, IInv, LoopInv, TypeOK, IdleInv, Unreported, Successors
  <2>2. \A u \in Vertices : pc'[u] \in Uncalled <=> pc[u] \in Uncalled
    BY ZenonT(40), <1>0, <1>13, <2>1 DEF NotifyCount, TypeOK
  <2> QED
    BY <1>1, <1>13, <2>2 DEF NotifyCount, history
<1> QED
  BY <1>2, <1>4, <1>5, <1>6, <1>7, <1>8, <1>9, <1>10, <1>11, <1>12, <1>13
     DEF Next, Dispatch, Engine, Outcome

LEMMA ExitStep == IInv /\ [Next]_vars => ExitInv'
<1> SUFFICES ASSUME IInv, [Next]_vars PROVE ExitInv'
  OBVIOUS
<1>0. TypeOK /\ ExitInv
  BY DEF IInv
<1>1. ASSUME UNCHANGED <<earlyRc, exits, doneRc>>,
             phase' # "done" \/ phase = "done",
             \A u \in Vertices : /\ pc'[u] = "exiting" <=> pc[u] = "exiting"
                                 /\ pc'[u] = "exiting" => code'[u] = code[u]
      PROVE  ExitInv'
  BY <1>0, <1>1 DEF ExitInv
<1>2. ASSUME NEW settings, Execute(settings) PROVE ExitInv'
  <2>1. \A u \in Vertices : pc[u] = "idle" /\ pc'[u] # "exiting"
    BY <1>2 DEF Execute, IInv, IdleInv
  <2> QED
    BY <1>1, <1>2, <2>1 DEF Execute
<1>3. CASE Reset
  BY <1>3 DEF Reset, ResetState, ExitInv
<1>4. CASE Expire \/ UNCHANGED vars
  BY <1>1, <1>4 DEF Expire, vars, history
<1>5. ASSUME NEW a \in Dispatchers, NEW r \in Vertices,
             Post(a, r) \/ RunInPlace(a, r)
      PROVE  ExitInv'
  <2>1. pc[r] = "ready"
    BY <1>5 DEF Post, RunInPlace, IInv, ListInv
  <2>2. a = Root \/ pc[a] = "dispatching"
    BY <1>5 DEF Post, RunInPlace, Dispatching
  <2>3. \A u \in Vertices : pc'[u] = "exiting" <=> pc[u] = "exiting"
    BY ZenonT(40), <1>0, <1>5, <2>1, <2>2, GraphAssumption DEF Post, RunInPlace, TypeOK
  <2> QED
    BY <1>1, <1>5, <2>3 DEF Post, RunInPlace, history
<1>6. ASSUME NEW v \in Vertices, Skip(v) \/ Run(v) \/ FutureThrows(v)
      PROVE  ExitInv'
  <2>1. \A u \in Vertices : /\ pc'[u] = "exiting" <=> pc[u] = "exiting"
                            /\ pc'[u] = "exiting" => code'[u] = code[u]
    BY <1>0, <1>6 DEF Skip, Run, FutureThrows, TypeOK
  <2> QED
    BY <1>1, <1>6, <2>1 DEF Skip, Run, FutureThrows, history
<1>7. ASSUME NEW v \in Vertices, NEW c, Settle(v, c), pc[v] = "running"
      PROVE  \A u \in Vertices : /\ pc'[u] = "exiting" <=> pc[u] = "exiting"
                                 /\ pc'[u] = "exiting" => code'[u] = code[u]
  BY <1>0, <1>7 DEF Settle, TypeOK
<1>8. ASSUME NEW v \in Vertices, InjectFails(v) PROVE ExitInv'
  <2>1. Settle(v, V_CODE_SKIP) /\ pc[v] = "running"
    BY <1>8 DEF InjectFails
  <2> QED
    BY <1>1, <1>7, <1>8, <2>1 DEF InjectFails, history
<1>9. ASSUME NEW v \in Vertices, NEW rc \in ReturnCodes, Complete(v, rc)
      PROVE  ExitInv'
  BY <1>1, <1>7, <1>9 DEF Complete, history
<1>10. ASSUME NEW v \in Vertices, pc[v] \in {"running", "exiting", "finishing"}
       PROVE  phase = "executing"
  BY <1>10 DEF IInv, PhaseInv, IdleInv, TypeOK, Unjoined, Joined
<1>11. ASSUME NEW v \in Vertices, NEW rc \in ReturnCodes, ExitTest(v, rc)
       PROVE  ExitInv'
  <2>1. /\ pc[v] = "running" /\ rc # 0 /\ exits' = exits \cup {rc}
        /\ UNCHANGED <<phase, earlyRc, doneRc>>
    BY <1>11 DEF ExitTest
  <2>2. CASE earlyRc = 0
    <3>1. \A u \in Vertices : /\ pc'[u] = IF u = v THEN "exiting" ELSE pc[u]
                              /\ code'[u] = IF u = v THEN rc ELSE code[u]
      BY <1>0, <1>11, <2>2 DEF ExitTest, TypeOK
    <3> QED
      BY <1>0, <2>1, <2>2, <3>1 DEF ExitInv
  <2>3. CASE earlyRc # 0
    <3>1. \A u \in Vertices : /\ pc'[u] = "exiting" <=> pc[u] = "exiting"
                              /\ pc'[u] = "exiting" => code'[u] = code[u]
      BY <1>7, <1>11, <2>1, <2>3 DEF ExitTest
    <3> QED
      BY <1>0, <2>1, <2>3, <3>1 DEF ExitInv
  <2> QED
    BY <2>2, <2>3
<1>12. ASSUME NEW v \in Vertices, ExitStore(v) PROVE ExitInv'
  <2>1. /\ pc[v] = "exiting" /\ earlyRc' = code[v]
        /\ UNCHANGED <<phase, exits, doneRc>>
    BY <1>12 DEF ExitStore
  <2>2. \A u \in Vertices : /\ pc'[u] = IF u = v THEN "finishing" ELSE pc[u]
                            /\ code'[u] = code[u]
    BY <1>0, <1>12 DEF ExitStore, Settle, TypeOK
  <2>3. phase = "executing"
    BY <1>10, <2>1
  <2> QED
    BY <1>0, <2>1, <2>2, <2>3 DEF ExitInv
<1>13. ASSUME NEW v \in Vertices,
              JoinOther(v) \/ NotifyBegin(v) \/ NotifyEnd(v)
       PROVE  ExitInv'
  <2>1. \A u \in Vertices : pc'[u] = "exiting" <=> pc[u] = "exiting"
    BY <1>0, <1>13 DEF JoinOther, NotifyBegin, NotifyEnd, TypeOK
  <2> QED
    BY <1>1, <1>13, <2>1 DEF JoinOther, NotifyBegin, NotifyEnd, history
<1>14. ASSUME NEW v \in Vertices, pc[v] = "finishing", join = 1
       PROVE  exits # {} => earlyRc # 0
  <2>1. \A u \in Vertices : pc[u] # "exiting"
    BY <1>14, LastIsSink DEF Unjoined, Joined
  <2> QED
    BY <1>0, <2>1 DEF ExitInv
<1>15. ASSUME NEW v \in Vertices, JoinLast(v) PROVE ExitInv'
  <2>1. \A u \in Vertices : pc'[u] = "exiting" => pc[u] = "exiting"
    BY <1>0, <1>15 DEF JoinLast, TypeOK
  <2> QED
    BY <1>0, <1>14, <1>15, <2>1 DEF JoinLast, ExitInv
<1>16. ASSUME NEW v \in Vertices, JoinLoop(v) PROVE ExitInv'
  <2>1. \A u \in Vertices : pc'[u] # "exiting"
    BY <1>16 DEF JoinLoop, ResetState
  <2>2. phase = "executing"
    BY <1>10, <1>16 DEF JoinLoop
  <2> QED
    BY <1>0, <1>14, <1>16, <2>1, <2>2 DEF JoinLoop, ExitInv
<1>17. ASSUME NEW v \in Vertices, NEW s \in Vertices, NotifyResult(v, s)
       PROVE  ExitInv'
  <2>1. \A u \in Vertices : pc'[u] = "exiting" <=> pc[u] = "exiting"
    BY <1>0, <1>17 DEF NotifyResult, TypeOK
  <2> QED
    BY <1>1, <1>17, <2>1 DEF NotifyResult, history
<1>18. ASSUME NEW v \in Vertices, NotifyCount(v) PROVE ExitInv'
  <2>1. pc[v] = "subtracting" /\ target[v] \in Vertices /\ pc[target[v]] = "idle"
    BY <1>18 DEF NotifyCount, IInv, LoopInv, TypeOK, IdleInv, Unreported, Successors
  <2>2. \A u \in Vertices : pc'[u] = "exiting" <=> pc[u] = "exiting"
    BY <1>0, <1>18, <2>1 DEF NotifyCount, TypeOK
  <2> QED
    BY <1>1, <1>18, <2>2 DEF NotifyCount, history
<1> QED
  BY <1>2, <1>3, <1>4, <1>5, <1>6, <1>8, <1>9, <1>11, <1>12, <1>13, <1>15,
     <1>16, <1>17, <1>18 DEF Next, Dispatch, Engine, Outcome
LEMMA RanStep == IInv /\ [Next]_vars => RanInv'
<1> SUFFICES ASSUME IInv, [Next]_vars PROVE RanInv'
  OBVIOUS
<1> DEFINE Uncalled == {"idle", "ready", "scheduled"}
<1>0. TypeOK /\ RanInv
  BY DEF IInv
\* A dependency of a started vertex has joined, so its result stays.
<1>1. ASSUME ran' = ran,
             \A u \in Vertices : pc[u] \notin Uncalled => pc'[u] \notin Uncalled,
             \A u \in Vertices : Joined(u) => result'[u] = result[u]
      PROVE  RanInv'
  <2> SUFFICES ASSUME NEW v \in ran
               PROVE  /\ pc'[v] \notin Uncalled
                      /\ \A d \in Deps[v] : result'[d] \in Expected[v][d]
    BY <1>1 DEF RanInv
  <2>1. v \in Vertices /\ pc[v] \notin Uncalled
    BY <1>0 DEF RanInv, TypeOK
  <2>2. ASSUME NEW d \in Deps[v] PROVE result'[d] \in Expected[v][d]
    <3>1. d \in Vertices /\ Joined(d)
      BY <2>1, DepsReported
    <3> QED
      BY <1>0, <1>1, <3>1 DEF RanInv
  <2> QED
    BY <1>1, <2>1, <2>2
<1>2. ASSUME NEW settings, Execute(settings) PROVE RanInv'
  <2>1. ran = {}
    BY <1>0, <1>2 DEF Execute, RanInv, TypeOK, IInv, IdleInv
  <2> QED
    BY <1>2, <2>1 DEF Execute, RanInv
<1>3. ASSUME ran' = {} PROVE RanInv'
  BY <1>3 DEF RanInv
<1>4. CASE Reset
  BY <1>3, <1>4 DEF Reset, ResetState
<1>5. CASE Expire \/ UNCHANGED vars
  BY <1>1, <1>5 DEF Expire, vars, history
<1>6. ASSUME NEW a \in Dispatchers, NEW r \in Vertices,
             Post(a, r) \/ RunInPlace(a, r)
      PROVE  RanInv'
  <2>1. pc[r] = "ready"
    BY <1>6 DEF Post, RunInPlace, IInv, ListInv
  <2>2. \A u \in Vertices : pc[u] \notin Uncalled => pc'[u] \notin Uncalled
    BY <1>0, <1>6, <2>1 DEF Post, RunInPlace, TypeOK
  <2> QED
    BY <1>1, <1>6, <2>2 DEF Post, RunInPlace, history
<1>7. ASSUME NEW v \in Vertices, Run(v) PROVE RanInv'
  <2>1. /\ pc[v] = "scheduled" /\ ran' = ran \cup {v} /\ result' = result
        /\ \A u \in Vertices : pc'[u] = IF u = v THEN "running" ELSE pc[u]
    BY <1>0, <1>7 DEF Run, TypeOK
  <2>2. \A d \in Deps[v] : result[d] \in Expected[v][d]
    <3> TAKE d \in Deps[v]
    <3>1. depRes[v][d] = result[d]
      BY <2>1, DepsReported
    <3> QED
      BY <1>7, <3>1 DEF Run, Admitted, DepsMatch
  <2> QED
    BY <1>0, <2>1, <2>2 DEF RanInv, TypeOK
<1>9. ASSUME NEW v \in Vertices, Skip(v) PROVE RanInv'
  <2>1. \A u \in Vertices :
          /\ pc[u] \notin Uncalled => pc'[u] \notin Uncalled
          /\ Joined(u) => result'[u] = result[u]
    BY <1>0, <1>9 DEF Skip, Joined, TypeOK
  <2> QED
    BY <1>1, <1>9, <2>1 DEF Skip
<1>10. ASSUME NEW v \in Vertices,
              InjectFails(v) \/ ExitStore(v) \/ FutureThrows(v)
                \/ JoinOther(v) \/ JoinLast(v) \/ NotifyBegin(v) \/ NotifyEnd(v)
       PROVE  RanInv'
  <2>1. \A u \in Vertices :
          /\ pc[u] \notin Uncalled => pc'[u] \notin Uncalled
          /\ Joined(u) => result'[u] = result[u]
    BY <1>0, <1>10 DEF InjectFails, ExitStore, FutureThrows, JoinOther,
                       JoinLast, NotifyBegin, NotifyEnd, Settle, Joined, TypeOK
  <2> QED
    BY <1>1, <1>10, <2>1 DEF InjectFails, ExitStore, FutureThrows, JoinOther,
                             JoinLast, NotifyBegin, NotifyEnd, history
<1>11. ASSUME NEW v \in Vertices, NEW rc \in ReturnCodes,
              Complete(v, rc) \/ ExitTest(v, rc)
       PROVE  RanInv'
  <2>1. \A u \in Vertices :
          /\ pc[u] \notin Uncalled => pc'[u] \notin Uncalled
          /\ Joined(u) => result'[u] = result[u]
    BY <1>0, <1>11 DEF Complete, ExitTest, Settle, Joined, TypeOK
  <2> QED
    BY <1>1, <1>11, <2>1 DEF Complete, ExitTest, history
<1>12. ASSUME NEW v \in Vertices, JoinLoop(v) PROVE RanInv'
  BY <1>3, <1>12 DEF JoinLoop, ResetState
<1>13. ASSUME NEW v \in Vertices, NEW s \in Vertices, NotifyResult(v, s)
       PROVE  RanInv'
  <2>1. \A u \in Vertices : pc[u] \notin Uncalled => pc'[u] \notin Uncalled
    BY <1>0, <1>13 DEF NotifyResult, TypeOK
  <2> QED
    BY <1>1, <1>13, <2>1 DEF NotifyResult, history
<1>14. ASSUME NEW v \in Vertices, NotifyCount(v) PROVE RanInv'
  <2>1. pc[v] = "subtracting" /\ target[v] \in Vertices /\ pc[target[v]] = "idle"
    BY <1>14 DEF NotifyCount, IInv, LoopInv, TypeOK, IdleInv, Unreported, Successors
  <2>2. \A u \in Vertices : pc[u] \notin Uncalled => pc'[u] \notin Uncalled
    BY <1>0, <1>14, <2>1 DEF NotifyCount, TypeOK
  <2> QED
    BY <1>1, <1>14, <2>2 DEF NotifyCount, history
<1> QED
  BY <1>2, <1>4, <1>5, <1>6, <1>7, <1>9, <1>10, <1>11, <1>12, <1>13, <1>14
     DEF Next, Dispatch, Engine, Outcome
-----------------------------------------------------------------------------
LEMMA InvInit == Init => IInv
<1> SUFFICES ASSUME Init PROVE IInv
  OBVIOUS
<1> USE DEF Init
<1>1. TypeOK
  BY TypeInit
<1>2. \A v \in Vertices : ~Joined(v)
  BY DEF Joined
<1>3. \A s \in Vertices : Unreported(s) = Deps[s]
  BY <1>2, GraphAssumption DEF Unreported
<1>4. Unjoined = Vertices
  BY <1>2 DEF Unjoined
<1>5. SettledInv /\ LoopInv /\ IdleInv
  BY DEF SettledInv, LoopInv, IdleInv, Unsettled
<1>6. SlotInv
  BY <1>2, GraphAssumption DEF SlotInv, FreshDepRes
<1>7. CountInv /\ JoinInv
  BY <1>3, <1>4 DEF CountInv, JoinInv, FreshWaiting
<1>8. ListInv
  BY DEF ListInv, NoList, Dispatchers
<1>9. PhaseInv /\ CallInv /\ ExitInv /\ RanInv
  BY <1>4 DEF PhaseInv, CallInv, ExitInv, RanInv
<1> QED
  BY <1>1, <1>5, <1>6, <1>7, <1>8, <1>9 DEF IInv

LEMMA InvStep == IInv /\ [Next]_vars => IInv'
  BY TypeStep, CoreStep, CallStep, ExitStep, RanStep DEF IInv, Core

\* The inductive invariant holds in every execution of every graph.
THEOREM Invariance == Spec => []IInv
  BY InvInit, InvStep, PTL DEF Spec

\* Type correctness: in particular neither unsigned counter ever wraps.
THEOREM TypeCorrect == Spec => []TypeOK
<1>1. IInv => TypeOK
  BY DEF IInv
<1> QED
  BY <1>1, Invariance, PTL

\* A vertex starts only after its dependencies, holding their results.
THEOREM ReadyAfterDepsHolds == Spec => []ReadyAfterDeps
<1>1. IInv => ReadyAfterDeps
  BY DepsReported DEF ReadyAfterDeps
<1> QED
  BY <1>1, Invariance, PTL

\* A processor runs only if its dependencies ended as it expects.
THEOREM RunsAsExpectedHolds == Spec => []RunsAsExpected
<1>1. IInv => RunsAsExpected
  BY DEF IInv, RanInv, RunsAsExpected
<1> QED
  BY <1>1, Invariance, PTL

\* No vertex is executed twice in a round and _done is called at most once.
THEOREM OnceEachHolds == Spec => []OnceEach
<1>1. IInv => OnceEach
  BY DEF IInv, CallInv, OnceEach
<1> QED
  BY <1>1, Invariance, PTL

\* When _done is called the context is quiet.
THEOREM QuietWhenDoneHolds == Spec => []QuietWhenDone
<1>1. IInv => QuietWhenDone
  <2> SUFFICES ASSUME IInv, phase = "done" PROVE QuietWhenDone
    BY DEF QuietWhenDone
  <2>1. \A v \in Vertices : Joined(v) /\ pc[v] # "idle" /\ pc[v] # "ready"
    BY DEF IInv, PhaseInv, Unjoined, Joined
  <2>2. \A s \in Vertices : Unreported(s) = {}
    BY <2>1 DEF IInv, IdleInv
  <2>3. \A a \in Dispatchers : ready[a] = {}
    BY <2>1 DEF IInv, ListInv, TypeOK
  <2>4. ready = NoList
    BY <2>3 DEF IInv, TypeOK, NoList
  <2>5. ASSUME NEW v \in Vertices
        PROVE  /\ calls[v] = 1
               /\ pc[v] = "done" \/ (pc[v] \in {"joined", "notifying"} /\ todo[v] = {})
    <3>1. calls[v] = 1
      BY <2>1 DEF IInv, CallInv, Joined
    <3>2. pc[v] # "dispatching"
      BY <2>3 DEF IInv, ListInv, Dispatchers
    <3>3. pc[v] # "subtracting" /\ todo[v] = {}
      BY <2>1, <2>2 DEF IInv, LoopInv, Unreported, Successors
    <3> QED
      BY <2>1, <3>1, <3>2, <3>3 DEF Joined, IInv, LoopInv
  <2> QED
    BY <2>4, <2>5 DEF QuietWhenDone
<1> QED
  BY <1>1, Invariance, PTL

\* The last thread to join finds no other with work left in the context.
THEOREM QuietAtLastHolds == Spec => []QuietAtLast
<1>1. IInv => QuietAtLast
  <2> SUFFICES ASSUME IInv, NEW v \in Vertices, pc[v] = "finishing", join = 1
               PROVE  /\ ready = NoList
                      /\ \A u \in Vertices \ {v} :
                           pc[u] = "done" \/ (pc[u] \in {"joined", "notifying"} /\ todo[u] = {})
    BY DEF QuietAtLast
  <2>1. \A u \in Vertices \ {v} : Joined(u)
    BY LastIsSink DEF Unjoined
  <2>2. \A u \in Vertices : pc[u] # "idle" /\ pc[u] # "ready"
    BY <2>1 DEF Joined
  <2>3. phase # "idle"
    BY <2>2 DEF IInv, IdleInv
  <2>4. \A s \in Vertices : Unreported(s) = {}
    BY <2>2, <2>3 DEF IInv, IdleInv
  <2>5. \A a \in Dispatchers : ready[a] = {}
    BY <2>2 DEF IInv, ListInv, TypeOK
  <2>6. ready = NoList
    BY <2>5 DEF IInv, TypeOK, NoList
  <2>7. ASSUME NEW u \in Vertices \ {v}
        PROVE  pc[u] = "done" \/ (pc[u] \in {"joined", "notifying"} /\ todo[u] = {})
    <3>1. pc[u] # "dispatching"
      BY <2>5 DEF IInv, ListInv, Dispatchers
    <3>2. pc[u] # "subtracting" /\ todo[u] = {}
      BY <2>1, <2>4 DEF IInv, LoopInv, Unreported, Successors
    <3> QED
      BY <2>1, <3>1, <3>2 DEF Joined, IInv, LoopInv
  <2> QED
    BY <2>6, <2>7
<1> QED
  BY <1>1, Invariance, PTL

\* The caller learns of an early exit, and only of one that happened.
THEOREM ExitCodeReportedHolds == Spec => []ExitCodeReported
<1>1. IInv => ExitCodeReported
  <2> SUFFICES ASSUME IInv, phase = "done"
               PROVE  IF exits = {} THEN doneRc = 0 ELSE doneRc \in exits
    BY DEF ExitCodeReported
  <2>1. \A v \in Vertices : pc[v] # "exiting"
    BY DEF IInv, PhaseInv, Unjoined, Joined
  <2> QED
    BY <2>1 DEF IInv, ExitInv
<1> QED
  BY <1>1, Invariance, PTL
-----------------------------------------------------------------------------
(***************************************************************************)
(* Early exit, the while loop and the reuse of a context, for every graph. *)
(*                                                                         *)
(* The invariant so far says nothing of the codes of settled               *)
(* vertices and of the rounds of a loop; the parts added here do. They are *)
(* proved over the kinds of steps the specification has: most steps move   *)
(* threads without changing what a vertex has come to.                     *)
(***************************************************************************)
Uncalled == {"idle", "ready", "scheduled"}
Busy == {"running", "exiting", "lost"}

\* Every vertex stays undecided, under way or settled with the result it has.
SameStanding ==
  /\ result' = result
  /\ \A u \in Vertices : /\ pc'[u] \in Uncalled <=> pc[u] \in Uncalled
                         /\ pc'[u] \in Busy <=> pc[u] \in Busy

\* A step of the threads that only dispatch, join or notify.
Passive ==
  /\ SameStanding
  /\ UNCHANGED <<round, code, earlyRc, exitRound, ran>>
  /\ phase = "idle" => UNCHANGED <<join, waiting, depRes>>

\* A step that decides or settles v.
Decides(v) ==
  \/ Skip(v) \/ Run(v) \/ InjectFails(v) \/ ExitStore(v)
  \/ \E rc \in ReturnCodes : Complete(v, rc) \/ ExitTest(v, rc)

\* A failed early-exit vertex has stored its code before it settles.
FailedInv ==
  \A d \in ran \cap EarlyExit :
    pc[d] \notin Unsettled =>
      result[d] = "OK" \/ code[d] = V_CODE_SKIP \/ earlyRc # 0

\* The round of the first early exit, and the round after it, in which every
\* vertex is skipped.
RoundInv ==
  /\ exitRound # 0 <=> earlyRc # 0
  /\ round # 0 /\ exitRound <= round
  /\ exitRound # 0 /\ round > exitRound =>
       /\ round = exitRound + 1 /\ ran = {}
       /\ \A v \in Vertices : /\ pc[v] \notin Busy
                              /\ pc[v] \notin Uncalled => code[v] = V_CODE_SKIP

\* Checked together with the invariant they rest on.
XInv == IInv /\ FailedInv /\ ExitStopsDependents /\ RoundInv /\ ReuseIsClean
-----------------------------------------------------------------------------
\* A thread works only while the context is executing or done.
LEMMA NotPooled ==
  ASSUME IInv, NEW v \in Vertices, pc[v] # "idle"
  PROVE  phase # "idle"
  BY DEF IInv, IdleInv

\* The last vertex to join finds the graph executing and every vertex settled.
LEMMA AllSettled ==
  ASSUME IInv, NEW v \in Vertices, pc[v] = "finishing", join = 1
  PROVE  /\ phase = "executing"
         /\ \A u \in Vertices : pc[u] \notin Uncalled \cup Busy
<1>1. \A u \in Vertices \ {v} : Joined(u)
  BY LastIsSink DEF Unjoined
<1>2. phase # "idle" /\ v \in Unjoined
  BY NotPooled DEF Unjoined, Joined
<1> QED
  BY <1>1, <1>2 DEF Joined, Uncalled, Busy, IInv, PhaseInv, TypeOK

LEMMA StepKinds ==
  ASSUME IInv, [Next]_vars
  PROVE  \/ Passive /\ phase' = phase
         \/ Passive /\ \E settings : Execute(settings)
         \/ Passive /\ \E v \in Vertices : JoinLast(v)
         \/ Reset
         \/ \E v \in Vertices : JoinLoop(v) \/ Decides(v)
<1> USE DEF Uncalled, Busy
<1>0. TypeOK
  BY DEF IInv
<1>1. ASSUME NEW settings, Execute(settings) PROVE Passive
  <2>1. \A u \in Vertices : /\ pc[u] = "idle"
                            /\ pc'[u] = IF u \in Start THEN "ready" ELSE "idle"
    BY <1>1 DEF Execute, IInv, IdleInv
  <2> QED
    BY <1>1, <2>1 DEF Execute, Passive, SameStanding
<1>2. CASE Expire \/ UNCHANGED vars
  BY <1>2 DEF Expire, vars, history, Passive, SameStanding
<1>3. ASSUME NEW a \in Dispatchers, NEW r \in Vertices,
             Post(a, r) \/ RunInPlace(a, r)
      PROVE  Passive /\ phase' = phase
  <2>1. pc[r] = "ready"
    BY <1>3 DEF Post, RunInPlace, IInv, ListInv
  <2>2. a = Root \/ pc[a] = "dispatching"
    BY <1>3 DEF Post, RunInPlace, Dispatching
  <2>3. SameStanding
    BY <1>0, <1>3, <2>1, <2>2, GraphAssumption
       DEF Post, RunInPlace, TypeOK, SameStanding
  <2> QED
    BY <1>3, <2>1, <2>3, NotPooled DEF Post, RunInPlace, history, Passive
<1>4. ASSUME NEW v \in Vertices, FutureThrows(v) \/ JoinOther(v) \/ NotifyBegin(v) \/ NotifyEnd(v)
      PROVE  Passive /\ phase' = phase
  <2>1. SameStanding
    BY <1>0, <1>4 DEF FutureThrows, JoinOther, NotifyBegin, NotifyEnd, TypeOK,
                      SameStanding
  <2>2. phase # "idle"
    BY <1>4, NotPooled DEF FutureThrows, JoinOther, NotifyBegin, NotifyEnd
  <2> QED
    BY <1>4, <2>1, <2>2 DEF FutureThrows, JoinOther, NotifyBegin, NotifyEnd, history,
                            Passive
<1>5. ASSUME NEW v \in Vertices, JoinLast(v) PROVE Passive
  <2>1. SameStanding
    BY <1>0, <1>5 DEF JoinLast, TypeOK, SameStanding
  <2>2. phase # "idle"
    BY <1>5, NotPooled DEF JoinLast
  <2> QED
    BY <1>5, <2>1, <2>2 DEF JoinLast, Passive
<1>6. ASSUME NEW v \in Vertices, NEW s \in Vertices, NotifyResult(v, s)
      PROVE  Passive /\ phase' = phase
  <2>1. SameStanding
    BY <1>0, <1>6 DEF NotifyResult, TypeOK, SameStanding
  <2>2. phase # "idle"
    BY <1>6, NotPooled DEF NotifyResult
  <2> QED
    BY <1>6, <2>1, <2>2 DEF NotifyResult, history, Passive
<1>7. ASSUME NEW v \in Vertices, NotifyCount(v)
      PROVE  Passive /\ phase' = phase
  <2>1. pc[v] = "subtracting" /\ target[v] \in Vertices /\ pc[target[v]] = "idle"
    BY <1>7 DEF NotifyCount, IInv, LoopInv, TypeOK, IdleInv, Unreported, Successors
  <2>2. SameStanding
    BY ZenonT(60), <1>0, <1>7, <2>1 DEF NotifyCount, TypeOK, SameStanding
  <2>3. phase # "idle"
    BY <2>1, NotPooled
  <2> QED
    BY <1>7, <2>2, <2>3 DEF NotifyCount, history, Passive
<1>8. CASE UNCHANGED vars
  BY <1>2, <1>8 DEF vars
<1>9. CASE Expire
  BY <1>2, <1>9 DEF Expire
<1> QED
  BY <1>1, <1>3, <1>4, <1>5, <1>6, <1>7, <1>8, <1>9
     DEF Next, Dispatch, Engine, Outcome, Decides

\* What a deciding step does to the vertex and leaves to the others.
LEMMA DecideStep ==
  ASSUME IInv, NEW v \in Vertices, Decides(v)
  PROVE  /\ pc[v] \in {"scheduled", "running", "exiting"}
         /\ phase # "idle" /\ phase' = phase /\ round' = round
         /\ \A u \in Vertices \ {v} :
              pc'[u] = pc[u] /\ result'[u] = result[u] /\ code'[u] = code[u]
         /\ pc'[v] \notin Uncalled
         /\ ran' \subseteq ran \cup {v}
         /\ earlyRc # 0 => earlyRc' # 0
<1> USE DEF Uncalled
<1>0. TypeOK /\ ExitInv
  BY DEF IInv
<1>1. /\ pc[v] \in {"scheduled", "running", "exiting"}
      /\ phase' = phase /\ round' = round
      /\ ran' \subseteq ran \cup {v}
  BY DEF Decides, Skip, Run, InjectFails, ExitStore, Complete, ExitTest, history
<1>2. /\ \A u \in Vertices \ {v} :
           pc'[u] = pc[u] /\ result'[u] = result[u] /\ code'[u] = code[u]
      /\ pc'[v] \notin Uncalled
  BY <1>0 DEF Decides, Skip, Run, InjectFails, ExitStore, Complete, ExitTest,
              Settle, TypeOK
<1>3. earlyRc # 0 => earlyRc' # 0
  BY <1>0 DEF Decides, Skip, Run, InjectFails, ExitStore, Complete, ExitTest,
              ExitInv, history
<1> QED
  BY <1>1, <1>2, <1>3, NotPooled
-----------------------------------------------------------------------------
LEMMA FailedStep == XInv /\ [Next]_vars => FailedInv'
<1> SUFFICES ASSUME XInv, [Next]_vars PROVE FailedInv'
  OBVIOUS
<1>0. IInv /\ TypeOK /\ FailedInv /\ ExitInv
  BY DEF XInv, IInv
<1>1. CASE Passive
  <2>1. \A u \in Vertices : pc'[u] \notin Unsettled => pc[u] \notin Unsettled
    BY <1>1 DEF Passive, SameStanding, Unsettled, Uncalled, Busy
  <2> QED
    BY <1>0, <1>1, <2>1 DEF Passive, SameStanding, FailedInv, TypeOK
<1>2. CASE ran' = {}
  BY <1>2 DEF FailedInv
<1>3. ASSUME NEW v \in Vertices, Decides(v) PROVE FailedInv'
  <2> SUFFICES ASSUME NEW d \in ran' \cap EarlyExit, pc'[d] \notin Unsettled
               PROVE  result'[d] = "OK" \/ code'[d] = V_CODE_SKIP \/ earlyRc' # 0
    BY DEF FailedInv
  <2>1. d \in Vertices
    BY <1>0, <1>3, DecideStep DEF TypeOK
  <2>2. CASE d # v
    BY <1>0, <1>3, <2>1, <2>2, DecideStep DEF FailedInv
  <2>3. CASE d = v
    <3>1. CASE Skip(v) \/ Run(v)
      BY <1>0, <2>3, <3>1 DEF Skip, Run, TypeOK, Unsettled
    <3>2. CASE InjectFails(v)
      BY <1>0, <2>3, <3>2 DEF InjectFails, Settle, TypeOK
    <3>3. CASE ExitStore(v)
      BY <1>0, <3>3 DEF ExitStore, ExitInv
    <3>4. ASSUME NEW rc \in ReturnCodes, Complete(v, rc) PROVE result'[d] = "OK"
      BY <1>0, <2>3, <3>4 DEF Complete, Settle, TypeOK
    <3>5. ASSUME NEW rc \in ReturnCodes, ExitTest(v, rc) PROVE earlyRc' # 0
      BY <1>0, <2>3, <3>5 DEF ExitTest, Settle, TypeOK, Unsettled
    <3> QED
      BY <1>3, <3>1, <3>2, <3>3, <3>4, <3>5 DEF Decides
  <2> QED
    BY <2>2, <2>3
<1> QED
  BY <1>0, <1>1, <1>2, <1>3, StepKinds DEF Reset, JoinLoop, ResetState

LEMMA DependentsStep == XInv /\ [Next]_vars => ExitStopsDependents'
<1> SUFFICES ASSUME XInv, [Next]_vars PROVE ExitStopsDependents'
  OBVIOUS
<1>0. IInv /\ TypeOK /\ FailedInv /\ ExitStopsDependents /\ RanInv
  BY DEF XInv, IInv
<1>1. CASE Passive
  BY <1>0, <1>1 DEF Passive, SameStanding, ExitStopsDependents
<1>2. CASE ran' = {}
  BY <1>2 DEF ExitStopsDependents
<1>3. ASSUME NEW v \in Vertices, Decides(v) PROVE ExitStopsDependents'
  <2> SUFFICES ASSUME NEW w \in ran', NEW d \in Deps[w], d \in EarlyExit, d \in ran'
               PROVE  result'[d] = "OK" \/ code'[d] = V_CODE_SKIP
    BY DEF ExitStopsDependents
  <2>1. w \in Vertices /\ pc[w] # "idle"
    BY <1>0, <1>3, DecideStep DEF TypeOK, RanInv
  <2>2. d \in Vertices /\ Joined(d)
    BY <1>0, <2>1, DepsReported
  <2>3. d # v /\ d \in ran
    BY <1>0, <1>3, <2>2, DecideStep DEF Joined
  <2>4. result'[d] = result[d] /\ code'[d] = code[d]
    BY <1>0, <1>3, <2>2, <2>3, DecideStep
  <2>5. CASE w \in ran
    BY <1>0, <2>3, <2>4, <2>5 DEF ExitStopsDependents
  <2>6. CASE w \notin ran
    <3>1. Run(w)
      BY <1>3, <2>6 DEF Decides, Skip, Run, InjectFails, ExitStore, Complete,
                        ExitTest, history
    <3>2. earlyRc = 0
      BY <3>1 DEF Run, Admitted
    <3> QED
      BY <1>0, <2>2, <2>3, <2>4, <3>2 DEF FailedInv, Joined, Unsettled
  <2> QED
    BY <2>5, <2>6
<1> QED
  BY <1>0, <1>1, <1>2, <1>3, StepKinds DEF Reset, JoinLoop, ResetState

LEMMA RoundStep == XInv /\ [Next]_vars => RoundInv'
<1> SUFFICES ASSUME XInv, [Next]_vars PROVE RoundInv'
  OBVIOUS
<1>0. IInv /\ TypeOK /\ RoundInv /\ ExitInv
  BY DEF XInv, IInv
<1>1. CASE Passive
  BY <1>0, <1>1 DEF Passive, SameStanding, RoundInv
<1>2. CASE Reset
  BY <1>2 DEF Reset, RoundInv
<1>3. ASSUME NEW v \in Vertices, JoinLoop(v) PROVE RoundInv'
  <2>1. \A u \in Vertices : pc[u] \notin Uncalled \cup Busy
    BY <1>0, <1>3, AllSettled DEF JoinLoop
  <2>2. WhileVertex \in Vertices /\ code[WhileVertex] = 0
    BY <1>3, FlagAssumption DEF JoinLoop, LoopAgain
  <2>3. ~(exitRound # 0 /\ round > exitRound)
    BY <1>0, <2>1, <2>2 DEF RoundInv, V_CODE_SKIP
  <2>4. /\ round' = round + 1 /\ ran' = {} /\ UNCHANGED <<earlyRc, exitRound>>
        /\ \A u \in Vertices : pc'[u] \in Uncalled /\ pc'[u] \notin Busy
    BY <1>3 DEF JoinLoop, ResetState, Uncalled, Busy
  <2> QED
    BY <1>0, <2>3, <2>4 DEF RoundInv, TypeOK
<1>4. ASSUME NEW v \in Vertices, Decides(v) PROVE RoundInv'
  <2>1. CASE exitRound # 0 /\ round > exitRound
    <3>1. Skip(v)
      BY <1>0, <1>4, <2>1 DEF RoundInv, Busy, Decides, Run, Admitted, InjectFails,
                              ExitStore, Complete, ExitTest
    <3>2. \A u \in Vertices :
            /\ pc'[u] = IF u = v THEN "finishing" ELSE pc[u]
            /\ code'[u] = IF u = v THEN V_CODE_SKIP ELSE code[u]
      BY <1>0, <3>1 DEF Skip, TypeOK
    <3> QED
      BY <1>0, <2>1, <3>1, <3>2 DEF Skip, RoundInv, Busy
  <2>2. CASE exitRound = 0 \/ round <= exitRound
    <3>1. CASE ExitStore(v)
      <4>1. earlyRc' # 0 /\ round' = round
        BY <1>0, <3>1 DEF ExitStore, ExitInv
      <4>2. exitRound' = round
        BY <1>0, <2>2, <3>1 DEF ExitStore, RoundInv, TypeOK
      <4> QED
        BY <1>0, <4>1, <4>2 DEF RoundInv, TypeOK
    <3>2. CASE ~ExitStore(v)
      <4>1. UNCHANGED <<earlyRc, exitRound, round>>
        BY <1>4, <3>2 DEF Decides, Skip, Run, InjectFails, Complete, ExitTest,
                          history
      <4> QED
        BY <1>0, <2>2, <4>1 DEF RoundInv, TypeOK
    <3> QED
      BY <3>1, <3>2
  <2> QED
    BY <1>0, <2>1, <2>2 DEF TypeOK
<1> QED
  BY <1>0, <1>1, <1>2, <1>3, <1>4, StepKinds

LEMMA ReuseStep == XInv /\ [Next]_vars => ReuseIsClean'
<1> SUFFICES ASSUME XInv, [Next]_vars PROVE ReuseIsClean'
  OBVIOUS
<1>0. IInv /\ ReuseIsClean
  BY DEF XInv
<1>1. CASE Passive /\ phase' = phase
  BY <1>0, <1>1 DEF Passive, SameStanding, ReuseIsClean
<1>2. CASE Reset
  BY <1>2 DEF Reset, ResetState, ReuseIsClean, FreshDepRes
<1>3. CASE phase' # "idle"
  BY <1>3 DEF ReuseIsClean
<1>4. ASSUME NEW v \in Vertices, JoinLoop(v) \/ Decides(v) PROVE phase' # "idle"
  BY <1>0, <1>4, DecideStep, AllSettled DEF JoinLoop
<1> QED
  BY <1>0, <1>1, <1>2, <1>3, <1>4, StepKinds DEF Execute, JoinLast
-----------------------------------------------------------------------------
\* The extended invariant holds in every execution of every graph.
THEOREM ExitInvariance == Spec => []XInv
<1>1. Init => XInv
  <2> SUFFICES ASSUME Init PROVE XInv
    OBVIOUS
  <2>1. IInv
    BY InvInit
  <2>2. FailedInv /\ ExitStopsDependents /\ RoundInv
    BY DEF Init, FailedInv, ExitStopsDependents, RoundInv
  <2>3. ReuseIsClean
    BY DEF Init, ReuseIsClean, FreshDepRes
  <2> QED
    BY <2>1, <2>2, <2>3 DEF XInv
<1>2. XInv /\ [Next]_vars => XInv'
  BY InvStep, FailedStep, DependentsStep, RoundStep, ReuseStep DEF XInv
<1> QED
  BY <1>1, <1>2, PTL DEF Spec

\* Nothing that depends on a failed early-exit vertex is run, in any graph:
\* SetEarlyExitCode comes before the join counter and the notifications.
THEOREM ExitStopsDependentsHolds == Spec => []ExitStopsDependents
<1>1. XInv => ExitStopsDependents
  BY DEF XInv
<1> QED
  BY <1>1, ExitInvariance, PTL

\* After an early exit a while graph makes at most one more pass, an empty one,
\* although ResetState forgets every vertex and OnVertexDone does not test the
\* exit code.
THEOREM ExitEndsLoopHolds == Spec => []ExitEndsLoop
<1>1. XInv => ExitEndsLoop
  BY DEF XInv, RoundInv, ExitEndsLoop
<1> QED
  BY <1>1, ExitInvariance, PTL

\* A context in the pool carries nothing over from the execution before.
THEOREM ReuseIsCleanHolds == Spec => []ReuseIsClean
<1>1. XInv => ReuseIsClean
  BY DEF XInv
<1> QED
  BY <1>1, ExitInvariance, PTL
-----------------------------------------------------------------------------
(***************************************************************************)
(* The engine implements DagRun, for every graph: the threads, counters,   *)
(* slots and lists of GraphExec never show in the order in which the user  *)
(* sees vertices start and end. The steps that move threads stutter; each  *)
(* step that decides, settles, resets or finishes is one step of DagRun,   *)
(* whose guards the inductive invariant supplies.                          *)
(***************************************************************************)
\* The status in terms of the standing of a vertex, before and after a step.
LEMMA StatusIs ==
  ASSUME NEW v \in Vertices
  PROVE  /\ Status(v) = IF pc[v] \in Uncalled THEN "waiting"
                        ELSE IF pc[v] \in Busy THEN "running" ELSE result[v]
         /\ Status(v)' = IF pc'[v] \in Uncalled THEN "waiting"
                         ELSE IF pc'[v] \in Busy THEN "running" ELSE result'[v]
  BY DEF Status, Uncalled, Busy

\* A vertex has ended exactly when it has settled.
LEMMA EndedIs ==
  ASSUME IInv, NEW v \in Vertices
  PROVE  pc[v] \notin Uncalled \cup Busy =>
           Status(v) = result[v] /\ result[v] \notin {"waiting", "running"}
  BY StatusIs DEF IInv, TypeOK, Results, Invalid

\* A vertex about to be executed may be decided, by the statuses of its
\* dependencies.
LEMMA IsDecidable ==
  ASSUME IInv, NEW v \in Vertices, pc[v] = "scheduled"
  PROVE  /\ Dag!Decidable(v)
         /\ \A d \in Deps[v] : d \in Vertices /\ Status(d) = depRes[v][d]
<1>1. phase = "executing"
  BY NotPooled DEF IInv, PhaseInv, Unjoined, Joined, TypeOK
<1>2. ASSUME NEW d \in Deps[v]
      PROVE  /\ d \in Vertices /\ Status(d) = depRes[v][d]
             /\ Status(d) \notin {"waiting", "running"}
  <2>1. d \in Vertices /\ Joined(d) /\ depRes[v][d] = result[d]
    BY DepsReported
  <2> QED
    BY <2>1, EndedIs DEF Joined, Uncalled, Busy
<1>3. Status(v) = "waiting"
  BY StatusIs DEF Uncalled
<1> QED
  BY <1>1, <1>2, <1>3 DEF Dag!Decidable, Dag!Ended

\* A step that gives v the status x and leaves the others theirs.
LEMMA OneStatus ==
  ASSUME IInv, NEW v \in Vertices, Decides(v), NEW x, Status(v)' = x
  PROVE  /\ [u \in Vertices |-> Status(u)]'
              = [[u \in Vertices |-> Status(u)] EXCEPT ![v] = x]
         /\ phase' = phase
<1>1. \A u \in Vertices \ {v} : Status(u)' = Status(u)
  BY DecideStep, StatusIs
<1> QED
  BY ZenonT(60), <1>1, DecideStep

\* The deciding steps.
LEMMA RefineDecide ==
  ASSUME IInv, NEW v \in Vertices, Decides(v)
  PROVE  [Dag!DagNext]_(Dag!dagVars)
<1> USE DEF Uncalled, Busy
<1>0. TypeOK
  BY DEF IInv
<1>1. CASE Skip(v)
  <2> DEFINE x == IF SkipAsError THEN "ERR" ELSE "SKIP"
  <2>1. pc[v] = "scheduled" /\ pc'[v] = "finishing" /\ result'[v] = x
    BY <1>0, <1>1 DEF Skip, TypeOK
  <2>2. Status(v)' = x
    BY <2>1, StatusIs
  <2>3. Dag!PassVertex(v)
    BY <2>1, <2>2, OneStatus, IsDecidable DEF Dag!PassVertex
  <2> QED
    BY <2>3 DEF Dag!DagNext
<1>2. CASE Run(v)
  <2>1. pc[v] = "scheduled" /\ pc'[v] = "running"
    BY <1>0, <1>2 DEF Run, TypeOK
  <2>2. Status(v)' = "running"
    BY <2>1, StatusIs
  <2>3. \A d \in Deps[v] : d \in Vertices /\ Status(d) \in Expected[v][d]
    BY <1>2, <2>1, IsDecidable DEF Run, Admitted, DepsMatch
  <2>4. Dag!RunVertex(v)
    BY <2>1, <2>2, <2>3, OneStatus, IsDecidable DEF Dag!RunVertex
  <2> QED
    BY <2>4 DEF Dag!DagNext
<1>3. ASSUME pc[v] \in Busy, NEW c, Settle(v, c)
      PROVE  [Dag!DagNext]_(Dag!dagVars)
  <2>1. result[v] = Invalid
    BY <1>3 DEF IInv, SettledInv, Unsettled
  <2>2. pc'[v] = "finishing" /\ result'[v] \in {"OK", "ERR"}
    BY <1>0, <1>3, <2>1 DEF Settle, TypeOK
  <2>3. Status(v) = "running" /\ Status(v)' \in {"OK", "ERR"}
    BY <1>3, <2>2, StatusIs
  <2>4. Dag!EndVertex(v)
    BY <2>3, OneStatus DEF Dag!EndVertex
  <2> QED
    BY <2>4 DEF Dag!DagNext
<1>4. CASE InjectFails(v) \/ ExitStore(v)
  BY <1>3, <1>4 DEF InjectFails, ExitStore
<1>5. ASSUME NEW rc \in ReturnCodes, Complete(v, rc)
      PROVE  [Dag!DagNext]_(Dag!dagVars)
  BY <1>3, <1>5 DEF Complete
<1>6. ASSUME NEW rc \in ReturnCodes, ExitTest(v, rc)
      PROVE  [Dag!DagNext]_(Dag!dagVars)
  <2>1. pc[v] = "running"
    BY <1>6 DEF ExitTest
  <2>2. CASE earlyRc = 0
    <3>1. pc'[v] = "exiting" /\ phase' = phase
      BY <1>0, <1>6, <2>2 DEF ExitTest, TypeOK
    <3>2. \A u \in Vertices : Status(u)' = Status(u)
      BY <2>1, <3>1, StatusIs, DecideStep
    <3> QED
      BY <3>1, <3>2 DEF Dag!dagVars
  <2>3. CASE earlyRc # 0
    BY <1>3, <1>6, <2>1, <2>3 DEF ExitTest
  <2> QED
    BY <2>2, <2>3
<1> QED
  BY <1>1, <1>2, <1>4, <1>5, <1>6 DEF Decides

\* Every step of the engine is a step of DagRun or a stutter.
LEMMA RefineStep == IInv /\ [Next]_vars => [Dag!DagNext]_(Dag!dagVars)
<1> SUFFICES ASSUME IInv, [Next]_vars PROVE [Dag!DagNext]_(Dag!dagVars)
  OBVIOUS
<1>1. ASSUME Passive
      PROVE  [u \in Vertices |-> Status(u)]' = [u \in Vertices |-> Status(u)]
  BY <1>1, StatusIs DEF Passive, SameStanding
<1>2. CASE Passive /\ phase' = phase
  BY <1>1, <1>2 DEF Dag!dagVars
<1>3. ASSUME Passive, NEW settings, Execute(settings)
      PROVE  Dag!DagNext
  <2>1. phase = "idle" /\ phase' = "executing"
    BY <1>3 DEF Execute
  <2> QED
    BY <1>1, <1>3, <2>1 DEF Dag!Begin, Dag!DagNext
<1>4. ASSUME NEW v \in Vertices, pc[v] = "finishing", join = 1
      PROVE  Dag!AllEnded
  BY <1>4, AllSettled, EndedIs DEF Dag!AllEnded, Dag!Ended
<1>5. ASSUME Passive, NEW v \in Vertices, JoinLast(v) PROVE Dag!DagNext
  <2>1. Dag!AllEnded /\ phase' = "done"
    BY <1>4, <1>5 DEF JoinLast
  <2> QED
    BY <1>1, <1>5, <2>1 DEF Dag!Finish, Dag!DagNext
<1>6. ASSUME NEW p \in Uncalled, ResetState(p)
      PROVE  [u \in Vertices |-> Status(u)]' = [u \in Vertices |-> "waiting"]
  <2>1. \A u \in Vertices : pc'[u] \in Uncalled
    BY <1>6 DEF ResetState, Uncalled
  <2> QED
    BY <2>1, StatusIs
<1>7. CASE Reset
  <2>1. phase = "done" /\ phase' = "idle" /\ ResetState("idle")
    BY <1>7 DEF Reset
  <2> QED
    BY <1>6, <2>1 DEF Uncalled, Dag!Recycle, Dag!DagNext
<1>8. ASSUME NEW v \in Vertices, JoinLoop(v) PROVE Dag!DagNext
  <2>1. Dag!AllEnded /\ IsWhile /\ phase' = phase /\ ResetState("ready")
    BY <1>4, <1>8 DEF JoinLoop, LoopAgain
  <2> QED
    BY <1>6, <2>1 DEF Uncalled, Dag!StartOver, Dag!DagNext
<1> QED
  BY <1>2, <1>3, <1>5, <1>7, <1>8, StepKinds, RefineDecide

\* The C++ engine executes every graph as DagRun says: each vertex is decided
\* once its dependencies have ended, runs only if they ended as it expects, and
\* _done is called, or the loop restarted, when all vertices have ended.
THEOREM ImplementsDagHolds == Spec => ImplementsDag
<1>1. Init => Dag!DagInit
  <2> SUFFICES ASSUME Init PROVE Dag!DagInit
    OBVIOUS
  <2>1. \A v \in Vertices : Status(v) = "waiting"
    BY StatusIs DEF Init, Uncalled
  <2> QED
    BY <2>1 DEF Init, Dag!DagInit
<1> QED
  BY <1>1, RefineStep, Invariance, PTL DEF Spec, ImplementsDag, Dag!DagSpec
=============================================================================
