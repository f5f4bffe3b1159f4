---------------------------- MODULE GoExec_proofs ----------------------------
(***************************************************************************)
(* Safety of the Go engine's execution of every graph: its counters, the   *)
(* WaitGroup, what the caller finds when Wait returns, and that it is an   *)
(* implementation of DagRun.                                               *)
(*                                                                         *)
(* As for the C++ engine the invariant ties each counter to the set it     *)
(* counts, and the WaitGroup to the pending counter: a call that names a   *)
(* missing graph only ever adds to it.                                     *)
(***************************************************************************)
EXTENDS GoExec, FiniteSetTheorems, TLAPS

Joined(v) == pc[v] \in {"notifying", "counting", "gone"}
Unsettled == {"idle", "scheduled", "running", "lost"}

\* The dependencies of s that have still to decrement its counter.
Unreported(s) ==
  {d \in Deps[s] : \/ ~Joined(d)
                   \/ s \in todo[d]
                   \/ pc[d] = "counting" /\ target[d] = s}
Unjoined == {v \in Vertices : ~Joined(v)}

\* A vertex has a result from the moment it calls vertexDone.
SettledInv ==
  \A v \in Vertices : result[v] = Invalid <=> pc[v] \in Unsettled

\* What a goroutine in the loop of vertexDone has still to do.
LoopInv ==
  \A v \in Vertices :
    /\ todo[v] \subseteq Successors(v)
    /\ todo[v] # {} => pc[v] \in {"notifying", "counting"}
    /\ pc[v] = "counting" => target[v] \in Successors(v) \ todo[v]

SlotInv ==
  \A s \in Vertices : \A d \in Deps[s] :
    depRes[s][d] = IF Joined(d) /\ s \notin todo[d] THEN result[d] ELSE Invalid

\* The counters.
CountInv == \A s \in Vertices : waiting[s] = Cardinality(Unreported(s))
JoinInv == pending = Cardinality(Unjoined)
GroupInv == pending # 0 => wg # 0

\* A vertex is idle exactly while a dependency has not reported.
IdleInv ==
  \A s \in Vertices :
    IF phase = "pooled" THEN pc[s] = "idle"
    ELSE pc[s] = "idle" <=> Unreported(s) # {}

CallInv ==
  phase = "executing" =>
    \A v \in Vertices : calls[v] = IF pc[v] \in {"idle", "scheduled"} THEN 0 ELSE 1

Core == SettledInv /\ LoopInv /\ SlotInv /\ CountInv /\ JoinInv /\ IdleInv
IInv == TypeOK /\ Core /\ GroupInv /\ CallInv
-----------------------------------------------------------------------------
LEMMA Finite ==
  /\ \A s \in Vertices : /\ Deps[s] \subseteq Vertices /\ IsFiniteSet(Deps[s])
                         /\ IsFiniteSet(Unreported(s))
                         /\ Cardinality(Deps[s]) \in Nat
                         /\ Cardinality(Unreported(s)) \in Nat
  /\ IsFiniteSet(Unjoined) /\ Cardinality(Unjoined) \in Nat
  /\ Cardinality(Vertices) \in Nat
<1>1. \A s \in Vertices : Deps[s] \subseteq Vertices /\ Unreported(s) \subseteq Deps[s]
  BY GoAssumption DEF Unreported
<1>2. \A s \in Vertices : IsFiniteSet(Deps[s])
  BY <1>1, GoAssumption, FS_Subset
<1>3. \A s \in Vertices : IsFiniteSet(Unreported(s))
  BY <1>1, <1>2, FS_Subset
<1>4. IsFiniteSet(Unjoined)
  BY GoAssumption, FS_Subset DEF Unjoined
<1> QED
  BY <1>1, <1>2, <1>3, <1>4, GoAssumption, FS_CardinalityType

\* A vertex that has still to join is counted, and the graph is executing.
LEMMA Counted ==
  ASSUME IInv, NEW v \in Vertices
  PROVE  /\ ~Joined(v) => pending # 0 /\ wg # 0
         /\ pc[v] # "idle" => phase = "executing"
<1>1. ASSUME ~Joined(v) PROVE pending # 0
  <2>1. Unjoined # {}
    BY <1>1 DEF Unjoined
  <2> QED
    BY <2>1, Finite, FS_EmptySet DEF IInv, Core, JoinInv
<1>2. pc[v] # "idle" => phase = "executing"
  BY DEF IInv, Core, IdleInv, TypeOK
<1> QED
  BY <1>1, <1>2 DEF IInv, GroupInv

\* The target of a goroutine that is about to count is waiting for it.
LEMMA TargetIdle ==
  ASSUME IInv, NEW v \in Vertices, pc[v] = "counting"
  PROVE  /\ target[v] \in Vertices /\ v \in Unreported(target[v])
         /\ pc[target[v]] = "idle" /\ target[v] # v
         /\ waiting[target[v]] \in Nat \ {0}
<1>1. target[v] \in Vertices /\ v \in Unreported(target[v])
  BY DEF IInv, Core, TypeOK, LoopInv, Successors, Unreported
<1>2. pc[target[v]] = "idle"
  BY <1>1, Counted DEF IInv, Core, IdleInv
<1>3. waiting[target[v]] \in Nat \ {0}
  BY <1>1, Finite, FS_EmptySet DEF IInv, Core, CountInv
<1> QED
  BY <1>1, <1>2, <1>3

\* A vertex that is not idle has heard from all its dependencies.
LEMMA DepsReported ==
  ASSUME IInv, NEW v \in Vertices, pc[v] # "idle", NEW d \in Deps[v]
  PROVE  /\ d \in Vertices /\ Joined(d)
         /\ depRes[v][d] = result[d] /\ result[d] # Invalid
<1>1. Unreported(v) = {}
  BY Counted DEF IInv, Core, IdleInv
<1>2. d \in Vertices /\ Joined(d) /\ v \notin todo[d]
  BY <1>1, GoAssumption DEF Unreported
<1>3. depRes[v][d] = result[d]
  BY <1>2 DEF IInv, Core, SlotInv
<1> QED
  BY <1>2, <1>3 DEF IInv, Core, SettledInv, Joined, Unsettled

\* The last vertex to join has no successor: a successor would not have run.
LEMMA LastIsSink ==
  ASSUME IInv, NEW v \in Vertices, pc[v] = "finishing", pending = 1
  PROVE  Unjoined = {v} /\ Successors(v) = {}
<1>0. ~Joined(v)
  BY DEF Joined
<1>1. PICK x : Unjoined = {x}
  BY Finite, FS_Singleton DEF IInv, Core, JoinInv
<1>2. Unjoined = {v}
  BY <1>0, <1>1 DEF Unjoined
<1>3. ASSUME NEW s \in Successors(v) PROVE FALSE
  <2>1. s \in Vertices /\ v \in Deps[s]
    BY <1>3 DEF Successors
  <2>2. pc[s] = "idle"
    BY <1>0, <2>1, DepsReported
  <2>3. s = v
    BY <1>2, <2>1, <2>2 DEF Unjoined, Joined
  <2> QED
    BY <2>2, <2>3
<1> QED
  BY <1>2, <1>3
-----------------------------------------------------------------------------
LEMMA TypeStep == IInv /\ [Next]_vars => TypeOK'
<1> SUFFICES ASSUME IInv, [Next]_vars PROVE TypeOK'
  OBVIOUS
<1>0. TypeOK
  BY DEF IInv
<1>1. ASSUME NEW settings \in [ConfigNames -> BOOLEAN], ExecuteGraph(settings)
      PROVE  TypeOK'
  BY <1>0, <1>1 DEF TypeOK, ExecuteGraph
<1>2. CASE ExecuteMissing
  BY <1>0, <1>2 DEF TypeOK, ExecuteMissing
<1>3. CASE Return
  <2>1. waiting' \in [Vertices -> Nat] /\ pending' \in Nat
    BY <1>3, Finite DEF Return, FreshWaiting
  <2>2. depRes' \in [Vertices -> [Vertices -> Results \cup {Invalid}]]
    BY <1>3 DEF Return
  <2>3. /\ result' \in [Vertices -> Results \cup {Invalid}]
        /\ pc' \in [Vertices -> {"idle"}]
        /\ wg' \in Nat /\ phase' = "pooled"
    BY <1>0, <1>3 DEF TypeOK, Return
  <2>4. UNCHANGED <<config, todo, target, runs, calls, missed>>
    BY <1>3 DEF Return
  <2> QED
    BY <1>0, <2>1, <2>2, <2>3, <2>4 DEF TypeOK
<1>4. ASSUME NEW v \in Vertices, Skip(v) \/ Run(v) PROVE TypeOK'
  <2>1. calls' = [calls EXCEPT ![v] = @ + 1]
    BY <1>4 DEF Skip, Run
  <2>2. calls' \in [Vertices -> Nat]
    BY <1>0, <2>1 DEF TypeOK
  <2>3. result' = [result EXCEPT ![v] = "ERR"] \/ result' = result
    BY <1>4 DEF Skip, Run
  <2>4. result' \in [Vertices -> Results \cup {Invalid}]
    BY <1>0, <2>3 DEF TypeOK, Results
  <2> QED
    BY ZenonT(40), <1>0, <1>4, <2>2, <2>4 DEF TypeOK, Skip, Run
<1>5. ASSUME NEW v \in Vertices, SubgraphMissing(v) PROVE TypeOK'
  BY <1>0, <1>5 DEF TypeOK, SubgraphMissing
<1>6. ASSUME NEW v \in Vertices, NEW r \in Results, Complete(v, r) PROVE TypeOK'
  BY <1>0, <1>6 DEF TypeOK, Complete
<1>7. ASSUME NEW v \in Vertices, PendingOther(v) PROVE TypeOK'
  <2>1. pending' \in Nat
    BY <1>0, <1>7, Counted DEF TypeOK, PendingOther, Joined
  <2>2. todo' \in [Vertices -> SUBSET Vertices]
    BY <1>0, <1>7 DEF TypeOK, PendingOther, Successors
  <2> QED
    BY <1>0, <1>7, <2>1, <2>2 DEF TypeOK, PendingOther
<1>8. ASSUME NEW v \in Vertices, PendingLast(v) PROVE TypeOK'
  <2>1. wg' \in Nat
    BY <1>0, <1>8, Counted DEF TypeOK, PendingLast, Joined
  <2> QED
    BY <1>0, <1>8, <2>1 DEF TypeOK, PendingLast
<1>9. ASSUME NEW v \in Vertices, NEW s \in Vertices, NotifyResult(v, s) PROVE TypeOK'
  <2>1. depRes' \in [Vertices -> [Vertices -> Results \cup {Invalid}]]
    BY <1>0, <1>9 DEF TypeOK, NotifyResult
  <2> QED
    BY <1>0, <1>9, <2>1 DEF TypeOK, NotifyResult
<1>10. ASSUME NEW v \in Vertices, NotifyCount(v) PROVE TypeOK'
  <2>1. target[v] \in Vertices /\ waiting[target[v]] - 1 \in Nat
    BY <1>10, TargetIdle DEF NotifyCount
  <2>2. waiting' \in [Vertices -> Nat]
    BY <1>0, <1>10, <2>1 DEF TypeOK, NotifyCount
  <2> QED
    BY <1>0, <1>10, <2>1, <2>2 DEF TypeOK, NotifyCount
<1>11. ASSUME NEW v \in Vertices, NotifyEnd(v) PROVE TypeOK'
  BY <1>0, <1>11 DEF TypeOK, NotifyEnd
<1>12. CASE UNCHANGED vars
  BY <1>0, <1>12 DEF TypeOK, vars
<1> QED
  BY <1>1, <1>2, <1>3, <1>4, <1>5, <1>6, <1>7, <1>8, <1>9, <1>10, <1>11, <1>12
     DEF Next, Goroutine
-----------------------------------------------------------------------------
\* A step of v before vertexDone: its goroutine moves to q, its result becomes
\* x, and nothing that is counted changes.
OwnMove(v, q, x) ==
  /\ pc[v] \in {"scheduled", "running"} /\ q \in {"running", "lost", "finishing"}
  /\ pc' = [pc EXCEPT ![v] = q]
  /\ result' = [result EXCEPT ![v] = x]
  /\ x = Invalid <=> q # "finishing"
  /\ UNCHANGED <<phase, depRes, waiting, pending, todo, target>>

LEMMA OwnStep ==
  ASSUME IInv, NEW v \in Vertices, NEW q, NEW x, OwnMove(v, q, x)
  PROVE  Core'
<1> USE DEF IInv, Core, OwnMove
<1>1. \A u \in Vertices : /\ Joined(u)' <=> Joined(u)
                          /\ pc'[u] = "counting" <=> pc[u] = "counting"
                          /\ pc'[u] = "idle" <=> pc[u] = "idle"
                          /\ u # v => pc'[u] = pc[u] /\ result'[u] = result[u]
  BY DEF Joined, TypeOK
<1>2. \A s \in Vertices : Unreported(s)' = Unreported(s)
  BY <1>1, Finite DEF Unreported
<1>3. Unjoined' = Unjoined
  BY <1>1 DEF Unjoined
<1>4. CountInv' /\ JoinInv' /\ IdleInv'
  BY <1>1, <1>2, <1>3 DEF CountInv, JoinInv, IdleInv
<1>5. SettledInv'
  BY DEF SettledInv, TypeOK, Unsettled
<1>6. LoopInv'
  BY <1>1 DEF LoopInv, TypeOK, Successors
<1>7. SlotInv'
  <2> SUFFICES ASSUME NEW s \in Vertices, NEW d \in Deps[s]
               PROVE  depRes'[s][d] = IF Joined(d)' /\ s \notin todo'[d]
                                      THEN result'[d] ELSE Invalid
    BY DEF SlotInv
  <2>1. d \in Vertices /\ ~Joined(v)
    BY Finite DEF Joined
  <2> QED
    BY <1>1, <2>1 DEF SlotInv
<1> QED
  BY <1>4, <1>5, <1>6, <1>7

LEMMA StepPendingOther ==
  ASSUME IInv, NEW v \in Vertices, PendingOther(v)
  PROVE  Core'
<1> USE DEF IInv, Core
<1>1. \A u \in Vertices : /\ pc'[u] = IF u = v THEN "notifying" ELSE pc[u]
                          /\ todo'[u] = IF u = v THEN Successors(v) ELSE todo[u]
  BY DEF PendingOther, TypeOK
<1>2. /\ pc[v] = "finishing" /\ ~Joined(v) /\ pending' = pending - 1
      /\ UNCHANGED <<phase, result, depRes, waiting, target>>
  BY DEF PendingOther, Joined
<1>3. \A u \in Vertices : Joined(u)' <=> Joined(u) \/ u = v
  BY <1>1 DEF Joined
<1>4. \A s \in Vertices : Unreported(s)' = Unreported(s)
  <2> TAKE s \in Vertices
  <2>1. Deps[s] \subseteq Vertices /\ (v \in Deps[s] => s \in Successors(v))
    BY Finite DEF Successors
  <2> QED
    BY <1>1, <1>2, <1>3, <2>1 DEF Unreported
<1>5. Unjoined' = Unjoined \ {v} /\ v \in Unjoined
  BY <1>2, <1>3 DEF Unjoined
<1>6. JoinInv'
  BY <1>2, <1>5, Finite, FS_RemoveElement DEF JoinInv
<1>7. CountInv' /\ IdleInv'
  BY <1>1, <1>2, <1>4 DEF CountInv, IdleInv
<1>8. SettledInv'
  BY <1>1, <1>2 DEF SettledInv, Unsettled
<1>9. LoopInv'
  BY <1>1, <1>2 DEF LoopInv
<1>10. SlotInv'
  <2> SUFFICES ASSUME NEW s \in Vertices, NEW d \in Deps[s]
               PROVE  depRes'[s][d] = IF Joined(d)' /\ s \notin todo'[d]
                                      THEN result'[d] ELSE Invalid
    BY DEF SlotInv
  <2>1. d \in Vertices /\ s \in Successors(d)
    BY Finite DEF Successors
  <2> QED
    BY <1>1, <1>2, <1>3, <2>1 DEF SlotInv
<1> QED
  BY <1>6, <1>7, <1>8, <1>9, <1>10

LEMMA StepPendingLast ==
  ASSUME IInv, NEW v \in Vertices, PendingLast(v)
  PROVE  Core'
<1> USE DEF IInv, Core
<1>1. \A u \in Vertices : pc'[u] = IF u = v THEN "gone" ELSE pc[u]
  BY DEF PendingLast, TypeOK
<1>2. /\ pc[v] = "finishing" /\ pending = 1 /\ pending' = 0
      /\ UNCHANGED <<phase, result, depRes, waiting, todo, target>>
  BY DEF PendingLast
<1>3. Unjoined = {v} /\ Successors(v) = {}
  BY <1>2, LastIsSink
<1>4. \A u \in Vertices : Joined(u)' <=> Joined(u) \/ u = v
  BY <1>1 DEF Joined
<1>5. \A s \in Vertices : Unreported(s)' = Unreported(s) /\ v \notin Deps[s]
  <2> TAKE s \in Vertices
  <2>1. Deps[s] \subseteq Vertices /\ v \notin Deps[s]
    BY <1>3, Finite DEF Successors
  <2> QED
    BY <1>1, <1>2, <1>4, <2>1 DEF Unreported
<1>6. Unjoined' = {}
  BY <1>3, <1>4 DEF Unjoined
<1>7. JoinInv'
  BY <1>2, <1>6, FS_EmptySet DEF JoinInv
<1>8. CountInv' /\ IdleInv'
  BY <1>1, <1>2, <1>5 DEF CountInv, IdleInv
<1>9. SettledInv' /\ LoopInv'
  BY <1>1, <1>2 DEF SettledInv, Unsettled, LoopInv, Successors
<1>10. SlotInv'
  BY <1>2, <1>4, <1>5, Finite DEF SlotInv
<1> QED
  BY <1>7, <1>8, <1>9, <1>10

LEMMA StepNotifyResult ==
  ASSUME IInv, NEW v \in Vertices, NEW s \in Vertices, NotifyResult(v, s)
  PROVE  Core'
<1> USE DEF IInv, Core
<1>1. pc[v] = "notifying" /\ s \in todo[v] /\ v \in Deps[s] /\ Joined(v)
  BY DEF NotifyResult, LoopInv, Successors, Joined
<1>2. \A u \in Vertices :
        /\ pc'[u] = IF u = v THEN "counting" ELSE pc[u]
        /\ todo'[u] = IF u = v THEN todo[v] \ {s} ELSE todo[u]
        /\ target'[u] = IF u = v THEN s ELSE target[u]
  BY DEF NotifyResult, TypeOK
<1>3. \A t, d \in Vertices :
        depRes'[t][d] = IF t = s /\ d = v THEN result[v] ELSE depRes[t][d]
  BY DEF NotifyResult, TypeOK
<1>4. UNCHANGED <<phase, result, waiting, pending>>
  BY DEF NotifyResult
<1>5. \A u \in Vertices : Joined(u)' <=> Joined(u)
  BY <1>1, <1>2 DEF Joined
<1>6. \A t \in Vertices : Unreported(t)' = Unreported(t)
  <2> TAKE t \in Vertices
  <2>1. Deps[t] \subseteq Vertices
    BY Finite
  <2> QED
    BY <1>1, <1>2, <1>5, <2>1 DEF Unreported
<1>7. Unjoined' = Unjoined
  BY <1>5 DEF Unjoined
<1>8. CountInv' /\ JoinInv' /\ IdleInv'
  BY <1>1, <1>2, <1>4, <1>6, <1>7 DEF CountInv, JoinInv, IdleInv
<1>9. SettledInv' /\ LoopInv'
  BY <1>1, <1>2, <1>4 DEF SettledInv, Unsettled, LoopInv, Successors
<1>10. SlotInv'
  <2> SUFFICES ASSUME NEW t \in Vertices, NEW d \in Deps[t]
               PROVE  depRes'[t][d] = IF Joined(d)' /\ t \notin todo'[d]
                                      THEN result'[d] ELSE Invalid
    BY DEF SlotInv
  <2>1. d \in Vertices
    BY Finite
  <2> QED
    BY <1>1, <1>2, <1>3, <1>4, <1>5, <2>1 DEF SlotInv
<1> QED
  BY <1>8, <1>9, <1>10

LEMMA StepNotifyCount ==
  ASSUME IInv, NEW v \in Vertices, NotifyCount(v)
  PROVE  Core'
<1> USE DEF IInv, Core
<1> DEFINE s == target[v]
<1>1. /\ pc[v] = "counting" /\ s \in Vertices /\ v \in Unreported(s)
      /\ pc[s] = "idle" /\ s # v /\ phase = "executing"
      /\ s \notin todo[v] /\ v \in Deps[s]
  BY TargetIdle, Counted DEF NotifyCount, LoopInv, Successors
<1>2. UNCHANGED <<phase, result, depRes, pending, todo, target>>
  BY DEF NotifyCount
<1>3. \A u \in Vertices :
        /\ waiting'[u] = IF u = s THEN waiting[s] - 1 ELSE waiting[u]
        /\ pc'[u] = IF u = v THEN "notifying"
                    ELSE IF u = s /\ waiting[s] = 1 THEN "scheduled" ELSE pc[u]
  BY <1>1 DEF NotifyCount, TypeOK
<1>4. \A u \in Vertices : Joined(u)' <=> Joined(u)
  BY <1>1, <1>3 DEF Joined
<1>5. \A u \in Vertices : Unreported(u)' = IF u = s THEN Unreported(s) \ {v}
                                           ELSE Unreported(u)
  <2> TAKE u \in Vertices
  <2>1. Deps[u] \subseteq Vertices
    BY Finite
  <2>2. \A d \in Vertices : pc'[d] = "counting" <=> pc[d] = "counting" /\ d # v
    BY <1>1, <1>3
  <2> QED
    BY <1>1, <1>2, <1>4, <2>1, <2>2, Zenon DEF Unreported, Joined
<1>6. Cardinality(Unreported(s) \ {v}) = Cardinality(Unreported(s)) - 1
  BY <1>1, Finite, FS_RemoveElement
<1>7. CountInv'
  BY <1>1, <1>3, <1>5, <1>6 DEF CountInv
<1>8. Unjoined' = Unjoined
  BY <1>4 DEF Unjoined
<1>9. waiting[s] = 1 <=> Unreported(s) \ {v} = {}
  <2>1. IsFiniteSet(Unreported(s) \ {v})
    BY <1>1, Finite, FS_RemoveElement
  <2>2. waiting[s] = Cardinality(Unreported(s)) /\ waiting[s] \in Nat
    BY <1>1 DEF CountInv, TypeOK
  <2>3. Cardinality(Unreported(s) \ {v}) = 0 <=> Unreported(s) \ {v} = {}
    BY <2>1, FS_EmptySet
  <2> HIDE DEF IInv, Core
  <2> QED
    BY <1>6, <2>2, <2>3
<1>10. JoinInv'
  BY <1>2, <1>8 DEF JoinInv
<1>11. SettledInv'
  BY <1>1, <1>2, <1>3 DEF SettledInv, Unsettled
<1>12. LoopInv'
  BY <1>1, <1>2, <1>3 DEF LoopInv
<1>13. SlotInv'
  BY <1>2, <1>4, Finite DEF SlotInv
<1>14. IdleInv'
  <2> SUFFICES ASSUME NEW u \in Vertices
               PROVE  pc'[u] = "idle" <=> Unreported(u)' # {}
    BY <1>1, <1>2 DEF IdleInv
  <2>1. pc[u] = "idle" <=> Unreported(u) # {}
    BY <1>1 DEF IdleInv
  <2> QED
    BY <1>1, <1>3, <1>5, <1>9, <2>1
<1> QED
  BY <1>7, <1>10, <1>11, <1>12, <1>13, <1>14

\* A graph none of whose vertices has run, in the pool or just started.
Fresh ==
  /\ \A v \in Vertices :
       /\ pc[v] = IF phase # "pooled" /\ v \in Start THEN "scheduled" ELSE "idle"
       /\ todo[v] = {} /\ result[v] = Invalid /\ waiting[v] = Cardinality(Deps[v])
       /\ \A d \in Deps[v] : depRes[v][d] = Invalid
  /\ pending = Cardinality(Vertices)

LEMMA FreshCore == Fresh => Core
<1> SUFFICES ASSUME Fresh PROVE Core
  OBVIOUS
<1>1. \A v \in Vertices : ~Joined(v)
  BY DEF Fresh, Joined
<1>2. \A s \in Vertices : Unreported(s) = Deps[s]
  BY <1>1, Finite DEF Unreported
<1>3. Unjoined = Vertices
  BY <1>1 DEF Unjoined
<1>4. SettledInv /\ LoopInv /\ CountInv /\ JoinInv
  BY <1>2, <1>3 DEF Fresh, SettledInv, Unsettled, LoopInv, CountInv, JoinInv
<1>5. SlotInv
  BY <1>1, Finite DEF Fresh, SlotInv
<1>6. IdleInv
  BY <1>2 DEF Fresh, IdleInv, Start
<1> QED
  BY <1>4, <1>5, <1>6 DEF Core

LEMMA FreshStep == Fresh' => Core'
  BY FreshCore, PTL

\* A pooled context is fresh.
LEMMA PooledFresh == IInv /\ phase = "pooled" => Fresh
<1> SUFFICES ASSUME IInv, phase = "pooled" PROVE Fresh
  OBVIOUS
<1> USE DEF IInv, Core
<1>1. \A v \in Vertices : pc[v] = "idle" /\ ~Joined(v)
  BY DEF IdleInv, Joined
<1>2. \A s \in Vertices : Unreported(s) = Deps[s]
  BY <1>1, Finite DEF Unreported
<1>3. Unjoined = Vertices
  BY <1>1 DEF Unjoined
<1>4. \A v \in Vertices : todo[v] = {} /\ result[v] = Invalid
  BY <1>1 DEF LoopInv, SettledInv, Unsettled
<1>5. \A v \in Vertices : \A d \in Deps[v] : depRes[v][d] = Invalid
  BY <1>1, Finite DEF SlotInv
<1> QED
  BY <1>1, <1>2, <1>3, <1>4, <1>5 DEF Fresh, CountInv, JoinInv

\* When every vertex has joined, none has anything left to notify.
LEMMA AllJoined ==
  ASSUME IInv, pending = 0
  PROVE  /\ phase = "executing"
         /\ \A v \in Vertices : todo[v] = {} /\ pc[v] \in {"notifying", "gone"}
<1> USE DEF IInv, Core
<1>1. Unjoined = {}
  BY Finite, FS_EmptySet DEF JoinInv
<1>2. \A v \in Vertices : Joined(v) /\ pc[v] # "idle"
  BY <1>1 DEF Unjoined, Joined
<1>3. phase = "executing"
  BY <1>2, GoAssumption, Counted
<1>4. \A s \in Vertices : Unreported(s) = {}
  BY <1>2, <1>3 DEF IdleInv
<1>5. ASSUME NEW v \in Vertices PROVE todo[v] = {} /\ pc[v] # "counting"
  BY <1>4 DEF LoopInv, Unreported, Successors
<1> QED
  BY <1>2, <1>3, <1>5 DEF Joined
-----------------------------------------------------------------------------
LEMMA CoreStep == IInv /\ [Next]_vars => Core'
<1> SUFFICES ASSUME IInv, [Next]_vars PROVE Core'
  OBVIOUS
<1>0. TypeOK
  BY DEF IInv
<1>1. ASSUME NEW settings, ExecuteGraph(settings) PROVE Core'
  <2>1. Fresh /\ phase' = "executing"
    BY <1>1, PooledFresh DEF ExecuteGraph
  <2>2. Fresh'
    BY <1>1, <2>1 DEF ExecuteGraph, Fresh, Start
  <2> QED
    BY <2>2, FreshStep
<1>2. CASE Return
  <2>1. pending = 0
    BY <1>2 DEF Return, IInv, GroupInv
  <2>2. Fresh'
    BY <1>2, <2>1, AllJoined, Finite DEF Return, Fresh, FreshWaiting
  <2> QED
    BY <2>2, FreshStep
<1>3. CASE ExecuteMissing \/ UNCHANGED vars
  <2>1. UNCHANGED <<phase, pc, waiting, depRes, result, pending, todo, target>>
    BY <1>3 DEF ExecuteMissing, vars
  <2>2. /\ \A s \in Vertices : Unreported(s)' = Unreported(s)
        /\ Unjoined' = Unjoined
    BY <2>1 DEF Unreported, Unjoined, Joined
  <2> QED
    BY <2>1, <2>2 DEF IInv, Core, SettledInv, LoopInv, SlotInv, CountInv, JoinInv,
                      IdleInv, Joined, Successors
<1>4. ASSUME NEW v \in Vertices, Skip(v) PROVE Core'
  <2>1. OwnMove(v, "finishing", "ERR")
    BY <1>4 DEF OwnMove, Skip, Invalid
  <2> QED
    BY <2>1, OwnStep
<1>5. ASSUME NEW v \in Vertices, Run(v) \/ SubgraphMissing(v) PROVE Core'
  <2> DEFINE q == IF pc[v] = "scheduled" THEN "running" ELSE "lost"
  <2>1. /\ pc[v] \in {"scheduled", "running"} /\ q \in {"running", "lost"}
        /\ pc' = [pc EXCEPT ![v] = q]
        /\ UNCHANGED <<phase, result, depRes, waiting, pending, todo, target>>
    BY <1>5 DEF Run, SubgraphMissing
  <2>2. result' = [result EXCEPT ![v] = Invalid]
    BY <1>0, <2>1 DEF IInv, Core, TypeOK, SettledInv, Unsettled
  <2>3. OwnMove(v, q, Invalid)
    BY <2>1, <2>2 DEF OwnMove
  <2> QED
    BY <2>3, OwnStep
<1>6. ASSUME NEW v \in Vertices, NEW r \in Results, Complete(v, r) PROVE Core'
  <2>1. OwnMove(v, "finishing", r)
    BY <1>6 DEF OwnMove, Complete, Invalid, Results
  <2> QED
    BY <2>1, OwnStep
<1>7. ASSUME NEW v \in Vertices, NotifyEnd(v) PROVE Core'
  <2>1. /\ \A u \in Vertices : pc'[u] = IF u = v THEN "gone" ELSE pc[u]
        /\ pc[v] = "notifying" /\ todo[v] = {}
        /\ UNCHANGED <<phase, waiting, depRes, result, pending, todo, target>>
    BY <1>0, <1>7 DEF NotifyEnd, TypeOK
  <2>2. \A u \in Vertices : /\ Joined(u)' <=> Joined(u)
                            /\ pc'[u] = "counting" <=> pc[u] = "counting"
    BY <2>1 DEF Joined
  <2>3. \A s \in Vertices : Unreported(s)' = Unreported(s)
    BY <2>1, <2>2, Finite DEF Unreported
  <2>4. Unjoined' = Unjoined
    BY <2>2 DEF Unjoined
  <2>5. CountInv' /\ JoinInv' /\ IdleInv'
    BY <2>1, <2>3, <2>4 DEF IInv, Core, CountInv, JoinInv, IdleInv
  <2>6. SettledInv' /\ LoopInv'
    BY <2>1 DEF IInv, Core, SettledInv, LoopInv, Unsettled, Successors
  <2>7. SlotInv'
    BY <2>1, <2>2, Finite DEF IInv, Core, SlotInv
  <2> QED
    BY <2>5, <2>6, <2>7 DEF Core
<1> QED
  BY <1>1, <1>2, <1>3, <1>4, <1>5, <1>6, <1>7, StepPendingOther, StepPendingLast,
     StepNotifyResult, StepNotifyCount DEF Next, Goroutine

LEMMA GroupStep == IInv /\ [Next]_vars => GroupInv'
<1> SUFFICES ASSUME IInv, [Next]_vars PROVE GroupInv'
  OBVIOUS
<1>0. TypeOK /\ GroupInv
  BY DEF IInv
<1>1. ASSUME NEW v \in Vertices, PendingOther(v) PROVE GroupInv'
  BY <1>1, Counted DEF PendingOther, GroupInv, Joined
<1>2. CASE Return \/ ExecuteMissing
  BY <1>0, <1>2 DEF Return, ExecuteMissing, GroupInv, TypeOK
<1>3. ASSUME NEW v \in Vertices, PendingLast(v) PROVE GroupInv'
  BY <1>3 DEF PendingLast, GroupInv
<1>4. CASE UNCHANGED <<pending, wg>>
  BY <1>0, <1>4 DEF GroupInv
<1> QED
  BY <1>1, <1>2, <1>3, <1>4
     DEF Next, Goroutine, ExecuteGraph, Skip, Run, SubgraphMissing, Complete,
         NotifyResult, NotifyCount, NotifyEnd, vars

LEMMA CallStep == IInv /\ [Next]_vars => CallInv'
<1> SUFFICES ASSUME IInv, [Next]_vars PROVE CallInv'
  OBVIOUS
<1> DEFINE Uncalled == {"idle", "scheduled"}
<1>0. TypeOK /\ CallInv
  BY DEF IInv
<1>1. ASSUME UNCHANGED <<calls, phase>>,
             \A u \in Vertices : pc'[u] \in Uncalled <=> pc[u] \in Uncalled
      PROVE  CallInv'
  BY <1>0, <1>1 DEF CallInv
<1>2. ASSUME NEW settings, ExecuteGraph(settings) PROVE CallInv'
  BY <1>2 DEF ExecuteGraph, CallInv
<1>3. CASE Return
  BY <1>3 DEF Return, CallInv
<1>4. CASE ExecuteMissing \/ UNCHANGED vars
  BY <1>1, <1>4 DEF ExecuteMissing, vars
<1>5. ASSUME NEW v \in Vertices, Skip(v) \/ Run(v) PROVE CallInv'
  <2>1. /\ pc[v] = "scheduled" /\ phase' = phase
        /\ \A u \in Vertices : /\ u # v => pc'[u] = pc[u] /\ calls'[u] = calls[u]
                               /\ pc'[v] \notin Uncalled /\ calls'[v] = calls[v] + 1
    BY <1>0, <1>5 DEF Skip, Run, TypeOK
  <2> QED
    BY <1>0, <2>1 DEF CallInv
<1>6. ASSUME NEW v \in Vertices, SubgraphMissing(v) \/ PendingOther(v)
                                   \/ PendingLast(v) \/ NotifyEnd(v)
      PROVE  CallInv'
  <2>1. \A u \in Vertices : pc'[u] \in Uncalled <=> pc[u] \in Uncalled
    BY <1>0, <1>6 DEF SubgraphMissing, PendingOther, PendingLast, NotifyEnd, TypeOK
  <2> QED
    BY <1>1, <1>6, <2>1 DEF SubgraphMissing, PendingOther, PendingLast, NotifyEnd
<1>7. ASSUME NEW v \in Vertices, NEW r, Complete(v, r) PROVE CallInv'
  <2>1. \A u \in Vertices : pc'[u] \in Uncalled <=> pc[u] \in Uncalled
    BY <1>0, <1>7 DEF Complete, TypeOK
  <2> QED
    BY <1>1, <1>7, <2>1 DEF Complete
<1>8. ASSUME NEW v \in Vertices, NEW s \in Vertices, NotifyResult(v, s) PROVE CallInv'
  <2>1. \A u \in Vertices : pc'[u] \in Uncalled <=> pc[u] \in Uncalled
    BY <1>0, <1>8 DEF NotifyResult, TypeOK
  <2> QED
    BY <1>1, <1>8, <2>1 DEF NotifyResult
<1>9. ASSUME NEW v \in Vertices, NotifyCount(v) PROVE CallInv'
  <2>1. pc[v] = "counting" /\ target[v] \in Vertices /\ pc[target[v]] = "idle"
    BY <1>9, TargetIdle DEF NotifyCount
  <2>2. \A u \in Vertices : pc'[u] \in Uncalled <=> pc[u] \in Uncalled
    BY <1>0, <1>9, <2>1 DEF NotifyCount, TypeOK
  <2> QED
    BY <1>1, <1>9, <2>2 DEF NotifyCount
<1> QED
  BY <1>2, <1>3, <1>4, <1>5, <1>6, <1>7, <1>8, <1>9 DEF Next, Goroutine
-----------------------------------------------------------------------------
LEMMA InvInit == Init => IInv
<1> SUFFICES ASSUME Init PROVE IInv
  OBVIOUS
<1>1. TypeOK
  BY Finite DEF Init, TypeOK, FreshWaiting
<1>2. Fresh
  BY Finite DEF Init, Fresh, FreshWaiting
<1>3. GroupInv /\ CallInv
  BY DEF Init, GroupInv, CallInv
<1> QED
  BY <1>1, <1>2, <1>3, FreshCore DEF IInv

LEMMA InvStep == IInv /\ [Next]_vars => IInv'
  BY TypeStep, CoreStep, GroupStep, CallStep DEF IInv

\* The invariant holds of every execution of every graph, also when calls name
\* graphs that do not exist and subgraphs are not loaded.
THEOREM GoInvariance == Spec => []IInv
  BY InvInit, InvStep, PTL DEF Spec

\* The state of the Go engine stays well typed; in particular neither the
\* WaitGroup, whose Done panics below zero, nor waitingNum nor pendingVertices
\* ever becomes negative.
THEOREM GoTypeCorrect == Spec => []TypeOK
  BY GoInvariance, PTL DEF IInv

\* When Wait of ExecuteGraph returns and the deferred recycle may reset the
\* context, every vertex was executed once and no goroutine writes to it any more.
THEOREM QuietOnReturnHolds == Spec => []QuietOnReturn
<1>1. IInv => QuietOnReturn
  <2> SUFFICES ASSUME IInv, phase = "executing", wg = 0, NEW v \in Vertices
               PROVE  calls[v] = 1 /\ todo[v] = {} /\ pc[v] \in {"notifying", "gone"}
    BY DEF QuietOnReturn
  <2>1. pending = 0
    BY DEF IInv, GroupInv
  <2>2. todo[v] = {} /\ pc[v] \in {"notifying", "gone"}
    BY <2>1, AllJoined
  <2> QED
    BY <2>2 DEF IInv, CallInv
<1> QED
  BY <1>1, GoInvariance, PTL
-----------------------------------------------------------------------------
(***************************************************************************)
(* The refinement of DagRun.                                               *)
(***************************************************************************)
Outcome == IF phase = "pooled" THEN "idle"
           ELSE IF pending = 0 THEN "done" ELSE "executing"
Statuses == [v \in Vertices |-> Status(v)]

LEMMA StatusIs ==
  ASSUME NEW v \in Vertices
  PROVE  /\ Status(v) = IF pc[v] \in {"idle", "scheduled"} THEN "waiting"
                        ELSE IF pc[v] \in {"running", "lost"} THEN "running"
                        ELSE result[v]
         /\ Status(v)' = IF pc'[v] \in {"idle", "scheduled"} THEN "waiting"
                         ELSE IF pc'[v] \in {"running", "lost"} THEN "running"
                         ELSE result'[v]
  BY DEF Status

LEMMA EndedIs ==
  ASSUME IInv, NEW v \in Vertices, pc[v] \notin Unsettled
  PROVE  Status(v) = result[v] /\ Status(v) \notin {"waiting", "running"}
  BY StatusIs DEF IInv, TypeOK, Results, Invalid, Unsettled

\* A vertex whose goroutine has just been started may be decided, by the
\* statuses of its dependencies.
LEMMA IsDecidable ==
  ASSUME IInv, NEW v \in Vertices, pc[v] = "scheduled"
  PROVE  /\ Dag!Decidable(v)
         /\ \A d \in Deps[v] : d \in Vertices /\ Status(d) = depRes[v][d]
<1>1. phase = "executing" /\ pending # 0
  BY Counted DEF Joined
<1>2. ASSUME NEW d \in Deps[v]
      PROVE  /\ d \in Vertices /\ Status(d) = depRes[v][d]
             /\ Status(d) \notin {"waiting", "running"}
  <2>1. d \in Vertices /\ Joined(d) /\ depRes[v][d] = result[d]
    BY DepsReported
  <2> QED
    BY <2>1, EndedIs DEF Joined, Unsettled
<1>3. Status(v) = "waiting"
  BY StatusIs
<1> QED
  BY <1>1, <1>2, <1>3 DEF Dag!Decidable, Dag!Ended

\* A step that only moves v gives it one new status and keeps the outcome.
LEMMA OneStatus ==
  ASSUME IInv, NEW v \in Vertices, NEW q, NEW x, OwnMove(v, q, x)
  PROVE  /\ Statuses' = [Statuses EXCEPT ![v] = IF q = "finishing" THEN x
                                                ELSE "running"]
         /\ Outcome' = Outcome
<1>1. /\ pc'[v] = q /\ result'[v] = x
      /\ \A u \in Vertices \ {v} : pc'[u] = pc[u] /\ result'[u] = result[u]
  BY DEF OwnMove, IInv, TypeOK
<1>2. Status(v)' = IF q = "finishing" THEN x ELSE "running"
  BY <1>1, StatusIs DEF OwnMove
<1>3. \A u \in Vertices \ {v} : Status(u)' = Status(u)
  BY <1>1, StatusIs
<1> QED
  BY <1>2, <1>3 DEF Statuses, Outcome, OwnMove

\* A step that leaves every status alone.
LEMMA SameStatus ==
  ASSUME result' = result,
         \A u \in Vertices :
           \/ pc'[u] = pc[u]
           \/ pc[u] \in {"idle", "scheduled"} /\ pc'[u] \in {"idle", "scheduled"}
           \/ pc[u] \in {"running", "lost"} /\ pc'[u] \in {"running", "lost"}
           \/ pc[u] \notin Unsettled /\ pc'[u] \notin Unsettled
  PROVE  Statuses' = Statuses
<1>1. \A u \in Vertices : Status(u)' = Status(u)
  BY StatusIs DEF Unsettled
<1> QED
  BY <1>1 DEF Statuses

LEMMA RefineStep == IInv /\ [Next]_vars => [Dag!DagNext]_(Dag!dagVars)
<1> SUFFICES ASSUME IInv, [Next]_vars PROVE [Dag!DagNext]_(Dag!dagVars)
  OBVIOUS
<1>0. TypeOK
  BY DEF IInv
<1>1. ASSUME Statuses' = Statuses, Outcome' = Outcome
      PROVE  [Dag!DagNext]_(Dag!dagVars)
  BY <1>1 DEF Statuses, Outcome, Dag!dagVars
<1>2. ASSUME NEW settings, ExecuteGraph(settings) PROVE Dag!DagNext
  <2>1. Fresh /\ phase = "pooled" /\ phase' = "executing"
    BY <1>2, PooledFresh DEF ExecuteGraph
  <2>2. pending # 0 /\ pending' # 0
    BY <1>2, <2>1, GoAssumption, FS_EmptySet DEF Fresh, ExecuteGraph
  <2>3. Statuses' = Statuses
    <3>1. /\ result' = result
          /\ \A u \in Vertices : pc[u] = "idle" /\ pc'[u] \in {"idle", "scheduled"}
      BY <1>2, <2>1 DEF ExecuteGraph, Fresh
    <3> QED
      BY <3>1, SameStatus
  <2> QED
    BY <2>1, <2>2, <2>3 DEF Statuses, Dag!Begin, Dag!DagNext
<1>3. CASE Return
  <2>1. phase = "executing" /\ pending = 0 /\ phase' = "pooled"
    BY <1>3 DEF Return, IInv, GroupInv
  <2>2. \A u \in Vertices : Status(u)' = "waiting"
    BY <1>3, StatusIs DEF Return
  <2> QED
    BY <2>1, <2>2 DEF Dag!Recycle, Dag!DagNext
<1>4. CASE ExecuteMissing \/ UNCHANGED vars
  <2>1. UNCHANGED <<pc, result, phase, pending>>
    BY <1>4 DEF ExecuteMissing, vars
  <2> QED
    BY <1>1, <2>1, SameStatus DEF Outcome
<1>5. ASSUME NEW v \in Vertices, Skip(v) PROVE Dag!DagNext
  <2>1. OwnMove(v, "finishing", "ERR") /\ pc[v] = "scheduled"
    BY <1>5 DEF OwnMove, Skip, Invalid
  <2>2. Dag!PassVertex(v)
    BY <2>1, OneStatus, IsDecidable DEF Dag!PassVertex, Statuses, Outcome
  <2> QED
    BY <2>2 DEF Dag!DagNext
<1>6. ASSUME NEW v \in Vertices, Run(v) PROVE Dag!DagNext
  <2>1. pc[v] = "scheduled" /\ DepsMatch(v) /\ result[v] = Invalid
    BY <1>6 DEF Run, IInv, Core, SettledInv, Unsettled
  <2>2. OwnMove(v, "running", Invalid)
    BY <1>0, <1>6, <2>1 DEF OwnMove, Run, TypeOK
  <2>3. \A d \in Deps[v] : d \in Vertices /\ Status(d) \in Expected[v][d]
    BY <2>1, IsDecidable DEF DepsMatch
  <2>4. Dag!RunVertex(v)
    BY <2>1, <2>2, <2>3, OneStatus, IsDecidable DEF Dag!RunVertex, Statuses, Outcome
  <2> QED
    BY <2>4 DEF Dag!DagNext
<1>7. ASSUME NEW v \in Vertices, NEW r \in Results, Complete(v, r) PROVE Dag!DagNext
  <2>1. OwnMove(v, "finishing", r) /\ pc[v] = "running" /\ r \in {"OK", "ERR"}
    BY <1>7 DEF OwnMove, Complete, Invalid, Results
  <2>2. Dag!EndVertex(v)
    BY <2>1, OneStatus, StatusIs DEF Dag!EndVertex, Statuses, Outcome
  <2> QED
    BY <2>2 DEF Dag!DagNext
<1>8. ASSUME NEW v \in Vertices, PendingLast(v) PROVE Dag!DagNext
  <2>1. /\ pc[v] = "finishing" /\ pending = 1 /\ pending' = 0
        /\ UNCHANGED <<phase, result>>
        /\ \A u \in Vertices : pc'[u] = IF u = v THEN "gone" ELSE pc[u]
    BY <1>0, <1>8 DEF PendingLast, TypeOK
  <2>2. phase = "executing" /\ Unjoined = {v}
    BY <2>1, Counted, LastIsSink
  <2>3. \A u \in Vertices : pc[u] \notin Unsettled
    BY <2>1, <2>2 DEF Unjoined, Joined, Unsettled
  <2>4. Dag!AllEnded
    BY <2>1, <2>2, <2>3, EndedIs DEF Dag!AllEnded, Dag!Ended
  <2>5. Statuses' = Statuses
    BY <2>1, <2>3, SameStatus DEF Unsettled
  <2> QED
    BY <2>1, <2>2, <2>4, <2>5 DEF Statuses, Dag!Finish, Dag!DagNext
<1>9. ASSUME NEW v \in Vertices, PendingOther(v) PROVE [Dag!DagNext]_(Dag!dagVars)
  <2>1. pc[v] = "finishing" /\ pending \in Nat \ {0, 1} /\ phase = "executing"
    BY <1>0, <1>9, Counted DEF PendingOther, Joined, TypeOK
  <2>2. Outcome' = Outcome
    BY <1>9, <2>1 DEF PendingOther, Outcome
  <2>3. Statuses' = Statuses
    <3>1. \A u \in Vertices : pc'[u] = IF u = v THEN "notifying" ELSE pc[u]
      BY <1>0, <1>9 DEF PendingOther, TypeOK
    <3> QED
      BY <1>9, <2>1, <3>1, SameStatus DEF PendingOther, Unsettled
  <2> QED
    BY <1>1, <2>2, <2>3
<1>10. ASSUME NEW v \in Vertices,
              \/ SubgraphMissing(v) \/ NotifyCount(v) \/ NotifyEnd(v)
              \/ \E s \in Vertices : NotifyResult(v, s)
       PROVE  [Dag!DagNext]_(Dag!dagVars)
  <2>1. UNCHANGED <<phase, result, pending>>
    BY <1>10 DEF SubgraphMissing, NotifyCount, NotifyEnd, NotifyResult
  <2>2. CASE SubgraphMissing(v)
    <3>1. /\ pc[v] = "running"
          /\ \A u \in Vertices : pc'[u] = IF u = v THEN "lost" ELSE pc[u]
      BY <1>0, <2>2 DEF SubgraphMissing, TypeOK
    <3> QED
      BY <1>1, <2>1, <3>1, SameStatus DEF Outcome
  <2>3. CASE NotifyEnd(v)
    <3>1. /\ pc[v] = "notifying"
          /\ \A u \in Vertices : pc'[u] = IF u = v THEN "gone" ELSE pc[u]
      BY <1>0, <2>3 DEF NotifyEnd, TypeOK
    <3> QED
      BY <1>1, <2>1, <3>1, SameStatus DEF Outcome, Unsettled
  <2>4. ASSUME NEW s \in Vertices, NotifyResult(v, s)
        PROVE  [Dag!DagNext]_(Dag!dagVars)
    <3>1. /\ pc[v] = "notifying"
          /\ \A u \in Vertices : pc'[u] = IF u = v THEN "counting" ELSE pc[u]
      BY <1>0, <2>4 DEF NotifyResult, TypeOK
    <3> QED
      BY <1>1, <2>1, <3>1, SameStatus DEF Outcome, Unsettled
  <2>5. CASE NotifyCount(v)
    <3>1. pc[v] = "counting" /\ target[v] \in Vertices /\ pc[target[v]] = "idle"
      BY <2>5, TargetIdle DEF NotifyCount
    <3>2. \A u \in Vertices :
            \/ pc'[u] = pc[u]
            \/ u = v /\ pc'[u] = "notifying"
            \/ u = target[v] /\ pc'[u] = "scheduled"
      BY <1>0, <2>5, <3>1 DEF NotifyCount, TypeOK
    <3> QED
      BY <1>1, <2>1, <3>1, <3>2, SameStatus DEF Outcome, Unsettled
  <2> QED
    BY <1>10, <2>2, <2>3, <2>4, <2>5
<1> QED
  BY <1>2, <1>3, <1>4, <1>5, <1>6, <1>7, <1>8, <1>9, <1>10 DEF Next, Goroutine

\* The Go engine executes every graph as DagRun says, whatever calls name and
\* whatever subgraphs are missing: a vertex is decided once its dependencies
\* have ended, runs only if they ended as it expects, and pendingVertices
\* reaches zero when all have ended.
THEOREM GoImplementsDagHolds == Spec => ImplementsDag
<1>1. Init => Dag!DagInit
  <2> SUFFICES ASSUME Init PROVE Dag!DagInit
    OBVIOUS
  <2>1. \A v \in Vertices : Status(v) = "waiting"
    BY StatusIs DEF Init
  <2> QED
    BY <2>1 DEF Init, Dag!DagInit
<1> QED
  BY <1>1, RefineStep, GoInvariance, PTL DEF Spec, ImplementsDag, Dag!DagSpec
=============================================================================
