-------------------------- MODULE GraphStore_proofs --------------------------
(***************************************************************************)
(* Ownership in the graph store, for every number of calls, reloads, data  *)
(* contexts and pooled contexts.                                           *)
(*                                                                         *)
(* The properties are not inductive: that a context is not given out twice *)
(* rests on where every context ever created is (PlaceInv), that it goes   *)
(* back once rests on the release closure being held by exactly one data   *)
(* context until it is called (ReleaseInv), and that the destructor waits  *)
(* for all of them rests on what running_graphs_ counts (CountInv) and on  *)
(* what a caller that keeps its data context holds back (DoneInv).         *)
(***************************************************************************)
EXTENDS GraphStore, FiniteSetTheorems, TLAPS

Begun == {e \in Execs : ctx[e] # 0}
Unreleased == {e \in Execs : ctx[e] # 0 /\ reset[e] # "counted"}

\* A context is owned from its creation on, by a handle loaded so far; it has
\* a running cluster exactly while an execution holds it, and otherwise is in
\* its owner's pool or deleted. A handle with a pool is held by somebody.
PlaceInv ==
  /\ \A c \in Contexts : owner[c] # 0 <=> c <= born
  /\ store # "destroyed" => \A c \in Contexts : owner[c] <= loaded
  /\ \A h \in Handles : \A c \in pool[h] :
       owner[c] = h /\ cluster[c] = 0 /\ c \notin freed
  /\ \A c \in freed : owner[c] # 0 /\ cluster[c] = 0
  /\ \A c \in Contexts : owner[c] # 0 =>
       c \in freed \/ cluster[c] # 0 \/ c \in pool[owner[c]]
  /\ \A h \in Handles : pool[h] # {} => HandleHeld(h, loaded, kept, cluster)
HoldInv ==
  /\ \A e \in Execs : Holds(e) =>
       cluster[ctx[e]] = owner[ctx[e]] /\ owner[ctx[e]] # 0
  /\ \A c \in Contexts : cluster[c] # 0 => \E e \in Execs : Holds(e) /\ ctx[e] = c
  /\ \A e, f \in Execs : Holds(e) /\ Holds(f) /\ ctx[e] = ctx[f] => e = f

\* The course of a call.
CallInv ==
  \A e \in Execs :
    /\ frame[e] = "new" <=> graph[e] = "none"
    /\ frame[e] = "new" => ctx[e] = 0
    /\ ctx[e] = 0 => /\ reset[e] = "no" /\ frame[e] # "executing"
                     /\ graph[e] \in {"none", "left"}
    /\ closure[e] <=> graph[e] \in {"running", "resetData"}

\* A context that has not been posted for its reset is that of the release
\* closure of its data context, which is held as long as the closure is there.
ReleaseInv ==
  /\ \A d \in DataCtxs : release[d] # NoExec =>
       /\ DataOf[release[d]] = d /\ ctx[release[d]] # 0
       /\ reset[release[d]] = "no"
       /\ DataHeld(d, frame, closure, user)
  /\ \A e \in Execs : ctx[e] # 0 /\ reset[e] = "no" => release[DataOf[e]] = e
  /\ \A e \in Execs : frame[e] = "executing" \/ closure[e] => reset[e] = "no"
  /\ \A e \in Execs \ Missing :
       release[DataOf[e]] = e => child[DataOf[e]] = ctx[e]

CountInv ==
  /\ running = Cardinality(Unreleased)
  /\ store # "destroyed" => born <= loaded * PoolSize + Cardinality(Begun)

\* Nothing is posted for reset between the end of a graph and the caller's
\* done, as long as the caller keeps the data context.
DoneInv ==
  \A e \in Execs : graph[e] = "callDone" /\ user[DataOf[e]] => reset[e] = "no"

DestroyInv == store = "destroyed" => loaded = 0 /\ running = 0

IInv == /\ TypeOK /\ PlaceInv /\ HoldInv /\ CallInv /\ ReleaseInv /\ CountInv
        /\ DoneInv /\ DestroyInv
-----------------------------------------------------------------------------
LEMMA Sizes ==
  /\ Cardinality(Execs) \in Nat /\ MaxLoads * PoolSize \in Nat
  /\ IsFiniteSet(Begun) /\ Cardinality(Begun) \in Nat
  /\ IsFiniteSet(Unreleased) /\ Cardinality(Unreleased) \in Nat
  /\ Cardinality(Unreleased) <= Cardinality(Execs)
<1>1. Begun \subseteq Execs /\ Unreleased \subseteq Execs
  BY DEF Begun, Unreleased
<1> QED
  BY <1>1, StoreAssumption, FS_CardinalityType, FS_Subset

LEMMA Multiples ==
  ASSUME NEW l \in Nat
  PROVE  /\ l * PoolSize \in Nat
         /\ (l + 1) * PoolSize = l * PoolSize + PoolSize
         /\ l <= MaxLoads => l * PoolSize <= MaxLoads * PoolSize
<1>1. (l + 1) * PoolSize = l * PoolSize + PoolSize /\ l * PoolSize \in Nat
  BY StoreAssumption
<1>2. ASSUME l <= MaxLoads PROVE l * PoolSize <= MaxLoads * PoolSize
  <2>1. PICK k \in Nat : MaxLoads = l + k
    <3>1. MaxLoads - l \in Nat /\ MaxLoads = l + (MaxLoads - l)
      BY <1>2, StoreAssumption
    <3> QED
      BY <3>1
  <2>2. MaxLoads * PoolSize = l * PoolSize + k * PoolSize /\ k * PoolSize \in Nat
    BY <2>1, StoreAssumption
  <2> QED
    BY <1>1, <2>2
<1> QED
  BY <1>1, <1>2

\* There are numbers left for the contexts that Load and GetContext create.
LEMMA Room ==
  ASSUME IInv, store = "open"
  PROVE  /\ loaded < MaxLoads =>
              /\ (born + 1)..(born + PoolSize) \subseteq Contexts
              /\ born + PoolSize \in Contexts \cup {0}
         /\ \A e \in Execs : frame[e] = "new" => born + 1 \in Contexts
<1>0. /\ loaded \in Nat /\ loaded <= MaxLoads /\ born \in Nat
      /\ born <= loaded * PoolSize + Cardinality(Begun)
      /\ PoolSize \in Nat /\ MaxLoads \in Nat
  BY StoreAssumption DEF IInv, TypeOK, CountInv, Handles, Contexts
<1>1. Cardinality(Begun) <= Cardinality(Execs)
  BY StoreAssumption, FS_Subset DEF Begun
<1>2. ASSUME loaded < MaxLoads
      PROVE  born + PoolSize <= MaxLoads * PoolSize + Cardinality(Execs)
  <2>1. (loaded + 1) * PoolSize <= MaxLoads * PoolSize
    BY <1>0, <1>2, Multiples
  <2>2. loaded * PoolSize + PoolSize <= MaxLoads * PoolSize
    BY <1>0, <2>1, Multiples
  <2>3. loaded * PoolSize \in Nat
    BY <1>0, Multiples
  <2> QED
    BY <1>0, <1>1, <2>2, <2>3, Sizes
<1>3. ASSUME NEW e \in Execs, frame[e] = "new"
      PROVE  born + 1 <= MaxLoads * PoolSize + Cardinality(Execs)
  <2>1. Begun \subseteq Execs \ {e}
    BY <1>3 DEF IInv, CallInv, Begun
  <2>2. /\ IsFiniteSet(Execs \ {e})
        /\ Cardinality(Execs \ {e}) = Cardinality(Execs) - 1
    BY StoreAssumption, FS_RemoveElement
  <2>3. Cardinality(Begun) <= Cardinality(Execs) - 1
    BY <2>1, <2>2, FS_Subset
  <2>4. loaded * PoolSize <= MaxLoads * PoolSize /\ loaded * PoolSize \in Nat
    BY <1>0, Multiples
  <2> QED
    BY <1>0, <2>3, <2>4, Sizes
<1>4. ASSUME loaded < MaxLoads
      PROVE  /\ (born + 1)..(born + PoolSize) \subseteq Contexts
             /\ born + PoolSize \in Contexts \cup {0}
  BY <1>0, <1>2, <1>4, Sizes DEF Contexts
<1>5. ASSUME NEW e \in Execs, frame[e] = "new" PROVE born + 1 \in Contexts
  BY <1>0, <1>3, <1>5, Sizes DEF Contexts
<1> QED
  BY <1>4, <1>5

\* What the shared pointers' counts reaching zero does to the pools.
LEMMA DropStep ==
  ASSUME NEW pools \in [Handles -> SUBSET Contexts], freed \subseteq Contexts,
         NEW current, NEW ks, NEW rc, Drop(current, ks, rc, pools)
  PROVE  /\ pool' \in [Handles -> SUBSET Contexts] /\ freed' \subseteq Contexts
         /\ \A h \in Handles :
              pool'[h] = IF HandleHeld(h, current, ks, rc) THEN pools[h] ELSE {}
         /\ \A c \in freed : c \in freed'
         /\ \A c \in freed' : c \in freed \/ \E h \in Handles :
              c \in pools[h] /\ ~HandleHeld(h, current, ks, rc)
         /\ \A h \in Handles : \A c \in pools[h] :
              ~HandleHeld(h, current, ks, rc) => c \in freed'
<1> DEFINE Held(h) == HandleHeld(h, current, ks, rc)
           dead == {h \in Handles : ~Held(h)}
<1>1. /\ pool' = [h \in Handles |-> IF h \in dead THEN {} ELSE pools[h]]
      /\ freed' = freed \cup UNION {pools[h] : h \in dead}
  BY DEF Drop
<1> HIDE DEF Held
<1>2. \A h \in Handles : pool'[h] = IF Held(h) THEN pools[h] ELSE {}
  BY <1>1
<1>3. \A c : c \in UNION {pools[h] : h \in dead} <=>
        \E h \in Handles : c \in pools[h] /\ ~Held(h)
  OBVIOUS
<1>4. freed' \subseteq Contexts
  BY <1>1, <1>3
<1>5. pool' \in [Handles -> SUBSET Contexts]
  BY <1>1
<1> QED
  BY <1>1, <1>2, <1>3, <1>4, <1>5 DEF Held

\* What dropping a reference of d does, seen from the calls and data contexts.
LEMMA UnrefStep ==
  ASSUME IInv, NEW d \in DataCtxs, NEW fr, NEW cl, NEW us,
         Unreferenced(d, fr, cl, us)
  PROVE  /\ \A e \in Execs :
              reset'[e] = IF release[d] = e /\ ~DataHeld(d, fr, cl, us)
                          THEN "posted" ELSE reset[e]
         /\ \A x \in DataCtxs :
              release'[x] = IF x = d /\ ~DataHeld(d, fr, cl, us)
                            THEN NoExec ELSE release[x]
         /\ reset' \in [Execs -> {"no", "posted", "released", "counted"}]
         /\ release' \in [DataCtxs -> Execs \cup {NoExec}]
<1> DEFINE Held == DataHeld(d, fr, cl, us)
<1>1. /\ reset' = IF release[d] # NoExec /\ ~Held
                  THEN [reset EXCEPT ![release[d]] = "posted"] ELSE reset
      /\ release' = IF Held THEN release ELSE [release EXCEPT ![d] = NoExec]
  BY DEF Unreferenced
<1> HIDE DEF Held
<1>2. TypeOK
  BY DEF IInv
<1>3. /\ \A e \in Execs : reset'[e] = IF release[d] = e /\ ~Held
                                      THEN "posted" ELSE reset[e]
      /\ reset' \in [Execs -> {"no", "posted", "released", "counted"}]
  BY <1>1, <1>2, StoreAssumption DEF TypeOK
<1>4. /\ \A x \in DataCtxs : release'[x] = IF x = d /\ ~Held THEN NoExec
                                           ELSE release[x]
      /\ release' \in [DataCtxs -> Execs \cup {NoExec}]
  BY <1>1, <1>2 DEF TypeOK
<1> QED
  BY <1>3, <1>4 DEF Held
-----------------------------------------------------------------------------
\* The calls of release_func that a step adds keep every context where it is.
LEMMA KeepPlace ==
  ASSUME IInv, UNCHANGED <<contexts, loaded, ctx>>,
         store' = "destroyed" \/ store # "destroyed",
         \A e \in Execs : Holds(e)' <=> Holds(e)
  PROVE  PlaceInv' /\ HoldInv'
<1>1. PlaceInv'
  BY DEF IInv, PlaceInv, HandleHeld, contexts
<1>2. HoldInv'
  BY DEF IInv, HoldInv, contexts
<1> QED
  BY <1>1, <1>2

\* GetContext: the context was in the pool of the loaded handle, or is new.
LEMMA GetContextStep ==
  ASSUME IInv, store = "open", loaded # 0, NEW e \in Execs, frame[e] = "new",
         GetContext(e)
  PROVE  \E c \in Contexts :
           /\ cluster[c] = 0 /\ c \notin freed
           /\ \A h \in Handles \ {loaded} : c \notin pool[h]
           /\ c \in pool[loaded] \/ owner[c] = 0
           /\ ctx' = [ctx EXCEPT ![e] = c]
           /\ cluster' = [cluster EXCEPT ![c] = loaded]
           /\ pool' = [pool EXCEPT ![loaded] = @ \ {c}]
           /\ owner' = [owner EXCEPT ![c] = loaded]
           /\ freed' = freed
           /\ IF c \in pool[loaded] THEN born' = born
                                    ELSE born' = born + 1 /\ c = born'
<1>0. TypeOK /\ PlaceInv /\ HoldInv /\ loaded \in Handles
  BY DEF IInv, TypeOK
<1>1. CASE pool[loaded] # {}
  <2>1. PICK c \in pool[loaded] :
               /\ pool' = [pool EXCEPT ![loaded] = @ \ {c}]
               /\ ctx' = [ctx EXCEPT ![e] = c]
               /\ cluster' = [cluster EXCEPT ![c] = loaded]
               /\ UNCHANGED <<born, owner, freed>>
    BY <1>1 DEF GetContext
  <2>2. c \in Contexts /\ owner[c] = loaded /\ cluster[c] = 0 /\ c \notin freed
    BY <1>0 DEF TypeOK, PlaceInv
  <2>3. owner' = [owner EXCEPT ![c] = loaded]
    BY <1>0, <2>1, <2>2 DEF TypeOK
  <2>4. \A h \in Handles \ {loaded} : c \notin pool[h]
    BY <1>0, <2>2 DEF PlaceInv
  <2> QED
    BY <2>1, <2>2, <2>3, <2>4
<1>2. CASE pool[loaded] = {}
  <2> DEFINE c == born + 1
  <2>1. /\ born' = born + 1
        /\ owner' = [owner EXCEPT ![c] = loaded]
        /\ ctx' = [ctx EXCEPT ![e] = c]
        /\ cluster' = [cluster EXCEPT ![c] = loaded]
        /\ UNCHANGED <<pool, freed>>
    BY <1>2 DEF GetContext
  <2>2. c \in Contexts
    BY Room
  <2>3. owner[c] = 0
    BY <1>0, <2>2 DEF PlaceInv, TypeOK, Contexts
  <2>4. cluster[c] = 0 /\ c \notin freed /\ \A h \in Handles : c \notin pool[h]
    <3>1. cluster[c] = 0
      BY <1>0, <2>2, <2>3 DEF HoldInv
    <3> QED
      BY <1>0, <2>3, <3>1 DEF PlaceInv, Handles
  <2>5. pool' = [pool EXCEPT ![loaded] = @ \ {c}]
    BY <1>0, <1>2, <2>1 DEF TypeOK
  <2> HIDE DEF c
  <2>6. c = born'
    BY <2>1 DEF c
  <2> QED
    BY <1>2, <2>1, <2>2, <2>3, <2>4, <2>5, <2>6
<1> QED
  BY <1>1, <1>2

\* SetReleaseClosure, seen from the calls and data contexts.
LEMMA SetReleaseStep ==
  ASSUME IInv, NEW e \in Execs, frame[e] = "new", SetReleaseClosure(e)
  PROVE  /\ \A f \in Execs : reset'[f] = IF release[DataOf[e]] = f
                                         THEN "posted" ELSE reset[f]
         /\ \A x \in DataCtxs : release'[x] = IF x = DataOf[e] THEN e ELSE release[x]
         /\ reset' \in [Execs -> {"no", "posted", "released", "counted"}]
         /\ release' \in [DataCtxs -> Execs \cup {NoExec}]
         /\ release[DataOf[e]] # e /\ reset[e] = "no" /\ ctx[e] = 0
<1>1. TypeOK /\ CallInv /\ ReleaseInv /\ DataOf[e] \in DataCtxs
  BY StoreAssumption DEF IInv
<1>2. ctx[e] = 0 /\ reset[e] = "no"
  BY <1>1 DEF CallInv
<1>3. release[DataOf[e]] # e
  BY <1>1, <1>2, StoreAssumption DEF ReleaseInv
<1>4. /\ reset' = IF release[DataOf[e]] # NoExec
                  THEN [reset EXCEPT ![release[DataOf[e]]] = "posted"] ELSE reset
      /\ release' = [release EXCEPT ![DataOf[e]] = e]
  BY DEF SetReleaseClosure
<1> QED
  BY <1>1, <1>2, <1>3, <1>4, StoreAssumption DEF TypeOK
-----------------------------------------------------------------------------
LEMMA TypeStep == IInv /\ [Next]_vars => TypeOK'
<1> SUFFICES ASSUME IInv, [Next]_vars PROVE TypeOK'
  OBVIOUS
<1>0. TypeOK /\ Cardinality(Execs) \in Nat
  BY Sizes DEF IInv
<1>1. CASE Load
  <2>0. loaded + 1 \in Handles /\ loaded \in Nat
    BY <1>0, <1>1, StoreAssumption DEF Load, TypeOK, Handles
  <2> DEFINE new == (born + 1)..(born + PoolSize)
             pools == [pool EXCEPT ![loaded + 1] = new]
  <2>1. new \subseteq Contexts /\ born' \in Contexts \cup {0}
    BY <1>1, Room DEF Load
  <2>2. owner' \in [Contexts -> Handles \cup {0}]
    BY <1>0, <1>1, <2>0 DEF Load, TypeOK
  <2>3. Drop(loaded + 1, kept', cluster, pools)
    BY <1>1 DEF Load
  <2>4. pools \in [Handles -> SUBSET Contexts]
    BY <1>0, <2>1 DEF TypeOK
  <2> HIDE DEF pools, new
  <2>5. pool' \in [Handles -> SUBSET Contexts] /\ freed' \subseteq Contexts
    BY <1>0, <2>3, <2>4, DropStep DEF TypeOK
  <2> QED
    BY <1>0, <1>1, <2>0, <2>1, <2>2, <2>5 DEF Load, TypeOK
<1>2. ASSUME NEW e \in Execs, ExecuteFails(e) PROVE TypeOK'
  BY <1>0, <1>2 DEF ExecuteFails, TypeOK, contexts
<1>3. ASSUME NEW e \in Execs, Execute(e) PROVE TypeOK'
  <2>0. /\ store = "open" /\ loaded # 0 /\ frame[e] = "new" /\ GetContext(e)
        /\ SetReleaseClosure(e) /\ running' = running + 1
    BY <1>3 DEF Execute
  <2>1. PICK c \in Contexts :
           /\ ctx' = [ctx EXCEPT ![e] = c]
           /\ cluster' = [cluster EXCEPT ![c] = loaded]
           /\ pool' = [pool EXCEPT ![loaded] = @ \ {c}]
           /\ owner' = [owner EXCEPT ![c] = loaded]
           /\ freed' = freed
           /\ born' = born \/ born' = c
    BY <2>0, GetContextStep
  <2>2. /\ ctx' \in [Execs -> Contexts \cup {0}]
        /\ cluster' \in [Contexts -> Handles \cup {0}]
        /\ owner' \in [Contexts -> Handles \cup {0}]
        /\ freed' \subseteq Contexts /\ born' \in Contexts \cup {0}
    BY <1>0, <2>0, <2>1 DEF TypeOK
  <2>3. pool' \in [Handles -> SUBSET Contexts]
    BY <1>0, <2>1 DEF TypeOK
  <2>4. /\ reset' \in [Execs -> {"no", "posted", "released", "counted"}]
        /\ release' \in [DataCtxs -> Execs \cup {NoExec}]
    BY <2>0, SetReleaseStep
  <2>5. running' \in 0..Cardinality(Execs)
    <3>1. Unreleased \subseteq Execs \ {e}
      BY <2>0 DEF IInv, CallInv, Unreleased
    <3>2. /\ IsFiniteSet(Execs \ {e})
          /\ Cardinality(Execs \ {e}) = Cardinality(Execs) - 1
      BY StoreAssumption, FS_RemoveElement
    <3>3. running <= Cardinality(Execs) - 1
      BY <3>1, <3>2, FS_Subset DEF IInv, CountInv
    <3> QED
      BY <1>0, <2>0, <3>3 DEF TypeOK
  <2>6. /\ frame' \in [Execs -> {"new", "executing", "returned"}]
        /\ graph' \in [Execs -> {"none", "running", "resetData", "callDone",
                                 "resetParams", "left"}]
    BY <1>0, <1>3 DEF Execute, TypeOK
  <2>7. child' \in [DataCtxs -> Contexts \cup {0}]
    BY <1>0, <1>3, <2>2 DEF Execute, TypeOK
  <2>8. closure' \in [Execs -> BOOLEAN] /\ UNCHANGED <<store, loaded, kept, user>>
    BY <1>0, <1>3 DEF Execute, TypeOK
  <2> QED
    BY <1>0, <2>2, <2>3, <2>4, <2>5, <2>6, <2>7, <2>8 DEF TypeOK
<1>4. ASSUME NEW e \in Execs, GraphDone(e) \/ CallDone(e) \/ ResetParams(e)
      PROVE  TypeOK'
  BY <1>0, <1>4 DEF GraphDone, CallDone, ResetParams, TypeOK, contexts
<1>5. ASSUME NEW e \in Execs, ResetData(e) PROVE TypeOK'
  <2>1. DataOf[e] \in DataCtxs /\ Unreferenced(DataOf[e], frame, closure', user)
    BY <1>5, StoreAssumption DEF ResetData
  <2>2. /\ reset' \in [Execs -> {"no", "posted", "released", "counted"}]
        /\ release' \in [DataCtxs -> Execs \cup {NoExec}]
    BY <2>1, UnrefStep
  <2> QED
    BY <1>0, <1>5, <2>2 DEF ResetData, TypeOK, contexts
<1>6. ASSUME NEW e \in Execs, ExecuteReturns(e) PROVE TypeOK'
  <2>1. DataOf[e] \in DataCtxs /\ Unreferenced(DataOf[e], frame', closure, user)
    BY <1>6, StoreAssumption DEF ExecuteReturns
  <2>2. /\ reset' \in [Execs -> {"no", "posted", "released", "counted"}]
        /\ release' \in [DataCtxs -> Execs \cup {NoExec}]
    BY <2>1, UnrefStep
  <2>3. child' \in [DataCtxs -> Contexts \cup {0}]
    BY <1>0, <1>6 DEF ExecuteReturns, TypeOK
  <2> QED
    BY <1>0, <1>6, <2>2, <2>3 DEF ExecuteReturns, TypeOK, contexts
<1>7. ASSUME NEW d \in DataCtxs, UserDrops(d) PROVE TypeOK'
  <2>1. Unreferenced(d, frame, closure, user')
    BY <1>7 DEF UserDrops
  <2>2. /\ reset' \in [Execs -> {"no", "posted", "released", "counted"}]
        /\ release' \in [DataCtxs -> Execs \cup {NoExec}]
    BY <2>1, UnrefStep
  <2> QED
    BY <1>0, <1>7, <2>2 DEF UserDrops, TypeOK, contexts
<1>8. ASSUME NEW e \in Execs, Release(e) PROVE TypeOK'
  <2> DEFINE h == cluster[ctx[e]]
             pools == [pool EXCEPT ![h] = @ \cup {ctx[e]}]
  <2>1. ctx[e] \in Contexts
    BY <1>0, <1>8 DEF Release, TypeOK, IInv, CallInv
  <2>2. pools \in [Handles -> SUBSET Contexts]
    BY <1>0, <2>1 DEF TypeOK
  <2>3. Drop(loaded, kept, cluster', pools)
    BY <1>8 DEF Release
  <2> HIDE DEF pools
  <2>4. pool' \in [Handles -> SUBSET Contexts] /\ freed' \subseteq Contexts
    BY <1>0, <2>2, <2>3, DropStep DEF TypeOK
  <2>5. /\ cluster' \in [Contexts -> Handles \cup {0}]
        /\ reset' \in [Execs -> {"no", "posted", "released", "counted"}]
    BY <1>0, <1>8 DEF Release, TypeOK
  <2> QED
    BY <1>0, <1>8, <2>4, <2>5 DEF Release, TypeOK
<1>9. ASSUME NEW e \in Execs, Count(e) PROVE TypeOK'
  <2>1. e \in Unreleased
    BY <1>9 DEF Count, IInv, CallInv, Unreleased
  <2>2. running # 0
    BY <2>1, Sizes, FS_EmptySet DEF IInv, CountInv
  <2>3. running' \in 0..Cardinality(Execs)
    BY <1>0, <1>9, <2>2 DEF Count, TypeOK
  <2> QED
    BY <1>0, <1>9, <2>3 DEF Count, TypeOK, contexts
<1>10. CASE BeginDestroy
  BY <1>0, <1>10 DEF BeginDestroy, TypeOK, contexts
<1>11. CASE EndDestroy
  <2>1. pool' \in [Handles -> SUBSET Contexts] /\ freed' \subseteq Contexts
    BY <1>0, <1>11, DropStep DEF EndDestroy, TypeOK
  <2> QED
    BY <1>0, <1>11, <2>1 DEF EndDestroy, TypeOK
<1>12. CASE UNCHANGED vars
  BY <1>0, <1>12 DEF vars, TypeOK
<1>13. CASE FindGraphClusterByName
  BY <1>0, <1>13 DEF FindGraphClusterByName, TypeOK
<1>14. ASSUME NEW h \in Handles, DropHandle(h) PROVE TypeOK'
  <2>1. pool' \in [Handles -> SUBSET Contexts] /\ freed' \subseteq Contexts
    BY <1>0, <1>14, DropStep DEF DropHandle, TypeOK
  <2> QED
    BY <1>0, <1>14, <2>1 DEF DropHandle, TypeOK
<1> QED
  BY <1>1, <1>2, <1>3, <1>4, <1>5, <1>6, <1>7, <1>8, <1>9, <1>10, <1>11, <1>12,
     <1>13, <1>14
     DEF Next, Proceed
-----------------------------------------------------------------------------
\* Where the contexts are: the steps that move them.
LEMMA PlaceLoad == IInv /\ Load => PlaceInv' /\ HoldInv'
<1> SUFFICES ASSUME IInv, Load PROVE PlaceInv' /\ HoldInv'
  OBVIOUS
<1> DEFINE new == (born + 1)..(born + PoolSize)
           pools == [pool EXCEPT ![loaded + 1] = new]
           Held(h) == HandleHeld(h, loaded + 1, kept', cluster)
<1>0. TypeOK /\ PlaceInv /\ HoldInv
  BY DEF IInv
<1>1. /\ store = "open" /\ loaded \in Nat /\ loaded + 1 \in Handles
      /\ store' = store /\ loaded' = loaded + 1 /\ cluster' = cluster
      /\ born \in Nat /\ PoolSize \in Nat /\ born' = born + PoolSize
      /\ \A e \in Execs : Holds(e)' <=> Holds(e)
      /\ ctx' = ctx
  BY <1>0, StoreAssumption DEF Load, TypeOK, Handles, Contexts, Holds
<1>2. new \subseteq Contexts
  BY <1>1, Room DEF Load
<1>3. /\ owner \in [Contexts -> Handles \cup {0}]
      /\ \A c \in Contexts : owner'[c] = IF c \in new THEN loaded + 1 ELSE owner[c]
      /\ \A c \in Contexts : /\ c \in new <=> c > born /\ c <= born'
                             /\ owner[c] <= loaded /\ (c \in new => owner[c] = 0)
      /\ \A c \in Contexts : owner[c] # 0 <=> c <= born
  BY <1>0, <1>1 DEF Load, TypeOK, PlaceInv, Contexts
<1>4. \A c \in new : cluster[c] = 0 /\ c \notin freed
  <2>1. \A c \in new : cluster[c] = 0
    BY <1>0, <1>2, <1>3 DEF HoldInv
  <2> QED
    BY <1>0, <1>2, <1>3, <2>1 DEF PlaceInv
<1>5. pool[loaded + 1] = {}
  <2>1. \A c \in pool[loaded + 1] : c \in Contexts /\ owner[c] = loaded + 1
    BY <1>0, <1>1 DEF PlaceInv, TypeOK
  <2> QED
    BY <1>1, <1>3, <2>1
<1>6. /\ pools \in [Handles -> SUBSET Contexts]
      /\ Drop(loaded + 1, kept', cluster, pools)
      /\ \A h \in Handles : pools[h] = IF h = loaded + 1 THEN new ELSE pool[h]
  BY <1>0, <1>1, <1>2 DEF Load, TypeOK
<1> HIDE DEF pools, new
<1>7. \A h \in Handles : \A c \in pools[h] :
        c \in Contexts /\ owner'[c] = h /\ cluster[c] = 0 /\ c \notin freed
  <2> SUFFICES ASSUME NEW h \in Handles, NEW c \in pools[h]
               PROVE  c \in Contexts /\ owner'[c] = h /\ cluster[c] = 0 /\ c \notin freed
    OBVIOUS
  <2>1. CASE h = loaded + 1
    BY <1>2, <1>3, <1>4, <1>6, <2>1
  <2>2. CASE h # loaded + 1
    <3>1. c \in Contexts /\ owner[c] = h /\ cluster[c] = 0 /\ c \notin freed
      BY <1>0, <1>6, <2>2 DEF PlaceInv, TypeOK
    <3>2. owner[c] # 0
      BY <1>1, <3>1 DEF Handles
    <3> QED
      BY <1>3, <3>1, <3>2
  <2> QED
    BY <2>1, <2>2
<1>8. /\ \A h \in Handles : pool'[h] = IF Held(h) THEN pools[h] ELSE {}
      /\ \A c \in freed : c \in freed'
      /\ \A c \in freed' : c \in freed \/ \E h \in Handles : c \in pools[h] /\ ~Held(h)
      /\ \A h \in Handles : \A c \in pools[h] : ~Held(h) => c \in freed'
  BY <1>0, <1>6, DropStep DEF TypeOK
<1>9. \A h \in Handles : Held(h) <=> HandleHeld(h, loaded, kept, cluster)'
  BY <1>1 DEF HandleHeld
<1> HIDE DEF Held
<1>10. \A c \in Contexts : /\ owner'[c] # 0 <=> c <= born'
                           /\ owner'[c] <= loaded'
                           /\ owner[c] # 0 => owner'[c] = owner[c]
  <2> SUFFICES ASSUME NEW c \in Contexts
               PROVE  /\ owner'[c] # 0 <=> c <= born'
                      /\ owner'[c] <= loaded'
                      /\ owner[c] # 0 => owner'[c] = owner[c]
    OBVIOUS
  <2>1. c \in Nat /\ owner[c] \in Nat
    BY <1>3, Sizes, StoreAssumption DEF Contexts, Handles
  <2> QED
    BY <1>1, <1>3, <2>1
<1>11. \A h \in Handles : \A c \in pool'[h] :
         owner'[c] = h /\ cluster'[c] = 0 /\ c \notin freed'
  <2> SUFFICES ASSUME NEW h \in Handles, NEW c \in pool'[h]
               PROVE  owner'[c] = h /\ cluster'[c] = 0 /\ c \notin freed'
    OBVIOUS
  <2>1. Held(h) /\ c \in pools[h]
    BY <1>8
  <2>2. \A k \in Handles : c \in pools[k] => k = h
    BY <1>7, <2>1
  <2> QED
    BY <1>1, <1>7, <1>8, <2>1, <2>2
<1>12. \A c \in freed' : owner'[c] # 0 /\ cluster'[c] = 0
  <2> SUFFICES ASSUME NEW c \in freed' PROVE owner'[c] # 0 /\ cluster'[c] = 0
    OBVIOUS
  <2>1. CASE c \in freed
    BY <1>0, <1>1, <1>10, <2>1 DEF PlaceInv, TypeOK
  <2>2. CASE c \notin freed
    BY <1>1, <1>7, <1>8, <2>2 DEF Handles
  <2> QED
    BY <2>1, <2>2
<1>13. \A c \in Contexts : owner'[c] # 0 =>
         c \in freed' \/ cluster'[c] # 0 \/ c \in pool'[owner'[c]]
  <2> SUFFICES ASSUME NEW c \in Contexts, owner'[c] # 0
               PROVE  c \in freed' \/ cluster'[c] # 0 \/ c \in pool'[owner'[c]]
    OBVIOUS
  <2>1. c \in freed \/ cluster[c] # 0
        \/ \E h \in Handles : h = owner'[c] /\ c \in pools[h]
    <3>1. CASE c \in new
      BY <1>1, <1>3, <1>6, <3>1
    <3>2. CASE c \notin new
      <4>1. owner[c] \in Handles /\ owner'[c] = owner[c] /\ owner[c] # loaded + 1
        BY <1>1, <1>3, <3>2
      <4> QED
        BY <1>0, <1>1, <1>6, <4>1 DEF PlaceInv, Handles
    <3> QED
      BY <3>1, <3>2
  <2> QED
    BY <1>1, <1>8, <2>1
<1>14. PlaceInv'
  BY <1>8, <1>9, <1>10, <1>11, <1>12, <1>13 DEF PlaceInv
<1>15. HoldInv'
  <2>1. \A e \in Execs : Holds(e) => ctx[e] \in Contexts
    BY <1>0 DEF Holds, TypeOK
  <2> QED
    BY <1>0, <1>1, <1>10, <2>1 DEF HoldInv
<1> QED
  BY <1>14, <1>15

LEMMA PlaceExecute ==
  ASSUME IInv, NEW e \in Execs, Execute(e)
  PROVE  PlaceInv' /\ HoldInv'
<1>0. TypeOK /\ PlaceInv /\ HoldInv /\ ReleaseInv
  BY DEF IInv
<1>1. /\ store = "open" /\ loaded \in Handles /\ loaded # 0 /\ frame[e] = "new"
      /\ GetContext(e) /\ SetReleaseClosure(e) /\ UNCHANGED <<store, loaded, kept>>
  BY <1>0 DEF Execute, TypeOK
<1>2. PICK c \in Contexts :
        /\ cluster[c] = 0 /\ c \notin freed
        /\ \A h \in Handles \ {loaded} : c \notin pool[h]
        /\ c \in pool[loaded] \/ owner[c] = 0
        /\ ctx' = [ctx EXCEPT ![e] = c]
        /\ cluster' = [cluster EXCEPT ![c] = loaded]
        /\ pool' = [pool EXCEPT ![loaded] = @ \ {c}]
        /\ owner' = [owner EXCEPT ![c] = loaded]
        /\ freed' = freed
        /\ IF c \in pool[loaded] THEN born' = born
                                 ELSE born' = born + 1 /\ c = born'
  BY <1>1, GetContextStep
<1>3. \A x \in Contexts : /\ cluster'[x] = IF x = c THEN loaded ELSE cluster[x]
                          /\ owner'[x] = IF x = c THEN loaded ELSE owner[x]
                          /\ owner[x] # 0 => owner'[x] = owner[x]
  BY <1>0, <1>1, <1>2 DEF TypeOK, PlaceInv
<1>4. \A h \in Handles : pool'[h] = pool[h] \ {c}
  BY <1>0, <1>1, <1>2 DEF TypeOK
<1>5. ASSUME NEW h \in Handles, HandleHeld(h, loaded, kept, cluster)
      PROVE  HandleHeld(h, loaded, kept, cluster)'
  BY <1>1, <1>2, <1>3, <1>5 DEF HandleHeld, Handles
<1>6. \A x \in Contexts : owner'[x] # 0 <=> x <= born'
  <2>1. CASE c \in pool[loaded]
    BY <1>0, <1>1, <1>2, <1>3, <2>1 DEF PlaceInv, Handles
  <2>2. CASE c \notin pool[loaded]
    BY <1>0, <1>1, <1>2, <1>3, <2>2, Sizes DEF PlaceInv, TypeOK, Contexts
  <2> QED
    BY <2>1, <2>2
<1>7. PlaceInv'
  <2>1. \A x \in Contexts : owner'[x] <= loaded'
    BY <1>0, <1>1, <1>3 DEF PlaceInv, Handles
  <2>2. \A h \in Handles : \A x \in pool'[h] :
          owner'[x] = h /\ cluster'[x] = 0 /\ x \notin freed'
    <3> SUFFICES ASSUME NEW h \in Handles, NEW x \in pool'[h]
                 PROVE  owner'[x] = h /\ cluster'[x] = 0 /\ x \notin freed'
      OBVIOUS
    <3>1. x \in pool[h] /\ x # c /\ x \in Contexts
      BY <1>0, <1>4 DEF TypeOK
    <3> QED
      BY <1>0, <1>2, <1>3, <3>1 DEF PlaceInv
  <2>3. \A x \in freed' : owner'[x] # 0 /\ cluster'[x] = 0
    <3>1. \A x \in freed : x \in Contexts /\ x # c
      BY <1>0, <1>2 DEF TypeOK
    <3> QED
      BY <1>0, <1>2, <1>3, <3>1 DEF PlaceInv
  <2>4. \A x \in Contexts : owner'[x] # 0 =>
          x \in freed' \/ cluster'[x] # 0 \/ x \in pool'[owner'[x]]
    <3> SUFFICES ASSUME NEW x \in Contexts, owner'[x] # 0, x # c
                 PROVE  x \in freed' \/ cluster'[x] # 0 \/ x \in pool'[owner'[x]]
      BY <1>1, <1>3
    <3>1. owner'[x] = owner[x] /\ cluster'[x] = cluster[x] /\ owner[x] \in Handles
      BY <1>0, <1>3 DEF TypeOK
    <3> QED
      BY <1>0, <1>2, <1>4, <3>1 DEF PlaceInv
  <2>5. \A h \in Handles : pool'[h] # {} => HandleHeld(h, loaded, kept, cluster)'
    BY <1>0, <1>4, <1>5 DEF PlaceInv
  <2> QED
    BY <1>6, <2>1, <2>2, <2>3, <2>4, <2>5 DEF PlaceInv
<1>8. /\ reset'[e] = "no" /\ ctx'[e] = c /\ c # 0 /\ Holds(e)' /\ ~Holds(e)
      /\ \A f \in Execs \ {e} : ctx'[f] = ctx[f] /\ (Holds(f)' <=> Holds(f))
  <2>1. /\ \A f \in Execs : reset'[f] = IF release[DataOf[e]] = f
                                        THEN "posted" ELSE reset[f]
        /\ release[DataOf[e]] # e /\ reset[e] = "no" /\ ctx[e] = 0
    BY <1>1, SetReleaseStep
  <2>2. \A f \in Execs : release[DataOf[e]] = f => reset[f] = "no"
    BY <1>0, StoreAssumption DEF ReleaseInv
  <2>3. \A f \in Execs : ctx'[f] = IF f = e THEN c ELSE ctx[f]
    BY <1>0, <1>2 DEF TypeOK
  <2>4. c # 0
    BY Sizes DEF Contexts
  <2> QED
    BY <2>1, <2>2, <2>3, <2>4 DEF Holds
<1>9. \A f \in Execs \ {e} : Holds(f) => ctx[f] \in Contexts /\ ctx[f] # c
  BY <1>0, <1>2 DEF HoldInv, TypeOK, Holds
<1>10. HoldInv'
  <2>1. \A f \in Execs : Holds(f)' =>
          cluster'[ctx'[f]] = owner'[ctx'[f]] /\ owner'[ctx'[f]] # 0
    BY <1>0, <1>1, <1>3, <1>8, <1>9 DEF HoldInv
  <2>2. \A x \in Contexts : cluster'[x] # 0 =>
          \E f \in Execs : Holds(f)' /\ ctx'[f] = x
    BY <1>0, <1>3, <1>8 DEF HoldInv
  <2>3. \A f, g \in Execs : Holds(f)' /\ Holds(g)' /\ ctx'[f] = ctx'[g] => f = g
    BY <1>0, <1>8, <1>9 DEF HoldInv
  <2> QED
    BY <2>1, <2>2, <2>3 DEF HoldInv
<1> QED
  BY <1>7, <1>10

LEMMA PlaceRelease ==
  ASSUME IInv, NEW e \in Execs, Release(e)
  PROVE  PlaceInv' /\ HoldInv'
<1> DEFINE c == ctx[e]
           k == cluster[c]
           pools == [pool EXCEPT ![k] = @ \cup {c}]
           Held(h) == HandleHeld(h, loaded, kept, cluster')
<1>0. TypeOK /\ PlaceInv /\ HoldInv /\ CallInv
  BY DEF IInv
<1>1. c \in Contexts /\ Holds(e) /\ k = owner[c] /\ k \in Handles
  <2>1. c \in Contexts /\ Holds(e)
    BY <1>0 DEF Release, CallInv, TypeOK, Holds
  <2> QED
    BY <1>0, <2>1 DEF HoldInv, TypeOK
<1>2. /\ UNCHANGED <<store, loaded, kept, born, owner, ctx>>
      /\ Drop(loaded, kept, cluster', pools)
      /\ \A x \in Contexts : cluster'[x] = IF x = c THEN 0 ELSE cluster[x]
      /\ \A f \in Execs : reset'[f] = IF f = e THEN "released" ELSE reset[f]
  BY <1>0 DEF Release, TypeOK
<1>3. /\ pools \in [Handles -> SUBSET Contexts]
      /\ \A h \in Handles : pools[h] = IF h = k THEN pool[h] \cup {c} ELSE pool[h]
  BY <1>0, <1>1 DEF TypeOK
<1>4. c \notin freed /\ k # 0
  <2>1. k # 0
    BY <1>1, StoreAssumption DEF Handles
  <2> QED
    BY <1>0, <1>1, <2>1 DEF PlaceInv
<1> HIDE DEF c, k, pools
<1>5. \A h \in Handles : \A x \in pools[h] :
        x \in Contexts /\ owner[x] = h /\ cluster'[x] = 0 /\ x \notin freed
  BY <1>0, <1>1, <1>2, <1>3, <1>4 DEF PlaceInv, TypeOK
<1>6. /\ \A h \in Handles : pool'[h] = IF Held(h) THEN pools[h] ELSE {}
      /\ \A x \in freed : x \in freed'
      /\ \A x \in freed' : x \in freed \/ \E h \in Handles : x \in pools[h] /\ ~Held(h)
      /\ \A h \in Handles : \A x \in pools[h] : ~Held(h) => x \in freed'
  BY <1>0, <1>2, <1>3, DropStep DEF TypeOK
<1>7. \A h \in Handles : Held(h) <=> HandleHeld(h, loaded, kept, cluster)'
  BY <1>2 DEF HandleHeld
<1> HIDE DEF Held
<1>8. PlaceInv'
  <2>1. \A h \in Handles : \A x \in pool'[h] :
          owner'[x] = h /\ cluster'[x] = 0 /\ x \notin freed'
    <3> SUFFICES ASSUME NEW h \in Handles, NEW x \in pool'[h]
                 PROVE  owner'[x] = h /\ cluster'[x] = 0 /\ x \notin freed'
      OBVIOUS
    <3>1. Held(h) /\ x \in pools[h]
      BY <1>6
    <3>2. \A j \in Handles : x \in pools[j] => j = h
      BY <1>5, <3>1
    <3> QED
      BY <1>2, <1>5, <1>6, <3>1, <3>2
  <2>2. \A x \in freed' : owner'[x] # 0 /\ cluster'[x] = 0
    <3> SUFFICES ASSUME NEW x \in freed' PROVE owner'[x] # 0 /\ cluster'[x] = 0
      OBVIOUS
    <3>1. CASE x \in freed
      BY <1>0, <1>2, <3>1 DEF PlaceInv, TypeOK
    <3>2. CASE x \notin freed
      BY <1>2, <1>5, <1>6, <3>2 DEF Handles
    <3> QED
      BY <3>1, <3>2
  <2>3. \A x \in Contexts : owner'[x] # 0 =>
          x \in freed' \/ cluster'[x] # 0 \/ x \in pool'[owner'[x]]
    <3> SUFFICES ASSUME NEW x \in Contexts, owner[x] # 0
                 PROVE  x \in freed' \/ cluster'[x] # 0 \/ x \in pool'[owner[x]]
      BY <1>2
    <3>1. owner[x] \in Handles
      BY <1>0 DEF TypeOK
    <3>2. x \in freed \/ cluster'[x] # 0 \/ x \in pools[owner[x]]
      BY <1>0, <1>1, <1>2, <1>3, <3>1 DEF PlaceInv
    <3> QED
      BY <1>6, <3>1, <3>2
  <2>4. \A h \in Handles : pool'[h] # {} => HandleHeld(h, loaded, kept, cluster)'
    BY <1>6, <1>7
  <2> QED
    BY <1>0, <1>2, <2>1, <2>2, <2>3, <2>4 DEF PlaceInv
<1>9. \A f \in Execs : Holds(f)' <=> Holds(f) /\ f # e
  BY <1>0, <1>2 DEF Holds, TypeOK
<1>10. \A f \in Execs : Holds(f) /\ f # e => ctx[f] \in Contexts /\ ctx[f] # c
  BY <1>0, <1>1 DEF HoldInv, Holds, TypeOK, c
<1>11. HoldInv'
  <2>1. \A f \in Execs : Holds(f)' =>
          cluster'[ctx'[f]] = owner'[ctx'[f]] /\ owner'[ctx'[f]] # 0
    BY <1>0, <1>2, <1>9, <1>10 DEF HoldInv
  <2>2. \A x \in Contexts : cluster'[x] # 0 =>
          \E f \in Execs : Holds(f)' /\ ctx'[f] = x
    BY <1>0, <1>2, <1>9 DEF HoldInv, c
  <2>3. \A f, g \in Execs : Holds(f)' /\ Holds(g)' /\ ctx'[f] = ctx'[g] => f = g
    BY <1>0, <1>2, <1>9 DEF HoldInv
  <2> QED
    BY <2>1, <2>2, <2>3 DEF HoldInv
<1> QED
  BY <1>8, <1>11

\* A handle is let go of, by a caller or by the map of the store: the contexts
\* stay with their owners, and the pools of handles nobody holds are deleted.
LEMMA PlaceDrop ==
  ASSUME IInv, Drop(loaded', kept', cluster, pool),
         UNCHANGED <<born, owner, cluster, ctx, reset>>,
         store' = "destroyed" \/ store # "destroyed",
         store' # "destroyed" => loaded' = loaded
  PROVE  PlaceInv' /\ HoldInv'
<1> DEFINE Held(h) == HandleHeld(h, loaded', kept', cluster)
<1>0. TypeOK /\ PlaceInv /\ HoldInv
  BY DEF IInv
<1>1. /\ \A h \in Handles : pool'[h] = IF Held(h) THEN pool[h] ELSE {}
      /\ \A c \in freed : c \in freed'
      /\ \A c \in freed' : c \in freed \/ \E h \in Handles : c \in pool[h] /\ ~Held(h)
      /\ \A h \in Handles : \A c \in pool[h] : ~Held(h) => c \in freed'
  BY <1>0, DropStep DEF TypeOK
<1>2. \A h \in Handles : Held(h) <=> HandleHeld(h, loaded, kept, cluster)'
  BY DEF HandleHeld
<1> HIDE DEF Held
<1>3. \A h \in Handles : \A c \in pool'[h] :
        owner'[c] = h /\ cluster'[c] = 0 /\ c \notin freed'
  <2> SUFFICES ASSUME NEW h \in Handles, NEW c \in pool'[h]
               PROVE  owner'[c] = h /\ cluster'[c] = 0 /\ c \notin freed'
    OBVIOUS
  <2>1. Held(h) /\ c \in pool[h]
    BY <1>1
  <2>2. \A k \in Handles : c \in pool[k] => k = h
    BY <1>0, <2>1 DEF PlaceInv
  <2> QED
    BY <1>0, <1>1, <2>1, <2>2 DEF PlaceInv
<1>4. \A c \in freed' : owner'[c] # 0 /\ cluster'[c] = 0
  BY <1>0, <1>1, StoreAssumption DEF PlaceInv, Handles
<1>5. \A c \in Contexts : owner'[c] # 0 =>
        c \in freed' \/ cluster'[c] # 0 \/ c \in pool'[owner'[c]]
  BY <1>0, <1>1 DEF PlaceInv, TypeOK
<1>6. \A h \in Handles : pool'[h] # {} => HandleHeld(h, loaded, kept, cluster)'
  BY <1>1, <1>2
<1>7. PlaceInv'
  BY <1>0, <1>3, <1>4, <1>5, <1>6 DEF PlaceInv
<1>8. HoldInv'
  BY <1>0 DEF HoldInv, Holds
<1> QED
  BY <1>7, <1>8

\* The contexts no execution holds, once the map of the store is gone.
LEMMA LeftContexts ==
  ASSUME TypeOK, PlaceInv, loaded = 0, \A c \in Contexts : cluster[c] = 0
  PROVE  \A c \in 1..born : c \in freed \/ \E h \in kept : c \in pool[h]
<1> SUFFICES ASSUME NEW c \in 1..born, c \notin freed
             PROVE  \E h \in kept : c \in pool[h]
  OBVIOUS
<1>1. c \in Contexts /\ c <= born
  BY Sizes DEF TypeOK, Contexts
<1>2. owner[c] \in Handles /\ c \in pool[owner[c]]
  BY <1>1 DEF TypeOK, PlaceInv
<1>3. HandleHeld(owner[c], loaded, kept, cluster)
  BY <1>2 DEF PlaceInv
<1> QED
  BY <1>2, <1>3, StoreAssumption DEF HandleHeld, Handles

\* A reset that is posted is that of a context held before and after.
LEMMA UnrefHolds ==
  ASSUME IInv, NEW d \in DataCtxs, NEW fr, NEW cl, NEW us,
         Unreferenced(d, fr, cl, us), ctx' = ctx
  PROVE  /\ \A e \in Execs : Holds(e)' <=> Holds(e)
         /\ \A e \in Execs : reset'[e] # reset[e] => reset[e] = "no"
<1>1. \A e \in Execs : reset'[e] # reset[e] => reset[e] = "no" /\ reset'[e] = "posted"
  BY UnrefStep, StoreAssumption DEF IInv, ReleaseInv
<1> QED
  BY <1>1 DEF Holds

LEMMA PlaceStep == IInv /\ [Next]_vars => PlaceInv' /\ HoldInv'
<1> SUFFICES ASSUME IInv, [Next]_vars PROVE PlaceInv' /\ HoldInv'
  OBVIOUS
<1>0. \A e \in Execs : DataOf[e] \in DataCtxs
  BY StoreAssumption
<1>1. ASSUME NEW e \in Execs,
             ExecuteFails(e) \/ GraphDone(e) \/ CallDone(e) \/ ResetParams(e)
      PROVE  PlaceInv' /\ HoldInv'
  <2>1. UNCHANGED <<contexts, loaded, ctx, store, reset>>
    BY <1>1 DEF ExecuteFails, GraphDone, CallDone, ResetParams
  <2>2. \A f \in Execs : Holds(f)' <=> Holds(f)
    BY <2>1 DEF Holds
  <2> QED
    BY <2>1, <2>2, KeepPlace
<1>2. ASSUME NEW e \in Execs, ResetData(e) \/ ExecuteReturns(e)
      PROVE  PlaceInv' /\ HoldInv'
  <2>1. UNCHANGED <<contexts, loaded, ctx, store>>
    BY <1>2 DEF ResetData, ExecuteReturns
  <2>2. \A f \in Execs : Holds(f)' <=> Holds(f)
    BY <1>0, <1>2, <2>1, UnrefHolds DEF ResetData, ExecuteReturns
  <2> QED
    BY <2>1, <2>2, KeepPlace
<1>3. ASSUME NEW d \in DataCtxs, UserDrops(d) PROVE PlaceInv' /\ HoldInv'
  <2>1. UNCHANGED <<contexts, loaded, ctx, store>>
    BY <1>3 DEF UserDrops
  <2>2. \A f \in Execs : Holds(f)' <=> Holds(f)
    BY <1>3, <2>1, UnrefHolds DEF UserDrops
  <2> QED
    BY <2>1, <2>2, KeepPlace
<1>4. ASSUME NEW e \in Execs, Count(e) PROVE PlaceInv' /\ HoldInv'
  <2>1. UNCHANGED <<contexts, loaded, ctx, store>>
    BY <1>4 DEF Count
  <2>2. \A f \in Execs : Holds(f)' <=> Holds(f)
    BY <1>4, <2>1 DEF Count, Holds, IInv, TypeOK
  <2> QED
    BY <2>1, <2>2, KeepPlace
<1>5. CASE BeginDestroy \/ UNCHANGED vars
  <2>1. UNCHANGED <<contexts, loaded, ctx, reset>>
        /\ (store' = "destroyed" \/ store # "destroyed")
    BY <1>5 DEF BeginDestroy, vars, contexts
  <2>2. \A f \in Execs : Holds(f)' <=> Holds(f)
    BY <2>1 DEF Holds
  <2> QED
    BY <2>1, <2>2, KeepPlace
<1>6. CASE FindGraphClusterByName
  <2>1. /\ UNCHANGED <<pool, born, owner, cluster, freed, loaded, ctx, store, reset>>
        /\ kept \subseteq kept'
    BY <1>6 DEF FindGraphClusterByName
  <2>2. \A h : HandleHeld(h, loaded, kept, cluster) =>
               HandleHeld(h, loaded, kept, cluster)'
    BY <2>1 DEF HandleHeld
  <2> QED
    BY <2>1, <2>2 DEF IInv, PlaceInv, HoldInv, Holds
<1>7. CASE EndDestroy \/ \E h \in Handles : DropHandle(h)
  BY <1>7, PlaceDrop DEF EndDestroy, DropHandle
<1> QED
  BY <1>1, <1>2, <1>3, <1>4, <1>5, <1>6, <1>7, PlaceLoad, PlaceExecute, PlaceRelease
     DEF Next, Proceed
-----------------------------------------------------------------------------
LEMMA CallStep == IInv /\ [Next]_vars => CallInv'
<1> SUFFICES ASSUME IInv, [Next]_vars PROVE CallInv'
  OBVIOUS
<1>0. TypeOK /\ CallInv /\ \A e \in Execs : DataOf[e] \in DataCtxs
  BY StoreAssumption DEF IInv
<1>1. ASSUME UNCHANGED <<frame, graph, ctx, closure>>,
             \A e \in Execs : reset'[e] = "no" \/ ctx[e] # 0
      PROVE  CallInv'
  BY <1>0, <1>1 DEF CallInv
<1>2. ASSUME NEW d \in DataCtxs, NEW fr, NEW cl, NEW us, Unreferenced(d, fr, cl, us)
      PROVE  \A e \in Execs : reset'[e] = "no" \/ ctx[e] # 0
  BY <1>0, <1>2, UnrefStep, StoreAssumption DEF IInv, ReleaseInv, CallInv
<1>3. CASE Load \/ FindGraphClusterByName \/ BeginDestroy \/ EndDestroy
           \/ UNCHANGED vars \/ \E h \in Handles : DropHandle(h)
  BY <1>0, <1>1, <1>3 DEF Load, FindGraphClusterByName, DropHandle, BeginDestroy,
                          EndDestroy, vars, CallInv
<1>4. ASSUME NEW d \in DataCtxs, UserDrops(d) PROVE CallInv'
  BY <1>1, <1>2, <1>4 DEF UserDrops
<1>5. ASSUME NEW e \in Execs, Release(e) \/ Count(e) PROVE CallInv'
  <2>1. \A f \in Execs : reset'[f] = "no" \/ ctx[f] # 0
    BY <1>0, <1>5 DEF Release, Count, CallInv, TypeOK
  <2> QED
    BY <1>1, <1>5, <2>1 DEF Release, Count
<1>6. ASSUME NEW e \in Execs, ExecuteFails(e) PROVE CallInv'
  <2>1. \A f \in Execs :
          /\ frame'[f] = IF f = e THEN "returned" ELSE frame[f]
          /\ graph'[f] = IF f = e THEN "left" ELSE graph[f]
    BY <1>0, <1>6 DEF ExecuteFails, TypeOK
  <2>2. frame[e] = "new" /\ UNCHANGED <<ctx, closure, reset>>
    BY <1>6 DEF ExecuteFails
  <2> QED
    BY <1>0, <2>1, <2>2 DEF CallInv
<1>7. ASSUME NEW e \in Execs, Execute(e) PROVE CallInv'
  <2>1. /\ store = "open" /\ loaded # 0 /\ frame[e] = "new" /\ GetContext(e)
        /\ SetReleaseClosure(e)
    BY <1>7 DEF Execute
  <2>2. PICK c \in Contexts : ctx' = [ctx EXCEPT ![e] = c]
    BY <2>1, GetContextStep
  <2>3. c # 0
    BY Sizes DEF Contexts
  <2>4. \A f \in Execs :
          /\ frame'[f] = IF f = e THEN "executing" ELSE frame[f]
          /\ f # e => graph'[f] = graph[f] /\ closure'[f] = closure[f]
          /\ graph'[e] \in {"running", "resetData"} /\ closure'[e] = TRUE
          /\ ctx'[f] = IF f = e THEN c ELSE ctx[f]
    BY <1>0, <1>7, <2>2 DEF Execute, TypeOK
  <2>5. \A f \in Execs : ctx[f] = 0 => reset'[f] = reset[f]
    BY <2>1, SetReleaseStep, StoreAssumption DEF IInv, ReleaseInv
  <2> QED
    BY <1>0, <2>3, <2>4, <2>5 DEF CallInv
<1>8. ASSUME NEW e \in Execs, GraphDone(e) \/ CallDone(e) \/ ResetParams(e)
      PROVE  CallInv'
  <2>1. \A f \in Execs : /\ f # e => graph'[f] = graph[f]
                         /\ graph[e] \in {"running", "callDone", "resetParams"}
                         /\ graph'[e] = IF graph[e] = "running" THEN "resetData"
                                        ELSE IF graph[e] = "callDone"
                                        THEN "resetParams" ELSE "left"
    BY <1>0, <1>8 DEF GraphDone, CallDone, ResetParams, TypeOK
  <2>2. UNCHANGED <<frame, ctx, closure, reset>>
    BY <1>8 DEF GraphDone, CallDone, ResetParams
  <2> QED
    BY <1>0, <2>1, <2>2 DEF CallInv
<1>9. ASSUME NEW e \in Execs, ResetData(e) PROVE CallInv'
  <2>1. /\ graph[e] = "resetData" /\ UNCHANGED <<frame, ctx>>
        /\ \A f \in Execs : /\ graph'[f] = IF f = e THEN "callDone" ELSE graph[f]
                            /\ closure'[f] = IF f = e THEN FALSE ELSE closure[f]
    BY <1>0, <1>9 DEF ResetData, TypeOK
  <2>2. \A f \in Execs : reset'[f] = "no" \/ ctx[f] # 0
    BY <1>0, <1>2, <1>9 DEF ResetData
  <2> QED
    BY <1>0, <2>1, <2>2 DEF CallInv
<1>10. ASSUME NEW e \in Execs, ExecuteReturns(e) PROVE CallInv'
  <2>1. /\ frame[e] = "executing" /\ UNCHANGED <<graph, closure, ctx>>
        /\ \A f \in Execs : frame'[f] = IF f = e THEN "returned" ELSE frame[f]
    BY <1>0, <1>10 DEF ExecuteReturns, TypeOK
  <2>2. \A f \in Execs : reset'[f] = "no" \/ ctx[f] # 0
    BY <1>0, <1>2, <1>10 DEF ExecuteReturns
  <2> QED
    BY <1>0, <2>1, <2>2 DEF CallInv
<1> QED
  BY <1>3, <1>4, <1>5, <1>6, <1>7, <1>8, <1>9, <1>10 DEF Next, Proceed
-----------------------------------------------------------------------------
\* A reference to d is dropped: the closure is called if it was the last.
LEMMA UnrefRelease ==
  ASSUME IInv, NEW d \in DataCtxs, Unreferenced(d, frame', closure', user'),
         ctx' = ctx,
         \A x \in DataCtxs \ {d} :
           DataHeld(x, frame, closure, user) => DataHeld(x, frame, closure, user)',
         \A e \in Execs : frame'[e] = "executing" \/ closure'[e] =>
                          frame[e] = "executing" \/ closure[e],
         \A e \in Execs \ Missing : release[DataOf[e]] = e =>
                                    child'[DataOf[e]] = ctx[e]
  PROVE  ReleaseInv'
<1> DEFINE Held(x) == DataHeld(x, frame, closure, user)'
<1>0. TypeOK /\ ReleaseInv /\ \A e \in Execs : DataOf[e] \in DataCtxs
  BY StoreAssumption DEF IInv
<1>1. /\ \A e \in Execs : reset'[e] = IF release[d] = e /\ ~Held(d)
                                      THEN "posted" ELSE reset[e]
      /\ \A x \in DataCtxs : release'[x] = IF x = d /\ ~Held(d)
                                           THEN NoExec ELSE release[x]
  BY UnrefStep
<1>2. \A e \in Execs : frame'[e] = "executing" \/ closure'[e] => Held(DataOf[e])
  BY DEF DataHeld
<1>3. \A x \in DataCtxs \ {d} : DataHeld(x, frame, closure, user) => Held(x)
  OBVIOUS
<1> HIDE DEF Held
<1>4. ASSUME NEW x \in DataCtxs, release'[x] # NoExec
      PROVE  /\ DataOf[release'[x]] = x /\ ctx'[release'[x]] # 0
             /\ reset'[release'[x]] = "no" /\ Held(x)
  <2>1. release'[x] = release[x] /\ release[x] \in Execs /\ (x = d => Held(d))
    BY <1>0, <1>1, <1>4 DEF TypeOK
  <2>2. DataOf[release[x]] = x /\ ctx[release[x]] # 0 /\ reset[release[x]] = "no"
        /\ DataHeld(x, frame, closure, user)
    BY <1>0, <1>4, <2>1 DEF ReleaseInv
  <2>3. reset'[release[x]] = "no"
    <3>1. CASE x = d
      BY <1>1, <2>1, <2>2, <3>1
    <3>2. CASE x # d
      <4>1. release[d] # release[x]
        BY <1>0, <2>1, <2>2, <3>2, StoreAssumption DEF ReleaseInv
      <4> QED
        BY <1>1, <2>1, <2>2, <4>1
    <3> QED
      BY <3>1, <3>2
  <2> QED
    BY <1>3, <2>1, <2>2, <2>3
<1>5. ASSUME NEW e \in Execs, ctx[e] # 0, reset'[e] = "no"
      PROVE  release'[DataOf[e]] = e
  <2>1. reset[e] = "no"
    BY <1>1, <1>5
  <2>2. release[DataOf[e]] = e
    BY <1>0, <1>5, <2>1 DEF ReleaseInv
  <2> QED
    BY <1>0, <1>1, <1>5, <2>2
<1>6. ASSUME NEW e \in Execs, frame'[e] = "executing" \/ closure'[e]
      PROVE  reset'[e] = "no"
  <2>1. reset[e] = "no" /\ Held(DataOf[e])
    BY <1>0, <1>2, <1>6 DEF ReleaseInv
  <2>2. release[d] = e => DataOf[e] = d
    BY <1>0, StoreAssumption DEF ReleaseInv
  <2> QED
    BY <1>1, <2>1, <2>2
<1>7. \A e \in Execs \ Missing :
        release'[DataOf[e]] = e => child'[DataOf[e]] = ctx'[e]
  BY <1>0, <1>1, StoreAssumption
<1> QED
  BY <1>4, <1>5, <1>6, <1>7 DEF ReleaseInv, Held

LEMMA ReleaseExecute ==
  ASSUME IInv, NEW e \in Execs, Execute(e)
  PROVE  ReleaseInv'
<1> DEFINE d == DataOf[e]
           Held(x) == DataHeld(x, frame, closure, user)
<1>0. TypeOK /\ ReleaseInv /\ CallInv /\ \A f \in Execs : DataOf[f] \in DataCtxs
  BY StoreAssumption DEF IInv
<1>1. /\ store = "open" /\ loaded # 0 /\ frame[e] = "new" /\ GetContext(e)
      /\ SetReleaseClosure(e) /\ user' = user
      /\ \A f \in Execs : DataOf[f] = d /\ frame[f] # "new" =>
           frame[f] = "returned" /\ graph[f] \in {"resetParams", "left"}
  BY DEF Execute
<1>2. PICK c \in Contexts : ctx' = [ctx EXCEPT ![e] = c]
  BY <1>1, GetContextStep
<1>3. /\ \A f \in Execs : ctx'[f] = IF f = e THEN c ELSE ctx[f]
      /\ \A f \in Execs : /\ frame'[f] = IF f = e THEN "executing" ELSE frame[f]
                          /\ closure'[f] = IF f = e THEN TRUE ELSE closure[f]
      /\ \A x \in DataCtxs : x # d => child'[x] = child[x]
      /\ e \notin Missing => child'[d] = c
  BY <1>0, <1>2 DEF Execute, TypeOK
<1>4. c # 0
  BY Sizes DEF Contexts
<1>5. /\ \A f \in Execs : reset'[f] = IF release[d] = f THEN "posted" ELSE reset[f]
      /\ \A x \in DataCtxs : release'[x] = IF x = d THEN e ELSE release[x]
      /\ release[d] # e /\ reset[e] = "no" /\ ctx[e] = 0
  BY <1>1, SetReleaseStep
<1>6. \A x \in DataCtxs : (Held(x) \/ x = d) => Held(x)'
  BY <1>1, <1>3 DEF DataHeld
<1> HIDE DEF Held
<1>7. \A x \in DataCtxs : release[x] # NoExec =>
        /\ release[x] \in Execs /\ DataOf[release[x]] = x /\ ctx[release[x]] # 0
        /\ reset[release[x]] = "no" /\ Held(x)
  BY <1>0 DEF ReleaseInv, TypeOK, Held
<1>8. ASSUME NEW x \in DataCtxs, release'[x] # NoExec
      PROVE  /\ DataOf[release'[x]] = x /\ ctx'[release'[x]] # 0
             /\ reset'[release'[x]] = "no" /\ Held(x)'
  <2>1. CASE x = d
    BY <1>3, <1>4, <1>5, <1>6, <2>1
  <2>2. CASE x # d
    <3>1. release'[x] = release[x]
      BY <1>5, <2>2
    <3>2. release[x] \in Execs /\ DataOf[release[x]] = x /\ release[x] # e
      BY <1>7, <1>8, <2>2, <3>1
    <3>3. release[d] # release[x]
      BY <1>0, <1>7, <2>2, <3>2, StoreAssumption
    <3> QED
      BY <1>3, <1>5, <1>6, <1>7, <1>8, <3>1, <3>2, <3>3
  <2> QED
    BY <2>1, <2>2
<1>9. ASSUME NEW f \in Execs, ctx'[f] # 0, reset'[f] = "no"
      PROVE  release'[DataOf[f]] = f
  <2>1. CASE f = e
    BY <1>0, <1>5, <2>1
  <2>2. CASE f # e
    <3>1. release[DataOf[f]] = f /\ release[d] # f
      BY <1>0, <1>3, <1>5, <1>9, <2>2 DEF ReleaseInv
    <3> QED
      BY <1>0, <1>5, <3>1
  <2> QED
    BY <2>1, <2>2
<1>10. ASSUME NEW f \in Execs, frame'[f] = "executing" \/ closure'[f]
       PROVE  reset'[f] = "no"
  <2>1. CASE f = e
    BY <1>5, <2>1
  <2>2. CASE f # e
    <3>1. frame[f] = "executing" \/ graph[f] \in {"running", "resetData"}
      BY <1>0, <1>3, <1>10, <2>2 DEF CallInv
    <3>2. reset[f] = "no"
      BY <1>0, <1>3, <1>10, <2>2 DEF ReleaseInv
    <3>3. ASSUME release[d] = f PROVE FALSE
      <4>1. DataOf[f] = d /\ ctx[f] # 0
        BY <1>0, <1>7, <3>3, StoreAssumption
      <4> QED
        BY <1>0, <1>1, <3>1, <4>1 DEF CallInv
    <3> QED
      BY <1>5, <3>2, <3>3
  <2> QED
    BY <2>1, <2>2
<1>11. ASSUME NEW f \in Execs \ Missing, release'[DataOf[f]] = f
       PROVE  child'[DataOf[f]] = ctx'[f]
  <2>1. CASE f = e
    BY <1>3, <1>11, <2>1
  <2>2. CASE f # e
    BY <1>0, <1>3, <1>5, <1>11, <2>2 DEF ReleaseInv
  <2> QED
    BY <2>1, <2>2
<1> QED
  BY <1>8, <1>9, <1>10, <1>11 DEF ReleaseInv, Held

LEMMA ReleaseStep == IInv /\ [Next]_vars => ReleaseInv'
<1> SUFFICES ASSUME IInv, [Next]_vars PROVE ReleaseInv'
  OBVIOUS
<1>0. TypeOK /\ ReleaseInv /\ CallInv /\ \A e \in Execs : DataOf[e] \in DataCtxs
  BY StoreAssumption DEF IInv
<1>1. ASSUME UNCHANGED <<ctx, release, child, closure, user>>,
             \A e \in Execs : frame'[e] = "executing" <=> frame[e] = "executing",
             \A e \in Execs : reset'[e] = "no" <=> reset[e] = "no"
      PROVE  ReleaseInv'
  <2>1. \A x : DataHeld(x, frame, closure, user)' <=> DataHeld(x, frame, closure, user)
    BY <1>1 DEF DataHeld
  <2>2. \A x \in DataCtxs : release[x] # NoExec => release[x] \in Execs
    BY <1>0 DEF TypeOK
  <2> QED
    BY <1>0, <1>1, <2>1, <2>2 DEF ReleaseInv
<1>2. CASE Load \/ FindGraphClusterByName \/ BeginDestroy \/ EndDestroy
           \/ UNCHANGED vars \/ \E h \in Handles : DropHandle(h)
  BY <1>1, <1>2 DEF Load, FindGraphClusterByName, DropHandle, BeginDestroy, EndDestroy,
                    vars
<1>3. ASSUME NEW e \in Execs,
             GraphDone(e) \/ CallDone(e) \/ ResetParams(e)
      PROVE  ReleaseInv'
  BY <1>1, <1>3 DEF GraphDone, CallDone, ResetParams
<1>4. ASSUME NEW e \in Execs, ExecuteFails(e) PROVE ReleaseInv'
  BY <1>0, <1>1, <1>4 DEF ExecuteFails, TypeOK
<1>5. ASSUME NEW e \in Execs, Release(e) \/ Count(e) PROVE ReleaseInv'
  BY <1>0, <1>1, <1>5 DEF Release, Count, TypeOK
<1>6. ASSUME NEW e \in Execs, ResetData(e) PROVE ReleaseInv'
  <2>1. /\ UNCHANGED <<frame, user, ctx, child>>
        /\ Unreferenced(DataOf[e], frame', closure', user')
        /\ \A f \in Execs : closure'[f] = IF f = e THEN FALSE ELSE closure[f]
    BY <1>0, <1>6 DEF ResetData, TypeOK
  <2>2. \A x \in DataCtxs \ {DataOf[e]} :
          DataHeld(x, frame, closure, user) => DataHeld(x, frame, closure, user)'
    BY <2>1 DEF DataHeld
  <2> QED
    BY <1>0, <2>1, <2>2, UnrefRelease DEF ReleaseInv
<1>7. ASSUME NEW e \in Execs, ExecuteReturns(e) PROVE ReleaseInv'
  <2>1. /\ UNCHANGED <<closure, user, ctx>> /\ frame[e] = "executing"
        /\ Unreferenced(DataOf[e], frame', closure', user')
        /\ \A f \in Execs : frame'[f] = IF f = e THEN "returned" ELSE frame[f]
        /\ \A x \in DataCtxs : child'[x] = IF x = DataOf[e] /\ e \notin Missing
                                           THEN ctx[e] ELSE child[x]
    BY <1>0, <1>7 DEF ExecuteReturns, TypeOK
  <2>2. \A x \in DataCtxs \ {DataOf[e]} :
          DataHeld(x, frame, closure, user) => DataHeld(x, frame, closure, user)'
    BY <2>1 DEF DataHeld
  <2>3. release[DataOf[e]] = e
    BY <1>0, <2>1 DEF ReleaseInv, CallInv
  <2>4. \A f \in Execs \ Missing : release[DataOf[f]] = f =>
                                   child'[DataOf[f]] = ctx[f]
    BY <1>0, <2>1, <2>3 DEF ReleaseInv
  <2> QED
    BY <1>0, <2>1, <2>2, <2>4, UnrefRelease
<1>8. ASSUME NEW d \in DataCtxs, UserDrops(d) PROVE ReleaseInv'
  <2>1. /\ UNCHANGED <<frame, closure, ctx, child>>
        /\ Unreferenced(d, frame', closure', user')
        /\ \A x \in DataCtxs : user'[x] = IF x = d THEN FALSE ELSE user[x]
    BY <1>0, <1>8 DEF UserDrops, TypeOK
  <2>2. \A x \in DataCtxs \ {d} :
          DataHeld(x, frame, closure, user) => DataHeld(x, frame, closure, user)'
    BY <2>1 DEF DataHeld
  <2> QED
    BY <1>0, <2>1, <2>2, UnrefRelease DEF ReleaseInv
<1> QED
  BY <1>2, <1>3, <1>4, <1>5, <1>6, <1>7, <1>8, ReleaseExecute DEF Next, Proceed
-----------------------------------------------------------------------------
LEMMA CountStep == IInv /\ [Next]_vars => CountInv'
<1> SUFFICES ASSUME IInv, [Next]_vars PROVE CountInv'
  OBVIOUS
<1>0. /\ TypeOK /\ CountInv /\ CallInv /\ ReleaseInv
      /\ \A e \in Execs : DataOf[e] \in DataCtxs
  BY StoreAssumption DEF IInv
<1>1. ASSUME UNCHANGED <<ctx, running, born, loaded>>,
             store' = "destroyed" \/ store # "destroyed",
             \A e \in Execs : reset'[e] = "counted" <=> reset[e] = "counted"
      PROVE  CountInv'
  <2>1. Unreleased' = Unreleased /\ Begun' = Begun
    BY <1>1 DEF Unreleased, Begun
  <2> QED
    BY <1>0, <1>1, <2>1 DEF CountInv
<1>2. CASE Load
  <2>1. /\ Unreleased' = Unreleased /\ Begun' = Begun /\ running' = running
        /\ store = "open" /\ loaded' = loaded + 1 /\ born' = born + PoolSize
    BY <1>2 DEF Load, Unreleased, Begun
  <2>2. /\ loaded \in Nat /\ born \in Nat /\ PoolSize \in Nat
        /\ born <= loaded * PoolSize + Cardinality(Begun)
    BY <1>0, <2>1, StoreAssumption DEF CountInv, TypeOK, Handles, Contexts
  <2>3. /\ (loaded + 1) * PoolSize = loaded * PoolSize + PoolSize
        /\ loaded * PoolSize \in Nat
    BY <2>2, Multiples
  <2>4. born' <= loaded' * PoolSize + Cardinality(Begun)
    BY <2>1, <2>2, <2>3, Sizes
  <2> QED
    BY <1>0, <2>1, <2>4 DEF CountInv
<1>3. ASSUME NEW e \in Execs,
             ExecuteFails(e) \/ GraphDone(e) \/ CallDone(e) \/ ResetParams(e)
      PROVE  CountInv'
  BY <1>0, <1>1, <1>3
     DEF ExecuteFails, GraphDone, CallDone, ResetParams, contexts, CountInv
<1>4. ASSUME NEW e \in Execs, Execute(e) PROVE CountInv'
  <2>1. /\ store = "open" /\ loaded # 0 /\ frame[e] = "new" /\ GetContext(e)
        /\ SetReleaseClosure(e) /\ running' = running + 1
        /\ UNCHANGED <<store, loaded>>
    BY <1>4 DEF Execute
  <2>2. PICK c \in Contexts : /\ ctx' = [ctx EXCEPT ![e] = c]
                              /\ born' = born \/ born' = born + 1
    BY <2>1, GetContextStep
  <2>3. c # 0
    BY Sizes DEF Contexts
  <2>4. \A f \in Execs : ctx'[f] = IF f = e THEN c ELSE ctx[f]
    BY <1>0, <2>2 DEF TypeOK
  <2>5. /\ \A f \in Execs : reset'[f] = "counted" <=> reset[f] = "counted"
        /\ reset[e] = "no" /\ ctx[e] = 0
    BY <1>0, <2>1, SetReleaseStep, StoreAssumption DEF ReleaseInv
  <2>6. /\ Unreleased' = Unreleased \cup {e} /\ e \notin Unreleased
        /\ Begun' = Begun \cup {e} /\ e \notin Begun
    BY <2>3, <2>4, <2>5 DEF Unreleased, Begun
  <2>7. /\ Cardinality(Unreleased') = Cardinality(Unreleased) + 1
        /\ Cardinality(Begun') = Cardinality(Begun) + 1
    BY <2>6, Sizes, FS_AddElement
  <2>8. /\ loaded \in Nat /\ born \in Nat /\ loaded * PoolSize \in Nat
        /\ born <= loaded * PoolSize + Cardinality(Begun)
    BY <1>0, <2>1, Multiples, StoreAssumption DEF CountInv, TypeOK, Handles, Contexts
  <2>9. born' <= loaded' * PoolSize + Cardinality(Begun')
    BY <2>1, <2>2, <2>7, <2>8, Sizes
  <2> QED
    BY <1>0, <2>1, <2>7, <2>9 DEF CountInv
<1>5. ASSUME NEW d \in DataCtxs, NEW fr, NEW cl, NEW us, Unreferenced(d, fr, cl, us)
      PROVE  \A e \in Execs : reset'[e] = "counted" <=> reset[e] = "counted"
  BY <1>0, <1>5, UnrefStep, StoreAssumption DEF ReleaseInv
<1>6. ASSUME NEW e \in Execs, ResetData(e) \/ ExecuteReturns(e) PROVE CountInv'
  <2>1. \A f \in Execs : reset'[f] = "counted" <=> reset[f] = "counted"
    BY <1>0, <1>5, <1>6 DEF ResetData, ExecuteReturns
  <2> QED
    BY <1>1, <1>6, <2>1 DEF ResetData, ExecuteReturns, contexts
<1>7. ASSUME NEW d \in DataCtxs, UserDrops(d) PROVE CountInv'
  <2>1. \A f \in Execs : reset'[f] = "counted" <=> reset[f] = "counted"
    BY <1>5, <1>7 DEF UserDrops
  <2> QED
    BY <1>1, <1>7, <2>1 DEF UserDrops, contexts
<1>8. ASSUME NEW e \in Execs, Release(e) PROVE CountInv'
  <2>1. \A f \in Execs : reset'[f] = "counted" <=> reset[f] = "counted"
    BY <1>0, <1>8 DEF Release, TypeOK
  <2> QED
    BY <1>1, <1>8, <2>1 DEF Release
<1>9. ASSUME NEW e \in Execs, Count(e) PROVE CountInv'
  <2>1. /\ UNCHANGED <<ctx, store, born, loaded>> /\ running' = running - 1
        /\ reset[e] = "released"
        /\ \A f \in Execs : reset'[f] = IF f = e THEN "counted" ELSE reset[f]
    BY <1>0, <1>9 DEF Count, TypeOK, contexts
  <2>2. e \in Unreleased /\ Unreleased' = Unreleased \ {e} /\ Begun' = Begun
    BY <1>0, <2>1 DEF Unreleased, Begun, CallInv
  <2>3. Cardinality(Unreleased') = Cardinality(Unreleased) - 1
    BY <2>2, Sizes, FS_RemoveElement
  <2> QED
    BY <1>0, <2>1, <2>2, <2>3 DEF CountInv
<1>10. CASE FindGraphClusterByName \/ BeginDestroy \/ UNCHANGED vars
            \/ \E h \in Handles : DropHandle(h)
  BY <1>0, <1>1, <1>10 DEF FindGraphClusterByName, DropHandle, BeginDestroy, vars,
                           contexts
<1>11. CASE EndDestroy
  <2>1. Unreleased' = Unreleased /\ running' = running /\ store' = "destroyed"
    BY <1>11 DEF EndDestroy, Unreleased
  <2> QED
    BY <1>0, <2>1 DEF CountInv
<1> QED
  BY <1>2, <1>3, <1>4, <1>6, <1>7, <1>8, <1>9, <1>10, <1>11 DEF Next, Proceed

LEMMA DoneStep == IInv /\ [Next]_vars => DoneInv'
<1> SUFFICES ASSUME IInv, [Next]_vars, NEW e \in Execs,
                    graph'[e] = "callDone", user'[DataOf[e]]
             PROVE  reset'[e] = "no"
  BY DEF DoneInv
<1>0. /\ TypeOK /\ CallInv /\ ReleaseInv /\ DoneInv
      /\ \A f \in Execs : DataOf[f] \in DataCtxs
  BY StoreAssumption DEF IInv
<1>1. ASSUME reset' = reset, graph'[e] = "callDone" => graph[e] = "callDone",
             user'[DataOf[e]] => user[DataOf[e]]
      PROVE  reset'[e] = "no"
  BY <1>0, <1>1 DEF DoneInv
<1>2. ASSUME NEW d \in DataCtxs, NEW fr, NEW cl, NEW us, Unreferenced(d, fr, cl, us),
             us[DataOf[e]], reset[e] = "no"
      PROVE  reset'[e] = "no"
  <2>1. release[d] = e => DataOf[e] = d
    BY <1>0, StoreAssumption DEF ReleaseInv
  <2>2. d = DataOf[e] => DataHeld(d, fr, cl, us)
    BY <1>2 DEF DataHeld
  <2> QED
    BY <1>2, <2>1, <2>2, UnrefStep
<1>3. CASE Load \/ FindGraphClusterByName \/ BeginDestroy \/ EndDestroy
           \/ UNCHANGED vars \/ \E h \in Handles : DropHandle(h)
  BY <1>1, <1>3 DEF Load, FindGraphClusterByName, DropHandle, BeginDestroy, EndDestroy,
                    vars
<1>4. ASSUME NEW f \in Execs,
             ExecuteFails(f) \/ GraphDone(f) \/ CallDone(f) \/ ResetParams(f)
      PROVE  reset'[e] = "no"
  <2>1. UNCHANGED <<reset, user>> /\ (graph'[e] = "callDone" => graph[e] = "callDone")
    BY <1>0, <1>4 DEF ExecuteFails, GraphDone, CallDone, ResetParams, TypeOK
  <2> QED
    BY <1>1, <2>1
<1>5. ASSUME NEW f \in Execs, Execute(f) PROVE reset'[e] = "no"
  <2>1. /\ graph'[f] # "callDone" /\ (e # f => graph'[e] = graph[e]) /\ user' = user
        /\ frame[f] = "new" /\ SetReleaseClosure(f)
        /\ \A x \in Execs : DataOf[x] = DataOf[f] /\ frame[x] # "new" =>
             frame[x] = "returned" /\ graph[x] \in {"resetParams", "left"}
    BY <1>0, <1>5 DEF Execute, TypeOK
  <2>2. e # f /\ graph[e] = "callDone" /\ reset[e] = "no"
    BY <1>0, <2>1 DEF DoneInv
  <2>3. release[DataOf[f]] = e => DataOf[e] = DataOf[f]
    BY <1>0, StoreAssumption DEF ReleaseInv
  <2>4. release[DataOf[f]] # e
    BY <1>0, <2>1, <2>2, <2>3 DEF CallInv
  <2> QED
    BY <2>1, <2>2, <2>4, SetReleaseStep
<1>6. ASSUME NEW f \in Execs, ResetData(f) PROVE reset'[e] = "no"
  <2>1. /\ Unreferenced(DataOf[f], frame, closure', user) /\ user' = user
        /\ graph[f] = "resetData" /\ (e # f => graph'[e] = graph[e])
    BY <1>0, <1>6 DEF ResetData, TypeOK
  <2>2. reset[e] = "no"
    BY <1>0, <2>1 DEF DoneInv, CallInv, ReleaseInv
  <2> QED
    BY <1>0, <1>2, <2>1, <2>2
<1>7. ASSUME NEW f \in Execs, ExecuteReturns(f) PROVE reset'[e] = "no"
  <2>1. /\ Unreferenced(DataOf[f], frame', closure, user)
        /\ user' = user /\ graph' = graph
    BY <1>7 DEF ExecuteReturns
  <2>2. reset[e] = "no"
    BY <1>0, <2>1 DEF DoneInv
  <2> QED
    BY <1>0, <1>2, <2>1, <2>2
<1>8. ASSUME NEW d \in DataCtxs, UserDrops(d) PROVE reset'[e] = "no"
  <2>1. /\ Unreferenced(d, frame, closure, user') /\ graph' = graph
        /\ user[DataOf[e]]
    BY <1>0, <1>8 DEF UserDrops, TypeOK
  <2>2. reset[e] = "no"
    BY <1>0, <2>1 DEF DoneInv
  <2> QED
    BY <1>2, <2>1, <2>2
<1>9. ASSUME NEW f \in Execs, Release(f) \/ Count(f) PROVE reset'[e] = "no"
  <2>1. UNCHANGED <<graph, user>> /\ reset[f] # "no" /\ (e # f => reset'[e] = reset[e])
    BY <1>0, <1>9 DEF Release, Count, TypeOK
  <2> QED
    BY <1>0, <2>1 DEF DoneInv
<1> QED
  BY <1>3, <1>4, <1>5, <1>6, <1>7, <1>8, <1>9 DEF Next, Proceed

\* Once the destructor has ended nothing is counted and nothing is loaded.
LEMMA DestroyStep == IInv /\ [Next]_vars => DestroyInv'
<1> SUFFICES ASSUME IInv, [Next]_vars, store' = "destroyed"
             PROVE  loaded' = 0 /\ running' = 0
  BY DEF DestroyInv
<1>1. CASE EndDestroy
  BY <1>1 DEF EndDestroy
<1>2. CASE ~EndDestroy
  <2>1. store = "destroyed"
    BY <1>2 DEF Next, Proceed, Load, FindGraphClusterByName, DropHandle, ExecuteFails,
                Execute, GraphDone, ResetData, CallDone, ResetParams, ExecuteReturns,
                Release, Count, UserDrops, BeginDestroy, vars
  <2>2. loaded = 0 /\ running = 0
    BY <2>1 DEF IInv, DestroyInv
  <2>3. ASSUME NEW e \in Execs PROVE ~Count(e)
    <3>1. Unreleased = {}
      BY <2>2, Sizes, FS_EmptySet DEF IInv, CountInv
    <3> QED
      BY <3>1 DEF Count, Unreleased, IInv, CallInv
  <2> QED
    BY <1>2, <2>1, <2>2, <2>3
       DEF Next, Proceed, Load, FindGraphClusterByName, DropHandle, ExecuteFails,
           Execute, GraphDone, ResetData, CallDone, ResetParams, ExecuteReturns,
           Release, UserDrops, BeginDestroy, vars
<1> QED
  BY <1>1, <1>2
-----------------------------------------------------------------------------
LEMMA InvInit == Init => IInv
<1> SUFFICES ASSUME Init PROVE IInv
  OBVIOUS
<1> USE DEF Init
<1>1. TypeOK
  BY Sizes DEF TypeOK
<1>2. \A e \in Execs : ~Holds(e)
  BY DEF Holds
<1>3. PlaceInv
  BY StoreAssumption, Sizes DEF PlaceInv, Contexts
<1>4. HoldInv /\ CallInv
  BY <1>2 DEF HoldInv, CallInv
<1>5. ReleaseInv
  BY StoreAssumption DEF ReleaseInv
<1>6. Begun = {} /\ Unreleased = {}
  BY DEF Begun, Unreleased
<1>7. CountInv
  BY <1>6, FS_EmptySet, StoreAssumption DEF CountInv
<1>8. DoneInv /\ DestroyInv
  BY DEF DoneInv, DestroyInv
<1> QED
  BY <1>1, <1>3, <1>4, <1>5, <1>7, <1>8 DEF IInv

LEMMA InvStep == IInv /\ [Next]_vars => IInv'
  BY TypeStep, PlaceStep, CallStep, ReleaseStep, CountStep, DoneStep, DestroyStep
     DEF IInv

\* The inductive invariant holds whatever the callers, reloads and workers do.
THEOREM StoreInvariance == Spec => []IInv
  BY InvInit, InvStep, PTL DEF Spec

\* Type correctness: running_graphs_ never goes below zero, and no more contexts
\* are created than the pools and the calls account for.
THEOREM StoreTypeCorrect == Spec => []TypeOK
<1>1. IInv => TypeOK
  BY DEF IInv
<1> QED
  BY <1>1, StoreInvariance, PTL

\* A context belongs to one execution or to one pool and is not deleted while
\* it does, for any number of reloads and reuses of data contexts.
THEOREM ContextOwnedHolds == Spec => []ContextOwned
<1>1. IInv => ContextOwned
  <2> SUFFICES ASSUME IInv PROVE ContextOwned
    OBVIOUS
  <2>0. TypeOK /\ PlaceInv /\ HoldInv
    BY DEF IInv
  <2>1. ASSUME NEW e \in Execs, Holds(e)
        PROVE  ctx[e] \notin freed /\ \A h \in Handles : ctx[e] \notin pool[h]
    <3>1. cluster[ctx[e]] # 0
      BY <2>0, <2>1 DEF HoldInv
    <3> QED
      BY <2>0, <3>1 DEF PlaceInv
  <2>2. \A h, k \in Handles : pool[h] \cap pool[k] # {} => h = k
    BY <2>0 DEF PlaceInv
  <2>3. \A h \in Handles : pool[h] \cap freed = {}
    BY <2>0 DEF PlaceInv
  <2> QED
    BY <2>0, <2>1, <2>2, <2>3 DEF ContextOwned, HoldInv
<1> QED
  BY <1>1, StoreInvariance, PTL

\* A held context points into the cluster that created it, which lives, and
\* goes back to that cluster's pool.
THEOREM OwnClusterHolds == Spec => []OwnCluster
<1>1. IInv => OwnCluster
  BY DEF IInv, PlaceInv, HoldInv, OwnCluster
<1> QED
  BY <1>1, StoreInvariance, PTL

\* The data context outlives the run of the graph that uses it.
THEOREM DataAliveHolds == Spec => []DataAlive
<1>1. IInv => DataAlive
  <2> SUFFICES ASSUME IInv, NEW e \in Execs, graph[e] = "running"
               PROVE  /\ DataHeld(DataOf[e], frame, closure, user)
                      /\ release[DataOf[e]] = e
    BY DEF DataAlive
  <2>1. closure[e] /\ ctx[e] # 0
    BY DEF IInv, CallInv
  <2>2. release[DataOf[e]] = e
    BY <2>1 DEF IInv, ReleaseInv
  <2> QED
    BY <2>1, <2>2 DEF DataHeld
<1> QED
  BY <1>1, StoreInvariance, PTL

\* The results of a graph stay readable through the data context until the
\* caller lets go of it or executes something else with it.
THEOREM ResultsReadableHolds == Spec => []ResultsReadable
<1>1. IInv => ResultsReadable
  <2> SUFFICES ASSUME IInv, NEW e \in Execs \ Missing, release[DataOf[e]] = e
               PROVE  /\ child[DataOf[e]] = ctx[e] /\ reset[e] = "no"
                      /\ \A f \in Execs \ {e} : Holds(f) => ctx[f] # ctx[e]
    BY DEF ResultsReadable
  <2>1. DataOf[e] \in DataCtxs /\ e # NoExec
    BY StoreAssumption
  <2>2. ctx[e] # 0 /\ reset[e] = "no" /\ child[DataOf[e]] = ctx[e]
    BY <2>1 DEF IInv, ReleaseInv
  <2>3. Holds(e)
    BY <2>2 DEF Holds
  <2> QED
    BY <2>2, <2>3 DEF IInv, HoldInv
<1> QED
  BY <1>1, StoreInvariance, PTL

\* When the destructor has ended no graph runs, every execution has given its
\* context back, only callers that gave their data context up may not have had
\* done called, and the contexts left are in the pools of handles callers keep.
THEOREM DestroyedCleanHolds == Spec => []DestroyedClean
<1>1. IInv => DestroyedClean
  <2> SUFFICES ASSUME IInv, store = "destroyed" PROVE DestroyedClean
    BY DEF DestroyedClean
  <2>0. /\ TypeOK /\ PlaceInv /\ HoldInv /\ CallInv /\ ReleaseInv /\ DoneInv
        /\ loaded = 0 /\ running = 0
    BY DEF IInv, DestroyInv
  <2>1. Unreleased = {}
    BY <2>0, Sizes, FS_EmptySet DEF IInv, CountInv
  <2>2. \A e \in Execs : ctx[e] # 0 => reset[e] = "counted"
    BY <2>1 DEF Unreleased
  <2>3. \A c \in Contexts : cluster[c] = 0
    BY <2>0, <2>2 DEF HoldInv, Holds
  <2>4. \A e \in Execs : /\ graph[e] \notin {"running", "resetData"}
                         /\ graph[e] = "callDone" => ~user[DataOf[e]]
    <3> SUFFICES ASSUME NEW e \in Execs
                 PROVE  /\ graph[e] \notin {"running", "resetData"}
                        /\ graph[e] = "callDone" => ~user[DataOf[e]]
      OBVIOUS
    <3>1. graph[e] \notin {"none", "left"} => reset[e] = "counted"
      BY <2>0, <2>2 DEF CallInv
    <3> QED
      BY <2>0, <3>1 DEF CallInv, ReleaseInv, DoneInv
  <2> QED
    BY <2>0, <2>2, <2>3, <2>4, LeftContexts DEF DestroyedClean
<1> QED
  BY <1>1, StoreInvariance, PTL
=============================================================================
