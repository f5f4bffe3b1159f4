------------------------- MODULE ClusterExec_proofs --------------------------
(***************************************************************************)
(* Who holds a context, and what its end time is, for any clusters.        *)
(*                                                                         *)
(* A step may borrow a context and finish a vertex at once, so the         *)
(* invariant is stated of any contexts C, vertices V, pools P, number b of *)
(* contexts created and contexts T of the calls, and carried first from    *)
(* the state to what borrowing leaves and from there to the next state.    *)
(***************************************************************************)
EXTENDS ClusterExec, FiniteSetTheorems, TLAPS

VFields == {"st", "code", "result", "sub", "open", "using"}
CFields == {"cluster", "graph", "params", "end", "outer", "exit", "join", "round",
            "ended", "value", "child"}

\* The vertices of one context, and that S differs from R in the course of
\* the execution only.
Row(R) == R = [v \in Vertices |-> R[v]] /\ \A v \in Vertices : DOMAIN R[v] = VFields
SameHold(R, S) ==
  Row(S) /\ \A v \in Vertices : S[v].sub = R[v].sub /\ S[v].open = R[v].open

\* Contexts that are in a pool or do not exist yet.
Idle(P, b, c) == b < c \/ \E k \in Clusters : \E i \in DOMAIN P[k] : P[k][i] = c

ShapeOf(C, V, P, b, T) ==
  /\ C = [c \in Ctxs |-> C[c]] /\ \A c \in Ctxs : DOMAIN C[c] = CFields
  /\ V = [c \in Ctxs |-> V[c]] /\ \A c \in Ctxs : Row(V[c])
  /\ \A c \in Ctxs, v \in Vertices : V[c][v].sub \in Ctxs \cup {0}
  /\ P \in [Clusters -> Seq(Ctxs)] /\ b \in 0..MaxCtxs
  /\ T \in [Calls -> Ctxs \cup {0}]

\* A context is in the pools once.
PoolOf(P, b) ==
  \A k \in Clusters : \A i \in DOMAIN P[k] :
    /\ P[k][i] <= b
    /\ \A l \in Clusters : \A j \in DOMAIN P[l] : P[l][j] = P[k][i] => l = k /\ j = i

\* The context of a call is not in a pool, nor of another call or a vertex, and
\* has the end time of the call.
TopOf(C, V, P, b, T) ==
  \A e \in Calls : T[e] # 0 =>
    /\ ~Idle(P, b, T[e])
    /\ \A f \in Calls : T[f] = T[e] => f = e
    /\ \A c \in Ctxs, v \in Vertices : V[c][v].sub # T[e]
    /\ C[T[e]].end = IF e \in Timed THEN e ELSE None

\* What a vertex holds no other vertex and no pool has.
SubOf(V, P, b) ==
  \A c \in Ctxs, v \in Vertices : V[c][v].sub # 0 =>
    /\ ~Idle(P, b, V[c][v].sub) /\ Decl(v).cluster \in Clusters
    /\ \A d \in Ctxs, u \in Vertices : V[d][u].sub = V[c][v].sub => d = c /\ u = v

\* A context is clean until it is used, and then has a holder and a cluster.
UsedOf(C, V, P, b, T) ==
  \A c \in Ctxs :
    IF Idle(P, b, c) THEN C[c] = FreshContext(None) /\ V[c] = FreshVertices
    ELSE /\ C[c].cluster \in Clusters
         /\ \/ \E e \in Calls : T[e] = c
            \/ \E d \in Ctxs, v \in Vertices : V[d][v].sub = c

\* A subgraph that was started has the end time of the graph around it; one
\* that was only borrowed is clean.
OpenOf(C, V) ==
  \A c \in Ctxs, v \in Vertices :
    /\ V[c][v].open => V[c][v].sub # 0 /\ C[V[c][v].sub].end = C[c].end
    /\ ~V[c][v].open /\ V[c][v].sub # 0 => V[V[c][v].sub] = FreshVertices

Hold(C, V, P, b, T) ==
  /\ ShapeOf(C, V, P, b, T) /\ PoolOf(P, b) /\ TopOf(C, V, P, b, T)
  /\ SubOf(V, P, b) /\ UsedOf(C, V, P, b, T) /\ OpenOf(C, V)

CallInv ==
  /\ loaded \subseteq Clusters /\ late \subseteq Timed
  /\ call \in [Calls -> {"new", "running", "done", "left"}]
  /\ \A e \in Calls : call[e] \in {"running", "done"} <=> top[e] # 0

IInv == CallInv /\ Hold(ctx, vtx, pool, born, top)
-----------------------------------------------------------------------------
LEMMA Constants ==
  /\ Ctxs \subseteq Nat /\ 0 \notin Ctxs /\ MaxCtxs \in Nat
  /\ \A c : c \in Ctxs <=> c \in Nat /\ 1 <= c /\ c <= MaxCtxs
  BY ClusterAssumption DEF Ctxs

LEMMA FreshShape ==
  /\ Row(FreshVertices)
  /\ \A v \in Vertices : /\ FreshVertices[v].sub = 0 /\ ~FreshVertices[v].open
                         /\ FreshVertices[v].open = FALSE
                         /\ FreshVertices[v].st = "waiting"
  /\ \A k : DOMAIN FreshContext(k) = CFields /\ FreshContext(k).cluster = k
  BY DEF Row, FreshVertices, FreshVertex, FreshContext, VFields, CFields

\* The operators on the vertices of a graph leave alone what they hold.
LEMMA StartedKeeps ==
  ASSUME NEW R, Row(R), NEW g
  PROVE  /\ SameHold(R, Started(g, R))
         /\ \A v \in Vertices : Started(g, R)[v].st \in {"ready", R[v].st}
  BY DEF SameHold, Row, Started, VFields

LEMMA NotifiedKeeps ==
  ASSUME NEW R, Row(R), NEW v
  PROVE  /\ SameHold(R, Notified(v, R))
         /\ \A u \in Vertices : Notified(v, R)[u].st \in {"ready", R[u].st}
  BY DEF SameHold, Row, Notified, VFields

LEMMA RewoundKeeps ==
  ASSUME NEW R, Row(R)
  PROVE  /\ SameHold(R, Rewound(R))
         /\ \A v \in Vertices : Rewound(R)[v].st = "waiting"
  BY DEF SameHold, Row, Rewound, VFields

LEMMA DoneKeeps ==
  ASSUME NEW R, Row(R), NEW v \in Vertices, NEW x, NEW y
  PROVE  LET S == [R EXCEPT ![v] = [@ EXCEPT !.st = "done", !.code = x, !.result = y]]
         IN /\ SameHold(R, S)
            /\ \A u \in Vertices : S[u].st \in {"done", R[u].st}
  BY DEF SameHold, Row, VFields

LEMMA HoldTransitive ==
  ASSUME NEW R, NEW S, NEW Q, SameHold(R, S), SameHold(S, Q)
  PROVE  SameHold(R, Q)
  BY DEF SameHold

LEMMA HoldReflexive ==
  ASSUME NEW R, Row(R)
  PROVE  SameHold(R, R)
  BY DEF SameHold
-----------------------------------------------------------------------------
\* Contexts in which nothing has happened.
Rested(V, P, b, d) ==
  \/ Idle(P, b, d)
  \/ \E c \in Ctxs, v \in Vertices : V[c][v].sub = d /\ ~V[c][v].open

\* The execution goes on from C and V, in other contexts, and holds the same.
Work(C, V, P, b) ==
  /\ ctx' = [d \in Ctxs |-> ctx'[d]] /\ vtx' = [d \in Ctxs |-> vtx'[d]]
  /\ \A d \in Ctxs :
       /\ DOMAIN ctx'[d] = CFields
       /\ ctx'[d].cluster = C[d].cluster /\ ctx'[d].end = C[d].end
       /\ SameHold(V[d], vtx'[d])
       /\ Rested(V, P, b, d) => ctx'[d] = C[d] /\ vtx'[d] = V[d]

LEMMA RestedFresh ==
  ASSUME NEW C, NEW V, NEW P, NEW b, NEW T, Hold(C, V, P, b, T), NEW d \in Ctxs,
         Rested(V, P, b, d)
  PROVE  V[d] = FreshVertices
<1>1. d # 0
  BY Constants
<1> QED
  BY <1>1 DEF Hold, UsedOf, OpenOf, Rested

LEMMA WorkStep ==
  ASSUME NEW C, NEW V, NEW P, NEW b, NEW T, Hold(C, V, P, b, T), Work(C, V, P, b)
  PROVE  Hold(ctx', vtx', P, b, T)
<1>1. \A d \in Ctxs, v \in Vertices : /\ vtx'[d][v].sub = V[d][v].sub
                                      /\ vtx'[d][v].open = V[d][v].open
                                      /\ Row(vtx'[d])
  BY DEF Work, SameHold
<1>2. \A d \in Ctxs : ctx'[d].cluster = C[d].cluster /\ ctx'[d].end = C[d].end
  BY DEF Work
<1>3. ShapeOf(ctx', vtx', P, b, T)
  <2>1. \A d \in Ctxs : Row(vtx'[d]) /\ DOMAIN ctx'[d] = CFields
    BY DEF Work, SameHold
  <2> QED
    BY <1>1, <2>1 DEF Work, Hold, ShapeOf
<1>4. TopOf(ctx', vtx', P, b, T)
  <2>1. \A e \in Calls : T[e] # 0 => T[e] \in Ctxs
    BY DEF Hold, ShapeOf
  <2>2. TopOf(C, V, P, b, T)
    BY DEF Hold
  <2> QED
    BY <1>1, <1>2, <2>1, <2>2 DEF TopOf
<1>5. SubOf(vtx', P, b)
  BY <1>1 DEF Hold, SubOf
<1>6. UsedOf(ctx', vtx', P, b, T)
  BY <1>1, <1>2 DEF Hold, UsedOf, Work, Rested
<1>7. OpenOf(ctx', vtx')
  <2>1. \A c \in Ctxs, v \in Vertices : V[c][v].sub \in Ctxs \cup {0}
    BY DEF Hold, ShapeOf
  <2>2. \A c \in Ctxs, v \in Vertices :
          ~V[c][v].open /\ V[c][v].sub # 0 => Rested(V, P, b, V[c][v].sub)
    BY SMTT(60) DEF Rested
  <2> QED
    BY <1>1, <1>2, <2>1, <2>2 DEF Hold, OpenOf, Work
<1> QED
  BY <1>3, <1>4, <1>5, <1>6, <1>7 DEF Hold

\* FinishVertex works: the contexts below a graph were started.
LEMMA FinishWork ==
  ASSUME NEW C, NEW V, NEW P, NEW b, NEW T, Hold(C, V, P, b, T),
         NEW c \in Ctxs, NEW v \in Vertices, V[c][v].st # "waiting",
         \A d \in Ctxs, u \in Vertices : vtx[d][u].open =>
           V[d][u].open /\ V[d][u].sub = vtx[d][u].sub,
         NEW code, FinishVertex(c, v, code, C, V)
  PROVE  /\ Work(C, V, P, b)
         /\ \A d \in Ctxs, u \in Vertices : vtx'[d][u].st = "running" =>
              V[d][u].st = "running"
<1> DEFINE S == {d \in Ctxs : ~Rested(V, P, b, d)}
<1>0. ShapeOf(C, V, P, b, T) /\ Row(V[c])
  BY DEF Hold, ShapeOf
<1>1. c \in S
  BY RestedFresh, FreshShape
<1>2. ASSUME NEW d \in Ctxs, NEW u \in Vertices, vtx[d][u].open
      PROVE  vtx[d][u].sub \in S
  <2>1. V[d][u].open /\ V[d][u].sub = vtx[d][u].sub /\ V[d][u].sub \in Ctxs
    BY <1>0, <1>2 DEF ShapeOf, Hold, OpenOf
  <2> QED
    BY <2>1, Constants DEF Rested, Hold, SubOf
<1>3. Below(c) \subseteq S
  <2>1. S \in SUBSET Ctxs
    OBVIOUS
  <2> HIDE DEF S
  <2> QED
    BY <1>1, <1>2, <2>1 DEF Below
<1> HIDE DEF S
<1> DEFINE final == Code(v, code)
           y == IF final = "ok" THEN "OK" ELSE "ERR"
           done == [V[c] EXCEPT ![v] = [@ EXCEPT !.st = "done", !.code = final,
                                                 !.result = y]]
           now == [C[c] EXCEPT !.join = @ - 1,
                               !.exit = @ \/ (code = "err" /\ Decl(v).exits),
                               !.child = Children(v, V[c][v], @)]
           Joining(d) == Cardinality(Members(C[d].graph))
           Frame(D, d) == DOMAIN D = CFields /\ D.cluster = C[d].cluster
                          /\ D.end = C[d].end
           Calm(R, d) == \A u \in Vertices : R[u].st = "running" => V[d][u].st = "running"
<1>4. SameHold(V[c], done) /\ Row(done) /\ Calm(done, c)
  <2>1. SameHold(V[c], done) /\ \A u \in Vertices : done[u].st \in {"done", V[c][u].st}
    BY <1>0, DoneKeeps
  <2> HIDE DEF done
  <2> QED
    BY <2>1 DEF SameHold
<1>5. DOMAIN C[c] = CFields /\ Frame(now, c)
  BY <1>0 DEF ShapeOf, CFields
<1> HIDE DEF done, now, final, y
<1>6. \A d \in Ctxs : Frame(C[d], d) /\ SameHold(V[d], V[d]) /\ Row(V[d])
  BY <1>0, HoldReflexive DEF ShapeOf
<1>7. CASE /\ ctx' = [C EXCEPT ![c] = now]
           /\ vtx' = [V EXCEPT ![c] = Notified(v, done)]
  <2>1. SameHold(V[c], Notified(v, done)) /\ Calm(Notified(v, done), c)
    BY <1>4, NotifiedKeeps, HoldTransitive
  <2> QED
    BY <1>0, <1>1, <1>5, <1>6, <1>7, <2>1 DEF Work, S, ShapeOf
<1>8. CASE /\ ctx' = [C EXCEPT ![c] = [now EXCEPT !.ended = TRUE]]
           /\ vtx' = [V EXCEPT ![c] = done]
  <2>1. Frame([now EXCEPT !.ended = TRUE], c)
    BY <1>5 DEF CFields
  <2> QED
    BY <1>0, <1>1, <1>4, <1>6, <1>8, <2>1 DEF Work, S, ShapeOf
<1>9. CASE /\ ctx' = [d \in Ctxs |->
                        IF d = c THEN [now EXCEPT !.join = Joining(c), !.round = @ + 1]
                        ELSE IF d \in Below(c) THEN [C[d] EXCEPT !.join = Joining(d)]
                        ELSE C[d]]
           /\ vtx' = [d \in Ctxs |->
                        IF d = c THEN Started(C[c].graph, Rewound(done))
                        ELSE IF d \in Below(c) THEN Rewound(V[d]) ELSE V[d]]
  <2> DEFINE r == [now EXCEPT !.join = Joining(c), !.round = @ + 1]
             R == Started(C[c].graph, Rewound(done))
  <2>1. Frame(r, c)
    BY <1>5 DEF CFields
  <2>2. \A d \in Ctxs : Frame([C[d] EXCEPT !.join = Joining(d)], d)
    BY <1>6 DEF CFields
  <2>3. SameHold(V[c], R) /\ Calm(R, c)
    <3>1. SameHold(done, Rewound(done)) /\ Row(Rewound(done))
          /\ \A u \in Vertices : Rewound(done)[u].st = "waiting"
      BY <1>4, RewoundKeeps DEF SameHold
    <3>2. SameHold(Rewound(done), R)
          /\ \A u \in Vertices : R[u].st \in {"ready", "waiting"}
      BY <3>1, StartedKeeps
    <3> HIDE DEF R
    <3>3. SameHold(V[c], R)
      BY <1>4, <3>1, <3>2, HoldTransitive
    <3> QED
      BY <3>2, <3>3
  <2>4. \A d \in Ctxs : SameHold(V[d], Rewound(V[d])) /\ Calm(Rewound(V[d]), d)
    BY <1>6, RewoundKeeps
  <2>5. \A d \in Ctxs : Rested(V, P, b, d) => d # c /\ d \notin Below(c)
    BY <1>1, <1>3 DEF S
  <2>6. \A d \in Ctxs :
          /\ ctx'[d] = IF d = c THEN r
                       ELSE IF d \in Below(c) THEN [C[d] EXCEPT !.join = Joining(d)]
                       ELSE C[d]
          /\ vtx'[d] = IF d = c THEN R
                       ELSE IF d \in Below(c) THEN Rewound(V[d]) ELSE V[d]
    BY <1>9
  <2>7. ctx' = [d \in Ctxs |-> ctx'[d]] /\ vtx' = [d \in Ctxs |-> vtx'[d]]
    BY <1>9
  <2> HIDE DEF r, R, Joining
  <2>8. \A d \in Ctxs : /\ Frame(ctx'[d], d)
                        /\ SameHold(V[d], vtx'[d]) /\ Calm(vtx'[d], d)
    <3> TAKE d \in Ctxs
    <3>1. CASE d = c
      BY <2>1, <2>3, <2>6, <3>1
    <3>2. CASE d # c /\ d \in Below(c)
      <4> DEFINE q == [C[d] EXCEPT !.join = Joining(d)]  Q == Rewound(V[d])
      <4>1. ctx'[d] = q /\ vtx'[d] = Q /\ Frame(q, d) /\ SameHold(V[d], Q) /\ Calm(Q, d)
        BY <2>2, <2>4, <2>6, <3>2
      <4> HIDE DEF q, Q
      <4> QED
        BY <4>1
    <3>3. CASE d # c /\ d \notin Below(c)
      BY <1>6, <2>6, <3>3
    <3> QED
      BY <3>1, <3>2, <3>3
  <2> QED
    BY <2>5, <2>6, <2>7, <2>8 DEF Work
<1> QED
  BY <1>7, <1>8, <1>9 DEF FinishVertex, done, now, final, y
-----------------------------------------------------------------------------
\* A context that is got was idle, and no other one is affected.
LEMMA Got ==
  ASSUME pool \in [Clusters -> Seq(Ctxs)], born \in 0..MaxCtxs, PoolOf(pool, born),
         NEW k \in Clusters, NEW s, GetContext(k, s)
  PROVE  /\ s \in Ctxs /\ Idle(pool, born, s)
         /\ pool' \in [Clusters -> Seq(Ctxs)] /\ born' \in 0..MaxCtxs
         /\ PoolOf(pool', born')
         /\ \A d \in Ctxs : Idle(pool', born', d) <=> Idle(pool, born, d) /\ d # s
<1>0. /\ \A l \in Clusters : pool[l] \in Seq(Ctxs)
      /\ Ctxs \subseteq Nat /\ born \in Nat /\ MaxCtxs \in Nat
  BY Constants
<1>1. CASE pool[k] # <<>>
  <2>1. /\ s = Head(pool[k]) /\ born' = born
        /\ pool' = [pool EXCEPT ![k] = Tail(pool[k])]
    BY <1>1 DEF GetContext
  <2>2. /\ s = pool[k][1] /\ s \in Ctxs /\ 1 \in DOMAIN pool[k]
        /\ Tail(pool[k]) \in Seq(Ctxs)
    BY <1>0, <1>1, <2>1
  <2>3. \A i \in DOMAIN Tail(pool[k]) : /\ i \in Nat /\ i + 1 \in DOMAIN pool[k] /\ i # 0
                                        /\ Tail(pool[k])[i] = pool[k][i + 1]
    BY <1>0, <1>1
  <2>4. \A i \in DOMAIN pool[k] : i = 1 \/ i - 1 \in DOMAIN Tail(pool[k])
    BY <1>0, <1>1
  <2>5. \A i \in DOMAIN pool[k] : i \in Nat
    BY <1>0
  <2>6. \A l \in Clusters : pool'[l] = IF l = k THEN Tail(pool[k]) ELSE pool[l]
    BY <2>1
  <2>7. pool' \in [Clusters -> Seq(Ctxs)]
    BY <2>1, <2>2
  <2>8. PoolOf(pool', born')
    <3> SUFFICES ASSUME NEW l \in Clusters, NEW i \in DOMAIN pool'[l]
                 PROVE  /\ pool'[l][i] <= born
                        /\ \A m \in Clusters : \A j \in DOMAIN pool'[m] :
                             pool'[m][j] = pool'[l][i] => m = l /\ j = i
      BY <2>1 DEF PoolOf
    <3> DEFINE Old(m, j) == IF m = k THEN j + 1 ELSE j
    <3>1. \A m \in Clusters : \A j \in DOMAIN pool'[m] :
            Old(m, j) \in DOMAIN pool[m] /\ pool'[m][j] = pool[m][Old(m, j)]
      BY <2>3, <2>6
    <3>2. \A m \in Clusters : \A j \in DOMAIN pool'[m] : m = k => j \in Nat
      BY <2>3, <2>6
    <3> HIDE DEF Old
    <3>3. pool'[l][i] <= born
      BY <3>1 DEF PoolOf
    <3>4. ASSUME NEW m \in Clusters, NEW j \in DOMAIN pool'[m], pool'[m][j] = pool'[l][i]
          PROVE  m = l /\ Old(m, j) = Old(l, i)
      BY <3>1, <3>4 DEF PoolOf
    <3> QED
      BY <3>2, <3>3, <3>4 DEF Old
  <2>9. ASSUME NEW d \in Ctxs
        PROVE  Idle(pool', born', d) <=> Idle(pool, born, d) /\ d # s
    <3>1. ASSUME Idle(pool', born', d) PROVE Idle(pool, born, d) /\ d # s
      <4>1. CASE born' < d
        BY <1>0, <2>1, <2>2, <4>1 DEF Idle, PoolOf
      <4>2. CASE \E l \in Clusters : \E i \in DOMAIN pool'[l] : pool'[l][i] = d
        <5>0. PICK l \in Clusters : \E i \in DOMAIN pool'[l] : pool'[l][i] = d
          BY <4>2
        <5>1. PICK i \in DOMAIN pool'[l] : pool'[l][i] = d
          BY <5>0
        <5>2. CASE l = k
          <6>1. i \in DOMAIN Tail(pool[k]) /\ Tail(pool[k])[i] = d
            BY <2>6, <5>1, <5>2
          <6>2. i \in Nat /\ i # 0 /\ i + 1 \in DOMAIN pool[k] /\ pool[k][i + 1] = d
            BY <2>3, <6>1
          <6>3. i + 1 # 1 /\ Idle(pool, born, d)
            BY <6>2 DEF Idle
          <6> QED
            BY <2>2, <6>2, <6>3 DEF PoolOf
        <5>3. CASE l # k
          BY <2>2, <2>6, <5>1, <5>3 DEF Idle, PoolOf
        <5> QED
          BY <5>2, <5>3
      <4> QED
        BY <3>1, <4>1, <4>2 DEF Idle
    <3>2. ASSUME Idle(pool, born, d), d # s PROVE Idle(pool', born', d)
      <4>1. CASE born < d
        BY <2>1, <4>1 DEF Idle
      <4>2. CASE \E l \in Clusters : \E i \in DOMAIN pool[l] : pool[l][i] = d
        <5>0. PICK l \in Clusters : \E i \in DOMAIN pool[l] : pool[l][i] = d
          BY <4>2
        <5>1. PICK i \in DOMAIN pool[l] : pool[l][i] = d
          BY <5>0
        <5>2. CASE l = k
          <6>1. i # 1 /\ i - 1 \in DOMAIN Tail(pool[k]) /\ i \in Nat
            BY <2>2, <2>4, <2>5, <3>2, <5>1, <5>2
          <6>2. Tail(pool[k])[i - 1] = d
            BY <2>3, <5>1, <5>2, <6>1
          <6> QED
            BY <2>6, <6>1, <6>2 DEF Idle
        <5>3. CASE l # k
          BY <2>6, <5>1, <5>3 DEF Idle
        <5> QED
          BY <5>2, <5>3
      <4> QED
        BY <3>2, <4>1, <4>2 DEF Idle
    <3> QED
      BY <3>1, <3>2
  <2>10. Idle(pool, born, s)
    BY <2>2 DEF Idle
  <2> QED
    BY <2>1, <2>2, <2>7, <2>8, <2>9, <2>10
<1>2. CASE pool[k] = <<>>
  <2>1. s = born + 1 /\ s \in Ctxs /\ born' = s /\ pool' = pool
    BY <1>2 DEF GetContext
  <2>2. \A l \in Clusters : \A i \in DOMAIN pool[l] : pool[l][i] \in Nat
    <3>1. ASSUME NEW l \in Clusters, NEW i \in DOMAIN pool[l] PROVE pool[l][i] \in Ctxs
      <4>1. pool[l] \in Seq(Ctxs)
        BY <1>0
      <4> QED
        BY <4>1
    <3> QED
      BY <1>0, <3>1
  <2>3. PoolOf(pool', born')
    <3>1. \A l \in Clusters : \A i \in DOMAIN pool[l] : pool[l][i] <= born
      BY DEF PoolOf
    <3>2. \A l \in Clusters : \A i \in DOMAIN pool[l] : pool[l][i] <= born'
      BY <1>0, <2>1, <2>2, <3>1
    <3> QED
      BY <2>1, <3>2 DEF PoolOf
  <2>4. \A d \in Ctxs : Idle(pool', born', d) <=> Idle(pool, born, d) /\ d # s
    <3> TAKE d \in Ctxs
    <3>1. d \in Nat /\ (born' < d <=> born < d /\ d # s)
      BY <1>0, <2>1
    <3>2. ASSUME NEW l \in Clusters, NEW i \in DOMAIN pool[l] PROVE pool[l][i] # s
      BY <1>0, <2>1, <2>2 DEF PoolOf
    <3> QED
      BY <2>1, <3>1, <3>2 DEF Idle
  <2>5. born' \in 0..MaxCtxs
    BY <2>1, Constants
  <2> QED
    BY <1>0, <2>1, <2>3, <2>4, <2>5 DEF Idle
<1> QED
  BY <1>1, <1>2

\* A vertex that is about to execute has, after Borrow, its context or none.
LEMMA Lend ==
  ASSUME IInv, NEW c \in Ctxs, NEW v \in Vertices, vtx[c][v].st = "ready",
         NEW s \in Ctxs \cup {0}, Borrow(c, v, s)
  PROVE  /\ Hold(Lent(v, s), Holding(c, v, s), pool', born', top)
         /\ \A d \in Ctxs, u \in Vertices :
              /\ Holding(c, v, s)[d][u].sub = IF d = c /\ u = v THEN s ELSE vtx[d][u].sub
              /\ Holding(c, v, s)[d][u].open = vtx[d][u].open
              /\ Holding(c, v, s)[d][u].st = vtx[d][u].st
         /\ \A d \in Ctxs : Lent(v, s)[d].end = ctx[d].end
<1> DEFINE C == Lent(v, s)  V == Holding(c, v, s)
<1>0. /\ ShapeOf(ctx, vtx, pool, born, top) /\ PoolOf(pool, born)
      /\ TopOf(ctx, vtx, pool, born, top) /\ SubOf(vtx, pool, born)
      /\ UsedOf(ctx, vtx, pool, born, top) /\ OpenOf(ctx, vtx) /\ loaded \subseteq Clusters
  BY DEF IInv, Hold, CallInv
<1>1. vtx[c] # FreshVertices /\ ~Idle(pool, born, c)
  BY <1>0, FreshShape DEF UsedOf
<1>2. /\ \A d \in Ctxs, u \in Vertices :
           /\ V[d][u].sub = IF d = c /\ u = v THEN s ELSE vtx[d][u].sub
           /\ V[d][u].open = vtx[d][u].open /\ V[d][u].st = vtx[d][u].st
      /\ V = [d \in Ctxs |-> V[d]]
      /\ \A d \in Ctxs : Row(V[d]) /\ (d # c => V[d] = vtx[d])
  <2>1. Holding(c, v, s) = [vtx EXCEPT ![c] = [vtx[c] EXCEPT ![v] =
                                                 [vtx[c][v] EXCEPT !.sub = s]]]
    BY DEF Holding
  <2> DEFINE r == [vtx[c][v] EXCEPT !.sub = s]  R == [vtx[c] EXCEPT ![v] = r]
  <2>2. /\ DOMAIN r = VFields /\ r.sub = s
        /\ r.open = vtx[c][v].open /\ r.st = vtx[c][v].st
    BY <1>0 DEF ShapeOf, Row, VFields
  <2> HIDE DEF r
  <2>3. Row(R) /\ \A u \in Vertices : R[u] = IF u = v THEN r ELSE vtx[c][u]
    BY <1>0, <2>2 DEF ShapeOf, Row
  <2>4. V = [vtx EXCEPT ![c] = R]
    BY <2>1 DEF r
  <2> HIDE DEF R, V
  <2>5. V = [d \in Ctxs |-> V[d]] /\ \A d \in Ctxs : V[d] = IF d = c THEN R ELSE vtx[d]
    BY <1>0, <2>4 DEF ShapeOf
  <2> QED
    BY <1>0, <2>2, <2>3, <2>5 DEF ShapeOf
<1>3. /\ C = [d \in Ctxs |-> C[d]]
      /\ \A d \in Ctxs : /\ DOMAIN C[d] = CFields /\ C[d].end = ctx[d].end
                         /\ d = s => C[d].cluster = Decl(v).cluster
                         /\ d # s => C[d] = ctx[d]
  <2>1. CASE s = 0
    BY <1>0, <2>1, Constants DEF Lent, ShapeOf
  <2>2. CASE s # 0
    <3> DEFINE r == [ctx[s] EXCEPT !.cluster = Decl(v).cluster]
    <3>1. DOMAIN r = CFields /\ r.end = ctx[s].end /\ r.cluster = Decl(v).cluster
      BY <1>0, <2>2 DEF ShapeOf, CFields
    <3>2. C = [ctx EXCEPT ![s] = r]
      BY <2>2 DEF Lent
    <3> HIDE DEF r, C
    <3> QED
      BY <1>0, <2>2, <3>1, <3>2 DEF ShapeOf
  <2> QED
    BY <2>1, <2>2
<1> HIDE DEF C, V
<1>4. CASE Decl(v).cluster \in loaded /\ vtx[c][v].sub = 0
  <2>1. GetContext(Decl(v).cluster, s) /\ Decl(v).cluster \in Clusters
    BY <1>0, <1>4 DEF Borrow
  <2>2. pool \in [Clusters -> Seq(Ctxs)] /\ born \in 0..MaxCtxs
    BY <1>0 DEF ShapeOf
  <2>3. /\ s \in Ctxs /\ Idle(pool, born, s)
        /\ pool' \in [Clusters -> Seq(Ctxs)] /\ born' \in 0..MaxCtxs
        /\ PoolOf(pool', born')
        /\ \A d \in Ctxs : Idle(pool', born', d) <=> Idle(pool, born, d) /\ d # s
    BY <1>0, <2>1, <2>2, Got
  <2>4. s # c /\ s # 0 /\ vtx[s] = FreshVertices /\ V[s] = FreshVertices
    BY <1>0, <1>1, <1>2, <2>3, Constants DEF UsedOf
  <2>5. ShapeOf(C, V, pool', born', top)
    BY ZenonT(60), <1>0, <1>2, <1>3, <2>3 DEF ShapeOf
  <2>6. /\ \A e \in Calls : top[e] # s
        /\ \A d \in Ctxs, u \in Vertices : vtx[d][u].sub # s
    BY <1>0, <2>3, <2>4 DEF TopOf, SubOf
  <2>7. TopOf(C, V, pool', born', top)
    <3>1. \A e \in Calls : top[e] # 0 => top[e] \in Ctxs
      BY <1>0 DEF ShapeOf
    <3> QED
      BY <1>0, <1>2, <1>3, <2>3, <2>6, <3>1 DEF TopOf
  <2>8. SubOf(V, pool', born')
    <3>1. \A d \in Ctxs, u \in Vertices : V[d][u].sub # 0 => V[d][u].sub \in Ctxs
      BY <2>5 DEF ShapeOf
    <3> SUFFICES ASSUME NEW d \in Ctxs, NEW u \in Vertices, V[d][u].sub # 0
                 PROVE  /\ ~Idle(pool', born', V[d][u].sub) /\ Decl(u).cluster \in Clusters
                        /\ \A x \in Ctxs, w \in Vertices :
                             V[x][w].sub = V[d][u].sub => x = d /\ w = u
      BY DEF SubOf
    <3>2. CASE d = c /\ u = v
      <4>1. V[d][u].sub = s
        BY <1>2, <3>2
      <4>2. \A x \in Ctxs, w \in Vertices : V[x][w].sub = s => x = c /\ w = v
        BY <1>2, <2>6
      <4> QED
        BY <2>1, <2>3, <3>2, <4>1, <4>2
    <3>3. CASE ~(d = c /\ u = v)
      <4>1. V[d][u].sub = vtx[d][u].sub /\ vtx[d][u].sub # s /\ vtx[d][u].sub # 0
        BY <1>2, <2>6, <3>3
      <4>2. \A x \in Ctxs, w \in Vertices :
              V[x][w].sub = vtx[d][u].sub => vtx[x][w].sub = vtx[d][u].sub
        BY <1>2, <4>1
      <4> QED
        BY <1>0, <2>3, <3>1, <4>1, <4>2 DEF SubOf
    <3> QED
      BY <3>2, <3>3
  <2>9. UsedOf(C, V, pool', born', top)
    <3> SUFFICES ASSUME NEW d \in Ctxs
                 PROVE  IF Idle(pool', born', d)
                        THEN C[d] = FreshContext(None) /\ V[d] = FreshVertices
                        ELSE /\ C[d].cluster \in Clusters
                             /\ \/ \E e \in Calls : top[e] = d
                                \/ \E x \in Ctxs, u \in Vertices : V[x][u].sub = d
      BY DEF UsedOf
    <3>1. CASE d = s
      BY <1>2, <1>3, <2>1, <2>3, <3>1
    <3>2. CASE d # s /\ Idle(pool, born, d)
      BY <1>0, <1>1, <1>2, <1>3, <2>3, <3>2 DEF UsedOf
    <3>3. CASE d # s /\ ~Idle(pool, born, d)
      <4>1. ASSUME NEW x \in Ctxs, NEW u \in Vertices, vtx[x][u].sub = d
            PROVE  V[x][u].sub = d
        BY <1>2, <1>4, <4>1, Constants
      <4> QED
        BY <1>0, <1>3, <2>3, <3>3, <4>1 DEF UsedOf
    <3> QED
      BY <3>1, <3>2, <3>3
  <2>10. OpenOf(C, V)
    <3> SUFFICES ASSUME NEW d \in Ctxs, NEW u \in Vertices
                 PROVE  /\ V[d][u].open => /\ V[d][u].sub # 0
                                           /\ C[V[d][u].sub].end = C[d].end
                        /\ ~V[d][u].open /\ V[d][u].sub # 0 =>
                             V[V[d][u].sub] = FreshVertices
      BY DEF OpenOf
    <3>1. vtx[d][u].sub \in Ctxs \cup {0}
      BY <1>0 DEF ShapeOf
    <3>2. CASE d = c /\ u = v
      BY <1>0, <1>2, <1>4, <2>4, <3>2 DEF OpenOf
    <3>3. CASE ~(d = c /\ u = v)
      BY SMTT(60), <1>0, <1>1, <1>2, <1>3, <3>1, <3>3 DEF OpenOf
    <3> QED
      BY <3>2, <3>3
  <2> QED
    BY <1>2, <1>3, <2>3, <2>5, <2>7, <2>8, <2>9, <2>10 DEF Hold, C, V
<1>5. CASE ~(Decl(v).cluster \in loaded /\ vtx[c][v].sub = 0)
  <2>1. s = vtx[c][v].sub /\ UNCHANGED <<pool, born>>
    BY <1>5 DEF Borrow
  <2>2. \A d \in Ctxs, u \in Vertices : V[d][u].sub = vtx[d][u].sub
    BY <1>2, <2>1
  <2>3. s # 0 => /\ ~Idle(pool, born, s) /\ Decl(v).cluster \in Clusters
    BY <1>0, <2>1 DEF SubOf
  <2>4. ShapeOf(C, V, pool', born', top)
    BY <1>0, <1>2, <1>3, <2>1 DEF ShapeOf
  <2>5. TopOf(C, V, pool', born', top)
    <3>1. \A e \in Calls : top[e] # 0 => top[e] \in Ctxs
      BY <1>0 DEF ShapeOf
    <3> QED
      BY <1>0, <1>3, <2>1, <2>2, <3>1 DEF TopOf
  <2>6. SubOf(V, pool', born')
    BY <1>0, <2>1, <2>2 DEF SubOf
  <2>7. UsedOf(C, V, pool', born', top)
    BY <1>0, <1>1, <1>2, <1>3, <2>1, <2>2, <2>3, Constants DEF UsedOf
  <2>8. OpenOf(C, V)
    <3>1. \A d \in Ctxs, u \in Vertices : vtx[d][u].sub \in Ctxs \cup {0}
      BY <1>0 DEF ShapeOf
    <3> QED
      BY <1>0, <1>1, <1>2, <1>3, <2>2, <3>1 DEF OpenOf
  <2> QED
    BY ZenonT(30), <1>0, <1>2, <1>3, <2>1, <2>4, <2>5, <2>6, <2>7, <2>8 DEF Hold, C, V
<1> QED
  BY <1>4, <1>5
-----------------------------------------------------------------------------
\* The clusters of a behaviour do not change.
LEMMA Primed ==
  ASSUME design' = design, CallInv', Hold(ctx', vtx', pool', born', top')
  PROVE  IInv'
<1>1. \A v : Decl(v)' = Decl(v)
  BY DEF Decl, Decls
<1>2. ShapeOf(ctx, vtx, pool, born, top)' /\ PoolOf(pool, born)'
  BY DEF Hold, ShapeOf, PoolOf, Row
<1>3. TopOf(ctx, vtx, pool, born, top)'
  BY DEF Hold, TopOf, Idle
<1>4. SubOf(vtx, pool, born)'
  BY <1>1 DEF Hold, SubOf, Idle
<1>5. UsedOf(ctx, vtx, pool, born, top)'
  BY DEF Hold, UsedOf, Idle, FreshContext, FreshVertices, FreshVertex
<1>6. OpenOf(ctx, vtx)'
  BY DEF Hold, OpenOf, FreshVertices, FreshVertex
<1> QED
  BY <1>2, <1>3, <1>4, <1>5, <1>6 DEF IInv, Hold

LEMMA SameCalls ==
  ASSUME IInv, UNCHANGED <<loaded, top, call, late>>
  PROVE  CallInv'
  BY DEF IInv, CallInv

\* The vertex v of c starts to run what it has selected.
LEMMA RunKeeps ==
  ASSUME NEW R, Row(R), NEW v \in Vertices, NEW x
  PROVE  LET S == [R EXCEPT ![v] = [R[v] EXCEPT !.st = "running", !.using = x]]
         IN /\ SameHold(R, S)
            /\ \A u \in Vertices : S[u].st = "running" => u = v \/ R[u].st = "running"
  BY DEF SameHold, Row, VFields

\* The steps that make a vertex run, and the others.
OnTime ==
  \A d \in Ctxs, u \in Vertices :
    vtx[d][u].st = "ready" /\ vtx'[d][u].st = "running" => ctx[d].end \notin late

LEMMA ExecuteProcessorStep ==
  ASSUME IInv, NEW c \in Ctxs, NEW v \in Vertices, ExecuteProcessor(c, v)
  PROVE  IInv' /\ OnTime
<1>0. Hold(ctx, vtx, pool, born, top) /\ ShapeOf(ctx, vtx, pool, born, top)
  BY DEF IInv, Hold
<1> DEFINE R == [vtx[c] EXCEPT ![v] = [vtx[c][v] EXCEPT !.st = "running",
                                                        !.using = Selected(c, v)]]
<1>1. /\ SameHold(vtx[c], R)
      /\ \A u \in Vertices : R[u].st = "running" => u = v \/ vtx[c][u].st = "running"
  <2>1. Row(vtx[c])
    BY <1>0 DEF ShapeOf
  <2> QED
    BY <2>1, RunKeeps
<1>2. vtx' = [vtx EXCEPT ![c] = R]
  BY DEF ExecuteProcessor
<1> HIDE DEF R
<1>3. /\ ctx' = ctx /\ pool' = pool /\ born' = born /\ top' = top /\ design' = design
      /\ vtx[c][v].st = "ready" /\ UNCHANGED <<loaded, top, call, late>>
      /\ ctx[c].end \notin late
  BY DEF ExecuteProcessor, Skipped
<1>4. ~Rested(vtx, pool, born, c)
  BY <1>0, <1>3, RestedFresh, FreshShape
<1>5. Work(ctx, vtx, pool, born)
  BY <1>0, <1>1, <1>2, <1>3, <1>4, HoldReflexive DEF Work, ShapeOf
<1>6. Hold(ctx', vtx', pool, born, top)
  BY <1>0, <1>5, WorkStep
<1>7. OnTime
  BY <1>0, <1>1, <1>2, <1>3 DEF OnTime, ShapeOf
<1> QED
  BY <1>3, <1>6, <1>7, Primed, SameCalls

\* A vertex finishes without having been started, skipped or for lack of its
\* graph, with the context it borrowed.
LEMMA LentFinishStep ==
  ASSUME IInv, NEW c \in Ctxs, NEW v \in Vertices, vtx[c][v].st = "ready",
         NEW s \in Ctxs \cup {0}, Borrow(c, v, s), NEW code,
         FinishVertex(c, v, code, Lent(v, s), Holding(c, v, s)),
         UNCHANGED <<design, loaded, top, call, late>>
  PROVE  IInv' /\ OnTime
<1> DEFINE C == Lent(v, s)  V == Holding(c, v, s)
<1>1. /\ Hold(C, V, pool', born', top)
      /\ \A d \in Ctxs, u \in Vertices :
           /\ V[d][u].sub = IF d = c /\ u = v THEN s ELSE vtx[d][u].sub
           /\ V[d][u].open = vtx[d][u].open /\ V[d][u].st = vtx[d][u].st
  BY Lend
<1>2. FinishVertex(c, v, code, C, V)
  OBVIOUS
<1> HIDE DEF C, V
<1>3. \A d \in Ctxs, u \in Vertices : vtx[d][u].open =>
        V[d][u].open /\ V[d][u].sub = vtx[d][u].sub
  <2>1. vtx[c][v].open => vtx[c][v].sub # 0
    BY DEF IInv, Hold, OpenOf
  <2>2. vtx[c][v].open => s = vtx[c][v].sub
    BY <2>1 DEF Borrow
  <2> QED
    BY <1>1, <2>2
<1>4. V[c][v].st # "waiting"
  BY <1>1
<1>5. /\ Work(C, V, pool', born')
      /\ \A d \in Ctxs, u \in Vertices : vtx'[d][u].st = "running" => V[d][u].st = "running"
  BY <1>1, <1>2, <1>3, <1>4, FinishWork
<1>6. Hold(ctx', vtx', pool', born', top')
  BY <1>1, <1>5, WorkStep
<1>7. OnTime
  BY <1>1, <1>5 DEF OnTime
<1> QED
  BY <1>6, <1>7, Primed, SameCalls

LEMMA ReturnStep ==
  ASSUME IInv, NEW c \in Ctxs, NEW v \in Vertices, NEW code, Return(c, v, code)
  PROVE  IInv' /\ OnTime
<1>1. /\ Hold(ctx, vtx, pool, born, top) /\ vtx[c][v].st # "waiting"
      /\ FinishVertex(c, v, code, ctx, vtx)
      /\ UNCHANGED <<design, loaded, pool, born, top, call, late>>
  BY DEF IInv, Return
<1>2. /\ Work(ctx, vtx, pool, born)
      /\ \A d \in Ctxs, u \in Vertices : vtx'[d][u].st = "running" => vtx[d][u].st = "running"
  BY <1>1, FinishWork
<1>3. Hold(ctx', vtx', pool', born', top')
  BY <1>1, <1>2, WorkStep
<1>4. OnTime
  BY <1>2 DEF OnTime
<1> QED
  BY <1>1, <1>3, <1>4, Primed, SameCalls

\* The end of a graph is reported once, to the holder of its context.
LEMMA EndReported ==
  ASSUME NEW T, NEW V, NEW P, NEW b, Hold(ctx, V, P, b, T),
         NEW s \in Ctxs, ~Rested(V, P, b, s)
  PROVE  LET C == [ctx EXCEPT ![s].ended = FALSE]
         IN /\ Hold(C, V, P, b, T)
            /\ C = [d \in Ctxs |-> C[d]]
            /\ \A d \in Ctxs : /\ DOMAIN C[d] = CFields
                               /\ C[d].cluster = ctx[d].cluster /\ C[d].end = ctx[d].end
                               /\ d # s => C[d] = ctx[d]
<1> DEFINE C == [ctx EXCEPT ![s].ended = FALSE]  r == [ctx[s] EXCEPT !.ended = FALSE]
<1>0. /\ ShapeOf(ctx, V, P, b, T) /\ PoolOf(P, b) /\ TopOf(ctx, V, P, b, T)
      /\ SubOf(V, P, b) /\ UsedOf(ctx, V, P, b, T) /\ OpenOf(ctx, V)
  BY DEF Hold
<1>1. DOMAIN r = CFields /\ r.cluster = ctx[s].cluster /\ r.end = ctx[s].end
  BY <1>0 DEF ShapeOf, CFields
<1>2. C = [ctx EXCEPT ![s] = r]
  OBVIOUS
<1> HIDE DEF r, C
<1>3. C = [d \in Ctxs |-> C[d]] /\ \A d \in Ctxs : C[d] = IF d = s THEN r ELSE ctx[d]
  BY <1>0, <1>2 DEF ShapeOf
<1>4. \A d \in Ctxs : /\ DOMAIN C[d] = CFields
                      /\ C[d].cluster = ctx[d].cluster /\ C[d].end = ctx[d].end
                      /\ d # s => C[d] = ctx[d]
  BY <1>0, <1>1, <1>3 DEF ShapeOf
<1>5. ShapeOf(C, V, P, b, T)
  BY <1>0, <1>3, <1>4 DEF ShapeOf
<1>6. TopOf(C, V, P, b, T)
  <2>1. \A e \in Calls : T[e] # 0 => T[e] \in Ctxs
    BY <1>0 DEF ShapeOf
  <2> QED
    BY <1>0, <1>4, <2>1 DEF TopOf
<1>7. UsedOf(C, V, P, b, T)
  BY <1>0, <1>4 DEF UsedOf, Rested
<1>8. OpenOf(C, V)
  <2>1. \A d \in Ctxs, u \in Vertices : V[d][u].sub \in Ctxs \cup {0}
    BY <1>0 DEF ShapeOf
  <2> QED
    BY <1>0, <1>4, <2>1 DEF OpenOf
<1> QED
  BY <1>0, <1>3, <1>4, <1>5, <1>6, <1>7, <1>8 DEF Hold, C

LEMMA SubGraphDoneStep ==
  ASSUME IInv, NEW c \in Ctxs, NEW v \in Vertices, SubGraphDone(c, v)
  PROVE  IInv' /\ OnTime
<1> DEFINE s == vtx[c][v].sub  C == [ctx EXCEPT ![s].ended = FALSE]
<1>1. PICK code : FinishVertex(c, v, code, C, vtx)
  BY DEF SubGraphDone
<1>2. /\ Hold(ctx, vtx, pool, born, top) /\ vtx[c][v].st # "waiting" /\ vtx[c][v].open
      /\ UNCHANGED <<design, loaded, pool, born, top, call, late>>
  BY DEF IInv, SubGraphDone
<1>3. s \in Ctxs /\ ~Rested(vtx, pool, born, s)
  BY <1>2 DEF Hold, OpenOf, ShapeOf, SubOf, Rested
<1>4. Hold(C, vtx, pool, born, top)
  BY <1>2, <1>3, EndReported
<1> HIDE DEF C
<1>5. /\ Work(C, vtx, pool, born)
      /\ \A d \in Ctxs, u \in Vertices : vtx'[d][u].st = "running" => vtx[d][u].st = "running"
  BY <1>1, <1>2, <1>4, FinishWork
<1>6. Hold(ctx', vtx', pool', born', top')
  BY <1>2, <1>4, <1>5, WorkStep
<1>7. OnTime
  BY <1>5 DEF OnTime
<1> QED
  BY <1>2, <1>6, <1>7, Primed, SameCalls

LEMMA GraphDoneStep ==
  ASSUME IInv, NEW e \in Calls, GraphDone(e)
  PROVE  IInv' /\ OnTime
<1>1. /\ Hold(ctx, vtx, pool, born, top) /\ CallInv
      /\ UNCHANGED <<design, loaded, pool, born, top, late, vtx>>
      /\ call[e] = "running" /\ call' = [call EXCEPT ![e] = "done"]
      /\ ctx' = [ctx EXCEPT ![top[e]].ended = FALSE]
  BY DEF IInv, GraphDone
<1>2. top[e] \in Ctxs /\ ~Rested(vtx, pool, born, top[e])
  <2>1. top[e] # 0 /\ top[e] \in Ctxs
    BY <1>1 DEF Hold, ShapeOf, CallInv
  <2>2. ~Idle(pool, born, top[e]) /\ \A c \in Ctxs, v \in Vertices : vtx[c][v].sub # top[e]
    BY <1>1, <2>1 DEF Hold, TopOf
  <2> QED
    BY <2>1, <2>2 DEF Rested
<1>3. Hold(ctx', vtx', pool', born', top')
  BY <1>1, <1>2, EndReported
<1>4. CallInv'
  BY <1>1 DEF CallInv
<1>5. OnTime
  BY <1>1 DEF OnTime
<1> QED
  BY <1>1, <1>3, <1>4, <1>5, Primed
-----------------------------------------------------------------------------
\* The context s that a vertex holds, clean so far, is started.
LEMMA OpenStep ==
  ASSUME NEW C, NEW V, NEW P, NEW b, NEW T, Hold(C, V, P, b, T),
         NEW c \in Ctxs, NEW v \in Vertices, NEW s \in Ctxs,
         V[c][v].sub = s, ~V[c][v].open, s # c,
         ctx' = [d \in Ctxs |-> ctx'[d]], vtx' = [d \in Ctxs |-> vtx'[d]],
         \A d \in Ctxs : /\ DOMAIN ctx'[d] = CFields /\ Row(vtx'[d])
                         /\ d \notin {c, s} => ctx'[d] = C[d] /\ vtx'[d] = V[d],
         ctx'[c].cluster = C[c].cluster, ctx'[c].end = C[c].end,
         ctx'[s].cluster = C[s].cluster, ctx'[s].end = C[c].end,
         \A d \in Ctxs, u \in Vertices :
           /\ vtx'[d][u].sub = V[d][u].sub
           /\ ~(d = c /\ u = v) => vtx'[d][u].open = V[d][u].open,
         vtx'[c][v].open
  PROVE  Hold(ctx', vtx', P, b, T)
<1>0. /\ ShapeOf(C, V, P, b, T) /\ PoolOf(P, b) /\ TopOf(C, V, P, b, T)
      /\ SubOf(V, P, b) /\ UsedOf(C, V, P, b, T) /\ OpenOf(C, V) /\ s # 0
  BY Constants DEF Hold
<1>1. V[s] = FreshVertices /\ V[c] # FreshVertices
  BY <1>0, FreshShape DEF OpenOf
<1>2. ~Idle(P, b, s) /\ ~Idle(P, b, c)
  BY <1>0, <1>1 DEF SubOf, UsedOf
<1>3. \A d \in Ctxs : ctx'[d].cluster = C[d].cluster
  OBVIOUS
<1>4. \A d \in Ctxs : d # s => ctx'[d].end = C[d].end
  OBVIOUS
<1>5. ShapeOf(ctx', vtx', P, b, T)
  BY ZenonT(40), <1>0 DEF ShapeOf
<1>6. TopOf(ctx', vtx', P, b, T)
  <2>1. \A e \in Calls : T[e] # 0 => T[e] \in Ctxs /\ T[e] # s
    <3>1. \A e \in Calls : T[e] # 0 => T[e] \in Ctxs
      BY <1>0 DEF ShapeOf
    <3>2. \A e \in Calls : T[e] # 0 => T[e] # s
      BY <1>0 DEF TopOf
    <3> QED
      BY <3>1, <3>2
  <2> QED
    BY <1>0, <1>4, <2>1 DEF TopOf
<1>7. SubOf(vtx', P, b)
  BY <1>0 DEF SubOf
<1>8. UsedOf(ctx', vtx', P, b, T)
  <2>1. \A d \in Ctxs : Idle(P, b, d) => ctx'[d] = C[d] /\ vtx'[d] = V[d]
    BY <1>2
  <2> QED
    BY SMTT(60), <1>0, <1>3, <2>1 DEF UsedOf
<1>9. OpenOf(ctx', vtx')
  <2> SUFFICES ASSUME NEW d \in Ctxs, NEW u \in Vertices
               PROVE  /\ vtx'[d][u].open => /\ vtx'[d][u].sub # 0
                                            /\ ctx'[vtx'[d][u].sub].end = ctx'[d].end
                      /\ ~vtx'[d][u].open /\ vtx'[d][u].sub # 0 =>
                           vtx'[vtx'[d][u].sub] = FreshVertices
    BY DEF OpenOf
  <2>1. CASE d = c /\ u = v
    BY <1>0, <2>1
  <2>2. CASE ~(d = c /\ u = v)
    <3>1. vtx'[d][u].sub = V[d][u].sub /\ vtx'[d][u].open = V[d][u].open
      BY <2>2
    <3>2. V[d][u].sub # 0 => V[d][u].sub \in Ctxs /\ V[d][u].sub # s
      BY <1>0, <2>2 DEF ShapeOf, SubOf
    <3>3. CASE V[d][u].open
      <4>1. d # s
        BY <1>1, <3>3, FreshShape
      <4> QED
        BY <1>0, <1>4, <3>1, <3>2, <3>3, <4>1 DEF OpenOf
    <3>4. CASE ~V[d][u].open /\ V[d][u].sub # 0
      <4>1. V[V[d][u].sub] = FreshVertices /\ V[d][u].sub # c
        BY <1>0, <1>1, <3>4 DEF OpenOf
      <4> QED
        BY <3>1, <3>2, <3>4, <4>1
    <3> QED
      BY <3>1, <3>3, <3>4
  <2> QED
    BY <2>1, <2>2
<1> QED
  BY <1>0, <1>5, <1>6, <1>7, <1>8, <1>9 DEF Hold

LEMMA FirstRoundStep ==
  ASSUME IInv, NEW c \in Ctxs, NEW v \in Vertices, vtx[c][v].st = "ready",
         NEW s \in Ctxs, Borrow(c, v, s), ~vtx[c][v].open, FirstRound(c, v, s),
         ctx[c].end \notin late, UNCHANGED <<design, loaded, top, call, late>>
  PROVE  IInv' /\ OnTime
<1> DEFINE C == Lent(v, s)  V == Holding(c, v, s)
<1>0. /\ Hold(ctx, vtx, pool, born, top) /\ ShapeOf(ctx, vtx, pool, born, top)
      /\ s # 0
  BY Constants DEF IInv, Hold
<1>1. /\ Hold(C, V, pool', born', top)
      /\ \A d \in Ctxs, u \in Vertices :
           /\ V[d][u].sub = IF d = c /\ u = v THEN s ELSE vtx[d][u].sub
           /\ V[d][u].open = vtx[d][u].open /\ V[d][u].st = vtx[d][u].st
      /\ \A d \in Ctxs : C[d].end = ctx[d].end
  BY Lend
<1>2. s # c
  <2>1. V[s] = FreshVertices
    BY <1>0, <1>1 DEF Hold, OpenOf
  <2> QED
    BY <1>1, <2>1, FreshShape
<1>3. /\ C[c] = ctx[c] /\ C[s].cluster = Decl(v).cluster
      /\ \A d \in Ctxs : d # s => C[d] = ctx[d]
      /\ \A d \in Ctxs : d # c => V[d] = vtx[d]
  <2>1. \A d \in Ctxs : C[d] = IF d = s THEN [ctx[s] EXCEPT !.cluster = Decl(v).cluster]
                               ELSE ctx[d]
    BY <1>0 DEF Lent, ShapeOf
  <2>2. [ctx[s] EXCEPT !.cluster = Decl(v).cluster].cluster = Decl(v).cluster
    BY <1>0 DEF ShapeOf, CFields
  <2>3. \A d \in Ctxs : d # c => V[d] = vtx[d]
    BY <1>0 DEF Holding, ShapeOf
  <2> QED
    BY <1>2, <2>1, <2>2, <2>3
<1> HIDE DEF C, V
<1> DEFINE g == Decl(v).graph
           B == Begun(s, Decl(v).cluster, g, Args(c, v, Selected(c, v)), ctx[c].end, c)
           K == [ctx[c] EXCEPT !.child[0] = s]
           r == [vtx[c][v] EXCEPT !.st = "running", !.sub = s, !.open = TRUE,
                                  !.using = Selected(c, v)]
           R == [vtx[c] EXCEPT ![v] = r]
<1>4. /\ ctx' = [[ctx EXCEPT ![c] = K] EXCEPT ![s] = B]
      /\ vtx' = [[vtx EXCEPT ![c] = R] EXCEPT ![s] = Started(g, vtx[s])]
  BY <1>0, <1>2 DEF FirstRound, ShapeOf
<1>5. DOMAIN B = CFields /\ B.cluster = Decl(v).cluster /\ B.end = ctx[c].end
  BY DEF Begun, FreshContext, CFields
<1>6. DOMAIN K = CFields /\ K.cluster = ctx[c].cluster /\ K.end = ctx[c].end
  BY <1>0 DEF ShapeOf, CFields
<1>7. DOMAIN r = VFields /\ r.sub = s /\ r.open = TRUE /\ r.st = "running"
  BY <1>0 DEF ShapeOf, Row, VFields
<1> HIDE DEF r
<1>8. Row(R) /\ \A u \in Vertices : R[u] = IF u = v THEN r ELSE vtx[c][u]
  BY <1>0, <1>7 DEF ShapeOf, Row
<1>9. /\ SameHold(vtx[s], Started(g, vtx[s]))
      /\ \A u \in Vertices : Started(g, vtx[s])[u].st \in {"ready", vtx[s][u].st}
  BY <1>0, StartedKeeps DEF ShapeOf
<1> HIDE DEF B, K, R, g
<1>10. /\ \A d \in Ctxs : ctx'[d] = IF d = s THEN B ELSE IF d = c THEN K ELSE ctx[d]
       /\ \A d \in Ctxs : vtx'[d] = IF d = s THEN Started(g, vtx[s])
                                    ELSE IF d = c THEN R ELSE vtx[d]
       /\ ctx' = [d \in Ctxs |-> ctx'[d]] /\ vtx' = [d \in Ctxs |-> vtx'[d]]
  BY <1>0, <1>2, <1>4 DEF ShapeOf
<1>11. \A d \in Ctxs : /\ DOMAIN ctx'[d] = CFields /\ Row(vtx'[d])
                       /\ d \notin {c, s} => ctx'[d] = C[d] /\ vtx'[d] = V[d]
  BY <1>0, <1>3, <1>5, <1>6, <1>8, <1>9, <1>10 DEF ShapeOf, SameHold
<1>12. /\ ctx'[c].cluster = C[c].cluster /\ ctx'[c].end = C[c].end
       /\ ctx'[s].cluster = C[s].cluster /\ ctx'[s].end = C[c].end
  BY <1>2, <1>3, <1>5, <1>6, <1>10
<1>13. \A d \in Ctxs, u \in Vertices :
         /\ vtx'[d][u].sub = V[d][u].sub
         /\ ~(d = c /\ u = v) => vtx'[d][u].open = V[d][u].open
  <2> TAKE d \in Ctxs, u \in Vertices
  <2>1. CASE d = c
    BY <1>1, <1>2, <1>7, <1>8, <1>10, <2>1
  <2>2. CASE d = s
    BY <1>2, <1>3, <1>9, <1>10, <2>2 DEF SameHold
  <2>3. CASE d \notin {c, s}
    BY <1>11, <2>3
  <2> QED
    BY <2>1, <2>2, <2>3
<1>14. vtx'[c][v].open /\ ~V[c][v].open /\ V[c][v].sub = s
  BY <1>1, <1>2, <1>7, <1>8, <1>10
<1>15. Hold(ctx', vtx', pool', born', top')
  BY <1>1, <1>2, <1>10, <1>11, <1>12, <1>13, <1>14, OpenStep
<1>16. OnTime
  <2> SUFFICES ASSUME NEW d \in Ctxs, NEW u \in Vertices, vtx[d][u].st = "ready",
                      vtx'[d][u].st = "running"
               PROVE  d = c
    BY DEF OnTime
  <2> QED
    BY <1>9, <1>10
<1> QED
  BY <1>15, <1>16, Primed, SameCalls

LEMMA NextRoundStep ==
  ASSUME IInv, NEW c \in Ctxs, NEW v \in Vertices, vtx[c][v].st = "ready",
         NEW s \in Ctxs, Borrow(c, v, s), vtx[c][v].open, NextRound(c, v, s),
         ctx[c].end \notin late, UNCHANGED <<design, loaded, top, call, late>>
  PROVE  IInv' /\ OnTime
<1>0. Hold(ctx, vtx, pool, born, top) /\ ShapeOf(ctx, vtx, pool, born, top)
  BY DEF IInv, Hold
<1>1. vtx[c][v].sub # 0 /\ s = vtx[c][v].sub /\ pool' = pool /\ born' = born
  BY <1>0 DEF Hold, OpenOf, Borrow
<1>2. ~Rested(vtx, pool, born, c) /\ ~Rested(vtx, pool, born, s)
  <2>1. ~Rested(vtx, pool, born, c)
    BY <1>0, RestedFresh, FreshShape
  <2>2. ~Rested(vtx, pool, born, s)
    BY <1>0, <1>1 DEF Hold, SubOf, Rested
  <2> QED
    BY <2>1, <2>2
<1> DEFINE r == [ctx[s] EXCEPT !.round = 1]
           R == [vtx[c] EXCEPT ![v] = [vtx[c][v] EXCEPT !.st = "running",
                                                        !.using = Selected(c, v)]]
<1>3. DOMAIN r = CFields /\ r.cluster = ctx[s].cluster /\ r.end = ctx[s].end
  BY <1>0 DEF ShapeOf, CFields
<1>4. /\ SameHold(vtx[c], R)
      /\ \A u \in Vertices : R[u].st = "running" => u = v \/ vtx[c][u].st = "running"
  <2>1. Row(vtx[c])
    BY <1>0 DEF ShapeOf
  <2> QED
    BY ONLY <2>1, v \in Vertices, RunKeeps
<1> DEFINE Q == IF s = c THEN R ELSE vtx[s]  g == Decl(v).graph
<1>5. ctx' = [ctx EXCEPT ![s] = r] /\ vtx' = [[vtx EXCEPT ![c] = R] EXCEPT ![s] = Started(g, Q)]
  <2> DEFINE W == [vtx EXCEPT ![c][v].st = "running", ![c][v].using = Selected(c, v)]
  <2>1. ctx' = [ctx EXCEPT ![s] = r] /\ vtx' = [W EXCEPT ![s] = Started(g, W[s])]
    BY DEF NextRound
  <2>2. W = [vtx EXCEPT ![c] = R]
    OBVIOUS
  <2> HIDE DEF W, R, r, g
  <2>3. W[s] = Q
    BY <1>0, <2>2 DEF ShapeOf, Q
  <2> QED
    BY <2>1, <2>2, <2>3
<1> HIDE DEF r, R
<1>6. SameHold(vtx[s], Q) /\ Row(Q)
  BY <1>0, <1>4, HoldReflexive DEF ShapeOf, SameHold
<1> HIDE DEF Q, g
<1>7. /\ SameHold(vtx[s], Started(g, Q))
      /\ \A u \in Vertices : Started(g, Q)[u].st \in {"ready", Q[u].st}
  BY <1>6, StartedKeeps, HoldTransitive
<1>8. /\ \A d \in Ctxs : ctx'[d] = IF d = s THEN r ELSE ctx[d]
      /\ \A d \in Ctxs : vtx'[d] = IF d = s THEN Started(g, Q)
                                   ELSE IF d = c THEN R ELSE vtx[d]
      /\ ctx' = [d \in Ctxs |-> ctx'[d]] /\ vtx' = [d \in Ctxs |-> vtx'[d]]
  BY <1>0, <1>5 DEF ShapeOf
<1>9. Work(ctx, vtx, pool, born)
  <2>1. \A d \in Ctxs : /\ DOMAIN ctx'[d] = CFields
                        /\ ctx'[d].cluster = ctx[d].cluster /\ ctx'[d].end = ctx[d].end
    BY <1>0, <1>3, <1>8 DEF ShapeOf
  <2>2. \A d \in Ctxs : SameHold(vtx[d], vtx'[d])
    BY <1>0, <1>4, <1>7, <1>8, HoldReflexive DEF ShapeOf
  <2>3. \A d \in Ctxs : Rested(vtx, pool, born, d) => ctx'[d] = ctx[d] /\ vtx'[d] = vtx[d]
    BY <1>2, <1>8
  <2> QED
    BY <1>8, <2>1, <2>2, <2>3 DEF Work
<1>10. Hold(ctx', vtx', pool', born', top')
  BY <1>0, <1>1, <1>9, WorkStep
<1>11. OnTime
  <2> SUFFICES ASSUME NEW d \in Ctxs, NEW u \in Vertices, vtx[d][u].st = "ready",
                      vtx'[d][u].st = "running"
               PROVE  d = c
    BY DEF OnTime
  <2> QED
    BY <1>7, <1>8 DEF Q
<1> QED
  BY <1>10, <1>11, Primed, SameCalls

LEMMA ExecuteSubGraphStep ==
  ASSUME IInv, NEW c \in Ctxs, NEW v \in Vertices, ExecuteSubGraph(c, v)
  PROVE  IInv' /\ OnTime
<1>1. PICK s \in Ctxs :
        /\ Borrow(c, v, s) /\ ~Skipped(c, v, s)
        /\ \/ vtx[c][v].open /\ NextRound(c, v, s)
           \/ ~vtx[c][v].open /\ FirstRound(c, v, s)
           \/ NoGraph(c, v, s)
  BY DEF ExecuteSubGraph
<1>2. /\ vtx[c][v].st = "ready" /\ UNCHANGED <<design, loaded, top, call, late>>
      /\ ctx[c].end \notin late
  BY <1>1 DEF ExecuteSubGraph, Skipped
<1>3. CASE vtx[c][v].open /\ NextRound(c, v, s)
  BY <1>1, <1>2, <1>3, NextRoundStep
<1>4. CASE ~vtx[c][v].open /\ FirstRound(c, v, s)
  BY <1>1, <1>2, <1>4, FirstRoundStep
<1>5. CASE NoGraph(c, v, s)
  BY <1>1, <1>2, <1>5, LentFinishStep DEF NoGraph
<1> QED
  BY <1>1, <1>3, <1>4, <1>5

LEMMA ExecuteSkippedStep ==
  ASSUME IInv, NEW c \in Ctxs, NEW v \in Vertices, ExecuteSkipped(c, v)
  PROVE  IInv' /\ OnTime
  BY LentFinishStep DEF ExecuteSkipped
-----------------------------------------------------------------------------
LEMMA ExecuteStep ==
  ASSUME IInv, NEW e \in Calls, Execute(e)
  PROVE  IInv' /\ OnTime
<1> DEFINE B(s) == Begun(s, "top", "main", CallArgs(e), IF e \in Timed THEN e ELSE None, 0)
<1>0. /\ ShapeOf(ctx, vtx, pool, born, top) /\ PoolOf(pool, born)
      /\ TopOf(ctx, vtx, pool, born, top) /\ SubOf(vtx, pool, born)
      /\ UsedOf(ctx, vtx, pool, born, top) /\ OpenOf(ctx, vtx) /\ CallInv
  BY DEF IInv, Hold
<1>1. PICK s \in Ctxs : /\ GetContext("top", s)
                        /\ top' = [top EXCEPT ![e] = s]
                        /\ ctx' = [ctx EXCEPT ![s] = B(s)]
                        /\ vtx' = [vtx EXCEPT ![s] = Started("main", vtx[s])]
  BY <1>0 DEF Execute
<1>2. /\ call[e] = "new" /\ call' = [call EXCEPT ![e] = "running"]
      /\ UNCHANGED <<design, loaded, late>> /\ top[e] = 0
  BY <1>0 DEF Execute, CallInv
<1>3. /\ Idle(pool, born, s)
      /\ pool' \in [Clusters -> Seq(Ctxs)] /\ born' \in 0..MaxCtxs /\ PoolOf(pool', born')
      /\ \A d \in Ctxs : Idle(pool', born', d) <=> Idle(pool, born, d) /\ d # s
  <2>1. pool \in [Clusters -> Seq(Ctxs)] /\ born \in 0..MaxCtxs /\ "top" \in Clusters
    BY <1>0, ClusterAssumption DEF ShapeOf
  <2> QED
    BY <1>0, <1>1, <2>1, Got
<1>4. /\ s # 0 /\ vtx[s] = FreshVertices
      /\ \A f \in Calls : top[f] # s
      /\ \A d \in Ctxs, u \in Vertices : vtx[d][u].sub # s
  BY SMTT(30), <1>0, <1>3, Constants DEF UsedOf, TopOf, SubOf
<1>5. DOMAIN B(s) = CFields /\ B(s).cluster = "top"
      /\ B(s).end = IF e \in Timed THEN e ELSE None
  BY DEF Begun, FreshContext, CFields
<1>6. /\ SameHold(vtx[s], Started("main", vtx[s]))
      /\ \A u \in Vertices : Started("main", vtx[s])[u].st \in {"ready", vtx[s][u].st}
  BY <1>4, StartedKeeps, FreshShape
<1> HIDE DEF B
<1>7. /\ \A d \in Ctxs : ctx'[d] = IF d = s THEN B(s) ELSE ctx[d]
      /\ \A d \in Ctxs : vtx'[d] = IF d = s THEN Started("main", vtx[s]) ELSE vtx[d]
      /\ ctx' = [d \in Ctxs |-> ctx'[d]] /\ vtx' = [d \in Ctxs |-> vtx'[d]]
      /\ \A f \in Calls : top'[f] = IF f = e THEN s ELSE top[f]
      /\ top' \in [Calls -> Ctxs \cup {0}]
  BY <1>0, <1>1 DEF ShapeOf
<1>8. /\ \A d \in Ctxs, u \in Vertices : /\ vtx'[d][u].sub = vtx[d][u].sub
                                         /\ vtx'[d][u].open = vtx[d][u].open
      /\ \A d \in Ctxs : DOMAIN ctx'[d] = CFields /\ Row(vtx'[d])
  BY <1>0, <1>5, <1>6, <1>7 DEF ShapeOf, SameHold
<1>9. ShapeOf(ctx', vtx', pool', born', top')
  BY ZenonT(40), <1>0, <1>3, <1>7, <1>8 DEF ShapeOf
<1>10. TopOf(ctx', vtx', pool', born', top')
  <2> SUFFICES ASSUME NEW f \in Calls, top'[f] # 0
               PROVE  /\ ~Idle(pool', born', top'[f])
                      /\ \A h \in Calls : top'[h] = top'[f] => h = f
                      /\ \A d \in Ctxs, u \in Vertices : vtx'[d][u].sub # top'[f]
                      /\ ctx'[top'[f]].end = IF f \in Timed THEN f ELSE None
    BY DEF TopOf
  <2>1. CASE f = e
    BY <1>3, <1>4, <1>5, <1>7, <1>8, <2>1
  <2>2. CASE f # e
    <3>1. top'[f] = top[f] /\ top[f] # 0 /\ top[f] \in Ctxs /\ top[f] # s
      BY <1>0, <1>4, <1>7, <2>2 DEF ShapeOf
    <3> QED
      BY <1>0, <1>3, <1>7, <1>8, <3>1 DEF TopOf
  <2> QED
    BY <2>1, <2>2
<1>11. SubOf(vtx', pool', born')
  <2>1. \A d \in Ctxs, u \in Vertices : vtx[d][u].sub \in Ctxs \cup {0}
    BY <1>0 DEF ShapeOf
  <2> QED
    BY <1>0, <1>3, <1>8, <2>1 DEF SubOf
<1>12. UsedOf(ctx', vtx', pool', born', top')
  <2> SUFFICES ASSUME NEW d \in Ctxs
               PROVE  IF Idle(pool', born', d)
                      THEN ctx'[d] = FreshContext(None) /\ vtx'[d] = FreshVertices
                      ELSE /\ ctx'[d].cluster \in Clusters
                           /\ \/ \E f \in Calls : top'[f] = d
                              \/ \E x \in Ctxs, u \in Vertices : vtx'[x][u].sub = d
    BY DEF UsedOf
  <2>1. CASE d = s
    BY <1>3, <1>5, <1>7, <2>1, ClusterAssumption
  <2>2. CASE d # s
    <3>1. \A f \in Calls : top[f] = d => top'[f] = d
      BY <1>2, <1>7, Constants
    <3>2. ctx'[d] = ctx[d] /\ vtx'[d] = vtx[d]
          /\ (Idle(pool', born', d) <=> Idle(pool, born, d))
      BY <1>3, <1>7, <2>2
    <3>3. CASE Idle(pool, born, d)
      BY <1>0, <3>2, <3>3 DEF UsedOf
    <3>4. CASE ~Idle(pool, born, d)
      <4>1. ctx[d].cluster \in Clusters
            /\ \/ \E f \in Calls : top[f] = d
               \/ \E x \in Ctxs, u \in Vertices : vtx[x][u].sub = d
        BY <1>0, <3>4 DEF UsedOf
      <4> QED
        BY <1>8, <3>1, <3>2, <3>4, <4>1
    <3> QED
      BY <3>3, <3>4
  <2> QED
    BY <2>1, <2>2
<1>13. OpenOf(ctx', vtx')
  <2>1. \A d \in Ctxs, u \in Vertices :
          /\ vtx[d][u].sub # 0 => vtx[d][u].sub \in Ctxs /\ vtx[d][u].sub # s /\ d # s
    BY <1>0, <1>4, FreshShape DEF ShapeOf
  <2>2. \A u \in Vertices : ~vtx[s][u].open
    BY <1>4, FreshShape
  <2> QED
    BY <1>0, <1>7, <1>8, <2>1, <2>2 DEF OpenOf
<1>14. CallInv'
  BY <1>0, <1>2, <1>4, <1>7 DEF CallInv
<1>15. OnTime
  BY <1>4, <1>6, <1>7 DEF OnTime
<1> QED
  BY <1>2, <1>3, <1>9, <1>10, <1>11, <1>12, <1>13, <1>14, <1>15, Primed DEF Hold

\* A context that is in use is put into a queue.
LEMMA GivenBack ==
  ASSUME pool \in [Clusters -> Seq(Ctxs)], born \in 0..MaxCtxs, PoolOf(pool, born),
         NEW k \in Clusters, NEW c \in Ctxs, ~Idle(pool, born, c),
         pool' = [pool EXCEPT ![k] = Append(pool[k], c)]
  PROVE  /\ pool' \in [Clusters -> Seq(Ctxs)] /\ PoolOf(pool', born)
         /\ \A d \in Ctxs : Idle(pool', born, d) <=> Idle(pool, born, d) \/ d = c
<1>0. pool[k] \in Seq(Ctxs) /\ c \in Nat /\ born \in Nat
  BY Constants
<1> DEFINE n == Len(pool[k]) + 1
<1>1. /\ n \in Nat /\ n \notin DOMAIN pool[k] /\ n \in DOMAIN Append(pool[k], c)
      /\ Append(pool[k], c)[n] = c /\ Append(pool[k], c) \in Seq(Ctxs)
      /\ \A i \in DOMAIN pool[k] : /\ i \in DOMAIN Append(pool[k], c)
                                   /\ Append(pool[k], c)[i] = pool[k][i]
      /\ \A i \in DOMAIN Append(pool[k], c) : i = n \/ i \in DOMAIN pool[k]
  BY <1>0
<1> HIDE DEF n
<1>2. \A l \in Clusters : pool'[l] = IF l = k THEN Append(pool[k], c) ELSE pool[l]
  OBVIOUS
<1>3. /\ \A l \in Clusters : \A i \in DOMAIN pool'[l] :
           \/ l = k /\ i = n /\ pool'[l][i] = c
           \/ i \in DOMAIN pool[l] /\ pool'[l][i] = pool[l][i]
      /\ \A l \in Clusters : \A i \in DOMAIN pool[l] :
           i \in DOMAIN pool'[l] /\ pool'[l][i] = pool[l][i]
      /\ n \in DOMAIN pool'[k] /\ pool'[k][n] = c
  BY <1>1, <1>2
<1>4. c <= born /\ \A l \in Clusters : \A i \in DOMAIN pool[l] : pool[l][i] # c
  BY <1>0 DEF Idle
<1>5. PoolOf(pool', born)
  BY <1>3, <1>4 DEF PoolOf
<1>6. pool' \in [Clusters -> Seq(Ctxs)]
  BY <1>1
<1>7. \A d \in Ctxs : Idle(pool', born, d) <=> Idle(pool, born, d) \/ d = c
  BY <1>3 DEF Idle
<1> QED
  BY <1>5, <1>6, <1>7

\* What is under the context of a call is in use, and is that context or one
\* that a vertex holds.
LEMMA UnderInUse ==
  ASSUME IInv, NEW e \in Calls, top[e] # 0, NEW c \in Under(top[e])
  PROVE  /\ c \in Ctxs /\ ~Idle(pool, born, c)
         /\ c = top[e] \/ \E d \in Ctxs, u \in Vertices : vtx[d][u].sub = c
<1>0. /\ ShapeOf(ctx, vtx, pool, born, top) /\ TopOf(ctx, vtx, pool, born, top)
      /\ SubOf(vtx, pool, born) /\ top[e] \in Ctxs
  BY DEF IInv, Hold, ShapeOf
<1> DEFINE S == {d \in Ctxs : /\ ~Idle(pool, born, d)
                              /\ \/ d = top[e]
                                 \/ \E x \in Ctxs, u \in Vertices : vtx[x][u].sub = d}
<1>1. S \in SUBSET Ctxs /\ top[e] \in S
  BY <1>0 DEF TopOf
<1>2. \A d \in S, u \in Vertices : vtx[d][u].sub \in S \cup {0}
  BY <1>0 DEF ShapeOf, SubOf
<1>3. c \in S
  <2> HIDE DEF S
  <2> QED
    BY <1>1, <1>2 DEF Under
<1> QED
  BY <1>3

LEMMA ReleaseStep ==
  ASSUME IInv, NEW e \in Calls, Release(e)
  PROVE  IInv' /\ OnTime
<1>0. /\ ShapeOf(ctx, vtx, pool, born, top) /\ PoolOf(pool, born)
      /\ TopOf(ctx, vtx, pool, born, top) /\ SubOf(vtx, pool, born)
      /\ UsedOf(ctx, vtx, pool, born, top) /\ OpenOf(ctx, vtx) /\ CallInv
  BY DEF IInv, Hold
<1>1. PICK c \in Under(top[e]) :
        /\ \A v \in Vertices : vtx[c][v].sub = 0
        /\ IF top[e] = c
           THEN call' = [call EXCEPT ![e] = "left"] /\ top' = [top EXCEPT ![e] = 0]
           ELSE UNCHANGED <<call, top>>
        /\ pool' = [pool EXCEPT ![ctx[c].cluster] = Append(pool[ctx[c].cluster], c)]
        /\ ctx' = [ctx EXCEPT ![c] = FreshContext(None)]
        /\ vtx' = [d \in Ctxs |->
                     IF d = c THEN FreshVertices
                     ELSE [v \in Vertices |->
                             IF vtx[d][v].sub = c
                             THEN [vtx[d][v] EXCEPT !.sub = 0, !.open = FALSE]
                             ELSE vtx[d][v]]]
  BY <1>0 DEF Release
<1>2. call[e] = "done" /\ top[e] # 0 /\ UNCHANGED <<design, loaded, born, late>>
  BY <1>0 DEF Release, CallInv
<1>3. /\ c \in Ctxs /\ ~Idle(pool, born, c) /\ c # 0
      /\ c = top[e] \/ \E d \in Ctxs, u \in Vertices : vtx[d][u].sub = c
  BY <1>2, UnderInUse, Constants
<1>4. ctx[c].cluster \in Clusters
  BY <1>0, <1>3 DEF UsedOf
<1>5. /\ pool' \in [Clusters -> Seq(Ctxs)] /\ PoolOf(pool', born')
      /\ \A d \in Ctxs : Idle(pool', born', d) <=> Idle(pool, born, d) \/ d = c
  <2>1. pool \in [Clusters -> Seq(Ctxs)] /\ born \in 0..MaxCtxs
    BY <1>0 DEF ShapeOf
  <2> QED
    BY <1>0, <1>1, <1>2, <1>3, <1>4, <2>1, GivenBack
<1>6. /\ \A f \in Calls : top'[f] = IF top[f] = c THEN 0 ELSE top[f]
      /\ top' \in [Calls -> Ctxs \cup {0}]
  <2>1. \A f \in Calls : top[f] = c => c = top[e]
    BY <1>0, <1>3 DEF TopOf
  <2>2. \A f \in Calls : top[f] = c => f = e
    BY <1>0, <1>2, <2>1 DEF TopOf
  <2> QED
    BY <1>0, <1>1, <2>2 DEF ShapeOf
<1>7. CallInv'
  BY <1>0, <1>1, <1>2, <1>3, <1>6 DEF CallInv
<1>8. /\ ctx' = [d \in Ctxs |-> ctx'[d]]
      /\ \A d \in Ctxs : ctx'[d] = IF d = c THEN FreshContext(None) ELSE ctx[d]
  BY <1>0, <1>1 DEF ShapeOf
<1>9. /\ vtx' = [d \in Ctxs |-> vtx'[d]]
      /\ \A d \in Ctxs : Row(vtx'[d])
      /\ \A d \in Ctxs, u \in Vertices :
           /\ vtx'[d][u].sub = IF vtx[d][u].sub = c THEN 0 ELSE vtx[d][u].sub
           /\ vtx'[d][u].open => vtx[d][u].open /\ vtx[d][u].sub # c
           /\ vtx[d][u].open /\ vtx[d][u].sub # c => vtx'[d][u].open
           /\ vtx'[d][u].st \in {"waiting", vtx[d][u].st}
      /\ vtx'[c] = FreshVertices
      /\ \A d \in Ctxs : (\A u \in Vertices : vtx[d][u].sub # c) /\ d # c => vtx'[d] = vtx[d]
  <2> DEFINE Forget(d) == [v \in Vertices |->
                             IF vtx[d][v].sub = c
                             THEN [vtx[d][v] EXCEPT !.sub = 0, !.open = FALSE]
                             ELSE vtx[d][v]]
  <2>1. /\ vtx' = [d \in Ctxs |-> vtx'[d]]
        /\ \A d \in Ctxs : vtx'[d] = IF d = c THEN FreshVertices ELSE Forget(d)
    BY <1>1
  <2>2. ASSUME NEW d \in Ctxs
        PROVE  /\ Row(Forget(d))
               /\ \A u \in Vertices :
                    /\ Forget(d)[u].sub = IF vtx[d][u].sub = c THEN 0 ELSE vtx[d][u].sub
                    /\ Forget(d)[u].open => vtx[d][u].open /\ vtx[d][u].sub # c
                    /\ vtx[d][u].open /\ vtx[d][u].sub # c => Forget(d)[u].open
                    /\ Forget(d)[u].st = vtx[d][u].st
               /\ (\A u \in Vertices : vtx[d][u].sub # c) => Forget(d) = vtx[d]
    <3>1. Row(vtx[d])
      BY <1>0 DEF ShapeOf
    <3>2. \A u \in Vertices :
            LET r == [vtx[d][u] EXCEPT !.sub = 0, !.open = FALSE]
            IN DOMAIN r = VFields /\ r.sub = 0 /\ r.open = FALSE /\ r.st = vtx[d][u].st
      BY <3>1 DEF Row, VFields
    <3>3. \A u \in Vertices :
            Forget(d)[u] = IF vtx[d][u].sub = c
                           THEN [vtx[d][u] EXCEPT !.sub = 0, !.open = FALSE]
                           ELSE vtx[d][u]
      OBVIOUS
    <3>4. Row(Forget(d))
      BY <3>1, <3>2 DEF Row
    <3>5. (\A u \in Vertices : vtx[d][u].sub # c) => Forget(d) = vtx[d]
      BY <3>1 DEF Row
    <3> HIDE DEF Forget
    <3>6. \A u \in Vertices :
            /\ Forget(d)[u].sub = IF vtx[d][u].sub = c THEN 0 ELSE vtx[d][u].sub
            /\ Forget(d)[u].open => vtx[d][u].open /\ vtx[d][u].sub # c
            /\ vtx[d][u].open /\ vtx[d][u].sub # c => Forget(d)[u].open
            /\ Forget(d)[u].st = vtx[d][u].st
      BY <3>2, <3>3
    <3> QED
      BY <3>4, <3>5, <3>6
  <2> HIDE DEF Forget
  <2>3. \A u \in Vertices : ~vtx[c][u].open
    BY <1>0, <1>1, <1>3 DEF OpenOf
  <2>4. ASSUME NEW d \in Ctxs, NEW u \in Vertices
        PROVE  /\ vtx'[d][u].sub = IF vtx[d][u].sub = c THEN 0 ELSE vtx[d][u].sub
               /\ vtx'[d][u].open => vtx[d][u].open /\ vtx[d][u].sub # c
               /\ vtx[d][u].open /\ vtx[d][u].sub # c => vtx'[d][u].open
               /\ vtx'[d][u].st \in {"waiting", vtx[d][u].st}
    <3>1. CASE d = c
      BY <1>1, <1>3, <2>1, <2>3, <3>1, FreshShape
    <3>2. CASE d # c
      BY <2>1, <2>2, <3>2
    <3> QED
      BY <3>1, <3>2
  <2>5. \A d \in Ctxs : Row(vtx'[d])
    BY <2>1, <2>2, FreshShape
  <2> QED
    BY <1>3, <2>1, <2>2, <2>4, <2>5
<1>10. ShapeOf(ctx', vtx', pool', born', top')
  <2>1. \A d \in Ctxs : DOMAIN ctx'[d] = CFields
    BY <1>0, <1>8, FreshShape DEF ShapeOf
  <2> QED
    BY SMTT(30), <1>0, <1>2, <1>5, <1>6, <1>8, <1>9, <2>1 DEF ShapeOf
<1>11. TopOf(ctx', vtx', pool', born', top')
  <2>1. \A f \in Calls : top'[f] # 0 => top'[f] = top[f] /\ top[f] # c /\ top[f] \in Ctxs
    BY <1>0, <1>6 DEF ShapeOf
  <2> QED
    BY <1>0, <1>5, <1>8, <1>9, <2>1 DEF TopOf
<1>12. SubOf(vtx', pool', born')
  <2>1. \A d \in Ctxs, u \in Vertices : vtx'[d][u].sub # 0 =>
          vtx'[d][u].sub = vtx[d][u].sub /\ vtx[d][u].sub # c /\ vtx[d][u].sub \in Ctxs
    BY <1>0, <1>9 DEF ShapeOf
  <2> QED
    BY <1>0, <1>5, <2>1 DEF SubOf
<1>13. UsedOf(ctx', vtx', pool', born', top')
  <2> SUFFICES ASSUME NEW d \in Ctxs
               PROVE  IF Idle(pool', born', d)
                      THEN ctx'[d] = FreshContext(None) /\ vtx'[d] = FreshVertices
                      ELSE /\ ctx'[d].cluster \in Clusters
                           /\ \/ \E f \in Calls : top'[f] = d
                              \/ \E x \in Ctxs, u \in Vertices : vtx'[x][u].sub = d
    BY DEF UsedOf
  <2>1. CASE d = c
    BY <1>5, <1>8, <1>9, <2>1
  <2>2. CASE d # c /\ Idle(pool, born, d)
    <3>1. vtx[d] = FreshVertices /\ ctx[d] = FreshContext(None)
      BY <1>0, <2>2 DEF UsedOf
    <3>2. \A u \in Vertices : vtx[d][u].sub # c
      BY <1>3, <3>1, FreshShape
    <3> QED
      BY <1>5, <1>8, <1>9, <2>2, <3>1, <3>2
  <2>3. CASE d # c /\ ~Idle(pool, born, d)
    <3>1. ctx[d].cluster \in Clusters
          /\ \/ \E f \in Calls : top[f] = d
             \/ \E x \in Ctxs, u \in Vertices : vtx[x][u].sub = d
      BY <1>0, <2>3 DEF UsedOf
    <3>2. /\ \A f \in Calls : top[f] = d => top'[f] = d
          /\ \A x \in Ctxs, u \in Vertices : vtx[x][u].sub = d => vtx'[x][u].sub = d
      BY <1>6, <1>9, <2>3
    <3>3. ctx'[d] = ctx[d] /\ ~Idle(pool', born', d)
      BY <1>5, <1>8, <2>3
    <3> QED
      BY <3>1, <3>2, <3>3
  <2> QED
    BY <2>1, <2>2, <2>3
<1>14. OpenOf(ctx', vtx')
  <2> SUFFICES ASSUME NEW d \in Ctxs, NEW u \in Vertices
               PROVE  /\ vtx'[d][u].open => /\ vtx'[d][u].sub # 0
                                            /\ ctx'[vtx'[d][u].sub].end = ctx'[d].end
                      /\ ~vtx'[d][u].open /\ vtx'[d][u].sub # 0 =>
                           vtx'[vtx'[d][u].sub] = FreshVertices
    BY DEF OpenOf
  <2>0. vtx[d][u].sub \in Ctxs \cup {0}
    BY <1>0 DEF ShapeOf
  <2>1. CASE vtx'[d][u].open
    <3>1. d # c
      BY <1>9, <2>1, FreshShape
    <3>2. vtx[d][u].open /\ vtx[d][u].sub # c /\ vtx'[d][u].sub = vtx[d][u].sub
      BY <1>9, <2>1
    <3> QED
      BY <1>0, <1>8, <2>0, <2>1, <3>1, <3>2 DEF OpenOf
  <2>2. CASE ~vtx'[d][u].open /\ vtx'[d][u].sub # 0
    <3>1. vtx'[d][u].sub = vtx[d][u].sub /\ vtx[d][u].sub # c /\ vtx[d][u].sub # 0
      BY <1>9, <2>2
    <3>2. ~vtx[d][u].open
      BY <1>9, <2>2, <3>1
    <3>3. vtx[vtx[d][u].sub] = FreshVertices
      BY <1>0, <3>1, <3>2 DEF OpenOf
    <3>4. \A w \in Vertices : vtx[vtx[d][u].sub][w].sub # c
      BY <1>3, <3>3, FreshShape
    <3> QED
      BY <1>9, <2>0, <2>2, <3>1, <3>3, <3>4
  <2> QED
    BY <2>1, <2>2
<1>15. Hold(ctx', vtx', pool', born', top')
  BY <1>5, <1>10, <1>11, <1>12, <1>13, <1>14 DEF Hold
<1>16. OnTime
  BY <1>9 DEF OnTime
<1> QED
  BY <1>2, <1>7, <1>15, <1>16, Primed

LEMMA OtherSteps ==
  ASSUME IInv,
         \/ \E e \in Calls : Expire(e)
         \/ \E k \in Clusters : Load(k)
         \/ Terminated
         \/ UNCHANGED vars
  PROVE  IInv' /\ OnTime
<1>1. UNCHANGED <<design, ctx, vtx, pool, born, top, call>>
  BY DEF Expire, Load, Terminated, vars
<1>2. loaded' \subseteq Clusters /\ late' \subseteq Timed
  BY DEF IInv, CallInv, Expire, Load, Terminated, vars
<1>3. CallInv'
  BY <1>1, <1>2 DEF IInv, CallInv
<1>4. Hold(ctx', vtx', pool', born', top')
  BY <1>1 DEF IInv
<1>5. OnTime
  BY <1>1 DEF OnTime
<1> QED
  BY <1>1, <1>3, <1>4, <1>5, Primed
-----------------------------------------------------------------------------
LEMMA InitHolds ==
  ASSUME Init
  PROVE  IInv
<1>1. CallInv
  BY ClusterAssumption DEF Init, CallInv, Decls
<1>2. /\ \A c \in Ctxs : ctx[c] = FreshContext(None) /\ vtx[c] = FreshVertices
      /\ \A k \in Clusters : pool[k] = <<>> /\ DOMAIN pool[k] = {}
      /\ born = 0 /\ \A e \in Calls : top[e] = 0
  BY DEF Init
<1>3. \A c \in Ctxs, v \in Vertices : vtx[c][v].sub = 0 /\ ~vtx[c][v].open
  BY <1>2, FreshShape
<1>4. \A c \in Ctxs : Idle(pool, born, c)
  BY <1>2, Constants DEF Idle
<1>5. ShapeOf(ctx, vtx, pool, born, top)
  <2>1. ctx = [c \in Ctxs |-> ctx[c]] /\ vtx = [c \in Ctxs |-> vtx[c]]
    BY DEF Init
  <2>2. pool \in [Clusters -> Seq(Ctxs)] /\ top \in [Calls -> Ctxs \cup {0}]
    BY DEF Init
  <2> QED
    BY <1>2, <1>3, <2>1, <2>2, FreshShape, Constants DEF ShapeOf
<1>6. PoolOf(pool, born) /\ TopOf(ctx, vtx, pool, born, top) /\ SubOf(vtx, pool, born)
  BY <1>2, <1>3 DEF PoolOf, TopOf, SubOf
<1>7. UsedOf(ctx, vtx, pool, born, top) /\ OpenOf(ctx, vtx)
  BY <1>2, <1>3, <1>4 DEF UsedOf, OpenOf
<1> QED
  BY <1>1, <1>5, <1>6, <1>7 DEF IInv, Hold

LEMMA NextStep ==
  ASSUME IInv, [Next]_vars
  PROVE  IInv' /\ OnTime
<1>1. CASE \E c \in Ctxs, v \in Vertices :
             \/ ExecuteSkipped(c, v) \/ ExecuteProcessor(c, v) \/ ExecuteSubGraph(c, v)
             \/ \E code \in {"ok", "err"} : Return(c, v, code)
             \/ SubGraphDone(c, v)
  BY <1>1, ExecuteSkippedStep, ExecuteProcessorStep, ExecuteSubGraphStep, ReturnStep,
     SubGraphDoneStep
<1>2. CASE \E e \in Calls : Execute(e) \/ GraphDone(e) \/ Release(e)
  BY <1>2, ExecuteStep, GraphDoneStep, ReleaseStep
<1>3. CASE \/ \E e \in Calls : Expire(e)
           \/ \E k \in Clusters : Load(k)
           \/ Terminated
           \/ UNCHANGED vars
  BY <1>3, OtherSteps
<1> QED
  BY <1>1, <1>2, <1>3 DEF Next

\* Contexts move between the queues of the clusters, the calls and the vertices
\* (GetGraphClusterContext, ReleaseGraphClusterContext, VertexContext::Reset)
\* without being lost, shared or kept dirty, in executions that nest and loop.
THEOREM ClusterInvariance == Spec => []IInv
  BY InitHolds, NextStep, PTL DEF Spec

LEMMA HeldOnce ==
  ASSUME IInv
  PROVE  ContextHeld
<1>0. /\ ShapeOf(ctx, vtx, pool, born, top) /\ PoolOf(pool, born)
      /\ TopOf(ctx, vtx, pool, born, top) /\ SubOf(vtx, pool, born)
      /\ UsedOf(ctx, vtx, pool, born, top)
  BY DEF IInv, Hold
<1> DEFINE Queues(c) == {k \in Clusters : \E i \in DOMAIN pool[k] : pool[k][i] = c}
           Callers(c) == {e \in Calls : top[e] = c}
<1> SUFFICES ASSUME NEW c \in 1..born
             PROVE  /\ Cardinality(Queues(c)) + Cardinality(Callers(c))
                         + Cardinality(Holders(c)) = 1
                    /\ Queues(c) # {} => ctx[c] = FreshContext(None) /\ vtx[c] = FreshVertices
  BY DEF ContextHeld
<1>1. c \in Ctxs /\ c # 0 /\ ~(born < c) /\ born \in Nat
  BY <1>0, Constants DEF ShapeOf
<1>2. Idle(pool, born, c) <=> Queues(c) # {}
  BY <1>1 DEF Idle
<1>3. \A h \in Holders(c) : h \in Ctxs \X Vertices /\ vtx[h[1]][h[2]].sub = c
  BY SMTT(30), <1>0, Constants DEF Holders, ShapeOf
<1>4. ASSUME NEW d \in Ctxs, NEW v \in Vertices, vtx[d][v].sub = c
      PROVE  <<d, v>> \in Holders(c)
  <2>1. ~Idle(pool, born, d)
    BY <1>0, <1>1, <1>4, FreshShape DEF UsedOf
  <2>2. d \in 1..born
    BY <1>1, <2>1, Constants DEF Idle
  <2> QED
    BY <1>4, <2>2 DEF Holders
<1>5. CASE Queues(c) # {}
  <2>1. PICK k \in Clusters : k \in Queues(c)
    BY <1>5
  <2>2. Queues(c) = {k}
    BY <1>0, <2>1 DEF PoolOf
  <2>3. Callers(c) = {} /\ Holders(c) = {}
    <3>1. Idle(pool, born, c)
      BY <1>2, <1>5
    <3>2. \A e \in Calls : top[e] # c
      BY <1>0, <1>1, <3>1 DEF TopOf
    <3>3. \A d \in Ctxs, v \in Vertices : vtx[d][v].sub # c
      BY <1>0, <1>1, <3>1 DEF SubOf
    <3> QED
      BY <1>3, <3>2, <3>3
  <2>4. Cardinality(Queues(c)) = 1 /\ Cardinality(Callers(c)) = 0 /\ Cardinality(Holders(c)) = 0
    BY <2>2, <2>3, FS_Singleton, FS_EmptySet
  <2> QED
    BY <1>0, <1>1, <1>2, <1>5, <2>4 DEF UsedOf
<1>6. CASE Queues(c) = {} /\ Callers(c) # {}
  <2>1. PICK e \in Calls : top[e] = c
    BY <1>6
  <2>2. Callers(c) = {e}
    BY <1>0, <1>1, <2>1 DEF TopOf
  <2>3. Holders(c) = {}
    BY ZenonT(40), <1>0, <1>1, <1>3, <2>1 DEF TopOf
  <2>4. Cardinality(Queues(c)) = 0 /\ Cardinality(Callers(c)) = 1 /\ Cardinality(Holders(c)) = 0
    BY <1>6, <2>2, <2>3, FS_Singleton, FS_EmptySet
  <2> QED
    BY <1>6, <2>4
<1>7. CASE Queues(c) = {} /\ Callers(c) = {}
  <2>1. PICK d \in Ctxs, v \in Vertices : vtx[d][v].sub = c
    BY <1>0, <1>1, <1>2, <1>7 DEF UsedOf
  <2>2. Holders(c) = {<<d, v>>}
    <3>1. \A h \in Holders(c) : h = <<d, v>>
      <4> TAKE h \in Holders(c)
      <4>1. h = <<h[1], h[2]>> /\ h[1] \in Ctxs /\ h[2] \in Vertices /\ vtx[h[1]][h[2]].sub = c
        BY <1>3
      <4>2. h[1] = d /\ h[2] = v
        BY <1>0, <1>1, <2>1, <4>1 DEF SubOf
      <4> QED
        BY <4>1, <4>2
    <3> QED
      BY <1>4, <2>1, <3>1
  <2>3. Cardinality(Queues(c)) = 0 /\ Cardinality(Callers(c)) = 0 /\ Cardinality(Holders(c)) = 1
    BY <1>7, <2>2, FS_Singleton, FS_EmptySet
  <2> QED
    BY <1>7, <2>3
<1> QED
  BY <1>5, <1>6, <1>7

\* A context has exactly one place, the queue of a cluster, a call or a vertex
\* (GraphStore::GetGraphClusterContext, ReleaseGraphClusterContext), and one in
\* a queue was reset: for any clusters, nesting and number of calls at once.
THEOREM ContextHeldHolds == Spec => []ContextHeld
  BY ClusterInvariance, HeldOnce, PTL

\* The end time reaches every graph of the call that has work to do.
LEMMA EndPassedDown ==
  ASSUME IInv, NEW e \in Timed, top[e] # 0, NEW c \in Under(top[e]), NEW v \in Vertices,
         vtx[c][v].st = "ready"
  PROVE  ctx[c].end = e
<1>0. /\ ShapeOf(ctx, vtx, pool, born, top) /\ TopOf(ctx, vtx, pool, born, top)
      /\ OpenOf(ctx, vtx) /\ e \in Calls /\ top[e] \in Ctxs
  BY ClusterAssumption DEF IInv, Hold, ShapeOf
<1> DEFINE S == {d \in Ctxs : ctx[d].end = e \/ vtx[d] = FreshVertices}
<1>1. S \in SUBSET Ctxs /\ top[e] \in S
  BY <1>0 DEF TopOf
<1>2. \A d \in S, u \in Vertices : vtx[d][u].sub \in S \cup {0}
  <2> TAKE d \in S, u \in Vertices
  <2>1. vtx[d][u].sub \in Ctxs \cup {0}
    BY <1>0 DEF ShapeOf
  <2>2. CASE vtx[d] = FreshVertices
    BY <2>2, FreshShape
  <2>3. CASE ctx[d].end = e
    BY <1>0, <2>1, <2>3 DEF OpenOf
  <2> QED
    BY <2>2, <2>3
<1>3. c \in S
  <2> HIDE DEF S
  <2> QED
    BY <1>1, <1>2 DEF Under
<1> QED
  BY <1>3, FreshShape

\* After the end time of a call, no vertex starts in the graph of the call or
\* in a subgraph at any depth (SetEndTime and the test of the end time in
\* VertexContext::Execute), although each level reads only its own copy.
THEOREM NoLateStartHolds == Spec => NoLateStart
<1>1. IInv /\ [Next]_vars =>
        [\A c \in Ctxs, v \in Vertices :
           vtx[c][v].st = "ready" /\ vtx'[c][v].st = "running" =>
             \A e \in late : call[e] = "running" => c \notin Under(top[e])]_vars
  <2> SUFFICES ASSUME IInv, [Next]_vars, NEW c \in Ctxs, NEW v \in Vertices,
                      vtx[c][v].st = "ready", vtx'[c][v].st = "running",
                      NEW e \in late, call[e] = "running", c \in Under(top[e])
               PROVE  FALSE
    OBVIOUS
  <2>1. e \in Timed /\ top[e] # 0
    BY ClusterAssumption DEF IInv, CallInv
  <2>2. ctx[c].end = e
    BY <2>1, EndPassedDown
  <2>3. OnTime
    BY NextStep
  <2> QED
    BY <2>2, <2>3 DEF OnTime
<1> QED
  BY <1>1, ClusterInvariance, PTL DEF Spec, NoLateStart
=============================================================================
