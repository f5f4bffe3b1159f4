-------------------------- MODULE GraphData_proofs ---------------------------
(***************************************************************************)
(* Type correctness of the data of a graph context, and that no value of   *)
(* an earlier execution reaches a vertex, that what the producers made     *)
(* reaches their consumer, that a value that is moved has one owner and    *)
(* that what is moved for a skipped vertex reaches its consumer, for every *)
(* graph.                                                                  *)
(*                                                                         *)
(* What a vertex holds it read from some context, so the invariant has to  *)
(* say of every value in every context where it comes from: the caller and *)
(* the container keep values over executions, and none of a vertex; the    *)
(* graph's own table and the contexts of subgraphs have values of vertices *)
(* of the execution at hand only, and none between executions.             *)
(***************************************************************************)
EXTENDS GraphData, TLAPS, WellFoundedInduction

Mine(val) == val.by \in Vertices => val.run = run /\ phase = "executing"

Rest ==
  /\ graph \in Graphs /\ run \in 0..MaxRuns
  /\ phase \in {"idle", "executing", "failed"}
  /\ child \subseteq Vertices
  /\ res \in [Vertices -> {"INVALID", "OK", "ERR", "SKIP"}]

\* Where the thread of a vertex is, and that what it is at exists.
Control ==
  /\ pos \in [Vertices -> {"waiting", "injecting", "running", "emitting",
                           "moving", "clearing", "done"}]
  /\ step \in [Vertices -> Nat \ {0}]
  /\ place \in [Vertices -> Seq(Contexts \cup {"children"})]
  /\ \A v \in Vertices :
       /\ pos[v] # "done" => phase = "executing"
       /\ pos[v] \in {"emitting", "moving", "clearing"} =>
            step[v] \in DOMAIN graph.output[v]
       /\ pos[v] = "clearing" => /\ place[v] # <<>> /\ Head(place[v]) \in Contexts
                                 /\ graph.output[v][step[v]].from \in Keys

Stored ==
  /\ data \in [Contexts -> [Keys -> Values \cup {NoValue}]]
  /\ \A c \in Contexts : \A k \in Keys : data[c][k] # NoValue =>
       /\ k \in Table(c) /\ Mine(data[c][k])
       /\ c \in {"caller", "container"} => data[c][k].by \notin Vertices

Holding ==
  /\ held = [v \in Vertices |-> held[v]]
  /\ \A v \in Vertices :
       /\ held[v] \in [DOMAIN graph.input[v] -> SUBSET Values]
       /\ \A n \in DOMAIN held[v] : \A val \in held[v][n] : Mine(val)

IInv == Rest /\ Control /\ Stored /\ Holding
-----------------------------------------------------------------------------
LEMMA GraphType ==
  ASSUME graph \in Graphs
  PROVE  /\ \A v \in Vertices : /\ graph.input[v] \in Seq(Input)
                                /\ graph.output[v] \in Seq(Output)
                                /\ graph.inner[v] \subseteq Keys
                                /\ \A n \in DOMAIN graph.output[v] :
                                     graph.output[v][n].inOut \in 0..Len(graph.input[v])
         /\ Registered \subseteq Keys
         /\ \A c \in Contexts : Table(c) \subseteq Keys
<1>1. graph \in Graph
  BY DataAssumption
<1>2. \A v \in Vertices : /\ graph.input[v] \in Seq(Input)
                          /\ graph.output[v] \in Seq(Output)
                          /\ graph.inner[v] \subseteq Keys
  BY <1>1 DEF Graph
<1>3. \A v \in Vertices : \A n \in DOMAIN graph.output[v] :
        graph.output[v][n].inOut \in 0..Len(graph.input[v])
  BY DataAssumption
<1>4. ASSUME NEW v \in Vertices, NEW o \in ToSet(graph.output[v]) PROVE o.id \in Keys
  <2>1. PICK n \in DOMAIN graph.output[v] : o = graph.output[v][n]
    BY DEF ToSet
  <2>2. o \in Output
    BY <1>2, <2>1
  <2> QED
    BY <2>2 DEF Output
<1>5. ASSUME NEW v \in Vertices, NEW i \in ToSet(graph.input[v]) PROVE i.ids[1] \in Keys
  <2>1. PICK n \in DOMAIN graph.input[v] : i = graph.input[v][n]
    BY DEF ToSet
  <2>2. i \in Input
    BY <1>2, <2>1
  <2> QED
    BY <2>2 DEF Input
<1>6. Registered \subseteq Keys
  BY <1>4, <1>5 DEF Registered, Outputs
<1>7. \A c \in Contexts : Table(c) \subseteq Keys
  BY <1>2, <1>6, DataAssumption DEF Table, Contexts
<1> QED
  BY <1>2, <1>3, <1>6, <1>7

\* What Setup makes of the graph does not change.
LEMMA SameTable ==
  ASSUME graph' = graph
  PROVE  Registered' = Registered /\ \A c : Table(c)' = Table(c)
  BY DEF Registered, Table, Outputs

\* The contexts to search are contexts.
LEMMA PathType ==
  ASSUME NEW l
  PROVE  Path(l) \in Seq(Contexts \cup {"children"})
<1> DEFINE S == Contexts \cup {"children"}
           Where(c, there) == IF there THEN <<c>> ELSE <<>>
<1>1. \A c \in S : \A b : Where(c, b) \in Seq(S)
  OBVIOUS
<1>2. {"own", "caller", "container", "children"} \subseteq S
  BY DEF Contexts
<1>3. \A s, t \in Seq(S) : s \o t \in Seq(S)
  OBVIOUS
<1> HIDE DEF S
<1>4. Where("own", l.entry \in Registered /\ l.name # NoKey) \in Seq(S)
  BY <1>1, <1>2, Zenon
<1>5. Where("caller", l.name \in Outer) \in Seq(S)
  BY <1>1, <1>2, Zenon
<1>6. Where("container", l.name \in Container /\ ~l.move) \in Seq(S)
  BY <1>1, <1>2, Zenon
<1>7. Where("children", \E v \in Vertices : l.name \in graph.inner[v]) \in Seq(S)
  BY <1>1, <1>2, Zenon
<1>8. Path(l) \in Seq(S)
  <2> HIDE DEF Where
  <2> QED
    BY <1>3, <1>4, <1>5, <1>6, <1>7, Zenon DEF Path, Where
<1> QED
  BY <1>8 DEF S

\* A step on to the next lookup or output keeps threads in order.
Onwards(v) ==
  /\ UNCHANGED <<graph, phase>>
  /\ phase = "executing"
  /\ \/ \E n \in Nat \ {0} : Seek(v, n)
     \/ \E n \in Nat \ {0}, stage \in {"emitting", "moving"} : Deliver(v, n, stage)

LEMMA OnwardsStep ==
  ASSUME Rest, Control, NEW v \in Vertices, Onwards(v)
  PROVE  Control'
<1>1. CASE \E n \in Nat \ {0} : Seek(v, n)
  <2>1. PICK n \in Nat \ {0} : Seek(v, n)
    BY <1>1
  <2>2. PICK q \in {"injecting", "running"}, m \in Nat \ {0},
             p \in Seq(Contexts \cup {"children"}) :
          /\ pos' = [pos EXCEPT ![v] = q] /\ step' = [step EXCEPT ![v] = m]
          /\ place' = [place EXCEPT ![v] = p]
    <3> DEFINE more == n <= Len(Lookups(v))
               q == IF more THEN "injecting" ELSE "running"
               m == IF more THEN n ELSE 1
               p == IF more THEN Path(Lookups(v)[n]) ELSE <<>>
    <3>1. p \in Seq(Contexts \cup {"children"})
      BY PathType
    <3> WITNESS q \in {"injecting", "running"}, m \in Nat \ {0},
                p \in Seq(Contexts \cup {"children"})
    <3> QED
      BY <2>1 DEF Seek
  <2> QED
    BY <2>2 DEF Control, Onwards
<1>2. CASE \E n \in Nat \ {0}, stage \in {"emitting", "moving"} : Deliver(v, n, stage)
  <2>1. PICK n \in Nat \ {0}, stage \in {"emitting", "moving"} : Deliver(v, n, stage)
    BY <1>2
  <2>2. graph.output[v] \in Seq(Output)
    BY GraphType DEF Rest
  <2>3. PICK q \in {"emitting", "moving", "done"}, m \in Nat \ {0} :
          /\ pos' = [pos EXCEPT ![v] = q] /\ step' = [step EXCEPT ![v] = m]
          /\ place' = [place EXCEPT ![v] = <<>>]
          /\ q # "done" => m \in DOMAIN graph.output[v]
    <3> DEFINE more == n <= Len(graph.output[v])
               q == IF more THEN stage ELSE "done"
               m == IF more THEN n ELSE 1
    <3>1. q \in {"emitting", "moving", "done"} /\ m \in Nat \ {0}
      OBVIOUS
    <3>2. q # "done" => m \in DOMAIN graph.output[v]
      BY <2>2
    <3>3. /\ pos' = [pos EXCEPT ![v] = q] /\ step' = [step EXCEPT ![v] = m]
          /\ place' = [place EXCEPT ![v] = <<>>]
      BY <2>1 DEF Deliver
    <3> HIDE DEF q, m
    <3> QED
      BY <3>1, <3>2, <3>3
  <2> QED
    BY <2>3 DEF Control, Onwards
<1> QED
  BY <1>1, <1>2 DEF Onwards

\* One entry changes.
LEMMA PutStep ==
  ASSUME Rest, Stored, UNCHANGED <<graph, run, phase>>,
         NEW c \in Contexts, NEW k \in Keys, NEW x \in Values \cup {NoValue},
         x # NoValue => /\ k \in Table(c) /\ Mine(x)
                        /\ c \in {"caller", "container"} => x.by \notin Vertices,
         data' = [data EXCEPT ![c][k] = x]
  PROVE  Stored'
<1>1. \A d \in Contexts : \A m \in Keys :
        data'[d][m] = IF d = c /\ m = k THEN x ELSE data[d][m]
  BY DEF Stored
<1>2. data' \in [Contexts -> [Keys -> Values \cup {NoValue}]]
  BY DEF Stored
<1>3. \A d : Table(d)' = Table(d)
  BY SameTable
<1>4. \A val : Mine(val)' <=> Mine(val)
  BY DEF Mine
<1> QED
  BY <1>1, <1>2, <1>3, <1>4 DEF Stored

LEMMA SameStored ==
  ASSUME Stored, UNCHANGED <<graph, run, phase, data>>
  PROVE  Stored'
  BY SameTable DEF Stored, Mine

LEMMA SameHolding ==
  ASSUME Holding, UNCHANGED <<graph, run, phase, held>>
  PROVE  Holding'
  BY DEF Holding, Mine

-----------------------------------------------------------------------------
\* What the current lookup finds is an entry of a context.
LEMMA SourceType ==
  ASSUME IInv, NEW v \in Vertices, NEW c \in Sources(v)
  PROVE  LET k == KeyIn(Current(v), c) IN
         /\ c \in Contexts /\ k \in Keys /\ k \in Table(c)
         /\ data[c][k] \in Values /\ Mine(data[c][k])
<1> DEFINE k == KeyIn(Current(v), c)
<1>1. place[v] # <<>> /\ place[v] \in Seq(Contexts \cup {"children"})
  BY DEF Sources, IInv, Control
<1>2. Head(place[v]) \in Contexts \cup {"children"}
  BY <1>1
<1>3. c \in IF Head(place[v]) = "children" THEN child ELSE {Head(place[v])}
  BY <1>1 DEF Sources
<1>4. c \in Contexts
  BY <1>2, <1>3 DEF Contexts, IInv, Rest
<1>5. k \in Table(c) /\ data[c][k] # NoValue
  BY <1>1 DEF Sources
<1>6. k \in Keys
  BY <1>4, <1>5, GraphType DEF IInv, Rest
<1> HIDE DEF k
<1>7. data[c][k] \in Values /\ Mine(data[c][k])
  BY <1>4, <1>5, <1>6 DEF IInv, Stored
<1> QED
  BY <1>4, <1>5, <1>6, <1>7 DEF k

LEMMA TakeStep ==
  ASSUME IInv, NEW v \in Vertices, Take(v)
  PROVE  IInv'
<1>0. Rest /\ Control /\ Stored /\ Holding
  BY DEF IInv
<1>1. pos[v] = "injecting" /\ UNCHANGED <<graph, run, phase, child, res>>
  BY DEF Take
<1>2. Control'
  <2>1. phase = "executing" /\ step[v] + 1 \in Nat \ {0} /\ Seek(v, step[v] + 1)
    BY <1>0, <1>1 DEF Control, Take
  <2>2. Onwards(v)
    BY <1>1, <2>1 DEF Onwards
  <2> QED
    BY <1>0, <2>2, OnwardsStep
<1>3. PICK c \in Sources(v) :
        LET l == Current(v)  val == data[c][KeyIn(l, c)] IN
        /\ held' = [held EXCEPT ![v][l.input] =
                      IF graph.input[v][l.input].aggregate THEN @ \cup {val} ELSE {val}]
        /\ data' = IF l.move THEN [data EXCEPT ![c][KeyIn(l, c)] = NoValue] ELSE data
  BY DEF Take
<1> DEFINE l == Current(v)  k == KeyIn(l, c)  val == data[c][k]
<1>4. c \in Contexts /\ k \in Keys /\ k \in Table(c) /\ val \in Values /\ Mine(val)
  BY SourceType
<1>5. Stored'
  <2>1. CASE data' = data
    BY <1>0, <1>1, <2>1, SameStored
  <2>2. CASE data' = [data EXCEPT ![c][k] = NoValue]
    <3> HIDE DEF k
    <3> QED
      BY <1>0, <1>1, <1>4, <2>2, PutStep
  <2> QED
    BY <1>3, <2>1, <2>2
<1>6. Holding'
  <2> DEFINE x == IF graph.input[v][l.input].aggregate
                  THEN held[v][l.input] \cup {val} ELSE {val}
  <2>1. held' = [held EXCEPT ![v] = [held[v] EXCEPT ![l.input] = x]]
    BY <1>3
  <2> HIDE DEF l, k, val
  <2>2. ASSUME NEW n \in DOMAIN held[v], n = l.input
        PROVE  x \subseteq Values /\ \A y \in x : Mine(y)
    BY <1>0, <1>4, <2>2 DEF Holding
  <2>3. \A y : Mine(y)' <=> Mine(y)
    BY <1>1 DEF Mine
  <2>4. held[v] \in [DOMAIN graph.input[v] -> SUBSET Values]
    BY <1>0 DEF Holding
  <2> HIDE DEF x
  <2> DEFINE h == [held[v] EXCEPT ![l.input] = x]
  <2>5. /\ h \in [DOMAIN graph.input[v] -> SUBSET Values]
        /\ \A n \in DOMAIN h : h[n] = IF n = l.input THEN x ELSE held[v][n]
        /\ DOMAIN h = DOMAIN held[v]
    BY <2>2, <2>4
  <2>6. \A n \in DOMAIN h : \A y \in h[n] : Mine(y)
    BY <1>0, <2>2, <2>5 DEF Holding
  <2>7. held' = [held EXCEPT ![v] = h]
    BY <2>1
  <2> HIDE DEF h
  <2>8. \A u \in Vertices : held'[u] = IF u = v THEN h ELSE held[u]
    BY <1>0, <2>7 DEF Holding
  <2>9. held' = [u \in Vertices |-> held'[u]]
    BY <1>0, <2>7 DEF Holding
  <2> QED
    BY <1>0, <1>1, <2>3, <2>5, <2>6, <2>8, <2>9 DEF Holding
<1>7. Rest'
  BY <1>0, <1>1 DEF Rest
<1> QED
  BY <1>2, <1>5, <1>6, <1>7 DEF IInv

\* Steps of a vertex that leave values alone, and the end of a subgraph.
LEMMA OtherStep ==
  ASSUME IInv, NEW v \in Vertices,
         Skip(v) \/ Start(v) \/ PassBy(v) \/ Miss(v) \/ Finish(v) \/ MoveNothing(v)
  PROVE  IInv'
<1>0. Rest /\ Control /\ Stored /\ Holding
  BY DEF IInv
<1>1. UNCHANGED <<graph, run, phase, child, data, held>>
  BY DEF Skip, Start, PassBy, Miss, Finish, MoveNothing
<1>2. Stored' /\ Holding'
  BY <1>0, <1>1, SameStored, SameHolding
<1>3. res' \in [Vertices -> {"INVALID", "OK", "ERR", "SKIP"}]
  <2>1. \/ res' = res \/ res' = [res EXCEPT ![v] = "OK"]
        \/ res' = [res EXCEPT ![v] = "ERR"] \/ res' = [res EXCEPT ![v] = "SKIP"]
    BY DEF Skip, Start, PassBy, Miss, Finish, MoveNothing
  <2> QED
    BY <1>0, <2>1 DEF Rest
<1>4. phase = "executing"
  BY <1>0 DEF Control, Skip, Start, Ready, PassBy, Miss, Finish, MoveNothing
<1>5. step[v] + 1 \in Nat \ {0}
  BY <1>0 DEF Control
<1>6. CASE PassBy(v)
  <2>1. /\ place[v] \in Seq(Contexts \cup {"children"}) /\ place[v] # <<>>
        /\ pos[v] = "injecting" /\ UNCHANGED <<pos, step>>
        /\ place' = [place EXCEPT ![v] = Tail(place[v])]
    BY <1>0, <1>6 DEF PassBy, Control
  <2>2. Tail(place[v]) \in Seq(Contexts \cup {"children"})
    BY <2>1
  <2>3. Control'
    BY <1>0, <1>1, <2>1, <2>2 DEF Control
  <2> QED
    BY <1>0, <1>1, <1>2, <1>3, <2>3 DEF IInv, Rest
<1>7. CASE ~PassBy(v)
  <2>1. \/ \E n \in Nat \ {0} : Seek(v, n)
        \/ \E n \in Nat \ {0}, stage \in {"emitting", "moving"} : Deliver(v, n, stage)
    BY <1>5, <1>7 DEF Skip, Start, Miss, Finish, MoveNothing
  <2>2. Onwards(v)
    BY <1>1, <1>4, <2>1 DEF Onwards
  <2> QED
    BY <1>0, <1>1, <1>2, <1>3, <2>2, OnwardsStep DEF IInv, Rest
<1> QED
  BY <1>6, <1>7

LEMMA SubGraphStep ==
  ASSUME IInv, NEW v \in Vertices, FinishSubGraph(v)
  PROVE  IInv'
<1>0. Rest /\ Control /\ Stored /\ Holding
  BY DEF IInv
<1>1. pos[v] = "running" /\ UNCHANGED <<graph, run, phase, held>>
  BY DEF FinishSubGraph
<1>2. phase = "executing"
  BY <1>0, <1>1 DEF Control
<1>3. Control'
  <2>1. Onwards(v)
    BY <1>1, <1>2 DEF Onwards, FinishSubGraph
  <2> QED
    BY <1>0, <2>1, OnwardsStep
<1>4. PICK made \in SUBSET graph.inner[v], r \in {"OK", "ERR"} :
        /\ data' = [data EXCEPT ![v] = [k \in Keys |->
                      IF k \in made THEN [by |-> v, key |-> k, run |-> run] ELSE NoValue]]
        /\ res' = [res EXCEPT ![v] = r]
  BY DEF FinishSubGraph
<1>5. Stored'
  <2> DEFINE d == [k \in Keys |-> IF k \in made THEN [by |-> v, key |-> k, run |-> run]
                                  ELSE NoValue]
  <2>1. \A k \in Keys : [by |-> v, key |-> k, run |-> run] \in Values
    BY <1>0 DEF Values, Rest
  <2>2. d \in [Keys -> Values \cup {NoValue}]
    BY <2>1
  <2>3. \A k \in Keys : d[k] # NoValue => /\ k \in graph.inner[v]
                                          /\ d[k].by = v /\ d[k].run = run
    OBVIOUS
  <2>4. v \in Contexts /\ v \notin {"caller", "container"} /\ Table(v) = graph.inner[v]
    BY DataAssumption DEF Contexts, Table
  <2>5. data' = [data EXCEPT ![v] = d]
    BY <1>4
  <2> HIDE DEF d
  <2>6. /\ data' \in [Contexts -> [Keys -> Values \cup {NoValue}]]
        /\ \A c \in Contexts : data'[c] = IF c = v THEN d ELSE data[c]
    BY <1>0, <2>2, <2>4, <2>5 DEF Stored
  <2>7. \A val : Mine(val)' <=> Mine(val)
    BY <1>1 DEF Mine
  <2>8. \A c : Table(c)' = Table(c)
    BY <1>1, SameTable
  <2>9. \A k \in Keys : d[k] # NoValue => Mine(d[k])
    BY <1>2, <2>3 DEF Mine
  <2> QED
    BY <1>0, <2>3, <2>4, <2>6, <2>7, <2>8, <2>9 DEF Stored
<1>6. Rest'
  BY <1>0, <1>1, <1>4 DEF Rest, FinishSubGraph
<1>7. Holding'
  BY <1>0, <1>1, SameHolding
<1> QED
  BY <1>3, <1>5, <1>6, <1>7 DEF IInv

\* The declaration of the output a vertex is at.
LEMMA OutputType ==
  ASSUME IInv, NEW v \in Vertices, pos[v] \in {"emitting", "moving", "clearing"}
  PROVE  LET o == graph.output[v][step[v]] IN
         /\ o \in Output /\ o.inOut \in 0..Len(graph.input[v])
         /\ graph.input[v] \in Seq(Input) /\ phase = "executing"
<1>1. step[v] \in DOMAIN graph.output[v] /\ phase = "executing" /\ graph \in Graphs
  BY DEF IInv, Control, Rest
<1>2. graph.output[v] \in Seq(Output) /\ graph.input[v] \in Seq(Input)
  BY <1>1, GraphType
<1>3. graph.output[v][step[v]].inOut \in 0..Len(graph.input[v])
  BY <1>1, GraphType
<1> QED
  BY <1>1, <1>2, <1>3

\* What a vertex puts out is its own or what it holds.
LEMMA ProducedType ==
  ASSUME IInv, NEW v \in Vertices, pos[v] = "emitting"
  PROVE  LET val == Produced(v, graph.output[v][step[v]]) IN
         val \in Values \cup {NoValue} /\ (val # NoValue => Mine(val))
<1> DEFINE o == graph.output[v][step[v]]
<1>0. o \in Output /\ o.inOut \in 0..Len(graph.input[v]) /\ phase = "executing"
      /\ graph.input[v] \in Seq(Input)
  BY OutputType
<1> HIDE DEF o
<1>1. CASE o.inOut = 0
  <2> DEFINE x == [by |-> v, key |-> o.id, run |-> run]
  <2>1. x \in Values /\ x.run = run
    BY <1>0 DEF Values, Output, IInv, Rest
  <2> HIDE DEF x
  <2>2. Mine(x)
    BY <1>0, <2>1 DEF Mine
  <2> QED
    BY <1>1, <2>1, <2>2 DEF Produced, o, x
<1>2. CASE o.inOut # 0
  <2> DEFINE S == held[v][o.inOut]
             P(val) == val = NoValue => S = {}
             y == CHOOSE val \in S \cup {NoValue} : P(val)
  <2>1. o.inOut \in DOMAIN held[v]
    BY <1>0, <1>2 DEF IInv, Holding
  <2>2. S \subseteq Values /\ \A val \in S : Mine(val)
    BY <2>1 DEF IInv, Holding
  <2>3. \A val \in Values : val # NoValue
    BY DEF Values, NoValue
  <2>4. \E val \in S \cup {NoValue} : P(val)
    BY <2>2, <2>3
  <2>5. y \in S \cup {NoValue}
    BY <2>4
  <2>6. Produced(v, o) = y
    BY <1>2 DEF Produced
  <2> HIDE DEF y, S
  <2> QED
    BY <2>2, <2>5, <2>6 DEF o
<1> QED
  BY <1>1, <1>2

LEMMA EmitStep ==
  ASSUME IInv, NEW v \in Vertices, Emit(v)
  PROVE  IInv'
<1>0. Rest /\ Control /\ Stored /\ Holding
  BY DEF IInv
<1> DEFINE o == graph.output[v][step[v]]
<1>1. /\ pos[v] = "emitting" /\ UNCHANGED <<graph, run, phase, child, held, res>>
      /\ Deliver(v, step[v] + 1, "emitting")
      /\ data' = IF Resolve(o.id) \in Registered
                 THEN [data EXCEPT !["own"][Resolve(o.id)] = Produced(v, o)] ELSE data
  BY DEF Emit
<1>2. phase = "executing" /\ step[v] + 1 \in Nat \ {0}
  BY <1>0, <1>1 DEF Control
<1>3. Control'
  <2>1. Onwards(v)
    BY <1>1, <1>2 DEF Onwards
  <2> QED
    BY <1>0, <2>1, OnwardsStep
<1>4. Stored'
  <2>1. CASE data' = data
    BY <1>0, <1>1, <2>1, SameStored
  <2>2. CASE Resolve(o.id) \in Registered
    <3>1. Resolve(o.id) \in Keys /\ "own" \in Contexts /\ Table("own") = Registered
      BY <1>0, <2>2, GraphType DEF Rest, Contexts, Table
    <3>2. /\ Produced(v, o) \in Values \cup {NoValue}
          /\ Produced(v, o) # NoValue => Mine(Produced(v, o))
      BY <1>1, ProducedType
    <3>3. data' = [data EXCEPT !["own"][Resolve(o.id)] = Produced(v, o)]
      BY <1>1, <2>2
    <3> HIDE DEF o
    <3> QED
      BY <1>0, <1>1, <2>2, <3>1, <3>2, <3>3, PutStep
  <2> QED
    BY <1>1, <2>1, <2>2
<1>5. Holding' /\ Rest'
  BY <1>0, <1>1, SameHolding DEF Rest
<1> QED
  BY <1>3, <1>4, <1>5 DEF IInv

LEMMA MoveCopyStep ==
  ASSUME IInv, NEW v \in Vertices, MoveCopy(v)
  PROVE  IInv'
<1> DEFINE o == graph.output[v][step[v]]
<1>0. Rest /\ Control /\ Stored /\ Holding
  BY DEF IInv
<1>1. UNCHANGED <<graph, run, phase, child, held, res>>
  BY DEF MoveCopy
<1>2. Holding' /\ Rest'
  BY <1>0, <1>1, SameHolding DEF Rest
<1>3. /\ pos[v] = "moving" /\ Movable(o) /\ step' = step
      /\ pos' = [pos EXCEPT ![v] = "clearing"]
  BY Zenon DEF MoveCopy
<1>4. PICK c \in EntryContexts(o.from) :
        /\ data' = [data EXCEPT !["own"][o.id] = data[c][o.from]]
        /\ place' = [place EXCEPT ![v] = <<c>>]
  BY Zenon DEF MoveCopy
<1>5. phase = "executing" /\ step[v] \in DOMAIN graph.output[v]
  BY <1>0, <1>3 DEF Control
<1>6. o \in Output
  <2>1. pos[v] \in {"emitting", "moving", "clearing"}
    BY <1>3
  <2> QED
    BY <2>1, OutputType
<1> HIDE DEF o
<1>7. c \in Contexts
  BY <1>0, <1>4 DEF EntryContexts, Contexts, Rest
<1>8. o.from \in Keys /\ o.id \in Keys /\ o.id \in Registered
  BY <1>3, <1>6 DEF Output, Movable
<1>9. "own" \in Contexts /\ Table("own") = Registered
  BY DEF Contexts, Table
<1>10. /\ data[c][o.from] \in Values \cup {NoValue}
       /\ data[c][o.from] # NoValue => Mine(data[c][o.from])
  BY <1>0, <1>7, <1>8 DEF Stored
<1>11. Stored'
  BY <1>0, <1>1, <1>4, <1>8, <1>9, <1>10, PutStep
<1>12. <<c>> # <<>> /\ Head(<<c>>) = c /\ <<c>> \in Seq(Contexts \cup {"children"})
  BY <1>7
<1>13. Control'
  BY <1>0, <1>1, <1>3, <1>4, <1>5, <1>7, <1>8, <1>12 DEF Control, o
<1> QED
  BY <1>2, <1>11, <1>13 DEF IInv

LEMMA MoveClearStep ==
  ASSUME IInv, NEW v \in Vertices, MoveClear(v)
  PROVE  IInv'
<1> DEFINE o == graph.output[v][step[v]]
<1>0. Rest /\ Control /\ Stored /\ Holding
  BY DEF IInv
<1>1. UNCHANGED <<graph, run, phase, child, held, res>>
  BY DEF MoveClear
<1>2. Holding' /\ Rest'
  BY <1>0, <1>1, SameHolding DEF Rest
<1>3. /\ pos[v] = "clearing" /\ Deliver(v, step[v] + 1, "moving")
      /\ data' = [data EXCEPT ![Head(place[v])][o.from] = NoValue]
  BY DEF MoveClear
<1>4. /\ Head(place[v]) \in Contexts /\ o.from \in Keys
      /\ phase = "executing" /\ step[v] + 1 \in Nat \ {0}
  BY <1>0, <1>3 DEF Control
<1> HIDE DEF o
<1>5. Stored'
  BY <1>0, <1>1, <1>3, <1>4, PutStep
<1>6. Onwards(v)
  BY <1>1, <1>3, <1>4 DEF Onwards
<1> QED
  BY <1>0, <1>2, <1>5, <1>6, OnwardsStep DEF IInv

\* Between executions there is no value of a vertex anywhere.
LEMMA ContextStep ==
  ASSUME IInv, ExecuteFails \/ Execute \/ Reset \/ UNCHANGED vars
  PROVE  IInv'
<1>0. Rest /\ Control /\ Stored /\ Holding
  BY DEF IInv
<1>1. graph' = graph /\ \A c : Table(c)' = Table(c)
  BY SameTable DEF ExecuteFails, Execute, Reset, vars
<1>2. CASE UNCHANGED vars
  <2>1. UNCHANGED <<graph, run, phase, data, child, pos, step, place, held, res>>
    BY <1>2 DEF vars
  <2> QED
    BY <1>0, <2>1, SameStored, SameHolding DEF IInv, Rest, Control
<1>3. CASE ExecuteFails
  <2>1. \A val : Mine(val) => Mine(val)'
    BY <1>3 DEF ExecuteFails, Mine
  <2>2. Stored' /\ Holding'
    BY <1>0, <1>1, <1>3, <2>1 DEF ExecuteFails, Stored, Holding
  <2> QED
    BY <1>0, <1>3, <2>2 DEF IInv, ExecuteFails, Rest, Control
<1>4. CASE Execute
  <2>1. \A val : Mine(val) => val.by \notin Vertices /\ Mine(val)'
    BY <1>4 DEF Execute, Mine
  <2>2. run' \in 0..MaxRuns
    BY <1>0, <1>4, DataAssumption DEF Execute, Rest
  <2>3. Rest' /\ Control'
    BY <1>0, <1>4, <2>2 DEF Execute, Rest, Control
  <2>4. Holding'
    BY <1>0, <1>1, <1>4, <2>1 DEF Execute, Holding
  <2>5. CASE data' = data
    BY <1>0, <1>1, <2>1, <2>3, <2>4, <2>5 DEF IInv, Stored
  <2>6. CASE data' = [data EXCEPT !["caller"] = FromCaller(run')]
    <3> DEFINE d == FromCaller(run')
    <3>1. \A k \in Keys : [by |-> "caller", key |-> k, run |-> run'] \in Values
      BY <2>2 DEF Values
    <3>2. d \in [Keys -> Values \cup {NoValue}]
      BY <3>1 DEF FromCaller
    <3>3. \A k \in Keys : d[k] # NoValue => k \in Outer /\ d[k].by = "caller"
      BY DEF FromCaller
    <3>4. "caller" \in Contexts /\ "caller" \notin Vertices /\ Table("caller") = Outer
      BY DataAssumption DEF Contexts, Table
    <3> HIDE DEF d
    <3>5. /\ data' \in [Contexts -> [Keys -> Values \cup {NoValue}]]
          /\ \A c \in Contexts : data'[c] = IF c = "caller" THEN d ELSE data[c]
      BY <1>0, <2>6, <3>2, <3>4 DEF Stored, d
    <3>6. \A val : val.by \notin Vertices => Mine(val)'
      BY DEF Mine
    <3>7. Stored'
      BY <1>0, <1>1, <2>1, <3>3, <3>4, <3>5, <3>6 DEF Stored
    <3> QED
      BY <2>3, <2>4, <3>7 DEF IInv
  <2> QED
    BY <1>4, <2>5, <2>6 DEF Execute
<1>5. CASE Reset
  <2>1. /\ UNCHANGED <<graph, run, pos, step, place>> /\ phase' = "idle"
        /\ \A v \in Vertices : pos[v] = "done"
        /\ child' = {} /\ held' = FreshHeld
        /\ res' = [v \in Vertices |-> "INVALID"]
        /\ data' = [c \in Contexts |->
                      IF c \in {"caller", "container"} THEN data[c] ELSE Empty]
    BY <1>5 DEF Reset
  <2>2. Rest' /\ Control'
    BY <1>0, <2>1 DEF Rest, Control
  <2>3. Holding'
    BY <1>0, <2>1 DEF Holding, FreshHeld
  <2>4. Empty \in [Keys -> Values \cup {NoValue}] /\ \A k \in Keys : Empty[k] = NoValue
    BY DEF Empty
  <2>5. \A val : val.by \notin Vertices => Mine(val)'
    BY DEF Mine
  <2>6. Stored'
    BY <1>0, <1>1, <2>1, <2>4, <2>5 DEF Stored
  <2> QED
    BY <2>2, <2>3, <2>6 DEF IInv
<1> QED
  BY <1>2, <1>3, <1>4, <1>5

LEMMA InvInit == Init => IInv
<1> SUFFICES ASSUME Init PROVE IInv
  OBVIOUS
<1>1. Rest
  BY DataAssumption DEF Init, Rest
<1>2. Control
  BY DEF Init, Control
<1>3. Holding
  BY DEF Init, Holding, FreshHeld
<1>4. \A c \in Contexts :
        /\ data[c] \in [Keys -> Values \cup {NoValue}]
        /\ \A k \in Keys : data[c][k] # NoValue =>
             k \in Table(c) /\ data[c][k].by \notin Vertices
  <2> TAKE c \in Contexts
  <2>1. CASE c = "caller"
    <3>1. data[c] = FromCaller(0) /\ Table(c) = Outer /\ "caller" \notin Vertices
      BY <2>1, DataAssumption DEF Init, Table
    <3>2. \A k \in Keys : [by |-> "caller", key |-> k, run |-> 0] \in Values
      BY DataAssumption DEF Values
    <3> QED
      BY <3>1, <3>2 DEF FromCaller
  <2>2. CASE c = "container"
    <3>1. data[c] = FromContainer /\ Table(c) = Container /\ "container" \notin Vertices
      BY <2>2, DataAssumption DEF Init, Table
    <3>2. \A k \in Keys : [by |-> "container", key |-> k, run |-> 0] \in Values
      BY DataAssumption DEF Values
    <3> QED
      BY <3>1, <3>2 DEF FromContainer
  <2>3. CASE c \notin {"caller", "container"}
    BY <2>3 DEF Init, Empty
  <2> QED
    BY <2>1, <2>2, <2>3
<1>5. data = [c \in Contexts |-> data[c]]
  BY DEF Init
<1>6. Stored
  BY <1>4, <1>5 DEF Stored, Mine
<1> QED
  BY <1>1, <1>2, <1>3, <1>6 DEF IInv

LEMMA InvStep == IInv /\ [Next]_vars => IInv'
  BY ContextStep, TakeStep, OtherStep, SubGraphStep, EmitStep, MoveCopyStep, MoveClearStep
  DEF Next
-----------------------------------------------------------------------------
\* The invariant holds of every execution of every graph.
THEOREM DataInvariance == Spec => []IInv
  BY InvInit, InvStep, PTL DEF Spec

\* The data of a graph context stay well typed: a value is only ever in an
\* entry that was registered, whatever names variables resolve to.
THEOREM DataTypeCorrect == Spec => []TypeOK
<1>1. IInv => TypeOK
  <2> SUFFICES ASSUME IInv PROVE TypeOK
    OBVIOUS
  <2>1. \A v \in Vertices : ToSet(place[v]) \subseteq Contexts \cup {"children"}
    BY DEF IInv, Control, ToSet
  <2> QED
    BY <2>1 DEF IInv, Rest, Control, Stored, Holding, TypeOK
<1> QED
  BY <1>1, DataInvariance, PTL

\* No vertex gets a value that a vertex made in an earlier execution of the
\* context: Reset leaves none, neither in the table nor in a child.
THEOREM OwnRunHolds == Spec => []OwnRun
<1>1. IInv => OwnRun
  BY DEF IInv, Holding, Mine, OwnRun
<1> QED
  BY <1>1, DataInvariance, PTL
-----------------------------------------------------------------------------
(***************************************************************************)
(* FlattenSeq, by the least element of a set of naturals in place of an     *)
(* induction.                                                              *)
(***************************************************************************)
\* A set of naturals that is not empty has a least element.
LEMMA LeastNatural ==
  ASSUME NEW T, T \subseteq Nat, T # {}
  PROVE  \E x \in T : \A y \in T : x <= y
<1> DEFINE R == OpToRel(<, Nat)
<1>1. IsWellFoundedOn(R, Nat)
  BY NatLessThanWellFounded
<1>2. \A x, y \in Nat : <<y, x>> \in R <=> y < x
  BY DEF OpToRel
<1> HIDE DEF R
<1>3. PICK x \in T : \A y \in T : ~(<<y, x>> \in R)
  BY <1>1, WFMin
<1>4. \A y \in T : ~(y < x)
  BY <1>2, <1>3
<1> QED
  BY <1>4

\* f flattens the first n sequences of B, step by step.
Flattens(f, B, n) ==
  f = [i \in 1..n |-> IF i = 1 THEN B[i] ELSE f[i - 1] \o B[i]]

LEMMA FlattenIs ==
  ASSUME NEW B, Len(B) # 0
  PROVE  FlattenSeq(B) = (CHOOSE f : Flattens(f, B, Len(B)))[Len(B)]
BY Zenon DEF FlattenSeq, Flattens

LEMMA FlattensExists ==
  ASSUME NEW B, NEW N \in Nat, N # 0
  PROVE  \E f : Flattens(f, B, N)
<1> DEFINE T == {n \in Nat : n # 0 /\ ~\E f : Flattens(f, B, n)}
<1> SUFFICES ASSUME T # {} PROVE FALSE
  OBVIOUS
<1>1. PICK n \in T : \A m \in T : n <= m
  BY LeastNatural
<1>2. n \in Nat /\ n # 0 /\ ~\E f : Flattens(f, B, n)
  BY <1>1
<1>3. CASE n = 1
  <2> DEFINE f == [i \in 1..1 |-> B[1]]
  <2>1. f = [i \in 1..1 |-> IF i = 1 THEN B[i] ELSE f[i - 1] \o B[i]]
    OBVIOUS
  <2> QED
    BY <1>2, <1>3, <2>1 DEF Flattens
<1>4. CASE n # 1
  <2>1. n - 1 \in Nat /\ n - 1 # 0 /\ n - 1 \notin T
    BY <1>1, <1>2, <1>4
  <2>2. PICK g : Flattens(g, B, n - 1)
    BY <2>1
  <2> DEFINE f == [i \in 1..n |-> IF i = n THEN g[n - 1] \o B[n] ELSE g[i]]
  <2>3. \A i \in 1..(n - 1) : f[i] = g[i] /\ g[i] = IF i = 1 THEN B[i] ELSE g[i - 1] \o B[i]
    <3> DEFINE e == [i \in 1..(n - 1) |-> IF i = 1 THEN B[i] ELSE g[i - 1] \o B[i]]
    <3>1. \A i \in 1..(n - 1) : e[i] = IF i = 1 THEN B[i] ELSE g[i - 1] \o B[i]
      OBVIOUS
    <3>2. g = e
      BY <2>2 DEF Flattens
    <3>3. \A i \in 1..(n - 1) : i \in 1..n /\ i # n
      BY <1>2
    <3>4. \A i \in 1..(n - 1) : f[i] = g[i]
      BY <3>3
    <3> HIDE DEF e, f
    <3> QED
      BY <3>1, <3>2, <3>4
  <2>4. \A i \in 1..(n - 1) : i # 1 => i - 1 \in 1..(n - 1)
    BY <1>2
  <2>5. f[n] = f[n - 1] \o B[n] /\ n # 1
    <3>1. n \in 1..n /\ n - 1 \in 1..n /\ n - 1 # n
      BY <1>2, <2>1
    <3>2. f[n] = g[n - 1] \o B[n] /\ f[n - 1] = g[n - 1]
      BY <3>1
    <3> QED
      BY <1>4, <3>2
  <2>6. \A i \in 1..n : i = n \/ i \in 1..(n - 1)
    BY <1>2
  <2>7. DOMAIN f = 1..n /\ f = [i \in 1..n |-> f[i]]
    OBVIOUS
  <2> HIDE DEF f
  <2>8. \A i \in 1..n : f[i] = IF i = 1 THEN B[i] ELSE f[i - 1] \o B[i]
    BY <2>3, <2>4, <2>5, <2>6
  <2>9. Flattens(f, B, n)
    BY <2>7, <2>8 DEF Flattens
  <2> QED
    BY <1>2, <2>9
<1> QED
  BY <1>3, <1>4

\* f holds what is in the first n sequences of B, each place once.
Flat(f, B, n) ==
  /\ \A j \in 1..n : \A m \in DOMAIN B[j] : \E q \in DOMAIN f : f[q] = B[j][m]
  /\ \A q \in DOMAIN f : \E j \in 1..n : \E m \in DOMAIN B[j] : f[q] = B[j][m]
  /\ \A q, r \in DOMAIN f : q # r =>
       \E j, i \in 1..n : \E m \in DOMAIN B[j], k \in DOMAIN B[i] :
         /\ f[q] = B[j][m] /\ f[r] = B[i][k]
         /\ j # i \/ m # k

LEMMA FlatOne ==
  ASSUME NEW S, NEW B \in Seq(Seq(S)), Len(B) # 0
  PROVE  B[1] \in Seq(S) /\ Flat(B[1], B, 1)
<1>1. 1..1 = {1} /\ B[1] \in Seq(S)
  OBVIOUS
<1> QED
  BY <1>1, Zenon DEF Flat

LEMMA FlatMore ==
  ASSUME NEW S, NEW B \in Seq(Seq(S)), NEW n \in 1..Len(B), n # 1,
         NEW f \in Seq(S), Flat(f, B, n - 1)
  PROVE  f \o B[n] \in Seq(S) /\ Flat(f \o B[n], B, n)
<1> DEFINE b == B[n]  h == f \o b
<1>1. b \in Seq(S) /\ n \in Nat /\ h \in Seq(S)
  OBVIOUS
<1>2. \A q \in DOMAIN f : q \in DOMAIN h /\ h[q] = f[q]
  BY <1>1
<1>3. \A m \in DOMAIN b : Len(f) + m \in DOMAIN h /\ h[Len(f) + m] = b[m]
  BY <1>1
<1>4. \A q \in DOMAIN h : q \in DOMAIN f \/ \E m \in DOMAIN b : q = Len(f) + m
  <2> TAKE q \in DOMAIN h
  <2>1. q \in 1..(Len(f) + Len(b)) /\ DOMAIN f = 1..Len(f) /\ DOMAIN b = 1..Len(b)
    BY <1>1
  <2>2. CASE q > Len(f)
    <3>1. q - Len(f) \in DOMAIN b /\ q = Len(f) + (q - Len(f))
      BY <2>1, <2>2
    <3> QED
      BY <3>1
  <2> QED
    BY <2>1, <2>2
<1>5. 1..n = 1..(n - 1) \cup {n} /\ n \notin 1..(n - 1)
  BY <1>1
<1> HIDE DEF h
<1>6. ASSUME NEW j \in 1..n, NEW m \in DOMAIN B[j]
      PROVE  \E q \in DOMAIN h : h[q] = B[j][m]
  <2>1. CASE j \in 1..(n - 1)
    <3>1. PICK q \in DOMAIN f : f[q] = B[j][m]
      BY <2>1 DEF Flat
    <3> QED
      BY <1>2, <3>1
  <2>2. CASE j = n
    BY <1>3, <2>2
  <2> QED
    BY <1>5, <2>1, <2>2
<1>7. ASSUME NEW q \in DOMAIN h
      PROVE  \E j \in 1..n : \E m \in DOMAIN B[j] : h[q] = B[j][m]
  <2>1. CASE q \in DOMAIN f
    <3>1. PICK j \in 1..(n - 1) : \E m \in DOMAIN B[j] : f[q] = B[j][m]
      BY <2>1 DEF Flat
    <3> QED
      BY <1>2, <1>5, <2>1, <3>1
  <2>2. CASE \E m \in DOMAIN b : q = Len(f) + m
    BY <1>3, <1>5, <2>2
  <2> QED
    BY <1>4, <2>1, <2>2
<1>8. ASSUME NEW q \in DOMAIN h, NEW r \in DOMAIN h, q # r
      PROVE  \E j, i \in 1..n : \E m \in DOMAIN B[j], k \in DOMAIN B[i] :
               /\ h[q] = B[j][m] /\ h[r] = B[i][k]
               /\ j # i \/ m # k
  <2>1. CASE q \in DOMAIN f /\ r \in DOMAIN f
    <3>0. PICK j \in 1..(n - 1), i \in 1..(n - 1) :
            \E m \in DOMAIN B[j], k \in DOMAIN B[i] :
              f[q] = B[j][m] /\ f[r] = B[i][k] /\ (j # i \/ m # k)
      BY <1>8, <2>1 DEF Flat
    <3>1. PICK m \in DOMAIN B[j], k \in DOMAIN B[i] :
            f[q] = B[j][m] /\ f[r] = B[i][k] /\ (j # i \/ m # k)
      BY <3>0
    <3>2. j \in 1..n /\ i \in 1..n /\ h[q] = f[q] /\ h[r] = f[r]
      BY <1>2, <1>5, <2>1
    <3>3. \E x \in DOMAIN B[j], y \in DOMAIN B[i] :
            h[q] = B[j][x] /\ h[r] = B[i][y] /\ (j # i \/ x # y)
      BY <3>1, <3>2
    <3> QED
      BY <3>2, <3>3, Zenon
  <2>2. ASSUME NEW x \in DOMAIN f, NEW m \in DOMAIN b
        PROVE  \E j \in 1..n : \E l \in DOMAIN B[j] :
                 h[x] = B[j][l] /\ j # n /\ h[Len(f) + m] = B[n][m] /\ n \in 1..n
    <3>1. PICK j \in 1..(n - 1) : \E l \in DOMAIN B[j] : f[x] = B[j][l]
      BY DEF Flat
    <3> QED
      BY <1>2, <1>3, <1>5, <3>1
  <2>3. CASE \E l, m \in DOMAIN b : q = Len(f) + l /\ r = Len(f) + m
    <3>1. PICK l \in DOMAIN b, m \in DOMAIN b : q = Len(f) + l /\ r = Len(f) + m
      BY <2>3
    <3>2. l # m /\ h[q] = B[n][l] /\ h[r] = B[n][m] /\ n \in 1..n
      BY <1>3, <1>5, <1>8, <3>1
    <3> QED
      BY <3>2, Zenon
  <2>4. CASE q \in DOMAIN f /\ \E m \in DOMAIN b : r = Len(f) + m
    <3>1. PICK m \in DOMAIN b : r = Len(f) + m
      BY <2>4
    <3>2. PICK j \in 1..n : \E l \in DOMAIN B[j] :
            h[q] = B[j][l] /\ j # n /\ h[Len(f) + m] = B[n][m] /\ n \in 1..n
      BY <2>2, <2>4
    <3> QED
      BY <3>1, <3>2
  <2>5. CASE r \in DOMAIN f /\ \E m \in DOMAIN b : q = Len(f) + m
    <3>1. PICK m \in DOMAIN b : q = Len(f) + m
      BY <2>5
    <3>2. PICK j \in 1..n : \E l \in DOMAIN B[j] :
            h[r] = B[j][l] /\ j # n /\ h[Len(f) + m] = B[n][m] /\ n \in 1..n
      BY <2>2, <2>5
    <3> QED
      BY <3>1, <3>2, ZenonT(60)
  <2> QED
    BY <1>4, <2>1, <2>3, <2>4, <2>5
<1>9. Flat(h, B, n)
  BY <1>6, <1>7, <1>8, Zenon DEF Flat
<1> QED
  BY <1>1, <1>9 DEF h

LEMMA FlattenSeqIs ==
  ASSUME NEW S, NEW B \in Seq(Seq(S))
  PROVE  FlattenSeq(B) \in Seq(S) /\ Flat(FlattenSeq(B), B, Len(B))
<1>1. CASE Len(B) = 0
  <2>1. FlattenSeq(B) = B /\ B = <<>> /\ 1..Len(B) = {} /\ DOMAIN B = {}
    BY <1>1 DEF FlattenSeq
  <2> QED
    BY <2>1 DEF Flat
<1>2. CASE Len(B) # 0
  <2> DEFINE N == Len(B)
             f == CHOOSE g : Flattens(g, B, N)
  <2>1. N \in Nat /\ N # 0
    BY <1>2
  <2>2. Flattens(f, B, N)
    BY <2>1, FlattensExists, Zenon
  <2>3. FlattenSeq(B) = f[N]
    BY <1>2, FlattenIs
  <2> HIDE DEF f
  <2>4. \A i \in 1..N : f[i] = IF i = 1 THEN B[i] ELSE f[i - 1] \o B[i]
    <3>1. f = [i \in 1..N |-> IF i = 1 THEN B[i] ELSE f[i - 1] \o B[i]]
      BY <2>2 DEF Flattens
    <3> DEFINE g == [i \in 1..N |-> IF i = 1 THEN B[i] ELSE f[i - 1] \o B[i]]
    <3>2. \A i \in 1..N : g[i] = IF i = 1 THEN B[i] ELSE f[i - 1] \o B[i]
      OBVIOUS
    <3>3. f = g
      BY <3>1
    <3> HIDE DEF g
    <3> QED
      BY <3>2, <3>3
  <2> DEFINE Good(n) == f[n] \in Seq(S) /\ Flat(f[n], B, n)
             T == {n \in Nat : n \in 1..N /\ ~Good(n)}
  <2>5. ASSUME T # {} PROVE FALSE
    <3>1. PICK n \in T : \A m \in T : n <= m
      <4> HIDE DEF Good
      <4> QED
        BY <2>5, LeastNatural
    <3>2. n \in 1..N /\ ~Good(n) /\ n \in Nat
      BY <3>1
    <3>3. CASE n = 1
      BY <1>2, <2>4, <3>2, <3>3, FlatOne
    <3>4. CASE n # 1
      <4>1. n - 1 \in 1..N /\ n - 1 \in Nat /\ ~(n <= n - 1)
        BY <2>1, <3>2, <3>4
      <4>2. Good(n - 1)
        <5> HIDE DEF Good
        <5> QED
          BY <3>1, <4>1
      <4>3. f[n - 1] \in Seq(S) /\ Flat(f[n - 1], B, n - 1)
        BY <4>2
      <4>4. f[n - 1] \o B[n] \in Seq(S) /\ Flat(f[n - 1] \o B[n], B, n)
        BY <3>2, <3>4, <4>3, FlatMore
      <4>5. f[n] = f[n - 1] \o B[n]
        BY <2>4, <3>2, <3>4
      <4>6. Good(n)
        BY <4>4, <4>5, Zenon
      <4> QED
        BY <3>2, <4>6
    <3> QED
      BY <3>3, <3>4
  <2>6. N \in 1..N
    BY <2>1
  <2>7. Good(N)
    <3> HIDE DEF Good
    <3> QED
      BY <2>1, <2>5, <2>6
  <2> QED
    BY <2>3, <2>7
<1> QED
  BY <1>1, <1>2
-----------------------------------------------------------------------------
(***************************************************************************)
(* The lookups of a vertex.                                                *)
(***************************************************************************)
LookupsOf(v) ==
  {l \in [input : DOMAIN graph.input[v], name : Keys \cup {NoKey}, move : BOOLEAN,
          entry : Keys \cup {NoKey}, required : BOOLEAN] :
     l.move = graph.input[v][l.input].move}

\* Lookup l is one of input n for the value that is stored under k.
LooksFor(l, n, k) == l.input = n /\ l.name = k /\ l.entry = k

\* Inputs with more than one lookup.
Several(i) == i.aggregate /\ (Len(i.ids) = 1 => i.ids[1] \in DOMAIN Var)

LEMMA InputLookupsAre ==
  ASSUME graph \in Graphs, NEW v \in Vertices, NEW n \in DOMAIN graph.input[v]
  PROVE  LET i == graph.input[v][n]  L == InputLookups(n, i) IN
         /\ L \in Seq({l \in LookupsOf(v) : l.input = n})
         /\ ~Several(i) => Len(L) = 1
         /\ \A k \in ToSet(i.ids) : k \notin DOMAIN Var =>
              \E m \in DOMAIN L : LooksFor(L[m], n, k)
<1> DEFINE i == graph.input[v][n]  S == {l \in LookupsOf(v) : l.input = n}
           L == InputLookups(n, i)
<1>1. i \in Input /\ (i.aggregate \/ Len(i.ids) = 1)
  BY GraphType, DataAssumption
<1>2. i.ids \in Seq(Keys) /\ i.ids # <<>> /\ i.aggregate \in BOOLEAN
      /\ i.required \in BOOLEAN /\ i.move \in BOOLEAN /\ i.fieldExtern \in BOOLEAN
  BY <1>1 DEF Input
<1>3. i.ids[1] \in Keys /\ 1 \in DOMAIN i.ids
  BY <1>2
<1>4. \A k \in Keys : Resolve(k) \in Keys \cup {NoKey}
  BY DataAssumption DEF Resolve
<1>5. \A k \in Keys : k \notin DOMAIN Var => Resolve(k) = k
  BY DEF Resolve
<1> HIDE DEF i
<1>6. \A name \in Keys \cup {NoKey}, decisive \in BOOLEAN : Lookup(n, i, name, decisive) \in S
  BY <1>2, <1>3 DEF Lookup, LookupsOf, i
<1>7. CASE ~i.aggregate
  <2> DEFINE l == Lookup(n, i, Resolve(i.ids[1]), TRUE)
  <2>1. L = <<l>>
    BY <1>7 DEF InputLookups
  <2>2. l \in S
    BY <1>3, <1>4, <1>6
  <2>3. ASSUME NEW k \in ToSet(i.ids), k \notin DOMAIN Var
        PROVE  LooksFor(l, n, k)
    <3>1. k = i.ids[1]
      BY <1>1, <1>2, <1>7 DEF ToSet, i
    <3> QED
      BY <1>3, <1>5, <2>3, <3>1, SMTT(30) DEF Lookup, LooksFor
  <2> HIDE DEF l
  <2>4. L \in Seq(S) /\ Len(L) = 1 /\ 1 \in DOMAIN L /\ L[1] = l
    BY <2>1, <2>2, SMTT(30)
  <2> QED
    BY <2>3, <2>4 DEF i
<1>8. CASE i.aggregate
  <2> DEFINE b(k) == IF Resolve(k) \in {k, NoKey}
                     THEN <<Lookup(n, i, k, TRUE)>>
                     ELSE <<Lookup(n, i, Resolve(k), FALSE), Lookup(n, i, k, TRUE)>>
             B == [j \in DOMAIN i.ids |-> b(i.ids[j])]
  <2>1. ASSUME NEW k \in Keys PROVE b(k) \in Seq(S)
    <3>1. Lookup(n, i, k, TRUE) \in S /\ Lookup(n, i, Resolve(k), FALSE) \in S
      BY <1>4, <1>6
    <3>2. \A x, y \in S : <<x>> \in Seq(S) /\ <<x, y>> \in Seq(S)
      <4> HIDE DEF S
      <4> QED
        OBVIOUS
    <3> HIDE DEF S
    <3> QED
      BY <3>1, <3>2, Zenon
  <2>2. B \in Seq(Seq(S))
    <3> HIDE DEF S, b
    <3>1. \A j \in 1..Len(i.ids) : B[j] \in Seq(S)
      BY <1>2, <2>1
    <3>2. DOMAIN B = 1..Len(i.ids) /\ Len(i.ids) \in Nat /\ B = [j \in 1..Len(i.ids) |-> B[j]]
      BY <1>2
    <3> HIDE DEF B
    <3> QED
      BY <3>1, <3>2
  <2>3. L = FlattenSeq(B)
    BY <1>8, Zenon DEF InputLookups
  <2>4. L \in Seq(S) /\ Flat(L, B, Len(B))
    <3> HIDE DEF S, B, L
    <3> QED
      BY <2>2, <2>3, FlattenSeqIs
  <2>5. ASSUME NEW k \in ToSet(i.ids), k \notin DOMAIN Var
        PROVE  \E m \in DOMAIN L : LooksFor(L[m], n, k)
    <3>1. PICK j \in DOMAIN i.ids : k = i.ids[j]
      BY DEF ToSet
    <3>2. k \in Keys /\ j \in 1..Len(B) /\ B[j] = b(k)
      BY <1>2, <3>1
    <3>3. b(k) = <<Lookup(n, i, k, TRUE)>>
      BY <1>5, <2>5, <3>2
    <3>4. LooksFor(Lookup(n, i, k, TRUE), n, k)
      BY <1>8 DEF Lookup, LooksFor
    <3>5. 1 \in DOMAIN B[j] /\ B[j][1] = Lookup(n, i, k, TRUE)
      <4>1. B[j] = <<Lookup(n, i, k, TRUE)>>
        BY <3>2, <3>3
      <4> HIDE DEF B
      <4> QED
        BY <4>1
    <3> HIDE DEF B, L
    <3>6. PICK m \in DOMAIN L : L[m] = B[j][1]
      BY <2>4, <3>2, <3>5 DEF Flat
    <3> QED
      BY <3>4, <3>5, <3>6
  <2>6. ASSUME ~Several(i) PROVE Len(L) = 1
    <3>1. Len(i.ids) = 1 /\ i.ids[1] \notin DOMAIN Var
      BY <1>8, <2>6 DEF Several
    <3>2. Len(B) = 1 /\ B[1] = b(i.ids[1])
      BY <1>2, <1>3, <3>1
    <3>3. B[1] = <<Lookup(n, i, i.ids[1], TRUE)>>
      BY <1>3, <1>5, <3>1, <3>2
    <3>4. DOMAIN B[1] = {1} /\ 1..1 = {1} /\ 1 \in DOMAIN B[1]
      <4> HIDE DEF B
      <4> QED
        BY <3>3
    <3> HIDE DEF B, L, S
    <3>5. Flat(L, B, 1) /\ L \in Seq(S)
      BY <2>4, <3>2
    <3>6. \A q, r \in DOMAIN L : q = r
      BY <3>4, <3>5 DEF Flat
    <3>7. DOMAIN L # {}
      BY <3>4, <3>5 DEF Flat
    <3>8. Len(L) \in Nat /\ DOMAIN L = 1..Len(L)
      BY <3>5
    <3>9. Len(L) # 0
      BY <3>7, <3>8
    <3>10. ASSUME Len(L) > 1 PROVE FALSE
      <4>1. 1 \in DOMAIN L /\ 2 \in DOMAIN L
        BY <3>8, <3>10
      <4> QED
        BY <3>6, <4>1
    <3> QED
      BY <3>8, <3>9, <3>10
  <2> HIDE DEF L
  <2> QED
    BY <1>8, <2>4, <2>5, <2>6 DEF i, L
<1> QED
  BY <1>7, <1>8

\* Every input is looked up, under its own number.
LEMMA LookupsAre ==
  ASSUME graph \in Graphs, NEW v \in Vertices
  PROVE  /\ Lookups(v) \in Seq(LookupsOf(v))
         /\ \A n \in DOMAIN graph.input[v] : \A k \in ToSet(graph.input[v][n].ids) :
              k \notin DOMAIN Var =>
                \E q \in DOMAIN Lookups(v) : LooksFor(Lookups(v)[q], n, k)
         /\ \A q, r \in DOMAIN Lookups(v) :
              q # r /\ Lookups(v)[q].input = Lookups(v)[r].input =>
                Several(graph.input[v][Lookups(v)[q].input])
<1> DEFINE S == LookupsOf(v)  L == Lookups(v)  I == graph.input[v]
           b(n) == InputLookups(n, I[n])
           B == [n \in DOMAIN I |-> b(n)]
<1>1. ASSUME NEW n \in DOMAIN I
      PROVE  /\ b(n) \in Seq({l \in S : l.input = n})
             /\ ~Several(I[n]) => Len(b(n)) = 1
             /\ \A k \in ToSet(I[n].ids) : k \notin DOMAIN Var =>
                  \E m \in DOMAIN b(n) : LooksFor(b(n)[m], n, k)
  BY InputLookupsAre, Zenon
<1>2. I \in Seq(Input)
  BY GraphType
<1> HIDE DEF I, S, b
<1>3. ASSUME NEW n \in DOMAIN I
      PROVE  b(n) \in Seq(S) /\ \A m \in DOMAIN b(n) : b(n)[m].input = n
  <2> DEFINE U == {l \in S : l.input = n}
  <2>1. U \subseteq S /\ \A l \in U : l.input = n
    OBVIOUS
  <2>2. b(n) \in Seq(U)
    BY <1>1
  <2> HIDE DEF U
  <2>3. \A m \in DOMAIN b(n) : b(n)[m] \in U
    BY <2>2
  <2> QED
    BY <2>1, <2>2, <2>3
<1>4. \A n \in DOMAIN I : B[n] = b(n)
  OBVIOUS
<1>5. DOMAIN B = DOMAIN I /\ DOMAIN I = 1..Len(I) /\ Len(I) \in Nat
  BY <1>2
<1>6. B \in Seq(Seq(S)) /\ Len(B) = Len(I)
  <2>1. B = [n \in 1..Len(I) |-> B[n]]
    BY <1>5
  <2>2. \A n \in 1..Len(I) : B[n] \in Seq(S)
    BY <1>3, <1>4, <1>5
  <2> HIDE DEF B
  <2> QED
    BY <1>5, <2>1, <2>2
<1>7. L = FlattenSeq(B)
  BY Zenon DEF Lookups, I, b
<1> HIDE DEF B, L
<1>8. L \in Seq(S) /\ Flat(L, B, Len(I))
  BY <1>6, <1>7, FlattenSeqIs
<1>9. ASSUME NEW n \in DOMAIN I, NEW k \in ToSet(I[n].ids), k \notin DOMAIN Var
      PROVE  \E q \in DOMAIN L : LooksFor(L[q], n, k)
  <2>1. PICK m \in DOMAIN b(n) : LooksFor(b(n)[m], n, k)
    BY <1>1, <1>9
  <2>2. PICK q \in DOMAIN L : L[q] = B[n][m]
    BY <1>4, <1>5, <1>8, <2>1 DEF Flat
  <2> QED
    BY <1>4, <2>1, <2>2
<1>10. ASSUME NEW q \in DOMAIN L, NEW r \in DOMAIN L, q # r, L[q].input = L[r].input
       PROVE  Several(I[L[q].input])
  <2>1. PICK j \in 1..Len(I), i \in 1..Len(I) :
          \E m \in DOMAIN B[j], k \in DOMAIN B[i] :
            L[q] = B[j][m] /\ L[r] = B[i][k] /\ (j # i \/ m # k)
    BY <1>8, <1>10 DEF Flat
  <2>2. PICK m \in DOMAIN B[j], k \in DOMAIN B[i] :
          L[q] = B[j][m] /\ L[r] = B[i][k] /\ (j # i \/ m # k)
    BY <2>1
  <2>3. L[q].input = j /\ L[r].input = i /\ i = j
    BY <1>3, <1>4, <1>5, <1>10, <2>2
  <2>4. m \in DOMAIN b(j) /\ k \in DOMAIN b(j) /\ m # k /\ j \in DOMAIN I
    BY <1>4, <1>5, <2>2, <2>3
  <2>5. b(j) \in Seq(S)
    BY <1>3, <2>4
  <2>6. Len(b(j)) # 1
    BY <2>4, <2>5
  <2> QED
    BY <1>1, <2>3, <2>4, <2>6
<1> QED
  BY <1>8, <1>9, <1>10 DEF L, I, S
-----------------------------------------------------------------------------
(***************************************************************************)
(* What a producer made stays in the table until its consumer has it.      *)
(***************************************************************************)
\* Input n of v looks for what p makes and stores under k, for nobody else.
Awaits(v, n, k, p) ==
  /\ n \in DOMAIN graph.input[v] /\ k \in ToSet(graph.input[v][n].ids)
  /\ k \notin DOMAIN Var /\ p \in Producers(k) \ {v} /\ Own(p, k) /\ OnlyFor(v, n, k)

Made(p, k) == [by |-> p, key |-> k, run |-> run]
Emitted(p, k) ==
  /\ res[p] = "OK"
  /\ \/ pos[p] = "done"
     \/ /\ pos[p] = "emitting"
        /\ \E m \in DOMAIN graph.output[p] : graph.output[p][m].id = k /\ m < step[p]

\* A result is there at the end of a vertex only, OK only of one that did not
\* go on to move, and a vertex that looks for its inputs was ready.
Results ==
  /\ phase = "executing" => ~SetupFails
  /\ \A v \in Vertices :
       /\ (phase # "executing" \/ pos[v] \in {"waiting", "injecting", "running"}) =>
            res[v] = "INVALID"
       /\ pos[v] \in {"moving", "clearing"} => res[v] # "OK"
       /\ pos[v] \in {"injecting", "running"} => \A d \in Deps(v) : pos[d] = "done"

\* What a vertex holds it found in the lookups behind it.
Taken ==
  \A v \in Vertices :
    /\ (phase # "executing" \/ pos[v] = "waiting") => \A n \in DOMAIN held[v] : held[v][n] = {}
    /\ pos[v] = "injecting" =>
         /\ step[v] \in DOMAIN Lookups(v)
         /\ \A n \in DOMAIN held[v] : held[v][n] # {} =>
              \E q \in DOMAIN Lookups(v) : q < step[v] /\ Lookups(v)[q].input = n

\* What is awaited and has been stored is in the table or with its consumer.
KeptFor(v, n, k, p) ==
  Emitted(p, k) => data["own"][k] = Made(p, k) \/ Made(p, k) \in held[v][n]

\* A lookup for it that lies behind found it, and one at hand is at the table.
FoundFor(v, n, k, p) ==
  res[p] = "OK" =>
    /\ pos[v] = "injecting" /\ LooksFor(Current(v), n, k) =>
         Made(p, k) \in held[v][n] \/ (place[v] # <<>> /\ Head(place[v]) = "own")
    /\ \A q \in DOMAIN Lookups(v) :
         /\ LooksFor(Lookups(v)[q], n, k)
         /\ pos[v] = "running" \/ (pos[v] = "injecting" /\ q < step[v])
         => Made(p, k) \in held[v][n]

Arrival ==
  \A v, p \in Vertices, k \in Keys : \A n \in DOMAIN graph.input[v] :
    Awaits(v, n, k, p) => KeptFor(v, n, k, p) /\ FoundFor(v, n, k, p)

AInv == Results /\ Taken /\ Arrival

VertexStep(w) ==
  \/ Skip(w) \/ Start(w) \/ Take(w) \/ PassBy(w) \/ Miss(w)
  \/ Finish(w) \/ FinishSubGraph(w) \/ Emit(w)
  \/ MoveCopy(w) \/ MoveClear(w) \/ MoveNothing(w)

\* What the declarations say does not change.
LEMMA SameGraph ==
  ASSUME graph' = graph
  PROVE  /\ \A v : Lookups(v)' = Lookups(v) /\ Deps(v)' = Deps(v)
         /\ SetupFails' <=> SetupFails
         /\ \A v, n, k, p : Awaits(v, n, k, p)' <=> Awaits(v, n, k, p)
<1>1. \A v : Lookups(v)' = Lookups(v)
  BY DEF Lookups
<1>2. \A k : Producers(k)' = Producers(k)
  BY DEF Producers
<1>3. \A v : Deps(v)' = Deps(v)
  BY <1>2 DEF Deps, DataDeps
<1>4. SetupFails' <=> SetupFails
  BY DEF SetupFails, Outputs
<1>5. \A v, n, k : OnlyFor(v, n, k)' <=> OnlyFor(v, n, k)
  BY <1>1 DEF OnlyFor
<1>6. \A p, k : Own(p, k)' <=> Own(p, k)
  BY DEF Own
<1> QED
  BY <1>1, <1>2, <1>3, <1>4, <1>5, <1>6 DEF Awaits

\* A step of a vertex is of this vertex.
LEMMA Frame ==
  ASSUME IInv, NEW w \in Vertices, VertexStep(w)
  PROVE  /\ UNCHANGED <<graph, run, phase>> /\ phase = "executing" /\ pos[w] # "done"
         /\ \A v \in Vertices \ {w} :
              /\ pos'[v] = pos[v] /\ step'[v] = step[v] /\ place'[v] = place[v]
              /\ held'[v] = held[v] /\ res'[v] = res[v]
<1>0. /\ pos = [v \in Vertices |-> pos[v]] /\ step = [v \in Vertices |-> step[v]]
      /\ place = [v \in Vertices |-> place[v]] /\ held = [v \in Vertices |-> held[v]]
      /\ res = [v \in Vertices |-> res[v]]
      /\ \A v \in Vertices : pos[v] # "done" => phase = "executing"
  <2>1. Control /\ Holding /\ Rest
    BY DEF IInv
  <2>2. pos = [v \in Vertices |-> pos[v]] /\ step = [v \in Vertices |-> step[v]]
    BY <2>1 DEF Control
  <2>3. place = [v \in Vertices |-> place[v]]
    BY <2>1 DEF Control
  <2>4. held = [v \in Vertices |-> held[v]] /\ res = [v \in Vertices |-> res[v]]
    BY <2>1 DEF Holding, Rest
  <2>5. \A v \in Vertices : pos[v] # "done" => phase = "executing"
    BY <2>1 DEF Control
  <2> QED
    BY <2>2, <2>3, <2>4, <2>5
<1>1. pos[w] # "done" /\ UNCHANGED <<graph, run, phase>>
  BY Zenon DEF VertexStep, Skip, Start, Ready, Take, PassBy, Miss, Finish, FinishSubGraph, Emit,
         MoveCopy, MoveClear, MoveNothing
<1>2. \/ \E x : pos' = [pos EXCEPT ![w] = x]
      \/ pos' = pos
  BY Zenon DEF VertexStep, Skip, Start, Take, PassBy, Miss, Finish, FinishSubGraph, Emit,
         MoveCopy, MoveClear, MoveNothing, Seek, Deliver
<1>3. \/ \E x : step' = [step EXCEPT ![w] = x]
      \/ step' = step
  BY Zenon DEF VertexStep, Skip, Start, Take, PassBy, Miss, Finish, FinishSubGraph, Emit,
         MoveCopy, MoveClear, MoveNothing, Seek, Deliver
<1>4. \E x : place' = [place EXCEPT ![w] = x]
  BY Zenon DEF VertexStep, Skip, Start, Take, PassBy, Miss, Finish, FinishSubGraph, Emit,
         MoveCopy, MoveClear, MoveNothing, Seek, Deliver
<1>5. \/ \E x : res' = [res EXCEPT ![w] = x]
      \/ res' = res
  BY Zenon DEF VertexStep, Skip, Start, Take, PassBy, Miss, Finish, FinishSubGraph, Emit,
         MoveCopy, MoveClear, MoveNothing
<1>6. \/ \E x : held' = [held EXCEPT ![w] = x]
      \/ held' = held
  BY Zenon DEF VertexStep, Skip, Start, Take, PassBy, Miss, Finish, FinishSubGraph, Emit,
         MoveCopy, MoveClear, MoveNothing
<1> QED
  BY <1>0, <1>1, <1>2, <1>3, <1>4, <1>5, <1>6

LEMMA SeekIs ==
  ASSUME IInv, NEW w \in Vertices, NEW m \in Nat \ {0}, Seek(w, m)
  PROVE  \/ /\ m \in DOMAIN Lookups(w) /\ pos'[w] = "injecting" /\ step'[w] = m
            /\ place'[w] = Path(Lookups(w)[m])
         \/ m > Len(Lookups(w)) /\ pos'[w] = "running"
<1>1. Lookups(w) \in Seq(LookupsOf(w))
  BY LookupsAre DEF IInv, Rest
<1>2. /\ pos = [v \in Vertices |-> pos[v]] /\ step = [v \in Vertices |-> step[v]]
      /\ place = [v \in Vertices |-> place[v]]
  BY DEF IInv, Control
<1>3. m <= Len(Lookups(w)) => m \in DOMAIN Lookups(w)
  BY <1>1
<1>4. ~(m <= Len(Lookups(w))) => m > Len(Lookups(w))
  BY <1>1
<1> QED
  BY <1>2, <1>3, <1>4 DEF Seek

LEMMA DeliverIs ==
  ASSUME IInv, NEW w \in Vertices, NEW m \in Nat \ {0}, NEW stage, Deliver(w, m, stage)
  PROVE  \/ m \in DOMAIN graph.output[w] /\ pos'[w] = stage /\ step'[w] = m
         \/ m > Len(graph.output[w]) /\ pos'[w] = "done"
<1>1. graph.output[w] \in Seq(Output)
  BY GraphType DEF IInv, Rest
<1>2. pos = [v \in Vertices |-> pos[v]] /\ step = [v \in Vertices |-> step[v]]
  BY DEF IInv, Control
<1>3. m <= Len(graph.output[w]) => m \in DOMAIN graph.output[w]
  BY <1>1
<1>4. ~(m <= Len(graph.output[w])) => m > Len(graph.output[w])
  BY <1>1
<1> QED
  BY <1>2, <1>3, <1>4 DEF Deliver

\* Where a step leads: into the lookups or to the processor, to the moves or to
\* the end without success, or to the outputs.
LEMMA Outcome ==
  ASSUME IInv, Results, NEW w \in Vertices, VertexStep(w)
  PROVE  \/ /\ Start(w) \/ Take(w) \/ PassBy(w) \/ Miss(w)
            /\ pos[w] \in {"waiting", "injecting"} /\ pos'[w] \in {"injecting", "running"}
            /\ res'[w] = res[w] /\ \A d \in Deps(w) : pos[d] = "done"
         \/ pos'[w] \in {"moving", "clearing", "done"} /\ res'[w] # "OK"
         \/ /\ Finish(w) \/ FinishSubGraph(w)
            /\ pos[w] = "running"
            /\ \/ pos'[w] = "emitting" /\ step'[w] = 1
               \/ pos'[w] = "done" /\ graph.output[w] = <<>>
         \/ /\ Emit(w) /\ pos[w] = "emitting" /\ res'[w] = res[w]
            /\ \/ pos'[w] = "emitting" /\ step'[w] = step[w] + 1
               \/ pos'[w] = "done" /\ step[w] = Len(graph.output[w])
<1>0. /\ res = [v \in Vertices |-> res[v]] /\ pos = [v \in Vertices |-> pos[v]]
      /\ step[w] \in Nat \ {0} /\ step[w] + 1 \in Nat \ {0}
      /\ graph.output[w] \in Seq(Output)
  BY GraphType DEF IInv, Rest, Control
<1>11. 1 > Len(graph.output[w]) => graph.output[w] = <<>>
  BY <1>0
<1>1. CASE Skip(w)
  <2>1. Deliver(w, 1, "moving") /\ res'[w] # "OK"
    BY <1>0, <1>1 DEF Skip
  <2> QED
    BY <2>1, DeliverIs
<1>2. CASE Start(w)
  <2>1. Seek(w, 1) /\ res' = res /\ pos[w] = "waiting" /\ \A d \in Deps(w) : pos[d] = "done"
    BY <1>2 DEF Start, Ready
  <2> QED
    BY <1>2, <2>1, SeekIs
<1>3. CASE Take(w)
  <2>1. Seek(w, step[w] + 1) /\ res' = res /\ pos[w] = "injecting"
    BY <1>3 DEF Take
  <2> QED
    BY <1>0, <1>3, <2>1, SeekIs DEF Results
<1>4. CASE PassBy(w)
  BY <1>4 DEF PassBy, Results
<1>5. CASE Miss(w)
  <2>1. CASE Current(w).required
    <3>1. res'[w] # "OK" /\ Deliver(w, 1, "moving")
      BY <1>0, <1>5, <2>1 DEF Miss
    <3>2. pos'[w] \in {"moving", "done"}
      BY <3>1, DeliverIs
    <3> QED
      BY <3>1, <3>2
  <2>2. CASE ~Current(w).required
    <3>1. Seek(w, step[w] + 1) /\ res' = res /\ pos[w] = "injecting"
      BY <1>5, <2>2 DEF Miss
    <3> QED
      BY <1>0, <1>5, <3>1, SeekIs DEF Results
  <2> QED
    BY <2>1, <2>2
<1>6. CASE Finish(w)
  <2>1. CASE res' = [res EXCEPT ![w] = "OK"] /\ Deliver(w, 1, "emitting")
    <3>1. pos[w] = "running"
      BY <1>6 DEF Finish
    <3>2. \/ pos'[w] = "emitting" /\ step'[w] = 1
          \/ pos'[w] = "done" /\ 1 > Len(graph.output[w])
      BY <2>1, DeliverIs
    <3> QED
      BY <1>11, <1>6, <3>1, <3>2
  <2>2. CASE res' = [res EXCEPT ![w] = "ERR"] /\ Deliver(w, 1, "moving")
    <3>1. res'[w] # "OK"
      BY <1>0, <2>2
    <3> QED
      BY <2>2, <3>1, DeliverIs
  <2> QED
    BY <1>6, <2>1, <2>2 DEF Finish
<1>7. CASE FinishSubGraph(w)
  <2>1. pos[w] = "running" /\ Deliver(w, 1, "emitting")
    BY <1>7 DEF FinishSubGraph
  <2>2. \/ pos'[w] = "emitting" /\ step'[w] = 1
        \/ pos'[w] = "done" /\ 1 > Len(graph.output[w])
    BY <2>1, DeliverIs
  <2> QED
    BY <1>11, <1>7, <2>1, <2>2
<1>8. CASE Emit(w)
  <2>1. pos[w] = "emitting" /\ Deliver(w, step[w] + 1, "emitting") /\ res' = res
    BY <1>8 DEF Emit
  <2>2. step[w] \in DOMAIN graph.output[w]
    BY <2>1 DEF IInv, Control
  <2>3. \/ pos'[w] = "emitting" /\ step'[w] = step[w] + 1
        \/ step[w] + 1 > Len(graph.output[w]) /\ pos'[w] = "done"
    BY <1>0, <2>1, DeliverIs
  <2> QED
    BY <1>0, <1>8, <2>1, <2>2, <2>3
<1>9. CASE MoveCopy(w)
  BY <1>0, <1>9 DEF MoveCopy, Results
<1>10. CASE MoveClear(w) \/ MoveNothing(w)
  <2>1. pos[w] \in {"moving", "clearing"} /\ res' = res /\ Deliver(w, step[w] + 1, "moving")
    BY <1>10 DEF MoveClear, MoveNothing
  <2> QED
    BY <1>0, <2>1, DeliverIs DEF Results
<1> QED
  BY <1>1, <1>2, <1>3, <1>4, <1>5, <1>6, <1>7, <1>8, <1>9, <1>10 DEF VertexStep

LEMMA ResultsStep ==
  ASSUME IInv, Results, NEW w \in Vertices, VertexStep(w)
  PROVE  Results'
<1>1. /\ UNCHANGED <<graph, run, phase>> /\ phase = "executing" /\ pos[w] # "done"
      /\ \A v \in Vertices \ {w} : pos'[v] = pos[v] /\ res'[v] = res[v]
  BY Frame
<1>2. \A v \in Vertices : Deps(v)' = Deps(v) /\ Deps(v) \subseteq Vertices
  <2>1. \A v \in Vertices : graph.deps[v] \subseteq Vertices
    BY DataAssumption DEF IInv, Rest, Graph
  <2> QED
    BY <1>1, <2>1, SameGraph DEF Deps, DataDeps
<1>3. \A d \in Vertices : pos[d] = "done" => pos'[d] = "done"
  BY <1>1
<1>4. ~SetupFails'
  BY <1>1, SameGraph DEF Results
<1>5. ASSUME NEW v \in Vertices
      PROVE  /\ pos'[v] \in {"waiting", "injecting", "running"} => res'[v] = "INVALID"
             /\ pos'[v] \in {"moving", "clearing"} => res'[v] # "OK"
             /\ pos'[v] \in {"injecting", "running"} => \A d \in Deps(v) : pos'[d] = "done"
  <2>1. CASE v # w
    BY <1>1, <1>2, <1>3, <2>1 DEF Results
  <2>2. CASE v = w
    BY <1>2, <1>3, <2>2, Outcome DEF Results
  <2> QED
    BY <2>1, <2>2
<1> QED
  BY <1>1, <1>2, <1>4, <1>5 DEF Results

\* What Take does to the hands of its vertex and to the table.
LEMMA TakeIs ==
  ASSUME IInv, NEW w \in Vertices, Take(w)
  PROVE  /\ held'[w] \in [DOMAIN held[w] -> SUBSET Values]
         /\ \E c \in Sources(w) :
              LET l == Current(w)  val == data[c][KeyIn(l, c)] IN
              /\ \A n \in DOMAIN held[w] :
                   held'[w][n] = IF n # l.input THEN held[w][n]
                                 ELSE IF graph.input[w][n].aggregate
                                      THEN held[w][n] \cup {val} ELSE {val}
              /\ \A k \in Keys :
                   data'["own"][k] = IF l.move /\ c = "own" /\ k = l.entry
                                     THEN NoValue ELSE data["own"][k]
<1>1. PICK c \in Sources(w) :
        LET l == Current(w)  val == data[c][KeyIn(l, c)] IN
        /\ held' = [held EXCEPT ![w][l.input] =
                      IF graph.input[w][l.input].aggregate THEN @ \cup {val} ELSE {val}]
        /\ data' = IF l.move THEN [data EXCEPT ![c][KeyIn(l, c)] = NoValue] ELSE data
  BY DEF Take
<1> DEFINE l == Current(w)  k == KeyIn(l, c)  val == data[c][k]
           x == IF graph.input[w][l.input].aggregate THEN held[w][l.input] \cup {val} ELSE {val}
<1>2. /\ held' = [held EXCEPT ![w] = [held[w] EXCEPT ![l.input] = x]]
      /\ data' = IF l.move THEN [data EXCEPT ![c] = [data[c] EXCEPT ![k] = NoValue]] ELSE data
  BY <1>1
<1>3. c \in Contexts /\ k \in Keys /\ (c = "own" => k = l.entry)
  BY SourceType DEF KeyIn
<1>4. /\ held = [v \in Vertices |-> held[v]]
      /\ held[w] \in [DOMAIN graph.input[w] -> SUBSET Values]
      /\ data \in [Contexts -> [Keys -> Values \cup {NoValue}]] /\ "own" \in Contexts
  BY DEF IInv, Holding, Stored, Contexts
<1>5. held'[w] \in [DOMAIN held[w] -> SUBSET Values]
  <2>1. IInv'
    BY TakeStep
  <2>2. graph' = graph
    BY DEF Take
  <2> QED
    BY <1>4, <2>1, <2>2 DEF IInv, Holding
<1> HIDE DEF l, k, val, x
<1>6. \A n \in DOMAIN held[w] : held'[w][n] = IF n # l.input THEN held[w][n] ELSE x
  BY <1>2, <1>4
<1>7. \A j \in Keys : data'["own"][j] = IF l.move /\ c = "own" /\ j = l.entry
                                        THEN NoValue ELSE data["own"][j]
  BY <1>2, <1>3, <1>4
<1>8. \A n \in DOMAIN held[w] :
        held'[w][n] = IF n # l.input THEN held[w][n]
                      ELSE IF graph.input[w][n].aggregate
                           THEN held[w][n] \cup {val} ELSE {val}
  BY <1>6 DEF x
<1> QED
  BY <1>5, <1>7, <1>8, Zenon DEF l, val, k

\* The lookup at hand is one of the vertex.
LEMMA CurrentIs ==
  ASSUME IInv, Taken, NEW v \in Vertices, pos[v] = "injecting"
  PROVE  /\ step[v] \in DOMAIN Lookups(v) /\ Current(v) = Lookups(v)[step[v]]
         /\ Current(v) \in ToSet(Lookups(v)) /\ step[v] \in Nat \ {0}
         /\ Lookups(v) \in Seq(LookupsOf(v))
<1>1. step[v] \in DOMAIN Lookups(v) /\ Lookups(v) \in Seq(LookupsOf(v))
  BY LookupsAre DEF Taken, IInv, Rest
<1> QED
  BY <1>1 DEF Current, ToSet, IInv, Control

\* An input that has a value already and is looked up again is an aggregate,
\* which keeps it.
LEMMA HeldStays ==
  ASSUME IInv, Taken, NEW v \in Vertices, NEW n \in DOMAIN held[v], NEW x \in held[v][n],
         Take(v)
  PROVE  x \in held'[v][n]
<1>1. pos[v] = "injecting"
  BY DEF Take
<1>2. CASE n = Current(v).input
  <2>1. PICK q \in DOMAIN Lookups(v) : q < step[v] /\ Lookups(v)[q].input = n
    BY <1>1 DEF Taken
  <2>2. graph.input[v][n].aggregate
    <3>1. q # step[v] /\ step[v] \in DOMAIN Lookups(v) /\ Lookups(v)[step[v]].input = n
      BY <1>1, <1>2, <2>1, CurrentIs
    <3> QED
      BY <2>1, <3>1, LookupsAre DEF IInv, Rest, Several
  <2>3. PICK val : held'[v][n] = IF n # Current(v).input THEN held[v][n]
                                 ELSE IF graph.input[v][n].aggregate
                                      THEN held[v][n] \cup {val} ELSE {val}
    BY TakeIs
  <2> QED
    BY <1>2, <2>2, <2>3
<1>3. CASE n # Current(v).input
  BY <1>3, TakeIs
<1> QED
  BY <1>2, <1>3

LEMMA TakenStep ==
  ASSUME IInv, Results, Taken, NEW w \in Vertices, VertexStep(w)
  PROVE  Taken'
<1>1. /\ UNCHANGED <<graph, run, phase>> /\ phase = "executing"
      /\ \A v \in Vertices \ {w} : pos'[v] = pos[v] /\ step'[v] = step[v] /\ held'[v] = held[v]
  BY Frame
<1>2. \A v : Lookups(v)' = Lookups(v)
  BY <1>1, SameGraph
<1>3. \A v \in Vertices \ {w} :
        /\ pos'[v] = "waiting" => \A n \in DOMAIN held'[v] : held'[v][n] = {}
        /\ pos'[v] = "injecting" =>
             /\ step'[v] \in DOMAIN Lookups(v)
             /\ \A n \in DOMAIN held'[v] : held'[v][n] # {} =>
                  \E q \in DOMAIN Lookups(v) : q < step'[v] /\ Lookups(v)[q].input = n
  BY <1>1 DEF Taken
<1>4. ASSUME pos'[w] \in {"waiting", "injecting"}
      PROVE  /\ pos'[w] = "injecting" /\ step'[w] \in DOMAIN Lookups(w)
             /\ \A n \in DOMAIN held'[w] : held'[w][n] # {} =>
                  \E q \in DOMAIN Lookups(w) : q < step'[w] /\ Lookups(w)[q].input = n
  <2>1. /\ Start(w) \/ Take(w) \/ PassBy(w) \/ Miss(w)
        /\ pos'[w] = "injecting" /\ res'[w] = res[w] /\ pos[w] \in {"waiting", "injecting"}
    BY <1>4, Outcome
  <2>2. res[w] = "INVALID" /\ res \in [Vertices -> {"INVALID", "OK", "ERR", "SKIP"}]
    BY <2>1 DEF Results, IInv, Rest
  <2>3. CASE Start(w)
    <3>1. Seek(w, 1) /\ held' = held /\ pos[w] = "waiting"
      BY <2>3 DEF Start, Ready
    <3>2. step'[w] \in DOMAIN Lookups(w)
      BY <2>1, <3>1, SeekIs
    <3> QED
      BY <2>1, <3>1, <3>2 DEF Taken
  <2>4. ASSUME pos[w] = "injecting"
        PROVE  step[w] + 1 \in Nat \ {0} /\ step[w] < step[w] + 1
               /\ \A q \in DOMAIN Lookups(w) : q < step[w] => q < step[w] + 1
    BY <2>4, CurrentIs
  <2>5. CASE Take(w)
    <3>1. Seek(w, step[w] + 1) /\ pos[w] = "injecting"
      BY <2>5 DEF Take
    <3>2. step'[w] \in DOMAIN Lookups(w) /\ step'[w] = step[w] + 1
      BY <2>1, <2>4, <3>1, SeekIs
    <3>3. ASSUME NEW n \in DOMAIN held'[w], held'[w][n] # {}
          PROVE  \E q \in DOMAIN Lookups(w) : q < step'[w] /\ Lookups(w)[q].input = n
      <4>1. n \in DOMAIN held[w]
        BY <2>5, TakeIs
      <4>2. CASE n = Current(w).input
        BY <2>4, <3>1, <3>2, <4>2, CurrentIs
      <4>3. CASE n # Current(w).input
        <5>1. held[w][n] # {}
          BY <2>5, <3>3, <4>1, <4>3, TakeIs
        <5> QED
          BY <2>4, <3>1, <3>2, <4>1, <5>1 DEF Taken
      <4> QED
        BY <4>2, <4>3
    <3> QED
      BY <2>1, <3>2, <3>3
  <2>6. CASE PassBy(w)
    <3>1. held' = held /\ step' = step /\ pos[w] = "injecting"
      BY <2>6 DEF PassBy
    <3> QED
      BY <2>1, <3>1 DEF Taken
  <2>7. CASE Miss(w)
    <3>1. pos[w] = "injecting" /\ held' = held
      BY <2>7 DEF Miss
    <3>2. Seek(w, step[w] + 1)
      BY <2>1, <2>2, <2>7 DEF Miss
    <3>3. step'[w] \in DOMAIN Lookups(w) /\ step'[w] = step[w] + 1
      BY <2>1, <2>4, <3>1, <3>2, SeekIs
    <3> QED
      BY <2>1, <2>4, <3>1, <3>3 DEF Taken
  <2> QED
    BY <2>1, <2>3, <2>5, <2>6, <2>7
<1> QED
  BY <1>1, <1>2, <1>3, <1>4 DEF Taken

\* A value that is awaited has an entry in the table, and its consumer depends
\* on its producer.
LEMMA AwaitsIs ==
  ASSUME graph \in Graphs, NEW v \in Vertices, NEW n, NEW k, NEW p, Awaits(v, n, k, p)
  PROVE  /\ k \in Keys /\ k # NoKey /\ k \in Registered /\ Table("own") = Registered
         /\ p \in Deps(v) /\ p \in Vertices /\ p # v
         /\ n \in DOMAIN graph.input[v] /\ k \in ToSet(graph.input[v][n].ids)
         /\ k \notin DOMAIN Var
<1>1. /\ n \in DOMAIN graph.input[v] /\ k \in ToSet(graph.input[v][n].ids)
      /\ k \notin DOMAIN Var /\ p \in Producers(k) /\ p # v
  BY DEF Awaits
<1>2. graph.input[v][n] \in Input
  BY <1>1, GraphType
<1>3. k \in Keys /\ k # NoKey
  BY <1>1, <1>2, DataAssumption DEF Input, ToSet
<1>4. p \in Vertices /\ k \in Outputs
  BY <1>1 DEF Producers, Outputs
<1>5. k \in Registered
  BY <1>1, <1>4 DEF Registered
<1>6. p \in DataDeps(v)
  BY <1>1, <1>4 DEF DataDeps, ToSet
<1> QED
  BY <1>1, <1>3, <1>4, <1>5, <1>6 DEF Deps, Table

LEMMA MadeIs ==
  ASSUME IInv, NEW p \in Vertices, NEW k \in Keys
  PROVE  Made(p, k) \in Values /\ Made(p, k) # NoValue
<1>1. Made(p, k) \in Values
  BY DEF Made, Values, IInv, Rest
<1>2. \A val \in Values : val # NoValue
  BY DEF Values, NoValue
<1> QED
  BY <1>1, <1>2

\* Setup lets one output have a name.
LEMMA OneOutput ==
  ASSUME ~SetupFails, NEW p \in Vertices, NEW w \in Vertices,
         NEW n \in DOMAIN graph.output[p], NEW m \in DOMAIN graph.output[w],
         graph.output[p][n].id = graph.output[w][m].id
  PROVE  p = w /\ n = m
<1>1. <<p, n>> = <<w, m>>
  BY DEF SetupFails
<1> QED
  BY <1>1

\* A producer has stored its value only when it collected that output.
LEMMA EmittedStep ==
  ASSUME IInv, Results, NEW w \in Vertices, VertexStep(w),
         NEW p \in Vertices, NEW k \in Keys, Own(p, k), Emitted(p, k)'
  PROVE  Emitted(p, k) \/ (Emit(w) /\ w = p /\ graph.output[p][step[p]].id = k)
<1>1. /\ UNCHANGED <<graph, run, phase>>
      /\ \A v \in Vertices \ {w} : pos'[v] = pos[v] /\ step'[v] = step[v] /\ res'[v] = res[v]
  BY Frame
<1>2. CASE p # w
  BY <1>1, <1>2 DEF Emitted
<1>3. CASE p = w
  <2>1. PICK m \in DOMAIN graph.output[p] : graph.output[p][m].id = k
    BY DEF Own, ToSet
  <2>2. graph.output[p] \in Seq(Output) /\ m \in 1..Len(graph.output[p]) /\ step[p] \in Nat
    BY <2>1, GraphType DEF IInv, Rest, Control
  <2>3. res'[p] = "OK" /\ pos'[p] \in {"done", "emitting"}
    BY DEF Emitted
  <2>4. ~(res'[w] = res[w] /\ pos[w] \in {"waiting", "injecting"})
    BY <1>3, <2>3 DEF Results
  <2>5. ~(pos'[w] = "done" /\ graph.output[w] = <<>>)
    BY <1>3, <2>2
  <2>6. ~(pos'[w] = "emitting" /\ step'[w] = 1)
    <3>1. ASSUME pos'[p] = "emitting"
          PROVE  \E j \in DOMAIN graph.output[p] : j < step'[p]
      BY <1>1, <3>1 DEF Emitted
    <3>2. \A j \in DOMAIN graph.output[p] : ~(j < 1)
      BY <2>2
    <3> QED
      BY <1>3, <3>1, <3>2
  <2>7. /\ Emit(w) /\ pos[w] = "emitting" /\ res'[w] = res[w]
        /\ \/ pos'[w] = "emitting" /\ step'[w] = step[w] + 1
           \/ pos'[w] = "done" /\ step[w] = Len(graph.output[w])
    BY <1>3, <2>3, <2>4, <2>5, <2>6, Outcome
  <2>8. ASSUME graph.output[p][step[p]].id # k
        PROVE  \E j \in DOMAIN graph.output[p] : graph.output[p][j].id = k /\ j < step[p]
    <3>1. CASE pos'[w] = "done"
      <4>1. m # step[p] /\ m <= step[p]
        BY <1>3, <2>1, <2>2, <2>7, <2>8, <3>1
      <4> QED
        BY <2>1, <2>2, <4>1
    <3>2. CASE pos'[w] = "emitting"
      <4>1. step'[p] = step[p] + 1
        BY <1>3, <2>7, <3>2
      <4>2. PICK j \in DOMAIN graph.output[p] : graph.output[p][j].id = k /\ j < step'[p]
        BY <1>1, <1>3, <3>2 DEF Emitted
      <4>3. j # step[p] /\ j \in Nat
        BY <2>2, <2>8, <4>2
      <4> QED
        BY <2>2, <4>1, <4>2, <4>3
    <3> QED
      BY <2>7, <3>1, <3>2
  <2> QED
    BY <1>3, <2>3, <2>7, <2>8 DEF Emitted
<1> QED
  BY <1>2, <1>3

\* Steps other than Take change the entry only where its producer stores or
\* moves to it.
LEMMA OwnEntry ==
  ASSUME IInv, Results, NEW w \in Vertices, VertexStep(w), ~Take(w),
         NEW v \in Vertices, NEW n, NEW k, NEW p, Awaits(v, n, k, p)
  PROVE  \/ data'["own"][k] = data["own"][k]
         \/ Emit(w) /\ w = p /\ data'["own"][k] = Made(p, k)
         \/ MoveCopy(w) /\ w = p
<1>1. /\ data \in [Contexts -> [Keys -> Values \cup {NoValue}]] /\ "own" \in Contexts
      /\ "own" \notin Vertices /\ graph \in Graphs
  BY DataAssumption DEF IInv, Stored, Contexts, Rest
<1>2. /\ k \in Keys /\ k \in Registered /\ p \in Vertices
  BY <1>1, AwaitsIs
<1>3. phase = "executing" /\ ~SetupFails
  BY Frame DEF Results
<1>4. PICK m \in DOMAIN graph.output[p] : graph.output[p][m].id = k /\ graph.output[p][m].inOut = 0
  BY DEF Awaits, Own, ToSet
<1> DEFINE o == graph.output[w][step[w]]
<1>5. ASSUME pos[w] \in {"emitting", "moving", "clearing"}
      PROVE  /\ step[w] \in DOMAIN graph.output[w] /\ o.from # k
             /\ Resolve(o.id) = k => o.id = k
             /\ o.id = k => w = p /\ step[w] = m
             /\ o \in Output
  <2>1. step[w] \in DOMAIN graph.output[w]
    BY <1>5 DEF IInv, Control
  <2>2. o \in ToSet(graph.output[w])
    BY <2>1 DEF ToSet
  <2>3. o.from # k /\ (Resolve(o.id) = k => o.id = k)
    BY <2>2 DEF Awaits, OnlyFor
  <2>4. o.id = k => w = p /\ step[w] = m
    BY <1>2, <1>3, <1>4, <2>1, OneOutput
  <2> QED
    BY <1>5, <2>1, <2>3, <2>4, OutputType
<1>6. CASE Emit(w)
  <2>1. /\ pos[w] = "emitting"
        /\ data' = IF Resolve(o.id) \in Registered
                   THEN [data EXCEPT !["own"][Resolve(o.id)] = Produced(w, o)] ELSE data
    BY <1>6 DEF Emit
  <2>2. Registered \subseteq Keys
    BY <1>1, GraphType
  <2>3. CASE Resolve(o.id) = k
    <3>1. w = p /\ o.id = k /\ o.inOut = 0
      BY <1>4, <1>5, <2>1, <2>3
    <3>2. Produced(w, o) = Made(p, k)
      BY <3>1 DEF Produced, Made
    <3> HIDE DEF o
    <3> QED
      BY <1>1, <1>2, <1>6, <2>1, <2>3, <3>1, <3>2
  <2>4. CASE Resolve(o.id) # k
    <3> HIDE DEF o
    <3> QED
      BY <1>1, <1>2, <2>1, <2>2, <2>4
  <2> QED
    BY <2>3, <2>4
<1>7. CASE MoveCopy(w)
  <2>1. /\ pos[w] = "moving"
        /\ \E x : data' = [data EXCEPT !["own"][o.id] = x]
    BY <1>7, Zenon DEF MoveCopy
  <2>2. CASE o.id = k
    BY <1>5, <1>7, <2>1, <2>2
  <2>3. CASE o.id # k
    <3>1. o.id \in Keys
      BY <1>5, <2>1 DEF Output
    <3> HIDE DEF o
    <3> QED
      BY <1>1, <1>2, <2>1, <2>3, <3>1
  <2> QED
    BY <2>2, <2>3
<1>8. CASE MoveClear(w)
  <2>1. pos[w] = "clearing" /\ data' = [data EXCEPT ![Head(place[w])][o.from] = NoValue]
    BY <1>8 DEF MoveClear
  <2>2. Head(place[w]) \in Contexts /\ o.from \in Keys /\ o.from # k
    BY <1>5, <2>1 DEF IInv, Control
  <2> HIDE DEF o
  <2> QED
    BY <1>1, <1>2, <2>1, <2>2
<1>9. CASE FinishSubGraph(w)
  <2>1. \E x : data' = [data EXCEPT ![w] = x]
    BY <1>9, Zenon DEF FinishSubGraph
  <2> QED
    BY <1>1, <2>1
<1>10. CASE Skip(w) \/ Start(w) \/ PassBy(w) \/ Miss(w) \/ Finish(w) \/ MoveNothing(w)
  BY <1>10 DEF Skip, Start, PassBy, Miss, Finish, MoveNothing
<1> QED
  BY <1>6, <1>7, <1>8, <1>9, <1>10 DEF VertexStep

LEMMA KeptStep ==
  ASSUME IInv, Results, Taken, NEW w \in Vertices, VertexStep(w),
         NEW v \in Vertices, NEW n, NEW k, NEW p, Awaits(v, n, k, p), KeptFor(v, n, k, p)
  PROVE  KeptFor(v, n, k, p)'
<1>1. /\ UNCHANGED <<graph, run, phase>>
      /\ \A u \in Vertices \ {w} : held'[u] = held[u]
  BY Frame
<1>2. /\ k \in Keys /\ p \in Vertices /\ n \in DOMAIN graph.input[v] /\ Own(p, k)
  BY AwaitsIs DEF IInv, Rest, Awaits
<1>3. Made(p, k)' = Made(p, k)
  BY <1>1 DEF Made
<1>4. n \in DOMAIN held[v]
  BY <1>2 DEF IInv, Holding
<1> SUFFICES ASSUME Emitted(p, k)'
             PROVE  data'["own"][k] = Made(p, k) \/ Made(p, k) \in held'[v][n]
  BY <1>3 DEF KeptFor
<1>5. Emitted(p, k) \/ (Emit(w) /\ w = p /\ graph.output[p][step[p]].id = k)
  BY <1>2, EmittedStep
<1>6. CASE Take(w)
  <2>1. pos[w] = "injecting" /\ res' = res
    BY <1>6 DEF Take
  <2>2. Emitted(p, k)
    <3>1. ~Emit(w)
      BY <2>1 DEF Emit
    <3> QED
      BY <1>5, <3>1
  <2>3. CASE Made(p, k) \in held[v][n]
    <3>1. CASE v = w
      BY <1>4, <1>6, <2>3, <3>1, HeldStays
    <3>2. CASE v # w
      BY <1>1, <2>3, <3>2
    <3> QED
      BY <3>1, <3>2
  <2>4. CASE data["own"][k] = Made(p, k)
    <3>1. PICK c \in Sources(w) :
            LET l == Current(w)  val == data[c][KeyIn(l, c)] IN
            /\ \A i \in DOMAIN held[w] :
                 held'[w][i] = IF i # l.input THEN held[w][i]
                               ELSE IF graph.input[w][i].aggregate
                                    THEN held[w][i] \cup {val} ELSE {val}
            /\ \A j \in Keys :
                 data'["own"][j] = IF l.move /\ c = "own" /\ j = l.entry
                                   THEN NoValue ELSE data["own"][j]
      BY <1>6, TakeIs
    <3> DEFINE l == Current(w)
    <3>2. CASE l.move /\ c = "own" /\ k = l.entry
      <4>1. l \in ToSet(Lookups(w))
        BY <2>1, CurrentIs
      <4>2. w = v /\ l.input = n
        BY <3>2, <4>1 DEF Awaits, OnlyFor
      <4>3. data[c][KeyIn(l, c)] = Made(p, k)
        BY <2>4, <3>2 DEF KeyIn
      <4>4. \/ held'[w][n] = held[w][n] \cup {data[c][KeyIn(l, c)]}
            \/ held'[w][n] = {data[c][KeyIn(l, c)]}
        BY <1>4, <3>1, <4>2, Zenon
      <4> HIDE DEF l
      <4>5. Made(p, k) \in held'[w][n]
        BY <4>3, <4>4
      <4> QED
        BY <4>2, <4>5
    <3>3. CASE ~(l.move /\ c = "own" /\ k = l.entry)
      BY <1>2, <2>4, <3>1, <3>3
    <3> QED
      BY <3>2, <3>3
  <2> QED
    BY <2>2, <2>3, <2>4 DEF KeptFor
<1>7. CASE ~Take(w)
  <2>1. held' = held
    BY <1>7, Zenon DEF VertexStep, Skip, Start, PassBy, Miss, Finish, FinishSubGraph, Emit,
                MoveCopy, MoveClear, MoveNothing
  <2>2. \/ data'["own"][k] = data["own"][k]
        \/ Emit(w) /\ w = p /\ data'["own"][k] = Made(p, k)
        \/ MoveCopy(w) /\ w = p
    BY <1>7, OwnEntry
  <2>3. CASE MoveCopy(w) /\ w = p
    <3>1. res'[p] = "OK" /\ res' = res /\ pos[p] = "moving"
      BY <2>3 DEF Emitted, MoveCopy
    <3> QED
      BY <1>2, <3>1 DEF Results
  <2>4. CASE data'["own"][k] = data["own"][k] /\ Emitted(p, k)
    BY <2>1, <2>4 DEF KeptFor
  <2>5. CASE Emit(w) /\ w = p /\ graph.output[p][step[p]].id = k
    <3>1. data'["own"][k] = Made(p, k)
      <4>1. pos[p] = "emitting" /\ step[p] \in DOMAIN graph.output[p] /\ ~SetupFails
        BY <1>2, <2>5, Frame DEF Emit, IInv, Control, Results
      <4>2. PICK m \in DOMAIN graph.output[p] :
              graph.output[p][m].id = k /\ graph.output[p][m].inOut = 0
        BY DEF Awaits, Own, ToSet
      <4>3. m = step[p]
        BY <1>2, <2>5, <4>1, <4>2, OneOutput
      <4> DEFINE o == graph.output[p][step[p]]
      <4>4. Produced(p, o) = Made(p, k) /\ o.id = k
        BY <4>2, <4>3 DEF Produced, Made
      <4>5. Resolve(o.id) = k /\ k \in Registered
        BY <4>4, AwaitsIs DEF Resolve, IInv, Rest
      <4>6. data' = [data EXCEPT !["own"][k] = Made(p, k)]
        BY <2>5, <4>4, <4>5 DEF Emit
      <4>7. data \in [Contexts -> [Keys -> Values \cup {NoValue}]] /\ "own" \in Contexts
        BY DEF IInv, Stored, Contexts
      <4> QED
        BY <1>2, <4>6, <4>7
    <3> QED
      BY <3>1
  <2> QED
    BY <1>5, <2>2, <2>3, <2>4, <2>5
<1> QED
  BY <1>6, <1>7

\* The graph's own table is the first place of a lookup for an entry of it.
LEMMA PathOwn ==
  ASSUME NEW l, l.entry \in Registered, l.name # NoKey
  PROVE  Path(l) # <<>> /\ Head(Path(l)) = "own"
<1> DEFINE S == Contexts \cup {"children"}
           Where(c, there) == IF there THEN <<c>> ELSE <<>>
           a == Where("caller", l.name \in Outer)
           b == Where("container", l.name \in Container /\ ~l.move)
           d == Where("children", \E v \in Vertices : l.name \in graph.inner[v])
<1>1. {"own", "caller", "container", "children"} \subseteq S
  BY DEF Contexts
<1> HIDE DEF S
<1>2. <<>> \in Seq(S) /\ \A c \in S : <<c>> \in Seq(S)
  OBVIOUS
<1>3. \A s, t \in Seq(S) : s \o t \in Seq(S)
  OBVIOUS
<1>4. \A s \in Seq(S) : <<"own">> \o s # <<>> /\ Head(<<"own">> \o s) = "own"
  BY <1>1
<1>5. \A s, t, u \in Seq(S) : ((<<"own">> \o s) \o t) \o u = <<"own">> \o ((s \o t) \o u)
  BY <1>1
<1>6. a \in Seq(S) /\ b \in Seq(S) /\ d \in Seq(S)
  BY <1>1, <1>2, Zenon
<1>7. Path(l) = ((Where("own", l.entry \in Registered /\ l.name # NoKey) \o a) \o b) \o d
  BY Zenon DEF Path
<1>8. Where("own", l.entry \in Registered /\ l.name # NoKey) = <<"own">>
  OBVIOUS
<1> HIDE DEF Where, a, b, d
<1>9. Path(l) = ((<<"own">> \o a) \o b) \o d
  BY <1>7, <1>8, Zenon
<1>10. Path(l) = <<"own">> \o ((a \o b) \o d)
  BY <1>5, <1>6, <1>9
<1>11. (a \o b) \o d \in Seq(S)
  BY <1>3, <1>6
<1> QED
  BY <1>4, <1>10, <1>11

\* A lookup that is at the table finds what is there.
LEMMA OwnSource ==
  ASSUME IInv, NEW v \in Vertices, NEW n, NEW k, NEW p, Awaits(v, n, k, p),
         LooksFor(Current(v), n, k), place[v] # <<>>, Head(place[v]) = "own",
         data["own"][k] = Made(p, k)
  PROVE  Sources(v) = {"own"} /\ KeyIn(Current(v), "own") = k
<1>1. k \in Keys /\ k \in Registered /\ Table("own") = Registered /\ p \in Vertices
  BY AwaitsIs DEF IInv, Rest
<1>2. Made(p, k) # NoValue
  BY <1>1, MadeIs
<1>3. KeyIn(Current(v), "own") = k
  BY DEF KeyIn, LooksFor
<1> QED
  BY <1>1, <1>2, <1>3 DEF Sources

\* A step of the consumer from one lookup to the next: what it looked for in
\* the table it now has.
LEMMA FoundHere ==
  ASSUME IInv, Results, Taken, NEW v \in Vertices, NEW n, NEW k, NEW p,
         Awaits(v, n, k, p), KeptFor(v, n, k, p), FoundFor(v, n, k, p),
         res[p] = "OK", pos[v] = "injecting", Take(v) \/ Miss(v),
         NEW q \in DOMAIN Lookups(v), q <= step[v], LooksFor(Lookups(v)[q], n, k)
  PROVE  Made(p, k) \in held'[v][n]
<1>1. /\ k \in Keys /\ p \in Vertices /\ n \in DOMAIN graph.input[v] /\ p \in Deps(v)
  BY AwaitsIs DEF IInv, Rest
<1>2. n \in DOMAIN held[v]
  BY <1>1 DEF IInv, Holding
<1>3. CASE Made(p, k) \in held[v][n]
  <2>1. CASE Take(v)
    BY <1>2, <1>3, <2>1, HeldStays
  <2>2. CASE Miss(v)
    BY <1>3, <2>2 DEF Miss
  <2> QED
    BY <2>1, <2>2
<1>4. CASE Made(p, k) \notin held[v][n]
  <2>1. q = step[v] /\ Current(v) = Lookups(v)[step[v]]
    <3>1. q \in Nat /\ step[v] \in Nat /\ Current(v) = Lookups(v)[step[v]]
      BY CurrentIs
    <3>2. ~(q < step[v])
      BY <1>4 DEF FoundFor
    <3> QED
      BY <3>1, <3>2
  <2>2. LooksFor(Current(v), n, k)
    BY <2>1
  <2>3. place[v] # <<>> /\ Head(place[v]) = "own"
    BY <1>4, <2>2 DEF FoundFor
  <2>4. pos[p] = "done"
    BY <1>1 DEF Results
  <2>5. data["own"][k] = Made(p, k)
    BY <1>4, <2>4 DEF KeptFor, Emitted
  <2>6. Sources(v) = {"own"} /\ KeyIn(Current(v), "own") = k
    BY <2>2, <2>3, <2>5, OwnSource
  <2>7. ~Miss(v)
    BY <2>6 DEF Miss
  <2>8. PICK c \in Sources(v) :
          LET val == data[c][KeyIn(Current(v), c)] IN
          \A i \in DOMAIN held[v] :
            held'[v][i] = IF i # Current(v).input THEN held[v][i]
                          ELSE IF graph.input[v][i].aggregate
                               THEN held[v][i] \cup {val} ELSE {val}
    BY <2>7, TakeIs
  <2>9. c = "own" /\ n = Current(v).input
    BY <2>2, <2>6, <2>8 DEF LooksFor
  <2>10. \/ held'[v][n] = held[v][n] \cup {Made(p, k)}
         \/ held'[v][n] = {Made(p, k)}
    BY <1>2, <2>5, <2>6, <2>8, <2>9
  <2> QED
    BY <2>10
<1> QED
  BY <1>3, <1>4

LEMMA FoundStep ==
  ASSUME IInv, Results, Taken, NEW w \in Vertices, VertexStep(w), Results',
         NEW v \in Vertices, NEW n, NEW k, NEW p, Awaits(v, n, k, p),
         KeptFor(v, n, k, p), FoundFor(v, n, k, p)
  PROVE  FoundFor(v, n, k, p)'
<1>1. /\ UNCHANGED <<graph, run, phase>> /\ phase = "executing" /\ pos[w] # "done"
      /\ \A u \in Vertices \ {w} :
           /\ pos'[u] = pos[u] /\ step'[u] = step[u] /\ place'[u] = place[u]
           /\ held'[u] = held[u] /\ res'[u] = res[u]
  BY Frame
<1>2. /\ k \in Keys /\ k # NoKey /\ k \in Registered
      /\ p \in Vertices /\ p # v /\ p \in Deps(v)
  BY AwaitsIs DEF IInv, Rest
<1>3. Made(p, k)' = Made(p, k) /\ \A u : Lookups(u)' = Lookups(u)
  BY <1>1, SameGraph DEF Made
<1>4. Current(v)' = Lookups(v)[step'[v]]
  BY <1>3 DEF Current
<1> SUFFICES ASSUME res'[p] = "OK", pos'[v] \in {"injecting", "running"}
             PROVE  /\ pos'[v] = "injecting" /\ LooksFor(Lookups(v)[step'[v]], n, k) =>
                         \/ Made(p, k) \in held'[v][n]
                         \/ place'[v] # <<>> /\ Head(place'[v]) = "own"
                    /\ \A q \in DOMAIN Lookups(v) :
                         /\ LooksFor(Lookups(v)[q], n, k)
                         /\ pos'[v] = "running" \/ (pos'[v] = "injecting" /\ q < step'[v])
                         => Made(p, k) \in held'[v][n]
  BY <1>3, <1>4 DEF FoundFor, LooksFor
<1>5. CASE v # w
  <2>1. /\ pos'[v] = pos[v] /\ step'[v] = step[v] /\ place'[v] = place[v]
        /\ held'[v] = held[v]
    BY <1>1, <1>5
  <2>2. pos[p] = "done"
    BY <1>2, <2>1 DEF Results
  <2>3. res[p] = "OK"
    BY <1>1, <1>2, <2>2
  <2> QED
    BY <2>1, <2>3 DEF FoundFor, Current
<1>6. CASE v = w
  <2>1. res[p] = "OK"
    BY <1>1, <1>2, <1>6
  <2>2. /\ Start(v) \/ Take(v) \/ PassBy(v) \/ Miss(v)
        /\ res'[v] = res[v] /\ pos[v] \in {"waiting", "injecting"}
    BY <1>6, Outcome
  <2>3. res[v] = "INVALID"
    BY <2>2 DEF Results
  <2>4. Lookups(v) \in Seq(LookupsOf(v)) /\ DOMAIN Lookups(v) = 1..Len(Lookups(v))
        /\ Len(Lookups(v)) \in Nat
    BY LookupsAre DEF IInv, Rest
  <2>5. ASSUME NEW m \in Nat \ {0}, Seek(v, m)
        PROVE  /\ pos'[v] = "injecting" /\ LooksFor(Lookups(v)[step'[v]], n, k) =>
                    place'[v] # <<>> /\ Head(place'[v]) = "own"
               /\ \A q \in DOMAIN Lookups(v) :
                    pos'[v] = "running" \/ (pos'[v] = "injecting" /\ q < step'[v]) => q < m
    <3>1. CASE /\ m \in DOMAIN Lookups(v) /\ pos'[v] = "injecting" /\ step'[v] = m
               /\ place'[v] = Path(Lookups(v)[m])
      BY <1>2, <3>1, PathOwn DEF LooksFor
    <3>2. CASE m > Len(Lookups(v)) /\ pos'[v] = "running"
      BY <2>4, <3>2
    <3> QED
      BY <2>5, <3>1, <3>2, SeekIs
  <2>6. CASE Start(v)
    <3>1. Seek(v, 1)
      BY <2>6 DEF Start
    <3>2. \A q \in DOMAIN Lookups(v) : ~(q < 1)
      BY <2>4
    <3> QED
      BY <2>5, <3>1, <3>2
  <2>7. CASE Take(v) \/ Miss(v)
    <3>1. pos[v] = "injecting"
      BY <2>7 DEF Take, Miss
    <3>2. step[v] \in Nat \ {0} /\ step[v] + 1 \in Nat \ {0}
      BY <3>1, CurrentIs
    <3>3. Seek(v, step[v] + 1)
      <4>1. res \in [Vertices -> {"INVALID", "OK", "ERR", "SKIP"}]
        BY DEF IInv, Rest
      <4> QED
        BY <2>2, <2>3, <2>7, <4>1 DEF Take, Miss
    <3>4. \A q \in DOMAIN Lookups(v) : q < step[v] + 1 => q <= step[v]
      BY <2>4, <3>2
    <3>5. \A q \in DOMAIN Lookups(v) :
            q <= step[v] /\ LooksFor(Lookups(v)[q], n, k) => Made(p, k) \in held'[v][n]
      BY <2>1, <2>7, <3>1, FoundHere
    <3> QED
      BY <2>5, <3>2, <3>3, <3>4, <3>5
  <2>8. CASE PassBy(v)
    <3>1. /\ pos[v] = "injecting" /\ UNCHANGED <<pos, step, held, res>> /\ Sources(v) = {}
      BY <2>8 DEF PassBy
    <3>2. LooksFor(Current(v), n, k) => Made(p, k) \in held[v][n]
      <4> SUFFICES ASSUME LooksFor(Current(v), n, k), Made(p, k) \notin held[v][n]
                   PROVE  FALSE
        OBVIOUS
      <4>1. place[v] # <<>> /\ Head(place[v]) = "own"
        BY <2>1, <3>1 DEF FoundFor
      <4>2. pos[p] = "done"
        BY <1>2, <3>1 DEF Results
      <4>3. data["own"][k] = Made(p, k)
        BY <2>1, <4>2 DEF KeptFor, Emitted
      <4> QED
        BY <3>1, <4>1, <4>3, OwnSource
    <3> QED
      BY <2>1, <3>1, <3>2 DEF FoundFor, Current
  <2> QED
    BY <2>2, <2>6, <2>7, <2>8
<1> QED
  BY <1>5, <1>6

LEMMA ArrivalStep ==
  ASSUME IInv, AInv, NEW w \in Vertices, VertexStep(w)
  PROVE  AInv'
<1>1. Results /\ Taken /\ Arrival
  BY DEF AInv
<1>2. Results' /\ Taken'
  BY <1>1, ResultsStep, TakenStep
<1>3. graph' = graph
  BY Frame
<1>4. ASSUME NEW v \in Vertices, NEW p \in Vertices, NEW k \in Keys,
             NEW n \in DOMAIN graph.input[v], Awaits(v, n, k, p)
      PROVE  KeptFor(v, n, k, p)' /\ FoundFor(v, n, k, p)'
  <2>1. KeptFor(v, n, k, p) /\ FoundFor(v, n, k, p)
    BY <1>1, <1>4 DEF Arrival
  <2> QED
    BY <1>1, <1>2, <1>4, <2>1, KeptStep, FoundStep
<1>5. Arrival'
  BY <1>3, <1>4, SameGraph DEF Arrival
<1> QED
  BY <1>2, <1>5 DEF AInv

\* Between executions there are no results, so nothing is awaited.
LEMMA NoneEmitted ==
  ASSUME \A v \in Vertices : res[v] # "OK"
  PROVE  Arrival
  BY DEF Arrival, KeptFor, FoundFor, Emitted

LEMMA ArrivalContext ==
  ASSUME IInv, AInv, ExecuteFails \/ Execute \/ Reset \/ UNCHANGED vars
  PROVE  AInv'
<1>0. Results /\ Taken /\ Arrival
  BY DEF AInv
<1>1. graph' = graph
  BY DEF ExecuteFails, Execute, Reset, vars
<1>2. /\ \A v : Lookups(v)' = Lookups(v) /\ Deps(v)' = Deps(v)
      /\ SetupFails' <=> SetupFails
      /\ \A v, n, k, p : Awaits(v, n, k, p)' <=> Awaits(v, n, k, p)
  BY <1>1, SameGraph
<1>3. CASE UNCHANGED vars
  <2>1. UNCHANGED <<graph, run, phase, data, child, pos, step, place, held, res>>
    BY <1>3 DEF vars
  <2>2. Results' /\ Taken'
    BY <1>0, <1>2, <2>1 DEF Results, Taken
  <2>3. Arrival'
    BY <1>0, <1>2, <2>1 DEF Arrival, KeptFor, FoundFor, Emitted, Made, Current
  <2> QED
    BY <2>2, <2>3 DEF AInv
<1>4. ASSUME \A v \in Vertices : res'[v] # "OK" PROVE Arrival'
  BY <1>4 DEF Arrival, KeptFor, FoundFor, Emitted
<1>5. CASE ExecuteFails
  <2>1. phase = "idle" /\ phase' = "failed" /\ UNCHANGED <<pos, step, held, res>>
    BY <1>5 DEF ExecuteFails
  <2>2. Results' /\ Taken'
    BY <1>0, <1>2, <2>1 DEF Results, Taken
  <2>3. \A v \in Vertices : res'[v] # "OK"
    BY <1>0, <2>1 DEF Results
  <2> QED
    BY <1>4, <2>2, <2>3 DEF AInv
<1>6. CASE Execute
  <2>1. /\ phase = "idle" /\ ~SetupFails /\ phase' = "executing" /\ UNCHANGED <<held, res>>
        /\ pos' = [v \in Vertices |-> "waiting"]
    BY <1>6 DEF Execute
  <2>2. \A v \in Vertices : res'[v] = "INVALID" /\ pos'[v] = "waiting"
    BY <1>0, <2>1 DEF Results
  <2>3. Results' /\ Taken'
    BY <1>0, <1>2, <2>1, <2>2 DEF Results, Taken
  <2> QED
    BY <1>4, <2>2, <2>3 DEF AInv
<1>7. CASE Reset
  <2>1. /\ phase' = "idle" /\ pos' = pos /\ \A v \in Vertices : pos[v] = "done"
        /\ held' = FreshHeld /\ res' = [v \in Vertices |-> "INVALID"]
    BY <1>7 DEF Reset
  <2>2. \A v \in Vertices : res'[v] = "INVALID" /\ \A n \in DOMAIN held'[v] : held'[v][n] = {}
    BY <2>1 DEF FreshHeld
  <2>3. Results' /\ Taken'
    BY <2>1, <2>2 DEF Results, Taken
  <2> QED
    BY <1>4, <2>2, <2>3 DEF AInv
<1> QED
  BY <1>3, <1>5, <1>6, <1>7

LEMMA ArrivalInit == Init => AInv
<1> SUFFICES ASSUME Init PROVE AInv
  OBVIOUS
<1>1. /\ phase = "idle" /\ \A v \in Vertices : res[v] = "INVALID" /\ pos[v] = "done"
      /\ \A v \in Vertices : \A n \in DOMAIN held[v] : held[v][n] = {}
  BY DEF Init, FreshHeld
<1>2. Results /\ Taken
  BY <1>1 DEF Results, Taken
<1>3. Arrival
  BY <1>1, NoneEmitted
<1> QED
  BY <1>2, <1>3 DEF AInv

\* Whatever the graph and whoever else is at the table: what a vertex stored
\* stays there until the one vertex that may take it has it.
THEOREM ArrivalInvariance == Spec => [](IInv /\ AInv)
<1>1. Init => IInv /\ AInv
  BY InvInit, ArrivalInit
<1>2. IInv /\ AInv /\ [Next]_vars => (IInv /\ AInv)'
  <2> SUFFICES ASSUME IInv, AInv, [Next]_vars PROVE IInv' /\ AInv'
    OBVIOUS
  <2>1. IInv'
    BY InvStep
  <2>2. \/ ExecuteFails \/ Execute \/ Reset \/ UNCHANGED vars
        \/ \E w \in Vertices : VertexStep(w)
    BY DEF Next, VertexStep
  <2>3. AInv'
    BY <2>2, ArrivalContext, ArrivalStep
  <2> QED
    BY <2>1, <2>3
<1> QED
  BY <1>1, <1>2, PTL DEF Spec

\* InjectInputs: when a processor runs, the producers of its inputs have ended
\* and each input has what its producer made, under its own name, aggregated or
\* moved, unless that failed or something else may take the value.
THEOREM InputsArriveHolds == Spec => []InputsArrive
<1>1. IInv /\ AInv => InputsArrive
  <2> SUFFICES ASSUME IInv, AInv, NEW v \in Vertices, pos[v] = "running",
                      NEW n \in DOMAIN graph.input[v],
                      NEW k \in ToSet(graph.input[v][n].ids), NEW p \in Producers(k) \ {v}
               PROVE  /\ pos[p] = "done"
                      /\ res[p] = "OK" /\ Own(p, k) /\ OnlyFor(v, n, k) /\ k \notin DOMAIN Var =>
                           [by |-> p, key |-> k, run |-> run] \in held[v][n]
    BY DEF InputsArrive
  <2>1. p \in Deps(v) /\ p \in Vertices
    <3>1. p \in Vertices
      BY DEF Producers
    <3>2. graph.input[v][n] \in ToSet(graph.input[v])
      BY DEF ToSet
    <3>3. p \in DataDeps(v)
      BY <3>1, <3>2 DEF DataDeps
    <3> QED
      BY <3>1, <3>3 DEF Deps
  <2>2. pos[p] = "done"
    BY <2>1 DEF AInv, Results
  <2>3. ASSUME res[p] = "OK", Own(p, k), OnlyFor(v, n, k), k \notin DOMAIN Var
        PROVE  Made(p, k) \in held[v][n]
    <3>1. Awaits(v, n, k, p)
      BY <2>3 DEF Awaits
    <3>2. k \in Keys
      BY <3>1, AwaitsIs DEF IInv, Rest
    <3>3. FoundFor(v, n, k, p)
      BY <2>1, <3>1, <3>2 DEF AInv, Arrival
    <3>4. PICK q \in DOMAIN Lookups(v) : LooksFor(Lookups(v)[q], n, k)
      BY <2>3, LookupsAre DEF IInv, Rest
    <3> QED
      BY <2>3, <3>3, <3>4 DEF FoundFor
  <2> QED
    BY <2>2, <2>3 DEF Made
<1> QED
  BY <1>1, ArrivalInvariance, PTL
-----------------------------------------------------------------------------
(***************************************************************************)
(* A value that is moved is in one place at a time: in one entry, or with  *)
(* one vertex that took it. Between the two steps of a move from entry to  *)
(* entry it is at both, so the one that is about to be cleared is none;    *)
(* nobody may take it there.                                               *)
(***************************************************************************)
Clearing(c, k) ==
  \E w \in Vertices :
    pos[w] = "clearing" /\ Head(place[w]) = c /\ graph.output[w][step[w]].from = k
Entry(x, c, k) ==
  c \in Contexts \ {"container"} /\ k \in Keys /\ data[c][k] = x /\ ~Clearing(c, k)

\* A vertex has what it took until it gave it on, ended or failed.
InHand(v, n) ==
  \/ pos[v] \in {"waiting", "injecting", "running"}
  \/ /\ pos[v] = "emitting"
     /\ \E m \in DOMAIN graph.output[v] : m >= step[v] /\ graph.output[v][m].inOut = n
Hand(x, v, n) ==
  /\ v \in Vertices /\ n \in DOMAIN held[v] /\ graph.input[v][n].move
  /\ x \in held[v][n] /\ InHand(v, n)

At(x, t, a, b) == \/ t = "entry" /\ Entry(x, a, b)
                  \/ t = "hand" /\ Hand(x, a, b)
Lone(x) ==
  \A t, a, b, u, c, d : At(x, t, a, b) /\ At(x, u, c, d) => t = u /\ a = c /\ b = d

\* A value of a vertex is somewhere only after the vertex made it.
HasMade(v, k) ==
  \/ graph.inner[v] # {} /\ pos[v] = "done"
  \/ \E m \in DOMAIN graph.output[v] :
       /\ graph.output[v][m].id = k /\ graph.output[v][m].inOut = 0
       /\ pos[v] = "done" \/ (pos[v] = "emitting" /\ m < step[v])
Born(x) == (\E t, a, b : At(x, t, a, b)) /\ x.by \in Vertices => HasMade(x.by, x.key)

\* Move does not look in the container.
Shared == (Contexts \cup {"children"}) \ {"container"}
Paths ==
  \A v \in Vertices : pos[v] = "injecting" /\ Current(v).move => place[v] \in Seq(Shared)

\* Between executions the caller and the container have values, nobody else.
Idle ==
  phase # "executing" =>
    \A c \in Contexts \ {"caller", "container"} : \A k \in Keys : data[c][k] = NoValue

Single == Orderly => \A x \in Values : Lone(x) /\ Born(x)
MInv == Paths /\ Idle /\ Single

LEMMA RealValue == \A x \in Values : x # NoValue
  BY DEF Values, NoValue

LEMMA SameOrderly ==
  ASSUME graph' = graph
  PROVE  Orderly' <=> Orderly
<1>1. \A v : Lookups(v)' = Lookups(v)
  BY SameGraph
<1>2. \A k : Takers(k)' = Takers(k)
  BY <1>1 DEF Takers
<1>3. \A p, n : GivesOnAlone(p, n)' <=> GivesOnAlone(p, n)
  BY DEF GivesOnAlone
<1>4. \A p, n : MovesAlone(p, n)' <=> MovesAlone(p, n)
  BY <1>2 DEF MovesAlone
<1> QED
  BY <1>3, <1>4 DEF Orderly

\* The places of a value after a step are among those before it ...
LEMMA Stays ==
  ASSUME NEW x, Lone(x), Born(x),
         \A t, a, b : At(x, t, a, b)' => At(x, t, a, b),
         x.by \in Vertices /\ HasMade(x.by, x.key) => HasMade(x.by, x.key)'
  PROVE  Lone(x)' /\ Born(x)'
<1>1. Lone(x)'
  BY DEF Lone
<1>2. Born(x)'
  BY DEF Born
<1> QED
  BY <1>1, <1>2

\* ... or it is at one new place.
LEMMA Goes ==
  ASSUME NEW x, NEW u, NEW c, NEW d,
         \A t, a, b : At(x, t, a, b)' => t = u /\ a = c /\ b = d,
         x.by \in Vertices => HasMade(x.by, x.key)'
  PROVE  Lone(x)' /\ Born(x)'
<1>1. Lone(x)'
  BY DEF Lone
<1>2. Born(x)'
  BY DEF Born
<1> QED
  BY <1>1, <1>2

\* What a vertex made it has made.
LEMMA MadeStays ==
  ASSUME IInv, NEW w \in Vertices, VertexStep(w), NEW v \in Vertices, NEW k, HasMade(v, k)
  PROVE  HasMade(v, k)'
<1>1. /\ graph' = graph /\ pos[w] # "done"
      /\ \A u \in Vertices \ {w} : pos'[u] = pos[u] /\ step'[u] = step[u]
  BY Frame
<1>2. CASE v # w
  BY <1>1, <1>2 DEF HasMade
<1>3. CASE v = w
  <2>1. PICK m \in DOMAIN graph.output[w] :
          /\ graph.output[w][m].id = k /\ graph.output[w][m].inOut = 0
          /\ pos[w] = "emitting" /\ m < step[w]
    BY <1>1, <1>3 DEF HasMade
  <2>2. Emit(w)
    BY <2>1 DEF VertexStep, Skip, Start, Ready, Take, PassBy, Miss, Finish, FinishSubGraph,
                MoveCopy, MoveClear, MoveNothing
  <2>3. step[w] \in Nat /\ step[w] + 1 \in Nat \ {0} /\ Deliver(w, step[w] + 1, "emitting")
    BY <2>2 DEF IInv, Control, Emit
  <2>4. \/ pos'[w] = "emitting" /\ step'[w] = step[w] + 1
        \/ pos'[w] = "done"
    BY <2>3, DeliverIs
  <2>5. m \in Nat
    BY <2>1, GraphType DEF IInv, Rest
  <2> QED
    BY <1>1, <1>3, <2>1, <2>3, <2>4, <2>5 DEF HasMade
<1> QED
  BY <1>2, <1>3

\* Only the second half of a move ends the clearing of an entry.
LEMMA ClearingStays ==
  ASSUME IInv, NEW w \in Vertices, VertexStep(w), NEW c, NEW k, Clearing(c, k)
  PROVE  \/ Clearing(c, k)'
         \/ MoveClear(w) /\ c = Head(place[w]) /\ k = graph.output[w][step[w]].from
<1>1. /\ graph' = graph
      /\ \A u \in Vertices \ {w} :
           pos'[u] = pos[u] /\ step'[u] = step[u] /\ place'[u] = place[u]
  BY Frame
<1>2. PICK u \in Vertices :
        pos[u] = "clearing" /\ Head(place[u]) = c /\ graph.output[u][step[u]].from = k
  BY DEF Clearing
<1>3. CASE u # w
  BY <1>1, <1>2, <1>3, ZenonT(20) DEF Clearing
<1>4. CASE u = w
  BY <1>2, <1>4, ZenonT(20) DEF VertexStep, Skip, Start, Ready, Take, PassBy, Miss, Finish, FinishSubGraph,
                    Emit, MoveCopy, MoveNothing
<1> QED
  BY <1>3, <1>4

LEMMA InHandStep ==
  ASSUME IInv, Results, NEW w \in Vertices, VertexStep(w), NEW v \in Vertices, NEW n,
         InHand(v, n)'
  PROVE  InHand(v, n)
<1>1. /\ graph' = graph
      /\ \A u \in Vertices \ {w} : pos'[u] = pos[u] /\ step'[u] = step[u]
  BY Frame
<1>2. CASE v # w
  BY <1>1, <1>2 DEF InHand
<1>3. CASE v = w
  <2>1. \/ pos[w] \in {"waiting", "injecting", "running"}
        \/ /\ pos[w] = "emitting" /\ pos'[w] = "emitting" /\ step'[w] = step[w] + 1
    BY <1>3, Outcome DEF InHand
  <2>2. CASE pos[w] = "emitting" /\ pos'[w] = "emitting" /\ step'[w] = step[w] + 1
    <3>1. PICK m \in DOMAIN graph.output[w] : m >= step[w] + 1 /\ graph.output[w][m].inOut = n
      <4>1. \E m \in DOMAIN graph'.output[w] :
              m >= step'[w] /\ graph'.output[w][m].inOut = n
        BY <1>3, <2>2, Zenon DEF InHand
      <4> QED
        BY <1>1, <2>2, <4>1
    <3>2. m \in Nat /\ step[w] \in Nat
      <4>1. graph.output[w] \in Seq(Output)
        BY GraphType DEF IInv, Rest
      <4>2. step[w] \in Nat
        BY DEF IInv, Control
      <4>3. m \in Nat
        BY <3>1, <4>1
      <4> QED
        BY <4>2, <4>3
    <3> QED
      BY <1>3, <2>2, <3>1, <3>2 DEF InHand
  <2> QED
    BY <1>3, <2>1, <2>2 DEF InHand
<1> QED
  BY <1>2, <1>3

\* Vertices get values by taking them, and no other way.
LEMMA HandStays ==
  ASSUME IInv, Results, NEW w \in Vertices, VertexStep(w), ~Take(w), NEW x, NEW v, NEW n,
         Hand(x, v, n)'
  PROVE  Hand(x, v, n)
<1>1. graph' = graph
  BY Frame
<1>2. held' = held
  BY Zenon DEF VertexStep, Skip, Start, PassBy, Miss, Finish, FinishSubGraph, Emit,
         MoveCopy, MoveClear, MoveNothing
<1>3. v \in Vertices /\ InHand(v, n)'
  BY DEF Hand
<1>4. InHand(v, n)
  BY <1>3, InHandStep
<1> QED
  BY <1>1, <1>2, <1>4 DEF Hand

\* An entry that a step does not write keeps its value or loses it.
LEMMA EntryStays ==
  ASSUME IInv, NEW w \in Vertices, VertexStep(w), ~MoveClear(w), NEW x, NEW c, NEW k,
         Entry(x, c, k)', data'[c][k] = data[c][k]
  PROVE  Entry(x, c, k)
<1>1. ~Clearing(c, k)
  BY ClearingStays DEF Entry
<1> QED
  BY <1>1 DEF Entry

LEMMA PathShared ==
  ASSUME NEW l, l.move
  PROVE  Path(l) \in Seq(Shared)
<1> DEFINE Where(c, there) == IF there THEN <<c>> ELSE <<>>
<1>1. \A c \in Shared : \A b : Where(c, b) \in Seq(Shared)
  OBVIOUS
<1>2. {"own", "caller", "children"} \subseteq Shared
  BY DEF Contexts, Shared
<1>3. \A s, t \in Seq(Shared) : s \o t \in Seq(Shared)
  OBVIOUS
<1>4. Where("own", l.entry \in Registered /\ l.name # NoKey) \in Seq(Shared)
  BY <1>1, <1>2, Zenon
<1>5. Where("caller", l.name \in Outer) \in Seq(Shared)
  BY <1>1, <1>2, Zenon
<1>6. Where("container", l.name \in Container /\ ~l.move) \in Seq(Shared)
  OBVIOUS
<1>7. Where("children", \E v \in Vertices : l.name \in graph.inner[v]) \in Seq(Shared)
  BY <1>1, <1>2, Zenon
<1> HIDE DEF Where
<1> QED
  BY <1>3, <1>4, <1>5, <1>6, <1>7, Zenon DEF Path, Where

LEMMA PathsStep ==
  ASSUME IInv, Results, Taken, Paths, NEW w \in Vertices, VertexStep(w)
  PROVE  Paths'
<1>1. /\ graph' = graph
      /\ \A u \in Vertices \ {w} :
           pos'[u] = pos[u] /\ step'[u] = step[u] /\ place'[u] = place[u]
  BY Frame
<1>2. \A v : Lookups(v)' = Lookups(v)
  BY <1>1, SameGraph
<1> SUFFICES ASSUME NEW v \in Vertices, pos'[v] = "injecting", Lookups(v)[step'[v]].move
             PROVE  place'[v] \in Seq(Shared)
  BY <1>2 DEF Paths, Current
<1>3. CASE v # w
  BY <1>1, <1>3 DEF Paths, Current
<1>4. CASE v = w
  <2>1. (Start(w) \/ Take(w) \/ PassBy(w) \/ Miss(w)) /\ pos[w] \in {"waiting", "injecting"}
    BY <1>4, Outcome
  <2>2. CASE PassBy(w)
    <3>1. /\ pos[w] = "injecting" /\ step' = step /\ place' = [place EXCEPT ![w] = Tail(@)]
          /\ Len(place[w]) > 1
      BY <2>2 DEF PassBy
    <3>2. place[w] \in Seq(Shared)
      BY <1>4, <3>1 DEF Paths, Current
    <3>3. place'[w] = Tail(place[w])
      BY <3>1 DEF IInv, Control
    <3>4. place[w] # <<>>
      BY <3>1, <3>2
    <3> QED
      BY <1>4, <3>2, <3>3, <3>4
  <2>3. CASE ~PassBy(w)
    <3>1. \E m \in Nat \ {0} : Seek(w, m)
      <4>1. CASE Start(w)
        BY <4>1 DEF Start
      <4>2. CASE Take(w)
        <5>1. Seek(w, step[w] + 1) /\ step[w] + 1 \in Nat \ {0}
          BY <4>2 DEF Take, IInv, Control
        <5> QED
          BY <5>1
      <4>3. CASE Miss(w)
        <5>1. step[w] + 1 \in Nat \ {0}
          BY DEF IInv, Control
        <5>2. CASE Current(w).required
          <6>1. Deliver(w, 1, "moving")
            BY <4>3, <5>2 DEF Miss
          <6>2. pos'[w] \in {"moving", "done"}
            BY <6>1, DeliverIs
          <6> QED
            BY <1>4, <6>2
        <5>3. CASE ~Current(w).required
          BY <4>3, <5>1, <5>3 DEF Miss
        <5> QED
          BY <5>2, <5>3
      <4> QED
        BY <2>1, <2>3, <4>1, <4>2, <4>3
    <3>2. PICK m \in Nat \ {0} : Seek(w, m)
      BY <3>1
    <3>3. step'[w] = m /\ place'[w] = Path(Lookups(w)[m])
      BY <1>4, <3>2, SeekIs
    <3> QED
      BY <1>4, <3>3, PathShared
  <2> QED
    BY <2>2, <2>3
<1> QED
  BY <1>3, <1>4

\* Steps that write no entry.
LEMMA QuietStep ==
  ASSUME IInv, Results, NEW w \in Vertices, VertexStep(w), ~Take(w), ~MoveClear(w),
         data' = data, NEW x \in Values, Lone(x), Born(x)
  PROVE  Lone(x)' /\ Born(x)'
<1>1. \A t, a, b : At(x, t, a, b)' => At(x, t, a, b)
  <2>1. \A a, b : Entry(x, a, b)' => Entry(x, a, b)
    BY EntryStays
  <2>2. \A a, b : Hand(x, a, b)' => Hand(x, a, b)
    BY HandStays
  <2> QED
    BY <2>1, <2>2 DEF At
<1>2. x.by \in Vertices /\ HasMade(x.by, x.key) => HasMade(x.by, x.key)'
  BY MadeStays
<1> QED
  BY <1>1, <1>2, Stays

\* A step that writes y into an entry: every value but y stays where it is.
Writes(e, j, y) ==
  \A c \in Contexts : \A k \in Keys :
    data'[c][k] = IF c = e /\ k = j THEN y ELSE data[c][k]

LEMMA WritesIs ==
  ASSUME IInv, NEW e \in Contexts, NEW j \in Keys, NEW y,
         data' = [data EXCEPT ![e] = [data[e] EXCEPT ![j] = y]]
  PROVE  Writes(e, j, y)
  BY DEF IInv, Stored, Writes

LEMMA WriteStep ==
  ASSUME IInv, Results, NEW w \in Vertices, VertexStep(w), ~Take(w), ~MoveClear(w),
         NEW e, NEW j, NEW y, Writes(e, j, y),
         NEW x \in Values, NEW t, NEW a, NEW b, At(x, t, a, b)'
  PROVE  At(x, t, a, b) \/ (x = y /\ t = "entry" /\ a = e /\ b = j)
<1>1. CASE t = "hand"
  BY <1>1, HandStays DEF At
<1>2. CASE t # "hand"
  <2>1. t = "entry" /\ Entry(x, a, b)'
    BY <1>2 DEF At
  <2>2. a \in Contexts /\ b \in Keys /\ data'[a][b] = x
    BY <2>1 DEF Entry
  <2>3. CASE a = e /\ b = j
    BY <2>1, <2>2, <2>3 DEF Writes
  <2>4. CASE ~(a = e /\ b = j)
    <3>1. data'[a][b] = data[a][b]
      BY <2>2, <2>4 DEF Writes
    <3>2. Entry(x, a, b)
      BY <2>1, <3>1, EntryStays
    <3> QED
      BY <2>1, <3>2 DEF At
  <2> QED
    BY <2>3, <2>4
<1> QED
  BY <1>1, <1>2

LEMMA ClearSingle ==
  ASSUME IInv, Results, NEW w \in Vertices, MoveClear(w), NEW x \in Values, Lone(x), Born(x)
  PROVE  Lone(x)' /\ Born(x)'
<1> DEFINE e == Head(place[w])  j == graph.output[w][step[w]].from
<1>0. VertexStep(w) /\ ~Take(w) /\ pos[w] = "clearing"
  BY DEF VertexStep, MoveClear, Take
<1>1. e \in Contexts /\ j \in Keys
  BY <1>0 DEF IInv, Control
<1>2. data' = [data EXCEPT ![e] = [data[e] EXCEPT ![j] = NoValue]]
  BY DEF MoveClear
<1> HIDE DEF e, j
<1>3. Writes(e, j, NoValue)
  BY <1>1, <1>2, WritesIs
<1>4. ASSUME NEW a, NEW b, Entry(x, a, b)' PROVE Entry(x, a, b)
  <2>1. a \in Contexts \ {"container"} /\ b \in Keys /\ data'[a][b] = x /\ ~Clearing(a, b)'
    BY <1>4 DEF Entry
  <2>2. x # NoValue
    BY RealValue
  <2>3. ~(a = e /\ b = j) /\ data[a][b] = x
    BY <1>3, <2>1, <2>2 DEF Writes
  <2>4. ~Clearing(a, b)
    BY <1>0, <2>1, <2>3, ClearingStays DEF e, j
  <2> QED
    BY <2>1, <2>3, <2>4 DEF Entry
<1>5. \A a, b : Hand(x, a, b)' => Hand(x, a, b)
  BY <1>0, HandStays
<1>6. \A t, a, b : At(x, t, a, b)' => At(x, t, a, b)
  BY <1>4, <1>5 DEF At
<1>7. x.by \in Vertices /\ HasMade(x.by, x.key) => HasMade(x.by, x.key)'
  BY <1>0, MadeStays
<1> QED
  BY <1>6, <1>7, Stays

\* A value that is moved from entry to entry leaves the first: it is cleared
\* next, and nobody else moves it.
LEMMA CopySingle ==
  ASSUME IInv, Results, Orderly, NEW w \in Vertices, MoveCopy(w),
         NEW x \in Values, Lone(x), Born(x)
  PROVE  Lone(x)' /\ Born(x)'
<1>o. PICK o : o = graph.output[w][step[w]]
  BY Zenon
<1>0. VertexStep(w) /\ ~Take(w) /\ ~MoveClear(w) /\ pos[w] = "moving"
  BY DEF VertexStep, MoveCopy, Take, MoveClear
<1>1. o \in Output /\ step[w] \in DOMAIN graph.output[w]
  BY <1>0, <1>o, OutputType DEF IInv, Control
<1>2. PICK c \in EntryContexts(o.from) :
        /\ data' = [data EXCEPT !["own"][o.id] = data[c][o.from]]
        /\ place' = [place EXCEPT ![w] = <<c>>]
  BY <1>o DEF MoveCopy
<1>3. /\ o.from # NoKey /\ o.from \in Keys /\ o.id \in Keys
      /\ pos' = [pos EXCEPT ![w] = "clearing"] /\ UNCHANGED <<graph, step>>
  BY <1>o, <1>1 DEF MoveCopy, Movable, Output
<1>4. c \in Contexts \ {"container"} /\ "own" \in Contexts
  BY DataAssumption DEF EntryContexts, Contexts, IInv, Rest
<1>y. PICK y : y = data[c][o.from]
  BY Zenon
<1>5. Writes("own", o.id, y)
  <2>1. data' = [data EXCEPT !["own"] = [data["own"] EXCEPT ![o.id] = y]]
    BY <1>2, <1>y
  <2> QED
    BY <1>3, <1>4, <2>1, WritesIs
<1>6. Clearing(c, o.from)'
  <2>1. pos'[w] = "clearing" /\ Head(place'[w]) = c
    BY <1>2, <1>3 DEF IInv, Control
  <2> QED
    BY <1>o, <1>3, <2>1 DEF Clearing
<1>7. ~Clearing(c, o.from)
  <2> SUFFICES ASSUME Clearing(c, o.from) PROVE FALSE
    OBVIOUS
  <2>1. PICK u \in Vertices : pos[u] = "clearing" /\ graph.output[u][step[u]].from = o.from
    BY DEF Clearing
  <2>2. step[u] \in DOMAIN graph.output[u]
    BY <2>1 DEF IInv, Control
  <2>3. MovesAlone(w, step[w])
    BY <1>o, <1>1, <1>3 DEF Orderly
  <2>4. u = w
    BY <1>o, <2>1, <2>2, <2>3 DEF MovesAlone
  <2> QED
    BY <1>0, <2>1, <2>4
<1>8. x = y => At(x, "entry", c, o.from)
  BY <1>3, <1>4, <1>7, <1>y DEF At, Entry
<1>9. ~At(x, "entry", c, o.from)'
  BY <1>6 DEF At, Entry
<1>10. ASSUME NEW t, NEW a, NEW b, At(x, t, a, b)'
       PROVE  At(x, t, a, b) \/ (x = y /\ t = "entry" /\ a = "own" /\ b = o.id)
  BY <1>0, <1>5, <1>10, WriteStep
<1>11. x.by \in Vertices /\ HasMade(x.by, x.key) => HasMade(x.by, x.key)'
  BY <1>0, MadeStays
<1>12. CASE x # y
  BY <1>10, <1>11, <1>12, Stays
<1>13. CASE x = y
  <2>1. \A t, a, b : At(x, t, a, b) => t = "entry" /\ a = c /\ b = o.from
    BY <1>8, <1>13 DEF Lone
  <2>2. \A t, a, b : At(x, t, a, b)' => t = "entry" /\ a = "own" /\ b = o.id
    BY <1>9, <1>10, <2>1
  <2>3. x.by \in Vertices => HasMade(x.by, x.key)'
    BY <1>8, <1>11, <1>13 DEF Born
  <2> QED
    BY <2>2, <2>3, Goes
<1> QED
  BY <1>12, <1>13

\* A vertex stores a value it has just made, which is nowhere yet, or one that
\* it has and does not keep.
LEMMA EmitSingle ==
  ASSUME IInv, Results, Orderly, NEW w \in Vertices, Emit(w),
         NEW x \in Values, Lone(x), Born(x)
  PROVE  Lone(x)' /\ Born(x)'
<1>o. PICK o, j, y : o = graph.output[w][step[w]] /\ j = Resolve(o.id) /\ y = Produced(w, o)
  BY Zenon
<1>0. VertexStep(w) /\ ~Take(w) /\ ~MoveClear(w) /\ pos[w] = "emitting"
  BY DEF VertexStep, Emit, Take, MoveClear
<1>1. /\ o \in Output /\ step[w] \in DOMAIN graph.output[w] /\ step[w] \in Nat \ {0}
      /\ o.inOut \in 0..Len(graph.input[w]) /\ graph.input[w] \in Seq(Input)
      /\ phase = "executing" /\ graph.output[w] \in Seq(Output)
  BY <1>0, <1>o, OutputType, GraphType DEF IInv, Control, Rest
<1>2. /\ data' = IF j \in Registered
                 THEN [data EXCEPT !["own"] = [data["own"] EXCEPT ![j] = y]] ELSE data
      /\ Deliver(w, step[w] + 1, "emitting") /\ graph' = graph
  BY <1>o DEF Emit
<1>3. j \in Registered => j \in Keys
  BY GraphType DEF IInv, Rest
<1>4. "own" \in Contexts
  BY DEF Contexts
<1>5. \/ pos'[w] = "emitting" /\ step'[w] = step[w] + 1
      \/ pos'[w] = "done" /\ step[w] + 1 > Len(graph.output[w])
  <2>1. step[w] + 1 \in Nat \ {0}
    BY <1>1
  <2> QED
    BY <1>2, <2>1, DeliverIs
<1>6. x.by \in Vertices /\ HasMade(x.by, x.key) => HasMade(x.by, x.key)'
  BY <1>0, MadeStays
<1>7. CASE j \notin Registered
  BY <1>0, <1>2, <1>7, QuietStep
<1>8. CASE j \in Registered
  <2>1. ASSUME NEW t, NEW a, NEW b, At(x, t, a, b)'
        PROVE  At(x, t, a, b) \/ (x = y /\ t = "entry" /\ a = "own" /\ b = j)
    <3>1. data' = [data EXCEPT !["own"] = [data["own"] EXCEPT ![j] = y]] /\ j \in Keys
      BY <1>2, <1>3, <1>8
    <3>2. Writes("own", j, y)
      BY <1>4, <3>1, WritesIs
    <3> QED
      BY <1>0, <2>1, <3>2, WriteStep
  <2>2. CASE x # y
    BY <1>6, <2>1, <2>2, Stays
  <2>3. CASE x = y /\ o.inOut = 0
    <3>1. x.by = w /\ x.key = o.id
      BY <1>o, <2>3 DEF Produced
    <3>2. ~HasMade(w, o.id)
      <4> SUFFICES ASSUME HasMade(w, o.id) PROVE FALSE
        OBVIOUS
      <4>1. PICK m \in DOMAIN graph.output[w] : graph.output[w][m].id = o.id /\ m < step[w]
        BY <1>0 DEF HasMade
      <4>2. ~SetupFails
        BY <1>1 DEF Results
      <4>3. m = step[w]
        BY <1>o, <1>1, <4>1, <4>2, OneOutput
      <4> QED
        BY <1>1, <4>1, <4>3
    <3>3. \A t, a, b : ~At(x, t, a, b)
      BY <3>1, <3>2 DEF Born
    <3>4. HasMade(w, o.id)'
      BY <1>o, <1>1, <1>2, <1>5, <2>3 DEF HasMade
    <3> QED
      BY <2>1, <3>1, <3>3, <3>4, Goes
  <2>4. CASE x = y /\ o.inOut # 0
    <3>n. PICK n : n = o.inOut
      BY Zenon
    <3>1. n \in DOMAIN graph.input[w] /\ n \in DOMAIN held[w] /\ GivesOnAlone(w, step[w])
      <4>1. GivesOnAlone(w, step[w])
        BY <1>o, <1>1, <2>4 DEF Orderly
      <4>2. DOMAIN held[w] = DOMAIN graph.input[w]
        BY DEF IInv, Holding
      <4>3. n \in DOMAIN graph.input[w]
        BY <1>1, <2>4, <3>n
      <4> QED
        BY <4>1, <4>2, <4>3
    <3>2. x \in held[w][n]
      <4>1. x # NoValue
        BY RealValue
      <4>2. x = CHOOSE val \in held[w][n] \cup {NoValue} : val = NoValue => held[w][n] = {}
        BY <1>o, <2>4, <3>n, Zenon DEF Produced
      <4>3. \E val \in held[w][n] \cup {NoValue} : val = NoValue => held[w][n] = {}
        <5>1. CASE held[w][n] = {}
          BY <5>1
        <5>2. CASE held[w][n] # {}
          <6>1. PICK z \in held[w][n] : TRUE
            BY <5>2
          <6>2. z \in Values
            BY <3>1, <6>1 DEF IInv, Holding
          <6>3. z # NoValue
            BY <6>2, RealValue
          <6> QED
            BY <6>1, <6>3
        <5> QED
          BY <5>1, <5>2
      <4>4. x \in held[w][n] \cup {NoValue}
        BY <4>2, <4>3
      <4> QED
        BY <4>1, <4>4
    <3>3. InHand(w, n)
      BY <1>o, <1>0, <1>1, <3>n DEF InHand
    <3>4. At(x, "hand", w, n)
      BY <1>o, <3>n, <3>1, <3>2, <3>3, Zenon DEF At, Hand, GivesOnAlone
    <3>5. ~InHand(w, n)'
      <4> SUFFICES ASSUME InHand(w, n)' PROVE FALSE
        OBVIOUS
      <4>1. PICK m \in DOMAIN graph.output[w] :
              m >= step[w] + 1 /\ graph.output[w][m].inOut = n
        BY <1>2, <1>5 DEF InHand
      <4>2. m = step[w]
        BY <1>o, <3>n, <3>1, <4>1, Zenon DEF GivesOnAlone
      <4> QED
        BY <1>1, <4>1, <4>2
    <3>6. ~At(x, "hand", w, n)'
      BY <3>5 DEF At, Hand
    <3>7. \A t, a, b : At(x, t, a, b) => t = "hand" /\ a = w /\ b = n
      BY <3>4 DEF Lone
    <3>8. \A t, a, b : At(x, t, a, b)' => t = "entry" /\ a = "own" /\ b = j
      BY <2>1, <3>6, <3>7
    <3>9. x.by \in Vertices => HasMade(x.by, x.key)'
      BY <1>6, <3>4 DEF Born
    <3> QED
      BY <3>8, <3>9, Goes
  <2> QED
    BY <2>2, <2>3, <2>4
<1> QED
  BY <1>7, <1>8

\* A value that a vertex takes by moving leaves its entry in the same step, and
\* a value that it only reads is not in its hands.
LEMMA TakeSingle ==
  ASSUME IInv, Results, Taken, Paths, Orderly, NEW w \in Vertices, Take(w),
         NEW x \in Values, Lone(x), Born(x)
  PROVE  Lone(x)' /\ Born(x)'
<1>0. VertexStep(w) /\ ~MoveClear(w) /\ pos[w] = "injecting"
  BY DEF VertexStep, Take, MoveClear
<1>1. PICK c \in Sources(w) :
        LET l == Current(w)  val == data[c][KeyIn(l, c)] IN
        /\ held' = [held EXCEPT ![w][l.input] =
                      IF graph.input[w][l.input].aggregate THEN @ \cup {val} ELSE {val}]
        /\ data' = IF l.move THEN [data EXCEPT ![c][KeyIn(l, c)] = NoValue] ELSE data
  BY DEF Take
<1>2. PICK l, k, val : l = Current(w) /\ k = KeyIn(l, c) /\ val = data[c][k]
  BY Zenon
<1>3. /\ l \in ToSet(Lookups(w)) /\ l.input \in DOMAIN graph.input[w]
      /\ l.move \in BOOLEAN /\ l.move = graph.input[w][l.input].move
  <2>1. step[w] \in DOMAIN Lookups(w) /\ l = Lookups(w)[step[w]]
        /\ l \in ToSet(Lookups(w)) /\ Lookups(w) \in Seq(LookupsOf(w))
    BY <1>0, <1>2, CurrentIs
  <2>2. l \in LookupsOf(w)
    BY <2>1
  <2> QED
    BY <2>1, <2>2 DEF LookupsOf
<1>4. /\ c \in Contexts /\ k \in Keys /\ val \in Values /\ k \in {l.name, l.entry}
  BY <1>2, SourceType DEF KeyIn
<1>5. /\ graph' = graph
      /\ \A u \in Vertices \ {w} : held'[u] = held[u]
  BY <1>0, Frame
<1>6. /\ DOMAIN held'[w] = DOMAIN held[w]
      /\ \A n \in DOMAIN held[w] : \A z \in held'[w][n] :
           z \in held[w][n] \/ (z = val /\ n = l.input)
  <2> DEFINE h == IF graph.input[w][l.input].aggregate
                  THEN held[w][l.input] \cup {val} ELSE {val}
  <2>1. held' = [held EXCEPT ![w] = [held[w] EXCEPT ![l.input] = h]]
    BY <1>1, <1>2
  <2>2. /\ held = [v \in Vertices |-> held[v]]
        /\ held[w] \in [DOMAIN graph.input[w] -> SUBSET Values]
    BY DEF IInv, Holding
  <2>3. \A z \in h : z \in held[w][l.input] \/ z = val
    OBVIOUS
  <2> HIDE DEF h
  <2>4. /\ DOMAIN held'[w] = DOMAIN held[w]
        /\ \A n \in DOMAIN held[w] : held'[w][n] = IF n = l.input THEN h ELSE held[w][n]
    BY <2>1, <2>2
  <2> QED
    BY <2>3, <2>4
<1>7. x.by \in Vertices /\ HasMade(x.by, x.key) => HasMade(x.by, x.key)'
  BY <1>0, MadeStays
<1>8. ASSUME NEW a, NEW b, Hand(x, a, b)'
      PROVE  Hand(x, a, b) \/ (x = val /\ a = w /\ b = l.input /\ l.move)
  <2>1. /\ a \in Vertices /\ b \in DOMAIN held'[a] /\ graph.input[a][b].move
        /\ x \in held'[a][b] /\ InHand(a, b)'
    BY <1>5, <1>8 DEF Hand
  <2>2. InHand(a, b)
    BY <1>0, <2>1, InHandStep
  <2>3. CASE a # w
    BY <1>5, <2>1, <2>2, <2>3 DEF Hand
  <2>4. CASE a = w
    BY <1>3, <1>6, <2>1, <2>2, <2>4 DEF Hand
  <2> QED
    BY <2>3, <2>4
<1>9. CASE ~l.move
  <2>1. data' = data
    BY <1>1, <1>2, <1>9
  <2>2. \A a, b : Entry(x, a, b)' => Entry(x, a, b)
    BY <1>0, <2>1, EntryStays
  <2>3. \A t, a, b : At(x, t, a, b)' => At(x, t, a, b)
    BY <1>8, <1>9, <2>2 DEF At
  <2> QED
    BY <1>7, <2>3, Stays
<1>10. CASE l.move
  <2>1. Writes(c, k, NoValue)
    <3>1. data' = [data EXCEPT ![c] = [data[c] EXCEPT ![k] = NoValue]]
      BY <1>1, <1>2, <1>10
    <3> QED
      BY <1>4, <3>1, WritesIs
  <2>2. ASSUME NEW a, NEW b, Entry(x, a, b)' PROVE Entry(x, a, b) /\ ~(a = c /\ b = k)
    <3>1. a \in Contexts /\ b \in Keys /\ data'[a][b] = x /\ x # NoValue
      BY <2>2, RealValue DEF Entry
    <3>2. ~(a = c /\ b = k) /\ data'[a][b] = data[a][b]
      BY <2>1, <3>1 DEF Writes
    <3> QED
      BY <1>0, <2>2, <3>2, EntryStays
  <2>3. CASE x # val
    <3>1. \A t, a, b : At(x, t, a, b)' => At(x, t, a, b)
      BY <1>8, <2>2, <2>3 DEF At
    <3> QED
      BY <1>7, <3>1, Stays
  <2>4. CASE x = val
    <3>1. c # "container"
      <4>1. place[w] \in Seq(Shared) /\ place[w] # <<>>
        BY <1>0, <1>2, <1>10 DEF Paths, Sources
      <4>2. Head(place[w]) \in Shared
        BY <4>1
      <4>3. c \in IF Head(place[w]) = "children" THEN child ELSE {Head(place[w])}
        BY <4>1 DEF Sources
      <4>4. CASE Head(place[w]) = "children"
        BY <4>3, <4>4, DataAssumption DEF IInv, Rest
      <4>5. CASE Head(place[w]) # "children"
        BY <4>2, <4>3, <4>5 DEF Shared
      <4> QED
        BY <4>4, <4>5
    <3>2. ~Clearing(c, k)
      <4> SUFFICES ASSUME Clearing(c, k) PROVE FALSE
        OBVIOUS
      <4>1. PICK u \in Vertices : pos[u] = "clearing" /\ graph.output[u][step[u]].from = k
        BY DEF Clearing
      <4>2. step[u] \in DOMAIN graph.output[u]
        BY <4>1 DEF IInv, Control
      <4>3. k # NoKey
        BY <1>4, DataAssumption
      <4>4. MovesAlone(u, step[u])
        BY <4>1, <4>2, <4>3 DEF Orderly
      <4>5. w \in Takers(k)
        BY <1>3, <1>4, <1>10 DEF Takers
      <4>6. w = u
        BY <4>1, <4>4, <4>5 DEF MovesAlone
      <4> QED
        BY <1>0, <4>1, <4>6
    <3>3. At(x, "entry", c, k)
      BY <1>2, <1>4, <2>4, <3>1, <3>2 DEF At, Entry
    <3>4. \A t, a, b : At(x, t, a, b) => t = "entry" /\ a = c /\ b = k
      BY <3>3 DEF Lone
    <3>5. \A a, b : ~Entry(x, a, b)'
      BY <2>2, <3>4 DEF At
    <3>6. \A a, b : Hand(x, a, b)' => a = w /\ b = l.input
      BY <1>8, <3>4 DEF At
    <3>7. \A t, a, b : At(x, t, a, b)' => t = "hand" /\ a = w /\ b = l.input
      BY <3>5, <3>6 DEF At
    <3>8. x.by \in Vertices => HasMade(x.by, x.key)'
      BY <1>7, <3>3 DEF Born
    <3> QED
      BY <3>7, <3>8, Goes
  <2> QED
    BY <2>3, <2>4
<1> QED
  BY <1>3, <1>9, <1>10

\* A subgraph makes new values.
LEMMA SubGraphSingle ==
  ASSUME IInv, Results, NEW w \in Vertices, FinishSubGraph(w),
         NEW x \in Values, Lone(x), Born(x)
  PROVE  Lone(x)' /\ Born(x)'
<1>0. /\ VertexStep(w) /\ ~MoveClear(w) /\ ~Take(w) /\ pos[w] = "running"
      /\ graph.inner[w] # {} /\ graph' = graph
  BY DEF VertexStep, FinishSubGraph, Take, MoveClear
<1>1. PICK made \in SUBSET graph.inner[w] :
        data' = [data EXCEPT ![w] = [k \in Keys |->
                   IF k \in made THEN [by |-> w, key |-> k, run |-> run] ELSE NoValue]]
  BY DEF FinishSubGraph
<1>2. /\ \A c \in Contexts \ {w} : data'[c] = data[c]
      /\ \A k \in Keys : data'[w][k] = IF k \in made THEN [by |-> w, key |-> k, run |-> run]
                                       ELSE NoValue
  BY <1>1 DEF IInv, Stored, Contexts
<1>3. x # NoValue
  BY RealValue
<1>4. ASSUME NEW a, NEW b, Entry(x, a, b)'
      PROVE  Entry(x, a, b) \/ (a = w /\ b = x.key /\ x.by = w)
  <2>1. a \in Contexts /\ b \in Keys /\ data'[a][b] = x
    BY <1>4 DEF Entry
  <2>2. CASE a = w
    <3>1. b \in made
      BY <1>2, <1>3, <2>1, <2>2
    <3>2. x = [by |-> w, key |-> b, run |-> run]
      BY <1>2, <2>1, <2>2, <3>1
    <3> QED
      BY <2>2, <3>2
  <2>3. CASE a # w
    <3>1. data'[a][b] = data[a][b]
      BY <1>2, <2>1, <2>3
    <3> QED
      BY <1>0, <1>4, <3>1, EntryStays
  <2> QED
    BY <2>2, <2>3
<1>5. \A a, b : Hand(x, a, b)' => Hand(x, a, b)
  BY <1>0, HandStays
<1>6. CASE x.by # w
  <2>1. \A t, a, b : At(x, t, a, b)' => At(x, t, a, b)
    BY <1>4, <1>5, <1>6 DEF At
  <2>2. x.by \in Vertices /\ HasMade(x.by, x.key) => HasMade(x.by, x.key)'
    BY <1>0, MadeStays
  <2> QED
    BY <2>1, <2>2, Stays
<1>7. CASE x.by = w
  <2>1. ~HasMade(w, x.key)
    BY <1>0 DEF HasMade
  <2>2. \A t, a, b : ~At(x, t, a, b)
    BY <1>7, <2>1 DEF Born
  <2>3. \A t, a, b : At(x, t, a, b)' => t = "entry" /\ a = w /\ b = x.key
    BY <1>4, <1>5, <2>2 DEF At
  <2>4. HasMade(x.by, x.key)'
    <3>1. graph.output[w] = <<>>
      BY <1>0, DataAssumption DEF IInv, Rest
    <3>2. Deliver(w, 1, "emitting")
      BY DEF FinishSubGraph
    <3>3. pos'[w] = "done"
      BY <3>1, <3>2, DeliverIs
    <3> QED
      BY <1>0, <1>7, <3>3 DEF HasMade
  <2> QED
    BY <2>3, <2>4, Goes, SMTT(30)
<1> QED
  BY <1>6, <1>7

LEMMA MovedStep ==
  ASSUME IInv, AInv, MInv, NEW w \in Vertices, VertexStep(w)
  PROVE  MInv'
<1>1. Results /\ Taken /\ Paths /\ Single
  BY DEF AInv, MInv
<1>2. Paths'
  BY <1>1, PathsStep
<1>3. graph' = graph /\ phase' = "executing"
  BY Frame
<1>4. Idle'
  BY <1>3 DEF Idle
<1>5. ASSUME Orderly, NEW x \in Values PROVE Lone(x)' /\ Born(x)'
  <2>1. Lone(x) /\ Born(x)
    BY <1>1, <1>5 DEF Single
  <2>2. CASE Take(w)
    BY <1>1, <1>5, <2>1, <2>2, TakeSingle
  <2>3. CASE MoveClear(w)
    BY <1>1, <1>5, <2>1, <2>3, ClearSingle
  <2>4. CASE MoveCopy(w)
    BY <1>1, <1>5, <2>1, <2>4, CopySingle
  <2>5. CASE Emit(w)
    BY <1>1, <1>5, <2>1, <2>5, EmitSingle
  <2>6. CASE FinishSubGraph(w)
    BY <1>1, <1>5, <2>1, <2>6, SubGraphSingle
  <2>7. CASE /\ ~Take(w) /\ ~MoveClear(w) /\ ~MoveCopy(w)
             /\ ~Emit(w) /\ ~FinishSubGraph(w)
    <3>1. data' = data
      BY <2>7 DEF VertexStep, Skip, Start, PassBy, Miss, Finish, MoveNothing
    <3> QED
      BY <1>1, <1>5, <2>1, <2>7, <3>1, QuietStep
  <2> QED
    BY <2>2, <2>3, <2>4, <2>5, <2>6, <2>7
<1>6. Single'
  BY <1>3, <1>5, SameOrderly DEF Single, Values
<1> QED
  BY <1>2, <1>4, <1>6 DEF MInv

\* Steps of the context: between executions nobody has a value.
LEMMA MovedContext ==
  ASSUME IInv, IInv', AInv, MInv, ExecuteFails \/ Execute \/ Reset \/ UNCHANGED vars
  PROVE  MInv'
<1>0. Results /\ Taken /\ Paths /\ Idle /\ Single
  BY DEF AInv, MInv
<1>1. graph' = graph /\ step' = step /\ place' = place
  BY DEF ExecuteFails, Execute, Reset, vars
<1>2. Orderly' <=> Orderly
  BY <1>1, SameOrderly
<1>3. \A v : Lookups(v)' = Lookups(v)
  BY <1>1, SameGraph
<1>4. CASE ExecuteFails \/ UNCHANGED vars
  <2>1. UNCHANGED <<graph, data, pos, step, place, held>> /\ (phase' = phase \/ phase = "idle")
    BY <1>4 DEF ExecuteFails, vars
  <2>2. Paths' /\ Idle'
    BY <1>0, <1>3, <2>1 DEF Paths, Current, Idle
  <2>3. \A c, k : Clearing(c, k)' <=> Clearing(c, k)
    BY <2>1 DEF Clearing
  <2>4. \A v, n : InHand(v, n)' <=> InHand(v, n)
    BY <2>1 DEF InHand
  <2>5. \A x, t, a, b : At(x, t, a, b)' <=> At(x, t, a, b)
    BY <2>1, <2>3, <2>4 DEF At, Entry, Hand
  <2>6. \A v, k : HasMade(v, k)' <=> HasMade(v, k)
    BY <2>1 DEF HasMade
  <2>7. ASSUME Orderly, NEW x \in Values PROVE Lone(x)' /\ Born(x)'
    BY <1>0, <2>5, <2>6, <2>7, Stays DEF Single
  <2> QED
    BY <1>2, <2>2, <2>7 DEF MInv, Single, Values
<1>5. CASE Reset
  <2>1. /\ UNCHANGED <<graph, pos, step, place>> /\ \A v \in Vertices : pos[v] = "done"
        /\ \A c \in Contexts : data'[c] = IF c \in {"caller", "container"} THEN data[c] ELSE Empty
    BY <1>5 DEF Reset
  <2>2. Paths'
    BY <2>1 DEF Paths
  <2>3. Idle'
    BY <2>1 DEF Idle, Empty
  <2>4. \A c, k : ~Clearing(c, k) /\ ~Clearing(c, k)'
    BY <2>1 DEF Clearing
  <2>5. ASSUME NEW x \in Values, NEW t, NEW a, NEW b, At(x, t, a, b)'
        PROVE  At(x, t, a, b)
    <3>1. \A v \in Vertices : \A n : ~InHand(v, n)'
      BY <2>1 DEF InHand
    <3>2. t = "entry" /\ Entry(x, a, b)'
      BY <2>5, <3>1 DEF At, Hand
    <3>3. a \in Contexts \ {"container"} /\ b \in Keys /\ data'[a][b] = x
      BY <3>2 DEF Entry
    <3>4. x # NoValue
      BY RealValue
    <3>5. a = "caller" /\ data[a][b] = x
      BY <2>1, <3>3, <3>4 DEF Empty
    <3> QED
      BY <2>4, <3>2, <3>3, <3>5 DEF At, Entry
  <2>6. \A v, k : HasMade(v, k)' <=> HasMade(v, k)
    BY <2>1 DEF HasMade
  <2>7. ASSUME Orderly, NEW x \in Values PROVE Lone(x)' /\ Born(x)'
    BY <1>0, <2>5, <2>6, <2>7, Stays DEF Single
  <2> QED
    BY <1>2, <2>2, <2>3, <2>7 DEF MInv, Single, Values
<1>6. CASE Execute
  <2>1. /\ phase = "idle" /\ phase' = "executing" /\ UNCHANGED <<graph, held>>
        /\ \A v \in Vertices : pos'[v] = "waiting"
    BY <1>6 DEF Execute
  <2>2. \/ data' = data
        \/ data' = [data EXCEPT !["caller"] = FromCaller(run')]
    BY <1>6 DEF Execute
  <2>3. Paths' /\ Idle'
    BY <2>1 DEF Paths, Idle
  <2>4. \A v \in Vertices : pos[v] = "done"
    BY <2>1 DEF IInv, Control
  <2>5. \A c, k : ~Clearing(c, k) /\ ~Clearing(c, k)'
    BY <2>1, <2>4 DEF Clearing
  <2>6. ASSUME NEW x \in Values, NEW t, NEW a, NEW b, At(x, t, a, b)'
        PROVE  t = "entry" /\ a = "caller" /\ b \in Keys /\ data'["caller"][b] = x
    <3>1. \A v \in Vertices : \A n \in DOMAIN held'[v] : held'[v][n] = {}
      BY <1>0, <2>1 DEF Taken
    <3>2. t = "entry" /\ Entry(x, a, b)'
      BY <2>6, <3>1 DEF At, Hand
    <3>3. a \in Contexts \ {"container"} /\ b \in Keys /\ data'[a][b] = x
      BY <3>2 DEF Entry
    <3>4. x # NoValue
      BY RealValue
    <3>5. ASSUME a # "caller" PROVE FALSE
      <4>1. data'[a] = data[a]
        BY <2>2, <3>3, <3>5 DEF IInv, Stored
      <4> QED
        BY <1>0, <2>1, <3>3, <3>4, <3>5, <4>1 DEF Idle
    <3> QED
      BY <3>2, <3>3, <3>5
  <2>7. ASSUME Orderly, NEW x \in Values PROVE Born(x)'
    <3>1. "caller" \in Contexts /\ x # NoValue
      BY DEF Contexts, Values, NoValue
    <3>2. ASSUME NEW b \in Keys, data'["caller"][b] = x PROVE x.by \notin Vertices
      BY <3>1, <3>2 DEF IInv, Stored
    <3> QED
      BY <2>6, <3>2 DEF Born
  <2>8. ASSUME Orderly, NEW x \in Values PROVE Lone(x)'
    <3>1. CASE data' = data
      <4>1. ASSUME NEW t, NEW a, NEW b, At(x, t, a, b)' PROVE At(x, t, a, b)
        <5>1. t = "entry" /\ Entry(x, a, b)'
          BY <2>6, <4>1 DEF At
        <5>2. Entry(x, a, b)
          BY <2>5, <3>1, <5>1 DEF Entry
        <5> QED
          BY <5>1, <5>2 DEF At
      <4>2. Lone(x)
        BY <1>0, <2>8 DEF Single
      <4> QED
        BY <4>1, <4>2 DEF Lone
    <3>2. CASE data' = [data EXCEPT !["caller"] = FromCaller(run')]
      <4>1. data'["caller"] = FromCaller(run')
        BY <3>2 DEF IInv, Stored, Contexts
      <4>2. \A b \in Keys : data'["caller"][b] = x => x.key = b
        BY <4>1 DEF FromCaller, Values, NoValue
      <4>3. \A t, a, b : At(x, t, a, b)' => t = "entry" /\ a = "caller" /\ b = x.key
        BY <2>6, <4>2
      <4> QED
        BY <4>3 DEF Lone
    <3> QED
      BY <2>2, <3>1, <3>2
  <2> QED
    BY <1>2, <2>3, <2>7, <2>8 DEF MInv, Single, Values
<1> QED
  BY <1>4, <1>5, <1>6

LEMMA MovedInit == Init => MInv
<1> SUFFICES ASSUME Init PROVE MInv
  OBVIOUS
<1>0. IInv
  BY InvInit
<1>1. /\ \A v \in Vertices : pos[v] = "done"
      /\ \A c \in Contexts \ {"caller", "container"} : data[c] = Empty
      /\ data["caller"] = FromCaller(0)
  BY DEF Init, Contexts
<1>2. Paths /\ Idle
  BY <1>1 DEF Paths, Idle, Empty
<1>3. ASSUME NEW x \in Values, NEW t, NEW a, NEW b, At(x, t, a, b)
      PROVE  t = "entry" /\ a = "caller" /\ b = x.key /\ x.by \notin Vertices
  <2>1. \A v \in Vertices : \A n : ~InHand(v, n)
    BY <1>1 DEF InHand
  <2>2. t = "entry" /\ Entry(x, a, b)
    BY <1>3, <2>1 DEF At, Hand
  <2>3. a \in Contexts \ {"container"} /\ b \in Keys /\ data[a][b] = x /\ x # NoValue
    BY <2>2, RealValue DEF Entry
  <2>4. a = "caller"
    BY <1>1, <2>3 DEF Empty
  <2>5. x.key = b
    BY <1>1, <2>3, <2>4 DEF FromCaller
  <2>6. x.by \notin Vertices
    BY <1>0, <2>3, <2>4 DEF IInv, Stored
  <2> QED
    BY <2>2, <2>4, <2>5, <2>6
<1>4. ASSUME NEW x \in Values PROVE Lone(x) /\ Born(x)
  <2>1. Lone(x)
    BY <1>3 DEF Lone
  <2>2. Born(x)
    BY <1>3 DEF Born
  <2> QED
    BY <2>1, <2>2
<1> QED
  BY <1>2, <1>4 DEF MInv, Single

\* Whatever the graph, as long as it is orderly: a value that is moved is in one
\* entry or with one vertex, and a vertex's value nowhere before it is made.
THEOREM MoveInvariance == Spec => [](IInv /\ AInv /\ MInv)
<1>1. Init => IInv /\ AInv /\ MInv
  BY InvInit, ArrivalInit, MovedInit
<1>2. IInv /\ AInv /\ MInv /\ [Next]_vars => (IInv /\ AInv /\ MInv)'
  <2> SUFFICES ASSUME IInv, AInv, MInv, [Next]_vars PROVE IInv' /\ AInv' /\ MInv'
    OBVIOUS
  <2>1. IInv'
    BY InvStep
  <2>2. \/ ExecuteFails \/ Execute \/ Reset \/ UNCHANGED vars
        \/ \E w \in Vertices : VertexStep(w)
    BY DEF Next, VertexStep
  <2>3. AInv'
    BY <2>2, ArrivalContext, ArrivalStep
  <2>4. MInv'
    BY <2>1, <2>2, MovedContext, MovedStep
  <2> QED
    BY <2>1, <2>3, <2>4
<1> QED
  BY <1>1, <1>2, PTL DEF Spec

\* Move takes what it finds out of its entry at once (exchange with null), so
\* two running vertices never have one value that both took by moving.
THEOREM MovedOnceHolds == Spec => []MovedOnce
<1>1. IInv /\ MInv => MovedOnce
  <2> SUFFICES ASSUME IInv, MInv, Orderly, NEW v \in Vertices, NEW w \in Vertices, v # w,
                      pos[v] = "running", pos[w] = "running",
                      NEW n \in DOMAIN held[v], NEW m \in DOMAIN held[w],
                      graph.input[v][n].move, graph.input[w][m].move,
                      NEW x \in held[v][n], x \in held[w][m]
               PROVE  FALSE
    BY DEF MovedOnce
  <2>1. x \in Values
    BY DEF IInv, Holding
  <2>2. At(x, "hand", v, n) /\ At(x, "hand", w, m)
    BY DEF At, Hand, InHand
  <2>3. Lone(x)
    BY <2>1 DEF MInv, Single
  <2> QED
    BY <2>2, <2>3 DEF Lone
<1> QED
  BY <1>1, MoveInvariance, PTL

-----------------------------------------------------------------------------
(***************************************************************************)
(* What is moved for a skipped vertex p: until then it stays where q       *)
(* stored it, from then on where v looks for it.                           *)
(***************************************************************************)
\* A vertex has left its waiting state only after its dependencies.
Past ==
  \A v \in Vertices :
    /\ phase = "executing" /\ pos[v] # "waiting" => \A d \in Deps(v) : pos[d] = "done"
    /\ pos[v] = "emitting" => res[v] = "OK"

PastMove(p, m) ==
  \/ pos[p] = "done"
  \/ pos[p] = "moving" /\ m < step[p]
  \/ pos[p] = "clearing" /\ m <= step[p]
Untaken(p) == \A i \in DOMAIN held[p] : held[p][i] = {}

RouteOf(q, f, p, m, k, v, n) ==
  /\ m \in DOMAIN graph.output[p] /\ n \in DOMAIN graph.input[v] /\ Route(q, p, m, v, n)
  /\ graph.output[p][m].from = f /\ graph.output[p][m].id = k

InStock(q, f, p, m) ==
  Emitted(q, f) /\ Untaken(p) /\ ~PastMove(p, m) => data["own"][f] = Made(q, f)

Looked(v, n) ==
  \/ pos[v] = "running"
  \/ /\ pos[v] = "injecting"
     /\ \E e \in DOMAIN Lookups(v) : e < step[v] /\ Lookups(v)[e].input = n

Sent(q, p, m) == res[q] = "OK" /\ res[p] # "OK" /\ Untaken(p) /\ PastMove(p, m)
OnWay(q, f, k, v, n) ==
  /\ data["own"][k] = Made(q, f) \/ Made(q, f) \in held[v][n]
  /\ pos[v] = "injecting" /\ Current(v).input = n => place[v] # <<>> /\ Head(place[v]) = "own"
  /\ Looked(v, n) => held[v][n] = {Made(q, f)}

Passing ==
  \A q, p, v \in Vertices, f, k \in Keys, m, n \in Nat :
    RouteOf(q, f, p, m, k, v, n) =>
      InStock(q, f, p, m) /\ (Sent(q, p, m) => OnWay(q, f, k, v, n))

PInv == Past /\ Passing

LEMMA SameRoute ==
  ASSUME graph' = graph
  PROVE  \A q, f, p, m, k, v, n : RouteOf(q, f, p, m, k, v, n)' <=> RouteOf(q, f, p, m, k, v, n)
<1>1. \A v : Lookups(v)' = Lookups(v) /\ Deps(v)' = Deps(v)
  BY SameGraph
<1>2. \A k : Takers(k)' = Takers(k)
  BY <1>1 DEF Takers
<1>3. \A v, n, k : OnlyFor(v, n, k)' <=> OnlyFor(v, n, k)
  BY <1>1 DEF OnlyFor
<1>4. \A p, k : Own(p, k)' <=> Own(p, k)
  BY DEF Own
<1>5. \A q, p, m, v, n : Route(q, p, m, v, n)' <=> Route(q, p, m, v, n)
  BY <1>1, <1>2, <1>3, <1>4 DEF Route
<1> QED
  BY <1>5 DEF RouteOf

\* What a route says.
LEMMA RouteIs ==
  ASSUME graph \in Graphs, NEW q \in Vertices, NEW p \in Vertices, NEW v \in Vertices,
         NEW f, NEW k, NEW m, NEW n, RouteOf(q, f, p, m, k, v, n)
  PROVE  /\ m \in DOMAIN graph.output[p] /\ n \in DOMAIN graph.input[v] /\ m \in Nat
         /\ graph.output[p][m].from = f /\ graph.output[p][m].id = k
         /\ graph.input[v][n].ids = <<k>>
         /\ f \in Keys /\ k \in Keys /\ f \notin DOMAIN Var /\ k \notin DOMAIN Var
         /\ f \in Registered /\ k \in Registered /\ f # NoKey /\ k # NoKey /\ f # k
         /\ q \in Deps(p) /\ p \in Deps(v) /\ p # v /\ Own(q, f)
         /\ Takers(f) \subseteq {p} /\ OnlyFor(v, n, k)
         /\ \A w \in Vertices : \A j \in DOMAIN graph.output[w] :
              /\ graph.output[w][j].from = f => w = p /\ j = m
              /\ graph.output[w][j].from # k
              /\ Resolve(graph.output[w][j].id) = f => graph.output[w][j].id = f
              /\ Resolve(graph.output[w][j].id) = k => graph.output[w][j].id = k
<1>1. /\ m \in DOMAIN graph.output[p] /\ n \in DOMAIN graph.input[v] /\ Route(q, p, m, v, n)
      /\ graph.output[p][m].from = f /\ graph.output[p][m].id = k
  BY DEF RouteOf
<1>2. /\ q \in Deps(p) /\ Own(q, f) /\ v # p /\ graph.input[v][n].ids = <<k>>
      /\ Takers(f) \subseteq {p} /\ OnlyFor(v, n, k) /\ {k, f} \cap DOMAIN Var = {}
      /\ \A w \in Vertices : \A j \in DOMAIN graph.output[w] :
           /\ graph.output[w][j].from = f => w = p /\ j = m
           /\ Resolve(graph.output[w][j].id) = f => graph.output[w][j].id = f
  BY <1>1, Zenon DEF Route
<1>3. graph.output[p] \in Seq(Output) /\ graph.output[q] \in Seq(Output)
  BY GraphType
<1>4. m \in Nat /\ k \in Keys
  <2>1. graph.output[p][m] \in Output /\ m \in Nat
    BY <1>1, <1>3
  <2> QED
    BY <1>1, <2>1 DEF Output
<1>5. PICK j \in DOMAIN graph.output[q] : graph.output[q][j].id = f
  BY <1>2 DEF Own, ToSet
<1>6. f \in Keys
  <2>1. graph.output[q][j] \in Output
    BY <1>3, <1>5
  <2> QED
    BY <1>5, <2>1 DEF Output
<1>7. f # NoKey /\ k # NoKey
  BY <1>4, <1>6, DataAssumption
<1>8. f \in Outputs /\ k \in Outputs /\ p \in Producers(k)
  BY <1>1, <1>5 DEF Outputs, Producers, ToSet
<1>9. f \in Registered /\ k \in Registered
  BY <1>2, <1>8 DEF Registered
<1>10. p \in Deps(v)
  <2>1. graph.input[v][n] \in ToSet(graph.input[v]) /\ k \in ToSet(graph.input[v][n].ids)
    <3>1. 1 \in DOMAIN <<k>> /\ <<k>>[1] = k
      OBVIOUS
    <3> QED
      BY <1>1, <1>2, <3>1 DEF ToSet
  <2> QED
    BY <1>2, <1>8, <2>1 DEF Deps, DataDeps
<1>11. \A w \in Vertices : \A i \in DOMAIN graph.output[w] :
         /\ graph.output[w][i].from # k
         /\ Resolve(graph.output[w][i].id) = k => graph.output[w][i].id = k
  BY <1>2 DEF OnlyFor, ToSet
<1>12. f # k
  BY <1>1, <1>11
<1> QED
  BY <1>1, <1>2, <1>4, <1>6, <1>7, <1>9, <1>10, <1>11, <1>12, Zenon

\* The input of a route has one lookup, for the entry of the route.
LEMMA OneLookup ==
  ASSUME graph \in Graphs, NEW v \in Vertices, NEW n \in DOMAIN graph.input[v],
         NEW k, k \notin DOMAIN Var, graph.input[v][n].ids = <<k>>
  PROVE  \E e \in DOMAIN Lookups(v) :
           /\ LooksFor(Lookups(v)[e], n, k)
           /\ \A r \in DOMAIN Lookups(v) : Lookups(v)[r].input = n => r = e
<1>1. k \in ToSet(graph.input[v][n].ids) /\ ~Several(graph.input[v][n])
  <2>1. 1 \in DOMAIN <<k>> /\ <<k>>[1] = k /\ Len(<<k>>) = 1
    OBVIOUS
  <2> QED
    BY <2>1 DEF ToSet, Several
<1>2. PICK e \in DOMAIN Lookups(v) : LooksFor(Lookups(v)[e], n, k)
  BY <1>1, LookupsAre
<1>3. ASSUME NEW r \in DOMAIN Lookups(v), Lookups(v)[r].input = n PROVE r = e
  BY <1>1, <1>2, <1>3, LookupsAre DEF LooksFor
<1> QED
  BY <1>2, <1>3

LEMMA PastStep ==
  ASSUME IInv, Results, Past, NEW w \in Vertices, VertexStep(w)
  PROVE  Past'
<1>1. /\ UNCHANGED <<graph, run, phase>> /\ phase = "executing" /\ pos[w] # "done"
      /\ \A v \in Vertices \ {w} : pos'[v] = pos[v] /\ res'[v] = res[v]
  BY Frame
<1>2. \A v \in Vertices : Deps(v)' = Deps(v) /\ Deps(v) \subseteq Vertices
  <2>1. \A v \in Vertices : graph.deps[v] \subseteq Vertices
    BY DataAssumption DEF IInv, Rest, Graph
  <2> QED
    BY <1>1, <2>1, SameGraph DEF Deps, DataDeps
<1>3. \A d \in Vertices : pos[d] = "done" => pos'[d] = "done"
  BY <1>1
<1>4. \A d \in Deps(w) : pos[d] = "done"
  <2>1. pos[w] = "waiting" => Skip(w) \/ Start(w)
    BY Zenon DEF VertexStep, Take, PassBy, Miss, Finish, FinishSubGraph, Emit,
           MoveCopy, MoveClear, MoveNothing
  <2> QED
    BY <1>1, <2>1 DEF Past, Skip, Start, Ready
<1>5. ASSUME pos'[w] = "emitting" PROVE res'[w] = "OK"
  <2>1. (Finish(w) \/ FinishSubGraph(w)) \/ Emit(w)
    BY <1>5, Outcome
  <2>2. CASE Finish(w)
    <3>1. CASE res' = [res EXCEPT ![w] = "OK"]
      BY <3>1 DEF IInv, Rest
    <3>2. CASE Deliver(w, 1, "moving")
      BY <1>5, <3>2, DeliverIs
    <3> QED
      BY <2>2, <3>1, <3>2 DEF Finish
  <2>3. CASE FinishSubGraph(w)
    <3>1. graph.output[w] = <<>>
      BY <2>3, DataAssumption DEF IInv, Rest, FinishSubGraph
    <3>2. Deliver(w, 1, "emitting")
      BY <2>3 DEF FinishSubGraph
    <3>3. 1 \notin DOMAIN graph.output[w]
      BY <3>1
    <3> QED
      BY <1>5, <3>2, <3>3, DeliverIs
  <2>4. CASE Emit(w)
    BY <2>4 DEF Emit, Past
  <2> QED
    BY <2>1, <2>2, <2>3, <2>4
<1> QED
  BY <1>1, <1>2, <1>3, <1>4, <1>5 DEF Past

\* Who writes an entry of the graph's own table.
LEMMA OwnWritten ==
  ASSUME IInv, NEW w \in Vertices, VertexStep(w), NEW k \in Keys
  PROVE  \/ data'["own"][k] = data["own"][k]
         \/ Take(w) /\ Current(w).move /\ k = Current(w).entry
         \/ /\ Emit(w) /\ Resolve(graph.output[w][step[w]].id) = k
            /\ data'["own"][k] = Produced(w, graph.output[w][step[w]])
         \/ MoveCopy(w) /\ graph.output[w][step[w]].id = k
         \/ MoveClear(w) /\ graph.output[w][step[w]].from = k
<1>0. /\ data \in [Contexts -> [Keys -> Values \cup {NoValue}]] /\ "own" \in Contexts
      /\ "own" \notin Vertices
  BY DataAssumption DEF IInv, Stored, Contexts
<1>1. CASE Take(w)
  BY <1>1, TakeIs
<1>2. CASE Emit(w)
  <2>1. PICK j, y : /\ j = Resolve(graph.output[w][step[w]].id)
                    /\ y = Produced(w, graph.output[w][step[w]])
    BY Zenon
  <2>2. data' = IF j \in Registered
                THEN [data EXCEPT !["own"] = [data["own"] EXCEPT ![j] = y]] ELSE data
    BY <1>2, <2>1 DEF Emit
  <2>3. data'["own"][k] = data["own"][k] \/ (j = k /\ data'["own"][k] = y)
    BY <1>0, <2>2
  <2> QED
    BY <1>2, <2>1, <2>3
<1>3. CASE MoveCopy(w)
  <2>1. PICK j : j = graph.output[w][step[w]].id
    BY Zenon
  <2>2. PICK y : data' = [data EXCEPT !["own"] = [data["own"] EXCEPT ![j] = y]]
    BY <1>3, <2>1 DEF MoveCopy
  <2>3. data'["own"][k] = data["own"][k] \/ j = k
    BY <1>0, <2>2
  <2> QED
    BY <1>3, <2>1, <2>3
<1>4. CASE MoveClear(w)
  <2>1. PICK c, j : c = Head(place[w]) /\ j = graph.output[w][step[w]].from
    BY Zenon
  <2>2. c \in Contexts /\ j \in Keys
    BY <1>4, <2>1 DEF MoveClear, IInv, Control
  <2>3. data' = [data EXCEPT ![c] = [data[c] EXCEPT ![j] = NoValue]]
    BY <1>4, <2>1 DEF MoveClear
  <2>4. Writes(c, j, NoValue)
    BY <2>2, <2>3, WritesIs
  <2>5. data'["own"][k] = data["own"][k] \/ j = k
    BY <1>0, <2>4 DEF Writes
  <2> QED
    BY <1>4, <2>1, <2>5
<1>5. CASE FinishSubGraph(w)
  <2>1. PICK y : data' = [data EXCEPT ![w] = y]
    BY <1>5 DEF FinishSubGraph
  <2> QED
    BY <1>0, <2>1
<1>6. CASE Skip(w) \/ Start(w) \/ PassBy(w) \/ Miss(w) \/ Finish(w) \/ MoveNothing(w)
  BY <1>6 DEF Skip, Start, PassBy, Miss, Finish, MoveNothing
<1> QED
  BY <1>1, <1>2, <1>3, <1>4, <1>5, <1>6 DEF VertexStep


\* A vertex keeps what it took.
LEMMA UntakenBefore ==
  ASSUME IInv, Taken, NEW w \in Vertices, VertexStep(w), NEW p \in Vertices, Untaken(p)'
  PROVE  Untaken(p)
<1>1. \A u \in Vertices \ {w} : held'[u] = held[u]
  BY Frame
<1>2. CASE p # w
  BY <1>1, <1>2 DEF Untaken
<1>3. CASE p = w /\ ~Take(w)
  <2>1. held' = held
    BY <1>3, Zenon DEF VertexStep, Skip, Start, PassBy, Miss, Finish, FinishSubGraph, Emit,
           MoveCopy, MoveClear, MoveNothing
  <2> QED
    BY <2>1 DEF Untaken
<1>4. CASE p = w /\ Take(w)
  <2> SUFFICES ASSUME NEW i \in DOMAIN held[w], NEW x \in held[w][i] PROVE FALSE
    BY <1>4 DEF Untaken
  <2>1. x \in held'[w][i]
    BY <1>4, HeldStays
  <2>2. DOMAIN held'[w] = DOMAIN held[w]
    BY <1>4, TakeIs
  <2> QED
    BY <1>4, <2>1, <2>2 DEF Untaken
<1> QED
  BY <1>2, <1>3, <1>4

LEMMA PastMoveStays ==
  ASSUME IInv, NEW w \in Vertices, VertexStep(w), NEW p \in Vertices, NEW m \in Nat,
         PastMove(p, m)
  PROVE  PastMove(p, m)'
<1>1. /\ pos[w] # "done"
      /\ \A u \in Vertices \ {w} : pos'[u] = pos[u] /\ step'[u] = step[u]
  BY Frame
<1>2. CASE p # w
  BY <1>1, <1>2 DEF PastMove
<1>3. CASE p = w
  <2>1. pos[w] \in {"moving", "clearing"} /\ m <= step[w] /\ step[w] \in Nat
        /\ (pos[w] = "moving" => m < step[w])
    BY <1>1, <1>3 DEF PastMove, IInv, Control
  <2>2. MoveCopy(w) \/ MoveClear(w) \/ MoveNothing(w)
    BY <2>1, Zenon DEF VertexStep, Skip, Start, Ready, Take, PassBy, Miss, Finish,
           FinishSubGraph, Emit
  <2>3. CASE MoveCopy(w)
    <3>1. pos' = [pos EXCEPT ![w] = "clearing"] /\ step' = step
      BY <2>3 DEF MoveCopy
    <3>2. pos'[w] = "clearing"
      BY <3>1 DEF IInv, Control
    <3> QED
      BY <1>3, <2>1, <3>1, <3>2 DEF PastMove
  <2>4. CASE MoveClear(w) \/ MoveNothing(w)
    <3>1. Deliver(w, step[w] + 1, "moving") /\ step[w] + 1 \in Nat \ {0}
      BY <2>1, <2>4 DEF MoveClear, MoveNothing
    <3>2. (pos'[w] = "moving" /\ step'[w] = step[w] + 1) \/ pos'[w] = "done"
      BY <3>1, DeliverIs
    <3> QED
      BY <1>3, <2>1, <3>2 DEF PastMove
  <2> QED
    BY <2>2, <2>3, <2>4
<1> QED
  BY <1>2, <1>3

\* Where q stores its value only q stores.
LEMMA StoredByOwner ==
  ASSUME IInv, ~SetupFails, NEW q \in Vertices, NEW f, Own(q, f),
         NEW w \in Vertices, NEW j \in DOMAIN graph.output[w], graph.output[w][j].id = f
  PROVE  w = q /\ graph.output[w][j].inOut = 0
<1>1. PICK i \in DOMAIN graph.output[q] : graph.output[q][i].id = f /\ graph.output[q][i].inOut = 0
  BY DEF Own, ToSet
<1> QED
  BY <1>1, OneOutput

\* Who takes something has it.
LEMMA TakeFills ==
  ASSUME IInv, Taken, NEW w \in Vertices, Take(w)
  PROVE  ~Untaken(w)'
<1>1. pos[w] = "injecting"
  BY DEF Take
<1>2. Current(w) \in LookupsOf(w)
  BY <1>1, CurrentIs
<1>3. Current(w).input \in DOMAIN graph.input[w]
  BY <1>2 DEF LookupsOf
<1>4. PICK i \in DOMAIN held[w] : i = Current(w).input
  BY <1>3 DEF IInv, Holding
<1>5. PICK val : held'[w][i] = IF i # Current(w).input THEN held[w][i]
                               ELSE IF graph.input[w][i].aggregate
                                    THEN held[w][i] \cup {val} ELSE {val}
  BY TakeIs
<1>6. held'[w][i] # {}
  BY <1>4, <1>5
<1>7. DOMAIN held'[w] = DOMAIN held[w]
  BY TakeIs
<1> QED
  BY <1>4, <1>6, <1>7 DEF Untaken

LEMMA StockStep ==
  ASSUME IInv, Results, Taken, NEW w \in Vertices, VertexStep(w),
         NEW q \in Vertices, NEW p \in Vertices, NEW v \in Vertices,
         NEW f, NEW k, NEW m, NEW n, RouteOf(q, f, p, m, k, v, n), InStock(q, f, p, m)
  PROVE  InStock(q, f, p, m)'
<1>0. graph \in Graphs
  BY DEF IInv, Rest
<1>1. /\ f \in Keys /\ m \in Nat /\ Own(q, f) /\ Takers(f) \subseteq {p}
      /\ f \in Registered /\ f \notin DOMAIN Var
      /\ \A u \in Vertices : \A j \in DOMAIN graph.output[u] :
           /\ graph.output[u][j].from = f => u = p /\ j = m
           /\ Resolve(graph.output[u][j].id) = f => graph.output[u][j].id = f
  BY <1>0, RouteIs
<1>2. /\ UNCHANGED <<graph, run, phase>> /\ phase = "executing" /\ ~SetupFails
  BY Frame DEF Results
<1>3. Made(q, f)' = Made(q, f)
  BY <1>2 DEF Made
<1> SUFFICES ASSUME Emitted(q, f)', Untaken(p)', ~PastMove(p, m)'
             PROVE  data'["own"][f] = Made(q, f)
  BY <1>3 DEF InStock
<1>4. Untaken(p) /\ ~PastMove(p, m)
  BY <1>1, UntakenBefore, PastMoveStays
<1>5. ASSUME Emit(w), graph.output[w][step[w]].id = f
      PROVE  Produced(w, graph.output[w][step[w]]) = Made(q, f)
  <2>1. step[w] \in DOMAIN graph.output[w]
    BY <1>5 DEF Emit, IInv, Control
  <2>2. w = q /\ graph.output[w][step[w]].inOut = 0
    BY <1>1, <1>2, <1>5, <2>1, StoredByOwner
  <2> QED
    BY <1>5, <2>2 DEF Produced, Made
<1>6. CASE Emit(w) /\ graph.output[w][step[w]].id = f
  <2>1. Resolve(f) = f
    BY <1>1 DEF Resolve
  <2>2. data' = [data EXCEPT !["own"][f] = Produced(w, graph.output[w][step[w]])]
    BY <1>1, <1>6, <2>1 DEF Emit
  <2>3. data'["own"][f] = Produced(w, graph.output[w][step[w]])
    BY <1>1, <2>2 DEF IInv, Stored, Contexts
  <2> QED
    BY <1>5, <1>6, <2>3
<1>7. CASE ~(Emit(w) /\ graph.output[w][step[w]].id = f)
  <2>1. Emitted(q, f)
    BY <1>1, <1>7, EmittedStep
  <2>2. data["own"][f] = Made(q, f)
    BY <1>4, <2>1 DEF InStock
  <2>3. ASSUME Take(w), Current(w).move, f = Current(w).entry PROVE FALSE
    <3>1. Current(w) \in ToSet(Lookups(w)) /\ pos[w] = "injecting"
      BY <2>3, CurrentIs DEF Take
    <3>2. w = p
      BY <1>1, <2>3, <3>1 DEF Takers
    <3>3. ~Untaken(w)'
      BY <2>3, TakeFills
    <3> QED
      BY <3>2, <3>3
  <2>4. ASSUME Emit(w), Resolve(graph.output[w][step[w]].id) = f PROVE FALSE
    <3>1. step[w] \in DOMAIN graph.output[w]
      BY <2>4 DEF Emit, IInv, Control
    <3> QED
      BY <1>1, <1>7, <2>4, <3>1
  <2>5. ASSUME MoveCopy(w), graph.output[w][step[w]].id = f PROVE FALSE
    <3>1. pos[w] = "moving" /\ step[w] \in DOMAIN graph.output[w]
      BY <2>5 DEF MoveCopy, IInv, Control
    <3>2. w = q
      BY <1>1, <1>2, <2>5, <3>1, StoredByOwner
    <3> QED
      BY <2>1, <3>1, <3>2 DEF Results, Emitted
  <2>6. ASSUME MoveClear(w), graph.output[w][step[w]].from = f PROVE FALSE
    <3>1. pos[w] = "clearing" /\ step[w] \in DOMAIN graph.output[w]
      BY <2>6 DEF MoveClear, IInv, Control
    <3>2. w = p /\ step[w] = m
      BY <1>1, <2>6, <3>1
    <3> QED
      BY <1>1, <1>4, <3>1, <3>2 DEF PastMove
  <2>7. data'["own"][f] = data["own"][f]
    BY <1>1, <2>3, <2>4, <2>5, <2>6, OwnWritten
  <2> QED
    BY <2>2, <2>7
<1> QED
  BY <1>6, <1>7


\* The lookup of the route, while its value is on the way, finds it.
FindsIt(q, f, k, v, n) ==
  pos[v] = "injecting" /\ Current(v).input = n =>
    /\ held[v][n] = {} /\ data["own"][k] = Made(q, f)
    /\ Sources(v) = {"own"} /\ KeyIn(Current(v), "own") = k

LEMMA AtLookup ==
  ASSUME IInv, Taken, NEW q \in Vertices, NEW p \in Vertices, NEW v \in Vertices,
         NEW f, NEW k, NEW m, NEW n, RouteOf(q, f, p, m, k, v, n), OnWay(q, f, k, v, n)
  PROVE  FindsIt(q, f, k, v, n)
<1> SUFFICES ASSUME pos[v] = "injecting", Current(v).input = n
             PROVE  /\ held[v][n] = {} /\ data["own"][k] = Made(q, f)
                    /\ Sources(v) = {"own"} /\ KeyIn(Current(v), "own") = k
  BY DEF FindsIt
<1>0. graph \in Graphs
  BY DEF IInv, Rest
<1>1. /\ n \in DOMAIN graph.input[v] /\ k \notin DOMAIN Var /\ graph.input[v][n].ids = <<k>>
      /\ k \in Registered /\ f \in Keys
  BY <1>0, RouteIs
<1>2. PICK e \in DOMAIN Lookups(v) :
        /\ LooksFor(Lookups(v)[e], n, k)
        /\ \A r \in DOMAIN Lookups(v) : Lookups(v)[r].input = n => r = e
  BY <1>0, <1>1, OneLookup
<1>3. step[v] = e /\ Current(v) = Lookups(v)[e] /\ step[v] \in Nat
  BY <1>2, CurrentIs
<1>4. n \in DOMAIN held[v]
  BY <1>1 DEF IInv, Holding
<1>5. held[v][n] = {}
  BY <1>2, <1>3, <1>4 DEF Taken
<1>6. data["own"][k] = Made(q, f)
  BY <1>5 DEF OnWay
<1>7. Head(place[v]) = "own" /\ place[v] # <<>>
  BY DEF OnWay
<1>8. KeyIn(Current(v), "own") = k
  BY <1>2, <1>3 DEF KeyIn, LooksFor
<1>9. Made(q, f) # NoValue
  BY <1>1, MadeIs
<1>10. Table("own") = Registered
  BY DEF Table
<1>11. Sources(v) = {"own"}
  BY <1>1, <1>6, <1>7, <1>8, <1>9, <1>10 DEF Sources
<1> QED
  BY <1>5, <1>6, <1>8, <1>11

\* Once the value is on its way only its consumer takes it.
LEMMA KeyStays ==
  ASSUME IInv, Results, Taken, NEW w \in Vertices, VertexStep(w),
         NEW q \in Vertices, NEW p \in Vertices, NEW v \in Vertices,
         NEW f, NEW k, NEW m, NEW n, RouteOf(q, f, p, m, k, v, n), PastMove(p, m),
         ~(Take(w) /\ w = v /\ Current(v).input = n)
  PROVE  data'["own"][k] = data["own"][k]
<1>0. graph \in Graphs /\ ~SetupFails
  BY Frame DEF IInv, Rest, Results
<1>1. /\ k \in Keys /\ m \in DOMAIN graph.output[p] /\ m \in Nat /\ graph.output[p][m].id = k
      /\ OnlyFor(v, n, k)
      /\ \A u \in Vertices : \A j \in DOMAIN graph.output[u] :
           /\ graph.output[u][j].from # k
           /\ Resolve(graph.output[u][j].id) = k => graph.output[u][j].id = k
  BY <1>0, RouteIs
<1>2. ASSUME Take(w), Current(w).move, k = Current(w).entry PROVE FALSE
  <2>1. Current(w) \in ToSet(Lookups(w))
    BY <1>2, CurrentIs DEF Take
  <2>2. w = v /\ Current(w).input = n
    BY <1>1, <1>2, <2>1 DEF OnlyFor
  <2> QED
    BY <1>2, <2>2
<1>3. ASSUME pos[w] \in {"emitting", "moving"}, graph.output[w][step[w]].id = k
      PROVE  FALSE
  <2>1. step[w] \in DOMAIN graph.output[w] /\ step[w] \in Nat
    BY <1>3 DEF IInv, Control
  <2>2. w = p /\ step[w] = m
    BY <1>0, <1>1, <1>3, <2>1, OneOutput
  <2> QED
    BY <1>1, <1>3, <2>2 DEF PastMove
<1>4. ASSUME Emit(w), Resolve(graph.output[w][step[w]].id) = k PROVE FALSE
  <2>1. pos[w] = "emitting" /\ step[w] \in DOMAIN graph.output[w]
    BY <1>4 DEF Emit, IInv, Control
  <2> QED
    BY <1>1, <1>3, <1>4, <2>1
<1>5. ASSUME MoveCopy(w), graph.output[w][step[w]].id = k PROVE FALSE
  BY <1>3, <1>5 DEF MoveCopy
<1>6. ASSUME MoveClear(w), graph.output[w][step[w]].from = k PROVE FALSE
  <2>1. step[w] \in DOMAIN graph.output[w]
    BY <1>6 DEF MoveClear, IInv, Control
  <2> QED
    BY <1>1, <1>6, <2>1
<1> QED
  BY <1>1, <1>2, <1>4, <1>5, <1>6, OwnWritten

\* A value that is sent was sent before, or is moved by this step.
LEMMA SentStep ==
  ASSUME IInv, Results, Taken, Past, NEW w \in Vertices, VertexStep(w),
         NEW q \in Vertices, NEW p \in Vertices, NEW v \in Vertices,
         NEW f, NEW k, NEW m, NEW n, RouteOf(q, f, p, m, k, v, n), Sent(q, p, m)'
  PROVE  \/ Sent(q, p, m)
         \/ /\ MoveCopy(p) /\ w = p /\ step[p] = m /\ ~PastMove(p, m)
            /\ Untaken(p) /\ res[q] = "OK" /\ pos[q] = "done"
<1>0. graph \in Graphs
  BY DEF IInv, Rest
<1>1. /\ phase = "executing" /\ pos[w] # "done"
      /\ \A u \in Vertices \ {w} :
           pos'[u] = pos[u] /\ step'[u] = step[u] /\ res'[u] = res[u]
  BY Frame
<1>2. res'[q] = "OK" /\ res'[p] # "OK" /\ Untaken(p)' /\ PastMove(p, m)'
  BY DEF Sent
<1>3. Untaken(p)
  BY <1>2, UntakenBefore
<1>4. /\ q \in Deps(p) /\ m \in DOMAIN graph.output[p] /\ m \in Nat
      /\ graph.output[p][m].from = f /\ graph.output[p][m].id = k
      /\ f # NoKey /\ f \in Registered /\ k \in Registered
  BY <1>0, RouteIs
<1>5. graph.output[p] \in Seq(Output) /\ m \in 1..Len(graph.output[p]) /\ step[p] \in Nat \ {0}
  <2>1. graph.output[p] \in Seq(Output)
    BY <1>0, GraphType
  <2>2. step[p] \in Nat \ {0}
    BY DEF IInv, Control
  <2> QED
    BY <1>4, <2>1, <2>2
<1>6. CASE w # p
  <2>1. PastMove(p, m) /\ res[p] # "OK"
    BY <1>1, <1>2, <1>6 DEF PastMove
  <2>2. pos[q] = "done"
    BY <1>1, <1>4, <2>1 DEF Past, PastMove
  <2>3. res[q] = "OK"
    BY <1>1, <1>2, <2>2
  <2> QED
    BY <1>3, <2>1, <2>3 DEF Sent
<1>7. CASE w = p
  <2>1. q # p /\ res[q] = "OK"
    BY <1>1, <1>2, <1>7
  <2>2. pos'[p] \in {"done", "moving", "clearing"}
    BY <1>2 DEF PastMove
  <2>3. CASE pos[p] \notin {"moving", "clearing"}
    <3>1. \/ Skip(p) \/ Miss(p) \/ Finish(p) \/ FinishSubGraph(p) \/ Emit(p)
      <4>1. pos[p] # "moving" /\ pos[p] # "clearing"
        BY <2>3
      <4>2. ~MoveCopy(p) /\ ~MoveClear(p) /\ ~MoveNothing(p)
        BY <4>1 DEF MoveCopy, MoveClear, MoveNothing
      <4>3. ~Start(p) /\ ~Take(p)
        <5>1. ASSUME NEW i \in Nat \ {0}, Seek(p, i) PROVE FALSE
          BY <2>2, <5>1, SeekIs
        <5>2. step[p] + 1 \in Nat \ {0} /\ 1 \in Nat \ {0}
          BY <1>5
        <5> QED
          BY <5>1, <5>2 DEF Start, Take
      <4>4. ~PassBy(p)
        <5>1. ASSUME PassBy(p) PROVE FALSE
          <6>1. pos'[p] = "injecting"
            BY <5>1 DEF PassBy
          <6> QED
            BY <2>2, <6>1
        <5> QED
          BY <5>1
      <4> QED
        BY <1>7, <4>2, <4>3, <4>4 DEF VertexStep
    <3>2. ~Emit(p)
      <4>1. Emit(p) => pos[p] = "emitting" /\ res' = res
        BY DEF Emit
      <4> QED
        BY <1>2, <4>1 DEF Past
    <3>3. \E stage \in {"moving", "emitting"} : Deliver(p, 1, stage)
      <4>1. CASE Miss(p)
        <5>1. CASE Current(p).required
          BY <4>1, <5>1 DEF Miss
        <5>2. CASE ~Current(p).required
          <6>1. Seek(p, step[p] + 1) /\ step[p] + 1 \in Nat \ {0}
            BY <1>5, <4>1, <5>2 DEF Miss
          <6> QED
            BY <2>2, <6>1, SeekIs
        <5> QED
          BY <5>1, <5>2
      <4>2. CASE Skip(p) \/ Finish(p) \/ FinishSubGraph(p)
        BY <4>2 DEF Skip, Finish, FinishSubGraph
      <4> QED
        BY <3>1, <3>2, <4>1, <4>2
    <3>4. PICK stage \in {"moving", "emitting"} : Deliver(p, 1, stage)
      BY <3>3
    <3>5. pos'[p] = stage /\ step'[p] = 1
      <4>1. ~(1 > Len(graph.output[p]))
        BY <1>5
      <4> QED
        BY <3>4, <4>1, DeliverIs
    <3> QED
      BY <1>2, <1>5, <3>5 DEF PastMove
  <2>4. CASE pos[p] \in {"moving", "clearing"}
    <3>1. MoveCopy(p) \/ MoveClear(p) \/ MoveNothing(p)
      BY <1>7, <2>4, Zenon DEF VertexStep, Skip, Start, Ready, Take, PassBy, Miss, Finish,
             FinishSubGraph, Emit
    <3>2. res' = res
      BY <3>1 DEF MoveCopy, MoveClear, MoveNothing
    <3>3. pos[q] = "done"
      BY <1>1, <1>4, <2>4 DEF Past
    <3>4. CASE PastMove(p, m)
      BY <1>2, <1>3, <3>2, <3>4 DEF Sent
    <3>5. CASE ~PastMove(p, m)
      <4>1. CASE MoveCopy(p)
        <5>1. pos[p] = "moving" /\ step' = step /\ pos' = [pos EXCEPT ![p] = "clearing"]
          BY <4>1 DEF MoveCopy
        <5>2. pos'[p] = "clearing"
          BY <5>1 DEF IInv, Control
        <5>3. m <= step[p] /\ ~(m < step[p])
          BY <1>2, <3>5, <5>1, <5>2 DEF PastMove
        <5>4. step[p] = m
          BY <1>5, <5>3
        <5> QED
          BY <1>3, <1>7, <2>1, <3>3, <3>5, <4>1, <5>4
      <4>2. CASE MoveClear(p) \/ MoveNothing(p)
        <5>1. Deliver(p, step[p] + 1, "moving") /\ step[p] + 1 \in Nat \ {0}
          BY <1>5, <4>2 DEF MoveClear, MoveNothing
        <5>2. \/ pos'[p] = "moving" /\ step'[p] = step[p] + 1
              \/ pos'[p] = "done" /\ step[p] + 1 > Len(graph.output[p])
          BY <5>1, DeliverIs
        <5>3. m <= step[p]
          BY <1>2, <1>5, <5>2 DEF PastMove
        <5>4. pos[p] = "moving" /\ m = step[p]
          BY <1>5, <2>4, <3>5, <5>3 DEF PastMove
        <5>5. ~Movable(graph.output[p][m])
          BY <4>2, <5>4 DEF MoveClear, MoveNothing
        <5>6. Movable(graph.output[p][m])
          BY <1>4 DEF Movable, EntryContexts
        <5> QED
          BY <5>5, <5>6
      <4> QED
        BY <3>1, <4>1, <4>2
    <3> QED
      BY <3>4, <3>5
  <2> QED
    BY <2>3, <2>4
<1> QED
  BY <1>6, <1>7


\* The step that moves the value.
LEMMA SendStep ==
  ASSUME IInv, Results, Past, NEW q \in Vertices, NEW p \in Vertices, NEW v \in Vertices,
         NEW f, NEW k, NEW m, NEW n, RouteOf(q, f, p, m, k, v, n), InStock(q, f, p, m),
         MoveCopy(p), step[p] = m, ~PastMove(p, m), Untaken(p),
         res[q] = "OK", pos[q] = "done"
  PROVE  OnWay(q, f, k, v, n)'
<1>0. graph \in Graphs /\ VertexStep(p)
  BY DEF IInv, Rest, VertexStep
<1>1. /\ graph.output[p][m].from = f /\ graph.output[p][m].id = k
      /\ f \in Registered /\ k \in Keys /\ p \in Deps(v) /\ p # v
  BY <1>0, RouteIs
<1>2. /\ UNCHANGED <<graph, run>> /\ pos'[v] = pos[v]
  BY <1>0, <1>1, Frame
<1>3. data["own"][f] = Made(q, f)
  BY DEF InStock, Emitted
<1>4. EntryContexts(f) = {"own"}
  BY <1>1 DEF EntryContexts
<1>5. data' = [data EXCEPT !["own"][k] = data["own"][f]]
  BY <1>1, <1>4 DEF MoveCopy
<1>6. data'["own"][k] = data["own"][f]
  BY <1>1, <1>5 DEF IInv, Stored, Contexts
<1>7. Made(q, f)' = Made(q, f)
  BY <1>2 DEF Made
<1>8. pos[p] = "moving"
  BY DEF MoveCopy
<1>9. pos[v] \notin {"injecting", "running"}
  BY <1>1, <1>8 DEF Results
<1> QED
  BY <1>2, <1>3, <1>6, <1>7, <1>9 DEF OnWay, Looked

\* A step of another vertex than the consumer.
LEMMA WayOther ==
  ASSUME IInv, Results, Taken, NEW w \in Vertices, VertexStep(w),
         NEW q \in Vertices, NEW p \in Vertices, NEW v \in Vertices,
         NEW f, NEW k, NEW m, NEW n, RouteOf(q, f, p, m, k, v, n), PastMove(p, m),
         OnWay(q, f, k, v, n), w # v
  PROVE  OnWay(q, f, k, v, n)'
<1>1. /\ UNCHANGED <<graph, run>>
      /\ pos'[v] = pos[v] /\ step'[v] = step[v] /\ place'[v] = place[v] /\ held'[v] = held[v]
  BY Frame
<1>2. data'["own"][k] = data["own"][k]
  BY KeyStays
<1>3. Made(q, f)' = Made(q, f)
  BY <1>1 DEF Made
<1>4. Lookups(v)' = Lookups(v)
  BY <1>1, SameGraph
<1>5. Looked(v, n)' <=> Looked(v, n)
  BY <1>1, <1>4 DEF Looked
<1>6. Current(v)' = Current(v)
  BY <1>1, <1>4 DEF Current
<1> QED
  BY <1>1, <1>2, <1>3, <1>5, <1>6 DEF OnWay

\* A step of the consumer.
LEMMA WayConsumer ==
  ASSUME IInv, Results, Taken, NEW q \in Vertices, NEW p \in Vertices, NEW v \in Vertices,
         VertexStep(v),
         NEW f, NEW k, NEW m, NEW n, RouteOf(q, f, p, m, k, v, n), PastMove(p, m),
         OnWay(q, f, k, v, n)
  PROVE  OnWay(q, f, k, v, n)'
<1>0. graph \in Graphs
  BY DEF IInv, Rest
<1>1. /\ n \in DOMAIN graph.input[v] /\ k \notin DOMAIN Var /\ graph.input[v][n].ids = <<k>>
      /\ k \in Registered /\ k # NoKey
  BY <1>0, RouteIs
<1>2. PICK e \in DOMAIN Lookups(v) :
        /\ LooksFor(Lookups(v)[e], n, k)
        /\ \A r \in DOMAIN Lookups(v) : Lookups(v)[r].input = n => r = e
  BY <1>0, <1>1, OneLookup
<1>3. /\ UNCHANGED <<graph, run, phase>> /\ Lookups(v)' = Lookups(v)
      /\ e \in 1..Len(Lookups(v)) /\ Len(Lookups(v)) \in Nat /\ step[v] \in Nat \ {0}
      /\ DOMAIN Lookups(v) = 1..Len(Lookups(v))
  <2>1. Lookups(v) \in Seq(LookupsOf(v))
    BY <1>0, LookupsAre
  <2>2. UNCHANGED <<graph, run, phase>>
    BY Frame
  <2>3. Lookups(v)' = Lookups(v)
    BY <2>2, SameGraph
  <2>4. step[v] \in Nat \ {0}
    BY DEF IInv, Control
  <2> QED
    BY <1>2, <2>1, <2>2, <2>3, <2>4
<1>4. PICK x : x = Made(q, f)
  BY Zenon
<1>5. Made(q, f)' = x
  BY <1>3, <1>4 DEF Made
<1>6. n \in DOMAIN held[v]
  BY <1>1 DEF IInv, Holding
<1>finds. FindsIt(q, f, k, v, n)
  BY AtLookup
<1>7. ASSUME Take(v), Current(v).input = n PROVE held'[v][n] = {x}
  <2>1. /\ held[v][n] = {} /\ data["own"][k] = x
        /\ Sources(v) = {"own"} /\ KeyIn(Current(v), "own") = k
    BY <1>4, <1>7, <1>finds DEF Take, FindsIt
  <2>2. PICK c \in Sources(v) :
          held'[v][n] = IF n # Current(v).input THEN held[v][n]
                        ELSE IF graph.input[v][n].aggregate
                             THEN held[v][n] \cup {data[c][KeyIn(Current(v), c)]}
                             ELSE {data[c][KeyIn(Current(v), c)]}
    BY <1>6, <1>7, TakeIs
  <2>3. c = "own" /\ data[c][KeyIn(Current(v), c)] = x
    BY <2>1, <2>2
  <2> QED
    BY <1>7, <2>1, <2>2, <2>3
<1>8. ASSUME ~(Take(v) /\ Current(v).input = n)
      PROVE  held'[v][n] = held[v][n] /\ data'["own"][k] = data["own"][k]
  <2>1. data'["own"][k] = data["own"][k]
    BY <1>8, KeyStays
  <2>2. CASE Take(v)
    BY <1>6, <1>8, <2>1, <2>2, TakeIs
  <2>3. CASE ~Take(v)
    <3>1. held' = held
      BY <2>3, Zenon DEF VertexStep, Skip, Start, PassBy, Miss, Finish, FinishSubGraph, Emit,
             MoveCopy, MoveClear, MoveNothing
    <3> QED
      BY <2>1, <3>1
  <2> QED
    BY <2>2, <2>3
<1>9. data'["own"][k] = x \/ x \in held'[v][n]
  BY <1>4, <1>7, <1>8 DEF OnWay
<1>10. ASSUME PassBy(v) \/ Miss(v) PROVE pos[v] = "injecting" /\ Current(v).input # n
  <2>1. pos[v] = "injecting" /\ Sources(v) = {}
    BY <1>10 DEF PassBy, Miss
  <2> QED
    BY <1>finds, <2>1 DEF FindsIt
<1>11. ASSUME pos'[v] \in {"injecting", "running"}
       PROVE  \/ PassBy(v)
              \/ \E s \in Nat \ {0} :
                   /\ Seek(v, s)
                   /\ \/ Start(v) /\ s = 1
                      \/ (Take(v) \/ Miss(v)) /\ s = step[v] + 1
  <2>1. Start(v) \/ Take(v) \/ PassBy(v) \/ Miss(v)
    BY <1>11, Outcome
  <2>2. step[v] + 1 \in Nat \ {0} /\ 1 \in Nat \ {0}
    BY <1>3
  <2>3. CASE Start(v)
    BY <2>2, <2>3 DEF Start
  <2>4. CASE Take(v)
    BY <2>2, <2>4 DEF Take
  <2>5. CASE Miss(v)
    <3>1. CASE Current(v).required
      <4>1. Deliver(v, 1, "moving")
        BY <2>5, <3>1 DEF Miss
      <4> QED
        BY <1>11, <2>2, <4>1, DeliverIs
    <3>2. CASE ~Current(v).required
      BY <2>2, <2>5, <3>2 DEF Miss
    <3> QED
      BY <3>1, <3>2
  <2> QED
    BY <2>1, <2>3, <2>4, <2>5
<1>12. ASSUME PassBy(v)
       PROVE  pos'[v] = "injecting" /\ step'[v] = step[v]
  BY <1>12 DEF PassBy
<1>13. ASSUME pos'[v] = "injecting", Current(v)'.input = n
       PROVE  place'[v] # <<>> /\ Head(place'[v]) = "own"
  <2>1. Current(v)' = Lookups(v)[step'[v]]
    BY <1>3 DEF Current
  <2>2. CASE PassBy(v)
    <3>1. Current(v)' = Current(v)
      BY <1>12, <2>1, <2>2 DEF Current
    <3> QED
      BY <1>10, <1>13, <2>2, <3>1
  <2>3. CASE ~PassBy(v)
    <3>1. PICK s \in Nat \ {0} : Seek(v, s)
      BY <1>11, <1>13, <2>3
    <3>2. /\ s \in DOMAIN Lookups(v) /\ step'[v] = s /\ place'[v] = Path(Lookups(v)[s])
      BY <1>13, <3>1, SeekIs
    <3>3. s = e
      BY <1>2, <1>13, <2>1, <3>2
    <3>4. Lookups(v)[e].entry = k /\ Lookups(v)[e].name = k
      BY <1>2 DEF LooksFor
    <3> QED
      BY <1>1, <3>2, <3>3, <3>4, PathOwn
  <2> QED
    BY <2>2, <2>3
<1>14. ASSUME Looked(v, n)' PROVE held'[v][n] = {x}
  <2>1. pos'[v] \in {"injecting", "running"}
    BY <1>14 DEF Looked
  <2>2. pos'[v] = "injecting" => e < step'[v]
    <3> SUFFICES ASSUME pos'[v] = "injecting" PROVE e < step'[v]
      OBVIOUS
    <3>1. PICK r \in DOMAIN Lookups(v) : r < step'[v] /\ Lookups(v)[r].input = n
      BY <1>3, <1>14 DEF Looked
    <3> QED
      BY <1>2, <3>1
  <2>3. ASSUME Looked(v, n), ~(Take(v) /\ Current(v).input = n) PROVE held'[v][n] = {x}
    BY <1>4, <1>8, <2>3 DEF OnWay
  <2>4. CASE Take(v) /\ Current(v).input = n
    BY <1>7, <2>4
  <2>5. CASE ~(Take(v) /\ Current(v).input = n)
    <3>1. CASE PassBy(v)
      <4>1. pos[v] = "injecting" /\ e < step[v]
        BY <1>10, <1>12, <2>2, <3>1
      <4>2. Looked(v, n)
        BY <1>2, <4>1 DEF Looked, LooksFor
      <4> QED
        BY <2>3, <2>5, <4>2
    <3>2. CASE ~PassBy(v)
      <4>1. PICK s \in Nat \ {0} :
              /\ Seek(v, s)
              /\ \/ Start(v) /\ s = 1
                 \/ (Take(v) \/ Miss(v)) /\ s = step[v] + 1
        BY <1>11, <2>1, <3>2
      <4>2. e < s
        <5>1. \/ pos'[v] = "injecting" /\ step'[v] = s
              \/ s > Len(Lookups(v))
          BY <4>1, SeekIs
        <5> QED
          BY <1>3, <2>2, <4>1, <5>1
      <4>3. (Take(v) \/ Miss(v)) /\ s = step[v] + 1
        BY <1>3, <4>1, <4>2
      <4>4. pos[v] = "injecting" /\ Current(v).input # n
        BY <1>10, <2>5, <4>3 DEF Take
      <4>5. e # step[v]
        BY <1>2, <4>4 DEF Current, LooksFor
      <4>6. e < step[v]
        BY <1>3, <4>2, <4>3, <4>5
      <4>7. Looked(v, n)
        BY <1>2, <4>4, <4>6 DEF Looked, LooksFor
      <4> QED
        BY <2>3, <2>5, <4>7
    <3> QED
      BY <3>1, <3>2
  <2> QED
    BY <2>4, <2>5
<1> QED
  BY <1>5, <1>9, <1>13, <1>14 DEF OnWay

LEMMA PassingStep ==
  ASSUME IInv, AInv, PInv, NEW w \in Vertices, VertexStep(w)
  PROVE  PInv'
<1>1. Results /\ Taken /\ Past /\ Passing
  BY DEF AInv, PInv
<1>2. Past'
  BY <1>1, PastStep
<1>3. graph' = graph
  BY Frame
<1>4. ASSUME NEW q \in Vertices, NEW p \in Vertices, NEW v \in Vertices,
             NEW f \in Keys, NEW k \in Keys, NEW m \in Nat, NEW n \in Nat,
             RouteOf(q, f, p, m, k, v, n)
      PROVE  InStock(q, f, p, m)' /\ (Sent(q, p, m)' => OnWay(q, f, k, v, n)')
  <2>1. InStock(q, f, p, m) /\ (Sent(q, p, m) => OnWay(q, f, k, v, n))
    BY <1>1, <1>4 DEF Passing
  <2>2. InStock(q, f, p, m)'
    BY <1>1, <1>4, <2>1, StockStep
  <2>3. ASSUME Sent(q, p, m)' PROVE OnWay(q, f, k, v, n)'
    <3>1. CASE Sent(q, p, m)
      <4>1. OnWay(q, f, k, v, n) /\ PastMove(p, m)
        BY <2>1, <3>1 DEF Sent
      <4>2. CASE w # v
        BY <1>1, <1>4, <4>1, <4>2, WayOther
      <4>3. CASE w = v
        BY <1>1, <1>4, <4>1, <4>3, WayConsumer
      <4> QED
        BY <4>2, <4>3
    <3>2. CASE ~Sent(q, p, m)
      <4>1. /\ MoveCopy(p) /\ step[p] = m /\ ~PastMove(p, m)
            /\ Untaken(p) /\ res[q] = "OK" /\ pos[q] = "done"
        BY <1>1, <1>4, <2>3, <3>2, SentStep
      <4> QED
        BY <1>1, <1>4, <2>1, <4>1, SendStep
    <3> QED
      BY <3>1, <3>2
  <2> QED
    BY <2>2, <2>3
<1>5. Passing'
  BY <1>3, <1>4, SameRoute DEF Passing
<1> QED
  BY <1>2, <1>5 DEF PInv

LEMMA NothingPasses ==
  ASSUME \A v \in Vertices : res[v] # "OK"
  PROVE  Passing
  BY DEF Passing, InStock, Sent, Emitted

LEMMA PassingContext ==
  ASSUME IInv, AInv, PInv, ExecuteFails \/ Execute \/ Reset \/ UNCHANGED vars
  PROVE  PInv'
<1>0. Results /\ Past /\ Passing
  BY DEF AInv, PInv
<1>1. graph' = graph
  BY DEF ExecuteFails, Execute, Reset, vars
<1>2. /\ \A v : Lookups(v)' = Lookups(v) /\ Deps(v)' = Deps(v)
      /\ \A q, f, p, m, k, v, n : RouteOf(q, f, p, m, k, v, n)' <=> RouteOf(q, f, p, m, k, v, n)
  BY <1>1, SameGraph, SameRoute
<1>3. CASE UNCHANGED vars
  <2>1. UNCHANGED <<graph, run, phase, data, child, pos, step, place, held, res>>
    BY <1>3 DEF vars
  <2>2. Past'
    BY <1>0, <1>2, <2>1 DEF Past
  <2>3. \A q, f : Made(q, f)' = Made(q, f)
    BY <2>1 DEF Made
  <2>4. \A p, m : /\ PastMove(p, m)' <=> PastMove(p, m)
                  /\ Untaken(p)' <=> Untaken(p)
    BY <2>1 DEF PastMove, Untaken
  <2>5. \A q, f : Emitted(q, f)' <=> Emitted(q, f)
    BY <2>1 DEF Emitted
  <2>6. \A v, n : Looked(v, n)' <=> Looked(v, n)
    BY <1>2, <2>1 DEF Looked
  <2>7. \A v : Current(v)' = Current(v)
    BY <1>2, <2>1 DEF Current
  <2>8. \A q, f, p, m : InStock(q, f, p, m)' <=> InStock(q, f, p, m)
    BY <2>1, <2>3, <2>4, <2>5 DEF InStock
  <2>9. \A q, p, m : Sent(q, p, m)' <=> Sent(q, p, m)
    BY <2>1, <2>4 DEF Sent
  <2>10. \A q, f, k, v, n : OnWay(q, f, k, v, n)' <=> OnWay(q, f, k, v, n)
    BY <2>1, <2>3, <2>6, <2>7 DEF OnWay
  <2>11. Passing'
    BY <1>0, <1>2, <2>8, <2>9, <2>10 DEF Passing
  <2> QED
    BY <2>2, <2>11 DEF PInv
<1>4. CASE ExecuteFails \/ Execute \/ Reset
  <2>1. \A v \in Vertices : res'[v] # "OK"
    <3>1. CASE ExecuteFails \/ Execute
      BY <1>0, <3>1 DEF Results, ExecuteFails, Execute
    <3>2. CASE Reset
      BY <3>2 DEF Reset
    <3> QED
      BY <1>4, <3>1, <3>2
  <2>2. Passing'
    BY <2>1, NothingPasses DEF Passing, InStock, Sent, Emitted
  <2>3. Past'
    <3>1. CASE ExecuteFails
      <4>1. phase' = "failed" /\ pos' = pos /\ phase = "idle"
        BY <3>1 DEF ExecuteFails
      <4>2. \A v \in Vertices : pos[v] = "done"
        BY <4>1 DEF IInv, Control
      <4> QED
        BY <4>1, <4>2 DEF Past
    <3>2. CASE Execute
      <4>1. \A v \in Vertices : pos'[v] = "waiting"
        BY <3>2 DEF Execute
      <4> QED
        BY <4>1 DEF Past
    <3>3. CASE Reset
      <4>1. phase' = "idle" /\ pos' = pos /\ \A v \in Vertices : pos[v] = "done"
        BY <3>3 DEF Reset
      <4> QED
        BY <4>1 DEF Past
    <3> QED
      BY <1>4, <3>1, <3>2, <3>3
  <2> QED
    BY <2>2, <2>3 DEF PInv
<1> QED
  BY <1>3, <1>4

LEMMA PassingInit == Init => PInv
<1> SUFFICES ASSUME Init PROVE PInv
  OBVIOUS
<1>1. phase = "idle" /\ \A v \in Vertices : res[v] = "INVALID" /\ pos[v] = "done"
  BY DEF Init
<1>2. Past
  BY <1>1 DEF Past
<1>3. Passing
  BY <1>1, NothingPasses
<1> QED
  BY <1>2, <1>3 DEF PInv

\* A value on a route is where it was stored until the move, and after it where
\* its consumer looks or with the consumer.
THEOREM PassInvariance == Spec => [](IInv /\ AInv /\ PInv)
<1>1. Init => IInv /\ AInv /\ PInv
  BY InvInit, ArrivalInit, PassingInit
<1>2. IInv /\ AInv /\ PInv /\ [Next]_vars => (IInv /\ AInv /\ PInv)'
  <2> SUFFICES ASSUME IInv, AInv, PInv, [Next]_vars PROVE IInv' /\ AInv' /\ PInv'
    OBVIOUS
  <2>1. IInv'
    BY InvStep
  <2>2. \/ ExecuteFails \/ Execute \/ Reset \/ UNCHANGED vars
        \/ \E w \in Vertices : VertexStep(w)
    BY DEF Next, VertexStep
  <2>3. AInv'
    BY <2>2, ArrivalContext, ArrivalStep
  <2>4. PInv'
    BY <2>2, PassingContext, PassingStep
  <2> QED
    BY <2>1, <2>3, <2>4
<1> QED
  BY <1>1, <1>2, PTL DEF Spec

\* If a vertex with move_from_when_skipped is skipped or fails before it took
\* anything, the consumer of its output gets exactly the value it would have
\* worked on, although the move loads and clears in two steps.
THEOREM PassedOnHolds == Spec => []PassedOn
<1>1. IInv /\ AInv /\ PInv => PassedOn
  <2> SUFFICES ASSUME IInv, AInv, PInv, NEW q \in Vertices, NEW p \in Vertices,
                      NEW v \in Vertices, NEW m \in DOMAIN graph.output[p],
                      NEW n \in DOMAIN graph.input[v],
                      pos[v] = "running", res[q] = "OK", res[p] # "OK", Untaken(p),
                      Route(q, p, m, v, n)
               PROVE  held[v][n] = {Made(q, graph.output[p][m].from)}
    BY DEF PassedOn, Untaken, Made
  <2>1. PICK f, k : f = graph.output[p][m].from /\ k = graph.output[p][m].id
    BY Zenon
  <2>2. RouteOf(q, f, p, m, k, v, n) /\ graph \in Graphs
    BY <2>1 DEF RouteOf, IInv, Rest
  <2>3. f \in Keys /\ k \in Keys /\ p \in Deps(v)
    BY <2>2, RouteIs
  <2>4. m \in Nat /\ n \in Nat
    BY <2>2, GraphType
  <2>5. pos[p] = "done"
    BY <2>3 DEF AInv, Results
  <2>6. Sent(q, p, m)
    BY <2>5 DEF Sent, PastMove
  <2>7. OnWay(q, f, k, v, n)
    BY <2>2, <2>3, <2>4, <2>6 DEF PInv, Passing
  <2> QED
    BY <2>1, <2>7 DEF OnWay, Looked
<1> QED
  BY <1>1, PassInvariance, PTL

=============================================================================
