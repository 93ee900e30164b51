------------------------ MODULE DeltaStepping_proofs ------------------------
(***************************************************************************)
(* Proofs about DeltaStepping.                                             *)
(***************************************************************************)
EXTENDS DeltaStepping, GraphLemmas

(* What shortest distances are: an edge is no short cut, and a node that is *)
(* in reach, but for the source, is reached best by one of its edges.       *)
IsGraph(graph) == graph \in [Nodes -> Seq(Nodes \X (Nat \ {0}))]

NoShortCut(D, e) == D[e[2]] <= D[e[1]] + e[3]

ReachedByEdges(D, graph, s) ==
    \A v \in Nodes \ {s} : D[v] < DistInf =>
        \E e \in EdgesOf(graph) : e[2] = v /\ D[v] = D[e[1]] + e[3]

AreShortest(D, graph, s) ==
    /\ D \in [Nodes -> 0 .. DistInf] /\ D[s] = 0
    /\ \A e \in EdgesOf(graph) : NoShortCut(D, e)
    /\ ReachedByEdges(D, graph, s)

LEMMA ConstantFacts ==
    /\ N \in Nat \ {0} /\ DistInf \in Nat \ {0} /\ MaxBin \in Nat \ {0} /\ DistInf <= MaxBin
    /\ Threads # {} /\ IsFiniteSet(Nodes) /\ Cardinality(Nodes) = N
<1>1. N \in Nat \ {0} /\ DistInf \in Nat \ {0} /\ MaxBin \in Nat \ {0}
      /\ DistInf <= MaxBin /\ Threads # {}
  BY DeltaAssumption
<1>2. IsFiniteSet(0 .. N - 1) /\ Cardinality(0 .. N - 1) = N
  BY <1>1, FS_Interval
<1> QED BY <1>1, <1>2 DEF Nodes

LEMMA EdgesOfGraph ==
    ASSUME NEW graph, IsGraph(graph)
    PROVE  /\ EdgesOf(graph) \subseteq Nodes \X Nodes \X (Nat \ {0})
           /\ \A u \in Nodes : \A j \in DOMAIN graph[u] :
                 /\ graph[u][j][1] \in Nodes /\ graph[u][j][2] \in Nat \ {0}
                 /\ <<u, graph[u][j][1], graph[u][j][2]>> \in EdgesOf(graph)
           /\ \A e \in EdgesOf(graph) :
                 \E j \in DOMAIN graph[e[1]] : e[2] = graph[e[1]][j][1] /\ e[3] = graph[e[1]][j][2]
<1>1. ASSUME NEW u \in Nodes, NEW j \in DOMAIN graph[u]
      PROVE  graph[u][j][1] \in Nodes /\ graph[u][j][2] \in Nat \ {0}
  <2>1. graph[u] \in Seq(Nodes \X (Nat \ {0}))
    BY DEF IsGraph
  <2>2. graph[u][j] \in Nodes \X (Nat \ {0})
    BY <2>1
  <2> QED BY <2>2
<1>2. \A e \in EdgesOf(graph) : \E u \in Nodes : \E j \in DOMAIN graph[u] :
          e = <<u, graph[u][j][1], graph[u][j][2]>>
  BY DEF EdgesOf
<1>3. \A u \in Nodes : \A j \in DOMAIN graph[u] : <<u, graph[u][j][1], graph[u][j][2]>> \in EdgesOf(graph)
  BY DEF EdgesOf
<1> QED BY <1>1, <1>2, <1>3

(* Distances that are no longer than D along the edges of near nodes are no *)
(* longer than D there at all.                                              *)
LEMMA NoLonger ==
    ASSUME NEW graph, IsGraph(graph), NEW s \in Nodes,
           NEW D \in [Nodes -> 0 .. DistInf], NEW E \in [Nodes -> 0 .. DistInf],
           ReachedByEdges(D, graph, s), E[s] = 0,
           NEW near \in SUBSET Nodes,
           \A u, v \in Nodes : v \in near /\ D[u] <= D[v] => u \in near,
           \A e \in EdgesOf(graph) : e[1] \in near /\ E[e[1]] <= D[e[1]] => NoShortCut(E, e)
    PROVE  \A v \in near : E[v] <= D[v]
<1> DEFINE Longer == {v \in near : ~(E[v] <= D[v])}
           Values == {D[v] : v \in Longer}
<1> SUFFICES ASSUME Longer # {} PROVE FALSE
  OBVIOUS
<1>1. Values \in SUBSET Nat /\ Values # {}
  OBVIOUS
<1>2. PICK d \in Values : \A y \in Values : d <= y
  <2> HIDE DEF Values
  <2> QED BY <1>1, LeastNatural
<1>3. PICK v \in Longer : d = D[v]
  BY <1>2
<1>4. v \in Nodes \ {s} /\ D[v] \in Nat /\ E[v] \in 0 .. DistInf /\ D[v] < E[v] /\ DistInf \in Nat
  BY <1>3, ConstantFacts
<1>5. PICK e \in EdgesOf(graph) : e[2] = v /\ D[v] = D[e[1]] + e[3]
  <2>1. D[v] < DistInf
    BY <1>4
  <2> QED BY <1>4, <2>1 DEF ReachedByEdges
<1>6. e[1] \in Nodes /\ e[3] \in Nat \ {0} /\ D[e[1]] \in Nat /\ E[e[1]] \in Nat
  <2>1. e \in Nodes \X Nodes \X (Nat \ {0})
    BY EdgesOfGraph
  <2> QED BY <2>1
<1>7. e[1] \in near /\ D[e[1]] < d
  BY <1>3, <1>4, <1>5, <1>6
<1>8. E[e[1]] <= D[e[1]]
  <2>1. e[1] \in Longer => D[e[1]] \in Values
    OBVIOUS
  <2>2. D[e[1]] \notin Values
    <3> HIDE DEF Values
    <3> QED BY <1>1, <1>2, <1>6, <1>7
  <2> QED BY <1>7, <2>1, <2>2
<1>9. NoShortCut(E, e)
  BY <1>7, <1>8
<1> QED BY <1>4, <1>5, <1>6, <1>8, <1>9 DEF NoShortCut

LEMMA ShortestUnique ==
    ASSUME NEW graph, IsGraph(graph), NEW s \in Nodes,
           NEW D, AreShortest(D, graph, s), NEW E, AreShortest(E, graph, s)
    PROVE  D = E
<1>1. \A v \in Nodes : E[v] <= D[v]
  BY NoLonger DEF AreShortest
<1>2. \A v \in Nodes : D[v] <= E[v]
  BY NoLonger DEF AreShortest
<1>3. D \in [Nodes -> Int] /\ E \in [Nodes -> Int]
  BY DEF AreShortest
<1>4. \A v \in Nodes : D[v] = E[v]
  BY <1>1, <1>2, <1>3
<1> QED BY <1>3, <1>4
-----------------------------------------------------------------------------
(* The distances of ShortestWithin, one more edge at a time.                *)
LEMMA ShortestWithinCorrect ==
    ASSUME NEW graph, IsGraph(graph), NEW s \in Nodes
    PROVE  AreShortest(ShortestWithin(graph, s), graph, s)
<1> DEFINE X == [Nodes -> 0 .. DistInf]
           Into(v) == {f \in EdgesOf(graph) : f[2] = v}
           Via(d, v) == {d[v]} \cup {d[e[1]] + e[3] : e \in Into(v)}
           Longer(d) == [v \in Nodes |-> Min(Via(d, v))]
           F == [d \in X |-> Longer(d)]
           a == [n \in Nodes |-> IF n = s THEN 0 ELSE DistInf]
           Def(w) == [k \in Nat |-> IF k = 0 THEN a ELSE Longer(w[k - 1])]
           within == CHOOSE w : w = Def(w)
<1>1. \A e \in EdgesOf(graph) : e[1] \in Nodes /\ e[2] \in Nodes /\ e[3] \in Nat \ {0}
  <2>1. \A e \in EdgesOf(graph) : e \in Nodes \X Nodes \X (Nat \ {0})
    BY EdgesOfGraph
  <2> QED BY <2>1
<1>2. ASSUME NEW d \in X, NEW v \in Nodes
      PROVE  /\ Longer(d)[v] \in 0 .. d[v] /\ Longer(d)[v] \in Via(d, v)
             /\ \A e \in EdgesOf(graph) : e[2] = v => Longer(d)[v] <= d[e[1]] + e[3]
  <2>1. d[v] \in Nat /\ \A e \in Into(v) : d[e[1]] + e[3] \in Nat
    BY <1>1
  <2>2. Via(d, v) \in SUBSET Nat /\ d[v] \in Via(d, v)
    BY <2>1
  <2>3. \A e \in EdgesOf(graph) : e[2] = v => d[e[1]] + e[3] \in Via(d, v)
    OBVIOUS
  <2>4. Longer(d)[v] = Min(Via(d, v))
    OBVIOUS
  <2> HIDE DEF Via, Longer
  <2>5. Min(Via(d, v)) \in Via(d, v) /\ \A y \in Via(d, v) : Min(Via(d, v)) <= y
    BY <2>2, MinFacts
  <2> QED BY <2>1, <2>2, <2>3, <2>4, <2>5
<1>3. a \in X /\ \A d \in X : F[d] \in X
  <2>1. a \in X
    BY ConstantFacts
  <2>2. ASSUME NEW d \in X PROVE F[d] \in X
    <3>1. \A v \in Nodes : Longer(d)[v] \in 0 .. DistInf
      <4>1. \A v \in Nodes : d[v] \in 0 .. DistInf /\ Longer(d)[v] \in 0 .. d[v]
        BY <1>2
      <4> HIDE DEF Longer
      <4> QED BY <4>1, ConstantFacts
    <3>2. Longer(d) = [v \in Nodes |-> Longer(d)[v]]
      OBVIOUS
    <3> HIDE DEF Longer
    <3> QED BY <3>1, <3>2
  <2> QED BY <2>1, <2>2
<1>4. ShortestWithin(graph, s) = within[N - 1]
  BY DEF ShortestWithin
<1>5. within = Def(within)
  <2>1. PICK g : Iterates(g, X, a, F)
    <3> HIDE DEF X, a, F
    <3> QED BY <1>3, Iteration
  <2>2. ASSUME NEW k \in Nat PROVE g[k] = IF k = 0 THEN a ELSE Longer(g[k - 1])
    <3>1. CASE k = 0
      BY <2>1, <3>1 DEF Iterates
    <3>2. CASE k # 0
      <4>1. k - 1 \in Nat /\ (k - 1) + 1 = k
        BY <3>2
      <4> HIDE DEF a, Longer
      <4>2. g[(k - 1) + 1] = F[g[k - 1]] /\ g[k - 1] \in X
        BY <2>1, <4>1 DEF Iterates
      <4> QED BY <3>2, <4>1, <4>2
    <3> QED BY <3>1, <3>2
  <2>3. g = Def(g)
    <3> HIDE DEF a, Longer
    <3> QED BY <2>1, <2>2 DEF Iterates
  <2> QED BY <2>3
<1> HIDE DEF within
<1>6. within \in [Nat -> X] /\ within[0] = a /\ \A k \in Nat : within[k + 1] = Longer(within[k])
  <2>1. within = [k \in Nat |-> within[k]] /\ within[0] = a
    <3> HIDE DEF a, Longer
    <3> QED BY <1>5
  <2>2. ASSUME NEW k \in Nat PROVE within[k + 1] = Longer(within[k])
    <3>1. k + 1 \in Nat /\ k + 1 # 0 /\ (k + 1) - 1 = k
      OBVIOUS
    <3> HIDE DEF a, Longer
    <3> QED BY <1>5, <3>1
  <2>3. \A k \in Nat : within[k] \in X => within[k + 1] = F[within[k]]
    <3> HIDE DEF Longer, X
    <3> QED BY <2>2
  <2>4. Iterates(within, X, a, F)
    <3> HIDE DEF X, a, F
    <3> QED BY <1>3, <2>1, <2>3, Unrolled
  <2> HIDE DEF X, a, Longer
  <2> QED BY <2>2, <2>4 DEF Iterates
<1>7. within \in [Nat -> [Nodes -> Nat]] /\ \A k \in Nat : within[k] \in X
  BY <1>6
<1>8. ASSUME NEW k \in Nat, NEW v \in Nodes
      PROVE  /\ within[k + 1][v] <= within[k][v]
             /\ within[k + 1][v] \in Via(within[k], v)
             /\ \A e \in EdgesOf(graph) : e[2] = v => within[k + 1][v] <= within[k][e[1]] + e[3]
  <2>1. within[k + 1] = Longer(within[k]) /\ within[k] \in X
    BY <1>6, <1>7
  <2>2. within[k][v] \in Nat
    BY <1>7
  <2> HIDE DEF Longer, Via, X
  <2> QED BY <1>2, <2>1, <2>2
<1> HIDE DEF X, Longer, F
<1>9. ASSUME NEW v \in Nodes, NEW j \in Nat, NEW k \in Nat, j <= k
      PROVE  within[k][v] <= within[j][v]
  <2> DEFINE Out == {n \in Nat : j <= n /\ ~(within[n][v] <= within[j][v])}
  <2> SUFFICES ASSUME Out # {} PROVE FALSE
    BY <1>9
  <2>1. PICK n \in Out : \A m \in Out : n <= m
    BY LeastNatural
  <2>2. n # j
    BY <1>7, <2>1
  <2>3. n - 1 \in Nat /\ (n - 1) + 1 = n /\ j <= n - 1 /\ ~(n <= n - 1)
    BY <2>1, <2>2
  <2>4. within[n - 1][v] <= within[j][v]
    BY <2>1, <2>3
  <2>5. within[n][v] <= within[n - 1][v]
    BY <1>8, <2>3
  <2>6. within[n][v] \in Nat /\ within[n - 1][v] \in Nat /\ within[j][v] \in Nat
    BY <1>7, <2>1, <2>3
  <2> QED BY <2>1, <2>4, <2>5, <2>6
<1> DEFINE Lim(v) == Min({within[k][v] : k \in Nat})
           tau == [v \in Nodes |-> Min({k \in Nat : within[k][v] = Lim(v)})]
<1>10. ASSUME NEW v \in Nodes
       PROVE  /\ Lim(v) \in Nat /\ \A k \in Nat : Lim(v) <= within[k][v]
              /\ tau[v] \in Nat /\ within[tau[v]][v] = Lim(v)
              /\ \A k \in Nat : within[k][v] = Lim(v) => tau[v] <= k
  <2> DEFINE All == {within[k][v] : k \in Nat}
             Steps_ == {k \in Nat : within[k][v] = Lim(v)}
  <2>1. All \in SUBSET Nat /\ All # {}
    BY <1>7
  <2>2. Min(All) \in All /\ \A y \in All : Min(All) <= y
    <3> HIDE DEF All
    <3> QED BY <2>1, MinFacts
  <2>3. Lim(v) \in Nat /\ (\A k \in Nat : Lim(v) <= within[k][v]) /\ \E k \in Nat : within[k][v] = Lim(v)
    BY <2>1, <2>2
  <2> HIDE DEF Lim
  <2>4. Steps_ \in SUBSET Nat /\ Steps_ # {}
    BY <2>3
  <2>5. Min(Steps_) \in Steps_ /\ \A y \in Steps_ : Min(Steps_) <= y
    <3> HIDE DEF Steps_
    <3> QED BY <2>4, MinFacts
  <2> QED BY <2>3, <2>5
<1>11. tau \in [Nodes -> Nat]
  <2>1. tau = [v \in Nodes |-> tau[v]]
    OBVIOUS
  <2> HIDE DEF tau
  <2> QED BY <1>10, <2>1
<1> HIDE DEF Lim, tau
<1>12. ASSUME NEW v \in Nodes, NEW e \in EdgesOf(graph), e[2] = v
       PROVE  /\ Lim(v) <= Lim(e[1]) + e[3]
              /\ within[tau[e[1]] + 1][v] <= Lim(e[1]) + e[3]
  <2>1. e[1] \in Nodes /\ e[3] \in Nat
    BY <1>1
  <2>2. tau[e[1]] \in Nat /\ tau[e[1]] + 1 \in Nat /\ within[tau[e[1]]][e[1]] = Lim(e[1])
    BY <1>10, <2>1
  <2>3. within[tau[e[1]] + 1][v] <= Lim(e[1]) + e[3]
    BY <1>8, <1>12, <2>2
  <2>4. Lim(v) <= within[tau[e[1]] + 1][v] /\ Lim(v) \in Nat /\ Lim(e[1]) \in Nat
        /\ within[tau[e[1]] + 1][v] \in Nat
    BY <1>7, <1>10, <2>1, <2>2
  <2> QED BY <2>1, <2>3, <2>4
<1>13. ASSUME NEW v \in Nodes, tau[v] > 0
       PROVE  \E e \in EdgesOf(graph) : e[2] = v /\ Lim(v) = Lim(e[1]) + e[3] /\ tau[e[1]] = tau[v] - 1
  <2> DEFINE k == tau[v] - 1
  <2>1. k \in Nat /\ k + 1 = tau[v] /\ ~(tau[v] <= k)
    BY <1>11, <1>13
  <2> HIDE DEF k
  <2>2. within[k + 1][v] = Lim(v) /\ within[k][v] # Lim(v)
    BY <1>10, <2>1
  <2>3. PICK e \in EdgesOf(graph) : e[2] = v /\ Lim(v) = within[k][e[1]] + e[3]
    <3>1. within[k + 1][v] \in Via(within[k], v)
      BY <1>8, <2>1
    <3>2. Lim(v) \in {within[k][e[1]] + e[3] : e \in Into(v)}
      BY <2>2, <3>1
    <3> QED BY <3>2
  <2>4. e[1] \in Nodes /\ e[3] \in Nat /\ Lim(e[1]) \in Nat /\ Lim(e[1]) <= within[k][e[1]]
        /\ within[k][e[1]] \in Nat /\ Lim(v) \in Nat /\ tau[e[1]] \in Nat
    <3>1. e[1] \in Nodes /\ e[3] \in Nat
      BY <1>1
    <3> QED BY <1>7, <1>10, <2>1, <3>1
  <2>5. within[k][e[1]] = Lim(e[1])
    BY <1>12, <2>3, <2>4
  <2>6. tau[e[1]] <= k
    BY <1>10, <2>1, <2>4, <2>5
  <2>7. within[tau[e[1]] + 1][v] = Lim(v)
    <3>1. within[tau[e[1]] + 1][v] <= Lim(v)
      BY <1>12, <2>3, <2>4, <2>5
    <3>2. within[tau[e[1]] + 1][v] \in Nat /\ Lim(v) <= within[tau[e[1]] + 1][v]
      <4>1. tau[e[1]] + 1 \in Nat
        BY <2>4
      <4> QED BY <1>7, <1>10, <4>1
    <3> QED BY <2>4, <3>1, <3>2
  <2>8. tau[v] <= tau[e[1]] + 1
    <3>1. tau[e[1]] + 1 \in Nat
      BY <2>4
    <3> QED BY <1>10, <2>7, <3>1
  <2>9. tau[e[1]] = tau[v] - 1
    BY <1>11, <2>1, <2>4, <2>6, <2>8
  <2> QED BY <2>3, <2>5, <2>9
<1>14. \A v \in Nodes : tau[v] < N
  <2>1. tau \in [Nodes -> Int] /\ \A v \in Nodes : tau[v] > 0 => \E u \in Nodes : tau[u] = tau[v] - 1
    BY <1>1, <1>11, <1>13
  <2> QED BY <2>1, ConstantFacts, Descent
<1> DEFINE D == within[N - 1]
<1>15. N - 1 \in Nat
  BY ConstantFacts
<1>16. \A v \in Nodes : D[v] = Lim(v)
  <2> TAKE v \in Nodes
  <2>1. tau[v] \in Nat /\ tau[v] <= N - 1
    BY <1>11, <1>14, ConstantFacts
  <2>2. D[v] <= within[tau[v]][v]
    BY <1>9, <1>15, <2>1
  <2>3. D[v] \in Nat /\ Lim(v) \in Nat /\ Lim(v) <= D[v] /\ within[tau[v]][v] = Lim(v)
    BY <1>7, <1>10, <1>15
  <2> QED BY <2>2, <2>3
<1>17. D \in [Nodes -> 0 .. DistInf]
  BY <1>7, <1>15 DEF X
<1> HIDE DEF D
<1>18. D[s] = 0
  <2>1. within[0][s] = 0
    BY <1>6
  <2>2. Lim(s) \in Nat /\ Lim(s) <= within[0][s]
    BY <1>10
  <2> QED BY <1>16, <2>1, <2>2
<1>19. \A e \in EdgesOf(graph) : NoShortCut(D, e)
  BY <1>1, <1>12, <1>16 DEF NoShortCut
<1>20. ReachedByEdges(D, graph, s)
  <2> SUFFICES ASSUME NEW v \in Nodes \ {s}, D[v] < DistInf
               PROVE  \E e \in EdgesOf(graph) : e[2] = v /\ D[v] = D[e[1]] + e[3]
    BY DEF ReachedByEdges
  <2>1. tau[v] # 0
    <3>1. within[0][v] = DistInf
      BY <1>6
    <3>2. within[tau[v]][v] = D[v]
      BY <1>10, <1>16
    <3> QED BY <3>1, <3>2, ConstantFacts, <1>17
  <2>2. tau[v] > 0
    BY <1>11, <2>1
  <2>3. PICK e \in EdgesOf(graph) : e[2] = v /\ Lim(v) = Lim(e[1]) + e[3]
    BY <1>13, <2>2
  <2> QED BY <1>1, <1>16, <2>3
<1> QED BY <1>4, <1>17, <1>18, <1>19, <1>20 DEF AreShortest, D
-----------------------------------------------------------------------------
(* The distances of Oracle: the nodes that are done are no farther than the *)
(* others, their edges have been relaxed, and the others have been reached  *)
(* from them.                                                               *)
OracleState == [dist : [Nodes -> 0 .. DistInf], done : SUBSET Nodes]

OracleInv(q, graph, s) ==
    /\ q \in OracleState /\ q.dist[s] = 0
    /\ \A u \in q.done : q.dist[u] < DistInf /\ \A x \in Nodes \ q.done : q.dist[u] <= q.dist[x]
    /\ \A e \in EdgesOf(graph) : e[1] \in q.done => NoShortCut(q.dist, e)
    /\ \A v \in Nodes \ {s} : q.dist[v] < DistInf =>
           \E e \in EdgesOf(graph) : e[1] \in q.done /\ e[2] = v /\ q.dist[v] = q.dist[e[1]] + e[3]

LEMMA OracleCorrect ==
    ASSUME NEW graph, IsGraph(graph), NEW s \in Nodes
    PROVE  AreShortest(Oracle(graph, s), graph, s)
<1> DEFINE X == OracleState
           Queue(q) == {u \in Nodes \ q.done : q.dist[u] # DistInf}
           Nearest(q) == CHOOSE x \in Queue(q) : \A v \in Queue(q) : q.dist[x] <= q.dist[v]
           From(q, v) == {q.dist[Nearest(q)] + e[3] : e \in {f \in EdgesOf(graph) : f[1] = Nearest(q) /\ f[2] = v}}
           After(q) == IF Queue(q) = {} THEN q
                       ELSE [dist |-> [v \in Nodes |-> Min({q.dist[v]} \cup From(q, v))],
                             done |-> q.done \cup {Nearest(q)}]
           F == [q \in X |-> After(q)]
           a == [dist |-> [n \in Nodes |-> IF n = s THEN 0 ELSE DistInf], done |-> {}]
           Def(w) == [k \in Nat |-> IF k = 0 THEN a ELSE After(w[k - 1])]
           step == CHOOSE w : w = Def(w)
<1>1. \A e \in EdgesOf(graph) : e[1] \in Nodes /\ e[2] \in Nodes /\ e[3] \in Nat \ {0}
  <2>1. \A e \in EdgesOf(graph) : e \in Nodes \X Nodes \X (Nat \ {0})
    BY EdgesOfGraph
  <2> QED BY <2>1
<1>2. Oracle(graph, s) = step[N].dist
  BY DEF Oracle
<1>3. ASSUME NEW q \in X, Queue(q) # {}
      PROVE  /\ Nearest(q) \in Nodes \ q.done /\ q.dist[Nearest(q)] < DistInf
             /\ \A x \in Nodes \ q.done : q.dist[Nearest(q)] <= q.dist[x]
  <2> DEFINE Dists == {q.dist[x] : x \in Queue(q)}
  <2>1. q.dist \in [Nodes -> 0 .. DistInf] /\ DistInf \in Nat
    BY ConstantFacts DEF OracleState
  <2>2. Dists \in SUBSET Nat /\ Dists # {}
    BY <1>3, <2>1
  <2>3. PICK d \in Dists : \A y \in Dists : d <= y
    <3> HIDE DEF Dists
    <3> QED BY <2>2, LeastNatural
  <2>4. \E x \in Queue(q) : \A v \in Queue(q) : q.dist[x] <= q.dist[v]
    BY <2>3
  <2>5. Nearest(q) \in Queue(q) /\ \A v \in Queue(q) : q.dist[Nearest(q)] <= q.dist[v]
    BY <2>4
  <2> HIDE DEF Nearest
  <2>6. \A x \in Nodes \ q.done : x \in Queue(q) \/ q.dist[x] = DistInf
    OBVIOUS
  <2> QED BY <2>1, <2>5, <2>6
<1> HIDE DEF Nearest
<1>4. ASSUME NEW q \in X, Queue(q) # {}, NEW v \in Nodes
      PROVE  /\ After(q).done = q.done \cup {Nearest(q)}
             /\ After(q).dist[v] \in 0 .. q.dist[v]
             /\ \/ After(q).dist[v] = q.dist[v]
                \/ \E e \in EdgesOf(graph) : e[1] = Nearest(q) /\ e[2] = v
                                             /\ After(q).dist[v] = q.dist[Nearest(q)] + e[3]
             /\ \A e \in EdgesOf(graph) : e[1] = Nearest(q) /\ e[2] = v
                                             => After(q).dist[v] <= q.dist[Nearest(q)] + e[3]
  <2> DEFINE All == {q.dist[v]} \cup From(q, v)
  <2>1. q.dist \in [Nodes -> 0 .. DistInf] /\ DistInf \in Nat /\ Nearest(q) \in Nodes
    BY <1>3, <1>4, ConstantFacts DEF OracleState
  <2>2. q.dist[v] \in Nat /\ q.dist[Nearest(q)] \in Nat
    BY <2>1
  <2>3. All \in SUBSET Nat /\ All # {}
    BY <1>1, <2>2
  <2>4. Min(All) \in All /\ \A y \in All : Min(All) <= y
    <3> HIDE DEF All
    <3> QED BY <2>3, MinFacts
  <2>5. After(q).dist[v] = Min(All) /\ After(q).done = q.done \cup {Nearest(q)}
    BY <1>4
  <2>6. \A e \in EdgesOf(graph) : e[1] = Nearest(q) /\ e[2] = v => q.dist[Nearest(q)] + e[3] \in All
    OBVIOUS
  <2>7. \A y \in All : y = q.dist[v] \/ \E e \in EdgesOf(graph) :
                           e[1] = Nearest(q) /\ e[2] = v /\ y = q.dist[Nearest(q)] + e[3]
    OBVIOUS
  <2> HIDE DEF All, After, From
  <2>8. q.dist[v] \in All
    BY DEF All
  <2>9. Min(All) \in Nat
    BY <2>3, <2>4
  <2> QED BY <2>2, <2>4, <2>5, <2>6, <2>7, <2>8, <2>9
<1>5. a \in X /\ \A q \in X : F[q] \in X
  <2>1. a \in X
    BY ConstantFacts DEF OracleState
  <2>2. ASSUME NEW q \in X PROVE After(q) \in X
    <3>1. CASE Queue(q) = {}
      BY <3>1
    <3>2. CASE Queue(q) # {}
      <4>1. Nearest(q) \in Nodes /\ q.done \in SUBSET Nodes /\ q.dist \in [Nodes -> 0 .. DistInf]
        BY <1>3, <3>2 DEF OracleState
      <4>2. \A v \in Nodes : After(q).dist[v] \in 0 .. DistInf
        <5>1. \A v \in Nodes : q.dist[v] \in 0 .. DistInf /\ After(q).dist[v] \in 0 .. q.dist[v]
          BY <1>4, <3>2, <4>1
        <5> HIDE DEF After
        <5> QED BY <5>1, ConstantFacts
      <4>3. After(q) = [dist |-> [v \in Nodes |-> After(q).dist[v]], done |-> q.done \cup {Nearest(q)}]
        BY <3>2
      <4> HIDE DEF After
      <4>4. [v \in Nodes |-> After(q).dist[v]] \in [Nodes -> 0 .. DistInf]
        BY <4>2
      <4>5. q.done \cup {Nearest(q)} \in SUBSET Nodes
        BY <4>1
      <4> QED BY <4>3, <4>4, <4>5 DEF OracleState
    <3> QED BY <3>1, <3>2
  <2> HIDE DEF After, X
  <2> QED BY <2>1, <2>2
<1>6. ASSUME NEW q \in X, OracleInv(q, graph, s), Queue(q) # {}
      PROVE  OracleInv(After(q), graph, s)
  <2> DEFINE n == Nearest(q)
             r == After(q)
  <2>1. n \in Nodes \ q.done /\ q.dist[n] < DistInf /\ \A x \in Nodes \ q.done : q.dist[n] <= q.dist[x]
    BY <1>3, <1>6
  <2>2. q.dist \in [Nodes -> 0 .. DistInf] /\ q.done \in SUBSET Nodes /\ DistInf \in Nat
    BY ConstantFacts DEF OracleState
  <2>3. r \in X /\ r.dist \in [Nodes -> 0 .. DistInf]
    <3>1. F[q] = r
      OBVIOUS
    <3> HIDE DEF F, r, X
    <3>2. r \in X
      BY <1>5, <3>1
    <3> QED BY <3>2 DEF OracleState, X
  <2>4. r.done = q.done \cup {n}
    BY <1>4, <1>6, <2>1
  <2>5. ASSUME NEW v \in Nodes
        PROVE  /\ r.dist[v] \in 0 .. q.dist[v] /\ q.dist[v] \in Nat /\ r.dist[v] \in Nat /\ q.dist[n] \in Nat
               /\ r.dist[v] = q.dist[v] \/ \E e \in EdgesOf(graph) : e[1] = n /\ e[2] = v /\ r.dist[v] = q.dist[n] + e[3]
               /\ \A e \in EdgesOf(graph) : e[1] = n /\ e[2] = v => r.dist[v] <= q.dist[n] + e[3]
    <3>1. q.dist[v] \in Nat /\ q.dist[n] \in Nat
      BY <2>1, <2>2
    <3> HIDE DEF n, X, After
    <3>2. r.dist[v] \in 0 .. q.dist[v]
      BY <1>4, <1>6
    <3>3. r.dist[v] = q.dist[v] \/ \E e \in EdgesOf(graph) : e[1] = n /\ e[2] = v /\ r.dist[v] = q.dist[n] + e[3]
      BY <1>4, <1>6 DEF n
    <3>4. \A e \in EdgesOf(graph) : e[1] = n /\ e[2] = v => r.dist[v] <= q.dist[n] + e[3]
      BY <1>4, <1>6 DEF n
    <3> QED BY <3>1, <3>2, <3>3, <3>4
  <2> HIDE DEF n, r, X
  <2>6. ASSUME NEW v \in r.done PROVE v \in Nodes /\ r.dist[v] = q.dist[v] /\ q.dist[v] <= q.dist[n]
    <3>1. v \in Nodes
      BY <2>1, <2>2, <2>4
    <3>2. q.dist[v] <= q.dist[n]
      <4>1. CASE v \in q.done
        BY <1>6, <2>1, <4>1 DEF OracleInv
      <4>2. CASE v = n
        BY <2>5, <3>1, <4>2
      <4> QED BY <2>4, <4>1, <4>2
    <3>3. ASSUME NEW e \in EdgesOf(graph), r.dist[v] = q.dist[n] + e[3] PROVE FALSE
      BY <1>1, <2>5, <3>1, <3>2, <3>3
    <3> QED BY <2>5, <3>1, <3>2, <3>3
  <2>7. ASSUME NEW x \in Nodes \ q.done PROVE q.dist[n] <= r.dist[x]
    <3>1. q.dist[n] <= q.dist[x]
      BY <2>1
    <3>2. ASSUME NEW e \in EdgesOf(graph), r.dist[x] = q.dist[n] + e[3] PROVE q.dist[n] <= r.dist[x]
      BY <1>1, <2>5, <3>2
    <3> QED BY <2>5, <3>1, <3>2
  <2>8. r.dist[s] = 0
    <3>1. q.dist[s] = 0
      BY <1>6 DEF OracleInv
    <3> QED BY <2>5, <3>1
  <2>9. ASSUME NEW u \in r.done, NEW x \in Nodes \ r.done PROVE r.dist[u] < DistInf /\ r.dist[u] <= r.dist[x]
    <3>1. r.dist[u] = q.dist[u] /\ q.dist[u] <= q.dist[n] /\ u \in Nodes
      BY <2>6
    <3>2. q.dist[n] <= r.dist[x]
      BY <2>4, <2>7
    <3> QED BY <2>1, <2>2, <2>5, <3>1, <3>2
  <2>10. ASSUME NEW u \in r.done PROVE r.dist[u] < DistInf
    <3>1. r.dist[u] = q.dist[u] /\ q.dist[u] <= q.dist[n] /\ u \in Nodes
      BY <2>6
    <3> QED BY <2>1, <2>2, <2>5, <3>1
  <2>11. ASSUME NEW e \in EdgesOf(graph), e[1] \in r.done PROVE NoShortCut(r.dist, e)
    <3>1. e[1] \in Nodes /\ e[2] \in Nodes /\ e[3] \in Nat /\ r.dist[e[1]] = q.dist[e[1]]
      BY <1>1, <2>6, <2>11
    <3>2. CASE e[1] = n
      BY <2>5, <3>1, <3>2 DEF NoShortCut
    <3>3. CASE e[1] \in q.done
      <4>1. q.dist[e[2]] <= q.dist[e[1]] + e[3]
        BY <1>6, <3>3 DEF OracleInv, NoShortCut
      <4>2. r.dist[e[2]] <= q.dist[e[2]] /\ r.dist[e[2]] \in Nat /\ q.dist[e[2]] \in Nat /\ q.dist[e[1]] \in Nat
        BY <2>5, <3>1
      <4> QED BY <3>1, <4>1, <4>2 DEF NoShortCut
    <3> QED BY <2>4, <2>11, <3>2, <3>3
  <2>12. ASSUME NEW v \in Nodes \ {s}, r.dist[v] < DistInf
         PROVE  \E e \in EdgesOf(graph) : e[1] \in r.done /\ e[2] = v /\ r.dist[v] = r.dist[e[1]] + e[3]
    <3>1. CASE r.dist[v] = q.dist[v]
      <4>1. PICK e \in EdgesOf(graph) : e[1] \in q.done /\ e[2] = v /\ q.dist[v] = q.dist[e[1]] + e[3]
        BY <1>6, <2>12, <3>1 DEF OracleInv
      <4>2. e[1] \in r.done
        BY <2>4, <4>1
      <4> QED BY <2>6, <3>1, <4>1, <4>2
    <3>2. CASE r.dist[v] # q.dist[v]
      <4>1. PICK e \in EdgesOf(graph) : e[1] = n /\ e[2] = v /\ r.dist[v] = q.dist[n] + e[3]
        BY <2>5, <3>2
      <4>2. n \in r.done
        BY <2>4
      <4> QED BY <2>6, <4>1, <4>2
    <3> QED BY <3>1, <3>2
  <2>13. r \in OracleState
    BY <2>3 DEF X
  <2>14. OracleInv(r, graph, s)
    BY <2>8, <2>9, <2>10, <2>11, <2>12, <2>13 DEF OracleInv
  <2> QED BY <2>14 DEF r
<1>7. OracleInv(a, graph, s)
  <2>1. a.dist \in [Nodes -> 0 .. DistInf] /\ a.dist[s] = 0 /\ a.done = {} /\ \A v \in Nodes \ {s} : a.dist[v] = DistInf
    BY ConstantFacts
  <2>2. a \in OracleState
    BY <1>5
  <2> HIDE DEF a
  <2>3. ~(DistInf < DistInf)
    BY ConstantFacts
  <2> QED BY <2>1, <2>2, <2>3 DEF OracleInv
<1>8. Iterates(step, X, a, F)
  <2>1. PICK g : Iterates(g, X, a, F)
    <3> HIDE DEF X, a, F
    <3> QED BY <1>5, Iteration
  <2>2. ASSUME NEW k \in Nat PROVE g[k] = IF k = 0 THEN a ELSE After(g[k - 1])
    <3>1. CASE k = 0
      <4> HIDE DEF a, After
      <4> QED BY <2>1, <3>1 DEF Iterates
    <3>2. CASE k # 0
      <4>1. k - 1 \in Nat /\ (k - 1) + 1 = k
        BY <3>2
      <4> HIDE DEF a, After, X
      <4>2. g[(k - 1) + 1] = F[g[k - 1]] /\ g[k - 1] \in X
        BY <2>1, <4>1 DEF Iterates
      <4> QED BY <3>2, <4>1, <4>2
    <3> QED BY <3>1, <3>2
  <2>3. g = Def(g)
    <3> HIDE DEF a, After
    <3> QED BY <2>1, <2>2 DEF Iterates
  <2>4. step = Def(step)
    BY <2>3
  <2> HIDE DEF step
  <2>5. step = [k \in Nat |-> step[k]] /\ step[0] = a
    <3> HIDE DEF a, After
    <3> QED BY <2>4
  <2>6. ASSUME NEW k \in Nat, step[k] \in X PROVE step[k + 1] = F[step[k]]
    <3>1. k + 1 \in Nat /\ k + 1 # 0 /\ (k + 1) - 1 = k
      OBVIOUS
    <3> HIDE DEF a, After, X
    <3> QED BY <2>4, <2>6, <3>1
  <2> HIDE DEF X, a, F
  <2> QED BY <1>5, <2>5, <2>6, Unrolled
<1> HIDE DEF step
<1>9. \A k \in Nat : step[k] \in X /\ OracleInv(step[k], graph, s)
  <2> DEFINE Y == {q \in X : OracleInv(q, graph, s)}
  <2>1. a \in Y
    BY <1>5, <1>7
  <2>2. ASSUME NEW q \in X \cap Y PROVE F[q] \in Y
    <3>1. F[q] = After(q) /\ F[q] \in X /\ OracleInv(q, graph, s)
      BY <1>5
    <3>2. CASE Queue(q) = {}
      <4>1. After(q) = q
        BY <3>2
      <4> QED BY <3>1, <4>1
    <3>3. CASE Queue(q) # {}
      <4> HIDE DEF Queue, After, F
      <4> QED BY <1>6, <3>1, <3>3
    <3> QED BY <3>2, <3>3
  <2> HIDE DEF Y, X, a, F
  <2>3. \A k \in Nat : step[k] \in Y
    BY <1>8, <2>1, <2>2, IterationKeeps
  <2> QED BY <2>3 DEF Y
<1>10. Queue(step[N]) = {}
  <2> DEFINE Out == {k \in Nat : Queue(step[k]) # {} /\ ~(Cardinality(step[k].done) >= k)}
  <2>1. ASSUME NEW k \in Nat PROVE IsFiniteSet(step[k].done) /\ Cardinality(step[k].done) \in Nat
                                   /\ step[k].done \in SUBSET Nodes
    <3>1. step[k].done \in SUBSET Nodes
      BY <1>9 DEF OracleState
    <3> QED BY <3>1, ConstantFacts, FS_Subset, FS_CardinalityType
  <2>2. Out = {}
    <3> SUFFICES ASSUME Out # {} PROVE FALSE
      OBVIOUS
    <3> HIDE DEF Queue
    <3>1. PICK k \in Out : \A j \in Out : k <= j
      BY LeastNatural
    <3>2. k # 0
      BY <2>1, <3>1
    <3>3. k - 1 \in Nat /\ (k - 1) + 1 = k /\ ~(k <= k - 1)
      BY <3>1, <3>2
    <3>4. step[k - 1] \in X /\ step[k] = F[step[k - 1]]
      <4> HIDE DEF F, X
      <4>1. step[(k - 1) + 1] = F[step[k - 1]]
        BY <1>8, <3>3 DEF Iterates
      <4> QED BY <1>9, <3>3, <4>1
    <3>5. step[k] = After(step[k - 1])
      BY <3>4
    <3> HIDE DEF F
    <3>6. Queue(step[k - 1]) # {}
      <4> SUFFICES ASSUME Queue(step[k - 1]) = {} PROVE FALSE
        OBVIOUS
      <4>1. step[k] = step[k - 1]
        BY <3>5
      <4> QED BY <3>1, <4>1
    <3> HIDE DEF After, X
    <3>7. Nearest(step[k - 1]) \in Nodes \ step[k - 1].done
      BY <1>3, <3>4, <3>6
    <3>8. step[k].done = step[k - 1].done \cup {Nearest(step[k - 1])}
      BY <1>4, <3>4, <3>5, <3>6, <3>7
    <3>9. Cardinality(step[k].done) = Cardinality(step[k - 1].done) + 1
      <4> DEFINE old == step[k - 1].done
                 u == Nearest(step[k - 1])
      <4>1. IsFiniteSet(old) /\ u \notin old /\ step[k].done = old \cup {u}
        BY <2>1, <3>3, <3>7, <3>8
      <4> HIDE DEF old, u
      <4>2. Cardinality(old \cup {u}) = Cardinality(old) + 1
        BY <4>1, FS_AddElement
      <4> QED BY <4>1, <4>2 DEF old
    <3>10. Cardinality(step[k - 1].done) >= k - 1
      BY <3>1, <3>3, <3>6
    <3> QED BY <2>1, <3>1, <3>3, <3>9, <3>10
  <2> SUFFICES ASSUME Queue(step[N]) # {} PROVE FALSE
    OBVIOUS
  <2>3. N \in Nat /\ Cardinality(step[N].done) >= N /\ Cardinality(Nodes) = N
    <3>1. N \in Nat /\ N \notin Out
      BY <2>2, ConstantFacts
    <3> QED BY <3>1, ConstantFacts
  <2>4. step[N].done = Nodes
    <3>1. step[N].done \in SUBSET Nodes /\ Cardinality(step[N].done) \in Nat /\ IsFiniteSet(Nodes)
      BY <2>1, <2>3, ConstantFacts
    <3> DEFINE done == step[N].done
    <3>2. done \in SUBSET Nodes /\ IsFiniteSet(Nodes)
      BY <3>1
    <3>3. Cardinality(done) <= Cardinality(Nodes) /\ (Cardinality(Nodes) = Cardinality(done) => Nodes = done)
      <4> HIDE DEF done
      <4> QED BY <3>2, FS_Subset
    <3> QED BY <2>3, <3>1, <3>3
  <2> QED BY <2>4
<1> DEFINE D == step[N].dist
<1>11. OracleInv(step[N], graph, s) /\ D \in [Nodes -> 0 .. DistInf]
  <2>1. N \in Nat
    BY ConstantFacts
  <2>2. OracleInv(step[N], graph, s)
    BY <1>9, <2>1
  <2> QED BY <2>2 DEF OracleInv, OracleState
<1>12. ASSUME NEW e \in EdgesOf(graph) PROVE NoShortCut(D, e)
  <2>1. e[1] \in Nodes /\ e[2] \in Nodes /\ e[3] \in Nat
    BY <1>1
  <2>2. CASE e[1] \in step[N].done
    BY <1>11, <2>2 DEF OracleInv
  <2>3. CASE e[1] \notin step[N].done
    <3>1. D[e[1]] = DistInf
      BY <1>10, <2>1, <2>3
    <3>2. D[e[2]] \in 0 .. DistInf /\ DistInf \in Nat
      BY <1>11, <2>1, ConstantFacts
    <3> HIDE DEF D
    <3> QED BY <2>1, <3>1, <3>2 DEF NoShortCut
  <2> QED BY <2>2, <2>3
<1>13. D[s] = 0 /\ ReachedByEdges(D, graph, s)
  BY <1>11 DEF OracleInv, ReachedByEdges
<1> QED BY <1>2, <1>11, <1>12, <1>13 DEF AreShortest
-----------------------------------------------------------------------------
(* The inductive invariant.  S are the distances to be found, and a node is *)
(* due when the bin of its distance is.                                     *)
S == Shortest
Source == picks[drawn]
BinOf(d) == d \div delta
To(u, j) == neigh[u][j][1]
Length(u, j) == neigh[u][j][2]
InBin(t, u, b) == b \in DOMAIN bins[t] /\ u \in ToSet(bins[t][b])

LoopSteps == {"idle", "relax", "cas", "barrier"}
CopySteps == {"single", "copy", "end"}

Args == \E in \in Inputs : neigh = in.neigh /\ delta = in.delta /\ picks = in.picks

ThreadTypes ==
    /\ pc \in [Threads -> Steps] /\ node \in [Threads -> Nodes] /\ edge \in [Threads -> Nat \ {0}]
    /\ oldDist \in [Threads -> Nat] /\ newDist \in [Threads -> Nat]
    /\ copied \in [Threads -> Seq(Nodes)]

SharedTypes ==
    /\ dist \in [Nodes -> 0 .. DistInf] /\ frontier \in [Cells -> Nodes \cup {None}]
    /\ sharedIndexes \in [{0, 1} -> 0 .. MaxBin] /\ frontierTails \in [{0, 1} -> Nat]

BinTypes ==
    /\ bins = [t \in Threads |-> bins[t]]
    /\ \A t \in Threads : \A b \in DOMAIN bins[t] : b \in Nat /\ bins[t][b] \in Seq(Nodes)

BinsNear == \A t \in Threads : \A u \in Nodes : \A b \in Nat : InBin(t, u, b) => BinOf(dist[u]) <= b

Types ==
    /\ Args /\ ThreadTypes /\ iter \in {0, 1} /\ todo \subseteq Nat
    /\ drawn > 0 => SharedTypes /\ BinTypes /\ BinsNear

Trials ==
    /\ drawn \in 0 .. Len(picks) /\ vdrawn \in Nat
    /\ \/ phase = "trial" /\ vdrawn = drawn /\ drawn < Len(picks)
       \/ phase \in {"run", "verify", "undefined"} /\ drawn = vdrawn + 1
       \/ phase = "done" /\ vdrawn = drawn

Quiet == todo = {} /\ \A t \in Threads : pc[t] = "idle" /\ copied[t] = <<>>

(* All nodes due before bin b have their final distances.                   *)
Settled(b) == \A n \in Nodes : BinOf(S[n]) < b => dist[n] = S[n]

(* An edge that has not been relaxed since the last change at its near end  *)
(* will be: the node waits to be taken, or a thread has not come as far.    *)
Relaxed(u, j) == dist[To(u, j)] <= dist[u] + Length(u, j)

WaitingIn(b, u) == \E t \in Threads : InBin(t, u, b)
WaitingCopied(u) == \E t \in Threads : u \in ToSet(copied[t])
WaitingTodo(u) == \E i \in todo : frontier[i] = u /\ CurrBin <= BinOf(dist[u])
WaitingNext(u) ==
    /\ \A t \in Threads : pc[t] \in CopySteps
    /\ NextBin <= BinOf(dist[u]) /\ \E i \in 0 .. NextTail - 1 : frontier[i] = u

Waiting(u) ==
    \/ \E b \in Nat : b = BinOf(dist[u]) /\ WaitingIn(b, u)
    \/ WaitingCopied(u) \/ WaitingTodo(u) \/ WaitingNext(u)

UnderWay(t, u, j) ==
    /\ node[t] = u
    /\ \/ pc[t] = "relax" /\ edge[t] <= j
       \/ pc[t] = "cas" /\ edge[t] < j
       \/ pc[t] = "cas" /\ edge[t] = j /\ newDist[t] = dist[u] + Length(u, j)

Progress ==
    /\ dist[Source] = 0 /\ \A n \in Nodes : S[n] <= dist[n]
    /\ \A u \in Nodes : \A j \in DOMAIN neigh[u] :
           Relaxed(u, j) \/ Waiting(u) \/ \E t \in Threads : UnderWay(t, u, j)

(* While the threads work on a bin. *)
Working(t) ==
    /\ pc[t] \in LoopSteps
    /\ pc[t] \in {"relax", "cas"} => edge[t] \in DOMAIN neigh[node[t]] /\ CurrBin <= BinOf(S[node[t]])
    /\ pc[t] = "cas" =>
           /\ newDist[t] < oldDist[t] /\ oldDist[t] <= DistInf
           /\ S[To(node[t], edge[t])] <= newDist[t] /\ CurrBin <= BinOf(newDist[t])

Binned(t) ==
    /\ \A b \in DOMAIN bins[t] : b \in CurrBin .. MaxBin - 1
    /\ \A u \in Nodes : \A b \in Nat : InBin(t, u, b) /\ b = CurrBin => b <= BinOf(S[u])
    /\ \A u \in ToSet(copied[t]) : CurrBin <= BinOf(S[u])

Voted(t) ==
    pc[t] = "barrier" => copied[t] = <<>> /\ \A b \in DOMAIN bins[t] : NextBin <= b

Loop ==
    /\ CurrBin < MaxBin /\ CurrBin <= NextBin /\ NextTail = 0 /\ Settled(CurrBin)
    /\ \A i \in todo : i \in Cells /\ frontier[i] \in Nodes
    /\ \A t \in Threads : Working(t) /\ Binned(t) /\ Voted(t)

(* While they copy their shares of the next one. *)
Copies(t) ==
    /\ pc[t] \in CopySteps /\ copied[t] = <<>>
    /\ \A b \in DOMAIN bins[t] : b \in NextBin .. MaxBin - 1
    /\ pc[t] = "end" => NextBin \notin DOMAIN bins[t]

Copying ==
    /\ todo = {} /\ Settled(NextBin)
    /\ CurrBin <= NextBin \/ CurrBin = MaxBin
    /\ (\E t \in Threads : pc[t] = "single") \/ (CurrBin = MaxBin /\ frontierTails[iter] = 0)
    /\ \A i \in 0 .. NextTail - 1 : i \in Cells /\ frontier[i] \in Nodes
    /\ \A t \in Threads : Copies(t)

(* While cells are left there is a thread that may take them: not all have  *)
(* come past the loop over the frontier.                                    *)
LeftInv ==
    /\ left \subseteq Threads
    /\ todo # {} => \E t \in Threads : t \notin left
    /\ \A t \in Threads : pc[t] \notin LoopSteps \ {"barrier"} => t \in left

IInv ==
    /\ Types /\ Trials
    /\ phase = "run" => Progress /\ (Loop \/ Copying)
    /\ phase \in {"trial", "verify", "done"} => Quiet
    /\ phase = "verify" => dist = S
-----------------------------------------------------------------------------
LEMMA DueFacts ==
    ASSUME Args
    PROVE  /\ delta \in Nat \ {0} /\ \A d \in Nat : BinOf(d) \in 0 .. d
           /\ \A c, d \in Nat : c <= d => BinOf(c) <= BinOf(d)
           /\ \A d, b \in Nat : d >= delta * b <=> b <= BinOf(d)
<1>1. delta \in Nat \ {0}
  BY DeltaAssumption DEF Args
<1>2. \A d \in Nat : BinOf(d) \in 0 .. d
  BY <1>1, DivBounds DEF BinOf
<1>3. \A c, d \in Nat : c <= d => BinOf(c) <= BinOf(d)
  BY <1>1, DivMonotone DEF BinOf
<1>4. ASSUME NEW d \in Nat, NEW b \in Nat PROVE d >= delta * b <=> b <= BinOf(d)
  <2> DEFINE q == BinOf(d)
             w == delta
  <2>1. q \in Nat /\ w * q <= d /\ d < w * q + w /\ w \in Nat \ {0}
    BY <1>1, <1>2, DivBounds DEF BinOf
  <2>2. q <= b - 1 => w * q + w <= w * b
    BY <2>1
  <2>3. b <= q => w * b <= w * q
    BY <2>1
  <2>4. w * b \in Nat /\ w * q \in Nat
    BY <2>1
  <2> HIDE DEF q, w
  <2>5. d >= w * b <=> b <= q
    BY <2>1, <2>2, <2>3, <2>4
  <2> QED BY <2>5 DEF q, w
<1> QED BY <1>1, <1>2, <1>3, <1>4

LEMMA BinOrder ==
    ASSUME Args
    PROVE  \A d \in Nat : BinOf(d) \in Nat /\ \A e \in Nat : d <= e => BinOf(d) <= BinOf(e)
BY DueFacts

LEMMA GraphFacts ==
    ASSUME Args
    PROVE  /\ IsGraph(neigh) /\ picks \in Seq(Nodes) /\ picks # <<>> /\ NumEdgesDirected \in Int
           /\ \A u \in Nodes : neigh[u] \in Seq(Nodes \X (Nat \ {0}))
           /\ \A u \in Nodes : \A j \in DOMAIN neigh[u] :
                 To(u, j) \in Nodes /\ Length(u, j) \in Nat \ {0} /\ <<u, To(u, j), Length(u, j)>> \in EdgesOf(neigh)
           /\ \A e \in EdgesOf(neigh) : e[1] \in Nodes /\ e[2] \in Nodes /\ e[3] \in Nat \ {0}
           /\ \A e \in EdgesOf(neigh) : \E j \in DOMAIN neigh[e[1]] : e[2] = To(e[1], j) /\ e[3] = Length(e[1], j)
<1>1. IsGraph(neigh) /\ picks \in Seq(Nodes) /\ picks # <<>>
  BY DeltaAssumption DEF Args, IsGraph
<1>2. \A u \in Nodes : neigh[u] \in Seq(Nodes \X (Nat \ {0}))
  BY <1>1 DEF IsGraph
<1>3. NumEdgesDirected \in Int
  <2> DEFINE lens == [n \in Nodes |-> Len(neigh[n])]
  <2>1. lens \in [Nodes -> Int]
    BY <1>2
  <2> HIDE DEF lens
  <2>2. SumFunction(lens) \in Int
    BY <2>1, SumType, ConstantFacts DEF SumFunction
  <2> QED BY <2>2 DEF lens, NumEdgesDirected
<1>4. EdgesOf(neigh) \subseteq Nodes \X Nodes \X (Nat \ {0})
  BY <1>1, EdgesOfGraph
<1>5. \A e \in EdgesOf(neigh) : e[1] \in Nodes /\ e[2] \in Nodes /\ e[3] \in Nat \ {0}
  <2>1. \A e \in EdgesOf(neigh) : e \in Nodes \X Nodes \X (Nat \ {0})
    BY <1>4
  <2> QED BY <2>1
<1>6. /\ \A u \in Nodes : \A j \in DOMAIN neigh[u] :
            To(u, j) \in Nodes /\ Length(u, j) \in Nat \ {0} /\ <<u, To(u, j), Length(u, j)>> \in EdgesOf(neigh)
      /\ \A e \in EdgesOf(neigh) : \E j \in DOMAIN neigh[e[1]] : e[2] = To(e[1], j) /\ e[3] = Length(e[1], j)
  BY <1>1, EdgesOfGraph DEF To, Length
<1> QED BY <1>1, <1>2, <1>3, <1>5, <1>6

LEMMA ShortestFacts ==
    ASSUME Args, drawn \in 1 .. Len(picks)
    PROVE  /\ Source \in Nodes /\ AreShortest(S, neigh, Source)
           /\ S \in [Nodes -> 0 .. DistInf] /\ \A n \in Nodes : S[n] \in Nat /\ S[n] <= DistInf
<1>1. Source \in Nodes
  BY GraphFacts DEF Source
<1>2. S = ShortestWithin(neigh, Source)
  BY <1>1 DEF S, Shortest, ShortestOf, Args, Source
<1>3. AreShortest(S, neigh, Source)
  BY <1>1, <1>2, ShortestWithinCorrect, GraphFacts
<1>4. S \in [Nodes -> 0 .. DistInf]
  BY <1>3 DEF AreShortest
<1> QED BY <1>1, <1>3, <1>4, ConstantFacts

(* What depends on the arguments only. *)
LEMMA SameTrial ==
    ASSUME UNCHANGED <<args, drawn>>
    PROVE  /\ S' = S /\ Source' = Source /\ Cells' = Cells /\ (Args' <=> Args)
           /\ neigh' = neigh /\ delta' = delta /\ picks' = picks
BY DEF args, S, Shortest, Source, Cells, NumEdgesDirected, Args
-----------------------------------------------------------------------------
(* Sequences as sets of nodes, and what becomes of the bins.                *)
LEMMA AppendSet ==
    ASSUME NEW X, NEW s \in Seq(X), NEW x
    PROVE  ToSet(Append(s, x)) = ToSet(s) \cup {x}
<1> DEFINE a == Append(s, x)
<1>1. Len(s) \in Nat /\ DOMAIN s = 1 .. Len(s) /\ DOMAIN a = 1 .. Len(s) + 1
      /\ a[Len(s) + 1] = x /\ \A i \in 1 .. Len(s) : a[i] = s[i]
  OBVIOUS
<1> HIDE DEF a
<1>2. \A i \in DOMAIN a : a[i] \in ToSet(s) \cup {x}
  BY <1>1 DEF ToSet
<1>3. \A i \in DOMAIN s : s[i] \in ToSet(a)
  BY <1>1 DEF ToSet
<1>4. x \in ToSet(a)
  BY <1>1 DEF ToSet
<1>5. ToSet(a) \subseteq ToSet(s) \cup {x}
  BY <1>2 DEF ToSet
<1>6. ToSet(s) \subseteq ToSet(a)
  BY <1>3 DEF ToSet
<1> QED BY <1>4, <1>5, <1>6 DEF a

LEMMA HeadAndTail ==
    ASSUME NEW X, NEW s \in Seq(X), s # <<>>
    PROVE  /\ Head(s) \in X /\ Head(s) \in ToSet(s) /\ Tail(s) \in Seq(X)
           /\ ToSet(s) = {Head(s)} \cup ToSet(Tail(s))
<1> DEFINE t == Tail(s)
<1>1. Len(s) \in Nat \ {0} /\ DOMAIN s = 1 .. Len(s) /\ DOMAIN t = 1 .. Len(s) - 1
      /\ Head(s) = s[1] /\ \A i \in 1 .. Len(s) - 1 : t[i] = s[i + 1]
  OBVIOUS
<1>2. Head(s) \in X /\ t \in Seq(X)
  OBVIOUS
<1> HIDE DEF t
<1>3. Head(s) \in ToSet(s)
  BY <1>1 DEF ToSet
<1>4. ASSUME NEW i \in DOMAIN s PROVE s[i] \in {Head(s)} \cup ToSet(t)
  <2>1. CASE i = 1
    BY <1>1, <2>1
  <2>2. CASE i # 1
    <3>1. i - 1 \in DOMAIN t /\ (i - 1) + 1 = i
      BY <1>1, <2>2
    <3>2. t[i - 1] = s[i]
      BY <1>1, <3>1
    <3> QED BY <3>1, <3>2 DEF ToSet
  <2> QED BY <2>1, <2>2
<1>5. ASSUME NEW i \in DOMAIN t PROVE t[i] \in ToSet(s)
  <2>1. i + 1 \in DOMAIN s /\ t[i] = s[i + 1]
    BY <1>1
  <2> QED BY <2>1 DEF ToSet
<1>6. ToSet(s) \subseteq {Head(s)} \cup ToSet(t)
  BY <1>4 DEF ToSet
<1>7. ToSet(t) \subseteq ToSet(s)
  BY <1>5 DEF ToSet
<1> QED BY <1>2, <1>3, <1>6, <1>7 DEF t

LEMMA BinFacts ==
    ASSUME BinTypes, NEW t \in Threads, NEW b \in Nat
    PROVE  /\ Bin(t, b) \in Seq(Nodes) /\ (b \notin DOMAIN bins[t] => Bin(t, b) = <<>>)
           /\ \A u : InBin(t, u, b) <=> u \in ToSet(Bin(t, b))
           /\ \A u : InBin(t, u, b) => u \in Nodes
<1>1. Bin(t, b) \in Seq(Nodes) /\ (b \notin DOMAIN bins[t] => Bin(t, b) = <<>>)
  BY DEF BinTypes, Bin
<1>2. \A u : InBin(t, u, b) <=> u \in ToSet(Bin(t, b))
  BY DEF Bin, InBin, ToSet
<1>3. \A u : u \in ToSet(Bin(t, b)) => u \in Nodes
  BY <1>1 DEF ToSet
<1> QED BY <1>1, <1>2, <1>3

LEMMA PushMoves ==
    ASSUME BinTypes, NEW t \in Threads, NEW c \in Nat, NEW n \in Nodes, bins' = Pushed(t, c, n)
    PROVE  /\ BinTypes' /\ \A s \in Threads \ {t} : bins'[s] = bins[s]
           /\ DOMAIN bins'[t] = DOMAIN bins[t] \cup {c}
           /\ \A s \in Threads : \A u : \A b \in Nat : InBin(s, u, b)' <=> InBin(s, u, b) \/ (s = t /\ b = c /\ u = n)
<1>1. /\ bins' = [s \in Threads |-> bins'[s]] /\ \A s \in Threads \ {t} : bins'[s] = bins[s]
      /\ bins'[t] = [b \in DOMAIN bins[t] \cup {c} |-> IF b = c THEN Append(Bin(t, c), n) ELSE bins[t][b]]
  BY DEF BinTypes, Pushed
<1>2. DOMAIN bins'[t] = DOMAIN bins[t] \cup {c} /\ bins'[t][c] = Append(Bin(t, c), n)
      /\ \A b \in DOMAIN bins[t] \ {c} : bins'[t][b] = bins[t][b]
  BY <1>1
<1>3. Bin(t, c) \in Seq(Nodes) /\ Append(Bin(t, c), n) \in Seq(Nodes)
      /\ \A u : InBin(t, u, c) <=> u \in ToSet(Bin(t, c))
  BY BinFacts
<1>4. BinTypes'
  <2>1. ASSUME NEW s \in Threads, NEW b \in DOMAIN bins'[s] PROVE b \in Nat /\ bins'[s][b] \in Seq(Nodes)
    <3>1. CASE s # t
      BY <1>1, <2>1, <3>1 DEF BinTypes
    <3>2. CASE s = t /\ b = c
      BY <1>2, <1>3, <3>2
    <3>3. CASE s = t /\ b # c
      <4>1. b \in DOMAIN bins[t] /\ bins'[t][b] = bins[t][b]
        BY <1>2, <2>1, <3>3
      <4> QED BY <3>3, <4>1 DEF BinTypes
    <3> QED BY <3>1, <3>2, <3>3
  <2> QED BY <1>1, <2>1 DEF BinTypes
<1>5. ASSUME NEW s \in Threads, NEW u, NEW b \in Nat
      PROVE  InBin(s, u, b)' <=> InBin(s, u, b) \/ (s = t /\ b = c /\ u = n)
  <2>1. CASE s # t
    BY <1>1, <2>1 DEF InBin
  <2>2. CASE s = t /\ b # c
    BY <1>2, <2>2 DEF InBin
  <2>3. CASE s = t /\ b = c
    <3>1. InBin(t, u, c)' <=> u \in ToSet(Append(Bin(t, c), n))
      BY <1>2 DEF InBin
    <3> QED BY <1>3, <2>3, <3>1, AppendSet
  <2> QED BY <2>1, <2>2, <2>3
<1> QED BY <1>1, <1>2, <1>4, <1>5

LEMMA EmptyMoves ==
    ASSUME BinTypes, NEW t \in Threads, NEW c \in Nat, bins' = Emptied(t, c)
    PROVE  /\ BinTypes' /\ \A s \in Threads \ {t} : bins'[s] = bins[s]
           /\ DOMAIN bins'[t] = DOMAIN bins[t] \ {c}
           /\ \A s \in Threads : \A u : \A b \in Nat : InBin(s, u, b)' <=> InBin(s, u, b) /\ ~(s = t /\ b = c)
<1>1. /\ bins' = [s \in Threads |-> bins'[s]] /\ \A s \in Threads \ {t} : bins'[s] = bins[s]
      /\ bins'[t] = [b \in DOMAIN bins[t] \ {c} |-> bins[t][b]]
  BY DEF BinTypes, Emptied, Restrict
<1>2. DOMAIN bins'[t] = DOMAIN bins[t] \ {c} /\ \A b \in DOMAIN bins[t] \ {c} : bins'[t][b] = bins[t][b]
  BY <1>1
<1>3. BinTypes'
  <2>1. ASSUME NEW s \in Threads, NEW b \in DOMAIN bins'[s] PROVE b \in Nat /\ bins'[s][b] \in Seq(Nodes)
    BY <1>1, <1>2, <2>1 DEF BinTypes
  <2> QED BY <1>1, <2>1 DEF BinTypes
<1>4. ASSUME NEW s \in Threads, NEW u, NEW b \in Nat
      PROVE  InBin(s, u, b)' <=> InBin(s, u, b) /\ ~(s = t /\ b = c)
  BY <1>1, <1>2 DEF InBin
<1> QED BY <1>1, <1>2, <1>3, <1>4
-----------------------------------------------------------------------------
(* What the steps of a trial have in common. *)
LoopInv == Types /\ Trials /\ phase = "run" /\ Progress /\ Loop
CopyInv == Types /\ Trials /\ phase = "run" /\ Progress /\ Copying

LEMMA RunFacts ==
    ASSUME Types, Trials, phase = "run"
    PROVE  /\ Args /\ ThreadTypes /\ iter \in {0, 1} /\ todo \subseteq Nat
           /\ drawn \in 1 .. Len(picks) /\ drawn > 0 /\ SharedTypes /\ BinTypes /\ BinsNear
           /\ CurrBin \in 0 .. MaxBin /\ NextBin \in 0 .. MaxBin /\ NextTail \in Nat
           /\ CurrBin \in Nat /\ NextBin \in Nat /\ 1 - iter \in {0, 1} /\ 1 - iter # iter
           /\ \A n \in Nodes : dist[n] \in Nat /\ dist[n] <= DistInf
<1>1. Args /\ ThreadTypes /\ iter \in {0, 1} /\ todo \subseteq Nat
  BY DEF Types
<1>2. drawn \in 1 .. Len(picks) /\ drawn > 0
  <2>1. drawn = vdrawn + 1 /\ vdrawn \in Nat /\ drawn \in 0 .. Len(picks)
    BY DEF Trials
  <2>2. Len(picks) \in Nat
    BY <1>1, GraphFacts
  <2> QED BY <2>1, <2>2
<1>3. SharedTypes /\ BinTypes /\ BinsNear
  BY <1>2 DEF Types
<1>4. 1 - iter \in {0, 1} /\ 1 - iter # iter
  BY <1>1
<1>5. CurrBin \in 0 .. MaxBin /\ NextBin \in 0 .. MaxBin /\ NextTail \in Nat
  BY <1>1, <1>3, <1>4 DEF SharedTypes, CurrBin, NextBin, NextTail
<1>6. dist \in [Nodes -> 0 .. DistInf] /\ DistInf \in Nat /\ MaxBin \in Nat
  BY <1>3, ConstantFacts DEF SharedTypes
<1> QED BY <1>1, <1>2, <1>3, <1>4, <1>5, <1>6

(* A step of a thread that takes part in a trial. *)
LEMMA TrialsKept ==
    ASSUME Trials, phase = "run", UNCHANGED <<args, drawn, vdrawn>>, phase' \in {"run", "undefined"}
    PROVE  Trials'
BY SameTrial DEF Trials

LEMMA TypesKept ==
    ASSUME Types, Trials, phase = "run", UNCHANGED <<args, drawn>>, iter' \in {0, 1}, todo' \subseteq Nat,
           ThreadTypes', SharedTypes', BinTypes', BinsNear'
    PROVE  Types'
BY SameTrial DEF Types

LEMMA OtherThread ==
    ASSUME NEW s \in Threads, UNCHANGED <<args, drawn>>,
           pc'[s] = pc[s], node'[s] = node[s], edge'[s] = edge[s], oldDist'[s] = oldDist[s], newDist'[s] = newDist[s],
           bins'[s] = bins[s], copied'[s] = copied[s], CurrBin' = CurrBin,
           NextBin \in Nat, NextBin' \in Nat, NextBin' <= NextBin, todo' \subseteq todo,
           BinTypes, Working(s), Binned(s), Voted(s)
    PROVE  Working(s)' /\ Binned(s)' /\ Voted(s)'
<1>1. S' = S /\ neigh' = neigh /\ delta' = delta
  BY SameTrial
<1>2. Working(s)'
  BY <1>1 DEF Working, BinOf, To
<1>3. Binned(s)'
  BY <1>1 DEF Binned, BinOf, InBin
<1>4. Voted(s)'
  <2>1. \A b \in DOMAIN bins[s] : b \in Nat
    BY DEF BinTypes
  <2>2. \A b \in DOMAIN bins[s] : NextBin <= b => NextBin' <= b
    BY <2>1
  <2> QED BY <2>2 DEF Voted
<1> QED BY <1>2, <1>3, <1>4

LEMMA SettledKept ==
    ASSUME UNCHANGED <<args, drawn, dist>>
    PROVE  /\ \A b \in Nat : Settled(b) => Settled(b)'
           /\ \A u \in Nodes : \A j : Relaxed(u, j)' <=> Relaxed(u, j)
           /\ BinsNear /\ bins' = bins => BinsNear'
BY SameTrial DEF Settled, BinOf, Relaxed, To, Length, BinsNear, InBin

LEMMA ProgressKept ==
    ASSUME Types, Trials, phase = "run", Progress, UNCHANGED <<args, drawn, dist>>,
           \A u \in Nodes : \A j \in DOMAIN neigh[u] : Waiting(u) => Waiting(u)' \/ \E t \in Threads : UnderWay(t, u, j)',
           \A t \in Threads : \A u \in Nodes : \A j \in DOMAIN neigh[u] :
               UnderWay(t, u, j) => Relaxed(u, j) \/ Waiting(u)' \/ UnderWay(t, u, j)'
    PROVE  Progress'
<1>1. S' = S /\ neigh' = neigh /\ delta' = delta /\ Source' = Source
  BY SameTrial
<1>2. dist'[Source'] = 0 /\ \A n \in Nodes : S'[n] <= dist'[n]
  BY <1>1 DEF Progress
<1>3. ASSUME NEW u \in Nodes, NEW j \in DOMAIN neigh[u]
      PROVE  Relaxed(u, j)' \/ Waiting(u)' \/ \E t \in Threads : UnderWay(t, u, j)'
  BY SettledKept DEF Progress
<1>4. \A u \in Nodes : \A j \in DOMAIN neigh'[u] : Relaxed(u, j)' \/ Waiting(u)' \/ \E t \in Threads : UnderWay(t, u, j)'
  BY <1>1, <1>3
<1> QED BY <1>2, <1>4 DEF Progress
-----------------------------------------------------------------------------
(* A thread begins with the edges of a node. *)
LEMMA RelaxingMoves ==
    ASSUME Args, ThreadTypes, NEW t \in Threads, NEW u \in Nodes, pc[t] = "idle", Relaxing(t, u),
           CurrBin <= BinOf(S[u]), UNCHANGED <<args, drawn, dist, oldDist, newDist>>, CurrBin' = CurrBin, Working(t)
    PROVE  /\ pc' \in [Threads -> Steps] /\ node' \in [Threads -> Nodes] /\ edge' \in [Threads -> Nat \ {0}]
           /\ Working(t)' /\ pc'[t] # "barrier" /\ \A j \in DOMAIN neigh[u] : UnderWay(t, u, j)'
           /\ \A s \in Threads \ {t} : pc'[s] = pc[s] /\ node'[s] = node[s] /\ edge'[s] = edge[s]
           /\ \A s \in Threads : \A v, j : UnderWay(s, v, j) => UnderWay(s, v, j)'
<1>0. S' = S /\ neigh' = neigh /\ delta' = delta
  BY SameTrial
<1>1. CASE neigh[u] = <<>>
  <2>1. UNCHANGED <<node, edge, pc>>
    BY <1>1 DEF Relaxing
  <2>2. Working(t)'
    BY <1>0, <2>1 DEF Working, BinOf, To
  <2>3. \A j \in DOMAIN neigh[u] : FALSE
    BY <1>1
  <2>4. \A s \in Threads : \A v, j : UnderWay(s, v, j) => UnderWay(s, v, j)'
    BY <1>0, <2>1 DEF UnderWay, Length
  <2> QED BY <2>1, <2>2, <2>3, <2>4 DEF ThreadTypes
<1>2. CASE neigh[u] # <<>>
  <2>1. node' = [node EXCEPT ![t] = u] /\ edge' = [edge EXCEPT ![t] = 1] /\ pc' = [pc EXCEPT ![t] = "relax"]
    BY <1>2 DEF Relaxing, Goto
  <2>2. pc' \in [Threads -> Steps] /\ node' \in [Threads -> Nodes] /\ edge' \in [Threads -> Nat \ {0}]
        /\ pc'[t] = "relax" /\ node'[t] = u /\ edge'[t] = 1
        /\ \A s \in Threads \ {t} : pc'[s] = pc[s] /\ node'[s] = node[s] /\ edge'[s] = edge[s]
    BY <2>1 DEF ThreadTypes, Steps
  <2>3. DOMAIN neigh[u] = 1 .. Len(neigh[u]) /\ Len(neigh[u]) \in Nat \ {0} /\ 1 \in DOMAIN neigh[u]
    BY <1>2, GraphFacts
  <2>4. Working(t)'
    BY <1>0, <2>2, <2>3 DEF Working, BinOf, LoopSteps
  <2>5. \A j \in DOMAIN neigh[u] : UnderWay(t, u, j)'
    BY <2>2, <2>3 DEF UnderWay
  <2>6. ASSUME NEW s \in Threads, NEW v, NEW j, UnderWay(s, v, j) PROVE UnderWay(s, v, j)'
    <3>1. s # t
      BY <2>6 DEF UnderWay
    <3> QED BY <1>0, <2>2, <2>6, <3>1 DEF UnderWay, Length
  <2> QED BY <2>2, <2>4, <2>5, <2>6
<1> QED BY <1>1, <1>2

(* Who waits while no thread leaves the loop. *)
LEMMA WaitingKept ==
    ASSUME UNCHANGED <<args, drawn, dist, frontier>>, CurrBin' = CurrBin, NEW u \in Nodes, Waiting(u),
           \E t \in Threads : pc[t] \notin CopySteps
    PROVE  \/ \E b \in Nat : b = BinOf(dist[u]) /\ WaitingIn(b, u) /\ (WaitingIn(b, u)' => Waiting(u)')
           \/ WaitingCopied(u)
           \/ WaitingTodo(u)
<1>1. ~WaitingNext(u)
  BY DEF WaitingNext
<1>2. \A b \in Nat : b = BinOf(dist[u]) /\ WaitingIn(b, u)' => Waiting(u)'
  BY SameTrial DEF Waiting, BinOf
<1> QED BY <1>1, <1>2 DEF Waiting
-----------------------------------------------------------------------------
LEMMA DueUnsettled ==
    ASSUME LoopInv, NEW u \in Nodes, CurrBin <= BinOf(dist[u])
    PROVE  CurrBin <= BinOf(S[u])
<1>1. Args /\ drawn \in 1 .. Len(picks) /\ CurrBin \in Nat
  BY RunFacts DEF LoopInv
<1>2. BinOf(S[u]) \in Nat
  BY <1>1, ShortestFacts, DueFacts
<1>3. BinOf(S[u]) < CurrBin => dist[u] = S[u]
  BY DEF LoopInv, Loop, Settled
<1> QED BY <1>1, <1>2, <1>3

(* A step of a thread in the loop that leaves the distances as they are. *)
LEMMA LoopKept ==
    ASSUME LoopInv, NEW t \in Threads,
           UNCHANGED <<args, drawn, vdrawn, phase, dist, frontier, frontierTails, iter>>,
           sharedIndexes' \in [{0, 1} -> 0 .. MaxBin], CurrBin' = CurrBin, CurrBin <= NextBin', NextBin' <= NextBin,
           todo' \subseteq todo, ThreadTypes', BinTypes', BinsNear',
           \A s \in Threads \ {t} : pc'[s] = pc[s] /\ node'[s] = node[s] /\ edge'[s] = edge[s] /\ oldDist'[s] = oldDist[s]
                                    /\ newDist'[s] = newDist[s] /\ bins'[s] = bins[s] /\ copied'[s] = copied[s],
           Working(t)' /\ Binned(t)' /\ Voted(t)',
           \A u \in Nodes : \A j \in DOMAIN neigh[u] : Waiting(u) => Waiting(u)' \/ \E s \in Threads : UnderWay(s, u, j)',
           \A s \in Threads : \A u \in Nodes : \A j \in DOMAIN neigh[u] :
               UnderWay(s, u, j) => Relaxed(u, j) \/ Waiting(u)' \/ UnderWay(s, u, j)'
    PROVE  LoopInv'
<1>0. Types /\ Trials /\ phase = "run" /\ Progress /\ Loop
  BY DEF LoopInv
<1>1. S' = S /\ neigh' = neigh /\ delta' = delta /\ Cells' = Cells
  BY SameTrial
<1>2. SharedTypes /\ BinTypes /\ CurrBin \in Nat /\ NextBin \in Nat /\ iter \in {0, 1} /\ 1 - iter \in {0, 1} /\ todo \subseteq Nat
  BY <1>0, RunFacts
<1>3. SharedTypes'
  BY <1>1, <1>2 DEF SharedTypes
<1>4. NextTail' = NextTail /\ NextBin' \in Nat
  <2>1. NextBin' \in 0 .. MaxBin
    BY <1>2 DEF NextBin
  <2> QED BY <2>1, ConstantFacts DEF NextTail
<1>5. Types'
  BY <1>0, <1>2, <1>3, TypesKept
<1>6. Trials' /\ phase' = "run"
  BY <1>0, TrialsKept
<1>7. Progress'
  BY <1>0, ProgressKept
<1>8. Settled(CurrBin)'
  <2>1. Settled(CurrBin)
    BY <1>0 DEF Loop
  <2> QED BY <1>1, <2>1 DEF Settled, BinOf
<1>9. \A k \in todo' : k \in Cells' /\ frontier'[k] \in Nodes
  BY <1>0, <1>1 DEF Loop
<1>10. ASSUME NEW s \in Threads PROVE Working(s)' /\ Binned(s)' /\ Voted(s)'
  <2>1. Working(s) /\ Binned(s) /\ Voted(s)
    BY <1>0 DEF Loop
  <2>2. CASE s # t
    BY <1>2, <1>4, <2>1, <2>2, OtherThread
  <2> QED BY <2>2
<1>11. Loop'
  BY <1>0, <1>4, <1>8, <1>9, <1>10 DEF Loop
<1> QED BY <1>5, <1>6, <1>7, <1>11 DEF LoopInv

LEMMA TakeInv ==
    ASSUME LoopInv, NEW t \in Threads, NEW i \in todo, Take(t, i)
    PROVE  LoopInv'
<1> USE DEF trialVars, sharedVars
<1>0. Types /\ Trials /\ phase = "run" /\ Progress /\ Loop
  BY DEF LoopInv
<1>u. PICK u \in Nodes : u = frontier[i]
  BY <1>0 DEF Loop
<1>1. /\ UNCHANGED <<args, drawn, vdrawn, phase, dist, frontier, sharedIndexes, frontierTails, iter>>
      /\ UNCHANGED <<oldDist, newDist, bins, copied>>
      /\ pc[t] = "idle" /\ todo' = todo \ {i}
      /\ IF dist[u] >= delta * CurrBin THEN Relaxing(t, u) ELSE UNCHANGED <<node, edge, pc>>
  BY <1>u DEF Take
<1>2. CurrBin' = CurrBin /\ NextBin' = NextBin /\ NextTail' = NextTail
  BY <1>1 DEF CurrBin, NextBin, NextTail
<1>3. S' = S /\ neigh' = neigh /\ delta' = delta /\ Cells' = Cells
  BY <1>1, SameTrial
<1>4. Working(t)
  BY <1>0 DEF Loop
<1>5. Args /\ ThreadTypes /\ SharedTypes /\ BinTypes /\ BinsNear /\ CurrBin \in Nat /\ NextBin \in Nat
      /\ iter \in {0, 1} /\ todo \subseteq Nat
  BY <1>0, RunFacts
<1>6. dist[u] >= delta * CurrBin <=> CurrBin <= BinOf(dist[u])
  BY <1>0, <1>5, RunFacts, DueFacts
<1>7. /\ pc' \in [Threads -> Steps] /\ node' \in [Threads -> Nodes] /\ edge' \in [Threads -> Nat \ {0}]
      /\ Working(t)' /\ pc'[t] # "barrier"
      /\ CurrBin <= BinOf(dist[u]) => \A j \in DOMAIN neigh[u] : UnderWay(t, u, j)'
      /\ \A s \in Threads \ {t} : pc'[s] = pc[s] /\ node'[s] = node[s] /\ edge'[s] = edge[s]
      /\ \A s \in Threads : \A v, j : UnderWay(s, v, j) => UnderWay(s, v, j)'
  <2>1. CASE CurrBin <= BinOf(dist[u])
    <3>1. Relaxing(t, u) /\ CurrBin <= BinOf(S[u])
      BY <1>1, <1>4, <1>6, <2>1, DueUnsettled
    <3>2. UNCHANGED <<args, drawn, dist, oldDist, newDist>> /\ pc[t] = "idle"
      BY <1>1
    <3>3. /\ pc' \in [Threads -> Steps] /\ node' \in [Threads -> Nodes] /\ edge' \in [Threads -> Nat \ {0}]
          /\ Working(t)' /\ pc'[t] # "barrier" /\ \A j \in DOMAIN neigh[u] : UnderWay(t, u, j)'
          /\ \A s \in Threads \ {t} : pc'[s] = pc[s] /\ node'[s] = node[s] /\ edge'[s] = edge[s]
          /\ \A s \in Threads : \A v, j : UnderWay(s, v, j) => UnderWay(s, v, j)'
      BY <1>2, <1>4, <1>5, <3>1, <3>2, RelaxingMoves
    <3> QED BY <3>3
  <2>2. CASE ~(CurrBin <= BinOf(dist[u]))
    <3>1. UNCHANGED <<node, edge, pc>>
      BY <1>1, <1>6, <2>2
    <3>2. Working(t)'
      BY <1>1, <1>2, <1>3, <1>4, <3>1 DEF Working, BinOf, To
    <3>3. \A s \in Threads : \A v, j : UnderWay(s, v, j) => UnderWay(s, v, j)'
      BY <1>1, <1>3, <3>1 DEF UnderWay, Length
    <3> QED BY <1>1, <1>5, <2>2, <3>1, <3>2, <3>3 DEF ThreadTypes
  <2> QED BY <2>1, <2>2
<1>8. ThreadTypes' /\ BinTypes' /\ BinsNear'
  BY <1>1, <1>5, <1>7, SettledKept DEF ThreadTypes, BinTypes
<1>9. ASSUME NEW v \in Nodes, NEW j \in DOMAIN neigh[v], Waiting(v)
      PROVE  Waiting(v)' \/ \E s \in Threads : UnderWay(s, v, j)'
  <2>1. \A b \in Nat : WaitingIn(b, v)' <=> WaitingIn(b, v)
    BY <1>1 DEF WaitingIn, InBin
  <2>2. WaitingCopied(v)' <=> WaitingCopied(v)
    BY <1>1 DEF WaitingCopied
  <2>3. WaitingTodo(v) => WaitingTodo(v)' \/ (v = u /\ CurrBin <= BinOf(dist[u]))
    BY <1>u, <1>1, <1>2, <1>3 DEF WaitingTodo, BinOf
  <2>4. \E s \in Threads : pc[s] \notin CopySteps
    BY <1>1 DEF CopySteps
  <2>5. CASE WaitingTodo(v)
    <3>1. CASE WaitingTodo(v)'
      BY <3>1 DEF Waiting
    <3>2. CASE v = u /\ CurrBin <= BinOf(dist[u])
      BY <1>7, <3>2
    <3> QED BY <2>3, <2>5, <3>1, <3>2
  <2>6. CASE ~WaitingTodo(v)
    BY <1>1, <1>2, <2>1, <2>2, <2>4, <2>6, WaitingKept, <1>9 DEF Waiting
  <2> QED BY <2>5, <2>6
<1>10. Binned(t)' /\ Voted(t)'
  <2>1. Binned(t)
    BY <1>0 DEF Loop
  <2>2. Binned(t)'
    BY <1>1, <1>2, <1>3, <2>1 DEF Binned, InBin, BinOf
  <2> QED BY <1>7, <2>2 DEF Voted
<1>11. sharedIndexes' \in [{0, 1} -> 0 .. MaxBin] /\ CurrBin <= NextBin' /\ NextBin' <= NextBin /\ todo' \subseteq todo
  BY <1>0, <1>1, <1>2, <1>5 DEF SharedTypes, Loop
<1>12. UNCHANGED <<args, drawn, vdrawn, phase, dist, frontier, frontierTails, iter>>
  BY <1>1
<1> QED BY <1>1, <1>2, <1>7, <1>8, <1>9, <1>10, <1>11, <1>12, LoopKept

LEMMA TakeCopiedInv ==
    ASSUME LoopInv, NEW t \in Threads, TakeCopied(t)
    PROVE  LoopInv'
<1> USE DEF trialVars, sharedVars
<1>0. Types /\ Trials /\ phase = "run" /\ Progress /\ Loop
  BY DEF LoopInv
<1>1. /\ UNCHANGED <<args, drawn, vdrawn, phase, dist, frontier, sharedIndexes, frontierTails, iter>>
      /\ UNCHANGED <<oldDist, newDist, bins, todo>>
      /\ pc[t] = "idle" /\ copied[t] # <<>> /\ copied' = [copied EXCEPT ![t] = Tail(@)]
      /\ Relaxing(t, Head(copied[t]))
  BY DEF TakeCopied
<1>2. CurrBin' = CurrBin /\ NextBin' = NextBin /\ NextTail' = NextTail
  BY <1>1 DEF CurrBin, NextBin, NextTail
<1>3. S' = S /\ neigh' = neigh /\ delta' = delta /\ Cells' = Cells
  BY <1>1, SameTrial
<1>4. Working(t) /\ Binned(t)
  BY <1>0 DEF Loop
<1>5. Args /\ ThreadTypes /\ SharedTypes /\ BinTypes /\ BinsNear /\ CurrBin \in Nat /\ NextBin \in Nat
      /\ copied \in [Threads -> Seq(Nodes)]
  BY <1>0, RunFacts DEF ThreadTypes
<1>6. PICK u \in Nodes : u = Head(copied[t])
  BY <1>1, <1>5, HeadAndTail
<1>7. Tail(copied[t]) \in Seq(Nodes) /\ u \in ToSet(copied[t]) /\ ToSet(copied[t]) = {u} \cup ToSet(Tail(copied[t]))
  BY <1>1, <1>5, <1>6, HeadAndTail
<1>8. copied' \in [Threads -> Seq(Nodes)] /\ copied'[t] = Tail(copied[t]) /\ \A s \in Threads \ {t} : copied'[s] = copied[s]
  BY <1>1, <1>5, <1>7
<1>9. /\ pc' \in [Threads -> Steps] /\ node' \in [Threads -> Nodes] /\ edge' \in [Threads -> Nat \ {0}]
      /\ Working(t)' /\ pc'[t] # "barrier" /\ \A j \in DOMAIN neigh[u] : UnderWay(t, u, j)'
      /\ \A s \in Threads \ {t} : pc'[s] = pc[s] /\ node'[s] = node[s] /\ edge'[s] = edge[s]
      /\ \A s \in Threads : \A v, j : UnderWay(s, v, j) => UnderWay(s, v, j)'
  <2>1. CurrBin <= BinOf(S[u]) /\ Relaxing(t, u)
    BY <1>1, <1>4, <1>6, <1>7 DEF Binned
  <2>2. UNCHANGED <<args, drawn, dist, oldDist, newDist>> /\ pc[t] = "idle"
    BY <1>1
  <2> QED BY <1>2, <1>4, <1>5, <2>1, <2>2, RelaxingMoves
<1>10. ThreadTypes' /\ BinTypes' /\ BinsNear'
  BY <1>1, <1>5, <1>8, <1>9, SettledKept DEF ThreadTypes, BinTypes
<1>11. ASSUME NEW v \in Nodes, NEW j \in DOMAIN neigh[v], Waiting(v)
       PROVE  Waiting(v)' \/ \E s \in Threads : UnderWay(s, v, j)'
  <2>1. \A b \in Nat : WaitingIn(b, v)' <=> WaitingIn(b, v)
    BY <1>1 DEF WaitingIn, InBin
  <2>2. WaitingCopied(v) => WaitingCopied(v)' \/ v = u
    BY <1>7, <1>8 DEF WaitingCopied
  <2>3. WaitingTodo(v)' <=> WaitingTodo(v)
    BY <1>1, <1>2, <1>3 DEF WaitingTodo, BinOf
  <2>4. \E s \in Threads : pc[s] \notin CopySteps
    BY <1>1 DEF CopySteps
  <2>5. CASE v = u
    BY <1>9, <2>5
  <2>6. CASE v # u
    BY <1>1, <1>2, <2>1, <2>2, <2>3, <2>4, <2>6, WaitingKept, <1>11 DEF Waiting
  <2> QED BY <2>5, <2>6
<1>12. Binned(t)' /\ Voted(t)'
  <2>1. Binned(t)'
    <3>1. \A v \in ToSet(copied'[t]) : v \in ToSet(copied[t])
      BY <1>7, <1>8
    <3> QED BY <1>1, <1>2, <1>3, <1>4, <3>1 DEF Binned, InBin, BinOf
  <2> QED BY <1>9, <2>1 DEF Voted
<1>13. sharedIndexes' \in [{0, 1} -> 0 .. MaxBin] /\ CurrBin <= NextBin' /\ NextBin' <= NextBin /\ todo' \subseteq todo
  BY <1>0, <1>1, <1>2, <1>5 DEF SharedTypes, Loop
<1>14. UNCHANGED <<args, drawn, vdrawn, phase, dist, frontier, frontierTails, iter>>
  BY <1>1
<1> QED BY <1>1, <1>2, <1>8, <1>9, <1>10, <1>11, <1>12, <1>13, <1>14, LoopKept

LEMMA FuseInv ==
    ASSUME LoopInv, NEW t \in Threads, Fuse(t)
    PROVE  LoopInv'
<1> USE DEF trialVars, sharedVars, localVars
<1>0. Types /\ Trials /\ phase = "run" /\ Progress /\ Loop
  BY DEF LoopInv
<1>1. Args /\ ThreadTypes /\ SharedTypes /\ BinTypes /\ BinsNear /\ CurrBin \in Nat /\ NextBin \in Nat
      /\ copied \in [Threads -> Seq(Nodes)]
  BY <1>0, RunFacts DEF ThreadTypes
<1>2. PICK c \in Nat : c = CurrBin
  BY <1>1
<1>3. /\ UNCHANGED <<args, drawn, vdrawn, phase, dist, frontier, sharedIndexes, frontierTails, iter>>
      /\ UNCHANGED <<node, edge, oldDist, newDist, pc, todo>>
      /\ pc[t] = "idle" /\ copied[t] = <<>> /\ copied' = [copied EXCEPT ![t] = Bin(t, c)] /\ bins' = Emptied(t, c)
  BY <1>2 DEF Fuse, AfterLoop
<1>4. CurrBin' = CurrBin /\ NextBin' = NextBin /\ NextTail' = NextTail
  BY <1>3 DEF CurrBin, NextBin, NextTail
<1>5. S' = S /\ neigh' = neigh /\ delta' = delta /\ Cells' = Cells
  BY <1>3, SameTrial
<1>6. Working(t) /\ Binned(t)
  BY <1>0 DEF Loop
<1>7. /\ BinTypes' /\ (\A s \in Threads \ {t} : bins'[s] = bins[s])
      /\ DOMAIN bins'[t] = DOMAIN bins[t] \ {c}
      /\ \A s \in Threads : \A u : \A b \in Nat : InBin(s, u, b)' <=> InBin(s, u, b) /\ ~(s = t /\ b = c)
  BY <1>1, <1>3, EmptyMoves
<1>8. Bin(t, c) \in Seq(Nodes) /\ \A u : InBin(t, u, c) <=> u \in ToSet(Bin(t, c))
  BY <1>1, BinFacts
<1>9. copied' \in [Threads -> Seq(Nodes)] /\ copied'[t] = Bin(t, c) /\ \A s \in Threads \ {t} : copied'[s] = copied[s]
  BY <1>1, <1>3, <1>8
<1>10. ThreadTypes' /\ BinsNear'
  <2>1. ThreadTypes'
    BY <1>1, <1>3, <1>9 DEF ThreadTypes
  <2>2. BinsNear'
    BY <1>1, <1>3, <1>5, <1>7 DEF BinsNear, BinOf
  <2> QED BY <2>1, <2>2
<1>11. ASSUME NEW v \in Nodes, Waiting(v) PROVE Waiting(v)'
  <2>1. \A b \in Nat : WaitingIn(b, v) => WaitingIn(b, v)' \/ WaitingCopied(v)'
    BY <1>7, <1>8, <1>9 DEF WaitingIn, WaitingCopied
  <2>2. WaitingCopied(v) => WaitingCopied(v)'
    <3>1. ToSet(<<>>) = {}
      BY DEF ToSet
    <3> QED BY <1>3, <1>9, <3>1 DEF WaitingCopied
  <2>3. WaitingTodo(v)' <=> WaitingTodo(v)
    BY <1>3, <1>4, <1>5 DEF WaitingTodo, BinOf
  <2>4. \E s \in Threads : pc[s] \notin CopySteps
    BY <1>3 DEF CopySteps
  <2> QED BY <1>3, <1>4, <2>1, <2>2, <2>3, <2>4, WaitingKept, <1>11 DEF Waiting
<1>12. \A s \in Threads : \A v, j : UnderWay(s, v, j) => UnderWay(s, v, j)'
  BY <1>3, <1>5 DEF UnderWay, Length
<1>13. Working(t)' /\ Voted(t)'
  <2>1. Working(t)'
    BY <1>3, <1>4, <1>5, <1>6 DEF Working, BinOf, To
  <2> QED BY <1>3, <2>1 DEF Voted
<1>14. Binned(t)'
  <2>1. \A u \in Nodes : InBin(t, u, c) => c <= BinOf(S[u])
    BY <1>2, <1>6 DEF Binned
  <2>2. \A u \in ToSet(copied'[t]) : u \in Nodes /\ InBin(t, u, c)
    BY <1>1, <1>8, <1>9, BinFacts
  <2>3. \A u \in ToSet(copied'[t]) : CurrBin' <= BinOf(S[u])
    BY <1>2, <1>4, <2>1, <2>2
  <2> QED BY <1>2, <1>3, <1>4, <1>5, <1>6, <1>7, <2>3 DEF Binned, BinOf
<1>15. sharedIndexes' \in [{0, 1} -> 0 .. MaxBin] /\ CurrBin <= NextBin' /\ NextBin' <= NextBin /\ todo' \subseteq todo
  BY <1>0, <1>1, <1>3, <1>4 DEF SharedTypes, Loop
<1>16. UNCHANGED <<args, drawn, vdrawn, phase, dist, frontier, frontierTails, iter>>
  BY <1>3
<1> QED BY <1>3, <1>4, <1>7, <1>9, <1>10, <1>11, <1>12, <1>13, <1>14, <1>15, <1>16, LoopKept

LEMMA VoteInv ==
    ASSUME LoopInv, NEW t \in Threads, Vote(t)
    PROVE  LoopInv'
<1> USE DEF trialVars, sharedVars, localVars
<1>0. Types /\ Trials /\ phase = "run" /\ Progress /\ Loop
  BY DEF LoopInv
<1>1. Args /\ ThreadTypes /\ SharedTypes /\ BinTypes /\ BinsNear /\ CurrBin \in Nat /\ NextBin \in 0 .. MaxBin
      /\ iter \in {0, 1} /\ 1 - iter \in {0, 1} /\ 1 - iter # iter /\ MaxBin \in Nat
      /\ pc \in [Threads -> Steps] /\ sharedIndexes \in [{0, 1} -> 0 .. MaxBin]
  BY <1>0, RunFacts, ConstantFacts DEF ThreadTypes, SharedTypes
<1>2. /\ UNCHANGED <<args, drawn, vdrawn, phase, dist, frontier, frontierTails, iter>>
      /\ UNCHANGED <<node, edge, oldDist, newDist, copied, bins, todo>>
      /\ pc[t] = "idle" /\ copied[t] = <<>>
      /\ sharedIndexes' = [sharedIndexes EXCEPT ![1 - iter] = SmallestVote(t)]
      /\ pc' = [pc EXCEPT ![t] = "barrier"]
  BY DEF Vote, AfterLoop, Goto
<1>3. /\ SmallestVote(t) \in CurrBin .. NextBin /\ \A b \in DOMAIN bins[t] : SmallestVote(t) <= b
  <2> DEFINE Votes == {NextBin} \cup Filled(t)
  <2>1. \A b \in DOMAIN bins[t] : b \in Nat /\ b >= CurrBin
    <3>1. Binned(t)
      BY <1>0 DEF Loop
    <3> QED BY <1>1, <3>1 DEF Binned
  <2>2. Votes \in SUBSET Nat /\ NextBin \in Votes /\ \A b \in DOMAIN bins[t] : b \in Votes
    BY <1>1, <2>1 DEF Filled
  <2>3. \A b \in Votes : b \in Nat /\ b >= CurrBin
    BY <1>0, <1>1, <2>1 DEF Filled, Loop
  <2> HIDE DEF Votes
  <2>4. Min(Votes) \in Votes /\ \A b \in Votes : Min(Votes) <= b
    BY <2>2, MinFacts
  <2>5. SmallestVote(t) = Min(Votes)
    BY DEF SmallestVote, Votes
  <2> QED BY <1>1, <2>2, <2>3, <2>4, <2>5
<1>4. /\ sharedIndexes' \in [{0, 1} -> 0 .. MaxBin] /\ CurrBin' = CurrBin /\ NextBin' = SmallestVote(t)
      /\ NextTail' = NextTail
  <2>1. SmallestVote(t) \in 0 .. MaxBin
    BY <1>1, <1>3
  <2> QED BY <1>1, <1>2, <2>1 DEF CurrBin, NextBin, NextTail
<1>5. S' = S /\ neigh' = neigh /\ delta' = delta
  BY <1>2, SameTrial
<1>6. pc' \in [Threads -> Steps] /\ pc'[t] = "barrier" /\ \A s \in Threads \ {t} : pc'[s] = pc[s]
  BY <1>1, <1>2 DEF Steps
<1>7. ThreadTypes' /\ BinTypes' /\ BinsNear'
  BY <1>1, <1>2, <1>6, SettledKept DEF ThreadTypes, BinTypes
<1>8. ASSUME NEW v \in Nodes, Waiting(v) PROVE Waiting(v)'
  <2>1. \A b \in Nat : WaitingIn(b, v)' <=> WaitingIn(b, v)
    BY <1>2 DEF WaitingIn, InBin
  <2>2. WaitingCopied(v)' <=> WaitingCopied(v)
    BY <1>2 DEF WaitingCopied
  <2>3. WaitingTodo(v)' <=> WaitingTodo(v)
    BY <1>2, <1>4, <1>5 DEF WaitingTodo, BinOf
  <2>4. \E s \in Threads : pc[s] \notin CopySteps
    BY <1>2 DEF CopySteps
  <2> QED BY <1>2, <1>4, <2>1, <2>2, <2>3, <2>4, WaitingKept, <1>8 DEF Waiting
<1>9. \A s \in Threads : \A v, j : UnderWay(s, v, j) => UnderWay(s, v, j)'
  BY <1>2, <1>5, <1>6 DEF UnderWay, Length
<1>10. Working(t)' /\ Binned(t)' /\ Voted(t)'
  <2>1. Working(t)'
    BY <1>6 DEF Working, LoopSteps
  <2>2. Binned(t)
    BY <1>0 DEF Loop
  <2>3. Binned(t)'
    BY <1>2, <1>4, <1>5, <2>2 DEF Binned, InBin, BinOf
  <2>4. Voted(t)'
    BY <1>2, <1>3, <1>4 DEF Voted
  <2> QED BY <2>1, <2>3, <2>4
<1>11. CurrBin <= NextBin' /\ NextBin' <= NextBin /\ todo' \subseteq todo
  BY <1>1, <1>2, <1>3, <1>4
<1>12. UNCHANGED <<args, drawn, vdrawn, phase, dist, frontier, frontierTails, iter>>
  BY <1>2
<1> QED BY <1>2, <1>4, <1>6, <1>7, <1>8, <1>9, <1>10, <1>11, <1>12, LoopKept
-----------------------------------------------------------------------------
(* The loop of RelaxEdges. *)
LEMMA EdgeBound ==
    ASSUME Args, drawn \in 1 .. Len(picks), NEW u \in Nodes, NEW j \in DOMAIN neigh[u]
    PROVE  S[To(u, j)] <= S[u] + Length(u, j) /\ S[To(u, j)] \in Nat /\ S[u] \in Nat /\ Length(u, j) \in Nat \ {0}
<1> DEFINE e == <<u, To(u, j), Length(u, j)>>
<1>1. To(u, j) \in Nodes /\ Length(u, j) \in Nat \ {0} /\ e \in EdgesOf(neigh)
  BY GraphFacts
<1>2. NoShortCut(S, e)
  BY <1>1, ShortestFacts DEF AreShortest
<1>3. S[To(u, j)] \in Nat /\ S[u] \in Nat
  BY <1>1, ShortestFacts
<1> QED BY <1>1, <1>2, <1>3 DEF NoShortCut

LEMMA NextEdgeMoves ==
    ASSUME Args, ThreadTypes, NEW t \in Threads, pc[t] \in {"relax", "cas"}, NextEdge(t), Working(t),
           UNCHANGED <<args, drawn>>, CurrBin' = CurrBin
    PROVE  /\ pc' \in [Threads -> Steps] /\ node' \in [Threads -> Nodes] /\ edge' \in [Threads -> Nat \ {0}]
           /\ oldDist' \in [Threads -> Nat] /\ newDist' \in [Threads -> Nat]
           /\ \A s \in Threads \ {t} : pc'[s] = pc[s] /\ node'[s] = node[s] /\ edge'[s] = edge[s]
                                       /\ oldDist'[s] = oldDist[s] /\ newDist'[s] = newDist[s]
           /\ Working(t)' /\ pc'[t] # "barrier"
           /\ \A u \in Nodes : \A j \in DOMAIN neigh[u] :
                 UnderWay(t, u, j) => UnderWay(t, u, j)' \/ (u = node[t] /\ j = edge[t])
<1>1. S' = S /\ neigh' = neigh /\ delta' = delta
  BY SameTrial
<1>2. node[t] \in Nodes /\ edge[t] \in Nat \ {0} /\ neigh[node[t]] \in Seq(Nodes \X (Nat \ {0}))
  BY GraphFacts DEF ThreadTypes
<1>3. DOMAIN neigh[node[t]] = 1 .. Len(neigh[node[t]]) /\ Len(neigh[node[t]]) \in Nat
  BY <1>2
<1>4. oldDist' = [oldDist EXCEPT ![t] = 0] /\ newDist' = [newDist EXCEPT ![t] = 0]
  BY DEF NextEdge
<1>5. oldDist' \in [Threads -> Nat] /\ newDist' \in [Threads -> Nat]
      /\ \A s \in Threads \ {t} : oldDist'[s] = oldDist[s] /\ newDist'[s] = newDist[s]
  BY <1>4 DEF ThreadTypes
<1>6. CASE edge[t] < Len(neigh[node[t]])
  <2>1. edge' = [edge EXCEPT ![t] = @ + 1] /\ pc' = [pc EXCEPT ![t] = "relax"] /\ node' = node
    BY <1>6 DEF NextEdge, Goto
  <2>2. /\ pc' \in [Threads -> Steps] /\ node' \in [Threads -> Nodes] /\ edge' \in [Threads -> Nat \ {0}]
        /\ pc'[t] = "relax" /\ edge'[t] = edge[t] + 1
        /\ \A s \in Threads \ {t} : pc'[s] = pc[s] /\ node'[s] = node[s] /\ edge'[s] = edge[s]
    BY <1>2, <2>1 DEF ThreadTypes, Steps
  <2>3. edge'[t] \in DOMAIN neigh[node[t]]
    BY <1>2, <1>3, <1>6, <2>2
  <2>4. Working(t)'
    BY <1>1, <2>1, <2>2, <2>3 DEF Working, LoopSteps, BinOf
  <2>5. ASSUME NEW u \in Nodes, NEW j \in DOMAIN neigh[u], UnderWay(t, u, j), ~(u = node[t] /\ j = edge[t])
        PROVE  UnderWay(t, u, j)'
    <3>1. u = node[t] /\ edge[t] <= j /\ j # edge[t] /\ j \in Nat
      BY <1>2, <1>3, <2>5 DEF UnderWay
    <3>2. edge'[t] <= j
      BY <1>2, <2>2, <3>1
    <3> QED BY <2>1, <2>2, <3>1, <3>2 DEF UnderWay
  <2> QED BY <1>5, <2>2, <2>4, <2>5
<1>7. CASE ~(edge[t] < Len(neigh[node[t]]))
  <2>1. edge' = [edge EXCEPT ![t] = 1] /\ pc' = [pc EXCEPT ![t] = "idle"] /\ node' = [node EXCEPT ![t] = 0]
    BY <1>7 DEF NextEdge, Goto
  <2>2. 0 \in Nodes
    BY ConstantFacts DEF Nodes
  <2>3. /\ pc' \in [Threads -> Steps] /\ node' \in [Threads -> Nodes] /\ edge' \in [Threads -> Nat \ {0}]
        /\ pc'[t] = "idle"
        /\ \A s \in Threads \ {t} : pc'[s] = pc[s] /\ node'[s] = node[s] /\ edge'[s] = edge[s]
    BY <2>1, <2>2 DEF ThreadTypes, Steps
  <2>4. Working(t)'
    BY <2>3 DEF Working, LoopSteps
  <2>5. ASSUME NEW u \in Nodes, NEW j \in DOMAIN neigh[u], UnderWay(t, u, j)
        PROVE  u = node[t] /\ j = edge[t]
    <3>1. u = node[t] /\ edge[t] <= j
      BY <1>2, <1>3, <2>5 DEF UnderWay
    <3> QED BY <1>2, <1>3, <1>7, <2>5, <3>1
  <2> QED BY <1>5, <2>3, <2>4, <2>5
<1> QED BY <1>6, <1>7

LEMMA TryOrNextMoves ==
    ASSUME Args, ThreadTypes, NEW t \in Threads, pc[t] \in {"relax", "cas"}, Working(t),
           NEW old \in Nat, old <= DistInf, NEW new \in Nat, TryOrNext(t, old, new),
           S[To(node[t], edge[t])] <= new, CurrBin <= BinOf(new),
           UNCHANGED <<args, drawn, dist>>, CurrBin' = CurrBin
    PROVE  /\ pc' \in [Threads -> Steps] /\ node' \in [Threads -> Nodes] /\ edge' \in [Threads -> Nat \ {0}]
           /\ oldDist' \in [Threads -> Nat] /\ newDist' \in [Threads -> Nat]
           /\ \A s \in Threads \ {t} : pc'[s] = pc[s] /\ node'[s] = node[s] /\ edge'[s] = edge[s]
                                       /\ oldDist'[s] = oldDist[s] /\ newDist'[s] = newDist[s]
           /\ Working(t)' /\ pc'[t] # "barrier"
           /\ \A u \in Nodes : \A j \in DOMAIN neigh[u] :
                 UnderWay(t, u, j) => \/ UnderWay(t, u, j)'
                                      \/ u = node[t] /\ j = edge[t] /\ (old <= new \/ new # dist[u] + Length(u, j))
<1>1. CASE new < old
  <2>1. /\ oldDist' = [oldDist EXCEPT ![t] = old] /\ newDist' = [newDist EXCEPT ![t] = new]
        /\ pc' = [pc EXCEPT ![t] = "cas"] /\ UNCHANGED <<node, edge>>
    BY <1>1 DEF TryOrNext, Goto
  <2>2. S' = S /\ neigh' = neigh /\ delta' = delta
    BY SameTrial
  <2>3. /\ pc' \in [Threads -> Steps] /\ node' \in [Threads -> Nodes] /\ edge' \in [Threads -> Nat \ {0}]
        /\ oldDist' \in [Threads -> Nat] /\ newDist' \in [Threads -> Nat]
        /\ pc'[t] = "cas" /\ oldDist'[t] = old /\ newDist'[t] = new
        /\ \A s \in Threads \ {t} : pc'[s] = pc[s] /\ node'[s] = node[s] /\ edge'[s] = edge[s]
                                    /\ oldDist'[s] = oldDist[s] /\ newDist'[s] = newDist[s]
    BY <2>1 DEF ThreadTypes, Steps
  <2>4. Working(t)'
    <3>1. edge[t] \in DOMAIN neigh[node[t]] /\ CurrBin <= BinOf(S[node[t]])
      BY DEF Working
    <3> QED BY <1>1, <2>1, <2>2, <2>3, <3>1 DEF Working, LoopSteps, BinOf, To
  <2>5. ASSUME NEW u \in Nodes, NEW j \in DOMAIN neigh[u], UnderWay(t, u, j),
               ~(u = node[t] /\ j = edge[t] /\ new # dist[u] + Length(u, j))
        PROVE  UnderWay(t, u, j)'
    <3>1. u = node[t] /\ edge[t] <= j /\ j \in Nat /\ edge[t] \in Nat
      <4>1. edge[t] \in Nat /\ j \in Nat
        BY GraphFacts DEF ThreadTypes
      <4> QED BY <2>5, <4>1 DEF UnderWay
    <3>2. edge[t] < j \/ (edge[t] = j /\ new = dist[u] + Length(u, j))
      BY <2>5, <3>1
    <3> QED BY <2>1, <2>2, <2>3, <3>1, <3>2 DEF UnderWay, Length
  <2> QED BY <2>3, <2>4, <2>5
<1>2. CASE ~(new < old)
  <2>1. NextEdge(t) /\ old <= new
    BY <1>2 DEF TryOrNext
  <2> QED BY <2>1, NextEdgeMoves
<1> QED BY <1>1, <1>2

(* A step of RelaxEdges that does not change a distance. *)
LEMMA TriedInv ==
    ASSUME LoopInv, NEW t \in Threads, pc[t] \in {"relax", "cas"},
           NEW old \in Nat, old = dist[To(node[t], edge[t])], NEW new \in Nat, TryOrNext(t, old, new),
           S[To(node[t], edge[t])] <= new, CurrBin <= BinOf(new),
           \A j \in DOMAIN neigh[node[t]] : UnderWay(t, node[t], j) /\ j = edge[t] => new = dist[node[t]] + Length(node[t], j),
           UNCHANGED <<args, trialVars, dist, frontier, sharedVars, todo, bins, copied>>
    PROVE  LoopInv'
<1> USE DEF trialVars, sharedVars
<1>0. Types /\ Trials /\ phase = "run" /\ Progress /\ Loop
  BY DEF LoopInv
<1>1. Args /\ ThreadTypes /\ SharedTypes /\ BinTypes /\ BinsNear /\ CurrBin \in Nat /\ NextBin \in Nat
      /\ sharedIndexes \in [{0, 1} -> 0 .. MaxBin] /\ drawn \in 1 .. Len(picks)
  BY <1>0, RunFacts DEF SharedTypes
<1>2. Working(t) /\ Binned(t)
  BY <1>0 DEF Loop
<1>3. node[t] \in Nodes /\ edge[t] \in DOMAIN neigh[node[t]] /\ To(node[t], edge[t]) \in Nodes /\ old <= DistInf
  <2>1. node[t] \in Nodes /\ edge[t] \in DOMAIN neigh[node[t]]
    BY <1>1, <1>2 DEF ThreadTypes, Working
  <2>2. To(node[t], edge[t]) \in Nodes
    BY <1>1, <2>1, GraphFacts
  <2> QED BY <1>0, <2>1, <2>2, RunFacts
<1>4. CurrBin' = CurrBin /\ NextBin' = NextBin /\ NextTail' = NextTail
  BY DEF CurrBin, NextBin, NextTail
<1>5. S' = S /\ neigh' = neigh /\ delta' = delta
  BY SameTrial
<1>6. UNCHANGED <<args, drawn, dist>>
  OBVIOUS
<1>7. /\ pc' \in [Threads -> Steps] /\ node' \in [Threads -> Nodes] /\ edge' \in [Threads -> Nat \ {0}]
      /\ oldDist' \in [Threads -> Nat] /\ newDist' \in [Threads -> Nat]
      /\ \A s \in Threads \ {t} : pc'[s] = pc[s] /\ node'[s] = node[s] /\ edge'[s] = edge[s]
                                  /\ oldDist'[s] = oldDist[s] /\ newDist'[s] = newDist[s]
      /\ Working(t)' /\ pc'[t] # "barrier"
      /\ \A u \in Nodes : \A j \in DOMAIN neigh[u] :
            UnderWay(t, u, j) => \/ UnderWay(t, u, j)'
                                 \/ u = node[t] /\ j = edge[t] /\ (old <= new \/ new # dist[u] + Length(u, j))
  BY <1>1, <1>2, <1>3, <1>4, <1>6, TryOrNextMoves
<1>8. ThreadTypes' /\ BinTypes' /\ BinsNear'
  BY <1>1, <1>6, <1>7, SettledKept DEF ThreadTypes, BinTypes
<1>9. ASSUME NEW v \in Nodes, Waiting(v) PROVE Waiting(v)'
  <2>1. \A b \in Nat : WaitingIn(b, v)' <=> WaitingIn(b, v)
    BY DEF WaitingIn, InBin
  <2>2. WaitingCopied(v)' <=> WaitingCopied(v)
    BY DEF WaitingCopied
  <2>3. WaitingTodo(v)' <=> WaitingTodo(v)
    BY <1>4, <1>5 DEF WaitingTodo, BinOf
  <2>4. \E s \in Threads : pc[s] \notin CopySteps
    BY DEF CopySteps
  <2> QED BY <1>4, <2>1, <2>2, <2>3, <2>4, WaitingKept, <1>9 DEF Waiting
<1>10. ASSUME NEW s \in Threads, NEW u \in Nodes, NEW j \in DOMAIN neigh[u], UnderWay(s, u, j)
       PROVE  Relaxed(u, j) \/ UnderWay(s, u, j)'
  <2>1. CASE s # t
    BY <1>5, <1>7, <1>10, <2>1 DEF UnderWay, Length
  <2>2. CASE s = t /\ ~UnderWay(t, u, j)'
    <3>1. u = node[t] /\ j = edge[t] /\ (old <= new \/ new # dist[u] + Length(u, j))
      BY <1>7, <1>10, <2>2
    <3>2. new = dist[u] + Length(u, j)
      BY <1>10, <2>2, <3>1
    <3> QED BY <3>1, <3>2 DEF Relaxed
  <2> QED BY <2>1, <2>2
<1>11. Binned(t)' /\ Voted(t)'
  BY <1>2, <1>4, <1>5, <1>7 DEF Binned, InBin, BinOf, Voted
<1>12. CurrBin <= NextBin' /\ NextBin' <= NextBin /\ todo' \subseteq todo
  BY <1>0, <1>1, <1>4 DEF Loop
<1>13. UNCHANGED <<args, drawn, vdrawn, phase, dist, frontier, frontierTails, iter>>
       /\ sharedIndexes' \in [{0, 1} -> 0 .. MaxBin]
  BY <1>1
<1>14. \A s \in Threads \ {t} : bins'[s] = bins[s] /\ copied'[s] = copied[s]
  OBVIOUS
<1> QED BY <1>4, <1>7, <1>8, <1>9, <1>10, <1>11, <1>12, <1>13, <1>14, LoopKept

LEMMA RelaxInv ==
    ASSUME LoopInv, NEW t \in Threads, Relax(t)
    PROVE  LoopInv'
<1>0. Types /\ Trials /\ phase = "run" /\ Progress /\ Loop
  BY DEF LoopInv
<1>1. Args /\ ThreadTypes /\ drawn \in 1 .. Len(picks) /\ CurrBin \in Nat
  BY <1>0, RunFacts
<1>2. pc[t] = "relax" /\ Working(t)
      /\ UNCHANGED <<args, trialVars, dist, frontier, sharedVars, todo, bins, copied>>
  BY <1>0 DEF Relax, Loop
<1>3. node[t] \in Nodes /\ edge[t] \in DOMAIN neigh[node[t]] /\ CurrBin <= BinOf(S[node[t]])
  BY <1>1, <1>2 DEF ThreadTypes, Working
<1>4. To(node[t], edge[t]) \in Nodes /\ Length(node[t], edge[t]) \in Nat
  BY <1>1, <1>3, GraphFacts
<1>5. dist[node[t]] \in Nat /\ dist[To(node[t], edge[t])] \in Nat
  BY <1>0, <1>3, <1>4, RunFacts
<1>6. PICK old \in Nat : old = dist[To(node[t], edge[t])]
  BY <1>5
<1>7. PICK new \in Nat : new = dist[node[t]] + Length(node[t], edge[t])
  BY <1>4, <1>5
<1>8. TryOrNext(t, old, new)
  BY <1>6, <1>7 DEF Relax, V, W, To, Length
<1>9. S[To(node[t], edge[t])] <= S[node[t]] + Length(node[t], edge[t]) /\ S[To(node[t], edge[t])] \in Nat /\ S[node[t]] \in Nat
  BY <1>1, <1>3, EdgeBound
<1>10. S[node[t]] <= dist[node[t]]
  BY <1>0, <1>3 DEF Progress
<1>11. S[To(node[t], edge[t])] <= new /\ S[node[t]] <= new
  BY <1>4, <1>5, <1>7, <1>9, <1>10
<1>12. CurrBin <= BinOf(new)
  <2>1. BinOf(S[node[t]]) <= BinOf(new) /\ BinOf(S[node[t]]) \in Nat /\ BinOf(new) \in Nat
    BY <1>1, <1>9, <1>11, BinOrder
  <2> QED BY <1>1, <1>3, <2>1
<1>13. \A j \in DOMAIN neigh[node[t]] : j = edge[t] => new = dist[node[t]] + Length(node[t], j)
  BY <1>7
<1> QED BY <1>2, <1>6, <1>8, <1>11, <1>12, <1>13, TriedInv

LEMMA CasFailsInv ==
    ASSUME LoopInv, NEW t \in Threads, Cas(t), ~Swaps(t)
    PROVE  LoopInv'
<1>0. Types /\ Trials /\ phase = "run" /\ Progress /\ Loop
  BY DEF LoopInv
<1>1. Args /\ ThreadTypes /\ drawn \in 1 .. Len(picks) /\ CurrBin \in Nat
  BY <1>0, RunFacts
<1>2. pc[t] = "cas" /\ Working(t)
      /\ UNCHANGED <<args, trialVars, dist, frontier, sharedVars, todo, bins, copied>>
  BY <1>0 DEF Cas, Loop
<1>3. node[t] \in Nodes /\ edge[t] \in DOMAIN neigh[node[t]] /\ newDist[t] \in Nat
      /\ S[To(node[t], edge[t])] <= newDist[t] /\ CurrBin <= BinOf(newDist[t])
  BY <1>1, <1>2 DEF ThreadTypes, Working
<1>4. dist[To(node[t], edge[t])] \in Nat
  BY <1>0, <1>1, <1>3, RunFacts, GraphFacts
<1>5. PICK old \in Nat : old = dist[To(node[t], edge[t])]
  BY <1>4
<1>6. PICK new \in Nat : new = newDist[t]
  BY <1>3
<1>7. TryOrNext(t, old, new)
  BY <1>5, <1>6 DEF Cas, V, To
<1>8. S[To(node[t], edge[t])] <= new /\ CurrBin <= BinOf(new)
  BY <1>3, <1>6
<1>9. \A j \in DOMAIN neigh[node[t]] :
          UnderWay(t, node[t], j) /\ j = edge[t] => new = dist[node[t]] + Length(node[t], j)
  <2>1. edge[t] \in Nat
    BY <1>1 DEF ThreadTypes
  <2> QED BY <1>2, <1>6, <2>1 DEF UnderWay
<1> QED BY <1>2, <1>5, <1>7, <1>8, <1>9, TriedInv

LEMMA CasSwapsInv ==
    ASSUME LoopInv, NEW t \in Threads, Cas(t), Swaps(t)
    PROVE  LoopInv'
<1> USE DEF trialVars, sharedVars
<1>0. Types /\ Trials /\ phase = "run" /\ Progress /\ Loop
  BY DEF LoopInv
<1>1. Args /\ ThreadTypes /\ SharedTypes /\ BinTypes /\ BinsNear /\ drawn \in 1 .. Len(picks)
      /\ CurrBin \in Nat /\ NextBin \in Nat /\ iter \in {0, 1} /\ todo \subseteq Nat
      /\ DistInf \in Nat /\ MaxBin \in Nat /\ DistInf <= MaxBin
  BY <1>0, RunFacts, ConstantFacts
<1>2. /\ pc[t] = "cas" /\ Working(t) /\ Binned(t)
      /\ UNCHANGED <<args, drawn, vdrawn, phase, frontier, sharedIndexes, frontierTails, iter, todo, copied>>
      /\ dist' = [dist EXCEPT ![V(t)] = newDist[t]] /\ bins' = Pushed(t, DestBin(t), V(t)) /\ NextEdge(t)
      /\ dist[V(t)] = oldDist[t]
  BY <1>0 DEF Cas, Loop, Swaps
<1>3. node[t] \in Nodes /\ edge[t] \in DOMAIN neigh[node[t]] /\ newDist[t] \in Nat /\ oldDist[t] \in Nat
  BY <1>1, <1>2 DEF ThreadTypes, Working
<1>4. PICK v \in Nodes : v = To(node[t], edge[t])
  BY <1>1, <1>3, GraphFacts
<1>5. PICK new \in Nat : new = newDist[t]
  BY <1>3
<1>6. PICK c \in Nat : c = BinOf(new)
  BY <1>1, DueFacts
<1>7. dist' = [dist EXCEPT ![v] = new] /\ bins' = Pushed(t, c, v)
  BY <1>2, <1>4, <1>5, <1>6 DEF V, To, DestBin, BinOf
<1>8. /\ new < dist[v] /\ dist[v] <= DistInf /\ S[v] <= new /\ CurrBin <= c /\ c < MaxBin
      /\ dist[v] \in Nat /\ S[v] \in Nat
  <2>1. new < dist[v] /\ dist[v] <= DistInf /\ S[v] <= new /\ CurrBin <= c
    BY <1>2, <1>4, <1>5, <1>6 DEF Working, V, To
  <2>2. c <= new
    BY <1>1, <1>6, DueFacts
  <2>3. dist[v] \in Nat /\ S[v] \in Nat
    BY <1>0, <1>1, RunFacts, ShortestFacts
  <2> QED BY <1>1, <2>1, <2>2, <2>3
<1>9. dist \in [Nodes -> 0 .. DistInf] /\ \A n \in Nodes : dist[n] \in Nat
  BY <1>0, <1>1, RunFacts DEF SharedTypes
<1>10. /\ dist' \in [Nodes -> 0 .. DistInf] /\ dist'[v] = new
       /\ \A n \in Nodes \ {v} : dist'[n] = dist[n]
       /\ \A n \in Nodes : dist'[n] \in Nat /\ dist'[n] <= dist[n]
  <2>1. new \in 0 .. DistInf
    BY <1>1, <1>8
  <2>2. dist' \in [Nodes -> 0 .. DistInf] /\ dist'[v] = new /\ \A n \in Nodes \ {v} : dist'[n] = dist[n]
    BY <1>7, <1>9, <2>1
  <2> QED BY <1>8, <1>9, <2>2
<1>11. /\ BinTypes' /\ (\A s \in Threads \ {t} : bins'[s] = bins[s]) /\ DOMAIN bins'[t] = DOMAIN bins[t] \cup {c}
       /\ \A s \in Threads : \A u : \A b \in Nat : InBin(s, u, b)' <=> InBin(s, u, b) \/ (s = t /\ b = c /\ u = v)
  BY <1>1, <1>7, PushMoves
<1>12. CurrBin' = CurrBin /\ NextBin' = NextBin /\ NextTail' = NextTail
  BY <1>2 DEF CurrBin, NextBin, NextTail
<1>13. S' = S /\ neigh' = neigh /\ delta' = delta /\ Source' = Source /\ Cells' = Cells
  BY <1>2, SameTrial
<1>14. /\ pc' \in [Threads -> Steps] /\ node' \in [Threads -> Nodes] /\ edge' \in [Threads -> Nat \ {0}]
       /\ oldDist' \in [Threads -> Nat] /\ newDist' \in [Threads -> Nat]
       /\ \A s \in Threads \ {t} : pc'[s] = pc[s] /\ node'[s] = node[s] /\ edge'[s] = edge[s]
                                   /\ oldDist'[s] = oldDist[s] /\ newDist'[s] = newDist[s]
       /\ Working(t)' /\ pc'[t] # "barrier"
       /\ \A u \in Nodes : \A j \in DOMAIN neigh[u] :
             UnderWay(t, u, j) => UnderWay(t, u, j)' \/ (u = node[t] /\ j = edge[t])
  <2>1. UNCHANGED <<args, drawn>> /\ pc[t] \in {"relax", "cas"}
    BY <1>2
  <2> QED BY <1>1, <1>2, <1>12, <2>1, NextEdgeMoves
<1>15. Types'
  <2>1. ThreadTypes'
    BY <1>1, <1>2, <1>14 DEF ThreadTypes
  <2>2. SharedTypes'
    BY <1>1, <1>2, <1>10, <1>13 DEF SharedTypes
  <2>3. BinsNear'
    <3>1. ASSUME NEW s \in Threads, NEW u \in Nodes, NEW b \in Nat, InBin(s, u, b)'
          PROVE  BinOf(dist'[u]) <= b
      <4>1. CASE InBin(s, u, b)
        <5>1. BinOf(dist[u]) <= b
          BY <1>1, <4>1 DEF BinsNear
        <5>2. dist[u] \in Nat /\ dist'[u] \in Nat /\ dist'[u] <= dist[u]
          BY <1>9, <1>10
        <5>3. BinOf(dist'[u]) <= BinOf(dist[u]) /\ BinOf(dist'[u]) \in Nat /\ BinOf(dist[u]) \in Nat
          BY <1>1, <5>2, BinOrder
        <5> QED BY <5>1, <5>3
      <4>2. CASE u = v /\ b = c
        BY <1>6, <1>10, <4>2
      <4> QED BY <1>11, <3>1, <4>1, <4>2
    <3> QED BY <1>13, <3>1 DEF BinsNear, BinOf
  <2>4. UNCHANGED <<args, drawn>> /\ iter' \in {0, 1} /\ todo' \subseteq Nat
    BY <1>1, <1>2
  <2> QED BY <1>0, <1>11, <2>1, <2>2, <2>3, <2>4, TypesKept
<1>16. Trials' /\ phase' = "run"
  <2>1. UNCHANGED <<args, drawn, vdrawn>> /\ phase' = "run"
    BY <1>0, <1>2
  <2> QED BY <1>0, <2>1, TrialsKept
<1>17. Progress'
  <2>1. dist'[Source'] = 0
    <3>1. Source \in Nodes /\ dist[Source] = 0
      BY <1>0, <1>1, ShortestFacts DEF Progress
    <3>2. v # Source
      BY <1>8, <3>1
    <3> QED BY <1>10, <1>13, <3>1, <3>2
  <2>2. ASSUME NEW n \in Nodes PROVE S'[n] <= dist'[n]
    <3>1. S[n] <= dist[n]
      BY <1>0 DEF Progress
    <3> QED BY <1>8, <1>10, <1>13, <3>1
  <2>3. ASSUME NEW u \in Nodes, NEW j \in DOMAIN neigh'[u]
        PROVE  Relaxed(u, j)' \/ Waiting(u)' \/ \E s \in Threads : UnderWay(s, u, j)'
    <3>1. CASE u = v
      <4>1. InBin(t, u, c)' /\ BinOf(dist'[u]) = c
        BY <1>6, <1>10, <1>11, <3>1
      <4>2. WaitingIn(c, u)' /\ c = BinOf(dist[u])'
        BY <1>13, <4>1 DEF WaitingIn, BinOf
      <4> QED BY <4>2 DEF Waiting
    <3>2. CASE u # v
      <4>0. To(u, j) \in Nodes /\ Length(u, j) \in Nat /\ dist'[u] = dist[u] /\ dist[u] \in Nat
            /\ To(u, j)' = To(u, j) /\ Length(u, j)' = Length(u, j) /\ j \in DOMAIN neigh[u]
        BY <1>1, <1>9, <1>10, <1>13, <3>2, GraphFacts DEF To, Length
      <4>1. CASE Relaxed(u, j)
        <5>1. dist'[To(u, j)] <= dist[To(u, j)] /\ dist'[To(u, j)] \in Nat /\ dist[To(u, j)] \in Nat
          BY <1>9, <1>10, <4>0
        <5> QED BY <4>0, <4>1, <5>1 DEF Relaxed
      <4>2. CASE Waiting(u)
        <5>1. \A b \in Nat : WaitingIn(b, u) => WaitingIn(b, u)'
          BY <1>11 DEF WaitingIn
        <5>2. WaitingCopied(u)' <=> WaitingCopied(u)
          BY <1>2 DEF WaitingCopied
        <5>3. WaitingTodo(u)' <=> WaitingTodo(u)
          BY <1>2, <1>12, <1>13, <4>0 DEF WaitingTodo, BinOf
        <5>4. ~WaitingNext(u)
          BY <1>2 DEF WaitingNext, CopySteps
        <5>5. BinOf(dist[u])' = BinOf(dist[u])
          BY <1>13, <4>0 DEF BinOf
        <5> QED BY <4>2, <5>1, <5>2, <5>3, <5>4, <5>5 DEF Waiting
      <4>3. CASE \E s \in Threads : UnderWay(s, u, j)
        <5>1. PICK s \in Threads : UnderWay(s, u, j)
          BY <4>3
        <5>2. CASE s # t
          <6>1. UnderWay(s, u, j)'
            BY <1>14, <4>0, <5>1, <5>2 DEF UnderWay
          <6> QED BY <6>1
        <5>3. CASE s = t /\ UnderWay(t, u, j)'
          BY <5>3
        <5>4. CASE s = t /\ u = node[t] /\ j = edge[t]
          <6>1. new = dist[u] + Length(u, j)
            <7>1. edge[t] \in Nat
              BY <1>1 DEF ThreadTypes
            <7> QED BY <1>2, <1>5, <5>1, <5>4, <7>1 DEF UnderWay
          <6>2. dist'[To(u, j)] = new
            BY <1>4, <1>10, <5>4
          <6> QED BY <4>0, <6>1, <6>2 DEF Relaxed
        <5> QED BY <1>14, <4>0, <5>1, <5>2, <5>3, <5>4
      <4> QED BY <1>0, <4>0, <4>1, <4>2, <4>3 DEF Progress
    <3> QED BY <3>1, <3>2
  <2> QED BY <2>1, <2>2, <2>3 DEF Progress
<1>18. CurrBin <= BinOf(S[v])
  <2>1. BinOf(S[v]) < CurrBin => dist[v] = S[v]
    BY <1>0 DEF Loop, Settled
  <2>2. BinOf(S[v]) \in Nat
    BY <1>1, <1>8, BinOrder
  <2> QED BY <1>1, <1>8, <2>1, <2>2
<1>19. Loop'
  <2>1. Settled(CurrBin)'
    <3>1. Settled(CurrBin)
      BY <1>0 DEF Loop
    <3>2. \A n \in Nodes : BinOf(S[n]) < CurrBin => dist'[n] = S[n]
      <4>1. BinOf(S[v]) \in Nat
        BY <1>1, <1>8, BinOrder
      <4>2. ~(BinOf(S[v]) < CurrBin)
        BY <1>1, <1>18, <4>1
      <4> QED BY <1>10, <3>1, <4>2 DEF Settled
    <3> QED BY <1>12, <1>13, <3>2 DEF Settled, BinOf
  <2>2. \A k \in todo' : k \in Cells' /\ frontier'[k] \in Nodes
    BY <1>0, <1>2, <1>13 DEF Loop
  <2>3. ASSUME NEW s \in Threads PROVE Working(s)' /\ Binned(s)' /\ Voted(s)'
    <3>1. Working(s) /\ Binned(s) /\ Voted(s)
      BY <1>0 DEF Loop
    <3>2. CASE s = t
      <4>1. \A b \in DOMAIN bins'[t] : b \in CurrBin' .. MaxBin - 1
        BY <1>1, <1>2, <1>8, <1>11, <1>12 DEF Binned
      <4>2. \A u \in Nodes : \A b \in Nat : InBin(t, u, b)' /\ b = CurrBin => b <= BinOf(S[u])
        BY <1>2, <1>11, <1>18 DEF Binned
      <4>3. \A u \in ToSet(copied'[t]) : CurrBin <= BinOf(S[u])
        BY <1>2 DEF Binned
      <4>4. Binned(t)'
        BY <1>12, <1>13, <4>1, <4>2, <4>3 DEF Binned, BinOf
      <4> QED BY <1>14, <3>2, <4>4 DEF Voted
    <3>3. CASE s # t
      <4>1. UNCHANGED <<args, drawn>> /\ todo' \subseteq todo /\ NextBin' \in Nat /\ NextBin' <= NextBin /\ copied'[s] = copied[s]
        BY <1>1, <1>2, <1>12
      <4> QED BY <1>1, <1>11, <1>12, <1>14, <3>1, <3>3, <4>1, OtherThread
    <3> QED BY <3>2, <3>3
  <2> QED BY <1>0, <1>12, <2>1, <2>2, <2>3 DEF Loop
<1> QED BY <1>15, <1>16, <1>17, <1>19 DEF LoopInv
-----------------------------------------------------------------------------
(* The barrier: the threads have agreed on the next bin, and nothing before *)
(* it is left to do.                                                        *)
LEMMA BarrierRelaxed ==
    ASSUME LoopInv, todo = {}, \A t \in Threads : pc[t] = "barrier",
           NEW u \in Nodes, BinOf(S[u]) < NextBin, dist[u] = S[u], NEW j \in DOMAIN neigh[u]
    PROVE  Relaxed(u, j)
<1>1. Types /\ Trials /\ phase = "run" /\ Progress /\ Loop /\ Args /\ BinTypes /\ NextBin \in Nat
  BY RunFacts DEF LoopInv
<1>2. \A t \in Threads : copied[t] = <<>> /\ \A b \in DOMAIN bins[t] : b \in Nat /\ NextBin <= b
  BY <1>1 DEF Loop, Voted, BinTypes
<1>3. \A b \in Nat : WaitingIn(b, u) => NextBin <= b
  BY <1>2 DEF WaitingIn, InBin
<1>4. ~WaitingCopied(u)
  <2>1. ToSet(<<>>) = {}
    BY DEF ToSet
  <2> QED BY <1>2, <2>1 DEF WaitingCopied
<1>5. ~WaitingTodo(u) /\ ~WaitingNext(u)
  BY <1>2, ConstantFacts DEF WaitingTodo, WaitingNext, CopySteps
<1>6. \A b \in Nat : b = BinOf(dist[u]) => ~(NextBin <= b)
  BY <1>1
<1>7. ~Waiting(u)
  BY <1>3, <1>4, <1>5, <1>6 DEF Waiting
<1>8. \A t \in Threads : ~UnderWay(t, u, j)
  BY DEF UnderWay
<1> QED BY <1>1, <1>7, <1>8 DEF Progress

LEMMA BarrierSettles ==
    ASSUME LoopInv, todo = {}, \A t \in Threads : pc[t] = "barrier"
    PROVE  Settled(NextBin)
<1>0. Types /\ Trials /\ phase = "run" /\ Progress /\ Loop
  BY DEF LoopInv
<1>1. Args /\ SharedTypes /\ BinTypes /\ drawn \in 1 .. Len(picks) /\ NextBin \in Nat
      /\ dist \in [Nodes -> 0 .. DistInf] /\ \A n \in Nodes : dist[n] \in Nat
  BY <1>0, RunFacts DEF SharedTypes
<1>2. PICK D \in [Nodes -> 0 .. DistInf] : D = S
  BY <1>1, ShortestFacts
<1>3. PICK E \in [Nodes -> 0 .. DistInf] : E = dist
  BY <1>1
<1>4. PICK graph : graph = neigh
  OBVIOUS
<1>5. PICK s \in Nodes : s = Source
  BY <1>1, ShortestFacts
<1>6. PICK c \in Nat : c = NextBin
  BY <1>1
<1>7. IsGraph(graph) /\ ReachedByEdges(D, graph, s) /\ E[s] = 0 /\ \A n \in Nodes : D[n] \in Nat /\ D[n] <= E[n]
  <2>1. IsGraph(graph)
    BY <1>1, <1>4, GraphFacts
  <2>2. ReachedByEdges(D, graph, s)
    BY <1>1, <1>2, <1>4, <1>5, ShortestFacts DEF AreShortest
  <2>3. E[s] = 0 /\ \A n \in Nodes : D[n] <= E[n]
    BY <1>0, <1>2, <1>3, <1>5 DEF Progress
  <2>4. \A n \in Nodes : D[n] \in Nat
    BY <1>1, <1>2, ShortestFacts
  <2> QED BY <2>1, <2>2, <2>3, <2>4
<1>8. PICK near \in SUBSET Nodes : near = {n \in Nodes : BinOf(D[n]) < c}
  OBVIOUS
<1>9. ASSUME NEW u \in Nodes, NEW v \in Nodes, v \in near, D[u] <= D[v] PROVE u \in near
  <2>1. BinOf(D[u]) <= BinOf(D[v]) /\ BinOf(D[u]) \in Nat /\ BinOf(D[v]) \in Nat
    BY <1>1, <1>7, <1>9, BinOrder
  <2> QED BY <1>8, <1>9, <2>1
<1>10. ASSUME NEW e \in EdgesOf(graph), e[1] \in near, E[e[1]] <= D[e[1]] PROVE NoShortCut(E, e)
  <2>1. PICK u \in Nodes : u = e[1]
    BY <1>1, <1>4, GraphFacts
  <2>2. PICK j \in DOMAIN neigh[u] : e[2] = To(u, j) /\ e[3] = Length(u, j)
    BY <1>1, <1>4, <2>1, GraphFacts
  <2>3. dist[u] = S[u]
    BY <1>1, <1>2, <1>3, <1>7, <1>10, <2>1
  <2>4. Relaxed(u, j)
    <3>1. BinOf(S[u]) < NextBin
      BY <1>2, <1>6, <1>8, <1>10, <2>1
    <3> QED BY <2>3, <3>1, BarrierRelaxed
  <2> QED BY <1>3, <2>1, <2>2, <2>4 DEF Relaxed, NoShortCut
<1>11. \A v \in near : E[v] <= D[v]
  BY <1>7, <1>9, <1>10, NoLonger
<1>12. \A v \in near : E[v] = D[v]
  <2>1. \A v \in near : E[v] \in Nat /\ D[v] \in Nat /\ D[v] <= E[v]
    BY <1>1, <1>3, <1>7
  <2> QED BY <1>11, <2>1
<1> QED BY <1>2, <1>3, <1>6, <1>8, <1>12 DEF Settled

LEMMA BarrierInv ==
    ASSUME LoopInv, todo = {}, Barrier
    PROVE  CopyInv'
<1> USE DEF trialVars, sharedVars, localVars
<1>0. Types /\ Trials /\ phase = "run" /\ Progress /\ Loop
  BY DEF LoopInv
<1>1. /\ UNCHANGED <<args, drawn, vdrawn, phase, dist, frontier, sharedIndexes, frontierTails, iter>>
      /\ UNCHANGED <<node, edge, oldDist, newDist, copied, bins, todo>>
      /\ \A t \in Threads : pc[t] = "barrier"
  BY DEF Barrier
<1>2. PICK s \in Threads : pc' = [t \in Threads |-> IF t = s THEN "single" ELSE "copy"]
  BY DEF Barrier
<1>3. Args /\ ThreadTypes /\ SharedTypes /\ BinTypes /\ BinsNear /\ CurrBin \in Nat /\ NextBin \in Nat
      /\ iter \in {0, 1} /\ todo \subseteq Nat
  BY <1>0, RunFacts
<1>4. CurrBin' = CurrBin /\ NextBin' = NextBin /\ NextTail' = NextTail
  BY <1>1 DEF CurrBin, NextBin, NextTail
<1>5. S' = S /\ neigh' = neigh /\ delta' = delta /\ Cells' = Cells /\ UNCHANGED <<args, drawn, dist>>
  BY <1>1, SameTrial
<1>6. \A t \in Threads : copied[t] = <<>> /\ \A b \in DOMAIN bins[t] : NextBin <= b
  BY <1>0, <1>1 DEF Loop, Voted
<1>7. todo = {}
  OBVIOUS
<1>8. ThreadTypes' /\ SharedTypes' /\ BinTypes' /\ BinsNear'
  <2>1. pc' \in [Threads -> Steps]
    BY <1>2 DEF Steps
  <2>2. BinsNear'
    BY <1>1, <1>3, <1>5, SettledKept
  <2> QED BY <1>1, <1>3, <1>5, <2>1, <2>2 DEF ThreadTypes, SharedTypes, BinTypes
<1>9. Types' /\ Trials' /\ phase' = "run"
  <2>1. UNCHANGED <<args, drawn, vdrawn>> /\ phase' = "run" /\ iter' \in {0, 1} /\ todo' \subseteq Nat
    BY <1>0, <1>1, <1>3
  <2> QED BY <1>0, <1>8, <2>1, TypesKept, TrialsKept
<1>10. Progress'
  <2>1. ASSUME NEW u \in Nodes, Waiting(u) PROVE Waiting(u)'
    <3>1. \A b \in Nat : WaitingIn(b, u)' <=> WaitingIn(b, u)
      BY <1>1 DEF WaitingIn, InBin
    <3>2. WaitingCopied(u)' <=> WaitingCopied(u)
      BY <1>1 DEF WaitingCopied
    <3>3. ~WaitingTodo(u)
      BY <1>7 DEF WaitingTodo
    <3>4. \E t \in Threads : pc[t] \notin CopySteps
      BY <1>1, ConstantFacts DEF CopySteps
    <3> QED BY <1>1, <1>4, <2>1, <3>1, <3>2, <3>3, <3>4, WaitingKept DEF Waiting
  <2>2. \A t \in Threads : \A u, j : ~UnderWay(t, u, j)
    BY <1>1 DEF UnderWay
  <2> QED BY <1>0, <1>5, <2>1, <2>2, ProgressKept
<1>11. Copying'
  <2>1. Settled(NextBin)'
    <3>1. Settled(NextBin)
      BY <1>1, BarrierSettles
    <3> QED BY <1>1, <1>4, <1>5, <3>1 DEF Settled, BinOf
  <2>2. ASSUME NEW t \in Threads PROVE Copies(t)'
    <3>1. \A b \in DOMAIN bins[t] : b \in NextBin .. MaxBin - 1
      <4>1. \A b \in DOMAIN bins[t] : b \in CurrBin .. MaxBin - 1 /\ NextBin <= b
        BY <1>0, <1>6 DEF Loop, Binned
      <4> QED BY <1>3, <4>1, ConstantFacts
    <3>2. pc'[t] \in CopySteps /\ pc'[t] # "end"
      BY <1>2 DEF CopySteps
    <3> QED BY <1>1, <1>4, <1>6, <3>1, <3>2 DEF Copies
  <2>3. \E t \in Threads : pc'[t] = "single"
    BY <1>2
  <2>4. \A i \in 0 .. NextTail' - 1 : FALSE
    <3>1. NextTail' = 0
      BY <1>0, <1>4 DEF Loop
    <3> QED BY <3>1
  <2>5. CurrBin' <= NextBin' /\ todo' = {}
    BY <1>0, <1>1, <1>4, <1>7 DEF Loop
  <2> QED BY <2>1, <2>2, <2>3, <2>4, <2>5 DEF Copying
<1> QED BY <1>9, <1>10, <1>11 DEF CopyInv
-----------------------------------------------------------------------------
(* Who waits while the threads copy. *)
LEMMA WaitingCopy ==
    ASSUME CopyInv, NEW u \in Nodes
    PROVE  /\ Waiting(u) => WaitingNext(u) \/ \E b \in Nat : b = BinOf(dist[u]) /\ WaitingIn(b, u)
           /\ \A t \in Threads : \A j : ~UnderWay(t, u, j)
<1>1. Copying
  BY DEF CopyInv
<1>2. ~WaitingTodo(u)
  BY <1>1 DEF Copying, WaitingTodo
<1>3. ~WaitingCopied(u)
  <2>1. ToSet(<<>>) = {}
    BY DEF ToSet
  <2> QED BY <1>1, <2>1 DEF Copying, Copies, WaitingCopied
<1>4. \A t \in Threads : \A j : ~UnderWay(t, u, j)
  BY <1>1 DEF Copying, Copies, CopySteps, UnderWay
<1> QED BY <1>2, <1>3, <1>4 DEF Waiting

LEMMA CopyFacts ==
    ASSUME CopyInv
    PROVE  /\ Types /\ Trials /\ phase = "run" /\ Progress /\ Copying
           /\ Args /\ ThreadTypes /\ SharedTypes /\ BinTypes /\ BinsNear /\ CurrBin \in Nat /\ NextBin \in Nat
           /\ NextTail \in Nat /\ CurrBin \in 0 .. MaxBin /\ NextBin \in 0 .. MaxBin
           /\ iter \in {0, 1} /\ 1 - iter \in {0, 1} /\ 1 - iter # iter /\ todo = {}
           /\ drawn \in 1 .. Len(picks)
BY RunFacts DEF CopyInv, Copying

LEMMA SingleInv ==
    ASSUME CopyInv, NEW t \in Threads, Single(t)
    PROVE  CopyInv'
<1> USE DEF trialVars, sharedVars, localVars
<1>0. /\ Types /\ Trials /\ phase = "run" /\ Progress /\ Copying
      /\ Args /\ ThreadTypes /\ SharedTypes /\ BinTypes /\ BinsNear /\ CurrBin \in Nat /\ NextBin \in Nat
      /\ iter \in {0, 1} /\ 1 - iter \in {0, 1} /\ 1 - iter # iter /\ todo = {} /\ MaxBin \in Nat
  BY CopyFacts, ConstantFacts
<1>1. /\ UNCHANGED <<args, drawn, vdrawn, phase, dist, frontier, iter, node, edge, oldDist, newDist, bins, copied, todo>>
      /\ pc[t] = "single" /\ pc' = [pc EXCEPT ![t] = "copy"]
      /\ sharedIndexes' = [sharedIndexes EXCEPT ![iter] = MaxBin] /\ frontierTails' = [frontierTails EXCEPT ![iter] = 0]
  BY DEF Single, IndexReset, Goto
<1>2. /\ sharedIndexes' \in [{0, 1} -> 0 .. MaxBin] /\ frontierTails' \in [{0, 1} -> Nat]
      /\ CurrBin' = MaxBin /\ frontierTails'[iter'] = 0 /\ NextBin' = NextBin /\ NextTail' = NextTail
  <2>1. sharedIndexes \in [{0, 1} -> 0 .. MaxBin] /\ frontierTails \in [{0, 1} -> Nat] /\ MaxBin \in 0 .. MaxBin
    BY <1>0 DEF SharedTypes
  <2> QED BY <1>0, <1>1, <2>1 DEF CurrBin, NextBin, NextTail
<1>3. S' = S /\ neigh' = neigh /\ delta' = delta /\ Cells' = Cells /\ UNCHANGED <<args, drawn, dist>>
  BY <1>1, SameTrial
<1>4. pc' \in [Threads -> Steps] /\ pc'[t] = "copy" /\ \A s \in Threads \ {t} : pc'[s] = pc[s]
  BY <1>0, <1>1 DEF ThreadTypes, Steps
<1>5. ThreadTypes' /\ SharedTypes' /\ BinTypes' /\ BinsNear'
  <2>1. BinsNear'
    BY <1>0, <1>1, <1>3, SettledKept
  <2> QED BY <1>0, <1>1, <1>2, <1>3, <1>4, <2>1 DEF ThreadTypes, SharedTypes, BinTypes
<1>6. Types' /\ Trials' /\ phase' = "run"
  <2>1. UNCHANGED <<args, drawn, vdrawn>> /\ phase' = "run" /\ iter' \in {0, 1} /\ todo' \subseteq Nat
    BY <1>0, <1>1
  <2> QED BY <1>0, <1>5, <2>1, TypesKept, TrialsKept
<1>7. \A s \in Threads : pc'[s] \in CopySteps
  BY <1>0, <1>4 DEF Copying, Copies, CopySteps
<1>8. Progress'
  <2>1. ASSUME NEW u \in Nodes, Waiting(u) PROVE Waiting(u)'
    <3>1. \A b \in Nat : WaitingIn(b, u)' <=> WaitingIn(b, u)
      BY <1>1 DEF WaitingIn, InBin
    <3>2. WaitingNext(u) => WaitingNext(u)'
      BY <1>1, <1>2, <1>3, <1>7 DEF WaitingNext, BinOf
    <3>3. \A b \in Nat : b = BinOf(dist[u]) => b = BinOf(dist[u])'
      BY <1>3 DEF BinOf
    <3> QED BY <2>1, <3>1, <3>2, <3>3, WaitingCopy DEF Waiting
  <2> QED BY <1>0, <1>3, <2>1, WaitingCopy, ProgressKept
<1>9. Copying'
  <2>1. Settled(NextBin)'
    BY <1>0, <1>1, <1>2, <1>3 DEF Settled, BinOf, Copying
  <2>2. \A s \in Threads : Copies(s)'
    BY <1>0, <1>1, <1>2, <1>4, <1>7 DEF Copying, Copies
  <2>3. \A i \in 0 .. NextTail' - 1 : i \in Cells' /\ frontier'[i] \in Nodes
    BY <1>0, <1>1, <1>2, <1>3 DEF Copying
  <2> QED BY <1>0, <1>1, <1>2, <2>1, <2>2, <2>3 DEF Copying
<1> QED BY <1>6, <1>8, <1>9 DEF CopyInv

(* Share holds the nodes of a bin, copied into the frontier from tail on. *)
With(old, cells, share, tail) ==
    [i \in cells |-> IF i \in tail .. tail + Len(share) - 1 THEN share[i - tail + 1] ELSE old[i]]

LEMMA ShareCopied ==
    ASSUME NEW share \in Seq(Nodes), NEW tail \in Nat, NEW cells, NEW old, NEW new,
           old \in [cells -> Nodes \cup {None}], new = With(old, cells, share, tail)
    PROVE  /\ new \in [cells -> Nodes \cup {None}] /\ tail + Len(share) \in Nat
           /\ (\A i \in 0 .. tail - 1 : i \in cells /\ old[i] \in Nodes) /\ 0 .. tail + Len(share) - 1 \subseteq cells
              => /\ \A i \in 0 .. tail + Len(share) - 1 : new[i] \in Nodes
                 /\ \A i \in 0 .. tail - 1 : i \in 0 .. tail + Len(share) - 1 /\ new[i] = old[i]
                 /\ \A u \in ToSet(share) : \E i \in 0 .. tail + Len(share) - 1 : new[i] = u
<1>1. Len(share) \in Nat /\ DOMAIN share = 1 .. Len(share) /\ \A k \in 1 .. Len(share) : share[k] \in Nodes
  OBVIOUS
<1>2. ASSUME NEW i \in cells, i \in tail .. tail + Len(share) - 1
      PROVE  new[i] = share[i - tail + 1] /\ share[i - tail + 1] \in Nodes
  <2>1. i - tail + 1 \in 1 .. Len(share)
    BY <1>1, <1>2
  <2> QED BY <1>1, <1>2, <2>1 DEF With
<1>3. ASSUME NEW i \in cells, i \notin tail .. tail + Len(share) - 1
      PROVE  new[i] = old[i]
  BY <1>3 DEF With
<1>4. new \in [cells -> Nodes \cup {None}]
  <2>1. \A i \in cells : new[i] \in Nodes \cup {None}
    BY <1>2, <1>3
  <2>2. new = [i \in cells |-> new[i]]
    BY DEF With
  <2> QED BY <2>1, <2>2
<1>5. ASSUME \A i \in 0 .. tail - 1 : i \in cells /\ old[i] \in Nodes, 0 .. tail + Len(share) - 1 \subseteq cells
      PROVE  /\ \A i \in 0 .. tail + Len(share) - 1 : new[i] \in Nodes
             /\ \A i \in 0 .. tail - 1 : i \in 0 .. tail + Len(share) - 1 /\ new[i] = old[i]
             /\ \A u \in ToSet(share) : \E i \in 0 .. tail + Len(share) - 1 : new[i] = u
  <2>1. ASSUME NEW i \in 0 .. tail - 1 PROVE i \in 0 .. tail + Len(share) - 1 /\ new[i] = old[i]
    <3>1. i \in 0 .. tail + Len(share) - 1 /\ i \notin tail .. tail + Len(share) - 1
      BY <1>1
    <3> QED BY <1>3, <1>5, <3>1
  <2>2. ASSUME NEW i \in 0 .. tail + Len(share) - 1 PROVE new[i] \in Nodes
    <3>1. CASE i \in 0 .. tail - 1
      BY <1>5, <2>1, <3>1
    <3>2. CASE i \notin 0 .. tail - 1
      <4>1. i \in tail .. tail + Len(share) - 1 /\ i \in cells
        BY <1>1, <1>5, <3>2
      <4> QED BY <1>2, <4>1
    <3> QED BY <3>1, <3>2
  <2>3. ASSUME NEW u \in ToSet(share) PROVE \E i \in 0 .. tail + Len(share) - 1 : new[i] = u
    <3>1. PICK k \in 1 .. Len(share) : u = share[k]
      BY <1>1 DEF ToSet
    <3>2. PICK i \in Int : i = tail + k - 1
      BY <1>1, <3>1
    <3>3. i \in 0 .. tail + Len(share) - 1 /\ i \in tail .. tail + Len(share) - 1 /\ i - tail + 1 = k
      BY <1>1, <3>1, <3>2
    <3>4. new[i] = u
      BY <1>2, <1>5, <3>1, <3>3
    <3> QED BY <3>3, <3>4
  <2> QED BY <2>1, <2>2, <2>3
<1> QED BY <1>1, <1>4, <1>5

(* A thread copies its share, and the frontier has room for it. *)
LEMMA CopyStepInv ==
    ASSUME CopyInv, NEW t \in Threads, Copy(t)
    PROVE  Types' /\ Trials' /\ (CopyInv' \/ phase' = "undefined")
<1> USE DEF trialVars, sharedVars, localVars
<1>0. /\ Types /\ Trials /\ phase = "run" /\ Progress /\ Copying
      /\ Args /\ ThreadTypes /\ SharedTypes /\ BinTypes /\ BinsNear /\ CurrBin \in Nat /\ NextBin \in Nat
      /\ NextTail \in Nat /\ iter \in {0, 1} /\ 1 - iter \in {0, 1} /\ 1 - iter # iter /\ todo = {} /\ MaxBin \in Nat
  BY CopyFacts, ConstantFacts
<1>1. /\ UNCHANGED <<args, drawn, vdrawn, dist, sharedIndexes, iter, node, edge, oldDist, newDist, copied, todo>>
      /\ pc[t] = "copy" /\ pc' = [pc EXCEPT ![t] = "end"]
  BY DEF Copy, Goto
<1>2. PICK c \in Nat : c = NextBin
  BY <1>0
<1>3. PICK tail \in Nat : tail = NextTail
  BY <1>0
<1>4. Bin(t, c) \in Seq(Nodes) /\ \A u : InBin(t, u, c) <=> u \in ToSet(Bin(t, c))
  BY <1>0, BinFacts
<1>5. PICK share \in Seq(Nodes) : share = Bin(t, c)
  BY <1>4
<1>6. S' = S /\ neigh' = neigh /\ delta' = delta /\ Cells' = Cells /\ UNCHANGED <<args, drawn, dist>>
  BY <1>1, SameTrial
<1>7. pc' \in [Threads -> Steps] /\ pc'[t] = "end" /\ \A s \in Threads \ {t} : pc'[s] = pc[s]
  BY <1>0, <1>1 DEF ThreadTypes, Steps
<1>8. ThreadTypes' /\ \A s \in Threads : pc'[s] \in CopySteps
  BY <1>0, <1>1, <1>7 DEF ThreadTypes, Copying, Copies, CopySteps
<1>9. CurrBin' = CurrBin /\ NextBin' = NextBin /\ iter' \in {0, 1} /\ todo' = {}
  BY <1>0, <1>1 DEF CurrBin, NextBin
<1>10. Settled(NextBin)'
  BY <1>0, <1>1, <1>6, <1>9 DEF Settled, BinOf, Copying
<1>11. (\E s \in Threads : pc[s] = "single") => \E s \in Threads : pc'[s] = "single"
  BY <1>1, <1>7
<1>12. CASE c = MaxBin
  <2>1. UNCHANGED <<phase, frontier, frontierTails, bins>>
    BY <1>2, <1>12 DEF Copy
  <2>2. NextTail' = NextTail
    BY <1>1, <2>1 DEF NextTail
  <2>3. SharedTypes' /\ BinTypes' /\ BinsNear'
    <3>1. BinsNear'
      BY <1>0, <1>6, <2>1, SettledKept
    <3> QED BY <1>0, <1>1, <1>6, <2>1, <3>1 DEF SharedTypes, BinTypes
  <2>4. Types' /\ Trials' /\ phase' = "run"
    <3>1. UNCHANGED <<args, drawn, vdrawn>> /\ phase' = "run" /\ iter' \in {0, 1} /\ todo' \subseteq Nat
      BY <1>0, <1>1, <1>9, <2>1
    <3> QED BY <1>0, <1>8, <2>3, <3>1, TypesKept, TrialsKept
  <2>5. Progress'
    <3>1. ASSUME NEW u \in Nodes, Waiting(u) PROVE Waiting(u)'
      <4>1. \A b \in Nat : WaitingIn(b, u)' <=> WaitingIn(b, u)
        BY <2>1 DEF WaitingIn, InBin
      <4>2. WaitingNext(u) => WaitingNext(u)'
        BY <1>1, <1>6, <1>8, <1>9, <2>1, <2>2 DEF WaitingNext, BinOf
      <4>3. \A b \in Nat : b = BinOf(dist[u]) => b = BinOf(dist[u])'
        BY <1>6 DEF BinOf
      <4> QED BY <3>1, <4>1, <4>2, <4>3, WaitingCopy DEF Waiting
    <3> QED BY <1>0, <1>6, <3>1, WaitingCopy, ProgressKept
  <2>6. ASSUME NEW s \in Threads PROVE Copies(s)'
    <3>1. Copies(s)
      BY <1>0 DEF Copying
    <3>2. \A b \in DOMAIN bins[s] : FALSE
      BY <1>0, <1>2, <1>12, <3>1 DEF Copies
    <3> QED BY <1>1, <1>8, <2>1, <3>1, <3>2 DEF Copies
  <2>7. \A i \in 0 .. NextTail' - 1 : i \in Cells' /\ frontier'[i] \in Nodes
    BY <1>0, <1>6, <2>1, <2>2 DEF Copying
  <2>8. Copying'
    BY <1>0, <1>1, <1>9, <1>10, <1>11, <2>1, <2>6, <2>7 DEF Copying
  <2> QED BY <2>4, <2>5, <2>8 DEF CopyInv
<1>13. CASE c # MaxBin
  <2>1. /\ frontierTails' = [frontierTails EXCEPT ![1 - iter] = @ + Len(share)]
        /\ phase' = IF tail + Len(share) > NumEdgesDirected THEN "undefined" ELSE phase
        /\ frontier' = [i \in Cells |-> IF i \in tail .. tail + Len(share) - 1 THEN share[i - tail + 1] ELSE frontier[i]]
        /\ bins' = Emptied(t, c)
    BY <1>2, <1>3, <1>5, <1>13 DEF Copy
  <2>2. PICK total \in Nat : total = tail + Len(share)
    BY <1>5
  <2>3. frontierTails' \in [{0, 1} -> Nat] /\ NextTail' = total /\ frontierTails'[iter'] = frontierTails[iter]
    <3>1. frontierTails \in [{0, 1} -> Nat] /\ frontierTails[1 - iter] = tail
      BY <1>0, <1>3 DEF SharedTypes, NextTail
    <3> QED BY <1>0, <1>1, <2>1, <2>2, <3>1 DEF NextTail
  <2>4. PICK cells : cells = Cells
    OBVIOUS
  <2>5. PICK old \in [cells -> Nodes \cup {None}] : old = frontier
    BY <1>0, <2>4 DEF SharedTypes
  <2>6. PICK new : new = frontier'
    OBVIOUS
  <2>7. new = With(old, cells, share, tail)
    BY <2>1, <2>4, <2>5, <2>6 DEF With
  <2>8. /\ new \in [cells -> Nodes \cup {None}]
        /\ (\A i \in 0 .. tail - 1 : i \in cells /\ old[i] \in Nodes) /\ 0 .. total - 1 \subseteq cells
           => /\ \A i \in 0 .. total - 1 : new[i] \in Nodes
              /\ \A i \in 0 .. tail - 1 : i \in 0 .. total - 1 /\ new[i] = old[i]
              /\ \A u \in ToSet(share) : \E i \in 0 .. total - 1 : new[i] = u
    BY <2>2, <2>7, ShareCopied
  <2>9. /\ BinTypes' /\ (\A s \in Threads \ {t} : bins'[s] = bins[s])
        /\ DOMAIN bins'[t] = DOMAIN bins[t] \ {c}
        /\ \A s \in Threads : \A u : \A b \in Nat : InBin(s, u, b)' <=> InBin(s, u, b) /\ ~(s = t /\ b = c)
    BY <1>0, <2>1, EmptyMoves
  <2>10. SharedTypes' /\ BinsNear'
    <3>1. BinsNear'
      BY <1>0, <1>6, <2>9 DEF BinsNear, BinOf
    <3> QED BY <1>0, <1>1, <1>6, <2>3, <2>4, <2>6, <2>8, <3>1 DEF SharedTypes
  <2>11. Types' /\ Trials'
    <3>1. UNCHANGED <<args, drawn, vdrawn>> /\ phase' \in {"run", "undefined"} /\ iter' \in {0, 1} /\ todo' \subseteq Nat
      BY <1>0, <1>1, <1>9, <2>1
    <3> QED BY <1>0, <1>8, <2>9, <2>10, <3>1, TypesKept, TrialsKept
  <2>12. CASE phase' # "undefined"
    <3>1. total <= NumEdgesDirected /\ phase' = "run"
      BY <1>0, <2>1, <2>2, <2>12, GraphFacts
    <3>2. 0 .. total - 1 \subseteq cells
      BY <1>0, <2>4, <3>1, GraphFacts DEF Cells
    <3>3. \A i \in 0 .. tail - 1 : i \in cells /\ old[i] \in Nodes
      BY <1>0, <1>3, <2>4, <2>5 DEF Copying
    <3>4. /\ \A i \in 0 .. total - 1 : i \in cells /\ new[i] \in Nodes
          /\ \A i \in 0 .. tail - 1 : i \in 0 .. total - 1 /\ new[i] = old[i]
          /\ \A u \in ToSet(share) : \E i \in 0 .. total - 1 : new[i] = u
      BY <2>8, <3>2, <3>3
    <3>5. Progress'
      <4>1. ASSUME NEW u \in Nodes, Waiting(u) PROVE Waiting(u)'
        <5>0. \A b \in Nat : b = BinOf(dist[u]) <=> b = BinOf(dist[u])'
          BY <1>6 DEF BinOf
        <5>1. CASE WaitingNext(u)
          <6>1. PICK i \in 0 .. tail - 1 : frontier[i] = u
            BY <1>3, <5>1 DEF WaitingNext
          <6>2. i \in 0 .. NextTail' - 1 /\ frontier'[i] = u
            BY <2>3, <2>5, <2>6, <3>4, <6>1
          <6>3. WaitingNext(u)'
            BY <1>6, <1>8, <1>9, <5>1, <6>2 DEF WaitingNext, BinOf
          <6> QED BY <6>3 DEF Waiting
        <5>2. ASSUME NEW b \in Nat, b = BinOf(dist[u]), NEW s \in Threads, InBin(s, u, b) PROVE Waiting(u)'
          <6>1. CASE s = t /\ b = c
            <7>1. u \in ToSet(share)
              BY <1>4, <1>5, <5>2, <6>1
            <7>2. \E i \in 0 .. NextTail' - 1 : frontier'[i] = u
              BY <2>3, <2>6, <3>4, <7>1
            <7>3. NextBin' <= BinOf(dist[u])'
              BY <1>2, <1>6, <1>9, <5>2, <6>1 DEF BinOf
            <7>4. WaitingNext(u)'
              BY <1>8, <7>2, <7>3 DEF WaitingNext
            <7> QED BY <7>4 DEF Waiting
          <6>2. CASE ~(s = t /\ b = c)
            <7>1. WaitingIn(b, u)'
              BY <2>9, <5>2, <6>2 DEF WaitingIn
            <7> QED BY <5>0, <5>2, <7>1 DEF Waiting
          <6> QED BY <6>1, <6>2
        <5> QED BY <4>1, <5>1, <5>2, WaitingCopy DEF WaitingIn
      <4> QED BY <1>0, <1>6, <4>1, WaitingCopy, ProgressKept
    <3>6. ASSUME NEW s \in Threads PROVE Copies(s)'
      <4>1. Copies(s)
        BY <1>0 DEF Copying
      <4>2. CASE s # t
        BY <1>1, <1>7, <1>9, <2>9, <4>1, <4>2 DEF Copies
      <4>3. CASE s = t
        BY <1>1, <1>2, <1>8, <1>9, <2>9, <4>1, <4>3 DEF Copies
      <4> QED BY <4>2, <4>3
    <3>7. \A i \in 0 .. NextTail' - 1 : i \in Cells' /\ frontier'[i] \in Nodes
      BY <1>6, <2>3, <2>4, <2>6, <3>4
    <3>8. Copying'
      BY <1>0, <1>1, <1>9, <1>10, <1>11, <2>3, <3>6, <3>7 DEF Copying
    <3> QED BY <2>11, <3>1, <3>5, <3>8 DEF CopyInv
  <2> QED BY <2>11, <2>12
<1> QED BY <1>12, <1>13

LEMMA NextIterationInv ==
    ASSUME CopyInv, NextIteration
    PROVE  Types' /\ Trials' /\ (LoopInv' \/ (phase' = "verify" /\ dist' = S' /\ Quiet'))
<1> USE DEF trialVars, sharedVars, localVars
<1>0. /\ Types /\ Trials /\ phase = "run" /\ Progress /\ Copying
      /\ Args /\ ThreadTypes /\ SharedTypes /\ BinTypes /\ BinsNear /\ CurrBin \in Nat /\ NextBin \in 0 .. MaxBin
      /\ NextTail \in Nat /\ iter \in {0, 1} /\ 1 - iter \in {0, 1} /\ 1 - iter # iter /\ todo = {}
      /\ MaxBin \in Nat \ {0} /\ drawn \in 1 .. Len(picks)
  BY CopyFacts, ConstantFacts
<1>1. /\ UNCHANGED <<args, drawn, vdrawn, dist, frontier, sharedIndexes, frontierTails, node, edge, oldDist, newDist>>
      /\ UNCHANGED <<bins, copied>> /\ iter' = 1 - iter /\ pc' = [t \in Threads |-> "idle"]
      /\ \A t \in Threads : pc[t] = "end"
      /\ IF NextBin = MaxBin THEN phase' = "verify" /\ todo' = {} ELSE phase' = phase /\ todo' = 0 .. NextTail - 1
  BY DEF NextIteration, Fresh
<1>2. CurrBin = MaxBin /\ frontierTails[iter] = 0
  BY <1>0, <1>1 DEF Copying
<1>3. CurrBin' = NextBin /\ NextBin' = MaxBin /\ NextTail' = 0 /\ iter' \in {0, 1}
  <2>1. 1 - (1 - iter) = iter
    BY <1>0
  <2> QED BY <1>0, <1>1, <1>2, <2>1 DEF CurrBin, NextBin, NextTail
<1>4. S' = S /\ neigh' = neigh /\ delta' = delta /\ Cells' = Cells /\ UNCHANGED <<args, drawn, dist>>
  BY <1>1, SameTrial
<1>5. ThreadTypes' /\ SharedTypes' /\ BinTypes' /\ BinsNear'
  <2>1. pc' \in [Threads -> Steps]
    BY <1>1 DEF Steps
  <2>2. BinsNear'
    BY <1>0, <1>1, <1>4, SettledKept
  <2> QED BY <1>0, <1>1, <1>4, <2>1, <2>2 DEF ThreadTypes, SharedTypes, BinTypes
<1>6. Types'
  <2>1. UNCHANGED <<args, drawn>> /\ todo' \subseteq Nat
    BY <1>0, <1>1
  <2> QED BY <1>0, <1>3, <1>5, <2>1, TypesKept
<1>7. ASSUME NEW t \in Threads
      PROVE  copied[t] = <<>> /\ \A b \in DOMAIN bins[t] : b \in NextBin .. MaxBin - 1 /\ b # NextBin
  BY <1>0, <1>1 DEF Copying, Copies
<1>8. CASE NextBin = MaxBin
  <2>1. Trials' /\ phase' = "verify"
    BY <1>0, <1>1, <1>4, <1>8, SameTrial DEF Trials
  <2>2. Quiet'
    BY <1>1, <1>7, <1>8 DEF Quiet
  <2>3. ASSUME NEW n \in Nodes PROVE dist[n] = S[n]
    <3>1. S[n] \in Nat /\ S[n] <= DistInf /\ dist[n] \in Nat /\ dist[n] <= DistInf /\ S[n] <= dist[n]
      BY <1>0, ShortestFacts, RunFacts DEF Progress
    <3>2. BinOf(S[n]) \in 0 .. S[n]
      BY <1>0, <3>1, DueFacts
    <3>3. BinOf(S[n]) < MaxBin => dist[n] = S[n]
      BY <1>0, <1>8 DEF Copying, Settled
    <3> QED BY <3>1, <3>2, <3>3, ConstantFacts
  <2>4. dist' = S'
    <3>1. dist \in [Nodes -> 0 .. DistInf] /\ S \in [Nodes -> 0 .. DistInf]
      BY <1>0, ShortestFacts DEF SharedTypes
    <3> QED BY <1>1, <1>4, <2>3, <3>1
  <2> QED BY <1>6, <2>1, <2>2, <2>4
<1>9. CASE NextBin # MaxBin
  <2>1. phase' = "run" /\ todo' = 0 .. NextTail - 1
    BY <1>0, <1>1, <1>9
  <2>2. Trials'
    <3>1. UNCHANGED <<args, drawn, vdrawn>>
      BY <1>1
    <3> QED BY <1>0, <2>1, <3>1, TrialsKept
  <2>3. Progress'
    <3>1. ASSUME NEW u \in Nodes, Waiting(u) PROVE Waiting(u)'
      <4>1. \A b \in Nat : WaitingIn(b, u)' <=> WaitingIn(b, u)
        BY <1>1 DEF WaitingIn, InBin
      <4>2. WaitingNext(u) => WaitingTodo(u)'
        BY <1>1, <1>3, <1>4, <2>1 DEF WaitingNext, WaitingTodo, BinOf
      <4>3. \A b \in Nat : b = BinOf(dist[u]) => b = BinOf(dist[u])'
        BY <1>4 DEF BinOf
      <4> QED BY <3>1, <4>1, <4>2, <4>3, WaitingCopy DEF Waiting
    <3> QED BY <1>0, <1>4, <3>1, WaitingCopy, ProgressKept
  <2>4. Settled(CurrBin)'
    BY <1>0, <1>1, <1>3, <1>4 DEF Settled, BinOf, Copying
  <2>5. \A i \in todo' : i \in Cells' /\ frontier'[i] \in Nodes
    BY <1>0, <1>1, <1>4, <2>1 DEF Copying
  <2>6. ASSUME NEW t \in Threads PROVE Working(t)' /\ Binned(t)' /\ Voted(t)'
    <3>1. pc'[t] = "idle" /\ copied'[t] = <<>>
      BY <1>1, <1>7
    <3>2. ToSet(<<>>) = {}
      BY DEF ToSet
    <3>3. \A b \in DOMAIN bins'[t] : b \in CurrBin' .. MaxBin - 1 /\ b # CurrBin'
      BY <1>1, <1>3, <1>7
    <3> QED BY <3>1, <3>2, <3>3 DEF Working, LoopSteps, Binned, InBin, Voted
  <2>7. CurrBin' < MaxBin /\ CurrBin' <= NextBin'
    BY <1>0, <1>3, <1>9
  <2>8. Loop'
    BY <1>3, <2>4, <2>5, <2>6, <2>7 DEF Loop
  <2> QED BY <1>6, <2>1, <2>2, <2>3, <2>8 DEF LoopInv
<1> QED BY <1>8, <1>9
-----------------------------------------------------------------------------
(* The trials. *)
LEMMA InitInv == Init => IInv
<1> SUFFICES ASSUME Init PROVE IInv
  OBVIOUS
<1>1. Args
  BY DEF Init, Args
<1>2. picks \in Seq(Nodes) /\ picks # <<>> /\ 0 \in Nodes
  BY <1>1, GraphFacts, ConstantFacts DEF Nodes
<1>3. 0 < Len(picks) /\ Len(picks) \in Nat
  BY <1>2
<1>4. ThreadTypes
  BY <1>2 DEF Init, ThreadTypes, Fresh, Steps
<1>5. Types /\ Trials /\ Quiet /\ phase = "trial"
  BY <1>1, <1>3, <1>4 DEF Init, Types, Trials, Quiet, Fresh
<1> QED BY <1>5 DEF IInv

LEMMA VerifyInv ==
    ASSUME IInv, Verify
    PROVE  IInv'
<1> USE DEF trialVars, sharedVars, localVars
<1>1. /\ UNCHANGED <<args, drawn, dist, frontier, sharedIndexes, frontierTails, iter, todo, pc>>
      /\ UNCHANGED <<node, edge, oldDist, newDist, bins, copied>>
      /\ phase = "verify" /\ vdrawn' = vdrawn + 1
      /\ phase' = IF drawn < Len(picks) THEN "trial" ELSE "done"
  BY DEF Verify
<1>2. S' = S /\ neigh' = neigh /\ delta' = delta /\ picks' = picks /\ Cells' = Cells /\ (Args' <=> Args)
  BY <1>1, SameTrial
<1>3. Types /\ Trials /\ Quiet
  BY <1>1 DEF IInv
<1>4. Types'
  <2>1. drawn > 0 /\ BinsNear => BinsNear'
    BY <1>1, <1>2 DEF BinsNear, BinOf, InBin
  <2> QED BY <1>1, <1>2, <1>3, <2>1 DEF Types, ThreadTypes, SharedTypes, BinTypes
<1>5. Trials'
  <2>1. Len(picks) \in Nat
    BY <1>3, GraphFacts DEF Types
  <2> QED BY <1>1, <1>2, <1>3, <2>1 DEF Trials
<1>6. Quiet' /\ phase' \in {"trial", "done"}
  BY <1>1, <1>3 DEF Quiet
<1> QED BY <1>4, <1>5, <1>6 DEF IInv

LEMMA StartTrialInv ==
    ASSUME IInv, StartTrial
    PROVE  IInv'
<1> USE DEF trialVars, sharedVars, localVars
<1>1. /\ UNCHANGED <<args, vdrawn, pc, node, edge, oldDist, newDist, copied>>
      /\ phase = "trial" /\ phase' = IF Cells = {} THEN "undefined" ELSE "run"
      /\ drawn' = drawn + 1
      /\ dist' = [n \in Nodes |-> IF n = picks[drawn'] THEN 0 ELSE DistInf]
      /\ frontier' = [i \in Cells |-> IF i = 0 THEN picks[drawn'] ELSE None]
      /\ sharedIndexes' = [i \in {0, 1} |-> IF i = 0 THEN 0 ELSE MaxBin]
      /\ frontierTails' = [i \in {0, 1} |-> IF i = 0 THEN 1 ELSE 0]
      /\ iter' = 0 /\ todo' = {0} /\ bins' = [t \in Threads |-> <<>>]
  BY DEF StartTrial, Fresh
<1>2. /\ neigh' = neigh /\ delta' = delta /\ picks' = picks /\ Cells' = Cells /\ (Args' <=> Args)
  BY <1>1 DEF args, Cells, NumEdgesDirected, Args
<1>3. Types /\ Trials /\ Quiet /\ Args /\ ThreadTypes
  BY <1>1 DEF IInv, Types
<1>4. /\ IsGraph(neigh) /\ picks \in Seq(Nodes) /\ NumEdgesDirected \in Int /\ DistInf \in Nat \ {0}
      /\ MaxBin \in Nat \ {0} /\ Len(picks) \in Nat
  BY <1>3, GraphFacts, ConstantFacts
<1>5. drawn \in Nat /\ drawn < Len(picks) /\ vdrawn = drawn /\ drawn' \in 1 .. Len(picks)
  BY <1>1, <1>3, <1>4 DEF Trials
<1>6. PICK s \in Nodes : s = picks[drawn']
  BY <1>4, <1>5
<1>7. Source' = s /\ S' = ShortestWithin(neigh, s)
  BY <1>2, <1>3, <1>6 DEF Source, S, Shortest, ShortestOf, Args
<1>8. S' \in [Nodes -> 0 .. DistInf] /\ S'[s] = 0
  BY <1>4, <1>7, ShortestWithinCorrect DEF AreShortest
<1>9. /\ dist' \in [Nodes -> 0 .. DistInf] /\ dist'[s] = 0 /\ \A n \in Nodes \ {s} : dist'[n] = DistInf
  BY <1>1, <1>4, <1>6
<1>10. CurrBin' = 0 /\ NextBin' = MaxBin /\ NextTail' = 0
  BY <1>1 DEF CurrBin, NextBin, NextTail
<1>11. \A t \in Threads : DOMAIN bins'[t] = {} /\ pc'[t] = "idle" /\ copied'[t] = <<>>
  BY <1>1, <1>3 DEF Quiet
<1>12. Types'
  <2>1. SharedTypes'
    <3>1. frontier' \in [Cells -> Nodes \cup {None}]
      BY <1>1, <1>6
    <3> QED BY <1>1, <1>2, <1>4, <1>9, <3>1 DEF SharedTypes
  <2>2. BinTypes' /\ BinsNear'
    BY <1>1, <1>11 DEF BinTypes, BinsNear, InBin
  <2>3. ThreadTypes'
    BY <1>1, <1>3 DEF ThreadTypes
  <2> QED BY <1>1, <1>2, <1>3, <2>1, <2>2, <2>3 DEF Types
<1>13. Trials'
  BY <1>1, <1>2, <1>3, <1>4, <1>5 DEF Trials
<1>14. CASE Cells = {}
  <2>1. phase' = "undefined"
    BY <1>1, <1>14
  <2> QED BY <1>12, <1>13, <2>1 DEF IInv
<1>15. CASE Cells # {}
  <2>1. phase' = "run" /\ 0 \in Cells
    <3>1. PICK i : i \in Cells
      BY <1>15
    <3>2. 0 \in Cells
      BY <1>4, <3>1 DEF Cells
    <3> QED BY <1>1, <1>15, <3>2
  <2>2. \A d \in Nat : BinOf(d)' = BinOf(d) /\ BinOf(d) \in Nat
    BY <1>2, <1>3, BinOrder DEF BinOf
  <2>3. Progress'
    <3>1. \A n \in Nodes : S'[n] <= dist'[n]
      <4>1. ASSUME NEW n \in Nodes, n # s PROVE S'[n] <= dist'[n]
        <5>1. S'[n] \in 0 .. DistInf /\ dist'[n] = DistInf
          BY <1>8, <1>9, <4>1
        <5> QED BY <1>4, <5>1
      <4>2. S'[s] <= dist'[s]
        BY <1>8, <1>9
      <4> QED BY <4>1, <4>2
    <3>2. ASSUME NEW u \in Nodes, NEW j \in DOMAIN neigh'[u] PROVE Relaxed(u, j)' \/ Waiting(u)'
      <4>1. CASE u = s
        <5>1. frontier'[0] = u
          BY <1>1, <1>6, <2>1, <4>1
        <5>2. BinOf(0)' \in Nat
          BY <2>2
        <5>3. CurrBin' <= BinOf(dist[u])'
          BY <1>9, <1>10, <4>1, <5>2 DEF BinOf
        <5>4. WaitingTodo(u)'
          BY <1>1, <5>1, <5>3 DEF WaitingTodo
        <5> QED BY <5>4 DEF Waiting
      <4>2. CASE u # s
        <5>1. To(u, j) \in Nodes /\ Length(u, j) \in Nat
          BY <1>2, <1>3, <3>2, GraphFacts
        <5>2. dist'[u] = DistInf /\ dist'[To(u, j)] \in 0 .. DistInf
          BY <1>9, <4>2, <5>1
        <5>3. dist'[To(u, j)] <= dist'[u] + Length(u, j)
          BY <1>4, <5>1, <5>2
        <5> QED BY <1>2, <5>3 DEF Relaxed, To, Length
      <4> QED BY <4>1, <4>2
    <3> QED BY <1>7, <1>9, <3>1, <3>2 DEF Progress
  <2>4. Settled(CurrBin)'
    <3>1. ASSUME NEW n \in Nodes PROVE BinOf(S[n])' \in Nat
      <4>1. PICK d \in Nat : d = S'[n]
        BY <1>8
      <4> QED BY <1>2, <2>2, <4>1 DEF BinOf
    <3>2. \A n \in Nodes : ~(BinOf(S[n])' < 0)
      BY <3>1
    <3> QED BY <1>10, <3>2 DEF Settled
  <2>5. \A i \in todo' : i \in Cells' /\ frontier'[i] \in Nodes
    BY <1>1, <1>2, <1>6, <2>1
  <2>6. ASSUME NEW t \in Threads PROVE Working(t)' /\ Binned(t)' /\ Voted(t)'
    <3>1. ToSet(<<>>) = {}
      BY DEF ToSet
    <3> QED BY <1>11, <3>1 DEF Working, LoopSteps, Binned, InBin, Voted
  <2>7. Loop'
    BY <1>4, <1>10, <2>4, <2>5, <2>6 DEF Loop
  <2> QED BY <1>12, <1>13, <2>1, <2>3, <2>7 DEF IInv
<1> QED BY <1>14, <1>15

LEMMA StutterInv ==
    ASSUME IInv, UNCHANGED vars
    PROVE  IInv'
<1> USE DEF vars, trialVars, sharedVars, localVars
<1>1. /\ UNCHANGED <<args, drawn, vdrawn, phase, dist, frontier, sharedIndexes, frontierTails, iter, todo>>
      /\ UNCHANGED <<pc, node, edge, oldDist, newDist, bins, copied>>
  OBVIOUS
<1>2. /\ S' = S /\ neigh' = neigh /\ delta' = delta /\ picks' = picks /\ Cells' = Cells /\ (Args' <=> Args)
      /\ Source' = Source /\ CurrBin' = CurrBin /\ NextBin' = NextBin /\ NextTail' = NextTail
  BY <1>1, SameTrial DEF CurrBin, NextBin, NextTail
<1>3. Types => Types'
  <2>1. BinsNear => BinsNear'
    BY <1>1, <1>2 DEF BinsNear, BinOf, InBin
  <2> QED BY <1>1, <1>2, <2>1 DEF Types, ThreadTypes, SharedTypes, BinTypes
<1>4. Trials => Trials'
  BY <1>1, <1>2 DEF Trials
<1>5. Progress => Progress'
  <2>1. ASSUME NEW u \in Nodes PROVE Waiting(u) => Waiting(u)'
    BY <1>1, <1>2 DEF Waiting, WaitingIn, WaitingCopied, WaitingTodo, WaitingNext, InBin, BinOf
  <2>2. ASSUME NEW t \in Threads, NEW u, NEW j PROVE UnderWay(t, u, j) => UnderWay(t, u, j)'
    BY <1>1, <1>2 DEF UnderWay, Length
  <2>3. \A u \in Nodes : \A j : Relaxed(u, j) => Relaxed(u, j)'
    BY <1>1, <1>2 DEF Relaxed, To, Length
  <2> QED BY <1>1, <1>2, <2>1, <2>2, <2>3 DEF Progress
<1>6. Loop => Loop'
  <2>1. Settled(CurrBin) => Settled(CurrBin)'
    BY <1>1, <1>2 DEF Settled, BinOf
  <2>2. ASSUME NEW t \in Threads PROVE Working(t) /\ Binned(t) /\ Voted(t) => Working(t)' /\ Binned(t)' /\ Voted(t)'
    BY <1>1, <1>2 DEF Working, Binned, Voted, BinOf, To, InBin
  <2> QED BY <1>1, <1>2, <2>1, <2>2 DEF Loop
<1>7. Copying => Copying'
  <2>1. Settled(NextBin) => Settled(NextBin)'
    BY <1>1, <1>2 DEF Settled, BinOf
  <2>2. ASSUME NEW t \in Threads PROVE Copies(t) => Copies(t)'
    BY <1>1, <1>2 DEF Copies
  <2> QED BY <1>1, <1>2, <2>1, <2>2 DEF Copying
<1>8. Quiet => Quiet'
  BY <1>1 DEF Quiet
<1> QED BY <1>1, <1>2, <1>3, <1>4, <1>5, <1>6, <1>7, <1>8 DEF IInv


(* Nobody finds the loop empty by itself while cells of others' chunks are  *)
(* left, and at the barrier none is.                                        *)
LEMMA LeftKept ==
    ASSUME IInv, LeftInv, [Next]_vars
    PROVE  LeftInv'
<1> USE DEF trialVars, sharedVars, localVars
<1>1. pc \in [Threads -> Steps] /\ Threads # {}
  BY ConstantFacts DEF IInv, Types, ThreadTypes, LoopSteps
<1>2. CASE UNCHANGED vars
  BY <1>2 DEF LeftInv, vars
<1>3. CASE StartTrial
  <2>1. \A t \in Threads : pc'[t] = "idle"
    BY <1>3 DEF StartTrial, IInv, Quiet
  <2> QED BY <1>1, <1>3, <2>1 DEF StartTrial, LeftInv, LoopSteps
<1>4. CASE Verify
  BY <1>4 DEF Verify, LeftInv
<1>5. CASE Barrier
  <2>1. UNCHANGED <<left, todo>> /\ \A t \in Threads : pc[t] = "barrier"
    BY <1>5 DEF Barrier
  <2> QED BY <2>1 DEF LeftInv
<1>6. CASE NextIteration
  BY <1>1, <1>6 DEF NextIteration, LeftInv, Fresh, LoopSteps
<1>7. ASSUME NEW t \in Threads, ThreadStep(t) PROVE LeftInv'
  <2>1. ASSUME UNCHANGED left, todo' \subseteq todo, \A s \in Threads \ {t} : pc'[s] = pc[s],
               pc'[t] \in LoopSteps \ {"barrier"} \/ t \in left
        PROVE  LeftInv'
    BY <2>1 DEF LeftInv
  <2>2. ASSUME UNCHANGED todo, AfterLoop(t), left' = left \cup {t}, \A s \in Threads \ {t} : pc'[s] = pc[s]
        PROVE  LeftInv'
    BY <2>2 DEF LeftInv, AfterLoop
  <2>3. ASSUME NEW i \in todo, Take(t, i) PROVE LeftInv'
    BY <1>1, <2>1, <2>3 DEF Take, Relaxing, Goto, LoopSteps
  <2>4. ASSUME NEW old, NEW new, TryOrNext(t, old, new)
        PROVE  (\A s \in Threads \ {t} : pc'[s] = pc[s]) /\ pc'[t] \in LoopSteps \ {"barrier"}
    BY <1>1, <2>4 DEF TryOrNext, NextEdge, Goto, LoopSteps
  <2>5. CASE Relax(t)
    BY <2>1, <2>4, <2>5 DEF Relax
  <2>6. CASE Cas(t)
    <3>1. NextEdge(t) => (\A s \in Threads \ {t} : pc'[s] = pc[s]) /\ pc'[t] \in LoopSteps \ {"barrier"}
      BY <1>1 DEF NextEdge, Goto, LoopSteps
    <3> QED BY <2>1, <2>4, <2>6, <3>1 DEF Cas
  <2>7. CASE Fuse(t)
    BY <2>2, <2>7 DEF Fuse
  <2>8. CASE TakeCopied(t)
    BY <1>1, <2>1, <2>8 DEF TakeCopied, Relaxing, Goto, LoopSteps
  <2>9. CASE Vote(t)
    BY <1>1, <2>2, <2>9 DEF Vote, Goto
  <2>10. CASE Single(t) \/ Copy(t)
    <3>1. pc[t] \notin LoopSteps /\ UNCHANGED <<left, todo>> /\ \A s \in Threads \ {t} : pc'[s] = pc[s]
      BY <1>1, <2>10 DEF Single, Copy, Goto, LoopSteps
    <3> QED BY <2>1, <3>1 DEF LeftInv
  <2> QED BY <1>7, <2>3, <2>5, <2>6, <2>7, <2>8, <2>9, <2>10 DEF ThreadStep
<1> QED BY <1>2, <1>3, <1>4, <1>5, <1>6, <1>7 DEF Next, MasterStep, Terminated

LEMMA BarrierEmpty ==
    ASSUME LeftInv, Barrier
    PROVE  todo = {}
BY DEF LeftInv, Barrier

LEMMA NextInv ==
    ASSUME IInv, LeftInv, [Next]_vars
    PROVE  IInv'
<1>1. CASE UNCHANGED vars
  BY <1>1, StutterInv
<1>2. CASE StartTrial
  BY <1>2, StartTrialInv
<1>3. CASE Verify
  BY <1>3, VerifyInv
<1>4. ASSUME phase = "run" PROVE LoopInv \/ CopyInv
  BY <1>4 DEF IInv, LoopInv, CopyInv
<1>5. (LoopInv' => IInv') /\ (CopyInv' => IInv')
  BY DEF LoopInv, CopyInv, IInv
<1>6. ASSUME LoopInv PROVE \A t \in Threads : pc[t] \in LoopSteps
  BY <1>6 DEF LoopInv, Loop, Working
<1>7. ASSUME CopyInv PROVE \A t \in Threads : pc[t] \in CopySteps
  BY <1>7 DEF CopyInv, Copying, Copies
<1>8. CASE Barrier
  <2>1. LoopInv
    BY <1>4, <1>7, <1>8, ConstantFacts DEF Barrier, CopySteps
  <2> QED BY <1>5, <1>8, <2>1, BarrierEmpty, BarrierInv
<1>9. CASE NextIteration
  <2>1. CopyInv
    BY <1>4, <1>6, <1>9, ConstantFacts DEF NextIteration, LoopSteps
  <2>2. Types' /\ Trials' /\ (LoopInv' \/ (phase' = "verify" /\ dist' = S' /\ Quiet'))
    BY <1>9, <2>1, NextIterationInv
  <2> QED BY <1>5, <2>2 DEF IInv
<1>10. ASSUME phase = "run", NEW t \in Threads, ThreadStep(t) PROVE IInv'
  <2>1. CASE LoopInv
    <3>1. pc[t] \in LoopSteps
      BY <1>6, <2>1
    <3>2. ASSUME NEW i \in todo, Take(t, i) PROVE LoopInv'
      BY <2>1, <3>2, TakeInv
    <3>3. CASE Relax(t)
      BY <2>1, <3>3, <1>5, RelaxInv
    <3>4. CASE Cas(t) /\ Swaps(t)
      BY <2>1, <3>4, <1>5, CasSwapsInv
    <3>5. CASE Cas(t) /\ ~Swaps(t)
      BY <2>1, <3>5, <1>5, CasFailsInv
    <3>6. CASE Fuse(t)
      BY <2>1, <3>6, <1>5, FuseInv
    <3>7. CASE TakeCopied(t)
      BY <2>1, <3>7, <1>5, TakeCopiedInv
    <3>8. CASE Vote(t)
      BY <2>1, <3>8, <1>5, VoteInv
    <3>9. ~Single(t) /\ ~Copy(t)
      BY <3>1 DEF Single, Copy, LoopSteps
    <3> QED BY <1>5, <1>10, <3>2, <3>3, <3>4, <3>5, <3>6, <3>7, <3>8, <3>9 DEF ThreadStep
  <2>2. CASE CopyInv
    <3>1. pc[t] \in CopySteps
      BY <1>7, <2>2
    <3>2. CASE Single(t)
      BY <1>5, <2>2, <3>2, SingleInv
    <3>3. CASE Copy(t)
      <4>1. Types' /\ Trials' /\ (CopyInv' \/ phase' = "undefined")
        BY <2>2, <3>3, CopyStepInv
      <4> QED BY <1>5, <4>1 DEF IInv
    <3>4. ~Single(t) /\ ~Copy(t) => FALSE
      <4>1. copied[t] = <<>>
        BY <2>2 DEF CopyInv, Copying, Copies
      <4> QED BY <1>10, <3>1, <4>1 DEF ThreadStep, Take, Relax, Cas, Fuse, AfterLoop, TakeCopied, Vote, CopySteps
    <3> QED BY <3>2, <3>3, <3>4
  <2> QED BY <1>4, <1>10, <2>1, <2>2
<1> QED BY <1>1, <1>2, <1>3, <1>8, <1>9, <1>10 DEF Next, MasterStep, Terminated
-----------------------------------------------------------------------------
(* The inductive invariant holds: an edge that is not relaxed has its near  *)
(* end waiting in a bin or in the frontier, or under way in some thread.    *)
THEOREM Invariance == Spec => [](IInv /\ LeftInv)
<1>1. Init => IInv /\ LeftInv
  BY InitInv DEF Init, LeftInv, Fresh, LoopSteps
<1>2. IInv /\ LeftInv /\ [Next]_vars => IInv' /\ LeftInv'
  BY NextInv, LeftKept
<1> QED BY <1>1, <1>2, PTL DEF Spec

(* The types, and sssp.cc:52: a node in a bin has a distance that is near   *)
(* enough for it.                                                           *)
THEOREM TypeCorrect == Spec => []TypeOK
<1>1. ASSUME IInv, LeftInv PROVE TypeOK
  <2>1. Types /\ Trials /\ Args /\ ThreadTypes
    BY <1>1 DEF IInv, Types
  <2>2. Len(picks) \in Nat
    BY <2>1, GraphFacts
  <2>3. drawn \in 0 .. Len(picks) /\ vdrawn \in 0 .. drawn /\ phase \in {"trial", "run", "verify", "done", "undefined"}
    BY <2>1, <2>2 DEF Trials
  <2>4. phase # "undefined" => \A i \in todo : i \in Cells /\ frontier[i] \in Nodes
    BY <1>1, <2>3 DEF IInv, Loop, Copying, Quiet
  <2>5. ASSUME drawn > 0, NEW t \in Threads, NEW b \in DOMAIN bins[t], NEW n \in ToSet(bins[t][b])
        PROVE  dist[n] \div delta <= b
    <3>1. BinTypes /\ BinsNear
      BY <2>1, <2>5 DEF Types
    <3>2. b \in Nat /\ InBin(t, n, b)
      BY <3>1 DEF BinTypes, InBin
    <3>3. n \in Nodes
      BY <3>1, <3>2, BinFacts
    <3> QED BY <3>1, <3>2, <3>3 DEF BinsNear, BinOf
  <2> QED BY <1>1, <2>1, <2>3, <2>4, <2>5 DEF TypeOK, Types, ThreadTypes, SharedTypes, LeftInv
<1> QED BY <1>1, Invariance, PTL

(* sssp.cc:48: while the threads work on a bin, every node that belongs to  *)
(* a lower one has its final distance.                                      *)
THEOREM LowerBinsSettled == Spec => []PriorityOrder
<1>1. ASSUME IInv PROVE PriorityOrder
  <2> SUFFICES ASSUME phase = "run", CurrBin # MaxBin, NEW n \in Nodes, Shortest[n] < delta * CurrBin
               PROVE  dist[n] = Shortest[n]
    BY DEF PriorityOrder
  <2>1. Types /\ Trials /\ (Loop \/ Copying)
    BY <1>1 DEF IInv
  <2>2. Args /\ CurrBin \in Nat /\ NextBin \in Nat /\ S[n] \in Nat
    BY <2>1, RunFacts, ShortestFacts
  <2>3. BinOf(S[n]) \in Nat
    BY <2>2, BinOrder
  <2>4. BinOf(S[n]) < CurrBin
    <3>1. PICK d \in Nat : d = S[n]
      BY <2>2
    <3>2. PICK c \in Nat : c = CurrBin
      BY <2>2
    <3>3. d >= delta * c <=> c <= BinOf(d)
      BY <2>2, DueFacts
    <3>4. delta * c \in Nat /\ d < delta * c
      <4>1. delta \in Nat
        BY <2>2, DueFacts
      <4> QED BY <3>1, <3>2, <4>1 DEF S
    <3>5. ~(c <= BinOf(d))
      BY <3>3, <3>4
    <3> QED BY <2>2, <2>3, <3>1, <3>2, <3>5
  <2>5. CASE Loop
    BY <2>4, <2>5 DEF Loop, Settled, S
  <2>6. CASE Copying
    BY <2>2, <2>3, <2>4, <2>6 DEF Copying, Settled, S
  <2> QED BY <2>1, <2>5, <2>6
<1> QED BY <1>1, Invariance, PTL

(* sssp.cc:19: DeltaStep returns the distances of the shortest paths, and   *)
(* the serial verifier, which draws the source anew, computes the same.     *)
THEOREM DistancesCorrect == Spec => []DistancesExact
<1>1. ASSUME IInv PROVE DistancesExact
  <2> SUFFICES ASSUME phase = "verify" PROVE dist = Shortest /\ SSSPVerifier
    BY DEF DistancesExact
  <2>1. Types /\ Trials /\ dist = S /\ Args
    BY <1>1 DEF IInv, Types
  <2>2. drawn = vdrawn + 1 /\ drawn \in 1 .. Len(picks)
    <3>1. drawn = vdrawn + 1 /\ vdrawn \in Nat /\ drawn \in 0 .. Len(picks)
      BY <2>1 DEF Trials
    <3>2. Len(picks) \in Nat
      BY <2>1, GraphFacts
    <3> QED BY <3>1, <3>2
  <2>3. VerifierSource = Source
    BY <2>2 DEF VerifierSource, Source
  <2>4. Source \in Nodes /\ AreShortest(S, neigh, Source) /\ IsGraph(neigh)
    BY <2>1, <2>2, ShortestFacts, GraphFacts
  <2>5. AreShortest(Oracle(neigh, Source), neigh, Source)
    BY <2>4, OracleCorrect
  <2>6. S = Oracle(neigh, Source)
    BY <2>4, <2>5, ShortestUnique
  <2> QED BY <2>1, <2>3, <2>6 DEF SSSPVerifier, S
<1> QED BY <1>1, Invariance, PTL
-----------------------------------------------------------------------------
(* Room in the frontier.  If no edge is shorter than delta, the nodes of    *)
(* the bin the threads work on have their final distances too, so an edge   *)
(* puts its far end into a bin once at most: when it is used up.            *)
NoneShort == Weights # {} /\ \A w \in Weights : delta <= w

Entries == {e \in Threads \X Nat \X Nat : e[2] \in DOMAIN bins[e[1]] /\ e[3] \in DOMAIN bins[e[1]][e[2]]}

Positions == PairsOf([n \in Nodes |-> Len(neigh[n])], Nodes)
Used == {p \in Positions : dist[To(p[1], p[2])] <= S[p[1]] + Length(p[1], p[2])}

Room == IsFiniteSet(Entries) /\ NextTail + Cardinality(Entries) <= Cardinality(Used)

Final(b) == \A n \in Nodes : BinOf(S[n]) <= b => dist[n] = S[n]

ThreadFinal(t) ==
    /\ \A u \in ToSet(copied[t]) : BinOf(S[u]) <= CurrBin
    /\ pc[t] \in {"relax", "cas"} => BinOf(S[node[t]]) <= CurrBin
    /\ pc[t] = "cas" => newDist[t] = S[node[t]] + Length(node[t], edge[t])

LoopFinal ==
    /\ Final(CurrBin) /\ \A i \in todo : BinOf(S[frontier[i]]) <= CurrBin
    /\ \A t \in Threads : ThreadFinal(t)

CopyFinal == Final(NextBin) /\ \A i \in 0 .. NextTail - 1 : BinOf(S[frontier[i]]) <= NextBin

RoomInv ==
    NoneShort =>
        /\ phase # "undefined"
        /\ phase = "run" => Room /\ IF \A t \in Threads : pc[t] \in LoopSteps THEN LoopFinal ELSE CopyFinal

LEMMA PositionFacts ==
    ASSUME Args
    PROVE  /\ IsFiniteSet(Positions) /\ Cardinality(Positions) = NumEdgesDirected /\ NumEdgesDirected \in Nat
           /\ \A p \in Positions : p[1] \in Nodes /\ p[2] \in DOMAIN neigh[p[1]] /\ p = <<p[1], p[2]>>
           /\ \A u \in Nodes : \A j \in DOMAIN neigh[u] : <<u, j>> \in Positions
<1> DEFINE lens == [n \in Nodes |-> Len(neigh[n])]
<1>1. \A u \in Nodes : lens[u] \in Nat /\ DOMAIN neigh[u] = 1 .. lens[u]
  BY GraphFacts
<1>2. DOMAIN lens = Nodes /\ IsFiniteSet(Nodes)
  BY ConstantFacts
<1>3. Positions = PairsOf(lens, Nodes) /\ NumEdgesDirected = SumFunction(lens)
  BY DEF Positions, NumEdgesDirected
<1> HIDE DEF lens
<1>4. /\ SumFunctionOnSet(lens, Nodes) \in Nat /\ IsFiniteSet(PairsOf(lens, Nodes))
      /\ SumFunctionOnSet(lens, Nodes) = Cardinality(PairsOf(lens, Nodes))
  BY <1>1, <1>2, SumCounts
<1>5. NumEdgesDirected = SumFunctionOnSet(lens, Nodes)
  BY <1>2, <1>3 DEF SumFunction
<1>6. \A p \in Positions : p[1] \in Nodes /\ p[2] \in DOMAIN neigh[p[1]] /\ p = <<p[1], p[2]>>
  BY <1>1, <1>3 DEF PairsOf
<1>7. \A u \in Nodes : \A j \in DOMAIN neigh[u] : <<u, j>> \in Positions
  BY <1>1, <1>3 DEF PairsOf
<1> QED BY <1>3, <1>4, <1>5, <1>6, <1>7

LEMMA RoomFacts ==
    ASSUME Args, Room, NextTail \in Nat
    PROVE  /\ IsFiniteSet(Used) /\ Cardinality(Used) \in Nat /\ Cardinality(Used) <= NumEdgesDirected
           /\ IsFiniteSet(Entries) /\ Cardinality(Entries) \in Nat
           /\ NextTail + Cardinality(Entries) <= Cardinality(Used)
<1>1. IsFiniteSet(Positions) /\ Cardinality(Positions) = NumEdgesDirected /\ NumEdgesDirected \in Nat
  BY PositionFacts
<1>2. Used \in SUBSET Positions
  BY DEF Used
<1>3. IsFiniteSet(Used) /\ Cardinality(Used) <= Cardinality(Positions)
  BY <1>1, <1>2, FS_Subset
<1> QED BY <1>1, <1>3, FS_CardinalityType DEF Room

(* What becomes of the entries of the bins. *)
LEMMA PushEntries ==
    ASSUME BinTypes, NEW t \in Threads, NEW c \in Nat, NEW n \in Nodes, bins' = Pushed(t, c, n)
    PROVE  \E e : Entries' \subseteq Entries \cup {e}
<1> DEFINE k == Len(Bin(t, c)) + 1
<1>1. /\ \A s \in Threads \ {t} : bins'[s] = bins[s]
      /\ bins'[t] = [b \in DOMAIN bins[t] \cup {c} |-> IF b = c THEN Append(Bin(t, c), n) ELSE bins[t][b]]
  BY DEF BinTypes, Pushed
<1>2. DOMAIN bins'[t] = DOMAIN bins[t] \cup {c} /\ bins'[t][c] = Append(Bin(t, c), n)
      /\ \A b \in DOMAIN bins[t] \ {c} : bins'[t][b] = bins[t][b]
  BY <1>1
<1>3. Bin(t, c) \in Seq(Nodes) /\ (c \notin DOMAIN bins[t] => Bin(t, c) = <<>>)
  BY BinFacts
<1>4. DOMAIN Append(Bin(t, c), n) = 1 .. k /\ DOMAIN Bin(t, c) = 1 .. k - 1 /\ k \in Nat \ {0}
  BY <1>3
<1>5. c \in DOMAIN bins[t] => Bin(t, c) = bins[t][c]
  BY DEF Bin
<1>6. ASSUME NEW x \in Entries', x # <<t, c, k>> PROVE x \in Entries
  <2>1. x \in Threads \X Nat \X Nat /\ x[2] \in DOMAIN bins'[x[1]] /\ x[3] \in DOMAIN bins'[x[1]][x[2]]
    BY DEF Entries
  <2>2. x = <<x[1], x[2], x[3]>> /\ x[1] \in Threads /\ x[2] \in Nat /\ x[3] \in Nat
    BY <2>1
  <2>3. x[2] \in DOMAIN bins[x[1]] /\ x[3] \in DOMAIN bins[x[1]][x[2]]
    <3>1. CASE x[1] # t
      BY <1>1, <2>1, <2>2, <3>1
    <3>2. CASE x[1] = t /\ x[2] # c
      BY <1>2, <2>1, <2>2, <3>2
    <3>3. CASE x[1] = t /\ x[2] = c
      <4>1. x[3] \in 1 .. k /\ x[3] # k
        BY <1>2, <1>4, <1>6, <2>1, <2>2, <3>3
      <4>2. x[3] \in DOMAIN Bin(t, c)
        BY <1>4, <4>1
      <4>3. c \in DOMAIN bins[t]
        BY <1>3, <4>2
      <4> QED BY <1>5, <3>3, <4>2, <4>3
    <3> QED BY <3>1, <3>2, <3>3
  <2> QED BY <2>1, <2>3 DEF Entries
<1> QED BY <1>6

LEMMA EmptyEntries ==
    ASSUME BinTypes, NEW t \in Threads, NEW c \in Nat, bins' = Emptied(t, c), IsFiniteSet(Entries)
    PROVE  /\ Entries' \subseteq Entries /\ IsFiniteSet(Entries')
           /\ Cardinality(Entries') + Len(Bin(t, c)) <= Cardinality(Entries)
<1> DEFINE row == {<<t, c, i>> : i \in 1 .. Len(Bin(t, c))}
           put == [i \in 1 .. Len(Bin(t, c)) |-> <<t, c, i>>]
<1>1. /\ \A s \in Threads \ {t} : bins'[s] = bins[s]
      /\ bins'[t] = [b \in DOMAIN bins[t] \ {c} |-> bins[t][b]]
  BY DEF BinTypes, Emptied, Restrict
<1>2. DOMAIN bins'[t] = DOMAIN bins[t] \ {c} /\ \A b \in DOMAIN bins[t] \ {c} : bins'[t][b] = bins[t][b]
  BY <1>1
<1>3. Bin(t, c) \in Seq(Nodes) /\ (c \notin DOMAIN bins[t] => Bin(t, c) = <<>>)
      /\ (c \in DOMAIN bins[t] => Bin(t, c) = bins[t][c])
  BY BinFacts DEF Bin
<1>4. PICK n \in Nat : n = Len(Bin(t, c))
  BY <1>3
<1>5. row \subseteq Entries
  <2>1. DOMAIN Bin(t, c) = 1 .. Len(Bin(t, c))
    BY <1>3
  <2>2. \A i \in 1 .. n : c \in DOMAIN bins[t] /\ i \in DOMAIN bins[t][c] /\ i \in Nat
    BY <1>3, <1>4, <2>1
  <2> QED BY <1>4, <2>2 DEF Entries
<1>6. Entries' \subseteq Entries /\ Entries' \cap row = {}
  <2> SUFFICES ASSUME NEW x \in Entries' PROVE x \in Entries /\ x \notin row
    OBVIOUS
  <2>1. x \in Threads \X Nat \X Nat /\ x[2] \in DOMAIN bins'[x[1]] /\ x[3] \in DOMAIN bins'[x[1]][x[2]]
    BY DEF Entries
  <2>2. x[1] \in Threads
    BY <2>1
  <2>3. ~(x[1] = t /\ x[2] = c)
    BY <1>2, <2>1
  <2>4. x[2] \in DOMAIN bins[x[1]] /\ x[3] \in DOMAIN bins[x[1]][x[2]]
    BY <1>1, <1>2, <2>1, <2>2, <2>3
  <2> QED BY <2>1, <2>3, <2>4 DEF Entries
<1>7. IsFiniteSet(row) /\ Cardinality(row) = n
  <2>1. IsFiniteSet(1 .. n) /\ Cardinality(1 .. n) = n
    BY FS_Interval
  <2>2. put \in Bijection(1 .. n, row)
    BY <1>4 DEF Bijection, Injection, Surjection, IsInjective
  <2> HIDE DEF row, put
  <2>3. ExistsBijection(1 .. n, row)
    BY <2>2 DEF ExistsBijection
  <2> QED BY <2>1, <2>3, FS_Bijection
<1> HIDE DEF row
<1>8. PICK old : old = Entries
  OBVIOUS
<1>9. PICK new : new = Entries'
  OBVIOUS
<1>10. IsFiniteSet(old) /\ new \in SUBSET old /\ new \cup row \in SUBSET old /\ new \cap row = {}
  BY <1>5, <1>6, <1>8, <1>9
<1>11. IsFiniteSet(new) /\ Cardinality(new \cup row) <= Cardinality(old)
  BY <1>10, FS_Subset
<1>12. Cardinality(new \cup row) = Cardinality(new) + Cardinality(row) - Cardinality(new \cap row)
  BY <1>7, <1>11, FS_Union
<1>13. Cardinality(new \cap row) = 0 /\ Cardinality(new) \in Nat
  BY <1>10, <1>11, FS_EmptySet, FS_CardinalityType
<1> QED BY <1>4, <1>6, <1>7, <1>8, <1>9, <1>11, <1>12, <1>13

(* The last edge of a shortest path leads to a later bin, if no edge is     *)
(* shorter than a bin is wide.                                              *)
LEMMA LaterBin ==
    ASSUME NEW graph, IsGraph(graph), NEW s \in Nodes, NEW D, AreShortest(D, graph, s),
           NEW w \in Nat \ {0}, \A e \in EdgesOf(graph) : w <= e[3],
           NEW n \in Nodes \ {s}, D[n] # DistInf
    PROVE  \E e \in EdgesOf(graph) : /\ e[2] = n /\ D[n] = D[e[1]] + e[3] /\ e[1] \in Nodes
                                     /\ D[e[1]] \div w \in Nat /\ D[e[1]] \div w < D[n] \div w
<1>1. D[n] < DistInf
  BY ConstantFacts DEF AreShortest
<1>2. PICK e \in EdgesOf(graph) : e[2] = n /\ D[n] = D[e[1]] + e[3]
  BY <1>1 DEF AreShortest, ReachedByEdges
<1>3. e[1] \in Nodes /\ e[3] \in Nat \ {0} /\ D[e[1]] \in Nat /\ w <= e[3]
  <2>1. e \in Nodes \X Nodes \X (Nat \ {0})
    BY EdgesOfGraph
  <2> QED BY <2>1 DEF AreShortest
<1> DEFINE c == D[e[1]]
           d == D[n]
           p == c \div w
           q == d \div w
<1>4. c \in Nat /\ d \in Nat /\ c + w <= d
  BY <1>2, <1>3
<1>5. p \in Nat /\ w * p <= c /\ q \in Nat /\ d < w * q + w
  <2> HIDE DEF c, d
  <2> QED BY <1>4, DivBounds
<1>6. p < q
  <2> HIDE DEF p, q, c, d
  <2>1. w * p + w < w * q + w
    <3>1. w * p \in Nat /\ w * q \in Nat
      BY <1>5
    <3> QED BY <1>4, <1>5, <3>1
  <2>2. q <= p => w * q <= w * p
    BY <1>5
  <2>3. w * p \in Nat /\ w * q \in Nat
    BY <1>5
  <2> QED BY <1>5, <2>1, <2>2, <2>3
<1> QED BY <1>2, <1>3, <1>5, <1>6

LEMMA NoneShortFacts ==
    ASSUME Args, NoneShort
    PROVE  delta \in Nat \ {0} /\ \A e \in EdgesOf(neigh) : delta <= e[3]
BY DueFacts DEF NoneShort, Weights

(* A step that leaves the distances as they are. *)
LEMMA RoomKept ==
    ASSUME Args, Room, UNCHANGED <<args, drawn, dist>>, IsFiniteSet(Entries'),
           NextTail' + Cardinality(Entries') <= NextTail + Cardinality(Entries),
           NextTail \in Nat, NextTail' \in Nat
    PROVE  Room'
<1>1. S' = S /\ neigh' = neigh /\ dist' = dist
  BY SameTrial
<1>2. Used' = Used
  BY <1>1 DEF Used, Positions, To, Length
<1>3. Cardinality(Entries') \in Nat
  <2>1. PICK ends : ends = Entries'
    OBVIOUS
  <2> QED BY <2>1, FS_CardinalityType
<1> QED BY <1>2, <1>3, RoomFacts DEF Room

(* The same of a step of a thread in the loop.                              *)
LEMMA LoopFinalKept ==
    ASSUME LoopInv, Room, LoopFinal, NEW t \in Threads, UNCHANGED <<args, drawn, dist, frontier>>,
           CurrBin' = CurrBin, NextTail' = NextTail, todo' \subseteq todo, Entries' \subseteq Entries,
           \A s \in Threads \ {t} : pc'[s] = pc[s] /\ node'[s] = node[s] /\ edge'[s] = edge[s]
                                    /\ newDist'[s] = newDist[s] /\ copied'[s] = copied[s],
           ThreadFinal(t)'
    PROVE  Room' /\ LoopFinal'
<1>1. S' = S /\ neigh' = neigh /\ delta' = delta /\ dist' = dist
  BY SameTrial
<1>2. Args /\ NextTail \in Nat
  BY RunFacts DEF LoopInv
<1>3. Room'
  <2>1. PICK old : old = Entries
    OBVIOUS
  <2>2. PICK new \in SUBSET old : new = Entries'
    BY <2>1
  <2>3. IsFiniteSet(new) /\ Cardinality(new) <= Cardinality(old) /\ Cardinality(new) \in Nat /\ Cardinality(old) \in Nat
    BY <2>1, FS_Subset, FS_CardinalityType DEF Room
  <2>4. NextTail' + Cardinality(Entries') <= NextTail + Cardinality(Entries) /\ IsFiniteSet(Entries')
    BY <1>2, <2>1, <2>2, <2>3
  <2>5. NextTail' \in Nat /\ UNCHANGED <<args, drawn, dist>>
    BY <1>2
  <2> QED BY <1>2, <2>4, <2>5, RoomKept
<1>4. ASSUME NEW s \in Threads \ {t} PROVE ThreadFinal(s)'
  BY <1>1 DEF LoopFinal, ThreadFinal, BinOf, Length
<1>5. Final(CurrBin)' /\ \A i \in todo' : BinOf(S[frontier[i]])' <= CurrBin'
  BY <1>1 DEF LoopFinal, Final, BinOf
<1> QED BY <1>3, <1>4, <1>5 DEF LoopFinal

LEMMA RelaxingFinal ==
    ASSUME ThreadTypes, NEW t \in Threads, NEW u, pc[t] = "idle", Relaxing(t, u), BinOf(S[u]) <= CurrBin,
           UNCHANGED <<args, drawn>>, CurrBin' = CurrBin, \A w \in ToSet(copied'[t]) : BinOf(S[w]) <= CurrBin
    PROVE  /\ ThreadFinal(t)'
           /\ \A s \in Threads \ {t} : pc'[s] = pc[s] /\ node'[s] = node[s] /\ edge'[s] = edge[s]
<1>1. S' = S /\ delta' = delta
  BY SameTrial
<1>2. CASE neigh[u] = <<>>
  <2>1. UNCHANGED <<node, edge, pc>>
    BY <1>2 DEF Relaxing
  <2> QED BY <1>1, <2>1 DEF ThreadFinal, BinOf
<1>3. CASE neigh[u] # <<>>
  <2>1. node' = [node EXCEPT ![t] = u] /\ edge' = [edge EXCEPT ![t] = 1] /\ pc' = [pc EXCEPT ![t] = "relax"]
    BY <1>3 DEF Relaxing, Goto
  <2>2. pc'[t] = "relax" /\ node'[t] = u
        /\ \A s \in Threads \ {t} : pc'[s] = pc[s] /\ node'[s] = node[s] /\ edge'[s] = edge[s]
    BY <2>1 DEF ThreadTypes
  <2> QED BY <1>1, <2>2 DEF ThreadFinal, BinOf
<1> QED BY <1>2, <1>3

LEMMA TakeFinal ==
    ASSUME LoopInv, Room, LoopFinal, NEW t \in Threads, NEW i \in todo, Take(t, i)
    PROVE  Room' /\ LoopFinal'
<1> USE DEF trialVars, sharedVars
<1>1. /\ UNCHANGED <<args, drawn, dist, frontier, sharedIndexes, frontierTails, iter, newDist, bins, copied>>
      /\ pc[t] = "idle" /\ todo' = todo \ {i}
      /\ Relaxing(t, frontier[i]) \/ UNCHANGED <<node, edge, pc>>
  BY DEF Take
<1>2. CurrBin' = CurrBin /\ NextTail' = NextTail /\ Entries' = Entries
  BY <1>1 DEF CurrBin, NextTail, Entries
<1>3. S' = S /\ delta' = delta
  BY <1>1, SameTrial
<1>4. ThreadTypes
  BY RunFacts DEF LoopInv
<1>5. BinOf(S[frontier[i]]) <= CurrBin /\ \A w \in ToSet(copied'[t]) : BinOf(S[w]) <= CurrBin
  BY <1>1 DEF LoopFinal, ThreadFinal
<1>6. UNCHANGED <<args, drawn>>
  BY <1>1
<1>7. ThreadFinal(t)' /\ \A s \in Threads \ {t} : pc'[s] = pc[s] /\ node'[s] = node[s] /\ edge'[s] = edge[s]
  <2>1. CASE Relaxing(t, frontier[i])
    BY <1>1, <1>2, <1>4, <1>5, <1>6, <2>1, RelaxingFinal
  <2>2. CASE UNCHANGED <<node, edge, pc>>
    BY <1>1, <1>2, <1>3, <1>5, <2>2 DEF ThreadFinal, BinOf
  <2> QED BY <1>1, <2>1, <2>2
<1> QED BY <1>1, <1>2, <1>7, LoopFinalKept

LEMMA TakeCopiedFinal ==
    ASSUME LoopInv, Room, LoopFinal, NEW t \in Threads, TakeCopied(t)
    PROVE  Room' /\ LoopFinal'
<1> USE DEF trialVars, sharedVars
<1>1. /\ UNCHANGED <<args, drawn, dist, frontier, sharedIndexes, frontierTails, iter, newDist, bins, todo>>
      /\ pc[t] = "idle" /\ copied[t] # <<>> /\ copied' = [copied EXCEPT ![t] = Tail(@)]
      /\ Relaxing(t, Head(copied[t]))
  BY DEF TakeCopied
<1>2. CurrBin' = CurrBin /\ NextTail' = NextTail /\ Entries' = Entries
  BY <1>1 DEF CurrBin, NextTail, Entries
<1>3. ThreadTypes /\ copied \in [Threads -> Seq(Nodes)]
  BY RunFacts DEF LoopInv, ThreadTypes
<1>4. copied'[t] = Tail(copied[t]) /\ \A s \in Threads \ {t} : copied'[s] = copied[s]
  BY <1>1, <1>3
<1>5. ToSet(copied[t]) = {Head(copied[t])} \cup ToSet(Tail(copied[t]))
  BY <1>1, <1>3, HeadAndTail
<1>6. BinOf(S[Head(copied[t])]) <= CurrBin /\ \A w \in ToSet(copied'[t]) : BinOf(S[w]) <= CurrBin
  BY <1>4, <1>5 DEF LoopFinal, ThreadFinal
<1>7. UNCHANGED <<args, drawn>>
  BY <1>1
<1>8. ThreadFinal(t)' /\ \A s \in Threads \ {t} : pc'[s] = pc[s] /\ node'[s] = node[s] /\ edge'[s] = edge[s]
  BY <1>1, <1>2, <1>3, <1>6, <1>7, RelaxingFinal
<1> QED BY <1>1, <1>2, <1>4, <1>8, LoopFinalKept

LEMMA FuseFinal ==
    ASSUME LoopInv, Room, LoopFinal, NEW t \in Threads, Fuse(t)
    PROVE  Room' /\ LoopFinal'
<1> USE DEF trialVars, sharedVars, localVars
<1>1. Args /\ BinTypes /\ BinsNear /\ CurrBin \in Nat /\ drawn \in 1 .. Len(picks)
      /\ copied \in [Threads -> Seq(Nodes)] /\ Progress /\ \A n \in Nodes : dist[n] \in Nat
  BY RunFacts DEF LoopInv, ThreadTypes
<1>2. PICK c \in Nat : c = CurrBin
  BY <1>1
<1>3. /\ UNCHANGED <<args, drawn, dist, frontier, sharedIndexes, frontierTails, iter, node, edge, newDist, pc, todo>>
      /\ pc[t] = "idle" /\ copied' = [copied EXCEPT ![t] = Bin(t, c)] /\ bins' = Emptied(t, c)
  BY <1>2 DEF Fuse, AfterLoop
<1>4. CurrBin' = CurrBin /\ NextTail' = NextTail
  BY <1>3 DEF CurrBin, NextTail
<1>5. S' = S /\ delta' = delta
  BY <1>3, SameTrial
<1>6. Entries' \subseteq Entries
  BY <1>1, <1>3, EmptyEntries DEF Room
<1>7. copied'[t] = Bin(t, c) /\ \A s \in Threads \ {t} : copied'[s] = copied[s]
  BY <1>1, <1>3
<1>8. ASSUME NEW u \in ToSet(Bin(t, c)) PROVE BinOf(S[u]) <= c
  <2>1. InBin(t, u, c) /\ u \in Nodes
    BY <1>1, <1>8, BinFacts
  <2>2. BinOf(dist[u]) <= c
    BY <1>1, <2>1 DEF BinsNear
  <2>3. S[u] <= dist[u] /\ S[u] \in Nat /\ dist[u] \in Nat
    BY <1>1, <2>1, ShortestFacts DEF Progress
  <2>4. BinOf(S[u]) <= BinOf(dist[u]) /\ BinOf(S[u]) \in Nat /\ BinOf(dist[u]) \in Nat
    BY <1>1, <2>3, BinOrder
  <2> QED BY <2>2, <2>4
<1>9. ThreadFinal(t)'
  BY <1>2, <1>3, <1>4, <1>5, <1>7, <1>8 DEF ThreadFinal, BinOf
<1> QED BY <1>3, <1>4, <1>6, <1>7, <1>9, LoopFinalKept

LEMMA VoteFinal ==
    ASSUME LoopInv, Room, LoopFinal, NEW t \in Threads, Vote(t)
    PROVE  Room' /\ LoopFinal'
<1> USE DEF trialVars, sharedVars, localVars
<1>1. /\ UNCHANGED <<args, drawn, dist, frontier, frontierTails, iter, todo, node, edge, newDist, bins, copied>>
      /\ sharedIndexes' = [sharedIndexes EXCEPT ![1 - iter] = SmallestVote(t)]
      /\ pc' = [pc EXCEPT ![t] = "barrier"]
  BY DEF Vote, Goto
<1>2. iter # 1 - iter /\ iter \in {0, 1} /\ SharedTypes /\ ThreadTypes
  BY RunFacts DEF LoopInv
<1>3. CurrBin' = CurrBin /\ NextTail' = NextTail /\ Entries' = Entries
  BY <1>1, <1>2 DEF CurrBin, NextTail, Entries, SharedTypes
<1>4. S' = S /\ delta' = delta
  BY <1>1, SameTrial
<1>5. pc'[t] = "barrier" /\ \A s \in Threads \ {t} : pc'[s] = pc[s]
  BY <1>1, <1>2 DEF ThreadTypes
<1>6. ThreadFinal(t)'
  BY <1>1, <1>3, <1>4, <1>5 DEF LoopFinal, ThreadFinal, BinOf
<1> QED BY <1>1, <1>3, <1>5, <1>6, LoopFinalKept

LEMMA NextEdgeFinal ==
    ASSUME ThreadTypes, NEW t \in Threads, pc[t] \in {"relax", "cas"}, NextEdge(t), ThreadFinal(t),
           UNCHANGED <<args, drawn, copied>>, CurrBin' = CurrBin
    PROVE  /\ ThreadFinal(t)'
           /\ \A s \in Threads \ {t} : pc'[s] = pc[s] /\ node'[s] = node[s] /\ edge'[s] = edge[s]
                                       /\ newDist'[s] = newDist[s]
<1>1. S' = S /\ delta' = delta
  BY SameTrial
<1>2. newDist' = [newDist EXCEPT ![t] = 0]
  BY DEF NextEdge
<1>3. CASE edge[t] < Len(neigh[node[t]])
  <2>1. edge' = [edge EXCEPT ![t] = @ + 1] /\ pc' = [pc EXCEPT ![t] = "relax"] /\ node' = node
    BY <1>3 DEF NextEdge, Goto
  <2>2. pc'[t] = "relax" /\ \A s \in Threads \ {t} : pc'[s] = pc[s] /\ edge'[s] = edge[s] /\ newDist'[s] = newDist[s]
    BY <1>2, <2>1 DEF ThreadTypes
  <2> QED BY <1>1, <2>1, <2>2 DEF ThreadFinal, BinOf
<1>4. CASE ~(edge[t] < Len(neigh[node[t]]))
  <2>1. edge' = [edge EXCEPT ![t] = 1] /\ pc' = [pc EXCEPT ![t] = "idle"] /\ node' = [node EXCEPT ![t] = 0]
    BY <1>4 DEF NextEdge, Goto
  <2>2. pc'[t] = "idle" /\ \A s \in Threads \ {t} : pc'[s] = pc[s] /\ node'[s] = node[s] /\ edge'[s] = edge[s]
                                                    /\ newDist'[s] = newDist[s]
    BY <1>2, <2>1 DEF ThreadTypes
  <2> QED BY <1>1, <2>2 DEF ThreadFinal, BinOf
<1> QED BY <1>3, <1>4

(* A step of RelaxEdges that does not change a distance. *)
LEMMA TriedFinal ==
    ASSUME LoopInv, Room, LoopFinal, NEW t \in Threads, pc[t] \in {"relax", "cas"},
           NEW old, NEW new, TryOrNext(t, old, new), new = S[node[t]] + Length(node[t], edge[t]),
           UNCHANGED <<args, trialVars, dist, frontier, sharedVars, todo, bins, copied>>
    PROVE  Room' /\ LoopFinal'
<1> USE DEF trialVars, sharedVars
<1>1. CurrBin' = CurrBin /\ NextTail' = NextTail /\ Entries' = Entries
  BY DEF CurrBin, NextTail, Entries
<1>2. S' = S /\ neigh' = neigh /\ delta' = delta
  BY SameTrial
<1>3. ThreadTypes /\ ThreadFinal(t)
  BY RunFacts DEF LoopInv, LoopFinal
<1>4. /\ ThreadFinal(t)'
      /\ \A s \in Threads \ {t} : pc'[s] = pc[s] /\ node'[s] = node[s] /\ edge'[s] = edge[s]
                                  /\ newDist'[s] = newDist[s]
  <2>1. CASE new < old
    <3>1. newDist' = [newDist EXCEPT ![t] = new] /\ pc' = [pc EXCEPT ![t] = "cas"] /\ UNCHANGED <<node, edge>>
      BY <2>1 DEF TryOrNext, Goto
    <3>2. pc'[t] = "cas" /\ newDist'[t] = new /\ \A s \in Threads \ {t} : pc'[s] = pc[s] /\ newDist'[s] = newDist[s]
      BY <1>3, <3>1 DEF ThreadTypes
    <3> QED BY <1>1, <1>2, <1>3, <3>1, <3>2 DEF ThreadFinal, BinOf, Length
  <2>2. CASE ~(new < old)
    <3>1. NextEdge(t) /\ UNCHANGED <<args, drawn, copied>>
      BY <2>2 DEF TryOrNext
    <3> QED BY <1>1, <1>3, <3>1, NextEdgeFinal
  <2> QED BY <2>1, <2>2
<1>5. UNCHANGED <<args, drawn, dist, frontier>> /\ \A s \in Threads \ {t} : copied'[s] = copied[s]
  OBVIOUS
<1> QED BY <1>1, <1>4, <1>5, LoopFinalKept

LEMMA RelaxFinal ==
    ASSUME LoopInv, Room, LoopFinal, NEW t \in Threads, Relax(t)
    PROVE  Room' /\ LoopFinal'
<1>1. ThreadTypes /\ Args /\ Loop /\ CurrBin \in Nat
  BY RunFacts DEF LoopInv
<1>2. pc[t] = "relax" /\ UNCHANGED <<args, trialVars, dist, frontier, sharedVars, todo, bins, copied>>
      /\ TryOrNext(t, dist[V(t)], dist[node[t]] + W(t))
  BY DEF Relax
<1>3. node[t] \in Nodes /\ BinOf(S[node[t]]) <= CurrBin
  BY <1>1, <1>2 DEF ThreadTypes, LoopFinal, ThreadFinal
<1>4. dist[node[t]] = S[node[t]]
  BY <1>3 DEF LoopFinal, Final
<1>5. PICK new : new = dist[node[t]] + W(t)
  OBVIOUS
<1>6. PICK old : old = dist[V(t)]
  OBVIOUS
<1>7. TryOrNext(t, old, new) /\ new = S[node[t]] + Length(node[t], edge[t])
  BY <1>2, <1>4, <1>5, <1>6 DEF W, Length
<1> QED BY <1>2, <1>7, TriedFinal

LEMMA CasFailsFinal ==
    ASSUME LoopInv, Room, LoopFinal, NEW t \in Threads, Cas(t), ~Swaps(t)
    PROVE  Room' /\ LoopFinal'
<1>1. pc[t] = "cas" /\ UNCHANGED <<args, trialVars, dist, frontier, sharedVars, todo, bins, copied>>
      /\ TryOrNext(t, dist[V(t)], newDist[t])
  BY DEF Cas
<1>2. newDist[t] = S[node[t]] + Length(node[t], edge[t])
  BY <1>1 DEF LoopFinal, ThreadFinal
<1>3. PICK new : new = newDist[t]
  OBVIOUS
<1>4. PICK old : old = dist[V(t)]
  OBVIOUS
<1>5. TryOrNext(t, old, new)
  BY <1>1, <1>3, <1>4
<1> QED BY <1>1, <1>2, <1>3, <1>5, TriedFinal

(* An edge is used up when it puts its far end into a bin.                  *)
LEMMA CasSwapsFinal ==
    ASSUME LoopInv, Room, LoopFinal, NEW t \in Threads, Cas(t), Swaps(t)
    PROVE  Room' /\ LoopFinal'
<1> USE DEF trialVars, sharedVars
<1>1. Args /\ ThreadTypes /\ SharedTypes /\ BinTypes /\ Progress /\ Loop /\ drawn \in 1 .. Len(picks)
      /\ CurrBin \in Nat /\ NextTail \in Nat /\ \A n \in Nodes : dist[n] \in Nat /\ S[n] \in Nat
  BY RunFacts, ShortestFacts DEF LoopInv
<1>2. /\ pc[t] = "cas" /\ Working(t)
      /\ UNCHANGED <<args, drawn, frontier, sharedIndexes, frontierTails, iter, todo, copied>>
      /\ dist' = [dist EXCEPT ![V(t)] = newDist[t]] /\ bins' = Pushed(t, DestBin(t), V(t)) /\ NextEdge(t)
      /\ dist[V(t)] = oldDist[t]
  BY <1>1 DEF Cas, Loop, Swaps
<1>3. PICK u \in Nodes : u = node[t]
  BY <1>1 DEF ThreadTypes
<1>4. PICK j \in DOMAIN neigh[u] : j = edge[t]
  BY <1>2, <1>3 DEF Working
<1>5. PICK v \in Nodes : v = To(u, j)
  BY <1>1, GraphFacts
<1>6. PICK new \in Nat : new = newDist[t]
  BY <1>1 DEF ThreadTypes
<1>7. new = S[u] + Length(u, j) /\ new < dist[v] /\ S[v] <= new
  <2>1. V(t) = v
    BY <1>3, <1>4, <1>5 DEF V, To
  <2> QED BY <1>2, <1>3, <1>4, <1>5, <1>6, <2>1 DEF LoopFinal, ThreadFinal, Working
<1>8. DestBin(t) \in Nat /\ dist' = [dist EXCEPT ![v] = new] /\ bins' = Pushed(t, DestBin(t), v)
  <2>1. V(t) = v
    BY <1>3, <1>4, <1>5 DEF V, To
  <2>2. BinOf(new) \in Nat
    BY <1>1, BinOrder
  <2> QED BY <1>2, <1>6, <2>1, <2>2 DEF DestBin, BinOf
<1>9. dist'[v] = new /\ (\A n \in Nodes \ {v} : dist'[n] = dist[n]) /\ \A n \in Nodes : dist'[n] \in Nat /\ dist'[n] <= dist[n]
  <2>1. dist'[v] = new /\ \A n \in Nodes \ {v} : dist'[n] = dist[n]
    BY <1>1, <1>8 DEF SharedTypes
  <2> QED BY <1>1, <1>7, <2>1
<1>10. S' = S /\ neigh' = neigh /\ delta' = delta
  BY <1>2, SameTrial
<1>11. CurrBin' = CurrBin /\ NextTail' = NextTail
  BY <1>2 DEF CurrBin, NextTail
<1>12. Used \cup {<<u, j>>} \subseteq Used' /\ <<u, j>> \notin Used
  <2>1. Positions' = Positions /\ <<u, j>> \in Positions
    BY <1>1, <1>10, PositionFacts DEF Positions
  <2>2. ASSUME NEW p \in Used PROVE p \in Used'
    <3>1. p[1] \in Nodes /\ p[2] \in DOMAIN neigh[p[1]]
      BY <1>1, PositionFacts DEF Used
    <3>2. To(p[1], p[2]) \in Nodes /\ Length(p[1], p[2]) \in Nat
      BY <1>1, <3>1, GraphFacts
    <3>3. dist'[To(p[1], p[2])] <= dist[To(p[1], p[2])] /\ dist'[To(p[1], p[2])] \in Nat /\ dist[To(p[1], p[2])] \in Nat
          /\ dist[To(p[1], p[2])] <= S[p[1]] + Length(p[1], p[2]) /\ S[p[1]] \in Nat
      BY <1>1, <1>9, <3>1, <3>2 DEF Used
    <3>4. dist'[To(p[1], p[2])] <= S[p[1]] + Length(p[1], p[2])
      BY <3>2, <3>3
    <3> QED BY <1>10, <2>1, <3>4 DEF Used, To, Length
  <2>3. <<u, j>> \in Used'
    BY <1>5, <1>7, <1>9, <1>10, <2>1 DEF Used, To, Length
  <2>4. <<u, j>> \notin Used
    BY <1>1, <1>5, <1>6, <1>7 DEF Used
  <2> QED BY <2>2, <2>3, <2>4
<1>13. Room'
  <2>1. PICK e : Entries' \subseteq Entries \cup {e}
    BY <1>1, <1>8, PushEntries
  <2>2. PICK old : old = Entries
    OBVIOUS
  <2>3. PICK ends : ends = Entries'
    OBVIOUS
  <2>4. PICK used : used = Used
    OBVIOUS
  <2>5. PICK useds : useds = Used'
    OBVIOUS
  <2>6. IsFiniteSet(used) /\ IsFiniteSet(old) /\ Cardinality(old) \in Nat /\ Cardinality(used) \in Nat
        /\ NextTail + Cardinality(old) <= Cardinality(used)
    BY <1>1, <2>2, <2>4, RoomFacts
  <2>7. IsFiniteSet(useds)
    <3>1. IsFiniteSet(Positions) /\ Positions' = Positions
      BY <1>1, <1>10, PositionFacts DEF Positions
    <3>2. useds \in SUBSET Positions
      BY <2>5, <3>1 DEF Used
    <3> QED BY <3>1, <3>2, FS_Subset
  <2>8. IsFiniteSet(used \cup {<<u, j>>}) /\ Cardinality(used \cup {<<u, j>>}) = Cardinality(used) + 1
    BY <1>12, <2>4, <2>6, FS_AddElement
  <2>9. Cardinality(used) + 1 <= Cardinality(useds) /\ Cardinality(useds) \in Nat
    <3>1. used \cup {<<u, j>>} \in SUBSET useds
      BY <1>12, <2>4, <2>5
    <3> QED BY <2>7, <2>8, <3>1, FS_Subset, FS_CardinalityType
  <2>10. IsFiniteSet(old \cup {e}) /\ Cardinality(old \cup {e}) <= Cardinality(old) + 1
         /\ Cardinality(old \cup {e}) \in Nat
    <3>1. /\ IsFiniteSet(old \cup {e})
          /\ Cardinality(old \cup {e}) = IF e \in old THEN Cardinality(old) ELSE Cardinality(old) + 1
      BY <2>6, FS_AddElement
    <3> QED BY <2>6, <3>1
  <2>11. IsFiniteSet(ends) /\ Cardinality(ends) <= Cardinality(old \cup {e}) /\ Cardinality(ends) \in Nat
    <3>1. ends \in SUBSET (old \cup {e})
      BY <2>1, <2>2, <2>3
    <3> QED BY <2>10, <3>1, FS_Subset, FS_CardinalityType
  <2>12. NextTail + Cardinality(ends) <= Cardinality(useds)
    BY <1>1, <2>6, <2>9, <2>10, <2>11
  <2> QED BY <1>11, <2>3, <2>5, <2>11, <2>12 DEF Room
<1>14. Final(CurrBin)' /\ \A i \in todo' : BinOf(S[frontier[i]])' <= CurrBin'
  <2>1. ASSUME NEW n \in Nodes, BinOf(S[n]) <= CurrBin PROVE dist'[n] = S[n]
    <3>1. dist[n] = S[n]
      BY <2>1 DEF LoopFinal, Final
    <3>2. n # v
      BY <1>1, <1>7, <3>1
    <3> QED BY <1>9, <3>1, <3>2
  <2> QED BY <1>2, <1>10, <1>11, <2>1 DEF LoopFinal, Final, BinOf
<1>15. ASSUME NEW s \in Threads PROVE ThreadFinal(s)'
  <2>1. ThreadFinal(s) /\ ThreadFinal(t)
    BY DEF LoopFinal
  <2>2. /\ ThreadFinal(t)'
        /\ \A x \in Threads \ {t} : pc'[x] = pc[x] /\ node'[x] = node[x] /\ edge'[x] = edge[x]
                                    /\ newDist'[x] = newDist[x]
    <3>1. pc[t] \in {"relax", "cas"} /\ UNCHANGED <<args, drawn, copied>>
      BY <1>2
    <3> QED BY <1>1, <1>2, <1>11, <2>1, <3>1, NextEdgeFinal
  <2> QED BY <1>2, <1>10, <1>11, <2>1, <2>2 DEF ThreadFinal, BinOf, Length
<1> QED BY <1>13, <1>14, <1>15 DEF LoopFinal

(* The barrier: the last edges of the shortest paths to the nodes of the    *)
(* next bin come from earlier bins, which are done.                         *)
LEMMA BarrierFinal ==
    ASSUME LoopInv, NoneShort, todo = {}, \A t \in Threads : pc[t] = "barrier"
    PROVE  Final(NextBin)
<1>1. Args /\ Progress /\ drawn \in 1 .. Len(picks) /\ NextBin \in Nat
      /\ \A n \in Nodes : dist[n] \in Nat /\ dist[n] <= DistInf
  BY RunFacts DEF LoopInv
<1>2. Source \in Nodes /\ AreShortest(S, neigh, Source) /\ \A n \in Nodes : S[n] \in Nat
  BY <1>1, ShortestFacts
<1> SUFFICES ASSUME NEW n \in Nodes, BinOf(S[n]) <= NextBin PROVE dist[n] = S[n]
  BY DEF Final
<1>3. S[n] <= dist[n]
  BY <1>1 DEF Progress
<1>4. CASE n = Source
  BY <1>1, <1>2, <1>3, <1>4 DEF Progress, AreShortest
<1>5. CASE S[n] = DistInf
  BY <1>1, <1>3, <1>5, ConstantFacts
<1>6. CASE n # Source /\ S[n] # DistInf
  <2>1. PICK D : D = S
    OBVIOUS
  <2>2. PICK w \in Nat \ {0} : w = delta
    BY <1>1, NoneShortFacts
  <2>3. PICK graph : graph = neigh
    OBVIOUS
  <2>4. PICK s \in Nodes : s = Source
    BY <1>2
  <2>5. \E e \in EdgesOf(graph) : /\ e[2] = n /\ D[n] = D[e[1]] + e[3] /\ e[1] \in Nodes
                                  /\ D[e[1]] \div w \in Nat /\ D[e[1]] \div w < D[n] \div w
    <3>1. IsGraph(graph) /\ AreShortest(D, graph, s) /\ \A e \in EdgesOf(graph) : w <= e[3]
      BY <1>1, <1>2, <2>1, <2>2, <2>3, <2>4, GraphFacts, NoneShortFacts
    <3> QED BY <1>6, <2>1, <2>4, <3>1, LaterBin
  <2>6. PICK e \in EdgesOf(neigh) : e[2] = n /\ S[n] = S[e[1]] + e[3] /\ e[1] \in Nodes
                                    /\ BinOf(S[e[1]]) \in Nat /\ BinOf(S[e[1]]) < BinOf(S[n])
    BY <2>1, <2>2, <2>3, <2>5 DEF BinOf
  <2>7. PICK j \in DOMAIN neigh[e[1]] : n = To(e[1], j) /\ e[3] = Length(e[1], j)
    BY <1>1, <2>6, GraphFacts
  <2>8. BinOf(S[e[1]]) < NextBin
    <3>1. BinOf(S[n]) \in Nat
      BY <1>1, <1>2, BinOrder
    <3> QED BY <1>1, <2>6, <3>1
  <2>9. dist[e[1]] = S[e[1]]
    BY <2>6, <2>8, BarrierSettles DEF Settled
  <2>10. Relaxed(e[1], j)
    BY <2>6, <2>8, <2>9, BarrierRelaxed
  <2> QED BY <1>1, <1>2, <1>3, <2>6, <2>7, <2>9, <2>10 DEF Relaxed
<1> QED BY <1>4, <1>5, <1>6

LEMMA BarrierRoom ==
    ASSUME LoopInv, NoneShort, Room, todo = {}, Barrier
    PROVE  Room' /\ CopyFinal'
<1> USE DEF trialVars, sharedVars, localVars
<1>1. /\ UNCHANGED <<args, drawn, dist, frontier, sharedIndexes, frontierTails, iter, bins>>
      /\ \A t \in Threads : pc[t] = "barrier"
  BY DEF Barrier
<1>2. NextBin' = NextBin /\ NextTail' = NextTail /\ Entries' = Entries
  BY <1>1 DEF NextBin, NextTail, Entries
<1>3. S' = S /\ neigh' = neigh /\ delta' = delta
  BY <1>1, SameTrial
<1>4. Room'
  BY <1>1, <1>2, <1>3 DEF Room, Used, Positions, To, Length
<1>5. Final(NextBin)'
  BY <1>1, <1>2, <1>3, BarrierFinal DEF Final, BinOf
<1>6. \A i \in 0 .. NextTail' - 1 : FALSE
  <2>1. NextTail' = 0
    BY <1>2 DEF LoopInv, Loop
  <2> QED BY <2>1
<1> QED BY <1>4, <1>5, <1>6 DEF CopyFinal

LEMMA SingleRoom ==
    ASSUME CopyInv, Room, CopyFinal, NEW t \in Threads, Single(t)
    PROVE  Room' /\ CopyFinal'
<1> USE DEF trialVars, sharedVars, localVars
<1>1. /\ UNCHANGED <<args, drawn, dist, frontier, iter, bins>>
      /\ sharedIndexes' = [sharedIndexes EXCEPT ![iter] = MaxBin] /\ frontierTails' = [frontierTails EXCEPT ![iter] = 0]
  BY DEF Single, IndexReset
<1>2. SharedTypes /\ iter \in {0, 1} /\ 1 - iter \in {0, 1} /\ 1 - iter # iter
  BY CopyFacts
<1>3. NextBin' = NextBin /\ NextTail' = NextTail /\ Entries' = Entries
  BY <1>1, <1>2 DEF NextBin, NextTail, Entries, SharedTypes
<1>4. S' = S /\ neigh' = neigh /\ delta' = delta
  BY <1>1, SameTrial
<1>5. Room'
  BY <1>1, <1>3, <1>4 DEF Room, Used, Positions, To, Length
<1> QED BY <1>1, <1>3, <1>4, <1>5 DEF CopyFinal, Final, BinOf

(* A thread's share of the next bin fits: it has been counted already.      *)
LEMMA CopyRoom ==
    ASSUME CopyInv, Room, CopyFinal, NEW t \in Threads, Copy(t)
    PROVE  phase' = "run" /\ Room' /\ CopyFinal'
<1> USE DEF trialVars, sharedVars, localVars
<1>0. /\ phase = "run" /\ Progress /\ Copying
      /\ Args /\ ThreadTypes /\ SharedTypes /\ BinTypes /\ BinsNear /\ NextBin \in Nat /\ drawn \in 1 .. Len(picks)
      /\ NextTail \in Nat /\ iter \in {0, 1} /\ 1 - iter \in {0, 1} /\ 1 - iter # iter
      /\ \A n \in Nodes : dist[n] \in Nat
  BY CopyFacts, RunFacts
<1>1. UNCHANGED <<args, drawn, dist, sharedIndexes, iter>>
  BY DEF Copy
<1>2. NextBin' = NextBin
  BY <1>1 DEF NextBin
<1>3. S' = S /\ neigh' = neigh /\ delta' = delta /\ Cells' = Cells
  BY <1>1, SameTrial
<1>4. Final(NextBin)'
  BY <1>1, <1>2, <1>3 DEF CopyFinal, Final, BinOf
<1>5. CASE NextBin = MaxBin
  <2>1. UNCHANGED <<phase, frontier, frontierTails, bins>>
    BY <1>5 DEF Copy
  <2>2. NextTail' = NextTail /\ Entries' = Entries
    BY <1>1, <2>1 DEF NextTail, Entries
  <2>3. Room'
    BY <1>1, <1>3, <2>2 DEF Room, Used, Positions, To, Length
  <2> QED BY <1>0, <1>2, <1>3, <1>4, <2>1, <2>2, <2>3 DEF CopyFinal, BinOf
<1>6. CASE NextBin # MaxBin
  <2>1. PICK c \in Nat : c = NextBin
    BY <1>0
  <2>2. PICK tail \in Nat : tail = NextTail
    BY <1>0
  <2>3. Bin(t, c) \in Seq(Nodes) /\ \A u : u \in ToSet(Bin(t, c)) => InBin(t, u, c) /\ u \in Nodes
    BY <1>0, BinFacts
  <2>4. PICK share \in Seq(Nodes) : share = Bin(t, c)
    BY <2>3
  <2>5. /\ frontierTails' = [frontierTails EXCEPT ![1 - iter] = @ + Len(share)]
        /\ phase' = IF tail + Len(share) > NumEdgesDirected THEN "undefined" ELSE phase
        /\ frontier' = [i \in Cells |-> IF i \in tail .. tail + Len(share) - 1 THEN share[i - tail + 1] ELSE frontier[i]]
        /\ bins' = Emptied(t, c)
    BY <1>6, <2>1, <2>2, <2>4 DEF Copy
  <2>6. NextTail' = tail + Len(share) /\ NextTail' \in Nat /\ Len(share) \in Nat
    BY <1>0, <1>1, <2>2, <2>5 DEF NextTail, SharedTypes
  <2>7. IsFiniteSet(Entries') /\ Cardinality(Entries') + Len(share) <= Cardinality(Entries)
    BY <1>0, <2>4, <2>5, EmptyEntries DEF Room
  <2>8. Cardinality(Entries') \in Nat
    <3>1. PICK ends : ends = Entries'
      OBVIOUS
    <3> QED BY <2>7, <3>1, FS_CardinalityType
  <2>9. /\ Cardinality(Entries) \in Nat /\ Cardinality(Used) \in Nat /\ Cardinality(Used) <= NumEdgesDirected
        /\ tail + Cardinality(Entries) <= Cardinality(Used) /\ NumEdgesDirected \in Nat
    BY <1>0, <2>2, RoomFacts, PositionFacts
  <2>10. NextTail' + Cardinality(Entries') <= NextTail + Cardinality(Entries) /\ tail + Len(share) <= NumEdgesDirected
    BY <2>2, <2>6, <2>7, <2>8, <2>9
  <2>11. Room'
    <3>1. UNCHANGED <<args, drawn, dist>>
      BY <1>1
    <3> QED BY <1>0, <2>6, <2>7, <2>10, <3>1, RoomKept
  <2>12. phase' = "run"
    BY <1>0, <2>5, <2>6, <2>9, <2>10
  <2>13. ASSUME NEW u \in ToSet(share) PROVE BinOf(S[u]) <= NextBin
    <3>1. InBin(t, u, c) /\ u \in Nodes
      BY <2>3, <2>4
    <3>2. BinOf(dist[u]) <= c
      BY <1>0, <3>1 DEF BinsNear
    <3>3. S[u] <= dist[u] /\ S[u] \in Nat /\ dist[u] \in Nat
      BY <1>0, <3>1, ShortestFacts DEF Progress
    <3>4. BinOf(S[u]) <= BinOf(dist[u]) /\ BinOf(S[u]) \in Nat /\ BinOf(dist[u]) \in Nat
      BY <1>0, <3>3, BinOrder
    <3> QED BY <2>1, <3>2, <3>4
  <2>14. ASSUME NEW i \in 0 .. NextTail' - 1 PROVE BinOf(S[frontier'[i]]) <= NextBin
    <3>1. i \in Cells /\ i \in Nat
      BY <2>6, <2>9, <2>10 DEF Cells
    <3>2. CASE i < tail
      <4>1. frontier'[i] = frontier[i] /\ i \in 0 .. NextTail - 1
        BY <2>2, <2>5, <3>1, <3>2
      <4> QED BY <4>1 DEF CopyFinal
    <3>3. CASE ~(i < tail)
      <4>1. frontier'[i] = share[i - tail + 1] /\ i - tail + 1 \in DOMAIN share
        BY <2>5, <2>6, <3>1, <3>3
      <4>2. frontier'[i] \in ToSet(share)
        BY <4>1 DEF ToSet
      <4> QED BY <2>13, <4>2
    <3> QED BY <3>2, <3>3
  <2>15. \A i \in 0 .. NextTail' - 1 : BinOf(S[frontier[i]])' <= NextBin'
    BY <1>2, <1>3, <2>14 DEF BinOf
  <2> QED BY <1>4, <2>11, <2>12, <2>15 DEF CopyFinal
<1> QED BY <1>5, <1>6

LEMMA NextIterationRoom ==
    ASSUME CopyInv, Room, CopyFinal, NextIteration
    PROVE  Room' /\ (phase' # "verify" => LoopFinal') /\ phase' \in {"run", "verify"}
<1> USE DEF trialVars, sharedVars, localVars
<1>0. /\ phase = "run" /\ Copying /\ Args /\ SharedTypes /\ iter \in {0, 1} /\ NextTail \in Nat
      /\ NextBin \in Nat /\ CurrBin \in Nat
  BY CopyFacts
<1>1. /\ UNCHANGED <<args, drawn, dist, frontier, sharedIndexes, frontierTails, bins, copied>>
      /\ iter' = 1 - iter /\ pc' = [t \in Threads |-> "idle"] /\ \A t \in Threads : pc[t] = "end"
      /\ IF NextBin = MaxBin THEN phase' = "verify" /\ todo' = {} ELSE phase' = phase /\ todo' = 0 .. NextTail - 1
  BY DEF NextIteration, Fresh
<1>2. frontierTails[iter] = 0
  BY <1>0, <1>1 DEF Copying
<1>3. CurrBin' = NextBin /\ NextTail' = 0 /\ Entries' = Entries
  <2>1. 1 - (1 - iter) = iter
    BY <1>0
  <2> QED BY <1>0, <1>1, <1>2, <2>1 DEF CurrBin, NextBin, NextTail, Entries
<1>4. S' = S /\ neigh' = neigh /\ delta' = delta
  BY <1>1, SameTrial
<1>5. Room'
  <2>1. UNCHANGED <<args, drawn, dist>> /\ NextTail' \in Nat /\ IsFiniteSet(Entries')
    BY <1>1, <1>3 DEF Room
  <2>2. NextTail' + Cardinality(Entries') <= NextTail + Cardinality(Entries)
    BY <1>0, <1>3, RoomFacts
  <2> QED BY <1>0, <2>1, <2>2, RoomKept
<1>6. phase' # "verify" => LoopFinal'
  <2>1. ASSUME phase' # "verify", NEW i \in todo' PROVE BinOf(S[frontier[i]])' <= CurrBin'
    BY <1>1, <1>3, <1>4, <2>1 DEF CopyFinal, BinOf
  <2>2. Final(CurrBin)'
    BY <1>1, <1>3, <1>4 DEF CopyFinal, Final, BinOf
  <2>3. ASSUME NEW t \in Threads PROVE ThreadFinal(t)'
    <3>1. copied'[t] = <<>> /\ pc'[t] = "idle" /\ ToSet(<<>>) = {}
      BY <1>0, <1>1 DEF Copying, Copies, ToSet
    <3> QED BY <3>1 DEF ThreadFinal
  <2> QED BY <2>1, <2>2, <2>3 DEF LoopFinal
<1> QED BY <1>0, <1>1, <1>5, <1>6

(* The source is in the first bin alone. *)
LEMMA StartTrialRoom ==
    ASSUME IInv, NoneShort, StartTrial
    PROVE  phase' = "run" /\ Room' /\ LoopFinal'
<1> USE DEF trialVars, sharedVars, localVars
<1>1. /\ UNCHANGED <<args, pc, copied>>
      /\ phase = "trial" /\ phase' = IF Cells = {} THEN "undefined" ELSE "run"
      /\ drawn' = drawn + 1
      /\ dist' = [n \in Nodes |-> IF n = picks[drawn'] THEN 0 ELSE DistInf]
      /\ frontier' = [i \in Cells |-> IF i = 0 THEN picks[drawn'] ELSE None]
      /\ sharedIndexes' = [i \in {0, 1} |-> IF i = 0 THEN 0 ELSE MaxBin]
      /\ frontierTails' = [i \in {0, 1} |-> IF i = 0 THEN 1 ELSE 0]
      /\ iter' = 0 /\ todo' = {0} /\ bins' = [t \in Threads |-> <<>>]
  BY DEF StartTrial, Fresh
<1>2. neigh' = neigh /\ delta' = delta /\ picks' = picks
  BY <1>1 DEF args
<1>3. Types /\ Trials /\ Quiet /\ Args
  BY <1>1 DEF IInv, Types
<1>4. /\ IsGraph(neigh) /\ picks \in Seq(Nodes) /\ NumEdgesDirected \in Nat /\ Len(picks) \in Nat
      /\ delta \in Nat \ {0} /\ \A e \in EdgesOf(neigh) : delta <= e[3]
  BY <1>3, GraphFacts, PositionFacts, NoneShortFacts
<1>5. drawn \in Nat /\ drawn < Len(picks) /\ drawn' \in 1 .. Len(picks)
  BY <1>1, <1>3, <1>4 DEF Trials
<1>6. PICK s \in Nodes : s = picks[drawn']
  BY <1>4, <1>5
<1>7. S' = ShortestWithin(neigh, s)
  BY <1>2, <1>3, <1>6 DEF S, Shortest, ShortestOf, Args
<1>8. PICK D : D = S'
  OBVIOUS
<1>9. AreShortest(D, neigh, s) /\ D \in [Nodes -> 0 .. DistInf]
  BY <1>4, <1>7, <1>8, ShortestWithinCorrect DEF AreShortest
<1>10. dist'[s] = 0 /\ \A n \in Nodes \ {s} : dist'[n] = DistInf
  BY <1>1, <1>6
<1>11. CurrBin' = 0 /\ NextTail' = 0
  BY <1>1 DEF CurrBin, NextTail
<1>12. 0 \in Cells
  <2>1. PICK e : e \in EdgesOf(neigh)
    BY DEF NoneShort, Weights
  <2>2. e[1] \in Nodes /\ \E j : j \in DOMAIN neigh[e[1]]
    BY <1>3, <2>1, GraphFacts
  <2>3. Positions # {}
    BY <1>3, <2>2, PositionFacts
  <2>4. NumEdgesDirected # 0
    BY <1>3, <2>3, PositionFacts, FS_EmptySet
  <2> QED BY <1>4, <2>4 DEF Cells
<1>13. Room'
  <2>1. PICK ends : ends = Entries'
    OBVIOUS
  <2>2. ends = {}
    <3>1. \A t \in Threads : DOMAIN bins'[t] = {}
      BY <1>1
    <3>2. ASSUME NEW e \in ends PROVE FALSE
      BY <2>1, <3>1 DEF Entries
    <3> QED BY <3>2
  <2>3. IsFiniteSet(ends) /\ Cardinality(ends) = 0
    BY <2>2, FS_EmptySet
  <2>4. PICK used : used = Used'
    OBVIOUS
  <2>5. Cardinality(used) \in Nat
    <3>1. IsFiniteSet(Positions) /\ Positions' = Positions
      BY <1>2, <1>3, PositionFacts DEF Positions
    <3>2. used \in SUBSET Positions
      BY <2>4, <3>1 DEF Used
    <3> QED BY <3>1, <3>2, FS_Subset, FS_CardinalityType
  <2> QED BY <1>11, <2>1, <2>3, <2>4, <2>5 DEF Room
<1>14. ASSUME NEW n \in Nodes, D[n] \div delta <= 0 PROVE dist'[n] = D[n]
  <2>1. CASE n = s
    BY <1>9, <1>10, <2>1 DEF AreShortest
  <2>2. CASE n # s /\ D[n] = DistInf
    BY <1>10, <2>2
  <2>3. CASE n # s /\ D[n] # DistInf
    <3>1. PICK w \in Nat \ {0} : w = delta
      BY <1>4
    <3>2. PICK graph : graph = neigh
      OBVIOUS
    <3>3. IsGraph(graph) /\ AreShortest(D, graph, s) /\ \A e \in EdgesOf(graph) : w <= e[3]
      BY <1>4, <1>9, <3>1, <3>2
    <3>4. PICK e \in EdgesOf(graph) : D[e[1]] \div w \in Nat /\ D[e[1]] \div w < D[n] \div w
      BY <2>3, <3>3, LaterBin
    <3>5. D[n] \div w \in Nat
      <4>1. D[n] \in Nat
        BY <1>9
      <4> QED BY <4>1, DivBounds
    <3> QED BY <1>14, <3>1, <3>4, <3>5
  <2> QED BY <2>1, <2>2, <2>3
<1>15. Final(CurrBin)'
  BY <1>2, <1>8, <1>11, <1>14 DEF Final, BinOf
<1>16. \A i \in todo' : BinOf(S[frontier[i]])' <= CurrBin'
  <2>1. frontier'[0] = s
    BY <1>1, <1>6, <1>12
  <2>2. D[s] = 0 /\ D[s] \div delta <= 0
    <3>1. D[s] = 0
      BY <1>9 DEF AreShortest
    <3>2. BinOf(0) \in 0 .. 0
      BY <1>3, DueFacts
    <3> QED BY <3>1, <3>2 DEF BinOf
  <2> QED BY <1>1, <1>2, <1>8, <1>11, <2>1, <2>2 DEF BinOf
<1>17. \A t \in Threads : ThreadFinal(t)'
  <2>1. \A t \in Threads : pc'[t] = "idle" /\ copied'[t] = <<>> /\ ToSet(<<>>) = {}
    BY <1>1, <1>3 DEF Quiet, ToSet
  <2> QED BY <2>1 DEF ThreadFinal
<1>18. phase' = "run"
  BY <1>1, <1>12
<1> QED BY <1>13, <1>15, <1>16, <1>17, <1>18 DEF LoopFinal

LEMMA StutterRoom ==
    ASSUME RoomInv, UNCHANGED vars
    PROVE  RoomInv'
<1> USE DEF vars, trialVars, sharedVars, localVars
<1>1. /\ UNCHANGED <<args, drawn, phase, dist, frontier, sharedIndexes, frontierTails, iter, todo>>
      /\ UNCHANGED <<pc, node, edge, newDist, bins, copied>>
  OBVIOUS
<1>2. S' = S /\ neigh' = neigh /\ delta' = delta /\ CurrBin' = CurrBin /\ NextBin' = NextBin /\ NextTail' = NextTail
  BY <1>1, SameTrial DEF CurrBin, NextBin, NextTail
<1>3. Room' <=> Room
  BY <1>1, <1>2 DEF Room, Entries, Used, Positions, To, Length
<1>4. LoopFinal => LoopFinal'
  BY <1>1, <1>2 DEF LoopFinal, Final, ThreadFinal, BinOf, Length
<1>5. CopyFinal => CopyFinal'
  BY <1>1, <1>2 DEF CopyFinal, Final, BinOf
<1>6. NoneShort' <=> NoneShort
  BY <1>2 DEF NoneShort, Weights
<1> QED BY <1>1, <1>3, <1>4, <1>5, <1>6 DEF RoomInv

LEMMA NextRoom ==
    ASSUME IInv, LeftInv, RoomInv, [Next]_vars
    PROVE  RoomInv'
<1>1. CASE UNCHANGED vars
  BY <1>1, StutterRoom
<1>2. CASE ~UNCHANGED vars
  <2>1. Next /\ ~Terminated /\ UNCHANGED args
    BY <1>2 DEF Next, MasterStep, Terminated, StartTrial, Verify, Barrier, NextIteration, ThreadStep,
                Take, Relax, Cas, Fuse, TakeCopied, Vote, Single, Copy
  <2>2. NoneShort' <=> NoneShort
    BY <2>1 DEF NoneShort, Weights, args
  <2> SUFFICES ASSUME NoneShort
               PROVE  /\ phase' # "undefined"
                      /\ phase' = "run" =>
                            Room' /\ IF \A t \in Threads : pc'[t] \in LoopSteps THEN LoopFinal' ELSE CopyFinal'
    BY <2>2 DEF RoomInv
  <2>3. ASSUME LoopInv PROVE (\A t \in Threads : pc[t] \in LoopSteps) /\ phase = "run" /\ Room /\ LoopFinal
    <3>1. phase = "run" /\ \A t \in Threads : pc[t] \in LoopSteps
      BY <2>3 DEF LoopInv, Loop, Working
    <3> QED BY <3>1 DEF RoomInv
  <2>4. ASSUME CopyInv PROVE (\A t \in Threads : pc[t] \in CopySteps) /\ phase = "run" /\ Room /\ CopyFinal
    <3>1. phase = "run" /\ \A t \in Threads : pc[t] \in CopySteps
      BY <2>4 DEF CopyInv, Copying, Copies
    <3>2. ~\A t \in Threads : pc[t] \in LoopSteps
      BY <3>1, ConstantFacts DEF LoopSteps, CopySteps
    <3> QED BY <3>1, <3>2 DEF RoomInv
  <2>5. LoopInv' => phase' = "run" /\ \A t \in Threads : pc'[t] \in LoopSteps
    BY DEF LoopInv, Loop, Working
  <2>6. CopyInv' => phase' = "run" /\ ~\A t \in Threads : pc'[t] \in LoopSteps
    <3>1. CopyInv' => phase' = "run" /\ \A t \in Threads : pc'[t] \in CopySteps
      BY DEF CopyInv, Copying, Copies
    <3> QED BY <3>1, ConstantFacts DEF LoopSteps, CopySteps
  <2>7. ASSUME phase = "run" PROVE LoopInv \/ CopyInv
    BY <2>7 DEF IInv, LoopInv, CopyInv
  <2>8. CASE StartTrial
    <3>1. phase' = "run" /\ Room' /\ LoopFinal'
      BY <2>8, StartTrialRoom
    <3>2. \A t \in Threads : pc'[t] \in LoopSteps
      BY <2>8 DEF StartTrial, IInv, Quiet, LoopSteps
    <3> QED BY <3>1, <3>2
  <2>9. CASE Verify
    BY <2>9 DEF Verify
  <2>10. CASE Barrier
    <3>1. LoopInv
      BY <2>4, <2>7, <2>10, ConstantFacts DEF Barrier, CopySteps
    <3>2. Room' /\ CopyFinal' /\ CopyInv'
      BY <2>3, <2>10, <3>1, BarrierEmpty, BarrierInv, BarrierRoom
    <3> QED BY <2>6, <3>2
  <2>11. CASE NextIteration
    <3>1. CopyInv
      BY <2>3, <2>7, <2>11, ConstantFacts DEF NextIteration, LoopSteps
    <3>2. Room' /\ (phase' # "verify" => LoopFinal') /\ phase' \in {"run", "verify"} /\ (LoopInv' \/ phase' = "verify")
      BY <2>4, <2>11, <3>1, NextIterationInv, NextIterationRoom
    <3> QED BY <2>5, <3>2
  <2>12. ASSUME phase = "run", NEW t \in Threads, ThreadStep(t)
         PROVE  (LoopInv' /\ Room' /\ LoopFinal') \/ (CopyInv' /\ Room' /\ CopyFinal')
    <3>1. CASE LoopInv
      <4>0. Room /\ LoopFinal /\ pc[t] \in LoopSteps
        BY <2>3, <3>1
      <4>1. ASSUME NEW i \in todo, Take(t, i) PROVE LoopInv' /\ Room' /\ LoopFinal'
        BY <3>1, <4>0, <4>1, TakeInv, TakeFinal
      <4>2. CASE Relax(t)
        BY <3>1, <4>0, <4>2, RelaxInv, RelaxFinal
      <4>3. CASE Cas(t) /\ Swaps(t)
        BY <3>1, <4>0, <4>3, CasSwapsInv, CasSwapsFinal
      <4>4. CASE Cas(t) /\ ~Swaps(t)
        BY <3>1, <4>0, <4>4, CasFailsInv, CasFailsFinal
      <4>5. CASE Fuse(t)
        BY <3>1, <4>0, <4>5, FuseInv, FuseFinal
      <4>6. CASE TakeCopied(t)
        BY <3>1, <4>0, <4>6, TakeCopiedInv, TakeCopiedFinal
      <4>7. CASE Vote(t)
        BY <3>1, <4>0, <4>7, VoteInv, VoteFinal
      <4>8. ~Single(t) /\ ~Copy(t)
        BY <4>0 DEF Single, Copy, LoopSteps
      <4> QED BY <2>12, <4>1, <4>2, <4>3, <4>4, <4>5, <4>6, <4>7, <4>8 DEF ThreadStep
    <3>2. CASE CopyInv
      <4>0. Room /\ CopyFinal /\ pc[t] \in CopySteps
        BY <2>4, <3>2
      <4>1. CASE Single(t)
        BY <3>2, <4>0, <4>1, SingleInv, SingleRoom
      <4>2. CASE Copy(t)
        <5>1. phase' = "run" /\ Room' /\ CopyFinal'
          BY <3>2, <4>0, <4>2, CopyRoom
        <5>2. CopyInv' \/ phase' = "undefined"
          BY <3>2, <4>2, CopyStepInv
        <5> QED BY <5>1, <5>2
      <4>3. ~Single(t) /\ ~Copy(t) => FALSE
        <5>1. copied[t] = <<>>
          BY <3>2 DEF CopyInv, Copying, Copies
        <5> QED BY <2>12, <4>0, <5>1 DEF ThreadStep, Take, Relax, Cas, Fuse, AfterLoop, TakeCopied, Vote, CopySteps
      <4> QED BY <4>1, <4>2, <4>3
    <3> QED BY <2>7, <2>12, <3>1, <3>2
  <2> QED BY <2>1, <2>5, <2>6, <2>8, <2>9, <2>10, <2>11, <2>12 DEF Next, MasterStep
<1> QED BY <1>1, <1>2

(* The frontier of num_edges_directed cells (sssp.cc:91) never overflows    *)
(* when the graph has edges and none of them is shorter than delta.         *)
THEOREM FrontierSuffices == Spec => []FrontierFits
<1>1. Init => RoomInv
  BY DEF Init, RoomInv
<1>2. IInv /\ LeftInv /\ RoomInv /\ [Next]_vars => RoomInv'
  BY NextRoom
<1>3. RoomInv => FrontierFits
  BY DEF RoomInv, NoneShort, FrontierFits
<1> QED BY <1>1, <1>2, <1>3, Invariance, PTL DEF Spec
=============================================================================
