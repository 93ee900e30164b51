--------------------- MODULE ConnectedComponents_proofs ---------------------
(***************************************************************************)
(* Afforest and, further below, Shiloach-Vishkin compute the connected     *)
(* components, for every undirected graph, every number of threads and,    *)
(* in Afforest, of sampling rounds, and every schedule.                    *)
(*                                                                         *)
(* The forest that comp spans at a moment is described by the sets that    *)
(* are unions of its trees, so that "in one tree" needs no paths.          *)
(* JoinedBelow(c, k, u, v) is the same for the forest in which only the    *)
(* nodes below k have their parents: a compression may replace the parent  *)
(* of n by a node that is joined to it below n, and that fact survives the *)
(* compressions done by other threads.                                     *)
(***************************************************************************)
EXTENDS Afforest, ShiloachVishkin, GraphLemmas

ClosedBelow(c, k, S) == \A n \in Nodes : n < k => (n \in S <=> c[n] \in S)

JoinedBelow(c, k, u, v) ==
    \A S \in SUBSET Nodes : ClosedBelow(c, k, S) => (u \in S <=> v \in S)

Joined(c, u, v) == JoinedBelow(c, N, u, v)

Conn(g, u, v) == ConnectedIn(Nodes, g, u, v)

LinkSteps == {"load_u", "load_v", "load_high", "cas", "retry_high", "retry_p1", "retry_p2"}
CompressSteps == {"walk", "reread", "write"}
-----------------------------------------------------------------------------
(* Which thread may be at which step in which loop; no node is two threads'. *)
ShapeAt(t) ==
    /\ pc[t] # "idle" => node[t] \notin todo
    /\ pc[t] = "check" => phase = "rest"
    /\ pc[t] \in CompressSteps => phase \in {"compress", "final"}
    /\ pc[t] \in LinkSteps =>
          /\ edge[t] \in DOMAIN neigh[node[t]]
          /\ phase = "rest" \/ (phase = "link" /\ edge[t] = round + 1)

Shape ==
    /\ phase \in {"link", "compress"} => round < NeighborRounds
    /\ phase \in {"sample", "rest", "final", "done"} => round = NeighborRounds
    /\ phase = "sample" => todo = Nodes
    /\ \A t \in Threads : ShapeAt(t)
    /\ \A s, t \in Threads : s # t /\ pc[s] # "idle" /\ pc[t] # "idle" => node[s] # node[t]

(* What the values a thread holds say about the forest, however old they    *)
(* are: in Link, that p1 and p2 are in the trees of the edge's two ends.    *)
AcrossEdge(t, a, b) ==
    \/ Joined(comp, node[t], a) /\ Joined(comp, Neighbor(t), b)
    \/ Joined(comp, node[t], b) /\ Joined(comp, Neighbor(t), a)

KnowsAt(t) ==
    /\ pc[t] = "load_v" => Joined(comp, node[t], p1[t])
    /\ pc[t] \in {"load_high", "cas", "retry_high", "retry_p1"} =>
          AcrossEdge(t, p1[t], p2[t]) /\ p1[t] # p2[t]
    /\ pc[t] = "retry_p1" => Joined(comp, High(t), x[t])
    /\ pc[t] = "retry_p2" => AcrossEdge(t, p1[t], x[t])
    /\ pc[t] \in {"reread", "write"} => comp[node[t]] # node[t]
    /\ pc[t] = "write" => /\ x[t] < node[t]
                          /\ JoinedBelow(comp, node[t], comp[node[t]], x[t])

Knows == \A t \in Threads : KnowsAt(t)

(* Nothing is joined that is not connected. *)
SoundAt(t) ==
    /\ pc[t] \in LinkSteps \ {"load_u"} => Conn(neigh, node[t], p1[t])
    /\ pc[t] \in LinkSteps \ {"load_u", "load_v", "retry_p2"} => Conn(neigh, node[t], p2[t])
    /\ pc[t] \in {"retry_p1", "retry_p2", "write"} => Conn(neigh, node[t], x[t])

Sound ==
    /\ \A n \in Nodes : Conn(neigh, n, comp[n])
    /\ \A t \in Threads : SoundAt(t)

Linked(u, i) == Joined(comp, u, neigh[u][i])

Pending(u) == u \in todo \/ \E t \in Threads : pc[t] # "idle" /\ node[t] = u

(* Which edges are already inside one tree: those of the finished rounds,   *)
(* that of the present round for the nodes it is done with; in the last     *)
(* loop the nodes done with are linked along all their edges, or in the     *)
(* tree of the sampled component.                                           *)
Covered ==
    /\ \A u \in Nodes : \A i \in DOMAIN neigh[u] :
        /\ i <= round => Linked(u, i)
        /\ phase = "link" /\ i = round + 1 => Pending(u) \/ Linked(u, i)
        /\ phase = "compress" /\ i = round + 1 => Linked(u, i)
    /\ \A t \in Threads : phase = "rest" /\ pc[t] \in LinkSteps =>
            \A i \in DOMAIN neigh[node[t]] : i < edge[t] => Linked(node[t], i)
    /\ phase \in {"rest", "final", "done"} =>
        \A u \in Nodes : \/ phase = "rest" /\ Pending(u)
                         \/ Joined(comp, u, skip)
                         \/ \A i \in DOMAIN neigh[u] : Linked(u, i)

(* The nodes the last Compress is done with hang below a root. *)
Flat ==
    phase \in {"final", "done"} =>
        \A n \in Nodes : (phase = "final" /\ Pending(n)) \/ comp[comp[n]] = comp[n]

IInv == TypeOK /\ Shape /\ Knows /\ Sound /\ Covered /\ Flat
-----------------------------------------------------------------------------
(* Being joined is an equivalence that grows with k; so is being connected. *)
LEMMA JoinedEquivalence ==
    ASSUME NEW c, NEW k \in Nat, NEW u \in Nodes, NEW v \in Nodes
    PROVE  /\ JoinedBelow(c, k, u, u)
           /\ JoinedBelow(c, k, u, v) => JoinedBelow(c, k, v, u)
           /\ \A w \in Nodes : JoinedBelow(c, k, u, v) /\ JoinedBelow(c, k, v, w)
                                => JoinedBelow(c, k, u, w)
BY DEF JoinedBelow

LEMMA JoinedParent ==
    ASSUME NEW c \in [Nodes -> Nodes], NEW n \in Nodes, NEW k \in Nat, n < k
    PROVE  JoinedBelow(c, k, n, c[n])
BY DEF JoinedBelow, ClosedBelow

LEMMA JoinedGrows ==
    ASSUME NEW c, NEW j \in Nat, NEW k \in Nat, j <= k, NEW u \in Nodes, NEW v \in Nodes,
           JoinedBelow(c, j, u, v)
    PROVE  JoinedBelow(c, k, u, v)
<1>1. ASSUME NEW S \in SUBSET Nodes, ClosedBelow(c, k, S) PROVE ClosedBelow(c, j, S)
  BY <1>1 DEF ClosedBelow, Nodes
<1> QED BY <1>1 DEF JoinedBelow

LEMMA ConnEquivalence ==
    ASSUME NEW g, NEW u \in Nodes, NEW v \in Nodes
    PROVE  /\ Conn(g, u, u)
           /\ Conn(g, u, v) => Conn(g, v, u)
           /\ \A w \in Nodes : Conn(g, u, v) /\ Conn(g, v, w) => Conn(g, u, w)
BY ConnectedEquivalence DEF Conn

LEMMA ConnEdge ==
    ASSUME NEW g, Undirected(Nodes, g), NEW u \in Nodes, NEW i \in DOMAIN g[u]
    PROVE  g[u][i] \in Nodes /\ Conn(g, u, g[u][i])
BY ConnectedEdge DEF Conn

(* A store to comp that hooks a root, or gives a node a parent to which its *)
(* old one is joined below it, keeps joined what was joined.                *)
LEMMA StoreKeepsJoined ==
    ASSUME NEW c \in [Nodes -> Nodes], NEW h \in Nodes, NEW y \in Nodes,
           c[h] = h \/ JoinedBelow(c, h, c[h], y)
    PROVE  LET d == [c EXCEPT ![h] = y] IN
           \A k \in Nat, S \in SUBSET Nodes : ClosedBelow(d, k, S) => ClosedBelow(c, k, S)
<1> DEFINE d == [c EXCEPT ![h] = y]
<1> SUFFICES ASSUME NEW k \in Nat, NEW S \in SUBSET Nodes, ClosedBelow(d, k, S),
                    NEW n \in Nodes, n < k
             PROVE  n \in S <=> c[n] \in S
  BY DEF ClosedBelow
<1>1. CASE n # h
  BY <1>1 DEF ClosedBelow
<1>2. CASE n = h /\ c[h] = h
  BY <1>2
<1>3. CASE n = h /\ JoinedBelow(c, h, c[h], y)
  <2>1. ClosedBelow(c, h, S)
    BY <1>3 DEF ClosedBelow, Nodes
  <2>2. c[h] \in S <=> y \in S
    BY <1>3, <2>1 DEF JoinedBelow
  <2>3. h \in S <=> y \in S
    BY <1>3 DEF ClosedBelow
  <2> QED BY <1>3, <2>2, <2>3
<1> QED BY <1>1, <1>2, <1>3
-----------------------------------------------------------------------------
LEMMA NodesFacts == Nodes \subseteq Nat /\ 0 \in Nodes /\ N \in Nat /\ \A n \in Nodes : n < N
BY KernelAssumption, AfforestAssumption DEF Nodes

LEMMA GraphFacts ==
    ASSUME TypeOK
    PROVE  /\ Undirected(Nodes, neigh)
           /\ \A u \in Nodes : neigh[u] \in Seq(Nodes) /\ Len(neigh[u]) \in Nat
           /\ \A u \in Nodes : DOMAIN neigh[u] = 1 .. Len(neigh[u])
           /\ \A u \in Nodes : \A i \in DOMAIN neigh[u] : neigh[u][i] \in Nodes
<1>1. Undirected(Nodes, neigh)
  BY KernelAssumption, AfforestAssumption DEF TypeOK
<1>2. \A u \in Nodes : neigh[u] \in Seq(Nodes)
  BY <1>1 DEF Undirected
<1> QED BY <1>1, <1>2, ConnEdge

(* High and Low of a thread are its p1 and p2 in order. *)
LEMMA HighLow ==
    ASSUME TypeOK, NEW t \in Threads
    PROVE  /\ High(t) \in Nodes /\ Low(t) \in Nodes /\ Low(t) <= High(t)
           /\ p1[t] # p2[t] => Low(t) < High(t)
           /\ \/ High(t) = p1[t] /\ Low(t) = p2[t]
              \/ High(t) = p2[t] /\ Low(t) = p1[t]
<1>1. p1[t] \in Nat /\ p2[t] \in Nat /\ p1[t] \in Nodes /\ p2[t] \in Nodes
  BY NodesFacts DEF TypeOK
<1> QED BY <1>1 DEF High, Low

LEMMA LinkEndsType ==
    ASSUME TypeOK, NEW t \in Threads, NEW ends, NEW step \in Steps, LinkOrElse(t, ends, step)
    PROVE  pc' \in [Threads -> Steps] /\ edge' \in [Threads -> Nat \ {0}]
<1>1. edge[t] \in Nat \ {0}
  BY DEF TypeOK
<1>2. edge[t] + 1 \in Nat \ {0}
  BY <1>1
<1> QED BY <1>2 DEF TypeOK, LinkOrElse, LinkEnds, Goto, Steps

LEMMA TypeStep == TypeOK /\ Shape /\ Knows /\ [Next]_vars => TypeOK'
<1> SUFFICES ASSUME TypeOK, Shape, Knows, [Next]_vars PROVE TypeOK'
  OBVIOUS
<1> USE DEF threadVars
<1>t. ASSUME NEW t \in Threads
      PROVE  /\ node[t] \in Nodes /\ comp[node[t]] \in Nodes /\ comp[comp[node[t]]] \in Nodes
             /\ p1[t] \in Nodes /\ p2[t] \in Nodes /\ x[t] \in Nodes
             /\ \A n \in Nodes : comp[n] \in Nodes /\ comp[n] <= n
  BY <1>t DEF TypeOK
<1>1. ASSUME NEW t \in Threads, NEW n \in Nodes, Take(t, n) PROVE TypeOK'
  <2>1. edge' \in [Threads -> Nat \ {0}]
    <3>1. round + 1 \in Nat \ {0}
      BY DEF TypeOK
    <3> QED BY <1>1, <3>1 DEF Take, TypeOK
  <2>2. pc' \in [Threads -> Steps]
    BY <1>1 DEF Take, Goto, TypeOK, Steps
  <2> QED BY <1>1, <2>1, <2>2 DEF Take, TypeOK
<1>2. ASSUME NEW t \in Threads, Check(t) PROVE TypeOK'
  <2>1. edge' \in [Threads -> Nat \ {0}]
    <3>1. NeighborRounds + 1 \in Nat \ {0}
      BY KernelAssumption, AfforestAssumption
    <3> QED BY <1>2, <3>1 DEF Check, TypeOK
  <2>2. pc' \in [Threads -> Steps]
    BY <1>2 DEF Check, Goto, TypeOK, Steps
  <2> QED BY <1>2, <2>1, <2>2 DEF Check, TypeOK
<1>3. ASSUME NEW t \in Threads, LoadU(t) PROVE TypeOK'
  BY <1>3, <1>t DEF LoadU, Goto, TypeOK, Steps
<1>4. ASSUME NEW t \in Threads, LoadV(t) PROVE TypeOK'
  <2>1. Neighbor(t) \in Nodes
    BY <1>4, <1>t, GraphFacts DEF LoadV, Shape, ShapeAt, LinkSteps, Neighbor
  <2>2. p2' \in [Threads -> Nodes]
    BY <1>4, <1>t, <2>1 DEF LoadV, TypeOK
  <2>3. pc' \in [Threads -> Steps] /\ edge' \in [Threads -> Nat \ {0}]
    BY <1>4, LinkEndsType DEF LoadV, Steps
  <2> QED BY <1>4, <2>2, <2>3 DEF LoadV, TypeOK
<1>5. ASSUME NEW t \in Threads, LoadHigh(t) PROVE TypeOK'
  <2>1. pc' \in [Threads -> Steps] /\ edge' \in [Threads -> Nat \ {0}]
    BY <1>5, LinkEndsType DEF LoadHigh, Steps
  <2> QED BY <1>5, <2>1 DEF LoadHigh, TypeOK
<1>6. ASSUME NEW t \in Threads, Cas(t) PROVE TypeOK'
  <2>1. pc' \in [Threads -> Steps] /\ edge' \in [Threads -> Nat \ {0}]
    BY <1>6, LinkEndsType DEF Cas, Swaps, Steps
  <2>2. comp' \in [Nodes -> Nodes] /\ \A n \in Nodes : comp'[n] <= n
    BY <1>6, HighLow DEF Cas, Swaps, TypeOK
  <2> QED BY <1>6, <2>1, <2>2 DEF Cas, Swaps, TypeOK
<1>7. ASSUME NEW t \in Threads, RetryHigh(t) PROVE TypeOK'
  BY <1>7, <1>t, HighLow DEF RetryHigh, Goto, TypeOK, Steps
<1>8. ASSUME NEW t \in Threads, RetryP1(t) PROVE TypeOK'
  BY <1>8, <1>t, HighLow DEF RetryP1, ReloadedP1, Goto, TypeOK, Steps
<1>9. ASSUME NEW t \in Threads, RetryP2(t) PROVE TypeOK'
  <2>1. pc' \in [Threads -> Steps] /\ edge' \in [Threads -> Nat \ {0}]
    BY <1>9, LinkEndsType DEF RetryP2, Steps
  <2> QED BY <1>9, <1>t, <2>1 DEF RetryP2, TypeOK
<1>10. ASSUME NEW t \in Threads, CompressStep(t) PROVE TypeOK'
  <2>1. CASE Walk(t)
    BY <2>1 DEF Walk, Goto, TypeOK, Steps
  <2>2. CASE Reread(t)
    BY <2>2, <1>10, <1>t DEF Reread, Goto, TypeOK, Steps
  <2>3. CASE Write(t)
    <3>1. x[t] <= node[t]
      <4>1. x[t] < node[t]
        BY <2>3, <1>10 DEF Write, Knows, KnowsAt
      <4>2. x[t] \in Nat /\ node[t] \in Nat
        BY <1>10, <1>t, NodesFacts
      <4> QED BY <4>1, <4>2
    <3>2. comp' \in [Nodes -> Nodes] /\ \A n \in Nodes : comp'[n] <= n
      BY <2>3, <1>10, <3>1 DEF Write, TypeOK
    <3> QED BY <2>3, <1>10, <3>2 DEF Write, Goto, TypeOK, Steps
  <2> QED BY <1>10, <2>1, <2>2, <2>3 DEF CompressStep
<1>11. CASE Barrier
  BY <1>11 DEF Barrier, TypeOK, PhaseNames
<1>12. CASE Sample
  BY <1>12 DEF Sample, TypeOK, PhaseNames
<1>13. CASE UNCHANGED vars
  BY <1>13 DEF vars, TypeOK
<1> QED BY <1>1, <1>2, <1>3, <1>4, <1>5, <1>6, <1>7, <1>8, <1>9, <1>10, <1>11, <1>12, <1>13
        DEF Next, ThreadStep, LinkStep, Terminated
-----------------------------------------------------------------------------
(* A step of thread t leaves the locals of the others alone. *)
LEMMA OthersUnchanged ==
    ASSUME NEW t \in Threads, ThreadStep(t), TypeOK
    PROVE  /\ \A s \in Threads \ {t} :
                /\ pc'[s] = pc[s] /\ node'[s] = node[s] /\ edge'[s] = edge[s]
                /\ p1'[s] = p1[s] /\ p2'[s] = p2[s] /\ x'[s] = x[s]
           /\ neigh' = neigh /\ phase' = phase /\ round' = round /\ skip' = skip
           /\ todo' \subseteq todo
<1> USE DEF threadVars, Goto, LinkOrElse, LinkEnds, TypeOK
<1>1. ASSUME NEW n \in Nodes, Take(t, n)
      PROVE  /\ \A s \in Threads \ {t} :
                /\ pc'[s] = pc[s] /\ node'[s] = node[s] /\ edge'[s] = edge[s]
             /\ UNCHANGED <<neigh, phase, round, skip, p1, p2, x>> /\ todo' \subseteq todo
  BY <1>1 DEF Take
<1>2. CASE Check(t)
  BY <1>2 DEF Check
<1>3. CASE LoadU(t)
  BY <1>3 DEF LoadU
<1>4. CASE LoadV(t)
  BY <1>4 DEF LoadV
<1>5. CASE LoadHigh(t)
  BY <1>5 DEF LoadHigh
<1>6. CASE Cas(t)
  BY <1>6 DEF Cas, Swaps
<1>7. CASE RetryHigh(t)
  BY <1>7 DEF RetryHigh
<1>8. CASE RetryP1(t)
  BY <1>8 DEF RetryP1, ReloadedP1
<1>9. CASE RetryP2(t)
  BY <1>9 DEF RetryP2
<1>10. CASE CompressStep(t)
  BY <1>10 DEF CompressStep, Walk, Reread, Write
<1> QED BY <1>1, <1>2, <1>3, <1>4, <1>5, <1>6, <1>7, <1>8, <1>9, <1>10 DEF ThreadStep, LinkStep

(* The only stores to comp hook a root or shorten a path. *)
LEMMA CompStores ==
    ASSUME TypeOK, Knows, NEW t \in Threads, ThreadStep(t)
    PROVE  \/ comp' = comp
           \/ /\ pc[t] = "cas" /\ comp[High(t)] = High(t)
              /\ comp' = [comp EXCEPT ![High(t)] = Low(t)]
           \/ /\ pc[t] = "write" /\ comp[node[t]] # node[t]
              /\ JoinedBelow(comp, node[t], comp[node[t]], x[t])
              /\ comp' = [comp EXCEPT ![node[t]] = x[t]]
<1> USE DEF threadVars
<1>1. CASE Cas(t)
  BY <1>1 DEF Cas, Swaps
<1>2. CASE Write(t)
  BY <1>2 DEF Write, Knows, KnowsAt
<1>3. CASE ~Cas(t) /\ ~Write(t)
  BY <1>3 DEF ThreadStep, Take, Check, LinkStep, CompressStep, LoadU, LoadV, LoadHigh, RetryHigh,
              RetryP1, ReloadedP1, RetryP2, Walk, Reread
<1> QED BY <1>1, <1>2, <1>3

(* So no step takes a tree apart, below any node. *)
LEMMA StepKeepsClosed ==
    ASSUME TypeOK, Knows, [Next]_vars
    PROVE  \A k \in Nat, S \in SUBSET Nodes : ClosedBelow(comp', k, S) => ClosedBelow(comp, k, S)
<1>1. ASSUME NEW t \in Threads, ThreadStep(t)
      PROVE  \A k \in Nat, S \in SUBSET Nodes : ClosedBelow(comp', k, S) => ClosedBelow(comp, k, S)
  <2>1. comp \in [Nodes -> Nodes]
    BY DEF TypeOK
  <2>2. CASE pc[t] = "cas" /\ comp[High(t)] = High(t) /\ comp' = [comp EXCEPT ![High(t)] = Low(t)]
    BY <1>1, <2>1, <2>2, HighLow, StoreKeepsJoined
  <2>3. CASE /\ JoinedBelow(comp, node[t], comp[node[t]], x[t])
             /\ comp' = [comp EXCEPT ![node[t]] = x[t]]
    <3>1. node[t] \in Nodes /\ x[t] \in Nodes
      BY <1>1 DEF TypeOK
    <3> QED BY <2>1, <2>3, <3>1, StoreKeepsJoined
  <2> QED BY <1>1, <2>2, <2>3, CompStores
<1>2. CASE Barrier \/ Sample \/ UNCHANGED vars
  BY <1>2 DEF Barrier, Sample, vars
<1> QED BY <1>1, <1>2 DEF Next, Terminated

LEMMA StepKeepsJoined ==
    ASSUME TypeOK, Knows, [Next]_vars
    PROVE  \A k \in Nat, u, v \in Nodes : JoinedBelow(comp, k, u, v) => JoinedBelow(comp', k, u, v)
BY StepKeepsClosed DEF JoinedBelow

(* Whoever else compresses, the node that a compressing thread works on     *)
(* keeps its parent.                                                        *)
LEMMA ParentStays ==
    ASSUME TypeOK, Shape, Knows, NEW t \in Threads, ThreadStep(t), NEW s \in Threads, s # t,
           pc[s] \in CompressSteps
    PROVE  comp'[node[s]] = comp[node[s]]
<1>1. pc[t] # "cas"
  BY DEF Shape, ShapeAt, CompressSteps, LinkSteps
<1>2. pc[t] = "write" => node[t] # node[s]
  BY DEF Shape, CompressSteps
<1>3. node[s] \in Nodes
  BY DEF TypeOK
<1> QED BY <1>1, <1>2, <1>3, CompStores DEF TypeOK
-----------------------------------------------------------------------------
(* Where Link goes on within one call, or to the next edge. *)
LEMMA LinkGoesOn ==
    ASSUME TypeOK, NEW t \in Threads, NEW ends \in BOOLEAN, NEW step \in LinkSteps,
           LinkOrElse(t, ends, step)
    PROVE  \/ ~ends /\ pc'[t] = step /\ edge'[t] = edge[t]
           \/ ends /\ pc'[t] = "idle" /\ edge'[t] = edge[t]
                   /\ ~(phase = "rest" /\ edge[t] < Len(neigh[node[t]]))
           \/ ends /\ pc'[t] = "load_u" /\ edge'[t] = edge[t] + 1
                   /\ phase = "rest" /\ edge[t] < Len(neigh[node[t]])
<1>1. CASE ~ends
  BY <1>1 DEF LinkOrElse, Goto, TypeOK
<1>2. CASE ends /\ phase = "rest" /\ edge[t] < Len(neigh[node[t]])
  BY <1>2 DEF LinkOrElse, LinkEnds, Goto, TypeOK
<1>3. CASE ends /\ ~(phase = "rest" /\ edge[t] < Len(neigh[node[t]]))
  BY <1>3 DEF LinkOrElse, LinkEnds, Goto, TypeOK
<1> QED BY <1>1, <1>2, <1>3

LEMMA LinkKeepsShape ==
    ASSUME TypeOK, Shape, NEW t \in Threads, NEW ends \in BOOLEAN, NEW step \in LinkSteps,
           LinkOrElse(t, ends, step), pc[t] \in LinkSteps,
           UNCHANGED <<neigh, phase, round, todo, node>>
    PROVE  ShapeAt(t)'
<1>1. ShapeAt(t) /\ pc[t] # "idle"
  BY DEF Shape, LinkSteps
<1>2. node[t] \in Nodes /\ edge[t] \in Nat \ {0}
  BY DEF TypeOK
<1>3. DOMAIN neigh[node[t]] = 1 .. Len(neigh[node[t]]) /\ Len(neigh[node[t]]) \in Nat
  BY <1>2, GraphFacts
<1>4. pc'[t] \in LinkSteps \cup {"idle"}
  BY LinkGoesOn DEF LinkSteps
<1>5. pc'[t] \in LinkSteps => edge'[t] \in DOMAIN neigh[node[t]]
  BY <1>1, <1>2, <1>3, LinkGoesOn DEF ShapeAt, LinkSteps
<1>6. pc'[t] \in LinkSteps => phase = "rest" \/ (phase = "link" /\ edge'[t] = round + 1)
  BY <1>1, LinkGoesOn DEF ShapeAt, LinkSteps
<1> QED BY <1>1, <1>4, <1>5, <1>6 DEF ShapeAt, LinkSteps, CompressSteps

LEMMA ShapeStep ==
    ASSUME TypeOK, Shape, [Next]_vars PROVE Shape'
<1> USE DEF threadVars
<1>1. ASSUME NEW t \in Threads, ThreadStep(t) PROVE Shape'
  <2>1. ASSUME NEW s \in Threads \ {t} PROVE ShapeAt(s)'
    BY <1>1, <2>1, OthersUnchanged DEF Shape, ShapeAt
  <2>2. ASSUME NEW n \in Nodes, Take(t, n) PROVE Shape'
    <3>1. /\ pc'[t] \in {"idle", "load_u", "check", "walk"}
          /\ pc'[t] = "load_u" => phase = "link" /\ round < Len(neigh[n]) /\ edge'[t] = round + 1
          /\ pc'[t] = "check" => phase = "rest"
          /\ pc'[t] = "walk" => phase \in {"compress", "final"}
          /\ node'[t] = n /\ n \in todo /\ todo' = todo \ {n}
          /\ UNCHANGED <<neigh, phase, round>> /\ phase # "sample"
      BY <2>2 DEF Take, Goto, TypeOK
    <3>2. round < Len(neigh[n]) => round + 1 \in DOMAIN neigh[n]
      BY GraphFacts DEF TypeOK
    <3>3. ShapeAt(t)'
      BY <3>1, <3>2 DEF ShapeAt, LinkSteps, CompressSteps
    <3>4. \A s \in Threads \ {t} : pc[s] # "idle" => node[s] # n
      BY <3>1 DEF Shape, ShapeAt
    <3> QED BY <1>1, <2>1, <3>1, <3>3, <3>4, OthersUnchanged DEF Shape
  <2>3. ASSUME ShapeAt(t)', node' = node, todo' = todo, pc[t] # "idle" PROVE Shape'
    BY <1>1, <2>1, <2>3, OthersUnchanged DEF Shape
  <2>4. CASE Check(t)
    <3>1. NeighborRounds < Len(neigh[node[t]]) => NeighborRounds + 1 \in DOMAIN neigh[node[t]]
      BY GraphFacts, KernelAssumption, AfforestAssumption DEF TypeOK
    <3>2. ShapeAt(t)'
      BY <2>4, <3>1 DEF Check, Goto, Shape, ShapeAt, LinkSteps, CompressSteps, TypeOK
    <3> QED BY <2>3, <2>4, <3>2 DEF Check
  <2>5. CASE LoadU(t)
    BY <2>3, <2>5 DEF LoadU, Goto, Shape, ShapeAt, LinkSteps, CompressSteps, TypeOK
  <2>6. CASE LoadV(t)
    BY <2>3, <2>6, LinkKeepsShape DEF LoadV, LinkSteps
  <2>7. CASE LoadHigh(t)
    BY <2>3, <2>7, LinkKeepsShape DEF LoadHigh, LinkSteps
  <2>8. CASE Cas(t)
    BY <2>3, <2>8, LinkKeepsShape DEF Cas, Swaps, LinkSteps
  <2>9. CASE RetryHigh(t)
    BY <2>3, <2>9 DEF RetryHigh, Goto, Shape, ShapeAt, LinkSteps, CompressSteps, TypeOK
  <2>10. CASE RetryP1(t)
    BY <2>3, <2>10 DEF RetryP1, ReloadedP1, Goto, Shape, ShapeAt, LinkSteps, CompressSteps, TypeOK
  <2>11. CASE RetryP2(t)
    BY <2>3, <2>11, LinkKeepsShape DEF RetryP2, LinkSteps
  <2>12. CASE CompressStep(t)
    BY <2>3, <2>12 DEF CompressStep, Walk, Reread, Write, Goto, Shape, ShapeAt, LinkSteps,
                       CompressSteps, TypeOK
  <2> QED BY <1>1, <2>2, <2>4, <2>5, <2>6, <2>7, <2>8, <2>9, <2>10, <2>11, <2>12
          DEF ThreadStep, LinkStep
<1>2. CASE Barrier
  <2>1. \A t \in Threads : pc'[t] = "idle"
    BY <1>2 DEF Barrier
  <2>2. /\ phase' \in {"link", "compress"} => round' < NeighborRounds
        /\ phase' \in {"sample", "rest", "final", "done"} => round' = NeighborRounds
        /\ phase' = "sample" => todo' = Nodes
    BY <1>2, KernelAssumption, AfforestAssumption DEF Barrier, Shape, TypeOK
  <2> QED BY <2>1, <2>2 DEF Shape, ShapeAt, LinkSteps, CompressSteps
<1>3. CASE Sample
  BY <1>3 DEF Sample, Shape, ShapeAt, LinkSteps, CompressSteps
<1>4. CASE UNCHANGED vars
  BY <1>4 DEF vars, Shape, ShapeAt
<1> QED BY <1>1, <1>2, <1>3, <1>4 DEF Next, Terminated
-----------------------------------------------------------------------------
(* What a thread knows stays true when others move: joined stays joined,    *)
(* and its node keeps its parent.                                           *)
LEMMA KnowledgeLasts ==
    ASSUME TypeOK, Shape, Knows, [Next]_vars, NEW s \in Threads,
           neigh' = neigh,
           pc'[s] = pc[s] /\ node'[s] = node[s] /\ edge'[s] = edge[s],
           p1'[s] = p1[s] /\ p2'[s] = p2[s] /\ x'[s] = x[s],
           pc[s] \in CompressSteps => comp'[node[s]] = comp[node[s]]
    PROVE  KnowsAt(s)'
<1>1. KnowsAt(s)
  BY DEF Knows
<1>2. /\ node[s] \in Nodes /\ p1[s] \in Nodes /\ p2[s] \in Nodes /\ x[s] \in Nodes
      /\ High(s) \in Nodes /\ comp[node[s]] \in Nodes
  BY HighLow DEF TypeOK
<1>3. node[s] \in Nat /\ N \in Nat
  BY <1>2, NodesFacts
<1>4. pc[s] \in LinkSteps => Neighbor(s) \in Nodes
  BY <1>2, GraphFacts DEF Shape, ShapeAt, Neighbor
<1>5. Neighbor(s)' = Neighbor(s) /\ High(s)' = High(s)
  BY DEF Neighbor, High
<1>6. \A u, v \in Nodes : Joined(comp, u, v) => Joined(comp', u, v)
  BY <1>3, StepKeepsJoined DEF Joined
<1>7. pc[s] \in LinkSteps => \A a, b \in Nodes : AcrossEdge(s, a, b) =>
        \/ Joined(comp', node[s], a) /\ Joined(comp', Neighbor(s), b)
        \/ Joined(comp', node[s], b) /\ Joined(comp', Neighbor(s), a)
  BY <1>2, <1>4, <1>6 DEF AcrossEdge
<1>8. pc[s] = "write" => JoinedBelow(comp', node[s], comp[node[s]], x[s])
  BY <1>1, <1>2, <1>3, StepKeepsJoined DEF KnowsAt
<1> QED BY <1>1, <1>2, <1>5, <1>6, <1>7, <1>8
        DEF KnowsAt, AcrossEdge, LinkSteps, CompressSteps

(* When Link returns, the two ends of its edge are in one tree. *)
LinkDone(t) == Joined(comp', node[t], Neighbor(t))

LEMMA LinkReturns ==
    ASSUME TypeOK, Shape, Knows, [Next]_vars, NEW t \in Threads
    PROVE  /\ LoadV(t) /\ p1[t] = comp[Neighbor(t)] => LinkDone(t)
           /\ LoadHigh(t) /\ comp[High(t)] = Low(t) => LinkDone(t)
           /\ Cas(t) /\ comp[High(t)] = High(t) => LinkDone(t)
           /\ RetryP2(t) /\ p1[t] = comp[x[t]] => LinkDone(t)
<1> DEFINE u == node[t]
           v == Neighbor(t)
<1> SUFFICES ASSUME pc[t] \in LinkSteps
             PROVE  /\ LoadV(t) /\ p1[t] = comp[v] => LinkDone(t)
                    /\ LoadHigh(t) /\ comp[High(t)] = Low(t) => LinkDone(t)
                    /\ Cas(t) /\ comp[High(t)] = High(t) => LinkDone(t)
                    /\ RetryP2(t) /\ p1[t] = comp[x[t]] => LinkDone(t)
  BY DEF LoadV, LoadHigh, Cas, Swaps, RetryP2, LinkSteps
<1>1. /\ u \in Nodes /\ v \in Nodes /\ p1[t] \in Nodes /\ p2[t] \in Nodes /\ x[t] \in Nodes
      /\ \A n \in Nodes : comp[n] \in Nodes
  BY GraphFacts DEF TypeOK, Shape, ShapeAt, Neighbor
<1>2. \A a, b \in Nodes : /\ Joined(comp, a, b) => Joined(comp, b, a) /\ Joined(comp', a, b)
                          /\ Joined(comp, a, a)
                          /\ \A c \in Nodes : Joined(comp, a, b) /\ Joined(comp, b, c) => Joined(comp, a, c)
  BY StepKeepsJoined, JoinedEquivalence, NodesFacts DEF Joined
<1>3. \A n \in Nodes : Joined(comp, n, comp[n])
  BY JoinedParent, NodesFacts DEF Joined, TypeOK
<1>4. ASSUME LoadV(t), p1[t] = comp[v] PROVE LinkDone(t)
  <2>1. Joined(comp, u, p1[t]) /\ Joined(comp, v, comp[v])
    BY <1>1, <1>3, <1>4 DEF LoadV, Knows, KnowsAt
  <2> QED BY <1>1, <1>2, <1>4, <2>1 DEF LinkDone
<1>5. ASSUME AcrossEdge(t, p1[t], p2[t]), Joined(comp, High(t), Low(t)) PROVE LinkDone(t)
  <2>1. Joined(comp, p1[t], p2[t])
    BY <1>1, <1>2, <1>5, HighLow
  <2> QED BY <1>1, <1>2, <1>5, <2>1 DEF AcrossEdge, LinkDone
<1>6. ASSUME LoadHigh(t), comp[High(t)] = Low(t) PROVE LinkDone(t)
  BY <1>3, <1>5, <1>6, HighLow DEF LoadHigh, Knows, KnowsAt
<1>7. ASSUME Cas(t), comp[High(t)] = High(t) PROVE LinkDone(t)
  <2>1. comp'[High(t)] = Low(t) /\ comp' \in [Nodes -> Nodes] /\ High(t) \in Nodes /\ Low(t) \in Nodes
    BY <1>7, HighLow DEF Cas, Swaps, TypeOK
  <2>2. Joined(comp', High(t), Low(t))
    BY <2>1, JoinedParent, NodesFacts DEF Joined
  <2>3. AcrossEdge(t, p1[t], p2[t])
    BY <1>7 DEF Cas, Swaps, Knows, KnowsAt
  <2>4. \/ Joined(comp', u, p1[t]) /\ Joined(comp', v, p2[t])
        \/ Joined(comp', u, p2[t]) /\ Joined(comp', v, p1[t])
    BY <1>1, <1>2, <2>3 DEF AcrossEdge
  <2>5. \A a, b \in Nodes : /\ Joined(comp', a, b) => Joined(comp', b, a)
                            /\ \A c \in Nodes : Joined(comp', a, b) /\ Joined(comp', b, c) => Joined(comp', a, c)
    BY JoinedEquivalence, NodesFacts DEF Joined
  <2>6. Joined(comp', p1[t], p2[t])
    BY <1>1, <2>1, <2>2, <2>5, HighLow
  <2> QED BY <1>1, <2>4, <2>5, <2>6 DEF LinkDone
<1>8. ASSUME RetryP2(t), p1[t] = comp[x[t]] PROVE LinkDone(t)
  <2>1. AcrossEdge(t, p1[t], x[t]) /\ Joined(comp, x[t], p1[t])
    BY <1>1, <1>3, <1>8 DEF RetryP2, Knows, KnowsAt
  <2> QED BY <1>1, <1>2, <2>1 DEF AcrossEdge, LinkDone
<1> QED BY <1>4, <1>6, <1>7, <1>8

(* The relations a proof about one thread needs, all at once. *)
LEMMA JoinedFacts ==
    ASSUME TypeOK
    PROVE  \A a, b \in Nodes :
               /\ Joined(comp, a, a) /\ Joined(comp, a, comp[a])
               /\ Joined(comp, a, b) => Joined(comp, b, a)
               /\ \A c \in Nodes : Joined(comp, a, b) /\ Joined(comp, b, c) => Joined(comp, a, c)
<1>1. \A a \in Nodes : Joined(comp, a, comp[a])
  BY JoinedParent, NodesFacts DEF Joined, TypeOK
<1> QED BY <1>1, JoinedEquivalence, NodesFacts DEF Joined

LEMMA KnowsStep ==
    ASSUME TypeOK, Shape, Knows, [Next]_vars PROVE Knows'
<1> USE DEF threadVars
<1>1. ASSUME NEW t \in Threads, ThreadStep(t) PROVE Knows'
  <2>1. ASSUME NEW s \in Threads \ {t} PROVE KnowsAt(s)'
    BY <1>1, <2>1, OthersUnchanged, ParentStays, KnowledgeLasts
  <2> SUFFICES KnowsAt(t)'
    BY <2>1 DEF Knows
  <2>t. /\ node[t] \in Nodes /\ p1[t] \in Nodes /\ p2[t] \in Nodes /\ x[t] \in Nodes
        /\ \A n \in Nodes : comp[n] \in Nodes /\ comp[n] <= n /\ n \in Nat
        /\ pc[t] \in LinkSteps => Neighbor(t) \in Nodes
    BY GraphFacts, NodesFacts DEF TypeOK, Shape, ShapeAt, Neighbor
  <2>k. KnowsAt(t) /\ pc[t] \in Steps
    BY DEF Knows, TypeOK
  <2>0. ASSUME pc'[t] \in {"idle", "check", "load_u", "walk"} PROVE KnowsAt(t)'
    BY <2>0 DEF KnowsAt
  <2>2. ASSUME NEW n \in Nodes, Take(t, n) PROVE KnowsAt(t)'
    BY <2>0, <2>2 DEF Take, Goto, TypeOK
  <2>3. CASE Check(t)
    BY <2>0, <2>3 DEF Check, Goto, TypeOK
  <2>4. CASE LoadU(t)
    <3>1. pc'[t] = "load_v" /\ p1'[t] = comp[node[t]] /\ UNCHANGED <<comp, node>>
      BY <2>4 DEF LoadU, Goto, TypeOK
    <3> QED BY <2>t, <3>1, JoinedFacts DEF KnowsAt
  <2>5. CASE LoadV(t)
    <3>1. CASE p1[t] = comp[Neighbor(t)]
      BY <2>0, <2>5, <3>1, LinkGoesOn DEF LoadV, LinkSteps
    <3>2. CASE p1[t] # comp[Neighbor(t)]
      <4>1. /\ pc'[t] = "load_high" /\ p2'[t] = comp[Neighbor(t)] /\ edge'[t] = edge[t]
            /\ UNCHANGED <<neigh, comp, node, p1>> /\ pc[t] = "load_v"
        BY <2>5, <3>2, LinkGoesOn DEF LoadV, LinkSteps, TypeOK
      <4>2. Joined(comp, node[t], p1[t]) /\ Joined(comp, Neighbor(t), p2'[t])
        BY <2>t, <2>k, <4>1, JoinedFacts DEF KnowsAt, LinkSteps
      <4>3. AcrossEdge(t, p1[t], p2[t])'
        BY <4>1, <4>2 DEF AcrossEdge, Neighbor
      <4> QED BY <3>2, <4>1, <4>3 DEF KnowsAt
    <3> QED BY <3>1, <3>2
  <2>6. ASSUME pc[t] \in {"load_high", "cas"}, pc'[t] \in {"cas", "retry_high"},
               edge'[t] = edge[t], UNCHANGED <<neigh, comp, node, p1, p2>>
        PROVE  KnowsAt(t)'
    <3>1. AcrossEdge(t, p1[t], p2[t])'
      BY <2>k, <2>6 DEF KnowsAt, AcrossEdge, Neighbor
    <3> QED BY <2>k, <2>6, <3>1 DEF KnowsAt
  <2>7. CASE LoadHigh(t)
    <3>1. CASE comp[High(t)] = Low(t)
      BY <2>0, <2>7, <3>1, LinkGoesOn DEF LoadHigh, LinkSteps
    <3>2. CASE comp[High(t)] # Low(t)
      BY <2>6, <2>7, <3>2, LinkGoesOn DEF LoadHigh, LinkSteps
    <3> QED BY <3>1, <3>2
  <2>8. CASE Cas(t)
    <3>1. CASE comp[High(t)] = High(t)
      BY <2>0, <2>8, <3>1, LinkGoesOn DEF Cas, Swaps, LinkSteps
    <3>2. CASE comp[High(t)] # High(t)
      BY <2>6, <2>8, <3>2, LinkGoesOn DEF Cas, Swaps, LinkSteps
    <3> QED BY <3>1, <3>2
  <2>9. CASE RetryHigh(t)
    <3>1. /\ pc[t] = "retry_high" /\ pc'[t] = "retry_p1" /\ x'[t] = comp[High(t)]
          /\ UNCHANGED <<neigh, comp, node, edge, p1, p2>>
      BY <2>9 DEF RetryHigh, Goto, TypeOK
    <3>2. Joined(comp, High(t), x'[t]) /\ High(t)' = High(t)
      BY <3>1, HighLow, JoinedFacts DEF High
    <3>3. AcrossEdge(t, p1[t], p2[t])'
      BY <2>k, <3>1 DEF KnowsAt, AcrossEdge, Neighbor
    <3> QED BY <2>k, <3>1, <3>2, <3>3 DEF KnowsAt
  <2>10. CASE RetryP1(t)
    <3>1. /\ pc[t] = "retry_p1" /\ pc'[t] = "retry_p2" /\ p1'[t] = comp[x[t]] /\ x'[t] = Low(t)
          /\ UNCHANGED <<neigh, comp, node, edge>>
      BY <2>10 DEF RetryP1, ReloadedP1, Goto, TypeOK
    <3>2. AcrossEdge(t, High(t), Low(t))
      BY <2>k, <3>1, HighLow DEF KnowsAt, AcrossEdge
    <3>3. Joined(comp, High(t), comp[x[t]])
      BY <2>t, <2>k, <3>1, HighLow, JoinedFacts DEF KnowsAt
    <3>4. AcrossEdge(t, comp[x[t]], Low(t))
      BY <2>t, <3>1, <3>2, <3>3, HighLow, JoinedFacts DEF AcrossEdge, LinkSteps
    <3>5. AcrossEdge(t, p1[t], x[t])'
      BY <3>1, <3>4 DEF AcrossEdge, Neighbor
    <3> QED BY <3>1, <3>5 DEF KnowsAt
  <2>11. CASE RetryP2(t)
    <3>1. CASE p1[t] = comp[x[t]]
      BY <2>0, <2>11, <3>1, LinkGoesOn DEF RetryP2, LinkSteps
    <3>2. CASE p1[t] # comp[x[t]]
      <4>1. /\ pc'[t] = "load_high" /\ p2'[t] = comp[x[t]] /\ edge'[t] = edge[t]
            /\ UNCHANGED <<neigh, comp, node, p1>> /\ pc[t] = "retry_p2"
        BY <2>11, <3>2, LinkGoesOn DEF RetryP2, LinkSteps, TypeOK
      <4>2. AcrossEdge(t, p1[t], x[t]) /\ Joined(comp, x[t], comp[x[t]])
        BY <2>t, <2>k, <4>1, JoinedFacts DEF KnowsAt
      <4>3. AcrossEdge(t, p1[t], comp[x[t]])
        BY <2>t, <4>1, <4>2, JoinedFacts DEF AcrossEdge, LinkSteps
      <4>4. AcrossEdge(t, p1[t], p2[t])'
        BY <4>1, <4>3 DEF AcrossEdge, Neighbor
      <4> QED BY <3>2, <4>1, <4>4 DEF KnowsAt
    <3> QED BY <3>1, <3>2
  <2>12. CASE Walk(t)
    <3>1. CASE comp[node[t]] = comp[comp[node[t]]]
      BY <2>0, <2>12, <3>1 DEF Walk, Goto, TypeOK
    <3>2. CASE comp[node[t]] # comp[comp[node[t]]]
      BY <2>12, <3>2 DEF Walk, Goto, TypeOK, KnowsAt
    <3> QED BY <3>1, <3>2
  <2>13. CASE Reread(t)
    <3>1. /\ pc[t] = "reread" /\ pc'[t] = "write" /\ x'[t] = comp[comp[node[t]]]
          /\ UNCHANGED <<comp, node>>
      BY <2>13 DEF Reread, Goto, TypeOK
    <3>2. comp[node[t]] # node[t]
      BY <2>k, <3>1 DEF KnowsAt
    <3>3. comp[node[t]] < node[t] /\ comp[comp[node[t]]] < node[t] /\ node[t] \in Nat
      BY <2>t, <3>2
    <3>4. JoinedBelow(comp, node[t], comp[node[t]], comp[comp[node[t]]])
      BY <2>t, <3>3, JoinedParent DEF TypeOK
    <3> QED BY <3>1, <3>2, <3>3, <3>4 DEF KnowsAt
  <2>14. CASE Write(t)
    BY <2>0, <2>14 DEF Write, Goto, TypeOK
  <2> QED BY <1>1, <2>2, <2>3, <2>4, <2>5, <2>7, <2>8, <2>9, <2>10, <2>11, <2>12, <2>13, <2>14
          DEF ThreadStep, LinkStep, CompressStep
<1>2. CASE Barrier
  <2>1. \A t \in Threads : pc'[t] = "idle"
    BY <1>2 DEF Barrier
  <2> QED BY <2>1 DEF Knows, KnowsAt
<1>3. CASE Sample \/ UNCHANGED vars
  <2>1. ASSUME NEW s \in Threads PROVE KnowsAt(s)'
    BY <1>3, KnowledgeLasts DEF Sample, vars
  <2> QED BY <2>1 DEF Knows
<1> QED BY <1>1, <1>2, <1>3 DEF Next, Terminated
-----------------------------------------------------------------------------
(* Stores and loads of comp stay within a component. *)
LEMMA ConnFacts ==
    ASSUME TypeOK, Sound
    PROVE  \A a, b \in Nodes :
               /\ Conn(neigh, a, a) /\ Conn(neigh, a, comp[a])
               /\ Conn(neigh, a, b) => Conn(neigh, b, a)
               /\ \A c \in Nodes : Conn(neigh, a, b) /\ Conn(neigh, b, c) => Conn(neigh, a, c)
BY ConnEquivalence DEF Sound

LEMMA SoundStep ==
    ASSUME TypeOK, Shape, Knows, Sound, [Next]_vars PROVE Sound'
<1> USE DEF threadVars
<1>1. ASSUME NEW t \in Threads, ThreadStep(t) PROVE Sound'
  <2>t. /\ node[t] \in Nodes /\ p1[t] \in Nodes /\ p2[t] \in Nodes /\ x[t] \in Nodes
        /\ \A n \in Nodes : comp[n] \in Nodes
        /\ High(t) \in Nodes /\ Low(t) \in Nodes
    BY HighLow DEF TypeOK
  <2>v. pc[t] \in LinkSteps => Neighbor(t) \in Nodes /\ Conn(neigh, node[t], Neighbor(t))
    BY <2>t, GraphFacts, ConnEdge DEF Shape, ShapeAt, Neighbor
  <2>k. SoundAt(t) /\ neigh' = neigh
    BY <1>1, OthersUnchanged DEF Sound
  <2>1. ASSUME NEW s \in Threads \ {t} PROVE SoundAt(s)'
    BY <1>1, <2>1, OthersUnchanged DEF Sound, SoundAt
  <2>2. ASSUME NEW n \in Nodes PROVE Conn(neigh', n, comp'[n])
    <3>1. pc[t] = "cas" => Conn(neigh, High(t), Low(t))
      <4>1. pc[t] = "cas" => Conn(neigh, node[t], p1[t]) /\ Conn(neigh, node[t], p2[t])
        BY <2>k DEF SoundAt, LinkSteps
      <4> QED BY <2>t, <4>1, HighLow, ConnFacts
    <3>2. pc[t] = "write" => Conn(neigh, node[t], x[t])
      BY <2>k DEF SoundAt
    <3>3. comp'[n] = comp[n] \/ (pc[t] = "cas" /\ n = High(t) /\ comp'[n] = Low(t))
                             \/ (pc[t] = "write" /\ n = node[t] /\ comp'[n] = x[t])
      BY <1>1, CompStores DEF TypeOK
    <3> QED BY <2>k, <3>1, <3>2, <3>3 DEF Sound
  <2> SUFFICES SoundAt(t)'
    BY <2>1, <2>2 DEF Sound
  <2>0. ASSUME pc'[t] \in {"idle", "check", "load_u", "walk", "reread"} PROVE SoundAt(t)'
    BY <2>0 DEF SoundAt, LinkSteps
  <2>3. ASSUME NEW n \in Nodes, Take(t, n) PROVE SoundAt(t)'
    BY <2>0, <2>3 DEF Take, Goto, TypeOK
  <2>4. CASE Check(t)
    BY <2>0, <2>4 DEF Check, Goto, TypeOK
  <2>5. CASE LoadU(t)
    <3>1. pc'[t] = "load_v" /\ p1'[t] = comp[node[t]] /\ UNCHANGED <<neigh, node>>
      BY <2>5 DEF LoadU, Goto, TypeOK
    <3> QED BY <2>t, <3>1, ConnFacts DEF SoundAt, LinkSteps
  <2>6. ASSUME pc'[t] \in {"load_high", "cas", "retry_high"}, UNCHANGED <<neigh, node>>,
               Conn(neigh, node[t], p1'[t]), Conn(neigh, node[t], p2'[t])
        PROVE  SoundAt(t)'
    BY <2>6 DEF SoundAt
  <2>7. CASE LoadV(t)
    <3>1. p2'[t] = comp[Neighbor(t)] /\ UNCHANGED <<neigh, node, p1>> /\ pc[t] = "load_v"
      BY <2>7 DEF LoadV, TypeOK
    <3>2. Conn(neigh, node[t], p1'[t]) /\ Conn(neigh, node[t], p2'[t])
      BY <2>t, <2>v, <2>k, <3>1, ConnFacts DEF SoundAt, LinkSteps
    <3>3. pc'[t] \in {"idle", "load_u", "load_high"}
      BY <2>7, LinkGoesOn DEF LoadV, LinkSteps
    <3> QED BY <2>0, <2>6, <3>1, <3>2, <3>3
  <2>8. CASE LoadHigh(t)
    <3>1. UNCHANGED <<neigh, node, p1, p2>> /\ pc[t] = "load_high"
      BY <2>8 DEF LoadHigh
    <3>2. Conn(neigh, node[t], p1[t]) /\ Conn(neigh, node[t], p2[t])
      BY <2>k, <3>1 DEF SoundAt, LinkSteps
    <3>3. pc'[t] \in {"idle", "load_u", "cas", "retry_high"}
      BY <2>8, LinkGoesOn DEF LoadHigh, LinkSteps
    <3> QED BY <2>0, <2>6, <3>1, <3>2, <3>3
  <2>9. CASE Cas(t)
    <3>1. UNCHANGED <<neigh, node, p1, p2>> /\ pc[t] = "cas"
      BY <2>9 DEF Cas, Swaps
    <3>2. Conn(neigh, node[t], p1[t]) /\ Conn(neigh, node[t], p2[t])
      BY <2>k, <3>1 DEF SoundAt, LinkSteps
    <3>3. pc'[t] \in {"idle", "load_u", "retry_high"}
      BY <2>9, LinkGoesOn DEF Cas, Swaps, LinkSteps
    <3> QED BY <2>0, <2>6, <3>1, <3>2, <3>3
  <2>10. CASE RetryHigh(t)
    <3>1. /\ pc[t] = "retry_high" /\ pc'[t] = "retry_p1" /\ x'[t] = comp[High(t)]
          /\ UNCHANGED <<neigh, node, p1, p2>>
      BY <2>10 DEF RetryHigh, Goto, TypeOK
    <3>2. Conn(neigh, node[t], p1[t]) /\ Conn(neigh, node[t], p2[t])
      BY <2>k, <3>1 DEF SoundAt, LinkSteps
    <3>3. Conn(neigh, node[t], x'[t])
      BY <2>t, <3>1, <3>2, HighLow, ConnFacts
    <3> QED BY <3>1, <3>2, <3>3 DEF SoundAt
  <2>11. CASE RetryP1(t)
    <3>1. /\ pc[t] = "retry_p1" /\ pc'[t] = "retry_p2" /\ p1'[t] = comp[x[t]] /\ x'[t] = Low(t)
          /\ UNCHANGED <<neigh, node>>
      BY <2>11 DEF RetryP1, ReloadedP1, Goto, TypeOK
    <3>2. /\ Conn(neigh, node[t], p1[t]) /\ Conn(neigh, node[t], p2[t])
          /\ Conn(neigh, node[t], x[t])
      BY <2>k, <3>1 DEF SoundAt, LinkSteps
    <3>3. Conn(neigh, node[t], comp[x[t]]) /\ Conn(neigh, node[t], Low(t))
      BY <2>t, <3>2, HighLow, ConnFacts
    <3> QED BY <3>1, <3>3 DEF SoundAt, LinkSteps
  <2>12. CASE RetryP2(t)
    <3>1. p2'[t] = comp[x[t]] /\ UNCHANGED <<neigh, node, p1>> /\ pc[t] = "retry_p2"
      BY <2>12 DEF RetryP2, TypeOK
    <3>2. Conn(neigh, node[t], p1'[t]) /\ Conn(neigh, node[t], p2'[t])
      BY <2>t, <2>k, <3>1, ConnFacts DEF SoundAt, LinkSteps
    <3>3. pc'[t] \in {"idle", "load_u", "load_high"}
      BY <2>12, LinkGoesOn DEF RetryP2, LinkSteps
    <3> QED BY <2>0, <2>6, <3>1, <3>2, <3>3
  <2>13. CASE Walk(t) \/ Write(t)
    BY <2>0, <2>13 DEF Walk, Write, Goto, TypeOK
  <2>14. CASE Reread(t)
    <3>1. pc'[t] = "write" /\ x'[t] = comp[comp[node[t]]] /\ UNCHANGED <<neigh, node>>
      BY <2>14 DEF Reread, Goto, TypeOK
    <3>2. Conn(neigh, node[t], x'[t])
      BY <2>t, <3>1, ConnFacts
    <3> QED BY <3>1, <3>2 DEF SoundAt, LinkSteps
  <2> QED BY <1>1, <2>3, <2>4, <2>5, <2>7, <2>8, <2>9, <2>10, <2>11, <2>12, <2>13, <2>14
          DEF ThreadStep, LinkStep, CompressStep
<1>2. CASE Barrier
  BY <1>2 DEF Barrier, Sound, SoundAt, LinkSteps
<1>3. CASE Sample \/ UNCHANGED vars
  BY <1>3 DEF Sample, vars, Sound, SoundAt
<1> QED BY <1>1, <1>2, <1>3 DEF Next, Terminated
-----------------------------------------------------------------------------
(* A thread inside Link goes on, or returns with its edge linked.           *)
LEMMA LinkLeaves ==
    ASSUME TypeOK, Shape, Knows, NEW t \in Threads, ThreadStep(t), pc[t] \in LinkSteps
    PROVE  /\ UNCHANGED <<node, todo>>
           /\ \/ pc'[t] \in LinkSteps /\ edge'[t] = edge[t]
              \/ /\ LinkDone(t) /\ pc'[t] = "idle"
                 /\ ~(phase = "rest" /\ edge[t] < Len(neigh[node[t]]))
              \/ /\ LinkDone(t) /\ pc'[t] = "load_u" /\ edge'[t] = edge[t] + 1
                 /\ phase = "rest" /\ edge[t] < Len(neigh[node[t]])
<1> USE DEF threadVars
<1>n. [Next]_vars
  BY DEF Next
<1>1. CASE LoadU(t)
  BY <1>1 DEF LoadU, Goto, TypeOK, LinkSteps
<1>2. CASE LoadV(t)
  BY <1>2, <1>n, LinkGoesOn, LinkReturns DEF LoadV, LinkSteps
<1>3. CASE LoadHigh(t)
  BY <1>3, <1>n, LinkGoesOn, LinkReturns DEF LoadHigh, LinkSteps
<1>4. CASE Cas(t)
  BY <1>4, <1>n, LinkGoesOn, LinkReturns DEF Cas, Swaps, LinkSteps
<1>5. CASE RetryHigh(t) \/ RetryP1(t)
  BY <1>5 DEF RetryHigh, RetryP1, ReloadedP1, Goto, TypeOK, LinkSteps
<1>6. CASE RetryP2(t)
  BY <1>6, <1>n, LinkGoesOn, LinkReturns DEF RetryP2, LinkSteps
<1>7. CASE (\E n \in Nodes : Take(t, n)) \/ Check(t) \/ CompressStep(t)
  BY <1>7 DEF Take, Check, CompressStep, Walk, Reread, Write, LinkSteps
<1> QED BY <1>1, <1>2, <1>3, <1>4, <1>5, <1>6, <1>7 DEF ThreadStep, LinkStep

(* A node stays pending until its thread is done with it: linked in the     *)
(* round, without that many neighbours, skipped, or linked with all.        *)
LEMMA PendingLasts ==
    ASSUME TypeOK, Shape, Knows, Covered, NEW t \in Threads, ThreadStep(t),
           NEW u \in Nodes, Pending(u), phase \in {"link", "rest"}
    PROVE  \/ Pending(u)'
           \/ phase = "link" /\ round >= Len(neigh[u])
           \/ phase = "link" /\ round + 1 \in DOMAIN neigh[u] /\ Joined(comp', u, neigh[u][round + 1])
           \/ phase = "rest" /\ Joined(comp, u, skip)
           \/ phase = "rest" /\ \A i \in DOMAIN neigh[u] : Linked(u, i) \/ Joined(comp', u, neigh[u][i])
<1> USE DEF threadVars
<1>g. DOMAIN neigh[u] = 1 .. Len(neigh[u]) /\ Len(neigh[u]) \in Nat /\ round \in Nat
  BY GraphFacts DEF TypeOK
<1>1. ASSUME NEW n \in Nodes, Take(t, n) PROVE Pending(u)' \/ (phase = "link" /\ round >= Len(neigh[u]))
  <2>1. \/ pc'[t] # "idle"
        \/ phase = "link" /\ round >= Len(neigh[n])
    BY <1>1 DEF Take, Goto, TypeOK
  <2>2. pc[t] = "idle" /\ node'[t] = n /\ todo' = todo \ {n}
    BY <1>1 DEF Take, TypeOK
  <2> QED BY <2>1, <2>2, OthersUnchanged DEF Pending
<1>2. ASSUME UNCHANGED <<node, todo>>, ~Pending(u)'
      PROVE  node[t] = u /\ pc[t] # "idle" /\ pc'[t] = "idle"
  BY <1>2, OthersUnchanged DEF Pending
<1>3. CASE Check(t)
  <2> SUFFICES ASSUME ~Pending(u)'
               PROVE  \/ Joined(comp, u, skip)
                      \/ \A i \in DOMAIN neigh[u] : Linked(u, i)
    BY <1>3 DEF Check, Shape, ShapeAt
  <2>1. node[t] = u /\ pc'[t] = "idle"
    BY <1>2, <1>3 DEF Check
  <2>2. comp[u] = skip \/ NeighborRounds >= Len(neigh[u])
    BY <1>3, <1>g, <2>1, KernelAssumption, AfforestAssumption DEF Check, Goto, TypeOK
  <2>3. round = NeighborRounds
    BY <1>3 DEF Check, Shape, ShapeAt
  <2>4. CASE comp[u] = skip
    BY <2>4, JoinedFacts
  <2>5. CASE NeighborRounds >= Len(neigh[u])
    BY <1>g, <2>3, <2>5 DEF Covered
  <2> QED BY <2>2, <2>4, <2>5
<1>4. CASE pc[t] \in LinkSteps
  <2> SUFFICES ASSUME ~Pending(u)'
               PROVE  \/ /\ phase = "link" /\ round + 1 \in DOMAIN neigh[u]
                         /\ Joined(comp', u, neigh[u][round + 1])
                      \/ /\ phase = "rest"
                         /\ \A i \in DOMAIN neigh[u] : Linked(u, i) \/ Joined(comp', u, neigh[u][i])
    OBVIOUS
  <2>1. node[t] = u /\ pc'[t] = "idle"
    BY <1>2, <1>4, LinkLeaves
  <2>2. LinkDone(t) /\ ~(phase = "rest" /\ edge[t] < Len(neigh[u]))
    BY <1>4, <2>1, LinkLeaves DEF LinkSteps
  <2>3. edge[t] \in DOMAIN neigh[u] /\ (phase = "link" => edge[t] = round + 1)
    BY <1>4, <2>1 DEF Shape, ShapeAt
  <2>4. Joined(comp', u, neigh[u][edge[t]])
    BY <2>1, <2>2 DEF LinkDone, Neighbor
  <2>5. phase = "rest" => \A i \in DOMAIN neigh[u] : i < edge[t] => Linked(u, i)
    BY <1>4, <2>1 DEF Covered
  <2>6. phase = "rest" => \A i \in DOMAIN neigh[u] : i <= edge[t]
    BY <1>g, <2>2, <2>3
  <2> QED BY <1>g, <2>3, <2>4, <2>5, <2>6
<1>5. CASE CompressStep(t)
  BY <1>5 DEF CompressStep, Walk, Reread, Write, Shape, ShapeAt, CompressSteps
<1> QED BY <1>1, <1>3, <1>4, <1>5
        DEF ThreadStep, LinkStep, LoadU, LoadV, LoadHigh, Cas, Swaps, RetryHigh, RetryP1, ReloadedP1, RetryP2, LinkSteps

LEMMA CoveredStep ==
    ASSUME TypeOK, Shape, Knows, Covered, [Next]_vars PROVE Covered'
<1> USE DEF threadVars
<1>g. \A u \in Nodes : /\ DOMAIN neigh[u] = 1 .. Len(neigh[u]) /\ Len(neigh[u]) \in Nat
                       /\ \A i \in DOMAIN neigh[u] : neigh[u][i] \in Nodes
  BY GraphFacts
<1>r. round \in Nat /\ skip \in Nodes
  BY DEF TypeOK
<1>j. \A a, b \in Nodes : Joined(comp, a, b) => Joined(comp', a, b)
  BY StepKeepsJoined, NodesFacts DEF Joined
<1>l. \A u \in Nodes : \A i \in DOMAIN neigh[u] : Linked(u, i) => Joined(comp', u, neigh[u][i])
  BY <1>g, <1>j DEF Linked
<1>1. ASSUME NEW t \in Threads, ThreadStep(t) PROVE Covered'
  <2>0. UNCHANGED <<neigh, phase, round, skip>>
    BY <1>1, OthersUnchanged
  <2>1. ASSUME NEW u \in Nodes, NEW i \in DOMAIN neigh[u], phase = "link", i = round + 1
        PROVE  Pending(u)' \/ Linked(u, i)'
    <3>1. CASE Linked(u, i)
      BY <1>l, <2>0, <3>1 DEF Linked
    <3>2. CASE Pending(u)
      BY <1>1, <1>g, <1>r, <2>0, <2>1, <3>2, PendingLasts DEF Linked
    <3> QED BY <2>1, <3>1, <3>2 DEF Covered
  <2>2. ASSUME NEW s \in Threads, phase = "rest", pc'[s] \in LinkSteps,
               NEW i \in DOMAIN neigh[node'[s]], i < edge'[s]
        PROVE  Joined(comp', node'[s], neigh[node'[s]][i])
    <3>0. /\ node[s] \in Nodes /\ edge[s] \in Nat
          /\ Covered /\ NeighborRounds = round
      BY <2>2 DEF TypeOK, Shape
    <3>1. CASE s # t
      BY <1>1, <1>l, <2>0, <2>2, <3>0, <3>1, OthersUnchanged DEF Covered, Linked
    <3>2. CASE s = t /\ pc[t] \in LinkSteps
      <4>1. node' = node
        BY <1>1, <3>2, LinkLeaves
      <4>2. i < edge[s] => Linked(node[s], i)
        BY <2>2, <3>2, <4>1 DEF Covered
      <4>3. edge'[s] # edge[s] => edge'[s] = edge[s] + 1 /\ LinkDone(s)
        BY <1>1, <2>2, <3>2, LinkLeaves DEF LinkSteps
      <4>4. CASE i < edge[s]
        BY <1>l, <2>0, <2>2, <3>0, <4>1, <4>2, <4>4 DEF Linked
      <4>5. CASE ~(i < edge[s])
        <5>1. i = edge[s] /\ LinkDone(s)
          BY <1>g, <2>2, <3>0, <4>1, <4>3, <4>5
        <5> QED BY <2>0, <4>1, <5>1 DEF LinkDone, Linked, Neighbor
      <4> QED BY <4>4, <4>5
    <3>3. CASE s = t /\ pc[t] \notin LinkSteps
      <4>1. Check(t)
        BY <1>1, <2>2, <3>3 DEF ThreadStep, Take, Goto, TypeOK, LinkStep, CompressStep, LoadU, LoadV, LoadHigh, Cas, Swaps,
              RetryHigh, RetryP1, ReloadedP1, RetryP2, Walk, Reread, Write, LinkSteps, Steps
      <4>2. edge'[s] = NeighborRounds + 1 /\ node' = node
        BY <2>2, <3>3, <4>1 DEF Check, Goto, TypeOK, LinkSteps
      <4>3. i <= round
        BY <1>g, <1>r, <2>2, <3>0, <4>2
      <4> QED BY <1>l, <2>0, <2>2, <3>0, <4>2, <4>3 DEF Covered, Linked
    <3> QED BY <3>1, <3>2, <3>3
  <2>3. ASSUME NEW u \in Nodes, phase \in {"rest", "final", "done"}
        PROVE  \/ phase = "rest" /\ Pending(u)'
               \/ Joined(comp', u, skip)
               \/ \A i \in DOMAIN neigh[u] : Joined(comp', u, neigh[u][i])
    <3>1. CASE phase = "rest" /\ Pending(u)
      BY <1>1, <1>j, <1>l, <1>r, <3>1, PendingLasts
    <3>2. CASE ~(phase = "rest" /\ Pending(u))
      BY <1>j, <1>l, <1>r, <2>3, <3>2 DEF Covered
    <3> QED BY <3>1, <3>2
  <2>4. ASSUME NEW u \in Nodes, NEW i \in DOMAIN neigh[u], i <= round \/ (phase = "compress" /\ i = round + 1)
        PROVE  Linked(u, i)'
    BY <1>l, <2>0, <2>4 DEF Covered, Linked
  <2>5. \A s \in Threads : (phase = "rest" /\ pc[s] \in LinkSteps)' =>
            \A i \in DOMAIN neigh'[node'[s]] : i < edge'[s] => Linked(node[s], i)'
    BY <2>0, <2>2 DEF Linked
  <2>6. \A u \in Nodes : \A i \in DOMAIN neigh'[u] :
          /\ i <= round' => Linked(u, i)'
          /\ phase' = "link" /\ i = round' + 1 => Pending(u)' \/ Linked(u, i)'
          /\ phase' = "compress" /\ i = round' + 1 => Linked(u, i)'
    BY <2>0, <2>1, <2>4
  <2>7. phase' \in {"rest", "final", "done"} =>
          \A u \in Nodes : \/ phase' = "rest" /\ Pending(u)'
                           \/ Joined(comp', u, skip')
                           \/ \A i \in DOMAIN neigh'[u] : Linked(u, i)'
    BY <2>0, <2>3 DEF Linked
  <2> QED BY <2>5, <2>6, <2>7 DEF Covered
<1>2. CASE Barrier
  <2>0. todo = {} /\ (\A t \in Threads : pc[t] = "idle" /\ pc'[t] = "idle") /\ UNCHANGED <<neigh, comp, skip>>
    BY <1>2 DEF Barrier
  <2>1. \A u \in Nodes : ~Pending(u)
    BY <2>0 DEF Pending
  <2>2. CASE phase = "link"
    <3>1. phase' = "compress" /\ round' = round
      BY <1>2, <2>2 DEF Barrier
    <3> QED BY <2>0, <2>1, <2>2, <3>1 DEF Covered, Linked, LinkSteps
  <2>3. CASE phase = "compress"
    <3>1. phase' \in {"link", "sample"} /\ round' = round + 1 /\ todo' = Nodes
      BY <1>2, <2>3 DEF Barrier
    <3>2. \A u \in Nodes : Pending(u)'
      BY <3>1 DEF Pending
    <3>3. \A u \in Nodes : \A i \in DOMAIN neigh[u] : i <= round + 1 => i <= round \/ i = round + 1
      BY <1>g, <1>r
    <3> QED BY <2>0, <2>3, <3>1, <3>2, <3>3 DEF Covered, Linked, LinkSteps
  <2>4. CASE phase = "rest"
    <3>1. phase' = "final" /\ round' = round
      BY <1>2, <2>4 DEF Barrier
    <3> QED BY <2>0, <2>1, <2>4, <3>1 DEF Covered, Linked, LinkSteps
  <2>5. CASE phase = "final"
    <3>1. phase' = "done" /\ round' = round
      BY <1>2, <2>5 DEF Barrier
    <3> QED BY <2>0, <2>1, <2>5, <3>1 DEF Covered, Linked, LinkSteps
  <2> QED BY <1>2, <2>2, <2>3, <2>4, <2>5 DEF Barrier
<1>3. CASE Sample
  <2>1. /\ phase = "sample" /\ phase' = "rest" /\ UNCHANGED <<neigh, comp, round, todo, pc, node, edge>>
        /\ todo = Nodes
    BY <1>3 DEF Sample, Shape
  <2>2. \A t \in Threads : pc[t] \notin LinkSteps
    BY <2>1 DEF Shape, ShapeAt
  <2>3. \A u \in Nodes : Pending(u)'
    BY <2>1 DEF Pending
  <2> QED BY <2>1, <2>2, <2>3 DEF Covered, Linked
<1>4. CASE UNCHANGED vars
  BY <1>4 DEF vars, Covered, Linked, Pending
<1> QED BY <1>1, <1>2, <1>3, <1>4 DEF Next, Terminated
-----------------------------------------------------------------------------
(* In the last Compress no one hooks a root, so a node below a root stays   *)
(* there, and a thread leaves its node only there.                          *)
LEMMA FlatStep ==
    ASSUME TypeOK, Shape, Knows, Flat, [Next]_vars PROVE Flat'
<1> USE DEF threadVars
<1>1. ASSUME NEW t \in Threads, ThreadStep(t) PROVE Flat'
  <2>0. phase' = phase /\ todo' \subseteq todo
    BY <1>1, OthersUnchanged
  <2> SUFFICES ASSUME phase \in {"final", "done"}, NEW n \in Nodes
               PROVE  (phase = "final" /\ Pending(n)') \/ comp'[comp'[n]] = comp'[n]
    BY <2>0 DEF Flat
  <2>1. pc[t] \notin LinkSteps \cup {"check"}
    BY DEF Shape, ShapeAt
  <2>2. \A m \in Nodes : comp'[m] = comp[m] \/ (pc[t] = "write" /\ m = node[t] /\ comp[m] # m)
    BY <1>1, <2>1, CompStores DEF LinkSteps, TypeOK
  <2>3. CASE pc[t] = "write" /\ n = node[t]
    <3>1. Write(t)
      BY <1>1, <2>3 DEF ThreadStep, Take, Check, LinkStep, CompressStep, LoadU, LoadV, LoadHigh, Cas, Swaps,
          RetryHigh, RetryP1, ReloadedP1, RetryP2, Walk, Reread
    <3>2. pc'[t] = "walk" /\ node'[t] = n
      BY <2>3, <3>1 DEF Write, Goto, TypeOK
    <3>3. phase = "final"
      BY <2>3 DEF Shape, ShapeAt, CompressSteps
    <3> QED BY <3>2, <3>3 DEF Pending
  <2>4. CASE ~(pc[t] = "write" /\ n = node[t]) /\ comp[comp[n]] = comp[n]
    <3>1. comp'[n] = comp[n] /\ comp[n] \in Nodes
      BY <2>2, <2>4 DEF TypeOK
    <3>2. comp'[comp[n]] = comp[n]
      BY <2>2, <2>4, <3>1
    <3> QED BY <3>1, <3>2
  <2>5. CASE /\ ~(pc[t] = "write" /\ n = node[t]) /\ comp[comp[n]] # comp[n]
             /\ phase = "final" /\ Pending(n)
    <3>1. ASSUME NEW m \in Nodes, Take(t, m) PROVE Pending(n)'
      <4>1. pc[t] = "idle" /\ pc'[t] # "idle" /\ node'[t] = m /\ todo' = todo \ {m}
        BY <2>5, <3>1 DEF Take, Goto, TypeOK
      <4> QED BY <1>1, <2>5, <4>1, OthersUnchanged DEF Pending
    <3>2. ASSUME CompressStep(t) PROVE Pending(n)'
      <4>1. node' = node /\ todo' = todo
        BY <3>2 DEF CompressStep, Walk, Reread, Write
      <4>2. node[t] = n => pc'[t] # "idle"
        BY <2>5, <3>2 DEF CompressStep, Walk, Reread, Write, Goto, TypeOK
      <4> QED BY <1>1, <2>5, <4>1, <4>2, OthersUnchanged DEF Pending
    <3> QED BY <1>1, <2>1, <2>5, <3>1, <3>2 DEF ThreadStep, LinkStep, Check, LoadU, LoadV, LoadHigh, Cas, Swaps,
                                     RetryHigh, RetryP1, ReloadedP1, RetryP2, LinkSteps
  <2> QED BY <2>3, <2>4, <2>5 DEF Flat
<1>2. CASE Barrier
  <2>1. phase' = "final" => todo' = Nodes
    BY <1>2 DEF Barrier
  <2>2. phase' = "done" => phase = "final" /\ \A n \in Nodes : ~Pending(n)
    BY <1>2 DEF Barrier, Pending
  <2>3. comp' = comp
    BY <1>2 DEF Barrier
  <2> QED BY <2>1, <2>2, <2>3 DEF Flat, Pending
<1>3. CASE Sample
  BY <1>3 DEF Sample, Flat
<1>4. CASE UNCHANGED vars
  BY <1>4 DEF vars, Flat, Pending
<1> QED BY <1>1, <1>2, <1>3, <1>4 DEF Next, Terminated
-----------------------------------------------------------------------------
LEMMA InitIInv == Init => IInv
<1> SUFFICES ASSUME Init PROVE IInv
  OBVIOUS
<1> USE DEF Init
<1>1. TypeOK
  BY NodesFacts DEF TypeOK, PhaseNames, Steps
<1>2. Shape
  BY KernelAssumption, AfforestAssumption DEF Shape, ShapeAt, LinkSteps, CompressSteps
<1>3. Knows
  BY DEF Knows, KnowsAt
<1>4. Sound
  BY ConnEquivalence DEF Sound, SoundAt, LinkSteps
<1>5. Covered
  <2>1. \A u \in Nodes : Pending(u)
    BY DEF Pending
  <2>2. \A u \in Nodes : \A i \in DOMAIN neigh[u] : ~(i <= round)
    BY <1>1, GraphFacts
  <2> QED BY <2>1, <2>2 DEF Covered, LinkSteps
<1>6. Flat
  BY DEF Flat
<1> QED BY <1>1, <1>2, <1>3, <1>4, <1>5, <1>6 DEF IInv

LEMMA StepIInv == IInv /\ [Next]_vars => IInv'
BY TypeStep, ShapeStep, KnowsStep, SoundStep, CoveredStep, FlatStep DEF IInv

LEMMA AlwaysIInv == Spec => []IInv
BY InitIInv, StepIInv, PTL DEF Spec

(* The types hold in every state, for every number of nodes and threads.    *)
THEOREM TypeCorrect == Spec => []TypeOK
<1>1. IInv => TypeOK
  BY DEF IInv
<1> QED BY <1>1, AlwaysIInv, PTL
-----------------------------------------------------------------------------
(* At the end both ends of every edge are in one tree: linked, or both in   *)
(* the tree of the component that was skipped.                              *)
LEMMA EdgesJoined ==
    ASSUME IInv, phase = "done", NEW u \in Nodes, NEW i \in DOMAIN neigh[u]
    PROVE  Joined(comp, u, neigh[u][i])
<1> DEFINE v == neigh[u][i]
<1>1. TypeOK /\ Covered
  BY DEF IInv
<1>2. v \in Nodes /\ skip \in Nodes
  BY <1>1, GraphFacts DEF TypeOK
<1>3. PICK j \in DOMAIN neigh[v] : neigh[v][j] = u
  BY <1>1, GraphFacts DEF Undirected
<1>4. \/ Joined(comp, u, v)
      \/ Joined(comp, v, u)
      \/ Joined(comp, u, skip) /\ Joined(comp, v, skip)
  <2>1. Joined(comp, u, skip) \/ Linked(u, i)
    BY <1>1 DEF Covered
  <2>2. Joined(comp, v, skip) \/ Linked(v, j)
    BY <1>1, <1>2 DEF Covered
  <2> QED BY <1>3, <2>1, <2>2 DEF Linked
<1> QED BY <1>1, <1>2, <1>4, JoinedFacts

(* So connected nodes are in one tree, since a set of whole trees is closed *)
(* under edges, and every tree has been flattened to a star.                *)
LEMMA ConnectedLabels ==
    ASSUME IInv, phase = "done", NEW u \in Nodes, NEW v \in Nodes
    PROVE  Conn(neigh, u, v) <=> comp[u] = comp[v]
<1>1. TypeOK /\ Sound /\ Flat
  BY DEF IInv
<1>2. comp[u] \in Nodes /\ comp[v] \in Nodes
  BY <1>1 DEF TypeOK
<1>3. ASSUME comp[u] = comp[v] PROVE Conn(neigh, u, v)
  <2>1. Conn(neigh, u, comp[u]) /\ Conn(neigh, v, comp[v])
    BY <1>1 DEF Sound
  <2> QED BY <1>1, <1>2, <1>3, <2>1, ConnFacts
<1>4. ASSUME Conn(neigh, u, v) PROVE comp[u] = comp[v]
  <2> DEFINE S(a) == {n \in Nodes : comp[n] = comp[a]}
  <2>1. \A n \in Nodes : comp[n] \in Nodes /\ comp[comp[n]] = comp[n]
    BY <1>1 DEF TypeOK, Flat
  <2>2. ASSUME NEW a \in Nodes, NEW i \in DOMAIN neigh[a]
        PROVE  neigh[a][i] \in Nodes /\ comp[a] = comp[neigh[a][i]]
    <3>1. ClosedBelow(comp, N, S(a)) /\ S(a) \in SUBSET Nodes
      BY <2>1 DEF ClosedBelow
    <3>2. neigh[a][i] \in Nodes /\ Joined(comp, a, neigh[a][i])
      BY <1>1, EdgesJoined, GraphFacts
    <3>3. a \in S(a) <=> neigh[a][i] \in S(a)
      <4> HIDE DEF S
      <4> QED BY <3>1, <3>2 DEF Joined, JoinedBelow
    <3> QED BY <3>2, <3>3
  <2> HIDE DEF S
  <2>3. ConnectedIn(Nodes, neigh, u, v)
    BY <1>4 DEF Conn
  <2>4. AgreeAlongEdges(comp, Nodes, neigh)
    BY <2>2 DEF AgreeAlongEdges
  <2> QED BY <2>3, <2>4, LabelsAlongEdges
<1> QED BY <1>3, <1>4

LEMMA DoneIsCorrect ==
    ASSUME IInv, phase = "done"
    PROVE  LabelsComponents(comp, Nodes, neigh) /\ LabelsWithLeast(comp, Nodes, neigh)
<1>1. LabelsComponents(comp, Nodes, neigh)
  BY ConnectedLabels DEF LabelsComponents, Conn
<1>2. ASSUME NEW u \in Nodes, NEW v \in Nodes, ConnectedIn(Nodes, neigh, u, v) PROVE comp[u] <= v
  <2>1. comp[u] = comp[v]
    BY <1>2, ConnectedLabels DEF Conn
  <2> QED BY <2>1 DEF IInv, TypeOK
<1> QED BY <1>1, <1>2 DEF LabelsWithLeast

(* Whatever the schedule, the labels of Afforest are those of the connected *)
(* components when it ends, each the least node of its own.                 *)
THEOREM AfforestCorrect == Spec => []ComponentsFound
<1>1. ASSUME IInv, phase = "done" 
      PROVE  /\ LabelsComponents(comp, Nodes, neigh) /\ LabelsWithLeast(comp, Nodes, neigh)
             /\ VerifierAccepts
  <2>1. Undirected(Nodes, neigh)
    BY <1>1, KernelAssumption, AfforestAssumption DEF IInv, TypeOK
  <2>2. LabelsComponents(comp, Nodes, neigh) /\ LabelsWithLeast(comp, Nodes, neigh)
    BY <1>1, DoneIsCorrect
  <2> QED BY <2>1, <2>2, CCVerifierExact DEF VerifierAccepts
<1>2. IInv => ComponentsFound
  BY <1>1 DEF ComponentsFound
<1> QED BY <1>2, AlwaysIInv, PTL

(* No step of any thread takes a tree apart.                                *)
THEOREM ForestOnlyMerges == Spec => TreesOnlyMerge
<1>1. IInv /\ [Next]_vars => [\A S \in SUBSET Nodes : UnionOfTrees(S)' => UnionOfTrees(S)]_comp
  <2> SUFFICES ASSUME IInv, [Next]_vars, NEW S \in SUBSET Nodes, UnionOfTrees(S)'
               PROVE  UnionOfTrees(S)
    OBVIOUS
  <2>1. ClosedBelow(comp', N, S)
    BY DEF UnionOfTrees, ClosedBelow
  <2>2. ClosedBelow(comp, N, S)
    BY <2>1, StepKeepsClosed, NodesFacts DEF IInv
  <2> QED BY <2>2, NodesFacts DEF UnionOfTrees, ClosedBelow
<1> QED BY <1>1, AlwaysIInv, PTL DEF Spec, TreesOnlyMerge
-----------------------------------------------------------------------------
(* Shiloach-Vishkin computes the connected components, for every graph,     *)
(* number of threads and schedule.  What makes it correct in spite of the   *)
(* overwritten hooks is the last iteration: it starts from stars, and as    *)
(* long as nobody hooks, every label a thread compares is a root, so it     *)
(* would hook if two labels differed.                                       *)
SVConn(u, v) == ConnectedIn(Nodes, neigh, u, v)

HookSteps == {"load_u", "load_v", "test", "hook"}
SVCompressSteps == {"walk", "reread", "write"}

Edges(u) == DOMAIN neigh[u]
Other(t) == neigh[node[t]][edge[t]]
Busy(t, u) == pc[t] # "idle" /\ node[t] = u
SVPending(u) == u \in todo \/ \E t \in Threads : Busy(t, u)
-----------------------------------------------------------------------------
(* Which thread may be at which step in which loop; no node is two threads'. *)
SVShapeAt(t) ==
    /\ pc[t] # "idle" => node[t] \notin todo
    /\ pc[t] \in SVCompressSteps => phase = "compress"
    /\ pc[t] \in HookSteps => phase = "hook" /\ edge[t] \in Edges(node[t])

SVShape ==
    /\ phase = "done" => todo = {}
    /\ \A t \in Threads : SVShapeAt(t)
    /\ \A s, t \in Threads : s # t /\ pc[s] # "idle" /\ pc[t] # "idle" => node[s] # node[t]

(* What a thread holds is of the component of its node; a hook goes from a  *)
(* label to a smaller one and a path gets shorter.                          *)
SVKnowsAt(t) ==
    /\ pc[t] \in {"load_v", "test", "hook"} => SVConn(node[t], compU[t])
    /\ pc[t] \in {"test", "hook"} => SVConn(node[t], compV[t]) /\ compU[t] # compV[t]
    /\ pc[t] \in {"reread", "write"} => comp[node[t]] # node[t]
    /\ pc[t] = "write" => x[t] < node[t] /\ SVConn(node[t], x[t])

SVKnows ==
    /\ \A n \in Nodes : SVConn(n, comp[n])
    /\ \A t \in Threads : SVKnowsAt(t)

(* An iteration starts from stars, which stay until somebody hooks; the     *)
(* compressing loop makes stars again, node by node.                        *)
Star(n) == comp[comp[n]] = comp[n]

Stars ==
    /\ phase = "done" => ~change
    /\ ~change => \A n \in Nodes : Star(n)
    /\ phase = "compress" => \A n \in Nodes : SVPending(n) \/ Star(n)

(* While nobody has hooked, every label read is current, and no edge that   *)
(* has been looked at leads to another label.                               *)
Agrees(u, i) == comp[u] = comp[neigh[u][i]]

QuietAt(t) ==
    /\ pc[t] \in HookSteps => \A i \in Edges(node[t]) : i < edge[t] => Agrees(node[t], i)
    /\ pc[t] \in {"load_v", "test"} => compU[t] = comp[node[t]]
    /\ pc[t] = "test" => compV[t] = comp[Other(t)]
    /\ pc[t] \notin {"reread", "write"}

Quiet ==
    ~change =>
        /\ \A t \in Threads : QuietAt(t)
        /\ \A u \in Nodes : (phase = "hook" /\ SVPending(u)) \/ \A i \in Edges(u) : Agrees(u, i)

SVIInv == SVTypeOK /\ SVShape /\ SVKnows /\ Stars /\ Quiet
-----------------------------------------------------------------------------
LEMMA SVGraphFacts ==
    ASSUME SVTypeOK
    PROVE  /\ Undirected(Nodes, neigh)
           /\ \A u \in Nodes : /\ neigh[u] \in Seq(Nodes) /\ Len(neigh[u]) \in Nat
                               /\ Edges(u) = 1 .. Len(neigh[u])
                               /\ \A i \in Edges(u) : neigh[u][i] \in Nodes /\ SVConn(u, neigh[u][i])
<1>1. Undirected(Nodes, neigh)
  BY KernelAssumption DEF SVTypeOK
<1>2. \A u \in Nodes : neigh[u] \in Seq(Nodes)
  BY <1>1 DEF Undirected
<1> QED BY <1>1, <1>2, ConnectedEdge DEF Edges, SVConn

LEMMA SVConnFacts ==
    ASSUME SVTypeOK
    PROVE  \A a, b \in Nodes :
               /\ SVConn(a, a)
               /\ SVConn(a, b) => SVConn(b, a)
               /\ \A c \in Nodes : SVConn(a, b) /\ SVConn(b, c) => SVConn(a, c)
BY ConnectedEquivalence DEF SVConn

(* HighComp and LowComp are compU and compV in order. *)
LEMMA SVHighLow ==
    ASSUME SVTypeOK, NEW t \in Threads
    PROVE  /\ HighComp(t) \in Nodes /\ LowComp(t) \in Nodes /\ LowComp(t) <= HighComp(t)
           /\ \/ HighComp(t) = compU[t] /\ LowComp(t) = compV[t]
              \/ HighComp(t) = compV[t] /\ LowComp(t) = compU[t]
<1>1. compU[t] \in Nat /\ compV[t] \in Nat /\ compU[t] \in Nodes /\ compV[t] \in Nodes
  BY NodesFacts DEF SVTypeOK
<1> QED BY <1>1 DEF HighComp, LowComp

LEMMA ThreadFacts ==
    ASSUME SVTypeOK, SVShape, NEW t \in Threads
    PROVE  /\ node[t] \in Nodes /\ compU[t] \in Nodes /\ compV[t] \in Nodes /\ x[t] \in Nodes
           /\ edge[t] \in Nat \ {0}
           /\ \A n \in Nodes : comp[n] \in Nodes /\ comp[n] <= n /\ n \in Nat
           /\ pc[t] \in HookSteps => Other(t) \in Nodes /\ SVConn(node[t], Other(t))
BY SVGraphFacts, NodesFacts DEF SVTypeOK, SVShape, SVShapeAt, Other

(* Where the hooking loop goes on. *)
LEMMA GoesOn ==
    ASSUME SVTypeOK, NEW t \in Threads, NEW next \in BOOLEAN, NEW step \in {"test", "hook"},
           NextEdgeOrElse(t, next, step)
    PROVE  /\ \/ ~next /\ pc'[t] = step /\ edge'[t] = edge[t]
              \/ next /\ pc'[t] = "load_u" /\ edge'[t] = edge[t] + 1 /\ edge[t] < Len(neigh[node[t]])
              \/ next /\ pc'[t] = "idle" /\ edge'[t] = edge[t] /\ ~(edge[t] < Len(neigh[node[t]]))
           /\ \A s \in Threads \ {t} : pc'[s] = pc[s] /\ edge'[s] = edge[s]
           /\ pc' \in [Threads -> SVSteps] /\ edge' \in [Threads -> Nat \ {0}]
<1>0. edge[t] \in Nat \ {0} /\ edge[t] + 1 \in Nat \ {0}
  BY DEF SVTypeOK
<1>1. CASE ~next
  BY <1>1 DEF NextEdgeOrElse, Goto, SVTypeOK, SVSteps
<1>2. CASE next /\ edge[t] < Len(neigh[node[t]])
  BY <1>0, <1>2 DEF NextEdgeOrElse, NextEdge, Goto, SVTypeOK, SVSteps
<1>3. CASE next /\ ~(edge[t] < Len(neigh[node[t]]))
  BY <1>3 DEF NextEdgeOrElse, NextEdge, Goto, SVTypeOK, SVSteps
<1> QED BY <1>1, <1>2, <1>3

(* Hook goes on as the others do. *)
LEMMA HookGoesOn ==
    ASSUME NEW t \in Threads, Hook(t) PROVE NextEdgeOrElse(t, TRUE, "test")
BY DEF Hook, NoteHook, NextEdgeOrElse

LEMMA SVTypeStep == SVTypeOK /\ SVShape /\ SVKnows /\ [SVNext]_SVvars => SVTypeOK'
<1> SUFFICES ASSUME SVTypeOK, SVShape, SVKnows, [SVNext]_SVvars PROVE SVTypeOK'
  OBVIOUS
<1> USE DEF SVthreadVars
<1>1. ASSUME NEW t \in Threads, NEW n \in Nodes, SVTake(t, n) PROVE SVTypeOK'
  BY <1>1 DEF SVTake, Goto, SVTypeOK, SVSteps
<1>2. ASSUME NEW t \in Threads, SVLoadU(t) PROVE SVTypeOK'
  BY <1>2, ThreadFacts DEF SVLoadU, Goto, SVTypeOK, SVSteps
<1>3. ASSUME NEW t \in Threads, SVLoadV(t) PROVE SVTypeOK'
  <2>1. comp[Other(t)] \in Nodes
    BY <1>3, ThreadFacts DEF SVLoadV, HookSteps
  <2>2. compV' \in [Threads -> Nodes]
    BY <1>3, <2>1 DEF SVLoadV, SVTypeOK, Other
  <2>3. pc' \in [Threads -> SVSteps] /\ edge' \in [Threads -> Nat \ {0}]
    BY <1>3, GoesOn DEF SVLoadV
  <2> QED BY <1>3, <2>2, <2>3 DEF SVLoadV, SVTypeOK
<1>4. ASSUME NEW t \in Threads, Test(t) PROVE SVTypeOK'
  <2>1. pc' \in [Threads -> SVSteps] /\ edge' \in [Threads -> Nat \ {0}]
    BY <1>4, GoesOn DEF Test
  <2> QED BY <1>4, <2>1 DEF Test, SVTypeOK
<1>5. ASSUME NEW t \in Threads, Hook(t) PROVE SVTypeOK'
  <2>1. pc' \in [Threads -> SVSteps] /\ edge' \in [Threads -> Nat \ {0}]
    BY <1>5, GoesOn, HookGoesOn
  <2>2. comp' \in [Nodes -> Nodes] /\ \A n \in Nodes : comp'[n] <= n
    BY <1>5, SVHighLow DEF Hook, NoteHook, SVTypeOK
  <2> QED BY <1>5, <2>1, <2>2 DEF Hook, NoteHook, SVTypeOK
<1>6. ASSUME NEW t \in Threads, SVWalk(t) \/ SVReread(t) PROVE SVTypeOK'
  BY <1>6, ThreadFacts DEF SVWalk, SVReread, Goto, SVTypeOK, SVSteps
<1>7. ASSUME NEW t \in Threads, SVWrite(t) PROVE SVTypeOK'
  <2>1. x[t] <= node[t] /\ x[t] \in Nodes
    BY <1>7, ThreadFacts DEF SVWrite, SVKnows, SVKnowsAt
  <2>2. comp' \in [Nodes -> Nodes] /\ \A n \in Nodes : comp'[n] <= n
    BY <1>7, <2>1 DEF SVWrite, SVTypeOK
  <2> QED BY <1>7, <2>2 DEF SVWrite, Goto, SVTypeOK, SVSteps
<1>8. CASE SVBarrier
  BY <1>8 DEF SVBarrier, ResetChange, SVTypeOK
<1>9. CASE UNCHANGED SVvars
  BY <1>9 DEF SVvars, SVTypeOK
<1> QED BY <1>1, <1>2, <1>3, <1>4, <1>5, <1>6, <1>7, <1>8, <1>9
        DEF SVNext, SVThreadStep, HookStep, SVCompressStep, SVTerminated
-----------------------------------------------------------------------------
(* A step of thread t leaves the locals of the others alone. *)
LEMMA SVOthersUnchanged ==
    ASSUME NEW t \in Threads, SVThreadStep(t), SVTypeOK
    PROVE  /\ \A s \in Threads \ {t} :
                /\ pc'[s] = pc[s] /\ node'[s] = node[s] /\ edge'[s] = edge[s]
                /\ compU'[s] = compU[s] /\ compV'[s] = compV[s] /\ x'[s] = x[s]
           /\ neigh' = neigh /\ phase' = phase /\ todo' \subseteq todo
           /\ pc[t] # "idle" => node' = node /\ todo' = todo
           /\ pc[t] = "idle" => comp' = comp /\ change' = change
<1> USE DEF SVthreadVars, Goto, NextEdgeOrElse, NextEdge, SVTypeOK
<1>1. ASSUME NEW n \in Nodes, SVTake(t, n)
      PROVE  /\ \A s \in Threads \ {t} :
                /\ pc'[s] = pc[s] /\ node'[s] = node[s] /\ edge'[s] = edge[s]
             /\ UNCHANGED <<neigh, comp, change, phase, compU, compV, x>> /\ todo' \subseteq todo
             /\ pc[t] = "idle"
  BY <1>1 DEF SVTake
<1>2. CASE SVLoadU(t)
  BY <1>2 DEF SVLoadU
<1>3. CASE SVLoadV(t)
  BY <1>3 DEF SVLoadV
<1>4. CASE Test(t)
  BY <1>4 DEF Test
<1>5. CASE Hook(t)
  BY <1>5 DEF Hook, NoteHook
<1>6. CASE SVCompressStep(t)
  BY <1>6 DEF SVCompressStep, SVWalk, SVReread, SVWrite
<1> QED BY <1>1, <1>2, <1>3, <1>4, <1>5, <1>6 DEF SVThreadStep, HookStep

(* Only a hook, or the end of a walk's step, stores to comp. *)
LEMMA SVCompStores ==
    ASSUME SVTypeOK, NEW t \in Threads, SVThreadStep(t)
    PROVE  \/ comp' = comp /\ change' = change
           \/ /\ pc[t] = "hook" /\ change' = TRUE
              /\ comp' = [comp EXCEPT ![HighComp(t)] = LowComp(t)]
           \/ /\ pc[t] = "write" /\ change' = change
              /\ comp' = [comp EXCEPT ![node[t]] = x[t]]
<1> USE DEF SVthreadVars
<1>1. CASE Hook(t)
  BY <1>1 DEF Hook, NoteHook
<1>2. CASE SVWrite(t)
  BY <1>2 DEF SVWrite
<1>3. CASE ~Hook(t) /\ ~SVWrite(t)
  BY <1>3 DEF SVThreadStep, SVTake, HookStep, SVCompressStep, SVLoadU, SVLoadV, Test, SVWalk, SVReread
<1> QED BY <1>1, <1>2, <1>3

LEMMA SVShapeStep ==
    ASSUME SVTypeOK, SVShape, [SVNext]_SVvars PROVE SVShape'
<1> USE DEF SVthreadVars
<1>1. ASSUME NEW t \in Threads, SVThreadStep(t) PROVE SVShape'
  <2>1. ASSUME NEW s \in Threads \ {t} PROVE SVShapeAt(s)'
    BY <1>1, <2>1, SVOthersUnchanged DEF SVShape, SVShapeAt, Edges
  <2>2. ASSUME NEW n \in Nodes, SVTake(t, n) PROVE SVShape'
    <3>1. /\ pc'[t] \in {"idle", "load_u", "walk"} /\ edge'[t] = 1
          /\ pc'[t] = "load_u" => phase # "compress" /\ neigh[n] # <<>>
          /\ pc'[t] = "walk" => phase = "compress"
          /\ node'[t] = n /\ n \in todo /\ todo' = todo \ {n}
          /\ UNCHANGED <<neigh, phase>>
      BY <2>2 DEF SVTake, Goto, SVTypeOK
    <3>2. neigh[n] # <<>> => 1 \in Edges(n)
      BY SVGraphFacts
    <3>3. phase # "done"
      BY <3>1 DEF SVShape
    <3>4. SVShapeAt(t)'
      BY <3>1, <3>2, <3>3 DEF SVShapeAt, HookSteps, SVCompressSteps, Edges, SVTypeOK
    <3>5. \A s \in Threads \ {t} : pc[s] # "idle" => node[s] # n
      BY <3>1 DEF SVShape, SVShapeAt
    <3> QED BY <1>1, <2>1, <3>1, <3>4, <3>5, SVOthersUnchanged DEF SVShape
  <2>3. ASSUME SVShapeAt(t)', pc[t] # "idle" PROVE SVShape'
    BY <1>1, <2>1, <2>3, SVOthersUnchanged DEF SVShape
  <2>4. ASSUME NEW next \in BOOLEAN, NEW step \in {"test", "hook"}, pc[t] \in HookSteps,
               NextEdgeOrElse(t, next, step)
        PROVE  SVShape'
    <3>1. node[t] \in Nodes /\ edge[t] \in Nat \ {0} /\ SVShapeAt(t)
      BY ThreadFacts DEF SVShape
    <3>2. Edges(node[t]) = 1 .. Len(neigh[node[t]]) /\ Len(neigh[node[t]]) \in Nat
      BY <3>1, SVGraphFacts
    <3>3. UNCHANGED <<node, todo, neigh, phase>>
      BY <1>1, <2>4, SVOthersUnchanged DEF HookSteps
    <3>4. pc'[t] \in HookSteps \cup {"idle"}
      BY <2>4, GoesOn DEF HookSteps
    <3>5. pc'[t] \in HookSteps => edge'[t] \in Edges(node[t])
      BY <2>4, <3>1, <3>2, GoesOn DEF SVShapeAt, HookSteps
    <3>6. SVShapeAt(t)'
      BY <2>4, <3>1, <3>3, <3>4, <3>5 DEF SVShapeAt, HookSteps, SVCompressSteps, Edges
    <3> QED BY <2>3, <2>4, <3>6 DEF HookSteps
  <2>5. CASE SVLoadU(t)
    BY <2>3, <2>5 DEF SVLoadU, Goto, SVShape, SVShapeAt, HookSteps, SVCompressSteps, SVTypeOK, Edges
  <2>6. CASE SVLoadV(t)
    BY <2>4, <2>6 DEF SVLoadV, HookSteps
  <2>7. CASE Test(t)
    BY <2>4, <2>7 DEF Test, HookSteps
  <2>8. CASE Hook(t)
    BY <2>4, <2>8, HookGoesOn DEF Hook, NoteHook, HookSteps
  <2>9. CASE SVCompressStep(t)
    BY <2>3, <2>9 DEF SVCompressStep, SVWalk, SVReread, SVWrite, Goto, SVShape, SVShapeAt, HookSteps,
                      SVCompressSteps, SVTypeOK
  <2> QED BY <1>1, <2>2, <2>5, <2>6, <2>7, <2>8, <2>9 DEF SVThreadStep, HookStep
<1>2. CASE SVBarrier
  BY <1>2 DEF SVBarrier, ResetChange, SVShape, SVShapeAt, HookSteps, SVCompressSteps
<1>3. CASE UNCHANGED SVvars
  BY <1>3 DEF SVvars, SVShape, SVShapeAt, Edges
<1> QED BY <1>1, <1>2, <1>3 DEF SVNext, SVTerminated
-----------------------------------------------------------------------------
LEMMA SVKnowsStep ==
    ASSUME SVTypeOK, SVShape, SVKnows, [SVNext]_SVvars PROVE SVKnows'
<1> USE DEF SVthreadVars
<1>1. ASSUME NEW t \in Threads, SVThreadStep(t) PROVE SVKnows'
  <2>0. neigh' = neigh /\ \A u, v : SVConn(u, v)' <=> SVConn(u, v)
    BY <1>1, SVOthersUnchanged DEF SVConn
  <2>k. SVKnowsAt(t) /\ \A n \in Nodes : SVConn(n, comp[n])
    BY DEF SVKnows
  <2>c. pc[t] \in {"test", "hook"} => SVConn(HighComp(t), LowComp(t))
    BY <2>k, SVHighLow, ThreadFacts, SVConnFacts DEF SVKnowsAt
  <2>1. ASSUME NEW n \in Nodes PROVE SVConn(n, comp'[n])
    <3>1. comp'[n] = comp[n] \/ (pc[t] = "hook" /\ n = HighComp(t) /\ comp'[n] = LowComp(t))
                             \/ (pc[t] = "write" /\ n = node[t] /\ comp'[n] = x[t])
      <4>1. comp \in [Nodes -> Nodes]
        BY DEF SVTypeOK
      <4>2. \/ comp' = comp
            \/ pc[t] = "hook" /\ comp' = [comp EXCEPT ![HighComp(t)] = LowComp(t)]
            \/ pc[t] = "write" /\ comp' = [comp EXCEPT ![node[t]] = x[t]]
        BY <1>1, SVCompStores
      <4> QED BY <4>1, <4>2
    <3> QED BY <2>k, <2>c, <3>1 DEF SVKnowsAt
  <2>2. ASSUME NEW s \in Threads \ {t} PROVE SVKnowsAt(s)'
    <3>1. pc[s] \in {"reread", "write"} => comp'[node[s]] = comp[node[s]]
      <4>1. pc[s] \in {"reread", "write"} => pc[t] # "hook" /\ (pc[t] = "write" => node[t] # node[s])
        BY <2>2 DEF SVShape, SVShapeAt, HookSteps, SVCompressSteps
      <4>2. node[s] \in Nodes /\ comp \in [Nodes -> Nodes]
        BY <2>2 DEF SVTypeOK
      <4> QED BY <1>1, <4>1, <4>2, SVCompStores
    <3> QED BY <1>1, <2>0, <2>2, <3>1, SVOthersUnchanged DEF SVKnows, SVKnowsAt
  <2> SUFFICES SVKnowsAt(t)'
    BY <2>0, <2>1, <2>2 DEF SVKnows
  <2>3. ASSUME pc'[t] \in {"idle", "load_u", "walk"} PROVE SVKnowsAt(t)'
    BY <2>3 DEF SVKnowsAt
  <2>4. ASSUME NEW n \in Nodes, SVTake(t, n) PROVE SVKnowsAt(t)'
    BY <2>3, <2>4 DEF SVTake, Goto, SVTypeOK
  <2>5. CASE SVLoadU(t)
    <3>1. pc'[t] = "load_v" /\ compU'[t] = comp[node[t]] /\ node' = node
      BY <2>5 DEF SVLoadU, Goto, SVTypeOK
    <3> QED BY <2>0, <2>k, <3>1, ThreadFacts DEF SVKnowsAt
  <2>6. CASE SVLoadV(t)
    <3>1. /\ compV'[t] = comp[Other(t)] /\ UNCHANGED <<node, compU>> /\ pc[t] = "load_v"
          /\ NextEdgeOrElse(t, compU[t] = comp[Other(t)], "test")
      BY <2>6 DEF SVLoadV, SVTypeOK, Other
    <3>2. SVConn(node[t], compU[t]) /\ SVConn(node[t], comp[Other(t)])
      BY <2>k, <3>1, ThreadFacts, SVConnFacts DEF SVKnowsAt, HookSteps
    <3>3. \/ pc'[t] \in {"idle", "load_u"}
          \/ pc'[t] = "test" /\ compU[t] # compV'[t]
      BY <3>1, GoesOn
    <3> QED BY <2>0, <2>3, <3>1, <3>2, <3>3 DEF SVKnowsAt
  <2>7. CASE Test(t)
    <3>1. pc[t] = "test" /\ UNCHANGED <<node, compU, compV>> /\ pc'[t] \in {"idle", "load_u", "hook"}
      BY <2>7, GoesOn DEF Test
    <3> QED BY <2>0, <2>k, <2>3, <3>1 DEF SVKnowsAt
  <2>8. CASE Hook(t)
    BY <2>3, <2>8, GoesOn, HookGoesOn
  <2>9. CASE SVWalk(t)
    <3>1. /\ pc'[t] \in {"idle", "reread"} /\ UNCHANGED <<comp, node>>
          /\ pc'[t] = "reread" => comp[node[t]] # comp[comp[node[t]]]
      BY <2>9 DEF SVWalk, Goto, SVTypeOK
    <3> QED BY <2>3, <3>1 DEF SVKnowsAt
  <2>10. CASE SVReread(t)
    <3>1. /\ pc'[t] = "write" /\ x'[t] = comp[comp[node[t]]] /\ UNCHANGED <<comp, node>>
          /\ comp[node[t]] # node[t]
      BY <2>10, <2>k DEF SVReread, Goto, SVTypeOK, SVKnowsAt
    <3>2. comp[comp[node[t]]] < node[t]
      <4>1. /\ comp[node[t]] \in Nat /\ node[t] \in Nat /\ comp[comp[node[t]]] \in Nat
            /\ comp[node[t]] <= node[t] /\ comp[comp[node[t]]] <= comp[node[t]]
        BY ThreadFacts
      <4> QED BY <3>1, <4>1
    <3>3. SVConn(node[t], comp[comp[node[t]]])
      BY <2>k, ThreadFacts, SVConnFacts
    <3> QED BY <2>0, <3>1, <3>2, <3>3 DEF SVKnowsAt
  <2>11. CASE SVWrite(t)
    BY <2>3, <2>11 DEF SVWrite, Goto, SVTypeOK
  <2> QED BY <1>1, <2>4, <2>5, <2>6, <2>7, <2>8, <2>9, <2>10, <2>11
          DEF SVThreadStep, HookStep, SVCompressStep
<1>2. CASE SVBarrier
  BY <1>2 DEF SVBarrier, ResetChange, SVKnows, SVKnowsAt, SVConn
<1>3. CASE UNCHANGED SVvars
  BY <1>3 DEF SVvars, SVKnows, SVKnowsAt, SVConn
<1> QED BY <1>1, <1>2, <1>3 DEF SVNext, SVTerminated
-----------------------------------------------------------------------------
(* Without a hook comp does not move. *)
LEMMA QuietKeepsComp ==
    ASSUME SVTypeOK, Quiet, NEW t \in Threads, SVThreadStep(t), ~change'
    PROVE  ~change /\ comp' = comp
BY SVCompStores DEF Quiet, QuietAt, SVTypeOK

LEMMA StarsStep ==
    ASSUME SVTypeOK, SVShape, SVKnows, Stars, Quiet, [SVNext]_SVvars PROVE Stars'
<1> USE DEF SVthreadVars
<1>1. ASSUME NEW t \in Threads, SVThreadStep(t) PROVE Stars'
  <2>0. phase' = phase
    BY <1>1, SVOthersUnchanged
  <2>1. phase = "done" => ~change'
    <3>1. phase = "done" => pc[t] # "hook"
      BY DEF SVShape, SVShapeAt, HookSteps
    <3> QED BY <1>1, <3>1, SVCompStores DEF Stars
  <2>2. ~change' => \A n \in Nodes : Star(n)'
    BY <1>1, QuietKeepsComp DEF Stars, Star
  <2>3. ASSUME phase = "compress", NEW n \in Nodes PROVE SVPending(n)' \/ Star(n)'
    <3>1. pc[t] \notin HookSteps
      BY <2>3 DEF SVShape, SVShapeAt, HookSteps
    <3>2. \A m \in Nodes : comp'[m] = comp[m] \/ (pc[t] = "write" /\ m = node[t] /\ comp[m] # m)
      <4>1. comp' = comp \/ (pc[t] = "write" /\ comp' = [comp EXCEPT ![node[t]] = x[t]])
        BY <1>1, <3>1, SVCompStores DEF HookSteps
      <4>2. comp \in [Nodes -> Nodes] /\ (pc[t] = "write" => comp[node[t]] # node[t])
        BY DEF SVTypeOK, SVKnows, SVKnowsAt
      <4> QED BY <4>1, <4>2
    <3>3. CASE pc[t] = "write" /\ n = node[t]
      <4>1. pc'[t] = "walk" /\ node'[t] = n
        BY <1>1, <3>3 DEF SVThreadStep, SVTake, HookStep, SVCompressStep, SVLoadU, SVLoadV, Test, Hook, NoteHook, SVWalk,
                          SVReread, SVWrite, Goto, SVTypeOK
      <4> QED BY <4>1 DEF SVPending, Busy
    <3>4. CASE ~(pc[t] = "write" /\ n = node[t]) /\ Star(n)
      <4>1. comp'[n] = comp[n] /\ comp[n] \in Nodes
        BY <3>2, <3>4 DEF SVTypeOK
      <4>2. comp'[comp[n]] = comp[n]
        BY <3>2, <3>4, <4>1 DEF Star
      <4> QED BY <4>1, <4>2 DEF Star
    <3>5. CASE ~Star(n) /\ ~(pc[t] = "write" /\ n = node[t])
      <4>0. SVPending(n)
        BY <2>3, <3>5 DEF Stars
      <4>1. ASSUME NEW m \in Nodes, SVTake(t, m) PROVE SVPending(n)'
        <5>1. pc[t] = "idle" /\ pc'[t] = "walk" /\ node'[t] = m /\ todo' = todo \ {m}
          BY <2>3, <4>1 DEF SVTake, Goto, SVTypeOK
        <5> QED BY <1>1, <4>0, <5>1, SVOthersUnchanged DEF SVPending, Busy
      <4>2. ASSUME SVCompressStep(t) PROVE SVPending(n)'
        <5>1. node' = node /\ todo' = todo
          BY <4>2 DEF SVCompressStep, SVWalk, SVReread, SVWrite
        <5>2. node[t] = n => pc'[t] # "idle"
          BY <3>5, <4>2 DEF SVCompressStep, SVWalk, SVReread, SVWrite, Goto, SVTypeOK, Star
        <5> QED BY <1>1, <4>0, <5>1, <5>2, SVOthersUnchanged DEF SVPending, Busy
      <4> QED BY <1>1, <3>1, <4>1, <4>2 DEF SVThreadStep, HookStep, SVLoadU, SVLoadV, Test, Hook, NoteHook, HookSteps
    <3> QED BY <3>3, <3>4, <3>5
  <2> QED BY <2>0, <2>1, <2>2, <2>3 DEF Stars
<1>2. CASE SVBarrier
  <2>0. \A n \in Nodes : ~SVPending(n)
    BY <1>2 DEF SVBarrier, ResetChange, SVPending, Busy
  <2>1. phase' = "compress" => todo' = Nodes
    BY <1>2 DEF SVBarrier, ResetChange
  <2>2. phase' # "compress" => \A n \in Nodes : Star(n)
    BY <1>2, <2>0 DEF SVBarrier, ResetChange, Stars
  <2> QED BY <1>2, <2>1, <2>2 DEF SVBarrier, ResetChange, Stars, Star, SVPending
<1>3. CASE UNCHANGED SVvars
  BY <1>3 DEF SVvars, Stars, Star, SVPending, Busy
<1> QED BY <1>1, <1>2, <1>3 DEF SVNext, SVTerminated
-----------------------------------------------------------------------------
LEMMA QuietStep ==
    ASSUME SVTypeOK, SVShape, SVKnows, Stars, Quiet, [SVNext]_SVvars PROVE Quiet'
<1> USE DEF SVthreadVars
<1>1. ASSUME NEW t \in Threads, SVThreadStep(t), ~change' PROVE Quiet'
  <2>0. /\ ~change /\ UNCHANGED <<neigh, comp, phase>>
        /\ QuietAt(t) /\ \A n \in Nodes : Star(n)
    BY <1>1, QuietKeepsComp, SVOthersUnchanged DEF Quiet, Stars
  <2>e. \A u \in Nodes : Edges(u)' = Edges(u) /\ \A i \in Edges(u) : Agrees(u, i)' <=> Agrees(u, i)
    BY <2>0 DEF Edges, Agrees
  <2>t. /\ node[t] \in Nodes /\ Edges(node[t]) = 1 .. Len(neigh[node[t]])
        /\ Len(neigh[node[t]]) \in Nat /\ edge[t] \in Nat
    BY ThreadFacts, SVGraphFacts
  <2>1. ASSUME NEW s \in Threads \ {t} PROVE QuietAt(s)'
    <3>1. QuietAt(s) /\ node[s] \in Nodes
      BY <2>0 DEF Quiet, SVTypeOK
    <3> QED BY <1>1, <2>0, <2>1, <2>e, <3>1, SVOthersUnchanged DEF QuietAt, Other
  <2>2. ASSUME NEW n \in Nodes, SVTake(t, n)
        PROVE  /\ QuietAt(t)'
               /\ \A u \in Nodes : SVPending(u) => SVPending(u)' \/ phase # "hook" \/ Edges(u) = {}
    <3>1. /\ pc[t] = "idle" /\ pc'[t] \in {"idle", "load_u", "walk"} /\ edge'[t] = 1
          /\ node'[t] = n /\ todo' = todo \ {n}
          /\ pc'[t] = "idle" => phase # "compress" /\ neigh[n] = <<>>
      BY <2>2 DEF SVTake, Goto, SVTypeOK
    <3>2. neigh[n] = <<>> => Edges(n) = {}
      BY DEF Edges
    <3>3. \A i \in Edges(n) : ~(i < 1)
      BY SVGraphFacts
    <3>4. QuietAt(t)'
      BY <2>e, <3>1, <3>3 DEF QuietAt
    <3>5. ASSUME NEW u \in Nodes, SVPending(u), u # n PROVE SVPending(u)'
      BY <1>1, <3>1, <3>5, SVOthersUnchanged DEF SVPending, Busy
    <3> QED BY <3>1, <3>2, <3>4, <3>5 DEF SVPending, Busy
  <2>3. ASSUME SVLoadU(t) PROVE QuietAt(t)'
    <3>1. pc[t] = "load_u" /\ pc'[t] = "load_v" /\ compU'[t] = comp[node[t]] /\ UNCHANGED <<node, edge>>
      BY <2>3 DEF SVLoadU, Goto, SVTypeOK
    <3> QED BY <2>0, <2>e, <2>t, <3>1 DEF QuietAt, HookSteps
  <2>4. ASSUME SVLoadV(t) PROVE QuietAt(t)'
    <3>1. /\ pc[t] = "load_v" /\ compV'[t] = comp[Other(t)] /\ UNCHANGED <<node, compU>>
          /\ NextEdgeOrElse(t, compU[t] = comp[Other(t)], "test")
      BY <2>4 DEF SVLoadV, SVTypeOK, Other
    <3>2. compU[t] = comp[node[t]] /\ \A i \in Edges(node[t]) : i < edge[t] => Agrees(node[t], i)
      BY <2>0, <3>1 DEF QuietAt, HookSteps
    <3>3. CASE compU[t] # comp[Other(t)]
      <4>1. pc'[t] = "test" /\ edge'[t] = edge[t]
        BY <3>1, <3>3, GoesOn
      <4>2. Other(t)' = Other(t)
        BY <2>0, <3>1, <4>1 DEF Other
      <4> QED BY <2>0, <2>e, <2>t, <3>1, <3>2, <4>1, <4>2 DEF QuietAt, HookSteps
    <3>4. CASE compU[t] = comp[Other(t)]
      <4>1. Agrees(node[t], edge[t])
        BY <3>2, <3>4 DEF Agrees, Other
      <4>2. \/ pc'[t] = "idle" /\ ~(edge[t] < Len(neigh[node[t]]))
            \/ pc'[t] = "load_u" /\ edge'[t] = edge[t] + 1
        BY <3>1, <3>4, GoesOn
      <4>3. \A i \in Edges(node[t]) : i < edge[t] + 1 => Agrees(node[t], i)
        BY <2>t, <3>2, <4>1
      <4> QED BY <2>e, <2>t, <3>1, <4>2, <4>3 DEF QuietAt, HookSteps
    <3> QED BY <3>3, <3>4
  <2>5. ASSUME Test(t) PROVE QuietAt(t)'
    <3>1. /\ pc[t] = "test" /\ UNCHANGED <<node, compU, compV>>
          /\ NextEdgeOrElse(t, HighComp(t) # comp[HighComp(t)], "hook")
      BY <2>5 DEF Test
    <3>2. compU[t] = comp[node[t]] /\ compV[t] = comp[Other(t)] /\ Other(t) \in Nodes
      BY <2>0, <3>1, ThreadFacts DEF QuietAt, HookSteps
    <3>3. HighComp(t) = comp[HighComp(t)]
      BY <2>0, <2>t, <3>2, SVHighLow DEF Star
    <3>4. pc'[t] = "hook" /\ edge'[t] = edge[t]
      BY <3>1, <3>3, GoesOn
    <3> QED BY <2>0, <2>e, <2>t, <3>1, <3>4 DEF QuietAt, HookSteps
  <2>6. ~Hook(t)
    BY <1>1 DEF Hook, NoteHook
  <2>7. ASSUME SVCompressStep(t) PROVE QuietAt(t)'
    <3>1. pc'[t] = "idle"
      BY <2>0, <2>t, <2>7 DEF SVCompressStep, SVWalk, SVReread, SVWrite, Goto, SVTypeOK, QuietAt, Star
    <3> QED BY <3>1 DEF QuietAt, HookSteps
  <2>8. QuietAt(t)'
    BY <1>1, <2>2, <2>3, <2>4, <2>5, <2>6, <2>7 DEF SVThreadStep, HookStep
  <2>9. ASSUME NEW u \in Nodes
        PROVE  (phase = "hook" /\ SVPending(u)') \/ \A i \in Edges(u) : Agrees(u, i)
    <3> SUFFICES ASSUME phase = "hook", SVPending(u), ~SVPending(u)'
                 PROVE  \A i \in Edges(u) : Agrees(u, i)
      BY <2>0 DEF Quiet
    <3>1. CASE \E n \in Nodes : SVTake(t, n)
      BY <2>2, <3>1
    <3>2. CASE ~(\E n \in Nodes : SVTake(t, n))
      <4>1. UNCHANGED <<node, todo>> /\ pc[t] # "idle"
        BY <1>1, <3>2 DEF SVThreadStep, HookStep, SVCompressStep, SVLoadU, SVLoadV, Test, Hook, NoteHook, SVWalk, SVReread, SVWrite
      <4>2. node[t] = u /\ pc'[t] = "idle"
        BY <1>1, <4>1, SVOthersUnchanged DEF SVPending, Busy
      <4>3. pc[t] \in HookSteps
        BY <4>1 DEF SVShape, SVShapeAt, HookSteps, SVCompressSteps, SVTypeOK, SVSteps
      <4>4. SVLoadV(t)
        <5>1. ~SVLoadU(t) /\ ~SVCompressStep(t)
          BY <4>2, <4>3 DEF SVLoadU, SVCompressStep, SVWalk, SVReread, SVWrite, Goto, SVTypeOK, HookSteps
        <5>2. ~Test(t)
          <6>1. ASSUME Test(t) PROVE FALSE
            <7>1. compU[t] = comp[node[t]] /\ compV[t] = comp[Other(t)] /\ Other(t) \in Nodes
              BY <2>0, <4>3, <6>1, ThreadFacts DEF QuietAt, Test
            <7>2. HighComp(t) = comp[HighComp(t)]
              BY <2>0, <2>t, <7>1, SVHighLow DEF Star
            <7> QED BY <4>2, <6>1, <7>2, GoesOn DEF Test
          <6> QED BY <6>1
        <5> QED BY <1>1, <2>6, <3>2, <5>1, <5>2 DEF SVThreadStep, HookStep, Hook, NoteHook
      <4>5. compU[t] = comp[Other(t)] /\ ~(edge[t] < Len(neigh[u]))
        BY <4>2, <4>4, GoesOn DEF SVLoadV, Other, SVTypeOK
      <4>6. compU[t] = comp[u] /\ \A i \in Edges(u) : i < edge[t] => Agrees(u, i)
        BY <2>0, <4>2, <4>4 DEF QuietAt, SVLoadV, HookSteps
      <4>7. Agrees(u, edge[t])
        BY <4>2, <4>5, <4>6 DEF Agrees, Other
      <4>8. \A i \in Edges(u) : i < edge[t] \/ i = edge[t]
        <5>1. edge[t] \in Edges(u)
          BY <4>2, <4>3 DEF SVShape, SVShapeAt
        <5> QED BY <2>t, <4>2, <4>5, <5>1
      <4> QED BY <4>6, <4>7, <4>8
    <3> QED BY <3>1, <3>2
  <2> QED BY <2>0, <2>1, <2>8, <2>9, <2>e DEF Quiet
<1>2. CASE SVBarrier
  <2>0. (\A t \in Threads : pc'[t] = "idle") /\ \A n \in Nodes : ~SVPending(n)
    BY <1>2 DEF SVBarrier, ResetChange, SVPending, Busy
  <2>1. phase' = "hook" => todo' = Nodes
    BY <1>2 DEF SVBarrier, ResetChange
  <2>2. phase' # "hook" /\ ~change' => ~change
    BY <1>2 DEF SVBarrier, ResetChange
  <2>3. \A t \in Threads : QuietAt(t)'
    BY <2>0 DEF QuietAt, HookSteps
  <2>4. UNCHANGED <<neigh, comp>>
    BY <1>2 DEF SVBarrier, ResetChange
  <2> QED BY <2>0, <2>1, <2>2, <2>3, <2>4 DEF Quiet, Agrees, Edges, SVPending
<1>3. CASE UNCHANGED SVvars
  BY <1>3 DEF SVvars, Quiet, QuietAt, Agrees, Edges, Other, SVPending, Busy
<1>4. CASE change' /\ \E t \in Threads : SVThreadStep(t)
  BY <1>4 DEF Quiet
<1> QED BY <1>1, <1>2, <1>3, <1>4 DEF SVNext, SVTerminated
-----------------------------------------------------------------------------
LEMMA SVInitIInv == SVInit => SVIInv
<1> SUFFICES ASSUME SVInit PROVE SVIInv
  OBVIOUS
<1> USE DEF SVInit
<1>1. SVTypeOK
  <2>1. comp \in [Nodes -> Nodes] /\ \A n \in Nodes : comp[n] <= n
    BY NodesFacts
  <2>2. change \in BOOLEAN
    OBVIOUS
  <2> QED BY <2>1, <2>2, NodesFacts DEF SVTypeOK, SVSteps
<1>2. SVShape
  BY DEF SVShape, SVShapeAt, HookSteps, SVCompressSteps
<1>3. SVKnows
  BY <1>1, SVConnFacts DEF SVKnows, SVKnowsAt
<1>4. Stars
  BY DEF Stars, Star
<1>5. Quiet
  BY DEF Quiet, QuietAt, HookSteps, SVPending
<1> QED BY <1>1, <1>2, <1>3, <1>4, <1>5 DEF SVIInv

LEMMA SVAlwaysIInv == SVSpec => []SVIInv
<1>1. SVIInv /\ [SVNext]_SVvars => SVIInv'
  BY SVTypeStep, SVShapeStep, SVKnowsStep, StarsStep, QuietStep DEF SVIInv
<1> QED BY <1>1, SVInitIInv, PTL DEF SVSpec

LEMMA SVDoneIsCorrect ==
    ASSUME SVIInv, phase = "done"
    PROVE  LabelsComponents(comp, Nodes, neigh) /\ LabelsWithLeast(comp, Nodes, neigh)
<1>0. SVTypeOK /\ SVKnows /\ \A n \in Nodes : comp[n] \in Nodes
  BY DEF SVIInv, SVTypeOK
<1>1. AgreeAlongEdges(comp, Nodes, neigh)
  <2>1. \A u \in Nodes : \A i \in Edges(u) : Agrees(u, i)
    BY DEF SVIInv, Stars, Quiet
  <2> QED BY <1>0, <2>1, SVGraphFacts DEF AgreeAlongEdges, Agrees, Edges
<1>2. ASSUME NEW u \in Nodes, NEW v \in Nodes, ConnectedIn(Nodes, neigh, u, v) PROVE comp[u] = comp[v]
  BY <1>1, <1>2, LabelsAlongEdges
<1>3. ASSUME NEW u \in Nodes, NEW v \in Nodes, comp[u] = comp[v] PROVE ConnectedIn(Nodes, neigh, u, v)
  <2>1. SVConn(u, comp[u]) /\ SVConn(v, comp[v])
    BY <1>0 DEF SVKnows
  <2>2. SVConn(u, v)
    BY <1>0, <1>3, <2>1, SVConnFacts
  <2> QED BY <2>2 DEF SVConn
<1>4. LabelsComponents(comp, Nodes, neigh)
  BY <1>2, <1>3 DEF LabelsComponents
<1>5. LabelsWithLeast(comp, Nodes, neigh)
  BY <1>0, <1>2 DEF LabelsWithLeast, SVTypeOK
<1> QED BY <1>4, <1>5

(* The types hold in every state, for every number of nodes and threads.    *)
THEOREM SVTypeCorrect == SVSpec => []SVTypeOK
<1>1. SVIInv => SVTypeOK
  BY DEF SVIInv
<1> QED BY <1>1, SVAlwaysIInv, PTL

(* Whatever the schedule and whichever hooks are overwritten, the labels    *)
(* returned are those of the connected components, each the least node of   *)
(* its own, so two runs agree, with each other and with Afforest.           *)
THEOREM ShiloachVishkinCorrect == SVSpec => []ComponentsFound
<1>1. ASSUME SVIInv, phase = "done" 
      PROVE  /\ LabelsComponents(comp, Nodes, neigh) /\ LabelsWithLeast(comp, Nodes, neigh)
             /\ VerifierAccepts
  <2>1. Undirected(Nodes, neigh)
    BY <1>1, KernelAssumption DEF SVIInv, SVTypeOK
  <2>2. LabelsComponents(comp, Nodes, neigh) /\ LabelsWithLeast(comp, Nodes, neigh)
    BY <1>1, SVDoneIsCorrect
  <2>3. CCVerifier(comp, Nodes, neigh)
    BY <2>1, <2>2, CCVerifierExact
  <2> QED BY <2>2, <2>3 DEF VerifierAccepts
<1>2. SVIInv => ComponentsFound
  BY <1>1 DEF ComponentsFound
<1> QED BY <1>2, SVAlwaysIInv, PTL

(* An iteration that hooks nothing has compared equal labels along every    *)
(* edge, so the outer loop never stops too early.                           *)
THEOREM QuietIterationIsLast == SVSpec => []QuietMeansDone
<1>1. SVIInv => QuietMeansDone
  BY DEF SVIInv, Quiet, QuietMeansDone, Agrees, Edges
<1> QED BY <1>1, SVAlwaysIInv, PTL
=============================================================================
