--------------------------- MODULE Search_proofs ---------------------------
(***************************************************************************)
(* Theorems about DirectionOptimizingBFS and, further below, about Brandes. *)
(***************************************************************************)
EXTENDS DirectionOptimizingBFS, Brandes, GraphLemmas

(* Levels.  Level d is what a step of the search starts from. *)
Dist == DistancesFrom(Nodes, neigh, source)
Level(d) == {v \in Nodes : Dist[v] = d}
UpTo(d) == {v \in Nodes : Dist[v] \in 0 .. d}
Visited == {v \in Nodes : parent[v] >= 0}

LEMMA NodesFinite == N \in Nat \ {0} /\ IsFiniteSet(Nodes) /\ Cardinality(Nodes) = N /\ 0 \in Nodes
BY QueueAssumption, FS_Interval DEF Nodes

LEMMA GraphFacts ==
    ASSUME TypeOK
    PROVE  AreDistances(Dist, Nodes, neigh, source) /\ Undirected(Nodes, neigh)
<1>1. Undirected(Nodes, neigh) /\ neigh \in [Nodes -> Seq(Nodes)] /\ source \in Nodes
  BY SearchAssumption DEF TypeOK, Undirected
<1> QED BY <1>1, NodesFinite, DistancesFromCorrect DEF Dist

(* An edge can be gone in both directions. *)
LEMMA BackEdge ==
    ASSUME TypeOK, NEW u \in Nodes, NEW i \in DOMAIN neigh[u]
    PROVE  neigh[u][i] \in Nodes /\ \E j \in DOMAIN neigh[neigh[u][i]] : neigh[neigh[u][i]][j] = u
<1>1. Undirected(Nodes, neigh)
  BY GraphFacts
<1>2. neigh[u] \in Seq(Nodes)
  BY <1>1 DEF Undirected
<1> QED BY <1>1, <1>2 DEF Undirected

(* Behind the visited levels is the next one. *)
LEMMA EdgeBeyond ==
    ASSUME TypeOK, NEW d \in Nat, UpTo(d) \subseteq Visited, NEW v \in Nodes \ Visited,
           NEW i \in DOMAIN neigh[v], neigh[v][i] \in UpTo(d)
    PROVE  neigh[v][i] \in Level(d) /\ v \in Level(d + 1)
<1> DEFINE u == neigh[v][i]
<1>1. u \in Nodes /\ Dist[u] \in 0 .. d /\ v \notin UpTo(d)
  BY DEF UpTo
<1>2. Dist[v] \in 0 .. Dist[u] + 1
  BY <1>1, GraphFacts DEF AreDistances
<1>3. Dist[v] = d + 1 /\ Dist[u] = d
  BY <1>1, <1>2 DEF UpTo
<1> QED BY <1>1, <1>3 DEF Level

LEMMA Predecessor ==
    ASSUME TypeOK, NEW d \in Nat, NEW v \in Level(d + 1)
    PROVE  \E i \in DOMAIN neigh[v] : neigh[v][i] \in Level(d)
<1>1. v \in Nodes /\ Dist[v] = d + 1
  BY DEF Level
<1>2. PICK i \in DOMAIN neigh[v] : Dist[neigh[v][i]] = Dist[v] - 1
  BY <1>1, GraphFacts DEF AreDistances
<1> QED BY <1>1, <1>2, BackEdge DEF Level

(* The parents so far are of a tree of shortest paths. *)
TreeSound ==
    /\ parent[source] = source
    /\ \A v \in Visited \ {source} :
           /\ parent[v] \in Nodes /\ Dist[parent[v]] >= 0 /\ Dist[v] = Dist[parent[v]] + 1
           /\ \E i \in DOMAIN neigh[v] : neigh[v][i] = parent[v]

(* A node joins the tree. *)
LEMMA TreeGrows ==
    ASSUME TypeOK, TreeSound, UNCHANGED args, NEW d \in Nat,
           NEW v \in Level(d + 1) \ Visited, NEW i \in DOMAIN neigh[v], neigh[v][i] \in Level(d),
           parent' = [parent EXCEPT ![v] = neigh[v][i]]
    PROVE  TreeSound' /\ Visited' = Visited \cup {v} /\ parent' \in [Nodes -> {p \in Int : p < N}]
<1> DEFINE u == neigh[v][i]
<1>1. v \in Nodes /\ u \in Nodes /\ Dist[u] = d /\ Dist[v] = d + 1 /\ source \in Nodes
      /\ parent \in [Nodes -> {p \in Int : p < N}] /\ neigh' = neigh /\ source' = source
  BY DEF Level, TypeOK, args
<1>2. \A n \in Nodes : n \in Int /\ n >= 0 /\ n < N
  BY NodesFinite DEF Nodes
<1>3. source \in Visited /\ v # source
  BY <1>1, <1>2 DEF TreeSound, Visited
<1>4. parent'[v] = u /\ \A n \in Nodes \ {v} : parent'[n] = parent[n]
  BY <1>1
<1>5. Visited' = Visited \cup {v}
  BY <1>1, <1>2, <1>4 DEF Visited
<1>6. Dist' = Dist
  BY <1>1 DEF Dist
<1>7. TreeSound'
  <2> SUFFICES ASSUME NEW n \in Visited' \ {source}
               PROVE  /\ parent'[n] \in Nodes /\ Dist[parent'[n]] >= 0 /\ Dist[n] = Dist[parent'[n]] + 1
                      /\ \E j \in DOMAIN neigh[n] : neigh[n][j] = parent'[n]
    BY <1>1, <1>3, <1>4, <1>6 DEF TreeSound
  <2>1. CASE n = v
    BY <1>1, <1>4, <2>1
  <2>2. CASE n # v
    <3>1. n \in Visited \ {source} /\ parent'[n] = parent[n]
      BY <1>4, <1>5, <2>2 DEF Visited
    <3> QED BY <3>1 DEF TreeSound
  <2> QED BY <2>1, <2>2
<1>8. parent' \in [Nodes -> {p \in Int : p < N}]
  BY <1>1, <1>2
<1> QED BY <1>5, <1>7, <1>8
-----------------------------------------------------------------------------
(* The queue and the buffers, the same for every phase that fills them.     *)
Cells == 0 .. sharedIn - 1
Added == outEnd .. sharedIn - 1

Buffered(v) == \E t \in Threads : \E j \in DOMAIN lqueue[t] : lqueue[t][j] = v
Waiting(v) == (\E i \in Added : queue[i] = v) \/ Buffered(v)
InHand(v) == (\E i \in Cells : queue[i] = v) \/ Buffered(v)

(* No node is twice in the queue and the buffers together. *)
QueueOnce ==
    /\ \A i \in Cells : queue[i] \in Nodes
    /\ \A i, j \in Cells : queue[i] = queue[j] => i = j
    /\ \A t, s \in Threads : \A i \in DOMAIN lqueue[t], j \in DOMAIN lqueue[s] :
           lqueue[t][i] = lqueue[s][j] => t = s /\ i = j
    /\ \A i \in Cells, t \in Threads : \A j \in DOMAIN lqueue[t] : queue[i] # lqueue[t][j]

LEMMA QueueTypes ==
    ASSUME QueueTypeOK
    PROVE  /\ sharedIn \in 0 .. N /\ outStart \in 0 .. N /\ outEnd \in 0 .. N
           /\ outStart <= outEnd /\ outEnd <= sharedIn
           /\ Cells \subseteq Nodes /\ Added \subseteq Cells /\ Window \subseteq Cells
           /\ \A t \in Threads : /\ lqueue[t] \in Seq(Nodes) /\ Len(lqueue[t]) \in Nat
                                 /\ DOMAIN lqueue[t] = 1 .. Len(lqueue[t])
<1> USE NodesFinite DEF QueueTypeOK
<1>1. /\ sharedIn \in 0 .. N /\ outStart \in 0 .. N /\ outEnd \in 0 .. N
      /\ outStart <= outEnd /\ outEnd <= sharedIn
  OBVIOUS
<1>2. Cells \subseteq Nodes /\ Added \subseteq Cells /\ Window \subseteq Cells
  BY <1>1 DEF Cells, Added, Window, Nodes
<1>3. ASSUME NEW t \in Threads
      PROVE  lqueue[t] \in Seq(Nodes) /\ Len(lqueue[t]) \in Nat /\ DOMAIN lqueue[t] = 1 .. Len(lqueue[t])
  <2>1. lqueue[t] \in Seq(Nodes)
    OBVIOUS
  <2> QED BY <2>1
<1> QED BY <1>1, <1>2, <1>3

(* There is room for a buffer: all its nodes and those of the queue differ. *)
LEMMA RoomForBuffer ==
    ASSUME QueueTypeOK, QueueOnce, NEW t \in Threads
    PROVE  sharedIn + Len(lqueue[t]) <= N
<1> DEFINE all == sharedIn + Len(lqueue[t])
           S == 0 .. all - 1
           f == [i \in S |-> IF i < sharedIn THEN queue[i] ELSE lqueue[t][i - sharedIn + 1]]
<1>1. sharedIn \in Nat /\ Len(lqueue[t]) \in Nat /\ all \in Nat /\ DOMAIN lqueue[t] = 1 .. Len(lqueue[t])
      /\ \A j \in DOMAIN lqueue[t] : lqueue[t][j] \in Nodes
  BY QueueTypes
<1>2. \A i \in S : IF i < sharedIn THEN i \in Cells ELSE i - sharedIn + 1 \in DOMAIN lqueue[t]
  BY <1>1 DEF Cells
<1>3. \A i \in S : f[i] \in Nodes
  BY <1>1, <1>2 DEF QueueOnce
<1>4. f \in [S -> Nodes]
  BY <1>3
<1>5. ASSUME NEW i \in S, NEW j \in S, f[i] = f[j] PROVE i = j
  <2>1. CASE i < sharedIn /\ j < sharedIn
    BY <1>2, <1>5, <2>1 DEF QueueOnce
  <2>2. CASE i < sharedIn /\ ~(j < sharedIn)
    BY <1>2, <1>5, <2>2 DEF QueueOnce
  <2>3. CASE ~(i < sharedIn) /\ j < sharedIn
    BY <1>2, <1>5, <2>3 DEF QueueOnce
  <2>4. CASE ~(i < sharedIn) /\ ~(j < sharedIn)
    <3>1. i - sharedIn + 1 = j - sharedIn + 1
      BY <1>2, <1>5, <2>4 DEF QueueOnce
    <3> QED BY <1>1, <3>1
  <2> QED BY <2>1, <2>2, <2>3, <2>4
<1>6. IsFiniteSet(S) /\ Cardinality(S) = all
  <2>1. 0 \in Int /\ all - 1 \in Int
    BY <1>1
  <2> HIDE DEF all
  <2>2. IsFiniteSet(0 .. all - 1) /\ Cardinality(0 .. all - 1) = IF 0 > all - 1 THEN 0 ELSE all - 1 - 0 + 1
    BY <2>1, FS_Interval
  <2> QED BY <1>1, <2>2
<1> HIDE DEF f, S
<1>7. ~(N < all)
  <2> SUFFICES ASSUME N < all PROVE FALSE
    OBVIOUS
  <2>1. Cardinality(Nodes) < Cardinality(S)
    BY <1>6, NodesFinite
  <2>2. \E i, j \in S : i # j /\ f[i] = f[j]
    BY <1>4, <1>6, <2>1, NodesFinite, FS_PigeonHole
  <2> QED BY <1>5, <2>2
<1> QED BY <1>1, <1>7, NodesFinite

(* A flush copies the buffer behind the cells in use, which it leaves alone. *)
Claimed(t) == sharedIn .. sharedIn + Len(lqueue[t]) - 1

LEMMA FlushWrites ==
    ASSUME QueueTypeOK, NEW t \in Threads, Flush(t), UNCHANGED <<outStart, outEnd>>,
           NEW k, k = Len(lqueue[t]), k \in Nat, sharedIn + k <= N, outEnd <= sharedIn
    PROVE  /\ \A i \in Cells : queue'[i] = queue[i]
           /\ \A i \in Claimed(t) : i - sharedIn + 1 \in 1 .. k /\ queue'[i] = lqueue[t][i - sharedIn + 1]
           /\ \A j \in 1 .. k : sharedIn + j - 1 \in Claimed(t) /\ queue'[sharedIn + j - 1] = lqueue[t][j]
           /\ Cells' = Cells \cup Claimed(t) /\ Added' = Added \cup Claimed(t)
           /\ \A i \in Claimed(t) : i \notin Cells /\ i \in Nodes /\ i \in Int
<1>1. sharedIn \in Nat /\ outStart \in Nat /\ outEnd \in Nat /\ sharedIn' = sharedIn + k /\ N \in Nat
  BY QueueTypes, NodesFinite DEF Flush
<1>2. \A i \in Nodes : queue'[i] = IF i \in Claimed(t) THEN lqueue[t][i - sharedIn + 1] ELSE queue[i]
  BY DEF Flush, QueueTypeOK, Claimed
<1>3. Claimed(t) = sharedIn .. sharedIn + k - 1
  BY DEF Claimed
<1>4. ASSUME NEW i \in Claimed(t)
      PROVE  i \in Int /\ i \in Nodes /\ i \notin Cells /\ i - sharedIn + 1 \in 1 .. k
  BY <1>1, <1>3 DEF Nodes, Cells
<1>5. ASSUME NEW i \in Cells PROVE i \in Nodes /\ i \notin Claimed(t)
  BY <1>1, <1>3 DEF Nodes, Cells
<1>6. ASSUME NEW j \in 1 .. k
      PROVE  sharedIn + j - 1 \in Claimed(t) /\ (sharedIn + j - 1) - sharedIn + 1 = j
  BY <1>1, <1>3
<1>7. Cells' = Cells \cup Claimed(t) /\ Added' = Added \cup Claimed(t)
  <2>1. Cells' = 0 .. sharedIn + k - 1 /\ Added' = outEnd .. sharedIn + k - 1
    <3>1. sharedIn' - 1 = sharedIn + k - 1 /\ outEnd' = outEnd
      BY <1>1
    <3>2. Cells' = 0 .. sharedIn' - 1 /\ Added' = outEnd' .. sharedIn' - 1
      BY DEF Cells, Added
    <3> QED BY <3>1, <3>2, Zenon
  <2> QED BY <1>1, <1>3, <2>1 DEF Cells, Added
<1> QED BY <1>2, <1>4, <1>5, <1>6, <1>7

(* A flush moves nodes from a buffer to the queue. *)
LEMMA FlushMoves ==
    ASSUME QueueTypeOK, QueueOnce, NEW t \in Threads, Flush(t), UNCHANGED <<outStart, outEnd>>,
           lqueue' = [lqueue EXCEPT ![t] = <<>>]
    PROVE  /\ QueueTypeOK' /\ QueueOnce'
           /\ \A i \in Cells : queue'[i] = queue[i]
           /\ \A v \in Nodes : (Waiting(v)' <=> Waiting(v)) /\ (InHand(v)' <=> InHand(v))
<1> DEFINE k == Len(lqueue[t])
           b == lqueue[t]
           New == Claimed(t)
<1> USE QueueTypes
<1>1. /\ k \in Nat /\ sharedIn \in Nat /\ outEnd \in Nat /\ DOMAIN b = 1 .. k
      /\ sharedIn' = sharedIn + k /\ sharedIn + k <= N /\ outEnd' = outEnd /\ outEnd <= sharedIn
      /\ \A j \in 1 .. k : b[j] \in Nodes
  BY RoomForBuffer DEF Flush
<1>2. /\ lqueue'[t] = <<>> /\ DOMAIN lqueue'[t] = {}
      /\ \A s \in Threads \ {t} : lqueue'[s] = lqueue[s]
  BY DEF QueueTypeOK
<1>3. /\ \A i \in Cells : queue'[i] = queue[i]
      /\ \A i \in New : i - sharedIn + 1 \in 1 .. k /\ queue'[i] = b[i - sharedIn + 1]
      /\ \A j \in 1 .. k : sharedIn + j - 1 \in New /\ queue'[sharedIn + j - 1] = b[j]
  BY <1>1, FlushWrites
<1>4. /\ Cells' = Cells \cup New /\ Added' = Added \cup New
      /\ \A i \in New : i \notin Cells /\ i \in Nodes /\ i \in Int
  BY <1>1, FlushWrites
<1> HIDE DEF k, b, New
<1>5. \A i \in New : i - sharedIn + 1 \in DOMAIN b
  BY <1>1, <1>3
<1>6. QueueOnce'
  <2>1. \A i \in Cells' : queue'[i] \in Nodes
    <3>1. \A i \in Cells : queue'[i] \in Nodes
      BY <1>3 DEF QueueOnce
    <3>2. \A i \in New : queue'[i] \in Nodes
      BY <1>1, <1>3
    <3> QED BY <1>4, <3>1, <3>2
  <2>2. ASSUME NEW i \in Cells', NEW j \in Cells', queue'[i] = queue'[j] PROVE i = j
    <3>1. CASE i \in Cells /\ j \in Cells
      BY <1>3, <2>2, <3>1 DEF QueueOnce
    <3>2. CASE i \in Cells /\ j \in New
      BY <1>3, <1>5, <2>2, <3>2 DEF QueueOnce, b
    <3>3. CASE i \in New /\ j \in Cells
      BY <1>3, <1>5, <2>2, <3>3 DEF QueueOnce, b
    <3>4. CASE i \in New /\ j \in New
      <4>1. b[i - sharedIn + 1] = b[j - sharedIn + 1]
        BY <1>3, <2>2, <3>4
      <4>2. i - sharedIn + 1 = j - sharedIn + 1
        BY <1>5, <3>4, <4>1 DEF QueueOnce, b
      <4> QED BY <1>1, <1>4, <3>4, <4>2
    <3> QED BY <1>4, <3>1, <3>2, <3>3, <3>4
  <2>3. ASSUME NEW r \in Threads, NEW s \in Threads, NEW i \in DOMAIN lqueue'[r], NEW j \in DOMAIN lqueue'[s],
               lqueue'[r][i] = lqueue'[s][j]
        PROVE  r = s /\ i = j
    BY <1>2, <2>3 DEF QueueOnce
  <2>4. ASSUME NEW i \in Cells', NEW s \in Threads, NEW j \in DOMAIN lqueue'[s]
        PROVE  queue'[i] # lqueue'[s][j]
    <3>1. s # t /\ lqueue'[s] = lqueue[s]
      BY <1>2
    <3>2. CASE i \in Cells
      BY <1>3, <3>1, <3>2 DEF QueueOnce
    <3>3. CASE i \in New
      <4>1. queue'[i] = lqueue[t][i - sharedIn + 1]
        BY <1>3, <3>3 DEF b
      <4> QED BY <1>5, <3>1, <3>3, <4>1 DEF QueueOnce, b
    <3> QED BY <1>4, <3>2, <3>3
  <2> QED BY <2>1, <2>2, <2>3, <2>4 DEF QueueOnce
<1>7. QueueTypeOK'
  <2>1. queue' \in [Nodes -> Nodes \cup {None}]
    BY <1>1, <1>3, <1>4 DEF Flush, QueueTypeOK, k, b, New, Claimed
  <2>2. lqueue' \in [Threads -> Seq(Nodes)] /\ \A s \in Threads : Len(lqueue'[s]) <= BufferSize
    BY QueueAssumption DEF QueueTypeOK
  <2> QED BY <1>1, <2>1, <2>2 DEF QueueTypeOK
<1>8. ASSUME NEW v \in Nodes PROVE Buffered(v) <=> Buffered(v)' \/ \E j \in 1 .. k : b[j] = v
  BY <1>1, <1>2 DEF Buffered, b
<1>9. ASSUME NEW v \in Nodes PROVE (Waiting(v)' <=> Waiting(v)) /\ (InHand(v)' <=> InHand(v))
  <2>1. (\E i \in New : queue'[i] = v) <=> \E j \in 1 .. k : b[j] = v
    <3>1. ASSUME NEW i \in New, queue'[i] = v PROVE \E j \in 1 .. k : b[j] = v
      BY <1>3, <3>1
    <3>2. ASSUME NEW j \in 1 .. k, b[j] = v PROVE \E i \in New : queue'[i] = v
      BY <1>3, <3>2
    <3> QED BY <3>1, <3>2
  <2>2. (\E i \in Cells' : queue'[i] = v) <=> (\E i \in Cells : queue[i] = v) \/ \E j \in 1 .. k : b[j] = v
    BY <1>3, <1>4, <2>1
  <2>3. (\E i \in Added' : queue'[i] = v) <=> (\E i \in Added : queue[i] = v) \/ \E j \in 1 .. k : b[j] = v
    <3>1. \A i \in Added : queue'[i] = queue[i]
      BY <1>1, <1>3 DEF Added, Cells
    <3> QED BY <1>4, <2>1, <3>1
  <2> QED BY <1>8, <2>2, <2>3 DEF Waiting, InHand
<1> QED BY <1>3, <1>6, <1>7, <1>9

(* A push adds one node, to the buffer or to the next one. *)
LEMMA AppendMoves ==
    ASSUME QueueTypeOK, QueueOnce, NEW t \in Threads, NEW n \in Nodes, ~InHand(n),
           Len(lqueue[t]) < BufferSize, lqueue' = [lqueue EXCEPT ![t] = Append(@, n)],
           UNCHANGED <<queue, sharedIn, outStart, outEnd>>
    PROVE  /\ QueueTypeOK' /\ QueueOnce'
           /\ \A v \in Nodes : /\ Waiting(v)' <=> Waiting(v) \/ v = n
                               /\ InHand(v)' <=> InHand(v) \/ v = n
<1> DEFINE k == Len(lqueue[t])
           b == lqueue[t]
           c == lqueue'[t]
<1>1. k \in Nat /\ DOMAIN b = 1 .. k /\ b \in Seq(Nodes) /\ BufferSize \in Nat
  BY QueueTypes, QueueAssumption
<1>2. c = Append(b, n) /\ \A s \in Threads \ {t} : lqueue'[s] = lqueue[s]
  BY DEF QueueTypeOK
<1>3. /\ c \in Seq(Nodes) /\ Len(c) = k + 1 /\ DOMAIN c = 1 .. k + 1
      /\ \A j \in 1 .. k : c[j] = b[j] /\ c[k + 1] = n
  BY <1>1, <1>2
<1>4. c[k + 1] = n
  BY <1>1, <1>2
<1> HIDE DEF k, b, c
<1>5. QueueTypeOK'
  <2>1. \A s \in Threads : lqueue'[s] \in Seq(Nodes) /\ Len(lqueue'[s]) <= BufferSize
    BY <1>1, <1>2, <1>3 DEF QueueTypeOK, k, c
  <2>2. lqueue' \in [Threads -> Seq(Nodes)]
    BY <2>1 DEF QueueTypeOK
  <2> QED BY <2>1, <2>2 DEF QueueTypeOK
<1>6. \A s \in Threads : \A i \in DOMAIN lqueue'[s] :
          \/ i \in DOMAIN lqueue[s] /\ lqueue'[s][i] = lqueue[s][i]
          \/ s = t /\ i = k + 1 /\ lqueue'[s][i] = n
  BY <1>1, <1>2, <1>3, <1>4 DEF b, c
<1>7. \A s \in Threads : \A i \in DOMAIN lqueue[s] : i \in DOMAIN lqueue'[s] /\ lqueue'[s][i] = lqueue[s][i]
  BY <1>1, <1>2, <1>3 DEF b, c
<1>8. (\A i \in Cells : queue[i] # n) /\ \A s \in Threads : \A j \in DOMAIN lqueue[s] : lqueue[s][j] # n
  BY DEF InHand, Buffered
<1>9. QueueOnce'
  <2>1. Cells' = Cells /\ queue' = queue
    BY DEF Cells
  <2>2. ASSUME NEW r \in Threads, NEW s \in Threads, NEW i \in DOMAIN lqueue'[r], NEW j \in DOMAIN lqueue'[s],
               lqueue'[r][i] = lqueue'[s][j]
        PROVE  r = s /\ i = j
    BY <1>6, <1>8, <2>2 DEF QueueOnce
  <2>3. ASSUME NEW i \in Cells, NEW s \in Threads, NEW j \in DOMAIN lqueue'[s] PROVE queue[i] # lqueue'[s][j]
    BY <1>6, <1>8 DEF QueueOnce
  <2> QED BY <2>1, <2>2, <2>3 DEF QueueOnce
<1>10. \A v \in Nodes : Buffered(v)' <=> Buffered(v) \/ v = n
  <2>1. Buffered(n)'
    BY <1>1, <1>3, <1>4 DEF Buffered, c
  <2>2. ASSUME NEW v \in Nodes, Buffered(v)' PROVE Buffered(v) \/ v = n
    BY <1>6, <2>2 DEF Buffered
  <2>3. ASSUME NEW v \in Nodes, Buffered(v) PROVE Buffered(v)'
    BY <1>7, <2>3 DEF Buffered
  <2> QED BY <2>1, <2>2, <2>3
<1>11. Cells' = Cells /\ Added' = Added /\ queue' = queue
  BY DEF Cells, Added
<1>12. ASSUME NEW v \in Nodes
       PROVE  (Waiting(v)' <=> Waiting(v) \/ v = n) /\ (InHand(v)' <=> InHand(v) \/ v = n)
  BY <1>10, <1>11 DEF Waiting, InHand
<1> QED BY <1>5, <1>9, <1>12

LEMMA FlushAndAppendMoves ==
    ASSUME QueueTypeOK, QueueOnce, NEW t \in Threads, NEW n \in Nodes, ~InHand(n),
           Flush(t), UNCHANGED <<outStart, outEnd>>, lqueue' = [lqueue EXCEPT ![t] = <<n>>]
    PROVE  /\ QueueTypeOK' /\ QueueOnce'
           /\ \A i \in Cells : queue'[i] = queue[i]
           /\ \A v \in Nodes : /\ Waiting(v)' <=> Waiting(v) \/ v = n
                               /\ InHand(v)' <=> InHand(v) \/ v = n
<1> DEFINE k == Len(lqueue[t])
           b == lqueue[t]
           New == Claimed(t)
<1> USE QueueTypes
<1>1. /\ k \in Nat /\ sharedIn \in Nat /\ outEnd \in Nat /\ DOMAIN b = 1 .. k
      /\ sharedIn' = sharedIn + k /\ sharedIn + k <= N /\ outEnd' = outEnd /\ outEnd <= sharedIn
      /\ \A j \in 1 .. k : b[j] \in Nodes
  BY RoomForBuffer DEF Flush
<1>2. /\ DOMAIN lqueue'[t] = {1} /\ lqueue'[t][1] = n
      /\ \A s \in Threads \ {t} : lqueue'[s] = lqueue[s]
  BY DEF QueueTypeOK
<1>3. /\ \A i \in Cells : queue'[i] = queue[i]
      /\ \A i \in New : i - sharedIn + 1 \in 1 .. k /\ queue'[i] = b[i - sharedIn + 1]
      /\ \A j \in 1 .. k : sharedIn + j - 1 \in New /\ queue'[sharedIn + j - 1] = b[j]
  BY <1>1, FlushWrites
<1>4. /\ Cells' = Cells \cup New /\ Added' = Added \cup New
      /\ \A i \in New : i \notin Cells /\ i \in Nodes /\ i \in Int
  BY <1>1, FlushWrites
<1> HIDE DEF k, b, New
<1>5. \A i \in New : i - sharedIn + 1 \in DOMAIN b
  BY <1>1, <1>3
<1>8. (\A i \in Cells : queue[i] # n) /\ \A s \in Threads : \A j \in DOMAIN lqueue[s] : lqueue[s][j] # n
  BY DEF InHand, Buffered
<1>9. QueueOnce'
  <2>1. \A i \in Cells' : queue'[i] \in Nodes
    <3>1. \A i \in Cells : queue'[i] \in Nodes
      BY <1>3 DEF QueueOnce
    <3>2. \A i \in New : queue'[i] \in Nodes
      BY <1>1, <1>3
    <3> QED BY <1>4, <3>1, <3>2
  <2>2. ASSUME NEW i \in Cells', NEW j \in Cells', queue'[i] = queue'[j] PROVE i = j
    <3>1. CASE i \in Cells /\ j \in Cells
      BY <1>3, <2>2, <3>1 DEF QueueOnce
    <3>2. CASE i \in Cells /\ j \in New
      BY <1>3, <1>5, <2>2, <3>2 DEF QueueOnce, b
    <3>3. CASE i \in New /\ j \in Cells
      BY <1>3, <1>5, <2>2, <3>3 DEF QueueOnce, b
    <3>4. CASE i \in New /\ j \in New
      <4>1. b[i - sharedIn + 1] = b[j - sharedIn + 1]
        BY <1>3, <2>2, <3>4
      <4>2. i - sharedIn + 1 = j - sharedIn + 1
        BY <1>5, <3>4, <4>1 DEF QueueOnce, b
      <4> QED BY <1>1, <1>4, <3>4, <4>2
    <3> QED BY <1>4, <3>1, <3>2, <3>3, <3>4
  <2>3. ASSUME NEW r \in Threads, NEW s \in Threads, NEW i \in DOMAIN lqueue'[r], NEW j \in DOMAIN lqueue'[s],
               lqueue'[r][i] = lqueue'[s][j]
        PROVE  r = s /\ i = j
    BY <1>2, <1>8, <2>3 DEF QueueOnce
  <2>4. ASSUME NEW i \in Cells', NEW s \in Threads, NEW j \in DOMAIN lqueue'[s]
        PROVE  queue'[i] # lqueue'[s][j]
    <3>1. CASE s = t
      BY <1>2, <1>3, <1>4, <1>5, <1>8, <3>1 DEF b
    <3>2. CASE s # t /\ i \in Cells
      BY <1>2, <1>3, <3>2 DEF QueueOnce
    <3>3. CASE s # t /\ i \in New
      <4>1. lqueue'[s] = lqueue[s] /\ queue'[i] = lqueue[t][i - sharedIn + 1]
        BY <1>2, <1>3, <3>3 DEF b
      <4> QED BY <1>5, <3>3, <4>1 DEF QueueOnce, b
    <3> QED BY <1>4, <3>1, <3>2, <3>3
  <2> QED BY <2>1, <2>2, <2>3, <2>4 DEF QueueOnce
<1>10. QueueTypeOK'
  <2>1. queue' \in [Nodes -> Nodes \cup {None}]
    BY <1>1, <1>3, <1>4 DEF Flush, QueueTypeOK, New, k, b
  <2>2. \A s \in Threads : lqueue'[s] \in Seq(Nodes) /\ Len(lqueue'[s]) <= BufferSize
    BY QueueAssumption DEF QueueTypeOK
  <2>3. lqueue' \in [Threads -> Seq(Nodes)]
    BY <2>2 DEF QueueTypeOK
  <2> QED BY <1>1, <2>1, <2>2, <2>3 DEF QueueTypeOK
<1>11. ASSUME NEW v \in Nodes PROVE Buffered(v)' \/ (\E j \in 1 .. k : b[j] = v) <=> Buffered(v) \/ v = n
  BY <1>1, <1>2 DEF Buffered, b
<1>12. ASSUME NEW v \in Nodes
       PROVE  (Waiting(v)' <=> Waiting(v) \/ v = n) /\ (InHand(v)' <=> InHand(v) \/ v = n)
  <2>1. (\E i \in New : queue'[i] = v) <=> \E j \in 1 .. k : b[j] = v
    <3>1. ASSUME NEW i \in New, queue'[i] = v PROVE \E j \in 1 .. k : b[j] = v
      BY <1>3, <3>1
    <3>2. ASSUME NEW j \in 1 .. k, b[j] = v PROVE \E i \in New : queue'[i] = v
      BY <1>3, <3>2
    <3> QED BY <3>1, <3>2
  <2> QED BY <1>3, <1>4, <1>11, <2>1 DEF Waiting, InHand
<1> QED BY <1>3, <1>9, <1>10, <1>12

LEMMA PushBackMoves ==
    ASSUME QueueTypeOK, QueueOnce, NEW t \in Threads, NEW n \in Nodes, ~InHand(n),
           PushBack(t, n), UNCHANGED <<outStart, outEnd>>
    PROVE  /\ QueueTypeOK' /\ QueueOnce'
           /\ \A i \in Cells : queue'[i] = queue[i]
           /\ \A v \in Nodes : /\ Waiting(v)' <=> Waiting(v) \/ v = n
                               /\ InHand(v)' <=> InHand(v) \/ v = n
<1>1. CASE Len(lqueue[t]) = BufferSize
  BY <1>1, FlushAndAppendMoves DEF PushBack
<1>2. CASE Len(lqueue[t]) # BufferSize
  <2>1. Len(lqueue[t]) < BufferSize
    BY <1>2, QueueTypes, QueueAssumption DEF QueueTypeOK
  <2>2. queue' = queue
    BY <1>2 DEF PushBack
  <2> QED BY <1>2, <2>1, <2>2, AppendMoves DEF PushBack
<1> QED BY <1>1, <1>2
-----------------------------------------------------------------------------
(* The inductive invariant.  A node found in a top-down step is first held  *)
(* by the thread that will push it, then by its buffer, then by the queue.  *)
Pushers == {t \in Threads : pc[t] = "push"}
Held(v) == Waiting(v) \/ \E t \in Pushers : Neighbor(t) = v

PushersOnce ==
    \A t \in Pushers : /\ ~InHand(Neighbor(t))
                       /\ \A s \in Pushers : Neighbor(s) = Neighbor(t) => s = t

PcInPhase ==
    \A t \in Threads :
        /\ pc[t] \in {"read", "cas", "push"} => phase = "td"
        /\ pc[t] \in {"scan", "store_bit"} => phase = "bu"
        /\ pc[t] = "flushed" => phase \in {"td_flush", "to_queue_flush"}

(* Level d is complete, and only nodes of the next one have been found. *)
Common(d) ==
    /\ UpTo(d) \subseteq Visited /\ Visited \subseteq UpTo(d + 1)
    /\ front \subseteq UpTo(d + 1)
    /\ \A i \in 0 .. outEnd - 1 : queue[i] \in UpTo(d)
    /\ \A v \in Nodes : Held(v) => v \in Visited \cap Level(d + 1)

(* Between two steps, and while the queue becomes a bitmap. *)
AtLoop(d) ==
    /\ \A t \in Threads : lqueue[t] = <<>>
    /\ outEnd = sharedIn /\ Visited = UpTo(d) /\ front \subseteq UpTo(d)
    /\ {queue[i] : i \in Window} = Level(d)

AtConversion == todo \subseteq Window /\ \A i \in Window \ todo : queue[i] \in front

NeighborsVisited(u, k) == \A i \in 1 .. k : neigh[u][i] \in Visited

(* An edge of the window is gone along, or will be. *)
Covered(u) ==
    \/ NeighborsVisited(u, Degree(u))
    \/ \E t \in Threads : pc[t] # "idle" /\ node[t] = u /\ NeighborsVisited(u, edge[t] - 1)

AtTopDown(d) ==
    /\ front \subseteq UpTo(d)
    /\ {queue[i] : i \in Window} = Level(d) /\ todo \subseteq Window
    /\ \A i \in Window : i \in todo \/ Covered(queue[i])
    /\ \A t \in Threads :
           /\ pc[t] # "idle" => node[t] \in Level(d) /\ edge[t] \in DOMAIN neigh[node[t]]
           /\ pc[t] = "cas" => currVal[t] < 0 /\ parent[Neighbor(t)] \in Nat \cup {currVal[t]}
    /\ \A v \in Visited \cap Level(d + 1) : Held(v)

(* The buffers go to the queue. *)
AtFlush(d) ==
    /\ todo = {} /\ UpTo(d + 1) \subseteq Visited
    /\ phase = "td_flush" => front \subseteq UpTo(d)
    /\ \A v \in Level(d + 1) : Held(v)
    /\ \A t \in Threads : pc[t] = "flushed" => lqueue[t] = <<>>

(* A thread has a chunk to itself; what it has seen of it is decided. *)
Decided(n, d) ==
    \/ n \in Visited \/ n \notin Level(d + 1)
    \/ n \div Chunk \in todo
    \/ \E t \in Threads : pc[t] # "idle" /\ n \div Chunk = node[t] \div Chunk /\ node[t] <= n

BitPending == {t \in Threads : pc[t] = "store_bit"}

AtBottomUp(d) ==
    /\ \A t \in Threads : lqueue[t] = <<>>
    /\ outEnd = sharedIn /\ outStart = outEnd
    /\ Level(d) \subseteq front /\ front \subseteq UpTo(d) /\ todo \subseteq Chunks
    /\ \A n \in Nodes : Decided(n, d)
    /\ \A t \in Threads : pc[t] # "idle" =>
           /\ node[t] \div Chunk \notin todo
           /\ \A s \in Threads : pc[s] # "idle" /\ node[s] \div Chunk = node[t] \div Chunk => s = t
    /\ \A t \in BitPending : word[t] = curr \cap Word(node[t])
    /\ Visited \cap Level(d + 1) = curr \cup {node[t] : t \in BitPending}
    /\ awakeCount = Cardinality(Visited \cap Level(d + 1))

AtToQueue(d) ==
    /\ front = Level(d + 1) /\ UpTo(d + 1) \subseteq Visited /\ outStart = outEnd
    /\ \A v \in todo : ~Held(v)
    /\ \A v \in front \ todo : Held(v)

AtEnd == Visited = {v \in Nodes : Dist[v] # Unreached}

AtPhase(d) ==
    /\ phase \in {"loop", "to_bitmap"} => AtLoop(d)
    /\ phase = "to_bitmap" => AtConversion
    /\ phase = "td" => AtTopDown(d)
    /\ phase \in {"td_flush", "to_queue_flush"} => AtFlush(d)
    /\ phase = "bu" => AtBottomUp(d)
    /\ phase = "to_queue" => AtToQueue(d)
    /\ phase = "done" => AtEnd

Inv(d) == TypeOK /\ TreeSound /\ QueueOnce /\ PushersOnce /\ PcInPhase /\ Common(d) /\ AtPhase(d)

IInv == \E d \in Nat : Inv(d)
-----------------------------------------------------------------------------
LEMMA ChunkOf ==
    /\ Chunks \subseteq Nodes
    /\ \A n \in Nodes : n \div Chunk \in Chunks /\ n \in Nat
<1>1. N - 1 \in Nat /\ Chunk \in Nat \ {0} /\ \A n \in Nodes : n \in Nat /\ n <= N - 1
  BY NodesFinite, BFSAssumption DEF Nodes
<1>2. (N - 1) \div Chunk \in 0 .. N - 1
  BY <1>1, DivBounds
<1>3. \A n \in Nodes : n \div Chunk \in Nat /\ n \div Chunk <= (N - 1) \div Chunk
  BY <1>1, DivBounds, DivMonotone
<1> QED BY <1>1, <1>2, <1>3 DEF Chunks, Nodes

(* A chunk has nodes, and its first is one. *)
LEMMA ChunkStarts ==
    ASSUME NEW c \in Chunks
    PROVE  /\ Min(ChunkNodes(c)) \in Nodes /\ Min(ChunkNodes(c)) \div Chunk = c
           /\ \A n \in Nodes : n \div Chunk = c => Min(ChunkNodes(c)) <= n
<1>1. N - 1 \in Nat /\ Chunk \in Nat \ {0} /\ c \in Nat /\ c <= (N - 1) \div Chunk
  <2>1. N - 1 \in Nat /\ Chunk \in Nat \ {0}
    BY NodesFinite, BFSAssumption
  <2>2. (N - 1) \div Chunk \in 0 .. N - 1
    BY <2>1, DivBounds
  <2> QED BY <2>1, <2>2 DEF Chunks
<1>2. Chunk * c \in Nat /\ Chunk * c <= N - 1
  <2>1. Chunk * ((N - 1) \div Chunk) <= N - 1 /\ (N - 1) \div Chunk \in Nat
    BY <1>1, DivBounds
  <2>2. Chunk * c <= Chunk * ((N - 1) \div Chunk)
    BY <1>1, <2>1
  <2> QED BY <1>1, <2>1, <2>2
<1>3. (Chunk * c) \div Chunk = c
  <2>1. Chunk * c < Chunk * c + Chunk
    BY <1>1, <1>2
  <2> QED BY <1>1, <1>2, <2>1, DivIs
<1>4. Chunk * c \in ChunkNodes(c) /\ ChunkNodes(c) \subseteq Nat
  <2>1. Chunk * c \in Nodes
    BY <1>1, <1>2, NodesFinite DEF Nodes
  <2> QED BY <1>3, <2>1, ChunkOf DEF ChunkNodes
<1>5. \E x \in ChunkNodes(c) : \A y \in ChunkNodes(c) : x <= y
  <2> DEFINE S == ChunkNodes(c)
  <2>1. S \in SUBSET Nat /\ S # {}
    BY <1>4
  <2> HIDE DEF S
  <2>2. \E x \in S : \A y \in S : x <= y
    BY <2>1, LeastNatural
  <2> QED BY <2>2 DEF S
<1>6. Min(ChunkNodes(c)) \in ChunkNodes(c) /\ \A y \in ChunkNodes(c) : Min(ChunkNodes(c)) <= y
  BY <1>5 DEF Min
<1> QED BY <1>6 DEF ChunkNodes

(* Two nodes of one word are in one chunk. *)
LEMMA WordInChunk ==
    ASSUME NEW n \in Nodes, NEW m \in Word(n)
    PROVE  m \div Chunk = n \div Chunk
<1> DEFINE b == BitsPerWord
           k == Chunk \div b
           q == n \div b
           s == q \div k
<1>1. b \in Nat \ {0} /\ Chunk \in Nat \ {0} /\ Chunk % b = 0 /\ n \in Nat /\ m \in Nat /\ m \div b = q
  BY BFSAssumption, ChunkOf DEF Word
<1> HIDE DEF b
<1>2. Chunk = b * k /\ k \in Nat \ {0}
  <2>1. Chunk = (b * (Chunk \div b)) + (Chunk % b)
    BY <1>1
  <2>2. Chunk \div b \in Nat
    BY <1>1, DivBounds
  <2> QED BY <1>1, <2>1, <2>2
<1>3. q \in Nat /\ b * q <= n /\ n < b * q + b /\ b * q <= m /\ m < b * q + b
  BY <1>1, DivBounds
<1> HIDE DEF k, q
<1>4. s \in Nat /\ k * s <= q /\ q + 1 <= k * s + k
  BY <1>2, <1>3, DivBounds
<1> HIDE DEF s
<1>5. Chunk * s <= b * q /\ b * q + b <= Chunk * s + Chunk
  <2>1. b * (k * s) <= b * q /\ b * (q + 1) <= b * (k * s + k)
    <3>1. ASSUME NEW x \in Nat, NEW y \in Nat, x <= y PROVE b * x <= b * y
      BY <1>1, <3>1
    <3>2. k * s \in Nat /\ k * s + k \in Nat /\ q + 1 \in Nat
      BY <1>2, <1>3, <1>4
    <3> QED BY <1>3, <1>4, <3>1, <3>2
  <2>2. b * (k * s) = Chunk * s /\ b * (q + 1) = b * q + b /\ b * (k * s + k) = Chunk * s + Chunk
    BY <1>1, <1>2, <1>3, <1>4
  <2> QED BY <2>1, <2>2
<1>6. Chunk * s \in Nat /\ b * q \in Nat
  BY <1>1, <1>3, <1>4
<1>7. n \div Chunk = s /\ m \div Chunk = s
  <2>1. Chunk * s <= n /\ n < Chunk * s + Chunk /\ Chunk * s <= m /\ m < Chunk * s + Chunk
    BY <1>1, <1>3, <1>5, <1>6
  <2>2. s \in Int
    BY <1>4
  <2>3. n \div Chunk = s
    BY <1>1, <2>1, <2>2, DivIs
  <2>4. m \div Chunk = s
    BY <1>1, <2>1, <2>2, DivIs
  <2> QED BY <2>3, <2>4
<1> QED BY <1>7
-----------------------------------------------------------------------------
(* What a step leaves alone.                                                *)
LEMMA SameLevels ==
    ASSUME UNCHANGED args
    PROVE  /\ Dist' = Dist /\ neigh' = neigh /\ source' = source
           /\ \A e \in Nat : Level(e)' = Level(e) /\ UpTo(e)' = UpTo(e)
           /\ \A n : Degree(n)' = Degree(n)
<1>1. neigh' = neigh /\ source' = source
  BY DEF args
<1> QED BY <1>1 DEF Dist, Level, UpTo, Degree

LEMMA SameTree ==
    ASSUME TreeSound, UNCHANGED <<args, parent>>
    PROVE  TreeSound' /\ Visited' = Visited
<1>1. Visited' = Visited
  BY DEF Visited
<1>2. Dist' = Dist /\ neigh' = neigh /\ source' = source
  BY SameLevels
<1> QED BY <1>1, <1>2 DEF TreeSound

LEMMA SameQueue ==
    ASSUME QueueTypeOK, UNCHANGED <<queue, sharedIn, outEnd, lqueue>>, outStart' \in {outStart, outEnd}
    PROVE  /\ QueueTypeOK'
           /\ QueueOnce' <=> QueueOnce
           /\ Cells' = Cells /\ (outStart' = outStart => Window' = Window)
           /\ \A v : (Waiting(v)' <=> Waiting(v)) /\ (InHand(v)' <=> InHand(v))
<1>1. Cells' = Cells /\ Added' = Added /\ (outStart' = outStart => Window' = Window)
  BY DEF Window, Cells, Added
<1>2. \A v : Buffered(v)' <=> Buffered(v)
  BY DEF Buffered
<1>3. QueueTypeOK'
  BY DEF QueueTypeOK
<1> QED BY <1>1, <1>2, <1>3 DEF QueueOnce, Waiting, InHand

LEMMA SamePushers ==
    ASSUME UNCHANGED args, \A t \in Threads : pc'[t] = "push" <=> pc[t] = "push",
           \A t \in Pushers : node'[t] = node[t] /\ edge'[t] = edge[t]
    PROVE  Pushers' = Pushers /\ \A t \in Pushers : Neighbor(t)' = Neighbor(t)
<1>1. Pushers' = Pushers
  BY DEF Pushers
<1> QED BY <1>1, SameLevels DEF Neighbor

(* A step that reaches no node and moves none to or from the queue.         *)
SamePlaces ==
    /\ UNCHANGED <<args, parent, queue, sharedIn, outEnd, lqueue>>
    /\ outStart' \in {outStart, outEnd}
    /\ \A t \in Threads : pc'[t] = "push" <=> pc[t] = "push"
    /\ \A t \in Pushers : node'[t] = node[t] /\ edge'[t] = edge[t]

LEMMA PlacesKept ==
    ASSUME NEW d \in Nat, Inv(d), SamePlaces
    PROVE  /\ TreeSound' /\ QueueTypeOK' /\ QueueOnce' /\ PushersOnce'
           /\ Visited' = Visited
           /\ Cells' = Cells /\ (outStart' = outStart => Window' = Window)
           /\ \A v : Held(v)' <=> Held(v)
           /\ front' \subseteq UpTo(d + 1) => Common(d)'
<1>1. UNCHANGED args /\ UNCHANGED <<args, parent>> /\ UNCHANGED <<queue, sharedIn, outEnd, lqueue>>
  BY DEF SamePlaces
<1>2. TreeSound' /\ Visited' = Visited
  BY <1>1, SameTree DEF Inv
<1>3. /\ QueueTypeOK' /\ QueueOnce' /\ Cells' = Cells /\ (outStart' = outStart => Window' = Window)
      /\ \A v : (Waiting(v)' <=> Waiting(v)) /\ (InHand(v)' <=> InHand(v))
  BY <1>1, SameQueue DEF Inv, TypeOK, SamePlaces
<1>4. Pushers' = Pushers /\ \A t \in Pushers : Neighbor(t)' = Neighbor(t)
  BY <1>1, SamePushers DEF SamePlaces
<1>5. \A v : Held(v)' <=> Held(v)
  BY <1>3, <1>4 DEF Held
<1>6. PushersOnce'
  <2>1. PushersOnce
    BY DEF Inv
  <2> QED BY <1>3, <1>4, <2>1 DEF PushersOnce
<1>7. ASSUME front' \subseteq UpTo(d + 1) PROVE Common(d)'
  <2>1. Common(d)
    BY DEF Inv
  <2>2. UpTo(d)' = UpTo(d) /\ UpTo(d + 1)' = UpTo(d + 1) /\ Level(d + 1)' = Level(d + 1)
    BY <1>1, SameLevels
  <2> QED BY <1>1, <1>2, <1>5, <1>7, <2>1, <2>2 DEF Common
<1> QED BY <1>2, <1>3, <1>5, <1>6, <1>7
-----------------------------------------------------------------------------
(* The steps between the loops. *)
LEMMA StartTopDownInv ==
    ASSUME NEW d \in Nat, Inv(d), StartTopDown
    PROVE  Inv(d)'
<1> USE DEF StartTopDown
<1>1. SamePlaces /\ UNCHANGED args
  BY DEF SamePlaces, queueVars, threadVars
<1>2. TypeOK'
  <2>1. Window \subseteq Nodes
    BY QueueTypes DEF Inv, TypeOK
  <2> QED BY <1>1, <2>1, PlacesKept DEF Inv, TypeOK, args, threadVars, PhaseNames
<1>3. Common(d)'
  BY <1>1, PlacesKept DEF Inv, Common
<1>4. AtLoop(d) /\ PcInPhase /\ phase = "loop"
  BY DEF Inv, AtPhase
<1>5. \A t \in Threads : pc'[t] \in Steps /\ pc'[t] = pc[t] /\ pc[t] = "idle" /\ lqueue[t] = <<>>
  BY <1>4 DEF Inv, TypeOK, PcInPhase, AtLoop, Steps, threadVars
<1>6. PcInPhase'
  BY <1>5 DEF PcInPhase
<1>7. AtTopDown(d)'
  <2>1. Visited \cap Level(d + 1) = {}
    BY <1>4 DEF AtLoop, UpTo, Level
  <2>2. /\ Visited' = Visited /\ Window' = Window /\ Level(d)' = Level(d) /\ Level(d + 1)' = Level(d + 1)
        /\ UpTo(d)' = UpTo(d) /\ queue' = queue /\ front' = front
    BY <1>1, PlacesKept, SameLevels DEF queueVars
  <2> QED BY <1>4, <1>5, <2>1, <2>2 DEF AtLoop, AtTopDown
<1>8. AtPhase(d)'
  BY <1>7 DEF AtPhase
<1> QED BY <1>1, <1>2, <1>3, <1>6, <1>8, PlacesKept DEF Inv

LEMMA StartConversionInv ==
    ASSUME NEW d \in Nat, Inv(d), StartConversion
    PROVE  Inv(d)'
<1> USE DEF StartConversion
<1>1. SamePlaces /\ UNCHANGED args
  BY DEF SamePlaces, queueVars, threadVars
<1>2. TypeOK'
  <2>1. Window \subseteq Nodes
    BY QueueTypes DEF Inv, TypeOK
  <2> QED BY <1>1, <2>1, PlacesKept DEF Inv, TypeOK, args, threadVars, countVars, PhaseNames
<1>3. Common(d)'
  BY <1>1, PlacesKept DEF Inv, Common
<1>4. AtLoop(d) /\ PcInPhase
  BY DEF Inv, AtPhase
<1>5. PcInPhase'
  BY <1>4 DEF PcInPhase, threadVars
<1>6. AtLoop(d)' /\ AtConversion'
  <2>1. /\ Visited' = Visited /\ Window' = Window /\ Level(d)' = Level(d)
        /\ UpTo(d)' = UpTo(d) /\ UNCHANGED <<queue, outEnd, sharedIn, front, lqueue>>
    BY <1>1, PlacesKept, SameLevels DEF queueVars, threadVars
  <2> QED BY <1>4, <2>1 DEF AtLoop, AtConversion
<1>7. AtPhase(d)'
  BY <1>6 DEF AtPhase
<1> QED BY <1>1, <1>2, <1>3, <1>5, <1>7, PlacesKept DEF Inv

LEMMA SetBitAtomicInv ==
    ASSUME NEW d \in Nat, Inv(d), NEW i \in todo, SetBitAtomic(i)
    PROVE  Inv(d)'
<1> USE DEF SetBitAtomic
<1>1. SamePlaces /\ UNCHANGED args
  BY DEF SamePlaces, queueVars, threadVars
<1>2. AtLoop(d) /\ AtConversion /\ PcInPhase
  BY DEF Inv, AtPhase
<1>3. queue[i] \in Level(d) /\ queue[i] \in Nodes /\ queue[i] \in UpTo(d) /\ queue[i] \in UpTo(d + 1)
  <2>1. queue[i] \in Level(d)
    BY <1>2 DEF AtLoop, AtConversion
  <2> QED BY <2>1 DEF Level, UpTo
<1>4. TypeOK'
  BY <1>1, <1>3, PlacesKept DEF Inv, TypeOK, args, threadVars, countVars
<1>5. Common(d)'
  BY <1>1, <1>3, PlacesKept DEF Inv, Common
<1>6. PcInPhase'
  BY <1>2 DEF PcInPhase, threadVars
<1>7. AtLoop(d)' /\ AtConversion'
  <2>1. /\ Visited' = Visited /\ Window' = Window /\ Level(d)' = Level(d)
        /\ UpTo(d)' = UpTo(d) /\ UNCHANGED <<queue, outEnd, sharedIn, lqueue>>
    BY <1>1, PlacesKept, SameLevels DEF queueVars, threadVars
  <2> QED BY <1>2, <1>3, <2>1 DEF AtLoop, AtConversion
<1>8. AtPhase(d)'
  BY <1>7 DEF AtPhase
<1> QED BY <1>1, <1>4, <1>5, <1>6, <1>8, PlacesKept DEF Inv

LEMMA StartFlushInv ==
    ASSUME NEW d \in Nat, Inv(d), StartFlush
    PROVE  Inv(d)'
<1> USE DEF StartFlush
<1>1. SamePlaces /\ UNCHANGED args
  BY DEF SamePlaces, queueVars, threadVars
<1>2. TypeOK'
  BY <1>1, PlacesKept DEF Inv, TypeOK, args, threadVars, countVars, PhaseNames
<1>3. Common(d)'
  BY <1>1, PlacesKept DEF Inv, Common
<1>4. PcInPhase /\ todo = {} /\ \A t \in Threads : pc[t] = "idle"
  BY DEF Inv, LoopEnds
<1>5. PcInPhase'
  BY <1>4 DEF PcInPhase, threadVars
<1>6. /\ UpTo(d + 1) \subseteq Visited
      /\ phase = "td" => front \subseteq UpTo(d)
      /\ \A v \in Level(d + 1) : Held(v)
  <2>1. CASE phase = "td"
    <3>1. AtTopDown(d) /\ UpTo(d) \subseteq Visited
      BY <2>1 DEF Inv, AtPhase, Common
    <3>2. ASSUME NEW v \in Level(d + 1) PROVE v \in Visited
      <4>1. TypeOK
        BY DEF Inv
      <4>2. PICK i \in DOMAIN neigh[v] : neigh[v][i] \in Level(d)
        BY <4>1, Predecessor
      <4> DEFINE u == neigh[v][i]
      <4>3. Covered(u)
        <5>1. \E j \in Window : queue[j] = u
          BY <3>1, <4>2 DEF AtTopDown
        <5> QED BY <1>4, <3>1, <5>1 DEF AtTopDown
      <4>4. NeighborsVisited(u, Degree(u))
        BY <1>4, <4>3 DEF Covered
      <4>5. v \in Nodes /\ u \in Nodes
        BY <4>2 DEF Level
      <4>6. \E j \in DOMAIN neigh[u] : neigh[u][j] = v
        BY <4>1, <4>5, BackEdge
      <4>7. DOMAIN neigh[u] = 1 .. Degree(u)
        BY <4>1, <4>5, GraphFacts DEF Undirected, Degree
      <4> HIDE DEF u
      <4> QED BY <4>4, <4>6, <4>7 DEF NeighborsVisited
    <3>3. UpTo(d + 1) \subseteq UpTo(d) \cup Level(d + 1)
      BY DEF UpTo, Level
    <3>4. \A v \in Level(d + 1) : Held(v)
      BY <3>1, <3>2 DEF AtTopDown
    <3> QED BY <3>1, <3>2, <3>3, <3>4 DEF AtTopDown
  <2>2. CASE phase = "to_queue"
    BY <1>4, <2>2 DEF Inv, AtPhase, AtToQueue
  <2> QED BY <2>1, <2>2
<1>7. AtFlush(d)'
  <2>1. /\ Visited' = Visited /\ Level(d + 1)' = Level(d + 1) /\ \A v : Held(v)' <=> Held(v)
        /\ UpTo(d)' = UpTo(d) /\ UpTo(d + 1)' = UpTo(d + 1) /\ UNCHANGED <<front, pc, todo>>
    BY <1>1, PlacesKept, SameLevels DEF threadVars, queueVars
  <2>2. phase' = "td_flush" => phase = "td"
    OBVIOUS
  <2> QED BY <1>4, <1>6, <2>1, <2>2 DEF AtFlush
<1>8. AtPhase(d)'
  BY <1>7 DEF AtPhase
<1> QED BY <1>1, <1>2, <1>3, <1>5, <1>8, PlacesKept DEF Inv

LEMMA ConvertedInv ==
    ASSUME NEW d \in Nat, Inv(d), Converted
    PROVE  Inv(d)'
<1> USE DEF Converted, BottomUp, SlideWindow, Reset
<1>1. SamePlaces /\ UNCHANGED args
  BY DEF SamePlaces, threadVars, Inv, AtPhase, AtLoop
<1>2. AtLoop(d) /\ AtConversion /\ PcInPhase /\ todo = {} /\ phase = "to_bitmap"
      /\ \A t \in Threads : pc[t] = "idle"
  BY DEF Inv, AtPhase, LoopEnds
<1>3. TypeOK'
  <2>1. outEnd - outStart \in 0 .. N /\ 0 \in 0 .. N
    BY QueueTypes, NodesFinite DEF Inv, TypeOK
  <2> QED BY <1>1, <2>1, PlacesKept, ChunkOf DEF Inv, TypeOK, args, threadVars, PhaseNames
<1>4. Common(d)'
  BY <1>1, PlacesKept DEF Inv, Common
<1>5. PcInPhase'
  BY <1>2 DEF PcInPhase, threadVars
<1>6. AtBottomUp(d)'
  <2>1. /\ Visited' = Visited /\ Level(d)' = Level(d) /\ Level(d + 1)' = Level(d + 1) /\ UpTo(d)' = UpTo(d)
        /\ front' = front /\ lqueue' = lqueue /\ curr' = {} /\ pc' = pc /\ todo' = Chunks
    BY <1>1, PlacesKept, SameLevels DEF threadVars
  <2>2. Level(d) \subseteq front /\ front \subseteq UpTo(d) /\ outEnd = sharedIn /\ Visited = UpTo(d)
    BY <1>2 DEF AtLoop, AtConversion
  <2>3. Visited \cap Level(d + 1) = {}
    BY <2>2 DEF UpTo, Level
  <2>4. BitPending' = {}
    BY <1>2, <2>1 DEF BitPending
  <2>5. \A n \in Nodes : Decided(n, d)'
    BY <2>1, ChunkOf DEF Decided
  <2>6. awakeCount' = Cardinality({})
    BY FS_EmptySet
  <2> QED BY <1>2, <2>1, <2>2, <2>3, <2>4, <2>5, <2>6 DEF AtLoop, AtBottomUp
<1>7. AtPhase(d)'
  BY <1>6 DEF AtPhase
<1> QED BY <1>1, <1>3, <1>4, <1>5, <1>7, PlacesKept DEF Inv

(* What a bottom-up step leaves when no thread has a chunk any more: the    *)
(* next level is complete, and curr is this level.                          *)
LEMMA LevelComplete ==
    ASSUME NEW d \in Nat, Inv(d), phase = "bu", LoopEnds
    PROVE  /\ curr = Level(d + 1) /\ UpTo(d + 1) \subseteq Visited /\ Visited = UpTo(d + 1)
           /\ awakeCount = Cardinality(Level(d + 1))
           /\ \A v \in Nodes : ~Held(v)
<1>1. AtBottomUp(d) /\ Common(d) /\ todo = {} /\ \A t \in Threads : pc[t] = "idle"
  BY DEF Inv, AtPhase, LoopEnds
<1>2. Level(d + 1) \subseteq Visited
  BY <1>1 DEF AtBottomUp, Decided, Level
<1>3. UpTo(d + 1) \subseteq UpTo(d) \cup Level(d + 1)
  BY DEF UpTo, Level
<1>4. BitPending = {} /\ Pushers = {}
  BY <1>1 DEF BitPending, Pushers
<1>5. curr = Level(d + 1)
  <2>1. {node[t] : t \in BitPending} = {}
    BY <1>4
  <2> QED BY <1>1, <1>2, <2>1 DEF AtBottomUp
<1>6. ASSUME NEW v \in Nodes PROVE ~Held(v)
  <2>1. Added = {}
    BY <1>1, QueueTypes DEF AtBottomUp, Added, Inv, TypeOK
  <2>2. \A t \in Threads : DOMAIN lqueue[t] = {}
    BY <1>1 DEF AtBottomUp
  <2> QED BY <1>4, <2>1, <2>2 DEF Held, Waiting, Buffered
<1> QED BY <1>1, <1>2, <1>3, <1>5, <1>6 DEF Common, AtBottomUp

LEMMA BottomUpAgainInv ==
    ASSUME NEW d \in Nat, Inv(d), BottomUpAgain
    PROVE  Inv(d + 1)'
<1> USE DEF BottomUpAgain, BottomUp, Reset
<1>1. PcInPhase /\ todo = {} /\ \A t \in Threads : pc[t] = "idle"
  BY DEF Inv, LoopEnds
<1>2. SamePlaces /\ UNCHANGED args
  BY <1>1 DEF SamePlaces, queueVars, Pushers
<1>3. /\ curr = Level(d + 1) /\ Visited = UpTo(d + 1)
      /\ awakeCount = Cardinality(Level(d + 1)) /\ \A v \in Nodes : ~Held(v)
  BY LevelComplete
<1>4. d + 1 \in Nat /\ d + 2 \in Nat /\ (d + 1) + 1 = d + 2
  OBVIOUS
<1>5. /\ TreeSound' /\ QueueTypeOK' /\ QueueOnce' /\ PushersOnce' /\ Visited' = Visited
      /\ \A v : Held(v)' <=> Held(v)
  BY <1>2, PlacesKept
<1>6. /\ Level(d + 1)' = Level(d + 1) /\ Level(d + 2)' = Level(d + 2)
      /\ UpTo(d + 1)' = UpTo(d + 1) /\ UpTo(d + 2)' = UpTo(d + 2) /\ UpTo(d)' = UpTo(d)
  BY <1>2, <1>4, SameLevels
<1>7. /\ Level(d + 1) \subseteq UpTo(d + 1) /\ UpTo(d) \subseteq UpTo(d + 1)
      /\ UpTo(d + 1) \subseteq UpTo(d + 2) /\ UpTo(d + 1) \cap Level(d + 2) = {}
  BY DEF UpTo, Level
<1>8. TypeOK'
  <2>1. FreshNode \in [Threads -> Nodes]
    BY NodesFinite DEF FreshNode
  <2>2. 0 \in 0 .. N /\ curr \subseteq Nodes
    BY NodesFinite DEF Inv, TypeOK
  <2> QED BY <1>5, <2>1, <2>2, ChunkOf DEF Inv, TypeOK, args, PhaseNames
<1>9. Common(d + 1)'
  <2>1. \A i \in 0 .. outEnd - 1 : queue[i] \in UpTo(d)
    BY DEF Inv, Common
  <2>2. outEnd' = outEnd /\ queue' = queue /\ front' = curr
    BY DEF queueVars
  <2> QED BY <1>3, <1>4, <1>5, <1>6, <1>7, <2>1, <2>2 DEF Common
<1>10. PcInPhase'
  BY <1>1 DEF PcInPhase
<1>11. AtBottomUp(d + 1)'
  <2>1. AtBottomUp(d)
    BY DEF Inv, AtPhase
  <2>2. BitPending' = {}
    BY <1>1 DEF BitPending
  <2>3. \A n \in Nodes : Decided(n, d + 1)'
    BY ChunkOf DEF Decided
  <2>4. awakeCount' = Cardinality({})
    BY FS_EmptySet
  <2>5. /\ front' = curr /\ lqueue' = lqueue /\ curr' = {} /\ pc' = pc /\ todo' = Chunks
        /\ outEnd' = outEnd /\ outStart' = outStart /\ sharedIn' = sharedIn
    BY DEF queueVars
  <2> QED BY <1>1, <1>3, <1>4, <1>5, <1>6, <1>7, <2>1, <2>2, <2>3, <2>4, <2>5 DEF AtBottomUp
<1>12. AtPhase(d + 1)'
  BY <1>11 DEF AtPhase
<1> QED BY <1>5, <1>8, <1>9, <1>10, <1>12 DEF Inv

LEMMA BottomUpEndsInv ==
    ASSUME NEW d \in Nat, Inv(d), BottomUpEnds
    PROVE  Inv(d)'
<1> USE DEF BottomUpEnds
<1>1. PcInPhase /\ todo = {} /\ \A t \in Threads : pc[t] = "idle"
  BY DEF Inv, LoopEnds
<1>2. SamePlaces /\ UNCHANGED args
  BY <1>1 DEF SamePlaces, queueVars, Pushers
<1>3. curr = Level(d + 1) /\ Visited = UpTo(d + 1) /\ \A v \in Nodes : ~Held(v)
  BY LevelComplete
<1>4. TypeOK'
  <2>1. FreshNode \in [Threads -> Nodes]
    BY NodesFinite DEF FreshNode
  <2> QED BY <1>2, <2>1, PlacesKept DEF Inv, TypeOK, args, countVars, PhaseNames
<1>5. Common(d)'
  <2>1. Level(d + 1) \subseteq UpTo(d + 1)
    BY DEF UpTo, Level
  <2> QED BY <1>2, <1>3, <2>1, PlacesKept, SameLevels
<1>6. PcInPhase'
  BY <1>1 DEF PcInPhase
<1>7. AtToQueue(d)'
  <2>1. /\ Visited' = Visited /\ Level(d + 1)' = Level(d + 1) /\ UpTo(d + 1)' = UpTo(d + 1)
        /\ (\A v : Held(v)' <=> Held(v)) /\ outStart' = outStart /\ outEnd' = outEnd
    BY <1>2, PlacesKept, SameLevels DEF queueVars
  <2>2. outStart = outEnd
    BY DEF Inv, AtPhase, AtBottomUp
  <2>3. Level(d + 1) \subseteq Nodes
    BY DEF Level
  <2> QED BY <1>3, <2>1, <2>2, <2>3 DEF AtToQueue
<1>8. AtPhase(d)'
  BY <1>7 DEF AtPhase
<1> QED BY <1>2, <1>4, <1>5, <1>6, <1>8, PlacesKept DEF Inv

LEMMA FlushedInv ==
    ASSUME NEW d \in Nat, Inv(d), Flushed
    PROVE  Inv(d + 1)'
<1> USE DEF Flushed, SlideWindow
<1>1. AtFlush(d) /\ Common(d) /\ \A t \in Threads : pc[t] = "flushed" /\ lqueue[t] = <<>>
  BY DEF Inv, AtPhase, AtFlush
<1>2. UNCHANGED args /\ UNCHANGED <<args, parent>>
  OBVIOUS
<1>3. TreeSound' /\ Visited' = Visited
  BY <1>2, SameTree DEF Inv
<1>4. d + 1 \in Nat /\ d + 2 \in Nat /\ (d + 1) + 1 = d + 2
  OBVIOUS
<1>5. /\ Level(d + 1)' = Level(d + 1) /\ Level(d + 2)' = Level(d + 2)
      /\ UpTo(d + 1)' = UpTo(d + 1) /\ UpTo(d + 2)' = UpTo(d + 2) /\ UpTo(d)' = UpTo(d)
  BY <1>2, <1>4, SameLevels
<1>6. /\ Level(d + 1) \subseteq UpTo(d + 1) /\ UpTo(d) \subseteq UpTo(d + 1)
      /\ UpTo(d + 1) \subseteq UpTo(d + 2)
  BY DEF UpTo, Level
<1>7. Pushers = {} /\ Pushers' = {} /\ \A v : ~Buffered(v) /\ ~Buffered(v)'
  <2>1. \A t \in Threads : DOMAIN lqueue[t] = {} /\ lqueue'[t] = lqueue[t]
    BY <1>1
  <2> QED BY <1>1, <2>1 DEF Pushers, Buffered
<1>8. QueueTypeOK' /\ QueueOnce' /\ Added' = {} /\ Window' = Added /\ Cells' = Cells
  <2>1. QueueTypeOK' /\ Added' = {} /\ Window' = Added /\ Cells' = Cells
    BY QueueTypes DEF Inv, TypeOK, QueueTypeOK, Added, Window, Cells
  <2> QED BY <2>1 DEF Inv, QueueOnce
<1>9. {queue[i] : i \in Added} = Level(d + 1)
  <2>1. \A v : Held(v) <=> \E i \in Added : queue[i] = v
    BY <1>7 DEF Held, Waiting
  <2>2. \A i \in Added : queue[i] \in Nodes
    BY QueueTypes DEF Inv, TypeOK, QueueOnce
  <2> QED BY <1>1, <2>1, <2>2 DEF AtFlush, Common
<1>10. TypeOK'
  BY <1>8, NodesFinite DEF Inv, TypeOK, args, PhaseNames, Steps, FreshNode, FreshEdge
<1>11. Common(d + 1)'
  <2>1. \A i \in 0 .. outEnd' - 1 : queue'[i] \in UpTo(d + 1)
    <3>1. \A i \in Cells : i \in Added \/ i \in 0 .. outEnd - 1
      BY QueueTypes DEF Inv, TypeOK, Cells, Added
    <3>2. \A i \in Cells : queue[i] \in UpTo(d + 1)
      BY <1>1, <1>6, <1>9, <3>1 DEF Common
    <3> QED BY <3>2 DEF Cells
  <2>2. \A v : ~Held(v)'
    BY <1>7, <1>8 DEF Held, Waiting
  <2> QED BY <1>1, <1>3, <1>4, <1>5, <1>6, <2>1, <2>2 DEF Common, AtFlush
<1>12. PcInPhase' /\ PushersOnce'
  BY <1>7 DEF PcInPhase, PushersOnce
<1>13. AtLoop(d + 1)'
  BY <1>1, <1>3, <1>5, <1>8, <1>9 DEF AtLoop, AtFlush, Common
<1>14. AtPhase(d + 1)'
  BY <1>13 DEF AtPhase
<1> QED BY <1>3, <1>8, <1>10, <1>11, <1>12, <1>14 DEF Inv

(* Behind an empty level there is nothing.                                  *)
LEMMA NothingBeyond ==
    ASSUME TypeOK, NEW d \in Nat, Level(d) = {}
    PROVE  UpTo(d) = {v \in Nodes : Dist[v] # Unreached}
<1> DEFINE Far == {k \in Nat : k >= d /\ Level(k) # {}}
<1>1. Far = {}
  <2> SUFFICES ASSUME Far # {} PROVE FALSE
    OBVIOUS
  <2>1. Far \in SUBSET Nat
    OBVIOUS
  <2>2. PICK k \in Far : \A m \in Far : k <= m
    <3> HIDE DEF Far
    <3> QED BY <2>1, LeastNatural
  <2>3. k \in Nat /\ k - 1 \in Nat /\ (k - 1) + 1 = k /\ k - 1 >= d
    BY <2>2
  <2>4. PICK v \in Level((k - 1) + 1) : TRUE
    BY <2>2, <2>3
  <2>5. Level(k - 1) # {}
    BY <2>3, <2>4, Predecessor
  <2> QED BY <2>2, <2>3, <2>5
<1>2. ASSUME NEW v \in Nodes, Dist[v] # Unreached PROVE Dist[v] \in 0 .. d
  <2>1. Dist[v] \in Nat
    BY <1>2, GraphFacts DEF AreDistances
  <2>2. v \in Level(Dist[v])
    BY DEF Level
  <2> QED BY <1>1, <2>1, <2>2
<1>3. ASSUME NEW v \in Nodes, Dist[v] \in 0 .. d PROVE Dist[v] # Unreached
  BY <1>3 DEF Unreached
<1> QED BY <1>2, <1>3 DEF UpTo

LEMMA FinishInv ==
    ASSUME NEW d \in Nat, Inv(d), Finish
    PROVE  Inv(d)'
<1> USE DEF Finish
<1>1. AtLoop(d) /\ TypeOK /\ TreeSound /\ Common(d) /\ PcInPhase /\ PushersOnce /\ QueueTypeOK /\ QueueOnce
  BY DEF Inv, AtPhase, TypeOK
<1>2. UNCHANGED args /\ UNCHANGED <<queue, sharedIn, outEnd, lqueue>> /\ outStart' = outStart
      /\ pc' = pc /\ node' = node /\ edge' = edge /\ front' = front
  BY DEF queueVars, threadVars
<1>3. \A n \in Nodes : /\ parent'[n] \in Int /\ parent'[n] < N
                       /\ parent[n] >= 0 => parent'[n] = parent[n] /\ parent'[n] \in Nodes
                       /\ parent[n] < 0 => parent'[n] = -1
  BY <1>1, NodesFinite DEF TypeOK, Cleared, Nodes
<1>4. Visited' = Visited
  BY <1>1, <1>3 DEF Visited, TypeOK
<1>5. /\ Dist' = Dist /\ neigh' = neigh /\ source' = source /\ Level(d)' = Level(d) /\ UpTo(d)' = UpTo(d)
      /\ Level(d + 1)' = Level(d + 1) /\ UpTo(d + 1)' = UpTo(d + 1)
  BY <1>2, SameLevels
<1>6. TreeSound'
  <2>1. source \in Visited /\ \A v \in Visited : parent'[v] = parent[v]
    BY <1>1, <1>3, NodesFinite DEF TreeSound, Visited, TypeOK, Nodes
  <2> QED BY <1>1, <1>4, <1>5, <2>1 DEF TreeSound
<1>7. QueueTypeOK' /\ QueueOnce' /\ \A v : (Waiting(v)' <=> Waiting(v)) /\ (InHand(v)' <=> InHand(v))
  BY <1>1, <1>2, SameQueue
<1>8. Pushers' = Pushers /\ \A t \in Pushers : Neighbor(t)' = Neighbor(t)
  BY <1>2, SamePushers
<1>9. PushersOnce' /\ \A v : Held(v)' <=> Held(v)
  BY <1>1, <1>7, <1>8 DEF PushersOnce, Held
<1>10. TypeOK'
  <2>1. parent' \in [Nodes -> {p \in Int : p < N}] /\ parent' \in [Nodes -> Nodes \cup {-1}]
    BY <1>1, <1>3 DEF TypeOK
  <2> QED BY <1>1, <1>7, <2>1 DEF TypeOK, args, countVars, threadVars, PhaseNames
<1>11. Common(d)'
  BY <1>1, <1>2, <1>4, <1>5, <1>9 DEF Common
<1>12. PcInPhase'
  BY <1>1, <1>2 DEF PcInPhase
<1>13. AtEnd'
  <2>1. Window = {}
    BY <1>1, QueueTypes DEF Window
  <2>2. Level(d) = {}
    BY <1>1, <2>1 DEF AtLoop
  <2>3. Visited = {v \in Nodes : Dist[v] # Unreached}
    BY <1>1, <2>2, NothingBeyond DEF AtLoop
  <2> QED BY <1>4, <1>5, <2>3 DEF AtEnd
<1>14. AtPhase(d)'
  BY <1>13 DEF AtPhase
<1> QED BY <1>6, <1>7, <1>9, <1>10, <1>11, <1>12, <1>14 DEF Inv

LEMMA LastFlushInv ==
    ASSUME NEW d \in Nat, Inv(d), NEW t \in Threads, LastFlush(t)
    PROVE  Inv(d)'
<1> USE DEF LastFlush, Goto
<1>1. AtFlush(d) /\ TypeOK /\ TreeSound /\ Common(d) /\ PcInPhase /\ PushersOnce /\ QueueTypeOK /\ QueueOnce
  BY DEF Inv, AtPhase, TypeOK
<1>2. UNCHANGED args /\ UNCHANGED <<args, parent>>
  OBVIOUS
<1>3. TreeSound' /\ Visited' = Visited
  BY <1>1, <1>2, SameTree
<1>4. /\ Level(d + 1)' = Level(d + 1) /\ UpTo(d + 1)' = UpTo(d + 1) /\ UpTo(d)' = UpTo(d)
  BY <1>2, SameLevels
<1>5. /\ QueueTypeOK' /\ QueueOnce'
      /\ \A i \in Cells : queue'[i] = queue[i]
      /\ \A v \in Nodes : (Waiting(v)' <=> Waiting(v)) /\ (InHand(v)' <=> InHand(v))
  BY <1>1, FlushMoves
<1>6. Pushers = {} /\ Pushers' = {} /\ \A s \in Threads : pc'[s] = IF s = t THEN "flushed" ELSE pc[s]
  BY <1>1 DEF Pushers, PcInPhase, TypeOK
<1>7. PushersOnce' /\ PcInPhase'
  BY <1>1, <1>6 DEF PushersOnce, PcInPhase
<1>8. \A v \in Nodes : Held(v)' <=> Held(v)
  BY <1>5, <1>6 DEF Held
<1>9. TypeOK'
  BY <1>1, <1>5 DEF TypeOK, args, countVars, Steps
<1>10. Common(d)'
  <2>1. \A i \in 0 .. outEnd - 1 : i \in Cells
    BY <1>1, QueueTypes DEF Cells
  <2> QED BY <1>1, <1>3, <1>4, <1>5, <1>8, <2>1 DEF Common
<1>11. AtFlush(d)'
  <2>1. \A s \in Threads : pc'[s] = "flushed" => lqueue'[s] = <<>>
    BY <1>1, <1>6 DEF AtFlush, QueueTypeOK
  <2>2. Level(d + 1) \subseteq Nodes
    BY DEF Level
  <2> QED BY <1>1, <1>3, <1>4, <1>8, <2>1, <2>2 DEF AtFlush
<1>12. AtPhase(d)'
  BY <1>11 DEF AtPhase
<1> QED BY <1>3, <1>5, <1>7, <1>9, <1>10, <1>12 DEF Inv
-----------------------------------------------------------------------------
(* The steps of a top-down loop. *)
LEMMA Edges ==
    ASSUME TypeOK, NEW u \in Nodes
    PROVE  /\ Degree(u) \in Nat /\ DOMAIN neigh[u] = 1 .. Degree(u)
           /\ \A i \in 1 .. Degree(u) : neigh[u][i] \in Nodes
BY GraphFacts DEF Undirected, Degree

LEMMA NextEdgeMoves ==
    ASSUME TypeOK, NEW t \in Threads, NextEdge(t), edge[t] \in 1 .. Degree(node[t])
    PROVE  /\ pc' \in [Threads -> Steps] /\ edge' \in [Threads -> Nat \ {0}]
           /\ \A s \in Threads \ {t} : pc'[s] = pc[s] /\ edge'[s] = edge[s]
           /\ \/ pc'[t] = "read" /\ edge'[t] = edge[t] + 1 /\ edge[t] + 1 \in 1 .. Degree(node[t])
              \/ pc'[t] = "idle" /\ edge'[t] = edge[t] /\ edge[t] = Degree(node[t])
<1>1. Degree(node[t]) \in Nat /\ pc \in [Threads -> Steps] /\ edge \in [Threads -> Nat \ {0}]
  BY Edges DEF TypeOK
<1> QED BY <1>1 DEF NextEdge, Goto, Steps

(* The next edge is taken when this one leads to a visited node. *)
LEMMA CoverKept ==
    ASSUME TypeOK, NEW t \in Threads, NextEdge(t), pc[t] # "idle", edge[t] \in 1 .. Degree(node[t]),
           UNCHANGED args, node' = node, Visited \subseteq Visited', Neighbor(t) \in Visited',
           NEW u \in Nodes, Covered(u)
    PROVE  Covered(u)'
<1>1. neigh' = neigh /\ Degree(u)' = Degree(u) /\ Degree(u) \in Nat
  BY SameLevels, Edges
<1>2. \A k \in Int : NeighborsVisited(u, k) => \A i \in 1 .. k : neigh[u][i] \in Visited'
  BY DEF NeighborsVisited
<1>3. CASE \A i \in 1 .. Degree(u) : neigh[u][i] \in Visited'
  BY <1>1, <1>3 DEF Covered, NeighborsVisited
<1>4. CASE \E s \in Threads \ {t} : pc[s] # "idle" /\ node[s] = u /\ NeighborsVisited(u, edge[s] - 1)
  <2>1. PICK s \in Threads \ {t} : pc[s] # "idle" /\ node[s] = u /\ NeighborsVisited(u, edge[s] - 1)
    BY <1>4
  <2>2. pc'[s] # "idle" /\ edge'[s] = edge[s] /\ node'[s] = u /\ edge[s] - 1 \in Int
    BY <2>1, NextEdgeMoves DEF TypeOK
  <2>3. \A i \in 1 .. edge[s] - 1 : neigh[u][i] \in Visited'
    BY <1>2, <2>1, <2>2
  <2> QED BY <1>1, <2>2, <2>3 DEF Covered, NeighborsVisited
<1>5. CASE node[t] = u /\ NeighborsVisited(u, edge[t] - 1)
  <2>1. edge[t] \in Nat \ {0} /\ edge[t] - 1 \in Int /\ neigh[u][edge[t]] \in Visited'
    BY <1>1, <1>5 DEF TypeOK, Neighbor
  <2>2. \A i \in 1 .. edge[t] : neigh[u][i] \in Visited'
    <3>1. \A i \in 1 .. edge[t] - 1 : neigh[u][i] \in Visited'
      BY <1>2, <1>5, <2>1
    <3> QED BY <2>1, <3>1
  <2>3. CASE pc'[t] = "read" /\ edge'[t] = edge[t] + 1
    <3>1. edge'[t] - 1 = edge[t]
      BY <2>1, <2>3
    <3> QED BY <1>1, <1>5, <2>2, <2>3, <3>1 DEF Covered, NeighborsVisited
  <2>4. CASE edge[t] = Degree(node[t])
    BY <1>3, <1>5, <2>2, <2>4
  <2> QED BY <2>3, <2>4, NextEdgeMoves
<1>6. CASE NeighborsVisited(u, Degree(u))
  BY <1>1, <1>2, <1>3, <1>6
<1> QED BY <1>4, <1>5, <1>6 DEF Covered

LEMMA TakeInv ==
    ASSUME NEW d \in Nat, Inv(d), NEW t \in Threads, NEW i \in todo, Take(t, i)
    PROVE  Inv(d)'
<1> USE DEF Take, Goto
<1>1. AtTopDown(d) /\ TypeOK /\ PcInPhase /\ phase = "td" /\ UNCHANGED args
  BY DEF Inv, AtPhase
<1>2. /\ \A s \in Threads : pc'[s] = IF s # t THEN pc[s] ELSE IF Degree(queue[i]) = 0 THEN "idle" ELSE "read"
      /\ \A s \in Threads \ {t} : node'[s] = node[s] /\ edge'[s] = edge[s]
      /\ node'[t] = queue[i] /\ edge'[t] = 1 /\ pc[t] = "idle"
  BY <1>1 DEF TypeOK
<1>3. SamePlaces /\ outStart' = outStart
  BY <1>1, <1>2 DEF SamePlaces, Pushers, queueVars
<1>4. queue[i] \in Level(d) /\ queue[i] \in Nodes
  BY <1>1 DEF AtTopDown, Level
<1>5. TypeOK'
  BY <1>1, <1>3, <1>4, PlacesKept DEF TypeOK, args, countVars, Steps
<1>6. Common(d)'
  BY <1>3, PlacesKept DEF Inv, Common
<1>7. PcInPhase'
  BY <1>1, <1>2 DEF PcInPhase
<1>8. AtTopDown(d)'
  <2>1. /\ Visited' = Visited /\ Window' = Window /\ Level(d)' = Level(d) /\ Level(d + 1)' = Level(d + 1)
        /\ UpTo(d)' = UpTo(d) /\ UNCHANGED <<queue, front, parent, currVal, neigh>>
        /\ \A v : Held(v)' <=> Held(v)
    BY <1>1, <1>3, PlacesKept, SameLevels DEF queueVars
  <2>2. \A u : Degree(u)' = Degree(u)
    BY <1>1, SameLevels
  <2>4. ASSUME NEW j \in Window PROVE j \in todo' \/ Covered(queue[j])'
    <3>1. CASE j = i /\ Degree(queue[i]) = 0
      BY <2>1, <2>2, <3>1 DEF Covered, NeighborsVisited
    <3>2. CASE j = i /\ Degree(queue[i]) # 0
      <4>1. edge'[t] - 1 = 0
        BY <1>2
      <4> QED BY <1>2, <2>1, <3>2, <4>1 DEF Covered, NeighborsVisited
    <3>3. CASE j # i /\ j \notin todo
      <4>1. Covered(queue[j])
        BY <1>1, <3>3 DEF AtTopDown
      <4>2. ASSUME NEW s \in Threads, pc[s] # "idle", node[s] = queue[j],
                   NeighborsVisited(queue[j], edge[s] - 1)
            PROVE  Covered(queue[j])'
        BY <1>2, <2>1, <4>2 DEF Covered, NeighborsVisited
      <4>3. ASSUME NeighborsVisited(queue[j], Degree(queue[j])) PROVE Covered(queue[j])'
        BY <2>1, <2>2, <4>3 DEF Covered, NeighborsVisited
      <4> QED BY <4>1, <4>2, <4>3 DEF Covered
    <3> QED BY <3>1, <3>2, <3>3
  <2>5. ASSUME NEW s \in Threads
        PROVE  /\ pc'[s] # "idle" => node'[s] \in Level(d) /\ edge'[s] \in DOMAIN neigh[node'[s]]
               /\ pc'[s] = "cas" => currVal[s] < 0 /\ parent[Neighbor(s)'] \in Nat \cup {currVal[s]}
    <3>1. CASE s = t
      <4>1. Degree(queue[i]) \in Nat /\ DOMAIN neigh[queue[i]] = 1 .. Degree(queue[i])
        BY <1>1, <1>4, Edges
      <4> QED BY <1>2, <1>4, <3>1, <4>1
    <3>2. CASE s # t
      BY <1>1, <1>2, <2>1, <3>2 DEF AtTopDown, Neighbor
    <3> QED BY <3>1, <3>2
  <2> QED BY <1>1, <2>1, <2>4, <2>5 DEF AtTopDown
<1>9. AtPhase(d)'
  BY <1>1, <1>8 DEF AtPhase
<1> QED BY <1>3, <1>5, <1>6, <1>7, <1>9, PlacesKept DEF Inv

(* The edge of a thread that is at one. *)
LEMMA AtEdge ==
    ASSUME NEW d \in Nat, Inv(d), NEW t \in Threads, pc[t] \in {"read", "cas", "push"}
    PROVE  /\ phase = "td" /\ AtTopDown(d) /\ node[t] \in Nodes /\ node[t] \in Level(d)
           /\ edge[t] \in 1 .. Degree(node[t]) /\ Neighbor(t) \in Nodes
<1>1. phase = "td" /\ AtTopDown(d) /\ TypeOK
  BY DEF Inv, PcInPhase, AtPhase
<1>2. node[t] \in Nodes /\ node[t] \in Level(d) /\ edge[t] \in DOMAIN neigh[node[t]]
  BY <1>1 DEF AtTopDown, TypeOK
<1> QED BY <1>1, <1>2, Edges DEF Neighbor

(* A step of one thread to its next edge, or to its compare and swap. *)
LEMMA TopDownKept ==
    ASSUME NEW d \in Nat, Inv(d), NEW t \in Threads, pc[t] \in {"read", "cas"},
           UNCHANGED <<args, parent, queue, sharedIn, outStart, outEnd, lqueue, front, node, todo, phase>>,
           \A s \in Threads \ {t} : pc'[s] = pc[s] /\ edge'[s] = edge[s] /\ currVal'[s] = currVal[s],
           \/ NextEdge(t) /\ Neighbor(t) \in Visited
           \/ /\ pc'[t] = "cas" /\ edge' = edge
              /\ currVal'[t] < 0 /\ parent[Neighbor(t)] \in Nat \cup {currVal'[t]}
    PROVE  /\ SamePlaces /\ PcInPhase' /\ Common(d)' /\ AtPhase(d)'
           /\ TreeSound' /\ QueueTypeOK' /\ QueueOnce' /\ PushersOnce'
<1>1. /\ AtTopDown(d) /\ TypeOK /\ PcInPhase /\ phase = "td" /\ UNCHANGED args /\ node[t] \in Nodes
      /\ node[t] \in Level(d) /\ edge[t] \in 1 .. Degree(node[t])
  BY AtEdge DEF Inv
<1>2. /\ pc'[t] \in {"read", "cas", "idle"}
      /\ pc'[t] = "cas" => edge'[t] = edge[t] /\ currVal'[t] < 0
                           /\ parent[Neighbor(t)] \in Nat \cup {currVal'[t]}
      /\ pc'[t] # "idle" => edge'[t] \in 1 .. Degree(node[t])
  BY <1>1, NextEdgeMoves
<1>3. SamePlaces
  BY <1>2 DEF SamePlaces, Pushers
<1>4. /\ TreeSound' /\ QueueTypeOK' /\ QueueOnce' /\ PushersOnce' /\ Visited' = Visited
      /\ Window' = Window /\ Common(d)' /\ \A v : Held(v)' <=> Held(v)
  BY <1>3, PlacesKept DEF Inv, Common
<1>5. PcInPhase'
  BY <1>1, <1>2 DEF PcInPhase
<1>6. /\ Level(d)' = Level(d) /\ Level(d + 1)' = Level(d + 1)
      /\ UpTo(d)' = UpTo(d) /\ neigh' = neigh
  BY <1>1, SameLevels
<1>7. ASSUME NEW u \in Nodes, Covered(u) PROVE Covered(u)'
  <2>1. CASE NextEdge(t) /\ Neighbor(t) \in Visited
    BY <1>1, <1>4, <1>7, <2>1, CoverKept
  <2>2. CASE pc'[t] = "cas" /\ edge' = edge
    <3>1. Degree(u)' = Degree(u)
      BY <1>1, SameLevels
    <3>2. \A s \in Threads : pc[s] # "idle" => pc'[s] # "idle"
      BY <2>2
    <3> QED BY <1>4, <1>6, <1>7, <2>2, <3>1, <3>2 DEF Covered, NeighborsVisited
  <2> QED BY <2>1, <2>2
<1>8. \A i \in Window : queue[i] \in Nodes
  BY <1>1 DEF AtTopDown, Level
<1>9. ASSUME NEW s \in Threads
      PROVE  /\ pc'[s] # "idle" => node[s] \in Level(d) /\ edge'[s] \in DOMAIN neigh[node[s]]
             /\ pc'[s] = "cas" => currVal'[s] < 0 /\ parent[Neighbor(s)'] \in Nat \cup {currVal'[s]}
  <2>1. CASE s = t
    <3>1. DOMAIN neigh[node[t]] = 1 .. Degree(node[t])
      BY <1>1, Edges
    <3> QED BY <1>1, <1>2, <1>6, <2>1, <3>1 DEF Neighbor
  <2>2. CASE s # t
    BY <1>1, <1>6, <2>2 DEF AtTopDown, Neighbor
  <2> QED BY <2>1, <2>2
<1>10. AtTopDown(d)'
  BY <1>1, <1>4, <1>6, <1>7, <1>8, <1>9 DEF AtTopDown
<1>11. AtPhase(d)'
  BY <1>1, <1>10 DEF AtPhase
<1> QED BY <1>3, <1>4, <1>5, <1>11

LEMMA ReadParentInv ==
    ASSUME NEW d \in Nat, Inv(d), NEW t \in Threads, ReadParent(t)
    PROVE  Inv(d)'
<1>1. /\ TypeOK /\ Neighbor(t) \in Nodes /\ edge[t] \in 1 .. Degree(node[t]) /\ pc[t] = "read"
      /\ parent[Neighbor(t)] \in Int
  BY AtEdge DEF Inv, ReadParent, TypeOK
<1>2. UNCHANGED <<args, parent, queue, sharedIn, outStart, outEnd, lqueue, front, node, todo, phase>>
  BY DEF ReadParent, queueVars
<1>3. CASE parent[Neighbor(t)] < 0
  <2>1. /\ pc' = [pc EXCEPT ![t] = "cas"] /\ edge' = edge
        /\ currVal' = [currVal EXCEPT ![t] = parent[Neighbor(t)]]
    BY <1>3 DEF ReadParent, Goto
  <2>2. /\ pc' \in [Threads -> Steps] /\ edge' \in [Threads -> Nat \ {0}] /\ currVal' \in [Threads -> Int]
        /\ \A s \in Threads \ {t} : pc'[s] = pc[s] /\ edge'[s] = edge[s] /\ currVal'[s] = currVal[s]
        /\ pc'[t] = "cas" /\ currVal'[t] = parent[Neighbor(t)]
    BY <1>1, <2>1 DEF TypeOK, Steps
  <2>3. /\ SamePlaces /\ PcInPhase' /\ Common(d)' /\ AtPhase(d)'
        /\ TreeSound' /\ QueueTypeOK' /\ QueueOnce' /\ PushersOnce'
    BY <1>1, <1>2, <1>3, <2>1, <2>2, TopDownKept
  <2>4. TypeOK'
    BY <1>1, <2>2, <2>3 DEF TypeOK, ReadParent, args, countVars
  <2> QED BY <2>3, <2>4 DEF Inv
<1>4. CASE ~(parent[Neighbor(t)] < 0)
  <2>1. NextEdge(t) /\ currVal' = currVal /\ Neighbor(t) \in Visited
    BY <1>1, <1>4 DEF ReadParent, Visited
  <2>2. /\ pc' \in [Threads -> Steps] /\ edge' \in [Threads -> Nat \ {0}]
        /\ \A s \in Threads \ {t} : pc'[s] = pc[s] /\ edge'[s] = edge[s] /\ currVal'[s] = currVal[s]
    BY <1>1, <2>1, NextEdgeMoves
  <2>3. /\ SamePlaces /\ PcInPhase' /\ Common(d)' /\ AtPhase(d)'
        /\ TreeSound' /\ QueueTypeOK' /\ QueueOnce' /\ PushersOnce'
    BY <1>1, <1>2, <2>1, <2>2, TopDownKept
  <2>4. TypeOK'
    BY <1>1, <2>1, <2>2, <2>3 DEF TypeOK, ReadParent, args, countVars
  <2> QED BY <2>3, <2>4 DEF Inv
<1> QED BY <1>3, <1>4

(* The node a compare and swap takes is new, and of the next level. *)
LEMMA SwapReaches ==
    ASSUME NEW d \in Nat, Inv(d), NEW t \in Threads, pc[t] = "cas", Swaps(t)
    PROVE  /\ Neighbor(t) \in Level(d + 1) \ Visited
           /\ \E j \in DOMAIN neigh[Neighbor(t)] : neigh[Neighbor(t)][j] = node[t]
           /\ currVal[t] \in Int /\ currVal[t] < 0
<1> DEFINE n == Neighbor(t)
<1>1. /\ AtTopDown(d) /\ TypeOK /\ node[t] \in Nodes /\ n \in Nodes
      /\ node[t] \in Level(d) /\ edge[t] \in 1 .. Degree(node[t])
  BY AtEdge DEF Inv
<1>2. parent[n] = currVal[t] /\ currVal[t] \in Int /\ currVal[t] < 0 /\ n \notin Visited
  BY <1>1 DEF Swaps, AtTopDown, TypeOK, Visited
<1>3. edge[t] \in DOMAIN neigh[node[t]] /\ n = neigh[node[t]][edge[t]]
  BY <1>1, Edges DEF Neighbor
<1>4. PICK j \in DOMAIN neigh[n] : neigh[n][j] = node[t]
  BY <1>1, <1>3, BackEdge
<1>5. node[t] \in UpTo(d) /\ UpTo(d) \subseteq Visited
  BY <1>1 DEF Level, UpTo, Inv, Common
<1> HIDE DEF n
<1>6. n \in Level(d + 1)
  BY <1>1, <1>2, <1>4, <1>5, EdgeBeyond
<1> QED BY <1>2, <1>4, <1>6 DEF n

LEMMA CasInv ==
    ASSUME NEW d \in Nat, Inv(d), NEW t \in Threads, Cas(t)
    PROVE  Inv(d)'
<1> DEFINE n == Neighbor(t)
<1>1. /\ TypeOK /\ n \in Nodes /\ node[t] \in Nodes /\ edge[t] \in 1 .. Degree(node[t]) /\ pc[t] = "cas"
      /\ parent[n] \in Int /\ AtTopDown(d) /\ phase = "td" /\ node[t] \in Level(d)
  BY AtEdge DEF Inv, Cas, TypeOK
<1>2. /\ UNCHANGED args /\ UNCHANGED <<queue, sharedIn, outStart, outEnd, lqueue, front, node, todo, phase>>
      /\ currVal' = [currVal EXCEPT ![t] = 0] /\ UNCHANGED <<curr, edgesToCheck, awakeCount, oldAwakeCount, word>>
  BY DEF Cas, queueVars
<1>3. currVal' \in [Threads -> Int] /\ \A s \in Threads \ {t} : currVal'[s] = currVal[s]
  BY <1>1, <1>2 DEF TypeOK
<1>4. CASE ~Swaps(t)
  <2>1. NextEdge(t) /\ UNCHANGED <<parent, scoutCount>> /\ n \in Visited
    BY <1>1, <1>4 DEF Cas, Swaps, Visited, AtTopDown
  <2>2. /\ pc' \in [Threads -> Steps] /\ edge' \in [Threads -> Nat \ {0}]
        /\ \A s \in Threads \ {t} : pc'[s] = pc[s] /\ edge'[s] = edge[s]
    BY <1>1, <2>1, NextEdgeMoves
  <2>3. /\ SamePlaces /\ PcInPhase' /\ Common(d)' /\ AtPhase(d)'
        /\ TreeSound' /\ QueueTypeOK' /\ QueueOnce' /\ PushersOnce'
    BY <1>1, <1>2, <1>3, <2>1, <2>2, TopDownKept
  <2>4. TypeOK'
    BY <1>1, <1>2, <1>3, <2>1, <2>2, <2>3 DEF TypeOK, args
  <2> QED BY <2>3, <2>4 DEF Inv
<1>5. CASE Swaps(t)
  <2>1. /\ parent' = [parent EXCEPT ![n] = node[t]] /\ scoutCount' = scoutCount - currVal[t]
        /\ pc' = [pc EXCEPT ![t] = "push"] /\ edge' = edge
    BY <1>5 DEF Cas, Goto
  <2>2. n \in Level(d + 1) \ Visited /\ currVal[t] \in Int /\ currVal[t] < 0
    BY <1>1, <1>5, SwapReaches
  <2>3. PICK j \in DOMAIN neigh[n] : neigh[n][j] = node[t]
    BY <1>1, <1>5, SwapReaches
  <2> HIDE DEF n
  <2>4. TreeSound' /\ Visited' = Visited \cup {n} /\ parent' \in [Nodes -> {p \in Int : p < N}]
    BY <1>1, <1>2, <2>1, <2>2, <2>3, TreeGrows DEF Inv
  <2>5. /\ QueueTypeOK' /\ QueueOnce' /\ Window' = Window /\ Cells' = Cells
        /\ \A v : (Waiting(v)' <=> Waiting(v)) /\ (InHand(v)' <=> InHand(v))
    BY <1>2, SameQueue DEF Inv, TypeOK
  <2>6. /\ pc' \in [Threads -> Steps] /\ pc'[t] = "push"
        /\ \A s \in Threads \ {t} : pc'[s] = pc[s]
    BY <1>1, <2>1 DEF TypeOK, Steps
  <2>7. /\ Level(d)' = Level(d) /\ Level(d + 1)' = Level(d + 1) /\ UpTo(d)' = UpTo(d)
        /\ UpTo(d + 1)' = UpTo(d + 1) /\ neigh' = neigh /\ (\A s : Neighbor(s)' = Neighbor(s))
        /\ \A u : Degree(u)' = Degree(u)
    BY <1>2, <2>1, SameLevels DEF Neighbor
  <2>8. Pushers' = Pushers \cup {t}
    BY <2>6 DEF Pushers
  <2>9. ~Held(n) /\ ~InHand(n)
    <3>1. Common(d)
      BY DEF Inv
    <3>2. ~Held(n)
      BY <2>2, <3>1 DEF Common, Level
    <3>3. \A i \in Cells : i \in Added \/ i \in 0 .. outEnd - 1
      BY QueueTypes DEF Inv, TypeOK, Cells, Added
    <3>4. \A i \in 0 .. outEnd - 1 : queue[i] # n
      BY <2>2, <3>1 DEF Common
    <3> QED BY <3>2, <3>3, <3>4 DEF InHand, Held, Waiting
  <2>10. PushersOnce'
    <3>1. PushersOnce /\ Neighbor(t) = n
      BY DEF Inv, n
    <3>2. \A s \in Pushers : Neighbor(s) # n
      BY <2>9 DEF Held
    <3> QED BY <2>5, <2>7, <2>8, <2>9, <3>1, <3>2 DEF PushersOnce
  <2>11. \A v : Held(v)' <=> Held(v) \/ v = n
    BY <2>5, <2>7, <2>8 DEF Held, n
  <2>12. TypeOK'
    <3>1. scoutCount' \in Nat
      BY <1>1, <2>1, <2>2 DEF TypeOK
    <3> QED BY <1>1, <1>2, <1>3, <2>1, <2>4, <2>5, <2>6, <3>1 DEF TypeOK, args
  <2>13. Common(d)'
    <3>1. Common(d) /\ n \in UpTo(d + 1)
      BY <2>2 DEF Inv, Level, UpTo
    <3> QED BY <1>2, <2>2, <2>4, <2>7, <2>11, <3>1 DEF Common
  <2>14. PcInPhase'
    BY <1>1, <1>2, <2>6 DEF PcInPhase, Inv
  <2>15. AtTopDown(d)'
    <3>1. \A i \in Window : queue[i] \in Nodes
      BY <1>1 DEF AtTopDown, Level
    <3>2. ASSUME NEW u \in Nodes, Covered(u) PROVE Covered(u)'
      <4>1. \A s \in Threads : pc[s] # "idle" => pc'[s] # "idle"
        BY <2>6
      <4> QED BY <1>2, <2>1, <2>4, <2>7, <3>2, <4>1 DEF Covered, NeighborsVisited
    <3>3. ASSUME NEW s \in Threads
          PROVE  /\ pc'[s] # "idle" => node[s] \in Level(d) /\ edge[s] \in DOMAIN neigh[node[s]]
                 /\ pc'[s] = "cas" => currVal'[s] < 0 /\ parent'[Neighbor(s)] \in Nat \cup {currVal'[s]}
      <4>1. CASE s = t
        <5>1. DOMAIN neigh[node[t]] = 1 .. Degree(node[t])
          BY <1>1, Edges
        <5> QED BY <1>1, <2>6, <4>1, <5>1
      <4>2. CASE s # t
        <5>1. pc'[s] = pc[s] /\ currVal'[s] = currVal[s]
          BY <1>3, <2>6, <4>2
        <5>2. ASSUME pc[s] = "cas" PROVE parent'[Neighbor(s)] \in Nat \cup {currVal[s]}
          <6>1. Neighbor(s) \in Nodes /\ node[t] \in Nat
            BY <1>1, <5>2, AtEdge, ChunkOf
          <6>2. parent[Neighbor(s)] \in Nat \cup {currVal[s]}
            BY <1>1, <5>2 DEF AtTopDown
          <6>3. parent'[Neighbor(s)] = IF Neighbor(s) = n THEN node[t] ELSE parent[Neighbor(s)]
            BY <1>1, <2>1, <6>1 DEF TypeOK
          <6> QED BY <6>1, <6>2, <6>3
        <5> QED BY <1>1, <5>1, <5>2 DEF AtTopDown
      <4> QED BY <4>1, <4>2
    <3> QED BY <1>1, <1>2, <2>1, <2>4, <2>5, <2>7, <2>11, <3>1, <3>2, <3>3 DEF AtTopDown
  <2>16. AtPhase(d)'
    BY <1>1, <1>2, <2>15 DEF AtPhase
  <2> QED BY <2>4, <2>5, <2>10, <2>12, <2>13, <2>14, <2>16 DEF Inv
<1> QED BY <1>4, <1>5

LEMMA PushInv ==
    ASSUME NEW d \in Nat, Inv(d), NEW t \in Threads, Push(t)
    PROVE  Inv(d)'
<1> DEFINE n == Neighbor(t)
<1>1. /\ TypeOK /\ n \in Nodes /\ node[t] \in Nodes /\ edge[t] \in 1 .. Degree(node[t]) /\ pc[t] = "push"
      /\ AtTopDown(d) /\ phase = "td" /\ node[t] \in Level(d) /\ Common(d) /\ PushersOnce
  BY AtEdge DEF Inv, Push
<1>2. /\ UNCHANGED args /\ UNCHANGED <<args, parent>> /\ UNCHANGED <<outStart, outEnd>>
      /\ UNCHANGED <<front, node, todo, phase, currVal, curr, word>> /\ UNCHANGED countVars
      /\ PushBack(t, n) /\ NextEdge(t)
  BY DEF Push
<1>3. TreeSound' /\ Visited' = Visited
  BY <1>2, SameTree DEF Inv
<1>4. /\ Level(d)' = Level(d) /\ Level(d + 1)' = Level(d + 1) /\ UpTo(d)' = UpTo(d)
      /\ UpTo(d + 1)' = UpTo(d + 1) /\ neigh' = neigh
  BY <1>2, SameLevels
<1>5. t \in Pushers /\ ~InHand(n) /\ Held(n) /\ n \in Visited
  BY <1>1 DEF PushersOnce, Pushers, Held, Common
<1>6. /\ QueueTypeOK' /\ QueueOnce'
      /\ \A i \in Cells : queue'[i] = queue[i]
      /\ \A v \in Nodes : /\ Waiting(v)' <=> Waiting(v) \/ v = n
                          /\ InHand(v)' <=> InHand(v) \/ v = n
  <2> HIDE DEF n
  <2> QED BY <1>1, <1>2, <1>5, PushBackMoves DEF Inv, TypeOK
<1>7. /\ pc' \in [Threads -> Steps] /\ edge' \in [Threads -> Nat \ {0}]
      /\ \A s \in Threads \ {t} : pc'[s] = pc[s] /\ edge'[s] = edge[s]
      /\ pc'[t] \in {"read", "idle"} /\ (pc'[t] # "idle" => edge'[t] \in 1 .. Degree(node[t]))
  BY <1>1, <1>2, NextEdgeMoves
<1>8. Pushers' = Pushers \ {t} /\ \A s \in Pushers' : Neighbor(s)' = Neighbor(s) /\ Neighbor(s) \in Nodes
  <2>1. Pushers' = Pushers \ {t}
    BY <1>7 DEF Pushers
  <2>2. \A s \in Pushers : Neighbor(s) \in Nodes
    BY AtEdge DEF Pushers
  <2> QED BY <1>2, <1>4, <1>7, <2>1, <2>2 DEF Neighbor, Pushers
<1>9. PushersOnce'
  BY <1>1, <1>5, <1>6, <1>8 DEF PushersOnce
<1>10. \A v \in Nodes : Held(v)' <=> Held(v)
  <2>1. ASSUME NEW v \in Nodes PROVE Held(v)' <=> Held(v)
    BY <1>5, <1>6, <1>8 DEF Held
  <2> QED BY <2>1
<1>11. TypeOK'
  BY <1>1, <1>2, <1>6, <1>7 DEF TypeOK, args, countVars
<1>12. Common(d)'
  <2>1. \A i \in 0 .. outEnd - 1 : i \in Cells
    BY <1>1, QueueTypes DEF Cells, TypeOK
  <2> QED BY <1>1, <1>2, <1>3, <1>4, <1>6, <1>10, <2>1 DEF Common
<1>13. PcInPhase'
  BY <1>1, <1>2, <1>7 DEF PcInPhase, Inv
<1>14. AtTopDown(d)'
  <2>1. \A i \in Window : queue'[i] = queue[i] /\ queue[i] \in Nodes
    BY <1>1, <1>6, QueueTypes DEF TypeOK, AtTopDown, Level
  <2>2. ASSUME NEW u \in Nodes, Covered(u) PROVE Covered(u)'
    BY <1>1, <1>2, <1>3, <1>5, <2>2, CoverKept
  <2>3. Window' = Window /\ {queue'[i] : i \in Window} = {queue[i] : i \in Window}
    BY <1>2, <2>1 DEF Window
  <2>4. ASSUME NEW s \in Threads
        PROVE  /\ pc'[s] # "idle" => node[s] \in Level(d) /\ edge'[s] \in DOMAIN neigh[node[s]]
               /\ pc'[s] = "cas" => currVal[s] < 0 /\ parent[Neighbor(s)'] \in Nat \cup {currVal[s]}
    <3>1. CASE s = t
      <4>1. DOMAIN neigh[node[t]] = 1 .. Degree(node[t])
        BY <1>1, Edges
      <4> QED BY <1>1, <1>7, <3>1, <4>1
    <3>2. CASE s # t
      BY <1>1, <1>2, <1>4, <1>7, <3>2 DEF AtTopDown, Neighbor
    <3> QED BY <3>1, <3>2
  <2>5. \A i \in Window : i \in todo' \/ Covered(queue[i])'
    BY <1>1, <1>2, <2>1, <2>2 DEF AtTopDown
  <2>6. \A v \in Visited \cap Level(d + 1) : Held(v)'
    BY <1>1, <1>10 DEF AtTopDown, Level
  <2> QED BY <1>1, <1>2, <1>3, <1>4, <2>3, <2>4, <2>5, <2>6 DEF AtTopDown
<1>15. AtPhase(d)'
  BY <1>1, <1>2, <1>14 DEF AtPhase
<1> QED BY <1>3, <1>6, <1>9, <1>11, <1>12, <1>13, <1>15 DEF Inv

LEMMA GetBitInv ==
    ASSUME NEW d \in Nat, Inv(d), NEW t \in Threads, NEW n \in todo, GetBit(t, n)
    PROVE  Inv(d)'
<1> USE DEF GetBit
<1>1. TypeOK /\ AtToQueue(d) /\ Common(d) /\ PcInPhase /\ n \in Nodes /\ phase = "to_queue"
  BY DEF Inv, AtPhase, TypeOK
<1>2. /\ UNCHANGED args /\ UNCHANGED <<args, parent>> /\ UNCHANGED <<outStart, outEnd>>
      /\ UNCHANGED <<front, node, phase, currVal, curr, word, pc, edge>> /\ UNCHANGED countVars
      /\ todo' = todo \ {n}
  OBVIOUS
<1>3. Pushers = {} /\ Pushers' = {}
  BY <1>1, <1>2 DEF Pushers, PcInPhase
<1>4. PcInPhase' /\ PushersOnce'
  BY <1>1, <1>2, <1>3 DEF PcInPhase, PushersOnce
<1>5. TreeSound' /\ Visited' = Visited
  BY <1>2, SameTree DEF Inv
<1>6. /\ Level(d)' = Level(d) /\ Level(d + 1)' = Level(d + 1) /\ UpTo(d)' = UpTo(d)
      /\ UpTo(d + 1)' = UpTo(d + 1) /\ Level(d + 1) \subseteq Nodes /\ Level(d + 1) \subseteq UpTo(d + 1)
  BY <1>2, SameLevels DEF Level, UpTo
<1>7. /\ QueueTypeOK' /\ QueueOnce' /\ \A i \in Cells : queue'[i] = queue[i]
      /\ \A v \in Nodes : Waiting(v)' <=> Waiting(v) \/ (v = n /\ n \in front)
  <2>1. CASE n \in front
    <3>1. ~Held(n) /\ n \in Level(d + 1) /\ n \notin UpTo(d)
      BY <1>1, <2>1 DEF AtToQueue, Level, UpTo
    <3>2. \A i \in Cells : i \in Added \/ i \in 0 .. outEnd - 1
      BY <1>1, QueueTypes DEF TypeOK, Cells, Added
    <3>3. ~InHand(n)
      BY <1>1, <3>1, <3>2 DEF Held, Waiting, InHand, Common
    <3> QED BY <1>1, <2>1, <3>3, PushBackMoves DEF Inv, TypeOK
  <2>2. CASE n \notin front
    <3>1. UNCHANGED <<queue, sharedIn, outEnd, lqueue>> /\ outStart' = outStart
      BY <2>2
    <3> QED BY <2>2, <3>1, SameQueue DEF Inv, TypeOK
  <2> QED BY <2>1, <2>2
<1>8. \A v \in Nodes : Held(v)' <=> Held(v) \/ (v = n /\ n \in front)
  BY <1>3, <1>7 DEF Held
<1>9. TypeOK'
  BY <1>1, <1>2, <1>7 DEF TypeOK, args, countVars
<1>10. Common(d)'
  <2>1. \A i \in 0 .. outEnd - 1 : i \in Cells
    BY <1>1, QueueTypes DEF Cells, TypeOK
  <2>2. n \in front => n \in Visited \cap Level(d + 1)
    BY <1>1, <1>6 DEF AtToQueue
  <2> QED BY <1>1, <1>2, <1>5, <1>6, <1>7, <1>8, <2>1, <2>2 DEF Common
<1>11. AtToQueue(d)'
  <2>1. todo \subseteq Nodes /\ front \subseteq Nodes
    BY <1>1 DEF TypeOK
  <2> QED BY <1>1, <1>2, <1>5, <1>6, <1>8, <2>1 DEF AtToQueue
<1>12. AtPhase(d)'
  BY <1>1, <1>2, <1>11 DEF AtPhase
<1> QED BY <1>4, <1>5, <1>7, <1>9, <1>10, <1>12 DEF Inv
-----------------------------------------------------------------------------
(* The steps of a bottom-up loop. *)
LEMMA NextNodeMoves ==
    ASSUME TypeOK, NEW t \in Threads, NextNode(t)
    PROVE  /\ pc' \in [Threads -> Steps] /\ node' \in [Threads -> Nodes]
           /\ \A s \in Threads \ {t} : pc'[s] = pc[s] /\ node'[s] = node[s]
           /\ node'[t] \div Chunk = node[t] \div Chunk
           /\ \/ pc'[t] = "scan" /\ node'[t] = node[t] + 1
              \/ /\ pc'[t] = "idle" /\ node'[t] = node[t]
                 /\ \A n \in Nodes : n \div Chunk = node[t] \div Chunk => n <= node[t]
<1>1. node[t] \in Nodes /\ pc \in [Threads -> Steps] /\ node \in [Threads -> Nodes]
  BY DEF TypeOK
<1>2. CASE \E c \in Chunks : {node[t], node[t] + 1} \subseteq ChunkNodes(c)
  <2>1. pc' = [pc EXCEPT ![t] = "scan"] /\ node' = [node EXCEPT ![t] = node[t] + 1]
    BY <1>1, <1>2 DEF NextNode, Goto
  <2>2. /\ node[t] + 1 \in Nodes /\ (node[t] + 1) \div Chunk = node[t] \div Chunk
    BY <1>2 DEF ChunkNodes
  <2>3. pc' \in [Threads -> Steps] /\ node' \in [Threads -> Nodes] /\ pc'[t] = "scan" /\ node'[t] = node[t] + 1
    BY <1>1, <2>1, <2>2 DEF Steps
  <2> QED BY <1>1, <2>1, <2>2, <2>3
<1>3. CASE ~ \E c \in Chunks : {node[t], node[t] + 1} \subseteq ChunkNodes(c)
  <2>1. pc' = [pc EXCEPT ![t] = "idle"] /\ node' = node
    BY <1>3 DEF NextNode, Goto
  <2>2. ASSUME NEW n \in Nodes, n \div Chunk = node[t] \div Chunk, ~(n <= node[t]) PROVE FALSE
    <3>1. node[t] \in Nat /\ n \in Nat /\ node[t] <= node[t] + 1 /\ node[t] + 1 <= n /\ node[t] + 1 \in Nat
      BY <1>1, <2>2, ChunkOf
    <3>2. node[t] + 1 \in Nodes
      BY <3>1, NodesFinite DEF Nodes
    <3>3. Chunk \in Nat \ {0}
      BY BFSAssumption
    <3>4. node[t] \div Chunk <= (node[t] + 1) \div Chunk /\ (node[t] + 1) \div Chunk <= n \div Chunk
      BY <3>1, <3>3, DivMonotone
    <3>5. node[t] \div Chunk \in Nat /\ (node[t] + 1) \div Chunk \in Nat
      BY <3>1, <3>3, DivBounds
    <3>6. (node[t] + 1) \div Chunk = node[t] \div Chunk /\ node[t] \div Chunk \in Chunks
      BY <1>1, <2>2, <3>4, <3>5, ChunkOf
    <3> QED BY <1>1, <1>3, <3>2, <3>6 DEF ChunkNodes
  <2>3. pc' \in [Threads -> Steps] /\ node' \in [Threads -> Nodes] /\ pc'[t] = "idle" /\ node'[t] = node[t]
    BY <1>1, <2>1 DEF Steps
  <2> QED BY <1>1, <2>1, <2>2, <2>3
<1> QED BY <1>2, <1>3

LEMMA TakeChunkInv ==
    ASSUME NEW d \in Nat, Inv(d), NEW t \in Threads, NEW c \in todo, TakeChunk(t, c)
    PROVE  Inv(d)'
<1> USE DEF TakeChunk, Goto
<1>1. AtBottomUp(d) /\ TypeOK /\ PcInPhase /\ phase = "bu" /\ UNCHANGED args /\ c \in Chunks
  BY DEF Inv, AtPhase, AtBottomUp
<1>2. /\ node'[t] \in Nodes /\ node'[t] \div Chunk = c
      /\ \A n \in Nodes : n \div Chunk = c => node'[t] <= n
  BY <1>1, ChunkStarts DEF TypeOK
<1>3. /\ node' \in [Threads -> Nodes] /\ pc' \in [Threads -> Steps] /\ pc[t] = "idle" /\ pc'[t] = "scan"
      /\ \A s \in Threads \ {t} : pc'[s] = pc[s] /\ node'[s] = node[s]
  BY <1>1, <1>2 DEF TypeOK, Steps
<1>4. SamePlaces
  BY <1>3 DEF SamePlaces, Pushers, queueVars
<1>5. TypeOK'
  BY <1>1, <1>3, <1>4, PlacesKept DEF TypeOK, args, countVars
<1>6. Common(d)'
  BY <1>4, PlacesKept DEF Inv, Common
<1>7. PcInPhase'
  BY <1>1, <1>3 DEF PcInPhase
<1>8. AtBottomUp(d)'
  <2>1. /\ Visited' = Visited /\ Level(d)' = Level(d) /\ Level(d + 1)' = Level(d + 1)
        /\ UpTo(d)' = UpTo(d) /\ UNCHANGED <<front, curr, word, lqueue, sharedIn, outStart, outEnd, awakeCount>>
    BY <1>1, <1>4, PlacesKept, SameLevels DEF queueVars, countVars
  <2>2. BitPending' = BitPending /\ t \notin BitPending /\ \A s \in BitPending : node'[s] = node[s]
    BY <1>3 DEF BitPending
  <2>3. ASSUME NEW n \in Nodes PROVE Decided(n, d)'
    <3>1. Decided(n, d)
      BY <1>1 DEF AtBottomUp
    <3>2. \A s \in Threads : pc[s] # "idle" => pc'[s] # "idle" /\ node'[s] = node[s]
      BY <1>3
    <3>3. n \div Chunk = c => Decided(n, d)'
      BY <1>2, <1>3 DEF Decided
    <3> QED BY <2>1, <3>1, <3>2, <3>3 DEF Decided
  <2>4. ASSUME NEW s \in Threads, pc'[s] # "idle"
        PROVE  /\ node'[s] \div Chunk \notin todo'
               /\ \A r \in Threads : pc'[r] # "idle" /\ node'[r] \div Chunk = node'[s] \div Chunk => r = s
    <3>1. \A r \in Threads \ {t} : pc'[r] # "idle" => node'[r] \div Chunk \notin todo /\ node'[r] \div Chunk # c
      BY <1>1, <1>3 DEF AtBottomUp
    <3>2. CASE s = t
      BY <1>2, <3>1, <3>2
    <3>3. CASE s # t
      <4>1. node'[s] \div Chunk \notin todo' /\ pc[s] # "idle"
        BY <1>3, <2>4, <3>1, <3>3
      <4>2. ASSUME NEW r \in Threads, pc'[r] # "idle", node'[r] \div Chunk = node'[s] \div Chunk PROVE r = s
        <5>1. r # t
          BY <1>2, <2>4, <3>1, <3>3, <4>2
        <5> QED BY <1>1, <1>3, <3>3, <4>1, <4>2, <5>1 DEF AtBottomUp
      <4> QED BY <4>1, <4>2
    <3> QED BY <3>2, <3>3
  <2>5. {node'[s] : s \in BitPending} = {node[s] : s \in BitPending}
    BY <2>2
  <2>6. \A s \in BitPending : word[s] = curr \cap Word(node'[s])
    BY <1>1, <2>2 DEF AtBottomUp
  <2>7. \A s \in BitPending' : word'[s] = curr' \cap Word(node'[s])
    BY <2>1, <2>2, <2>6
  <2>8. Visited' \cap Level(d + 1)' = curr' \cup {node'[s] : s \in BitPending'}
    BY <1>1, <2>1, <2>2, <2>5 DEF AtBottomUp
  <2>9. todo' \subseteq Chunks
    BY <1>1 DEF AtBottomUp
  <2>10. /\ \A s \in Threads : lqueue'[s] = <<>>
         /\ outEnd' = sharedIn' /\ outStart' = outEnd'
         /\ Level(d)' \subseteq front' /\ front' \subseteq UpTo(d)'
         /\ awakeCount' = Cardinality(Visited' \cap Level(d + 1)')
    BY <1>1, <2>1 DEF AtBottomUp
  <2> QED BY <2>3, <2>4, <2>7, <2>8, <2>9, <2>10 DEF AtBottomUp, Word
<1>9. AtPhase(d)'
  BY <1>1, <1>8 DEF AtPhase
<1> QED BY <1>4, <1>5, <1>6, <1>7, <1>9, PlacesKept DEF Inv

(* A thread goes on in its chunk, past a node that is decided. *)
LEMMA DecidedKept ==
    ASSUME NEW d \in Nat, TypeOK, AtBottomUp(d), UNCHANGED args, UNCHANGED todo, NEW t \in Threads, pc[t] # "idle",
           NextNode(t), Visited' = Visited, node[t] \in Visited \/ node[t] \notin Level(d + 1)
    PROVE  /\ \A n \in Nodes : Decided(n, d)'
           /\ \A s \in Threads : pc'[s] # "idle" =>
                /\ node'[s] \div Chunk \notin todo'
                /\ \A r \in Threads : pc'[r] # "idle" /\ node'[r] \div Chunk = node'[s] \div Chunk => r = s
<1>1. Level(d + 1)' = Level(d + 1)
  BY SameLevels
<1>2. /\ \A s \in Threads \ {t} : pc'[s] = pc[s] /\ node'[s] = node[s]
      /\ node'[t] \div Chunk = node[t] \div Chunk
      /\ \/ pc'[t] = "scan" /\ node'[t] = node[t] + 1
         \/ /\ pc'[t] = "idle" /\ node'[t] = node[t]
            /\ \A n \in Nodes : n \div Chunk = node[t] \div Chunk => n <= node[t]
  BY NextNodeMoves
<1>3. ASSUME NEW n \in Nodes PROVE Decided(n, d)'
  <2>1. Decided(n, d)
    BY DEF AtBottomUp
  <2>2. CASE n \in Visited \/ n \notin Level(d + 1) \/ n \div Chunk \in todo
    BY <1>1, <2>2 DEF Decided
  <2>3. CASE \E s \in Threads \ {t} : pc[s] # "idle" /\ n \div Chunk = node[s] \div Chunk /\ node[s] <= n
    BY <1>2, <2>3 DEF Decided
  <2>4. CASE n \div Chunk = node[t] \div Chunk /\ node[t] <= n /\ n # node[t]
    <3>1. n \in Nat /\ node[t] \in Nat /\ ~(n <= node[t]) /\ node[t] + 1 <= n
      BY <2>4, ChunkOf DEF TypeOK
    <3>2. pc'[t] = "scan" /\ node'[t] = node[t] + 1
      BY <1>2, <2>4, <3>1
    <3> QED BY <1>2, <2>4, <3>1, <3>2 DEF Decided
  <2>5. CASE n = node[t]
    BY <1>1, <2>5 DEF Decided
  <2> QED BY <2>1, <2>2, <2>3, <2>4, <2>5 DEF Decided
<1>4. \A s \in Threads : pc'[s] # "idle" => pc[s] # "idle" /\ node'[s] \div Chunk = node[s] \div Chunk
  BY <1>2
<1>5. \A s \in Threads : pc'[s] # "idle" =>
         /\ node'[s] \div Chunk \notin todo'
         /\ \A r \in Threads : pc'[r] # "idle" /\ node'[r] \div Chunk = node'[s] \div Chunk => r = s
  BY <1>4 DEF AtBottomUp
<1> QED BY <1>3, <1>5

(* Nobody pushes in a bottom-up loop. *)
LEMMA NoPushers ==
    ASSUME NEW d \in Nat, Inv(d), phase = "bu", NEW t \in Threads,
           \A s \in Threads \ {t} : pc'[s] = pc[s], pc'[t] # "push", UNCHANGED args,
           UNCHANGED <<queueVars, lqueue, phase>>, pc'[t] \in {"idle", "scan", "store_bit"}
    PROVE  /\ Pushers = {} /\ Pushers' = {} /\ PushersOnce' /\ PcInPhase'
           /\ QueueTypeOK' /\ QueueOnce' /\ \A v : Held(v)' <=> Held(v)
<1>1. PcInPhase /\ QueueTypeOK /\ QueueOnce
  BY DEF Inv, TypeOK
<1>2. Pushers = {} /\ Pushers' = {} /\ PushersOnce' /\ PcInPhase'
  BY <1>1 DEF Pushers, PushersOnce, PcInPhase
<1>3. UNCHANGED <<queue, sharedIn, outEnd, lqueue>> /\ outStart' = outStart
  BY DEF queueVars
<1>4. QueueTypeOK' /\ QueueOnce' /\ \A v : (Waiting(v)' <=> Waiting(v))
  BY <1>1, <1>3, SameQueue
<1> QED BY <1>2, <1>4 DEF Held

(* The node a bottom-up step takes is of the next level, too. *)
LEMMA ScanReaches ==
    ASSUME NEW d \in Nat, Inv(d), NEW t \in Threads, pc[t] = "scan",
           parent[node[t]] < 0, Hits(node[t]) # {}
    PROVE  /\ node[t] \in Level(d + 1) \ Visited
           /\ \E i \in DOMAIN neigh[node[t]] :
                  i = Min(Hits(node[t])) /\ neigh[node[t]][i] \in Level(d)
<1> DEFINE n == node[t]
           S == Hits(n)
<1>1. /\ TypeOK /\ n \in Nodes \ Visited /\ AtBottomUp(d) /\ Common(d)
  BY DEF Inv, PcInPhase, AtPhase, TypeOK, Visited
<1>2. S \in SUBSET Nat /\ S # {}
  BY <1>1, Edges DEF Hits
<1>3. Min(S) \in S
  <2> HIDE DEF S
  <2>1. \E x \in S : \A y \in S : x <= y
    BY <1>2, LeastNatural
  <2> QED BY <2>1 DEF Min
<1>4. PICK i \in DOMAIN neigh[n] : i = Min(S) /\ neigh[n][i] \in front
  BY <1>3 DEF Hits
<1>5. UpTo(d) \subseteq Visited /\ neigh[n][i] \in UpTo(d)
  BY <1>1, <1>4 DEF AtBottomUp, Common
<1> HIDE DEF n, S
<1>6. neigh[n][i] \in Level(d) /\ n \in Level(d + 1)
  BY <1>1, <1>5, EdgeBeyond
<1> QED BY <1>1, <1>4, <1>6 DEF n, S

LEMMA ScanInv ==
    ASSUME NEW d \in Nat, Inv(d), NEW t \in Threads, Scan(t)
    PROVE  Inv(d)'
<1> DEFINE n == node[t]
<1>1. /\ TypeOK /\ n \in Nodes /\ AtBottomUp(d) /\ Common(d) /\ phase = "bu" /\ pc[t] = "scan"
      /\ t \notin BitPending /\ parent[n] \in Int
  BY DEF Inv, Scan, PcInPhase, AtPhase, TypeOK, BitPending
<1>2. /\ UNCHANGED args /\ UNCHANGED <<queueVars, lqueue, phase>> /\ UNCHANGED <<front, curr, todo, edge>>
      /\ UNCHANGED <<edgesToCheck, scoutCount, oldAwakeCount, currVal>>
  BY DEF Scan
<1>3. /\ Level(d)' = Level(d) /\ Level(d + 1)' = Level(d + 1) /\ UpTo(d)' = UpTo(d)
      /\ UpTo(d + 1)' = UpTo(d + 1)
  BY <1>2, SameLevels
<1>4. Level(d) \subseteq front /\ front \subseteq UpTo(d) /\ UpTo(d) \subseteq Visited
  BY <1>1 DEF AtBottomUp, Common
<1>5. CASE ~(parent[n] < 0 /\ Hits(n) # {})
  <2>1. NextNode(t) /\ UNCHANGED <<parent, awakeCount, word>> /\ Visited' = Visited
    BY <1>5 DEF Scan, Visited
  <2>2. n \in Visited \/ n \notin Level(d + 1)
    <3>1. ASSUME n \in Level(d + 1), Hits(n) = {} PROVE FALSE
      <4>1. \E i \in DOMAIN neigh[n] : neigh[n][i] \in Level(d)
        BY <1>1, <3>1, Predecessor
      <4> QED BY <1>4, <3>1, <4>1 DEF Hits
    <3> QED BY <1>1, <1>5, <3>1 DEF Visited
  <2>3. /\ pc' \in [Threads -> Steps] /\ node' \in [Threads -> Nodes]
        /\ \A s \in Threads \ {t} : pc'[s] = pc[s] /\ node'[s] = node[s]
        /\ pc'[t] \in {"scan", "idle"}
    BY <1>1, <2>1, NextNodeMoves
  <2>4. /\ Pushers = {} /\ PushersOnce' /\ PcInPhase'
        /\ QueueTypeOK' /\ QueueOnce' /\ \A v : Held(v)' <=> Held(v)
    BY <1>1, <1>2, <2>3, NoPushers
  <2>5. TreeSound'
    BY <1>2, <2>1, SameTree DEF Inv
  <2>6. TypeOK'
    BY <1>1, <1>2, <2>1, <2>3, <2>4 DEF TypeOK, args
  <2>7. Common(d)'
    BY <1>1, <1>2, <1>3, <2>1, <2>4 DEF Common, queueVars
  <2>8. AtBottomUp(d)'
    <3>1. /\ \A m \in Nodes : Decided(m, d)'
          /\ \A s \in Threads : pc'[s] # "idle" =>
                /\ node'[s] \div Chunk \notin todo'
                /\ \A r \in Threads : pc'[r] # "idle" /\ node'[r] \div Chunk = node'[s] \div Chunk => r = s
      BY <1>1, <1>2, <2>1, <2>2, DecidedKept
    <3>2. BitPending' = BitPending /\ \A s \in BitPending : node'[s] = node[s]
      BY <1>1, <2>3 DEF BitPending
    <3>3. {node'[s] : s \in BitPending} = {node[s] : s \in BitPending}
      BY <3>2
    <3>4. \A s \in BitPending' : word'[s] = curr' \cap Word(node'[s])
      <4>1. \A s \in BitPending : word[s] = curr \cap Word(node[s])
        BY <1>1 DEF AtBottomUp
      <4>2. \A s \in BitPending : word[s] = curr \cap Word(node'[s])
        BY <3>2, <4>1
      <4> QED BY <1>2, <2>1, <3>2, <4>2
    <3>5. Visited' \cap Level(d + 1)' = curr' \cup {node'[s] : s \in BitPending'}
      BY <1>1, <1>2, <1>3, <2>1, <3>2, <3>3 DEF AtBottomUp
    <3>6. /\ \A s \in Threads : lqueue'[s] = <<>>
          /\ outEnd' = sharedIn' /\ outStart' = outEnd' /\ todo' \subseteq Chunks
          /\ Level(d)' \subseteq front' /\ front' \subseteq UpTo(d)'
          /\ awakeCount' = Cardinality(Visited' \cap Level(d + 1)')
      BY <1>1, <1>2, <1>3, <2>1 DEF AtBottomUp, queueVars
    <3> QED BY <3>1, <3>4, <3>5, <3>6 DEF AtBottomUp, Word
  <2>9. AtPhase(d)'
    BY <1>1, <1>2, <2>8 DEF AtPhase
  <2> QED BY <2>4, <2>5, <2>6, <2>7, <2>9 DEF Inv
<1>6. CASE parent[n] < 0 /\ Hits(n) # {}
  <2>1. /\ parent' = [parent EXCEPT ![n] = neigh[n][Min(Hits(n))]] /\ awakeCount' = awakeCount + 1
        /\ word' = [word EXCEPT ![t] = curr \cap Word(n)] /\ pc' = [pc EXCEPT ![t] = "store_bit"]
        /\ node' = node
    BY <1>6 DEF Scan, Goto
  <2>2. PICK i \in DOMAIN neigh[n] : i = Min(Hits(n)) /\ neigh[n][i] \in Level(d)
    BY <1>1, <1>6, ScanReaches
  <2>3. neigh[n][i] \in Level(d) /\ n \in Level(d + 1) \ Visited
    BY <1>1, <1>6, <2>2, ScanReaches
  <2>4. TreeSound' /\ Visited' = Visited \cup {n} /\ parent' \in [Nodes -> {p \in Int : p < N}]
    <3> HIDE DEF n
    <3> QED BY <1>1, <1>2, <2>1, <2>2, <2>3, TreeGrows DEF Inv
  <2>5. /\ pc' \in [Threads -> Steps] /\ pc'[t] = "store_bit" /\ \A s \in Threads \ {t} : pc'[s] = pc[s]
        /\ word' \in [Threads -> SUBSET Nodes] /\ word'[t] = curr \cap Word(n)
        /\ \A s \in Threads \ {t} : word'[s] = word[s]
    BY <1>1, <2>1 DEF TypeOK, Steps
  <2>6. /\ Pushers = {} /\ PushersOnce' /\ PcInPhase'
        /\ QueueTypeOK' /\ QueueOnce' /\ \A v : Held(v)' <=> Held(v)
    BY <1>1, <1>2, <2>5, NoPushers
  <2>7. awakeCount' = Cardinality(Visited' \cap Level(d + 1)') /\ awakeCount' \in 0 .. N
    <3> DEFINE A == Visited \cap Level(d + 1)
    <3>1. A \subseteq Nodes /\ A \cup {n} \subseteq Nodes /\ Visited' \cap Level(d + 1)' = A \cup {n} /\ n \notin A
      BY <1>1, <1>3, <2>3, <2>4 DEF Level
    <3>2. awakeCount = Cardinality(A)
      BY <1>1 DEF AtBottomUp
    <3> HIDE DEF A, n
    <3>3. IsFiniteSet(A) /\ Cardinality(A) \in Nat /\ Cardinality(A \cup {n}) = Cardinality(A) + 1
      BY <3>1, NodesFinite, FS_Subset, FS_AddElement, FS_CardinalityType
    <3>4. Cardinality(A \cup {n}) <= N
      BY <3>1, NodesFinite, FS_Subset
    <3>5. Cardinality(Visited' \cap Level(d + 1)') = Cardinality(A) + 1
      BY <3>1, <3>3
    <3>6. Cardinality(A) + 1 \in 0 .. N
      BY <3>3, <3>4, NodesFinite
    <3> QED BY <2>1, <3>2, <3>5, <3>6
  <2>8. TypeOK'
    BY <1>1, <1>2, <2>1, <2>4, <2>5, <2>6, <2>7 DEF TypeOK, args
  <2>9. Common(d)'
    <3>1. n \in UpTo(d + 1)
      BY <2>3 DEF Level, UpTo
    <3> QED BY <1>1, <1>2, <1>3, <2>3, <2>4, <2>6, <3>1 DEF Common, queueVars
  <2>10. AtBottomUp(d)'
    <3>1. BitPending' = BitPending \cup {t}
      BY <2>5 DEF BitPending
    <3>2. ASSUME NEW m \in Nodes PROVE Decided(m, d)'
      <4>1. \A s \in Threads : pc[s] # "idle" => pc'[s] # "idle"
        BY <2>5
      <4>2. Decided(m, d)
        BY <1>1 DEF AtBottomUp
      <4> QED BY <1>2, <1>3, <2>1, <2>4, <4>1, <4>2 DEF Decided
    <3>3. ASSUME NEW s \in Threads, pc'[s] # "idle"
          PROVE  /\ node[s] \div Chunk \notin todo
                 /\ \A r \in Threads : pc'[r] # "idle" /\ node[r] \div Chunk = node[s] \div Chunk => r = s
      <4>1. \A r \in Threads : pc'[r] # "idle" => pc[r] # "idle"
        BY <1>1, <2>5
      <4> QED BY <1>1, <3>3, <4>1 DEF AtBottomUp
    <3>4. \A s \in BitPending' : word'[s] = curr \cap Word(node[s])
      <4>1. \A s \in BitPending : word[s] = curr \cap Word(node[s]) /\ s \in Threads \ {t}
        BY <1>1 DEF AtBottomUp, BitPending
      <4> QED BY <2>5, <3>1, <4>1
    <3>5. Visited' \cap Level(d + 1) = curr \cup {node[s] : s \in BitPending'}
      <4>1. Visited \cap Level(d + 1) = curr \cup {node[s] : s \in BitPending}
        BY <1>1 DEF AtBottomUp
      <4>2. {node[s] : s \in BitPending \cup {t}} = {node[s] : s \in BitPending} \cup {n}
        OBVIOUS
      <4> HIDE DEF n
      <4> QED BY <2>3, <2>4, <3>1, <4>1, <4>2
    <3>6. /\ \A s \in Threads : lqueue'[s] = <<>>
          /\ outEnd' = sharedIn' /\ outStart' = outEnd' /\ todo' \subseteq Chunks
          /\ Level(d)' \subseteq front' /\ front' \subseteq UpTo(d)'
      BY <1>1, <1>2, <1>3 DEF AtBottomUp, queueVars
    <3> QED BY <1>2, <1>3, <2>1, <2>7, <3>2, <3>3, <3>4, <3>5, <3>6 DEF AtBottomUp, Word
  <2>11. AtPhase(d)'
    BY <1>1, <1>2, <2>10 DEF AtPhase
  <2> QED BY <2>4, <2>6, <2>8, <2>9, <2>11 DEF Inv
<1> QED BY <1>5, <1>6

LEMMA StoreBitInv ==
    ASSUME NEW d \in Nat, Inv(d), NEW t \in Threads, StoreBit(t)
    PROVE  Inv(d)'
<1> DEFINE n == node[t]
<1>1. /\ TypeOK /\ n \in Nodes /\ AtBottomUp(d) /\ Common(d) /\ phase = "bu" /\ pc[t] = "store_bit"
      /\ t \in BitPending
  BY DEF Inv, StoreBit, PcInPhase, AtPhase, TypeOK, BitPending
<1>2. /\ UNCHANGED args /\ UNCHANGED <<queueVars, lqueue, phase>> /\ UNCHANGED <<parent, front, todo, edge>>
      /\ UNCHANGED countVars /\ UNCHANGED currVal /\ NextNode(t) /\ word' = [word EXCEPT ![t] = {}]
      /\ Visited' = Visited /\ awakeCount' = awakeCount
  BY DEF StoreBit, Visited, countVars
<1>3. /\ Level(d)' = Level(d) /\ Level(d + 1)' = Level(d + 1) /\ UpTo(d)' = UpTo(d)
      /\ UpTo(d + 1)' = UpTo(d + 1)
  BY <1>2, SameLevels
<1>4. curr' = curr \cup {n}
  <2>1. word[t] = curr \cap Word(n)
    BY <1>1 DEF AtBottomUp
  <2> QED BY <2>1 DEF StoreBit
<1>5. n \in Visited
  BY <1>1 DEF AtBottomUp
<1>6. /\ pc' \in [Threads -> Steps] /\ node' \in [Threads -> Nodes]
      /\ \A s \in Threads \ {t} : pc'[s] = pc[s] /\ node'[s] = node[s]
      /\ pc'[t] \in {"scan", "idle"}
  BY <1>1, <1>2, NextNodeMoves
<1>7. /\ Pushers = {} /\ PushersOnce' /\ PcInPhase'
      /\ QueueTypeOK' /\ QueueOnce' /\ \A v : Held(v)' <=> Held(v)
  BY <1>1, <1>2, <1>6, NoPushers
<1>8. TreeSound'
  BY <1>2, SameTree DEF Inv
<1>9. word' \in [Threads -> SUBSET Nodes] /\ \A s \in Threads \ {t} : word'[s] = word[s]
  BY <1>1, <1>2 DEF TypeOK
<1>10. TypeOK'
  BY <1>1, <1>2, <1>4, <1>6, <1>7, <1>9 DEF TypeOK, args, countVars
<1>11. Common(d)'
  BY <1>1, <1>2, <1>3, <1>7 DEF Common, queueVars
<1>12. AtBottomUp(d)'
  <2>1. /\ \A m \in Nodes : Decided(m, d)'
        /\ \A s \in Threads : pc'[s] # "idle" =>
              /\ node'[s] \div Chunk \notin todo'
              /\ \A r \in Threads : pc'[r] # "idle" /\ node'[r] \div Chunk = node'[s] \div Chunk => r = s
    BY <1>1, <1>2, <1>5, DecidedKept
  <2>2. BitPending' = BitPending \ {t} /\ \A s \in BitPending' : s \in Threads \ {t} /\ s \in BitPending
    BY <1>6 DEF BitPending
  <2>3. ASSUME NEW s \in BitPending' PROVE word'[s] = curr' \cap Word(node'[s])
    <3>1. s \in Threads \ {t} /\ s \in BitPending /\ pc[s] # "idle" /\ node[s] \in Nodes
      BY <1>1, <2>2 DEF BitPending, TypeOK
    <3>2. word[s] = curr \cap Word(node[s])
      BY <1>1, <3>1 DEF AtBottomUp
    <3>3. n \notin Word(node[s])
      <4>1. n \div Chunk # node[s] \div Chunk
        BY <1>1, <3>1 DEF AtBottomUp
      <4> HIDE DEF n
      <4> QED BY <3>1, <4>1, WordInChunk
    <3> QED BY <1>4, <1>6, <1>9, <3>1, <3>2, <3>3
  <2>4. Visited \cap Level(d + 1) = curr' \cup {node'[s] : s \in BitPending'}
    <3>1. Visited \cap Level(d + 1) = curr \cup {node[s] : s \in BitPending}
      BY <1>1 DEF AtBottomUp
    <3>2. {node[s] : s \in BitPending} = {n} \cup {node[s] : s \in BitPending \ {t}}
      BY <1>1
    <3>3. {node'[s] : s \in BitPending \ {t}} = {node[s] : s \in BitPending \ {t}}
      BY <1>6, <2>2
    <3> HIDE DEF n
    <3> QED BY <1>4, <2>2, <3>1, <3>2, <3>3
  <2>5. /\ \A s \in Threads : lqueue'[s] = <<>>
        /\ outEnd' = sharedIn' /\ outStart' = outEnd' /\ todo' \subseteq Chunks
        /\ Level(d)' \subseteq front' /\ front' \subseteq UpTo(d)'
        /\ awakeCount' = Cardinality(Visited' \cap Level(d + 1)')
    BY <1>1, <1>2, <1>3 DEF AtBottomUp, queueVars
  <2> QED BY <1>2, <1>3, <2>1, <2>3, <2>4, <2>5 DEF AtBottomUp, Word
<1>13. AtPhase(d)'
  BY <1>1, <1>2, <1>12 DEF AtPhase
<1> QED BY <1>7, <1>8, <1>10, <1>11, <1>13 DEF Inv
-----------------------------------------------------------------------------
(* The invariant. *)
LEMMA InitInv == Init => Inv(0)
<1> SUFFICES ASSUME Init PROVE Inv(0)
  OBVIOUS
<1> USE DEF Init
<1>1. /\ neigh \in GraphsIn /\ Undirected(Nodes, neigh) /\ neigh \in [Nodes -> Seq(Nodes)]
      /\ source \in Nodes
  <2>1. Undirected(Nodes, neigh) /\ neigh \in [Nodes -> Seq(Nodes)]
    BY SearchAssumption DEF Undirected
  <2> QED BY <2>1 DEF PickNext
<1>2. \A n \in Nodes : n \in Nat /\ n < N /\ Degree(n) \in Nat
  BY <1>1, ChunkOf, NodesFinite DEF Nodes, Degree
<1>3. parent \in [Nodes -> {p \in Int : p < N}] /\ Visited = {source} /\ parent[source] = source
  <2>1. \A n \in Nodes : n # source => parent[n] = InitialParent(n) /\ InitialParent(n) \in Int /\ InitialParent(n) < 0
    BY <1>2 DEF InitialParent
  <2>2. parent[source] = source
    BY <1>1
  <2>3. \A n \in Nodes : parent[n] \in Int /\ parent[n] < N
    BY <1>1, <1>2, <2>1, <2>2, NodesFinite
  <2>4. parent \in [Nodes -> {p \in Int : p < N}]
    BY <2>3
  <2>5. Visited = {source}
    BY <1>1, <1>2, <2>1, <2>2 DEF Visited
  <2> QED BY <2>2, <2>4, <2>5
<1>4. \A t \in Threads : lqueue[t] = <<>> /\ DOMAIN lqueue[t] = {}
  OBVIOUS
<1>5. QueueTypeOK
  <2>1. queue \in [Nodes -> Nodes \cup {None}]
    BY <1>1 DEF Queued
  <2>2. lqueue \in [Threads -> Seq(Nodes)] /\ \A t \in Threads : Len(lqueue[t]) <= BufferSize
    BY <1>4, QueueAssumption
  <2> QED BY <2>1, <2>2, NodesFinite DEF QueueTypeOK
<1>6. NumEdgesDirected \in Int
  <2> DEFINE f == [n \in Nodes |-> Degree(n)]
  <2>1. f \in [Nodes -> Int]
    BY <1>2
  <2> HIDE DEF f
  <2>2. SumFunction(f) \in Int
    BY <2>1, NodesFinite, SumType DEF SumFunction
  <2> QED BY <2>2 DEF NumEdgesDirected, f
<1>7. TypeOK
  <2>1. scoutCount \in Nat /\ awakeCount \in 0 .. N /\ oldAwakeCount \in 0 .. N /\ edgesToCheck \in Int
    BY <1>1, <1>2, <1>6, NodesFinite
  <2>2. phase \in PhaseNames /\ todo \subseteq Nodes /\ phase # "done" /\ front \subseteq Nodes /\ curr \subseteq Nodes
    BY DEF PhaseNames
  <2>3. /\ pc \in [Threads -> Steps] /\ node \in [Threads -> Nodes] /\ edge \in [Threads -> Nat \ {0}]
        /\ currVal \in [Threads -> Int] /\ word \in [Threads -> SUBSET Nodes]
    BY NodesFinite DEF Steps, FreshNode, FreshEdge
  <2> QED BY <1>1, <1>3, <1>5, <2>1, <2>2, <2>3 DEF TypeOK
<1>8. \A v \in Nodes : Dist[v] = 0 <=> v = source
  BY <1>7, GraphFacts DEF AreDistances
<1>9. Level(0) = {source} /\ UpTo(0) = {source}
  BY <1>1, <1>8 DEF Level, UpTo
<1>10. /\ Cells = {0} /\ Window = {0} /\ Added = {} /\ queue[0] = source /\ 0 .. outEnd - 1 = {0}
  BY NodesFinite DEF Cells, Window, Added, Queued
<1>11. Pushers = {} /\ \A v : ~Held(v)
  BY <1>4, <1>10 DEF Pushers, Held, Waiting, Buffered
<1>12. TreeSound
  BY <1>3 DEF TreeSound
<1>13. QueueOnce
  BY <1>1, <1>4, <1>10 DEF QueueOnce
<1>14. PushersOnce /\ PcInPhase
  BY <1>11 DEF PushersOnce, PcInPhase
<1>15. Common(0)
  <2>1. source \in UpTo(0 + 1)
    BY <1>1, <1>8 DEF UpTo
  <2> QED BY <1>3, <1>9, <1>10, <1>11, <2>1 DEF Common
<1>16. AtLoop(0)
  <2>1. {queue[i] : i \in Window} = {source}
    BY <1>10
  <2> QED BY <1>3, <1>4, <1>9, <2>1 DEF AtLoop
<1>17. AtPhase(0)
  BY <1>16 DEF AtPhase
<1> QED BY <1>7, <1>12, <1>13, <1>14, <1>15, <1>17 DEF Inv

LEMMA SameInv ==
    ASSUME NEW d \in Nat, Inv(d), UNCHANGED vars
    PROVE  Inv(d)'
<1>1. /\ UNCHANGED args /\ UNCHANGED queueVars /\ UNCHANGED countVars /\ UNCHANGED threadVars
      /\ UNCHANGED <<parent, front, curr, phase, todo>>
  BY DEF vars
<1>2. SamePlaces /\ outStart' = outStart
  BY <1>1 DEF SamePlaces, queueVars, threadVars
<1>3. /\ TreeSound' /\ QueueTypeOK' /\ QueueOnce' /\ PushersOnce' /\ Visited' = Visited
      /\ Window' = Window /\ Common(d)' /\ \A v : Held(v)' <=> Held(v)
  BY <1>1, <1>2, PlacesKept DEF Inv, Common
<1>4. /\ UNCHANGED <<queue, sharedIn, outStart, outEnd, lqueue, pc, node, edge, currVal, word, awakeCount>>
      /\ neigh' = neigh /\ Dist' = Dist
      /\ Level(d)' = Level(d) /\ Level(d + 1)' = Level(d + 1) /\ UpTo(d)' = UpTo(d)
      /\ UpTo(d + 1)' = UpTo(d + 1) /\ \A u : Degree(u)' = Degree(u)
  BY <1>1, SameLevels DEF queueVars, threadVars, countVars
<1>5. TypeOK'
  BY <1>1, <1>3 DEF Inv, TypeOK, args, countVars, threadVars
<1>6. PcInPhase'
  BY <1>1, <1>4 DEF Inv, PcInPhase
<1>7. AtLoop(d) => AtLoop(d)'
  BY <1>1, <1>3, <1>4 DEF AtLoop
<1>8. AtConversion => AtConversion'
  BY <1>1, <1>3, <1>4 DEF AtConversion
<1>9. AtTopDown(d) => AtTopDown(d)'
  <2>1. \A u : Covered(u) => Covered(u)'
    BY <1>3, <1>4 DEF Covered, NeighborsVisited
  <2>2. \A t : Neighbor(t)' = Neighbor(t)
    BY <1>4 DEF Neighbor
  <2> QED BY <1>1, <1>3, <1>4, <2>1, <2>2 DEF AtTopDown
<1>10. AtFlush(d) => AtFlush(d)'
  BY <1>1, <1>3, <1>4 DEF AtFlush
<1>11. AtBottomUp(d) => AtBottomUp(d)'
  <2>1. \A n : Decided(n, d) => Decided(n, d)'
    BY <1>1, <1>3, <1>4 DEF Decided
  <2>2. BitPending' = BitPending
    BY <1>4 DEF BitPending
  <2>3. ASSUME AtBottomUp(d)
        PROVE  /\ \A t \in BitPending' : word'[t] = curr' \cap Word(node'[t])
               /\ Visited' \cap Level(d + 1)' = curr' \cup {node'[t] : t \in BitPending'}
    <3>1. \A t \in BitPending : word[t] = curr \cap Word(node[t])
      BY <2>3 DEF AtBottomUp
    <3>2. Visited \cap Level(d + 1) = curr \cup {node[t] : t \in BitPending}
      BY <2>3 DEF AtBottomUp
    <3> QED BY <1>1, <1>3, <1>4, <2>2, <3>1, <3>2
  <2>4. ASSUME AtBottomUp(d) PROVE AtBottomUp(d)'
    BY <1>1, <1>3, <1>4, <2>1, <2>3, <2>4 DEF AtBottomUp, Word
  <2> QED BY <2>4
<1>12. AtToQueue(d) => AtToQueue(d)'
  BY <1>1, <1>3, <1>4 DEF AtToQueue
<1>13. AtEnd => AtEnd'
  BY <1>3, <1>4 DEF AtEnd
<1>14. phase' = phase
  BY <1>1
<1>15. AtPhase(d)'
  BY <1>7, <1>8, <1>9, <1>10, <1>11, <1>12, <1>13, <1>14 DEF AtPhase, Inv
<1> QED BY <1>3, <1>5, <1>6, <1>15 DEF Inv

LEMMA StepInv ==
    ASSUME NEW d \in Nat, Inv(d), [Next]_vars
    PROVE  Inv(d)' \/ Inv(d + 1)'
<1>1. CASE StartTopDown
  BY <1>1, StartTopDownInv
<1>2. CASE StartConversion
  BY <1>2, StartConversionInv
<1>3. CASE Converted
  BY <1>3, ConvertedInv
<1>4. CASE BottomUpAgain
  BY <1>4, BottomUpAgainInv
<1>5. CASE BottomUpEnds
  BY <1>5, BottomUpEndsInv
<1>6. CASE StartFlush
  BY <1>6, StartFlushInv
<1>7. CASE Flushed
  BY <1>7, FlushedInv
<1>8. CASE Finish
  BY <1>8, FinishInv
<1>9. CASE \E i \in todo : SetBitAtomic(i)
  BY <1>9, SetBitAtomicInv
<1>10. ASSUME NEW t \in Threads, ThreadStep(t) PROVE Inv(d)'
  <2>1. CASE \E i \in todo : Take(t, i)
    BY <2>1, TakeInv
  <2>2. CASE \E i \in todo : GetBit(t, i)
    BY <2>2, GetBitInv
  <2>3. CASE \E i \in todo : TakeChunk(t, i)
    BY <2>3, TakeChunkInv
  <2>4. CASE ReadParent(t)
    BY <2>4, ReadParentInv
  <2>5. CASE Cas(t)
    BY <2>5, CasInv
  <2>6. CASE Push(t)
    BY <2>6, PushInv
  <2>7. CASE LastFlush(t)
    BY <2>7, LastFlushInv
  <2>8. CASE Scan(t)
    BY <2>8, ScanInv
  <2>9. CASE StoreBit(t)
    BY <2>9, StoreBitInv
  <2> QED BY <1>10, <2>1, <2>2, <2>3, <2>4, <2>5, <2>6, <2>7, <2>8, <2>9 DEF ThreadStep
<1>11. CASE UNCHANGED vars
  BY <1>11, SameInv
<1>12. CASE Terminated
  BY <1>11, <1>12 DEF Terminated
<1> QED BY <1>1, <1>2, <1>3, <1>4, <1>5, <1>6, <1>7, <1>8, <1>9, <1>10, <1>11, <1>12 DEF Next, MasterStep

(* The inductive invariant holds in every behaviour of DOBFS: some level is *)
(* complete, and only nodes of the next one are being found.                *)
THEOREM Invariance == Spec => []IInv
<1>1. Init => IInv
  BY InitInv DEF IInv
<1>2. ASSUME IInv, [Next]_vars PROVE IInv'
  <2>1. PICK d \in Nat : Inv(d)
    BY <1>2 DEF IInv
  <2>2. Inv(d)' \/ Inv(d + 1)'
    BY <1>2, <2>1, StepInv
  <2>3. d + 1 \in Nat
    OBVIOUS
  <2> QED BY <2>2, <2>3 DEF IInv
<1> QED BY <1>1, <1>2, PTL DEF Spec

(* Every variable keeps its type; above all, no flush of a buffer leaves    *)
(* the array of the queue, and no parent at the end is a negative degree.   *)
THEOREM TypeCorrect == Spec => []TypeOK
<1>1. IInv => TypeOK
  BY DEF IInv, Inv
<1> QED BY <1>1, Invariance, PTL

(* No node is put into the queue twice, by whatever thread and in whatever  *)
(* kind of step: what keeps the queue, which never wraps, in its array.     *)
THEOREM QueueHoldsOnce == Spec => []QueuedOnce
<1>1. IInv => QueuedOnce
  BY DEF IInv, Inv, QueueOnce, QueuedOnce, Cells
<1> QED BY <1>1, Invariance, PTL
-----------------------------------------------------------------------------
(* LevelOrder takes its distances from the same module. *)
LEMMA SameDistances == Levels!DistancesFrom(Nodes, neigh, source) = Dist
BY DEF Levels!DistancesFrom, DistancesFrom, Dist, Levels!Unreached, Unreached, Levels!Min, Min, Levels!Cardinality, Cardinality

(* When a node of the next level takes a parent, it joins as LevelOrder     *)
(* allows.                                                                  *)
LEMMA JoinAllowed ==
    ASSUME NEW d \in Nat, Inv(d), UNCHANGED args,
           NEW v \in Level(d + 1) \ Visited, NEW i \in DOMAIN neigh[v], neigh[v][i] \in Level(d),
           parent' = [parent EXCEPT ![v] = neigh[v][i]]
    PROVE  Levels!Next
<1> DEFINE u == neigh[v][i]
<1>1. /\ TypeOK /\ UpTo(d) \subseteq Visited /\ v \in Nodes /\ u \in Nodes /\ Dist[u] = d
      /\ \A n \in Nodes : n \in Nat
  BY ChunkOf DEF Inv, Common, Level
<1>2. Tree[v] = None /\ \A w \in UpTo(d) : Tree[w] # None
  BY <1>1 DEF Tree, Visited, UpTo, None, TypeOK
<1>3. Tree' = [Tree EXCEPT ![v] = u]
  <2>1. \A n \in Nodes : parent'[n] = IF n = v THEN u ELSE parent[n]
    BY <1>1 DEF TypeOK
  <2>2. u >= 0
    BY <1>1
  <2> HIDE DEF u
  <2> QED BY <1>1, <2>1, <2>2 DEF Tree
<1>4. neigh' = neigh /\ source' = source
  BY DEF args
<1>5. Levels!None = None
  BY DEF Levels!None, None
<1>6. \A w \in Nodes : Dist[w] \in 0 .. Dist[u] => Tree[w] # None
  BY <1>1, <1>2 DEF UpTo
<1>7. Levels!Join(u, v)
  BY <1>1, <1>2, <1>3, <1>4, <1>5, <1>6, SameDistances DEF Levels!Join
<1> QED BY <1>1, <1>7 DEF Levels!Next

LEMMA StepAllowed ==
    ASSUME NEW d \in Nat, Inv(d), [Next]_vars
    PROVE  Levels!Next \/ UNCHANGED Levels!vars
<1>1. UNCHANGED <<args, parent>> => UNCHANGED Levels!vars
  BY DEF args, Tree, Levels!vars
<1>2. CASE StartTopDown \/ StartConversion \/ Converted \/ BottomUpAgain \/ BottomUpEnds \/ StartFlush \/ Flushed
  BY <1>1, <1>2 DEF StartTopDown, StartConversion, Converted, BottomUpAgain, BottomUpEnds, StartFlush, Flushed
<1>3. CASE Finish
  <2>1. \A n \in Nodes : parent[n] \in Int
    BY DEF Inv, TypeOK
  <2>2. \A n \in Nodes : /\ parent[n] >= 0 <=> parent'[n] >= 0
                         /\ parent[n] >= 0 => parent'[n] = parent[n]
    BY <1>3, <2>1 DEF Finish, Cleared
  <2> QED BY <1>3, <2>2 DEF Finish, args, Tree, Levels!vars
<1>4. CASE \E i \in todo : SetBitAtomic(i)
  BY <1>1, <1>4 DEF SetBitAtomic
<1>5. CASE UNCHANGED vars
  BY <1>1, <1>5 DEF vars
<1>6. ASSUME NEW t \in Threads, ThreadStep(t) PROVE Levels!Next \/ UNCHANGED <<args, parent>>
  <2>1. CASE (\E i \in todo : Take(t, i) \/ GetBit(t, i) \/ TakeChunk(t, i)) \/ ReadParent(t)
    BY <2>1 DEF Take, GetBit, TakeChunk, ReadParent
  <2>2. CASE Push(t) \/ LastFlush(t) \/ StoreBit(t)
    BY <2>2 DEF Push, LastFlush, StoreBit
  <2>3. CASE Cas(t)
    <3>1. CASE ~Swaps(t)
      BY <2>3, <3>1 DEF Cas
    <3>2. CASE Swaps(t)
      <4> DEFINE n == Neighbor(t)
      <4>1. parent' = [parent EXCEPT ![n] = node[t]] /\ UNCHANGED args /\ pc[t] = "cas"
        BY <2>3, <3>2 DEF Cas
      <4>2. n \in Level(d + 1) \ Visited /\ node[t] \in Level(d)
        BY <3>2, <4>1, SwapReaches, AtEdge
      <4>3. PICK j \in DOMAIN neigh[n] : neigh[n][j] = node[t]
        BY <3>2, <4>1, SwapReaches
      <4> HIDE DEF n
      <4> QED BY <4>1, <4>2, <4>3, JoinAllowed
    <3> QED BY <3>1, <3>2
  <2>4. CASE Scan(t)
    <3> DEFINE n == node[t]
    <3>1. CASE ~(parent[n] < 0 /\ Hits(n) # {})
      BY <2>4, <3>1 DEF Scan
    <3>2. CASE parent[n] < 0 /\ Hits(n) # {}
      <4>1. /\ parent' = [parent EXCEPT ![n] = neigh[n][Min(Hits(n))]] /\ UNCHANGED args /\ pc[t] = "scan"
        BY <2>4, <3>2 DEF Scan
      <4>2. PICK i \in DOMAIN neigh[n] : i = Min(Hits(n)) /\ neigh[n][i] \in Level(d)
        BY <3>2, <4>1, ScanReaches
      <4>3. n \in Level(d + 1) \ Visited
        BY <3>2, <4>1, ScanReaches
      <4> HIDE DEF n
      <4> QED BY <4>1, <4>2, <4>3, JoinAllowed
    <3> QED BY <3>1, <3>2
  <2> QED BY <1>6, <2>1, <2>2, <2>3, <2>4 DEF ThreadStep
<1>7. CASE Terminated
  BY <1>5, <1>7 DEF Terminated
<1> QED BY <1>1, <1>2, <1>3, <1>4, <1>5, <1>6, <1>7 DEF Next, MasterStep

(* The search implements LevelOrder: with queues or bitmaps, whatever the   *)
(* switches between them and the schedule, a node joins the tree once,      *)
(* under a neighbour, and only when the level above is complete.            *)
THEOREM LevelsImplemented == Spec => JoinsByLevel
<1>1. Init => Levels!Init
  <2> SUFFICES ASSUME Init PROVE Levels!Init
    OBVIOUS
  <2>1. TypeOK
    BY InitInv DEF Inv
  <2>2. \A n \in Nodes : n # source => parent[n] < 0
    <3>1. \A n \in Nodes : Degree(n) \in Nat
      BY <2>1, Edges
    <3> QED BY <3>1 DEF Init, InitialParent
  <2>3. parent[source] = source /\ source \in Nat
    BY <2>1, ChunkOf DEF Init, TypeOK
  <2>4. Tree = [n \in Nodes |-> IF n = source THEN source ELSE None]
    <3>1. \A n \in Nodes : parent[n] \in Int
      BY <2>1 DEF TypeOK
    <3> QED BY <2>2, <2>3, <3>1 DEF Tree
  <2> QED BY <2>1, <2>4 DEF TypeOK, Levels!Init, Levels!None, None
<1>2. ASSUME IInv, [Next]_vars PROVE [Levels!Next]_(Levels!vars)
  BY <1>2, StepAllowed DEF IInv
<1> QED BY <1>1, <1>2, Invariance, PTL DEF Spec, JoinsByLevel, Levels!Spec

(* At the end the tree is complete. *)
LEMMA TreeComplete ==
    ASSUME NEW d \in Nat, Inv(d)
    PROVE  ShortestPathTree
<1> SUFFICES ASSUME phase = "done"
             PROVE  /\ BFSVerifier /\ parent[source] = source
                    /\ \A v \in Nodes \ {source} :
                          IF Dist[v] = Unreached THEN parent[v] = -1
                          ELSE /\ parent[v] \in Nodes /\ Dist[v] = Dist[parent[v]] + 1
                               /\ \E i \in DOMAIN neigh[v] : neigh[v][i] = parent[v]
  BY DEF ShortestPathTree, Dist
<1>1. /\ TypeOK /\ TreeSound /\ \A v \in Nodes : v \in Visited <=> Dist[v] # Unreached
      /\ \A v \in Nodes : v \in Nat /\ parent[v] \in Nodes \cup {-1}
  BY ChunkOf DEF Inv, AtPhase, AtEnd, TypeOK
<1>2. source \in Nodes /\ parent[source] = source /\ Dist[source] = 0
  BY <1>1, GraphFacts DEF TypeOK, TreeSound, AreDistances
<1>3. ASSUME NEW v \in Nodes, Dist[v] = Unreached PROVE parent[v] = -1
  BY <1>1, <1>3 DEF Visited
<1>4. ASSUME NEW v \in Nodes \ {source}, Dist[v] # Unreached
      PROVE  /\ parent[v] \in Nodes /\ Dist[v] = Dist[parent[v]] + 1 /\ Dist[parent[v]] >= 0
             /\ \E i \in DOMAIN neigh[v] : neigh[v][i] = parent[v]
  BY <1>1, <1>4 DEF TreeSound
<1>5. \A v \in Nodes : Dist[v] \in Nat \cup {Unreached}
  BY <1>1, GraphFacts DEF AreDistances
<1>6. ASSUME NEW u \in Nodes
      PROVE  IF Dist[u] # Unreached /\ parent[u] # -1
             THEN IF u = source THEN parent[u] = u /\ Dist[u] = 0
                  ELSE \E i \in DOMAIN neigh[u] :
                           neigh[u][i] = parent[u] /\ Dist[parent[u]] = Dist[u] - 1
             ELSE Dist[u] = parent[u]
  <2>1. CASE Dist[u] = Unreached
    BY <1>3, <2>1 DEF Unreached
  <2>2. CASE u = source
    <3>1. parent[u] = u /\ Dist[u] = 0 /\ parent[u] # -1 /\ Dist[u] # Unreached
      BY <1>1, <1>2, <2>2 DEF Unreached
    <3> QED BY <2>2, <3>1
  <2>3. CASE Dist[u] # Unreached /\ u # source
    <3>1. parent[u] # -1 /\ Dist[parent[u]] \in Nat /\ Dist[u] = Dist[parent[u]] + 1
      BY <1>1, <1>4, <1>5, <2>3 DEF Unreached
    <3> QED BY <1>4, <2>3, <3>1
  <2> QED BY <2>1, <2>2, <2>3
<1>7. BFSVerifier
  BY <1>6 DEF BFSVerifier, Dist
<1> QED BY <1>2, <1>3, <1>4, <1>7

(* When the search ends, the parents are a tree of shortest paths over      *)
(* exactly the nodes within reach of the source, and the program's verifier *)
(* would say so: for every graph, team, width of bitmaps and buffers, and   *)
(* every alpha and beta.                                                    *)
THEOREM BFSCorrect == Spec => []ShortestPathTree
<1>1. IInv => ShortestPathTree
  BY TreeComplete DEF IInv
<1> QED BY <1>1, Invariance, PTL
-----------------------------------------------------------------------------
(* Counting shortest paths, in any of the graphs and from any node.         *)
Away(g, s) == DistancesFrom(Nodes, g, s)
Near(g, u) == Range(g[u])

LEMMA NearFacts ==
    ASSUME NEW g \in GraphsIn, NEW u \in Nodes
    PROVE  /\ Near(g, u) \in SUBSET Nodes /\ IsFiniteSet(Near(g, u)) /\ u \notin Near(g, u)
           /\ \A v \in Near(g, u) : u \in Near(g, v)
           /\ g[u] \in Seq(Nodes) /\ DOMAIN g[u] = 1 .. Len(g[u]) /\ Len(g[u]) \in Nat
           /\ \A i, j \in DOMAIN g[u] : g[u][i] = g[u][j] => i = j
<1>1. Undirected(Nodes, g) /\ IsInjective(g[u]) /\ u \notin Range(g[u])
  BY SearchAssumption, BrandesAssumption
<1>2. g[u] \in Seq(Nodes)
  BY <1>1 DEF Undirected
<1>3. DOMAIN g[u] = 1 .. Len(g[u]) /\ Len(g[u]) \in Nat /\ Range(g[u]) \in SUBSET Nodes
  BY <1>2 DEF Range
<1>4. \A i, j \in DOMAIN g[u] : g[u][i] = g[u][j] => i = j
  BY <1>1 DEF IsInjective
<1>5. \A v \in Range(g[u]) : u \in Range(g[v])
  BY <1>1 DEF Range, Undirected
<1>6. IsFiniteSet(Near(g, u))
  BY <1>3, NodesFinite, FS_Subset DEF Near
<1> QED BY <1>1, <1>2, <1>3, <1>4, <1>5, <1>6 DEF Near

LEMMA AwayFacts ==
    ASSUME NEW g \in GraphsIn, NEW s \in Nodes
    PROVE  /\ \A v \in Nodes : Away(g, s)[v] \in Int /\ Away(g, s)[v] >= -1 /\ Away(g, s)[v] < N
           /\ \A v \in Nodes : Away(g, s)[v] = 0 <=> v = s
           /\ \A v \in Nodes : \A w \in Near(g, v) :
                  Away(g, s)[w] >= 0 => Away(g, s)[v] \in 0 .. Away(g, s)[w] + 1
           /\ \A v \in Nodes : Away(g, s)[v] > 0 =>
                  \E w \in Near(g, v) : Away(g, s)[w] = Away(g, s)[v] - 1
<1> DEFINE dist == Away(g, s)
<1>1. Undirected(Nodes, g) /\ g \in [Nodes -> Seq(Nodes)]
  BY SearchAssumption DEF Undirected
<1>2. AreDistances(dist, Nodes, g, s)
  BY <1>1, NodesFinite, DistancesFromCorrect DEF Away
<1> HIDE DEF dist
<1>3. /\ \A v \in Nodes : dist[v] \in Int /\ dist[v] >= -1
      /\ dist \in [Nodes -> Int]
  BY <1>2 DEF AreDistances, Unreached
<1>4. \A v \in Nodes : \A w \in Near(g, v) : dist[w] >= 0 => dist[v] \in 0 .. dist[w] + 1
  BY <1>2 DEF AreDistances, Near, Range
<1>5. \A v \in Nodes : dist[v] > 0 => \E w \in Near(g, v) : dist[w] = dist[v] - 1
  BY <1>2 DEF AreDistances, Near, Range
<1>6. \A v \in Nodes : dist[v] > 0 => \E w \in Nodes : dist[w] = dist[v] - 1
  BY <1>5, NearFacts
<1>7. \A v \in Nodes : dist[v] < Cardinality(Nodes)
  BY <1>3, <1>6, NodesFinite, Descent
<1> QED BY <1>2, <1>3, <1>4, <1>5, <1>7, NodesFinite DEF AreDistances, dist

LEMMA WalksGrow ==
    ASSUME NEW g \in GraphsIn, NEW s \in Nodes
    PROVE  /\ Walks(g, s)[0] = OnlySource(s, 1, 0)
           /\ \A k \in Nat :
                  /\ Walks(g, s)[k] \in [Nodes -> Nat]
                  /\ \A v \in Nodes :
                         Walks(g, s)[k + 1][v] = SumFunctionOnSet(Walks(g, s)[k], Near(g, v))
<1> DEFINE X == [Nodes -> Nat]
           a == OnlySource(s, 1, 0)
           More(h) == [v \in Nodes |-> SumFunctionOnSet(h, Near(g, v))]
           F == [h \in X |-> More(h)]
           Def(w) == [k \in Nat |-> IF k = 0 THEN a ELSE More(w[k - 1])]
           walks == CHOOSE w : w = Def(w)
<1>1. Walks(g, s) = walks
  BY DEF Walks, Near
<1>2. ASSUME NEW h \in X PROVE More(h) \in X
  <2>1. ASSUME NEW v \in Nodes PROVE SumFunctionOnSet(h, Near(g, v)) \in Nat
    <3>1. Near(g, v) \in SUBSET Nodes
      BY NearFacts
    <3>2. IsFiniteSet(Near(g, v)) /\ \A x \in Near(g, v) : h[x] \in Nat
      BY <3>1, NodesFinite, FS_Subset
    <3> QED BY <3>2, SumCounts
  <2> QED BY <2>1
<1>3. a \in X /\ \A h \in X : F[h] \in X /\ F[h] = More(h)
  <2> HIDE DEF More
  <2>1. a \in X
    BY DEF OnlySource
  <2> QED BY <1>2, <2>1
<1> HIDE DEF X, a, F, More
<1>4. PICK it : Iterates(it, X, a, F)
  BY <1>3, Iteration
<1>5. it = Def(it)
  <2>1. ASSUME NEW k \in Nat PROVE it[k] = IF k = 0 THEN a ELSE More(it[k - 1])
    <3>1. CASE k = 0
      BY <1>4, <3>1 DEF Iterates
    <3>2. CASE k # 0
      <4>1. k - 1 \in Nat /\ (k - 1) + 1 = k
        BY <3>2
      <4>2. it[(k - 1) + 1] = F[it[k - 1]] /\ it[k - 1] \in X
        BY <1>4, <4>1 DEF Iterates
      <4> QED BY <1>3, <3>2, <4>1, <4>2
    <3> QED BY <3>1, <3>2
  <2> QED BY <1>4, <2>1 DEF Iterates
<1>6. walks = Def(walks)
  BY <1>5
<1> DEFINE h == walks
<1>7. h = Def(h)
  BY <1>6
<1> HIDE DEF h
<1>8. h = [k \in Nat |-> h[k]] /\ h[0] = a /\ \A k \in Nat : h[k + 1] = More(h[k])
  <2>1. \A k \in Nat : k + 1 \in Nat /\ k + 1 # 0 /\ (k + 1) - 1 = k
    OBVIOUS
  <2>2. h[0] = a
    BY <1>7
  <2>3. \A k \in Nat : h[k + 1] = More(h[k])
    BY <1>7, <2>1
  <2>4. h = [k \in Nat |-> h[k]]
    BY <1>7
  <2> QED BY <2>2, <2>3, <2>4
<1>9. Iterates(h, X, a, F)
  <2>1. \A k \in Nat : h[k] \in X => h[k + 1] = F[h[k]]
    BY <1>3, <1>8
  <2> QED BY <1>3, <1>8, <2>1, Unrolled
<1>10. \A k \in Nat : h[k] \in X
  BY <1>9 DEF Iterates
<1>11. Walks(g, s) = h
  BY <1>1 DEF h
<1>12. \A k \in Nat : \A v \in Nodes : h[k + 1][v] = SumFunctionOnSet(h[k], Near(g, v))
  BY <1>8 DEF More
<1>13. h[0] = OnlySource(s, 1, 0) /\ \A k \in Nat : h[k] \in [Nodes -> Nat]
  BY <1>8, <1>10 DEF X, a
<1> QED BY <1>11, <1>12, <1>13

LEMMA WalksNext ==
    ASSUME NEW g \in GraphsIn, NEW s \in Nodes, NEW k \in Nat, NEW v \in Nodes
    PROVE  /\ Walks(g, s)[k] \in [Nodes -> Nat]
           /\ Walks(g, s)[k + 1][v] = SumFunctionOnSet(Walks(g, s)[k], Near(g, v))
<1>1. \A l \in Nat :
          /\ Walks(g, s)[l] \in [Nodes -> Nat]
          /\ \A w \in Nodes : Walks(g, s)[l + 1][w] = SumFunctionOnSet(Walks(g, s)[l], Near(g, w))
  BY WalksGrow
<1> QED BY <1>1

(* The lemmas about walks go by the least length for which they would fail. *)
LEMMA WalksReach ==
    ASSUME NEW g \in GraphsIn, NEW s \in Nodes, NEW u \in Nodes, Away(g, s)[u] >= 0,
           NEW k \in Nat, NEW v \in Nodes, Walks(g, u)[k][v] # 0
    PROVE  Away(g, s)[v] \in 0 .. Away(g, s)[u] + k
<1> DEFINE D == Away(g, s)
           W == Walks(g, u)
           Out == {l \in Nat : \E x \in Nodes : W[l][x] # 0 /\ D[x] \notin 0 .. D[u] + l}
<1>1. ASSUME Out # {} PROVE FALSE
  <2>1. PICK l \in Out : \A m \in Out : l <= m
    <3>1. Out \in SUBSET Nat
      OBVIOUS
    <3> HIDE DEF Out
    <3> QED BY <1>1, <3>1, LeastNatural
  <2>2. PICK x \in Nodes : W[l][x] # 0 /\ D[x] \notin 0 .. D[u] + l
    BY <2>1
  <2>3. D[u] \in Nat
    BY AwayFacts
  <2>4. l # 0
    <3>1. W[0] = OnlySource(u, 1, 0)
      BY WalksGrow
    <3>2. l = 0 => x = u
      BY <2>2, <3>1 DEF OnlySource
    <3> QED BY <2>2, <2>3, <3>2
  <2>5. PICK m \in Nat : l = m + 1 /\ m \notin Out
    <3>1. l - 1 \in Nat /\ l = (l - 1) + 1 /\ ~(l <= l - 1)
      BY <2>1, <2>4
    <3> QED BY <2>1, <3>1
  <2>6. W[m] \in [Nodes -> Nat] /\ W[m + 1][x] = SumFunctionOnSet(W[m], Near(g, x))
    BY WalksNext
  <2>7. PICK w \in Near(g, x) : W[m][w] # 0
    <3>1. IsFiniteSet(Near(g, x)) /\ \A y \in Near(g, x) : W[m][y] \in Nat
      BY <2>6, NearFacts
    <3> HIDE DEF W, Out
    <3> QED BY <2>2, <2>5, <2>6, <3>1, SumZero
  <2>8. D[w] \in 0 .. D[u] + m /\ w \in Nodes
    BY <2>5, <2>7, NearFacts
  <2>9. D[x] \in 0 .. D[w] + 1
    BY <2>7, <2>8, AwayFacts
  <2> HIDE DEF D, W
  <2> QED BY <2>2, <2>3, <2>5, <2>8, <2>9
<1> QED BY <1>1

LEMMA WalksArrive ==
    ASSUME NEW g \in GraphsIn, NEW s \in Nodes, NEW v \in Nodes, NEW k \in Nat, Away(g, s)[v] = k
    PROVE  Walks(g, s)[k][v] \in Nat \ {0}
<1> DEFINE D == Away(g, s)
           W == Walks(g, s)
           Out == {l \in Nat : \E x \in Nodes : D[x] = l /\ W[l][x] = 0}
<1>1. ASSUME Out # {} PROVE FALSE
  <2>1. PICK l \in Out : \A m \in Out : l <= m
    <3>1. Out \in SUBSET Nat
      OBVIOUS
    <3> HIDE DEF Out
    <3> QED BY <1>1, <3>1, LeastNatural
  <2>2. PICK x \in Nodes : D[x] = l /\ W[l][x] = 0
    BY <2>1
  <2>3. l # 0
    <3>1. W[0] = OnlySource(s, 1, 0) /\ (l = 0 => x = s)
      BY <2>2, WalksGrow, AwayFacts
    <3> QED BY <2>2, <3>1 DEF OnlySource
  <2>4. PICK m \in Nat : l = m + 1 /\ m \notin Out
    <3>1. l - 1 \in Nat /\ l = (l - 1) + 1 /\ ~(l <= l - 1)
      BY <2>1, <2>3
    <3> QED BY <2>1, <3>1
  <2>5. PICK w \in Near(g, x) : D[w] = m
    <3>1. D[x] > 0 /\ D[x] - 1 = m
      BY <2>2, <2>4
    <3> QED BY <3>1, AwayFacts
  <2>6. W[m] \in [Nodes -> Nat] /\ W[m + 1][x] = SumFunctionOnSet(W[m], Near(g, x))
    BY WalksNext
  <2>7. IsFiniteSet(Near(g, x)) /\ (\A y \in Near(g, x) : W[m][y] \in Nat) /\ w \in Nodes
    BY <2>6, NearFacts
  <2>8. W[m][w] # 0
    BY <2>4, <2>5, <2>7
  <2> HIDE DEF W, Out
  <2> QED BY <2>2, <2>4, <2>5, <2>6, <2>7, <2>8, SumZero
<1>2. W[k][v] \in Nat
  <2>1. W[k] \in [Nodes -> Nat]
    BY WalksNext
  <2> QED BY <2>1
<1> QED BY <1>1, <1>2

(* A walk may also be taken apart after its first edge. *)
WalksTo(g, k, t) == [v \in Nodes |-> Walks(g, v)[k][t]]

LEMMA OneEdge ==
    ASSUME NEW g \in GraphsIn, NEW u \in Nodes, NEW t \in Nodes
    PROVE  SumFunctionOnSet(OnlySource(u, 1, 0), Near(g, t)) = IF u \in Near(g, t) THEN 1 ELSE 0
<1> DEFINE part == {u} \cap Near(g, t)
<1>1. part \in SUBSET Near(g, t) /\ IsFiniteSet(Near(g, t)) /\ Near(g, t) \in SUBSET Nodes
  BY NearFacts
<1>2. \A v \in Near(g, t) : OnlySource(u, 1, 0)[v] = IF v \in part THEN 1 ELSE 0
  BY <1>1 DEF OnlySource
<1>3. SumFunctionOnSet(OnlySource(u, 1, 0), Near(g, t)) = Cardinality(part) * 1
  <2> HIDE DEF part
  <2> QED BY <1>1, <1>2, SumCounted
<1>4. CASE u \in Near(g, t)
  <2>1. part = {u}
    BY <1>4
  <2>2. Cardinality(part) = 1
    BY <2>1, FS_Singleton
  <2> QED BY <1>3, <1>4, <2>2
<1>5. CASE u \notin Near(g, t)
  <2>1. part = {}
    BY <1>5
  <2>2. Cardinality(part) = 0
    BY <2>1, FS_EmptySet
  <2> QED BY <1>3, <1>5, <2>2
<1> QED BY <1>4, <1>5

LEMMA WalksBegin ==
    ASSUME NEW g \in GraphsIn, NEW k \in Nat, NEW u \in Nodes, NEW t \in Nodes
    PROVE  Walks(g, u)[k + 1][t] = SumFunctionOnSet(WalksTo(g, k, t), Near(g, u))
<1> DEFINE Holds(l) == \A x, y \in Nodes : Walks(g, x)[l + 1][y] = SumFunctionOnSet(WalksTo(g, l, y), Near(g, x))
           Out == {l \in Nat : ~Holds(l)}
<1>1. Holds(0)
  <2> SUFFICES ASSUME NEW x \in Nodes, NEW y \in Nodes
               PROVE  Walks(g, x)[0 + 1][y] = SumFunctionOnSet(WalksTo(g, 0, y), Near(g, x))
    OBVIOUS
  <2>1. Walks(g, x)[0 + 1][y] = SumFunctionOnSet(OnlySource(x, 1, 0), Near(g, y))
    <3>1. Walks(g, x)[0] = OnlySource(x, 1, 0)
      BY WalksGrow
    <3>2. Walks(g, x)[0 + 1][y] = SumFunctionOnSet(Walks(g, x)[0], Near(g, y))
      BY WalksNext
    <3> QED BY <3>1, <3>2
  <2>2. WalksTo(g, 0, y) = OnlySource(y, 1, 0)
    <3>1. ASSUME NEW v \in Nodes PROVE Walks(g, v)[0][y] = IF v = y THEN 1 ELSE 0
      <4>1. Walks(g, v)[0] = OnlySource(v, 1, 0)
        BY WalksGrow
      <4> QED BY <4>1 DEF OnlySource
    <3> QED BY <3>1 DEF WalksTo, OnlySource
  <2>3. x \in Near(g, y) <=> y \in Near(g, x)
    BY NearFacts
  <2> QED BY <2>1, <2>2, <2>3, OneEdge
<1>2. ASSUME NEW l \in Nat, Holds(l) PROVE Holds(l + 1)
  <2> SUFFICES ASSUME NEW x \in Nodes, NEW y \in Nodes
               PROVE  Walks(g, x)[(l + 1) + 1][y] = SumFunctionOnSet(WalksTo(g, l + 1, y), Near(g, x))
    OBVIOUS
  <2> DEFINE S == Near(g, y)
             T == Near(g, x)
             f == [w \in Nodes |-> WalksTo(g, l, w)]
             h == [v \in Nodes |-> Walks(g, v)[l]]
             fun == Walks(g, x)[l + 1]
             gun == WalksTo(g, l + 1, y)
  <2>1. IsFiniteSet(S) /\ IsFiniteSet(T) /\ S \in SUBSET Nodes /\ T \in SUBSET Nodes /\ l + 1 \in Nat
    BY NearFacts
  <2>2. \A w \in S : \A v \in T : f[w][v] \in Int /\ h[v][w] = f[w][v]
    <3> SUFFICES ASSUME NEW w \in S, NEW v \in T PROVE f[w][v] \in Int /\ h[v][w] = f[w][v]
      OBVIOUS
    <3>1. w \in Nodes /\ v \in Nodes
      BY <2>1
    <3>2. Walks(g, v)[l] \in [Nodes -> Nat]
      BY <3>1, WalksGrow
    <3> QED BY <3>1, <3>2 DEF WalksTo
  <2>3. \A w \in S : fun[w] = SumFunctionOnSet(f[w], T)
    BY <1>2, <2>1
  <2>4. \A v \in T : gun[v] = SumFunctionOnSet(h[v], S)
    <3> SUFFICES ASSUME NEW v \in Nodes PROVE gun[v] = SumFunctionOnSet(h[v], S)
      BY <2>1
    <3>1. Walks(g, v)[l + 1][y] = SumFunctionOnSet(Walks(g, v)[l], Near(g, y))
      BY WalksNext
    <3> QED BY <3>1 DEF WalksTo
  <2>5. Walks(g, x)[(l + 1) + 1][y] = SumFunctionOnSet(fun, S)
    BY <2>1, WalksNext
  <2> HIDE DEF S, T, f, h, fun, gun
  <2>6. DoubleSum(S, T, f, h, fun, gun)
    BY <2>2, <2>3, <2>4 DEF DoubleSum
  <2>7. SumFunctionOnSet(fun, S) = SumFunctionOnSet(gun, T)
    BY <2>1, <2>6, SumExchange
  <2> QED BY <2>5, <2>7 DEF gun, T
<1> HIDE DEF Holds
<1>3. Out = {}
  <2> SUFFICES ASSUME Out # {} PROVE FALSE
    OBVIOUS
  <2>1. PICK l \in Out : \A m \in Out : l <= m
    <3>1. Out \in SUBSET Nat
      OBVIOUS
    <3> HIDE DEF Out
    <3> QED BY <3>1, LeastNatural
  <2>2. l # 0
    BY <1>1, <2>1
  <2>3. l - 1 \in Nat /\ l = (l - 1) + 1 /\ ~(l <= l - 1)
    BY <2>1, <2>2
  <2>4. Holds(l - 1)
    BY <2>1, <2>3
  <2>5. Holds((l - 1) + 1)
    BY <1>2, <2>3, <2>4
  <2> QED BY <2>1, <2>3, <2>5
<1> QED BY <1>3 DEF Holds

-----------------------------------------------------------------------------
(* Shortest paths, from s and past a node.                                  *)
Below(g, s, u) == {v \in Near(g, u) : Away(g, s)[v] = Away(g, s)[u] + 1}
Above(g, s, v) == {u \in Near(g, v) : Away(g, s)[u] = Away(g, s)[v] - 1}
PathsFrom(g, s) == [v \in Nodes |-> Paths(g, s, v)]

LEMMA BelowFacts ==
    ASSUME NEW g \in GraphsIn, NEW s \in Nodes, NEW u \in Nodes
    PROVE  /\ Below(g, s, u) \in SUBSET Nodes /\ IsFiniteSet(Below(g, s, u))
           /\ Above(g, s, u) \in SUBSET Nodes /\ IsFiniteSet(Above(g, s, u))
           /\ \A v \in Below(g, s, u) : Away(g, s)[u] >= 0 /\ Away(g, s)[v] = Away(g, s)[u] + 1
<1>1. Near(g, u) \in SUBSET Nodes /\ IsFiniteSet(Near(g, u))
  BY NearFacts
<1>2. /\ Below(g, s, u) \in SUBSET Near(g, u) /\ Above(g, s, u) \in SUBSET Near(g, u)
      /\ \A v \in Below(g, s, u) : Away(g, s)[v] = Away(g, s)[u] + 1
  BY DEF Below, Above
<1>3. ASSUME NEW v \in Below(g, s, u) PROVE Away(g, s)[u] >= 0
  <2>1. v \in Nodes /\ v \in Near(g, u) /\ u \in Near(g, v)
    BY <1>1, <1>2, NearFacts
  <2>2. Away(g, s)[v] >= 0 => Away(g, s)[u] \in 0 .. Away(g, s)[v] + 1
    BY <2>1, AwayFacts
  <2> QED BY <1>2, <2>1, <2>2, AwayFacts
<1> QED BY <1>1, <1>2, <1>3, FS_Subset

LEMMA PathsFacts ==
    ASSUME NEW g \in GraphsIn, NEW s \in Nodes, NEW v \in Nodes
    PROVE  /\ Paths(g, s, v) \in Nat /\ (Paths(g, s, v) = 0 <=> Away(g, s)[v] = Unreached)
           /\ Paths(g, s, v) = IF v = s THEN 1
                               ELSE SumFunctionOnSet(PathsFrom(g, s), Above(g, s, v))
<1> DEFINE D == Away(g, s)
           W == Walks(g, s)
<1>1. \A x \in Nodes : Paths(g, s, x) = IF D[x] = Unreached THEN 0 ELSE W[D[x]][x]
  BY DEF Paths, Away
<1>2. \A x \in Nodes : D[x] \in Int /\ D[x] >= -1 /\ (D[x] = 0 <=> x = s)
  BY AwayFacts
<1>3. W[0] = OnlySource(s, 1, 0) /\ \A k \in Nat : W[k] \in [Nodes -> Nat]
  BY WalksGrow
<1>4. ASSUME NEW x \in Nodes, D[x] # Unreached PROVE D[x] \in Nat /\ Paths(g, s, x) \in Nat \ {0}
  <2>1. D[x] \in Nat
    BY <1>2, <1>4 DEF Unreached
  <2>2. W[D[x]][x] \in Nat \ {0}
    BY <2>1, WalksArrive
  <2> QED BY <1>1, <1>4, <2>1, <2>2
<1>5. Paths(g, s, v) \in Nat /\ (Paths(g, s, v) = 0 <=> D[v] = Unreached)
  BY <1>1, <1>4
<1> HIDE DEF D, W
<1>6. Above(g, s, v) = {u \in Near(g, v) : D[u] = D[v] - 1}
  BY DEF Above, D
<1>7. CASE v = s
  <2>1. D[v] = 0
    BY <1>2, <1>7
  <2>2. W[0][v] = 1
    BY <1>3, <1>7 DEF OnlySource
  <2> QED BY <1>1, <1>5, <1>7, <2>1, <2>2 DEF D, Unreached
<1>8. CASE v # s /\ D[v] = Unreached
  <2>1. Above(g, s, v) = {}
    <3> SUFFICES ASSUME NEW u \in Above(g, s, v) PROVE FALSE
      OBVIOUS
    <3>1. u \in Nodes /\ D[u] = D[v] - 1
      BY <1>6, NearFacts
    <3> QED BY <1>2, <1>8, <3>1 DEF Unreached
  <2>2. Paths(g, s, v) = 0
    BY <1>1, <1>8
  <2> QED BY <1>5, <1>8, <2>1, <2>2, SumEmpty DEF D
<1>9. CASE v # s /\ D[v] # Unreached
  <2>1. PICK k \in Nat : D[v] = k + 1
    <3>1. D[v] - 1 \in Nat /\ D[v] = (D[v] - 1) + 1
      BY <1>2, <1>9 DEF Unreached
    <3> QED BY <3>1
  <2>2. Paths(g, s, v) = SumFunctionOnSet(W[k], Near(g, v))
    <3>1. Walks(g, s)[k + 1][v] = SumFunctionOnSet(Walks(g, s)[k], Near(g, v))
      BY WalksNext
    <3> QED BY <1>1, <1>9, <2>1, <3>1 DEF W
  <2>3. \A u \in Above(g, s, v) : PathsFrom(g, s)[u] \in Int
    <3>1. \A u \in Nodes : Paths(g, s, u) \in Int
      BY <1>1, <1>4
    <3>2. Above(g, s, v) \in SUBSET Nodes
      BY BelowFacts
    <3> QED BY <3>1, <3>2 DEF PathsFrom
  <2>4. ASSUME NEW u \in Near(g, v)
        PROVE  W[k][u] = IF u \in Above(g, s, v) THEN PathsFrom(g, s)[u] ELSE 0
    <3>1. u \in Nodes /\ v \in Near(g, u)
      BY NearFacts
    <3>2. CASE D[u] = k
      <4>1. u \in Above(g, s, v)
        BY <1>6, <2>1, <3>2
      <4>2. Paths(g, s, u) = W[k][u]
        BY <1>1, <3>1, <3>2 DEF Unreached
      <4> QED BY <3>1, <4>1, <4>2 DEF PathsFrom
    <3>3. CASE D[u] # k
      <4>1. u \notin Above(g, s, v)
        BY <1>6, <2>1, <3>3
      <4>2. W[k][u] # 0 => D[u] \in 0 .. 0 + k
        <5>1. D[s] = 0
          BY <1>2
        <5>2. Walks(g, s)[k][u] # 0 => Away(g, s)[u] \in 0 .. Away(g, s)[s] + k
          BY <3>1, <5>1, WalksReach DEF D
        <5> QED BY <5>1, <5>2 DEF D, W
      <4>3. D[u] >= 0 => D[v] \in 0 .. D[u] + 1
        BY AwayFacts DEF D
      <4> QED BY <1>2, <2>1, <3>1, <3>3, <4>1, <4>2, <4>3
    <3> QED BY <3>2, <3>3
  <2>5. Above(g, s, v) \in SUBSET Near(g, v) /\ IsFiniteSet(Near(g, v))
    BY <1>6, NearFacts
  <2>6. SumFunctionOnSet(W[k], Near(g, v)) = SumFunctionOnSet(PathsFrom(g, s), Above(g, s, v))
    BY <2>3, <2>4, <2>5, SumSupport
  <2> QED BY <1>5, <1>9, <2>2, <2>6 DEF D
<1> QED BY <1>7, <1>8, <1>9

-----------------------------------------------------------------------------
(* What holds of a node if it holds of those above it, or of those below.   *)
LEMMA FromAbove ==
    ASSUME NEW g \in GraphsIn, NEW s \in Nodes, NEW Good,
           \A v \in Nodes : Above(g, s, v) \subseteq Good => v \in Good
    PROVE  Nodes \subseteq Good
<1> DEFINE Out == {k \in Nat : \E v \in Nodes : v \notin Good /\ Away(g, s)[v] + 1 = k}
<1>1. ASSUME Out # {} PROVE FALSE
  <2>1. PICK k \in Out : \A l \in Out : k <= l
    <3>1. Out \in SUBSET Nat
      OBVIOUS
    <3> HIDE DEF Out
    <3> QED BY <1>1, <3>1, LeastNatural
  <2>2. PICK v \in Nodes : v \notin Good /\ Away(g, s)[v] + 1 = k
    BY <2>1
  <2>3. PICK u \in Above(g, s, v) : u \notin Good
    BY <2>2
  <2>4. u \in Nodes /\ Away(g, s)[u] = Away(g, s)[v] - 1
    <3>1. Above(g, s, v) \in SUBSET Nodes
      BY BelowFacts
    <3>2. Away(g, s)[u] = Away(g, s)[v] - 1
      BY DEF Above
    <3> QED BY <3>1, <3>2
  <2>5. Away(g, s)[u] + 1 \in Out /\ ~(k <= Away(g, s)[u] + 1)
    <3>1. Away(g, s)[u] \in Int /\ Away(g, s)[u] >= -1 /\ Away(g, s)[v] \in Int
      BY <2>4, AwayFacts
    <3>2. Away(g, s)[u] + 1 \in Nat
      BY <3>1
    <3> QED BY <2>2, <2>3, <2>4, <3>1, <3>2
  <2> QED BY <2>1, <2>5
<1>2. ASSUME NEW v \in Nodes, v \notin Good PROVE FALSE
  <2>1. Away(g, s)[v] \in Int /\ Away(g, s)[v] >= -1
    BY AwayFacts
  <2>2. Away(g, s)[v] + 1 \in Out
    BY <1>2, <2>1
  <2> QED BY <1>1, <2>2
<1> QED BY <1>2

LEMMA FromBelow ==
    ASSUME NEW g \in GraphsIn, NEW s \in Nodes, NEW Good,
           \A u \in Nodes : Below(g, s, u) \subseteq Good => u \in Good
    PROVE  Nodes \subseteq Good
<1> DEFINE Out == {k \in Nat : \E v \in Nodes : v \notin Good /\ N - Away(g, s)[v] = k}
<1>1. ASSUME Out # {} PROVE FALSE
  <2>1. PICK k \in Out : \A l \in Out : k <= l
    <3>1. Out \in SUBSET Nat
      OBVIOUS
    <3> HIDE DEF Out
    <3> QED BY <1>1, <3>1, LeastNatural
  <2>2. PICK u \in Nodes : u \notin Good /\ N - Away(g, s)[u] = k
    BY <2>1
  <2>3. PICK v \in Below(g, s, u) : v \notin Good
    BY <2>2
  <2>4. v \in Nodes /\ Away(g, s)[v] = Away(g, s)[u] + 1
    <3>1. Below(g, s, u) \in SUBSET Nodes
      BY BelowFacts
    <3>2. Away(g, s)[v] = Away(g, s)[u] + 1
      BY DEF Below
    <3> QED BY <3>1, <3>2
  <2>5. N - Away(g, s)[v] \in Out /\ ~(k <= N - Away(g, s)[v])
    <3>1. Away(g, s)[v] \in Int /\ Away(g, s)[v] < N /\ Away(g, s)[u] \in Int /\ N \in Nat
      BY <2>4, AwayFacts, NodesFinite
    <3>2. N - Away(g, s)[v] \in Nat
      BY <3>1
    <3> QED BY <2>2, <2>3, <2>4, <3>1, <3>2
  <2> QED BY <2>1, <2>5
<1>2. ASSUME NEW v \in Nodes, v \notin Good PROVE FALSE
  <2>1. Away(g, s)[v] \in Int /\ Away(g, s)[v] < N /\ N \in Nat
    BY AwayFacts, NodesFinite
  <2>2. N - Away(g, s)[v] \in Out
    <3>1. N - Away(g, s)[v] \in Nat
      BY <2>1
    <3> QED BY <1>2, <3>1
  <2> QED BY <1>1, <2>2
<1> QED BY <1>2

(* path_counts, and the counts of the verifier, are the numbers of paths.   *)
LEMMA CountsArePaths ==
    ASSUME NEW g \in GraphsIn, NEW s \in Nodes, NEW f,
           \A v \in Nodes : f[v] = IF v = s THEN 1 ELSE SumFunctionOnSet(f, Above(g, s, v))
    PROVE  \A v \in Nodes : f[v] = Paths(g, s, v)
<1> DEFINE Good == {v \in Nodes : f[v] = Paths(g, s, v)}
<1>1. ASSUME NEW v \in Nodes, Above(g, s, v) \subseteq Good PROVE v \in Good
  <2>1. IsFiniteSet(Above(g, s, v)) /\ Above(g, s, v) \in SUBSET Nodes
    BY BelowFacts
  <2>2. \A u \in Above(g, s, v) : PathsFrom(g, s)[u] \in Int /\ f[u] = PathsFrom(g, s)[u]
    <3>1. \A u \in Nodes : Paths(g, s, u) \in Int
      BY PathsFacts
    <3> QED BY <1>1, <2>1, <3>1 DEF PathsFrom
  <2>3. SumFunctionOnSet(f, Above(g, s, v)) = SumFunctionOnSet(PathsFrom(g, s), Above(g, s, v))
    BY <2>1, <2>2, SumSame
  <2> QED BY <2>3, PathsFacts
<1> HIDE DEF Good
<1>2. Nodes \subseteq Good
  BY <1>1, FromAbove
<1> QED BY <1>2 DEF Good

(***************************************************************************)
(* The shares of the paths.  Onward(g, s, u, t) is the number of shortest  *)
(* paths from u to t, if t is not nearer to s than u; it goes on with one  *)
(* of the edges to the next level.                                         *)
(***************************************************************************)
Onward(g, s, u, t) ==
    IF Away(g, s)[u] >= 0 /\ Away(g, s)[u] <= Away(g, s)[t]
    THEN Walks(g, u)[Away(g, s)[t] - Away(g, s)[u]][t] ELSE 0

OnwardTo(g, s, t) == [v \in Nodes |-> Onward(g, s, v, t)]

LEMMA OnwardFacts ==
    ASSUME NEW g \in GraphsIn, NEW s \in Nodes, NEW u \in Nodes, NEW t \in Nodes
    PROVE  /\ Onward(g, s, u, t) \in Nat
           /\ Away(g, s)[u] < 0 => Onward(g, s, u, t) = 0
           /\ Away(g, s)[t] < Away(g, s)[u] => Onward(g, s, u, t) = 0
           /\ u # t /\ Away(g, s)[t] = Away(g, s)[u] => Onward(g, s, u, t) = 0
           /\ u = t /\ Away(g, s)[u] >= 0 => Onward(g, s, u, t) = 1
<1> DEFINE a == Away(g, s)[u]
           b == Away(g, s)[t]
<1>1. a \in Int /\ b \in Int
  BY AwayFacts
<1>2. Onward(g, s, u, t) = IF a >= 0 /\ a <= b THEN Walks(g, u)[b - a][t] ELSE 0
  BY DEF Onward
<1>3. a <= b => b - a \in Nat
  BY <1>1
<1>4. \A k \in Nat : Walks(g, u)[k][t] \in Nat
  BY WalksGrow
<1>5. Walks(g, u)[0][t] = IF t = u THEN 1 ELSE 0
  <2>1. Walks(g, u)[0] = OnlySource(u, 1, 0)
    BY WalksGrow
  <2> QED BY <2>1 DEF OnlySource
<1>6. (a = b => b - a = 0) /\ (a < 0 => ~(a >= 0)) /\ (b < a => ~(a <= b)) /\ (u = t => a = b)
  BY <1>1
<1> HIDE DEF a, b
<1>7. Onward(g, s, u, t) \in Nat
  BY <1>2, <1>3, <1>4
<1>8. (a < 0 => Onward(g, s, u, t) = 0) /\ (b < a => Onward(g, s, u, t) = 0)
  BY <1>2, <1>6
<1>9. u # t /\ b = a => Onward(g, s, u, t) = 0
  BY <1>2, <1>5, <1>6
<1>10. u = t /\ a >= 0 => Onward(g, s, u, t) = 1
  <2>1. a = b => a <= b
    BY <1>1
  <2> QED BY <1>2, <1>5, <1>6, <2>1
<1> QED BY <1>7, <1>8, <1>9, <1>10 DEF a, b

LEMMA OnwardSteps ==
    ASSUME NEW g \in GraphsIn, NEW s \in Nodes, NEW u \in Nodes, Away(g, s)[u] >= 0,
           NEW t \in Nodes, t # u
    PROVE  Onward(g, s, u, t) = SumFunctionOnSet(OnwardTo(g, s, t), Below(g, s, u))
<1> DEFINE D == Away(g, s)
           S == Below(g, s, u)
<1>1. /\ D[u] \in Int /\ D[t] \in Int /\ D[u] >= 0
      /\ S \in SUBSET Nodes /\ IsFiniteSet(S) /\ \A v \in S : D[v] = D[u] + 1
  BY AwayFacts, BelowFacts
<1>2. \A v \in Nodes : OnwardTo(g, s, t)[v] = Onward(g, s, v, t) /\ Onward(g, s, v, t) \in Nat
  BY OnwardFacts DEF OnwardTo
<1>3. CASE D[t] <= D[u]
  <2>1. Onward(g, s, u, t) = 0
    <3>1. D[t] < D[u] \/ D[t] = D[u]
      BY <1>1, <1>3
    <3> QED BY <3>1, OnwardFacts
  <2>2. ASSUME NEW v \in S PROVE OnwardTo(g, s, t)[v] = 0 /\ OnwardTo(g, s, t)[v] \in Nat
    <3>1. v \in Nodes /\ D[t] < D[v]
      BY <1>1, <1>3
    <3>2. Onward(g, s, v, t) = 0
      BY <3>1, OnwardFacts
    <3> QED BY <1>2, <3>1, <3>2
  <2>3. SumFunctionOnSet(OnwardTo(g, s, t), S) = 0
    <3> HIDE DEF S
    <3> QED BY <1>1, <2>2, SumZero
  <2> QED BY <2>1, <2>3
<1>4. CASE D[t] > D[u]
  <2>1. PICK k \in Nat : D[t] = D[u] + k + 1 /\ D[t] - D[u] = k + 1
    <3>1. D[t] - D[u] - 1 \in Nat /\ D[t] = D[u] + (D[t] - D[u] - 1) + 1
          /\ D[t] - D[u] = (D[t] - D[u] - 1) + 1
      BY <1>1, <1>4
    <3> QED BY <3>1
  <2>2. Onward(g, s, u, t) = SumFunctionOnSet(WalksTo(g, k, t), Near(g, u))
    <3>1. Walks(g, u)[k + 1][t] = SumFunctionOnSet(WalksTo(g, k, t), Near(g, u))
      BY WalksBegin
    <3>2. D[u] <= D[t]
      BY <1>1, <1>4
    <3> QED BY <1>1, <2>1, <3>1, <3>2 DEF Onward
  <2>3. ASSUME NEW v \in Near(g, u)
        PROVE  WalksTo(g, k, t)[v] = IF v \in S THEN OnwardTo(g, s, t)[v] ELSE 0
    <3>1. v \in Nodes /\ u \in Near(g, v)
      BY NearFacts
    <3>2. WalksTo(g, k, t)[v] = Walks(g, v)[k][t]
      BY <3>1 DEF WalksTo
    <3>3. CASE v \in S
      <4>1. D[v] >= 0 /\ D[v] <= D[t] /\ D[t] - D[v] = k
        BY <1>1, <2>1, <3>3
      <4>2. Onward(g, s, v, t) = Walks(g, v)[k][t]
        BY <4>1 DEF Onward
      <4> QED BY <1>2, <3>1, <3>2, <3>3, <4>2
    <3>4. CASE v \notin S
      <4>1. D[v] # D[u] + 1
        BY <3>4 DEF Below
      <4>2. D[v] \in 0 .. D[u] + 1
        BY <1>1, <3>1, AwayFacts
      <4>3. Walks(g, v)[k][t] # 0 => D[t] \in 0 .. D[v] + k
        <5>1. Away(g, s)[v] >= 0
          BY <1>1, <4>2
        <5> QED BY <3>1, <5>1, WalksReach
      <4> QED BY <1>1, <2>1, <3>2, <3>4, <4>1, <4>2, <4>3
    <3> QED BY <3>3, <3>4
  <2>4. S \in SUBSET Near(g, u) /\ IsFiniteSet(Near(g, u)) /\ \A v \in S : OnwardTo(g, s, t)[v] \in Int
    <3>1. S \in SUBSET Near(g, u)
      BY DEF Below
    <3> QED BY <1>1, <1>2, <3>1, NearFacts
  <2>5. SumFunctionOnSet(WalksTo(g, k, t), Near(g, u)) = SumFunctionOnSet(OnwardTo(g, s, t), S)
    <3> HIDE DEF S
    <3> QED BY <2>3, <2>4, SumSupport
  <2> QED BY <2>2, <2>5
<1> QED BY <1>1, <1>3, <1>4

(***************************************************************************)
(* What Brandes accumulates.  A path to t counts Scale / paths to t; Ahead *)
(* of u are the parts of all paths that go on from it, and Dependency is   *)
(* what its delta has to become.                                           *)
(***************************************************************************)
Unit(g, s, t) == IF Paths(g, s, t) = 0 THEN 0 ELSE Scale \div Paths(g, s, t)
Pull(g, s, u) == [t \in Nodes |-> Unit(g, s, t) * Onward(g, s, u, t)]
Ahead(g, s, u) == SumFunctionOnSet(Pull(g, s, u), Nodes \ {u})
Dependency(g, s, u) == Paths(g, s, u) * Ahead(g, s, u)

LEMMA AheadFacts ==
    ASSUME NEW g \in GraphsIn, NEW s \in Nodes, NEW u \in Nodes
    PROVE  /\ Unit(g, s, u) \in Nat /\ (Paths(g, s, u) # 0 => Paths(g, s, u) * Unit(g, s, u) = Scale)
           /\ \A t \in Nodes : Pull(g, s, u)[t] \in Nat
           /\ Ahead(g, s, u) \in Nat /\ Dependency(g, s, u) \in Nat
<1>1. ASSUME NEW t \in Nodes
      PROVE  Unit(g, s, t) \in Nat /\ (Paths(g, s, t) # 0 => Paths(g, s, t) * Unit(g, s, t) = Scale)
  <2>1. Paths(g, s, t) \in Nat /\ Scale \in Nat
    BY PathsFacts, BrandesAssumption
  <2>2. CASE Paths(g, s, t) = 0
    BY <2>2 DEF Unit
  <2>3. CASE Paths(g, s, t) # 0
    <3>1. Scale % Paths(g, s, t) = 0
      BY <2>3, ScaleAssumption
    <3>2. \A n \in Nat : \A c \in Nat \ {0} : n % c = 0 => n \div c \in Nat /\ c * (n \div c) = n
      OBVIOUS
    <3>3. Unit(g, s, t) = Scale \div Paths(g, s, t)
      BY <2>3 DEF Unit
    <3> QED BY <2>1, <2>3, <3>1, <3>2, <3>3
  <2> QED BY <2>2, <2>3
<1>2. \A t \in Nodes : Pull(g, s, u)[t] \in Nat
  <2> SUFFICES ASSUME NEW t \in Nodes PROVE Pull(g, s, u)[t] \in Nat
    OBVIOUS
  <2>1. Unit(g, s, t) \in Nat /\ Onward(g, s, u, t) \in Nat
    BY <1>1, OnwardFacts
  <2>2. \A a, b \in Nat : a * b \in Nat
    OBVIOUS
  <2> QED BY <2>1, <2>2 DEF Pull
<1>3. Ahead(g, s, u) \in Nat
  <2>1. IsFiniteSet(Nodes \ {u})
    BY NodesFinite, FS_Subset
  <2> QED BY <1>2, <2>1, SumCounts DEF Ahead
<1>4. Dependency(g, s, u) \in Nat
  <2>1. \A a, b \in Nat : a * b \in Nat
    OBVIOUS
  <2>2. Paths(g, s, u) \in Nat
    BY PathsFacts
  <2> QED BY <1>3, <2>1, <2>2 DEF Dependency
<1> QED BY <1>1, <1>2, <1>3, <1>4

(* A path that goes on ends at the next node, or goes on from it. *)
Through(g, s) == [v \in Nodes |-> Unit(g, s, v) + Ahead(g, s, v)]

LEMMA AheadSteps ==
    ASSUME NEW g \in GraphsIn, NEW s \in Nodes, NEW u \in Nodes, Away(g, s)[u] >= 0
    PROVE  Ahead(g, s, u) = SumFunctionOnSet(Through(g, s), Below(g, s, u))
<1> DEFINE S == Below(g, s, u)
           T == Nodes \ {u}
           f == [v \in Nodes |-> Pull(g, s, v)]
           h == [t \in Nodes |-> [v \in Nodes |-> Unit(g, s, t) * Onward(g, s, v, t)]]
           fun == Through(g, s)
           gun == Pull(g, s, u)
<1>1. S \in SUBSET Nodes /\ IsFiniteSet(S) /\ IsFiniteSet(T) /\ T \in SUBSET Nodes
  BY BelowFacts, NodesFinite, FS_Subset
<1>2. \A v \in S : \A t \in T : f[v][t] \in Int /\ h[t][v] = f[v][t]
  <2> SUFFICES ASSUME NEW v \in S, NEW t \in T PROVE f[v][t] \in Int /\ h[t][v] = f[v][t]
    OBVIOUS
  <2>1. v \in Nodes /\ t \in Nodes
    BY <1>1
  <2>2. Pull(g, s, v)[t] \in Nat
    BY <2>1, AheadFacts
  <2> QED BY <2>1, <2>2 DEF Pull
<1>3. ASSUME NEW v \in S PROVE fun[v] = SumFunctionOnSet(f[v], T)
  <2>1. v \in Nodes /\ Away(g, s)[v] = Away(g, s)[u] + 1 /\ v # u /\ Away(g, s)[u] \in Int
    <3>1. v \in Nodes /\ Away(g, s)[v] = Away(g, s)[u] + 1
      BY <1>1, BelowFacts
    <3>2. u \notin Near(g, u) /\ v \in Near(g, u)
      BY NearFacts DEF Below
    <3>3. Away(g, s)[u] \in Int
      BY AwayFacts
    <3> QED BY <3>1, <3>2, <3>3
  <2>2. Pull(g, s, v)[u] = 0
    <3>1. Onward(g, s, v, u) = 0
      BY <2>1, OnwardFacts
    <3>2. Unit(g, s, u) \in Nat
      BY AheadFacts
    <3> QED BY <3>1, <3>2 DEF Pull
  <2>3. Pull(g, s, v)[v] = Unit(g, s, v)
    <3>1. Onward(g, s, v, v) = 1
      BY <2>1, OnwardFacts
    <3>2. Unit(g, s, v) \in Nat
      BY <2>1, AheadFacts
    <3> QED BY <2>1, <3>1, <3>2 DEF Pull
  <2>4. \A t \in Nodes : Pull(g, s, v)[t] \in Int
    <3>1. \A t \in Nodes : Pull(g, s, v)[t] \in Nat
      BY <2>1, AheadFacts
    <3> QED BY <3>1
  <2>5. Adds(Pull(g, s, v), Nodes)
    BY <2>4, NodesFinite, SumElement
  <2>6. PICK sum : \A x \in SUBSET Nodes : sum[x] = SumFunctionOnSet(Pull(g, s, v), x)
    <3>1. LET sum == [x \in SUBSET Nodes |-> SumFunctionOnSet(Pull(g, s, v), x)]
          IN  \A x \in SUBSET Nodes : sum[x] = SumFunctionOnSet(Pull(g, s, v), x)
      OBVIOUS
    <3> QED BY <3>1
  <2>7. \A x \in SUBSET Nodes : \A y \in x :
            sum[x] \in Int /\ sum[x] = Pull(g, s, v)[y] + sum[x \ {y}]
    BY <2>5, <2>6 DEF Adds
  <2>8. Nodes \in SUBSET Nodes /\ Nodes \ {v} \in SUBSET Nodes /\ u \in Nodes
    OBVIOUS
  <2>9. sum[Nodes] = Pull(g, s, v)[v] + sum[Nodes \ {v}] /\ sum[Nodes] \in Int
    BY <2>1, <2>7, <2>8
  <2>10. sum[Nodes] = 0 + sum[Nodes \ {u}]
    BY <2>2, <2>7, <2>8
  <2>11. sum[Nodes \ {v}] = Ahead(g, s, v) /\ sum[Nodes \ {u}] = SumFunctionOnSet(Pull(g, s, v), T)
    BY <2>6, <2>8, <1>1 DEF Ahead
  <2>12. Ahead(g, s, v) \in Nat /\ Unit(g, s, v) \in Nat /\ SumFunctionOnSet(Pull(g, s, v), T) \in Int
    <3>1. \A t \in T : Pull(g, s, v)[t] \in Int
      BY <2>4
    <3> QED BY <1>1, <2>1, <3>1, AheadFacts, SumType
  <2>13. SumFunctionOnSet(Pull(g, s, v), T) = Unit(g, s, v) + Ahead(g, s, v)
    BY <2>3, <2>9, <2>10, <2>11, <2>12
  <2> QED BY <2>1, <2>13 DEF Through
<1>4. ASSUME NEW t \in T PROVE gun[t] = SumFunctionOnSet(h[t], S)
  <2>1. t \in Nodes /\ t # u
    OBVIOUS
  <2>2. Onward(g, s, u, t) = SumFunctionOnSet(OnwardTo(g, s, t), S)
    BY <2>1, OnwardSteps
  <2>3. \A v \in S : OnwardTo(g, s, t)[v] \in Int /\ h[t][v] = Unit(g, s, t) * OnwardTo(g, s, t)[v]
    <3> SUFFICES ASSUME NEW v \in Nodes
                 PROVE  OnwardTo(g, s, t)[v] \in Int /\ h[t][v] = Unit(g, s, t) * OnwardTo(g, s, t)[v]
      BY <1>1
    <3>1. Onward(g, s, v, t) \in Nat
      BY <2>1, OnwardFacts
    <3> QED BY <2>1, <3>1 DEF OnwardTo
  <2>4. Unit(g, s, t) \in Int
    <3>1. Unit(g, s, t) \in Nat
      BY <2>1, AheadFacts
    <3> QED BY <3>1
  <2>5. SumFunctionOnSet(h[t], S) = Unit(g, s, t) * SumFunctionOnSet(OnwardTo(g, s, t), S)
    <3> HIDE DEF S, h
    <3> QED BY <1>1, <2>3, <2>4, SumScaled
  <2> QED BY <2>1, <2>2, <2>5 DEF Pull
<1> HIDE DEF S, T, f, h, fun, gun
<1>5. DoubleSum(S, T, f, h, fun, gun)
  BY <1>2, <1>3, <1>4 DEF DoubleSum
<1>6. SumFunctionOnSet(fun, S) = SumFunctionOnSet(gun, T)
  BY <1>1, <1>5, SumExchange
<1> QED BY <1>6 DEF S, T, fun, gun, Ahead

Shares(g, s, u) ==
    [v \in Nodes |-> (Paths(g, s, u) * (Scale + Dependency(g, s, v))) \div Paths(g, s, v)]

LEMMA DependencySteps ==
    ASSUME NEW g \in GraphsIn, NEW s \in Nodes, NEW u \in Nodes
    PROVE  /\ \A v \in Below(g, s, u) : Shares(g, s, u)[v] \in Nat
           /\ Dependency(g, s, u) = SumFunctionOnSet(Shares(g, s, u), Below(g, s, u))
<1> DEFINE S == Below(g, s, u)
<1>1. S \in SUBSET Nodes /\ IsFiniteSet(S) /\ \A v \in S : Away(g, s)[u] >= 0
  BY BelowFacts
<1>2. Paths(g, s, u) \in Nat
  BY PathsFacts
<1>3. ASSUME NEW v \in S
      PROVE  /\ Through(g, s)[v] \in Nat
             /\ Shares(g, s, u)[v] = Paths(g, s, u) * Through(g, s)[v]
  <2>1. v \in Nodes /\ Away(g, s)[u] >= 0 /\ Away(g, s)[v] = Away(g, s)[u] + 1
    BY <1>1, BelowFacts
  <2>2. Paths(g, s, v) \in Nat \ {0}
    <3>1. Away(g, s)[u] \in Int
      BY AwayFacts
    <3>2. Away(g, s)[v] # Unreached
      BY <2>1, <3>1 DEF Unreached
    <3> QED BY <2>1, <3>2, PathsFacts
  <2>3. PICK p, c, w, a : /\ p = Paths(g, s, u) /\ c = Paths(g, s, v)
                          /\ w = Unit(g, s, v) /\ a = Ahead(g, s, v)
    OBVIOUS
  <2>4. p \in Nat /\ c \in Nat \ {0} /\ w \in Nat /\ a \in Nat /\ c * w = Scale
    BY <1>2, <2>1, <2>2, <2>3, AheadFacts
  <2>5. Dependency(g, s, v) = c * a /\ Through(g, s)[v] = w + a
    BY <2>1, <2>3 DEF Dependency, Through
  <2>6. Shares(g, s, u)[v] = (p * (Scale + c * a)) \div c
    BY <2>1, <2>3, <2>5 DEF Shares
  <2>7. p * (c * w + c * a) = c * (p * (w + a)) /\ p * (w + a) \in Nat /\ w + a \in Nat
    BY <2>4
  <2>8. (c * (p * (w + a))) \div c = p * (w + a)
    <3>1. \A n \in Nat : (c * n) \div c = n
      BY <2>4, DivExact
    <3> QED BY <2>7, <3>1
  <2> QED BY <2>3, <2>4, <2>5, <2>6, <2>7, <2>8
<1>4. \A v \in S : Shares(g, s, u)[v] \in Nat
  <2>1. \A a, b \in Nat : a * b \in Nat
    OBVIOUS
  <2> QED BY <1>2, <1>3, <2>1
<1>5. SumFunctionOnSet(Shares(g, s, u), S) = Paths(g, s, u) * SumFunctionOnSet(Through(g, s), S)
  <2>1. \A v \in S : Through(g, s)[v] \in Int /\ Shares(g, s, u)[v] = Paths(g, s, u) * Through(g, s)[v]
    BY <1>3
  <2>2. Paths(g, s, u) \in Int
    BY <1>2
  <2> HIDE DEF S
  <2> QED BY <1>1, <2>1, <2>2, SumScaled
<1>6. CASE Away(g, s)[u] >= 0
  BY <1>4, <1>5, <1>6, AheadSteps DEF Dependency
<1>7. CASE ~(Away(g, s)[u] >= 0)
  <2>1. S = {}
    BY <1>1, <1>7
  <2>2. Away(g, s)[u] = Unreached
    <3>1. Away(g, s)[u] \in Int /\ Away(g, s)[u] >= -1
      BY AwayFacts
    <3> QED BY <1>7, <3>1 DEF Unreached
  <2>3. Paths(g, s, u) = 0 /\ Ahead(g, s, u) \in Nat
    BY <2>2, PathsFacts, AheadFacts
  <2>4. Dependency(g, s, u) = 0
    BY <2>3 DEF Dependency
  <2>5. SumFunctionOnSet(Shares(g, s, u), S) = 0
    BY <2>1, SumEmpty
  <2> QED BY <1>4, <2>4, <2>5
<1> QED BY <1>6, <1>7

(* Dependency is what betweenness takes from one source. *)
PathsThrough(g, s, u) ==
    [t \in Nodes |->
        LET ds == DistancesFrom(Nodes, g, s)
            du == DistancesFrom(Nodes, g, u)
        IN IF u # t /\ ds[t] # Unreached /\ du[t] # Unreached /\ ds[u] + du[t] = ds[t]
           THEN (Scale * Paths(g, s, u) * Paths(g, u, t)) \div Paths(g, s, t) ELSE 0]

LEMMA OnwardIsShortest ==
    ASSUME NEW g \in GraphsIn, NEW s \in Nodes, NEW u \in Nodes, NEW t \in Nodes,
           Away(g, s)[u] >= 0, Onward(g, s, u, t) # 0
    PROVE  /\ Away(g, s)[t] >= 0 /\ Away(g, u)[t] >= 0
           /\ Away(g, s)[u] + Away(g, u)[t] = Away(g, s)[t]
<1>1. /\ Away(g, s)[u] \in Int /\ Away(g, s)[t] \in Int /\ Away(g, u)[t] \in Int
      /\ Away(g, u)[u] = 0
  BY AwayFacts
<1>2. Away(g, s)[u] <= Away(g, s)[t]
  BY DEF Onward
<1>3. PICK k \in Nat : k = Away(g, s)[t] - Away(g, s)[u]
  BY <1>1, <1>2
<1>4. Walks(g, u)[k][t] # 0
  BY <1>2, <1>3 DEF Onward
<1>5. Away(g, u)[t] \in 0 .. 0 + k
  <2>1. Away(g, u)[t] \in 0 .. Away(g, u)[u] + k
    <3>1. Away(g, u)[u] >= 0
      BY <1>1
    <3> QED BY <1>4, <3>1, WalksReach
  <2> QED BY <1>1, <2>1
<1>6. PICK m \in Nat : m = Away(g, u)[t]
  BY <1>5
<1>7. Walks(g, u)[m][t] # 0
  BY <1>6, WalksArrive
<1>8. Away(g, s)[t] \in 0 .. Away(g, s)[u] + m
  BY <1>7, WalksReach
<1> QED BY <1>1, <1>3, <1>5, <1>6, <1>8

LEMMA DependencyIsShare ==
    ASSUME NEW g \in GraphsIn, NEW s \in Nodes, NEW u \in Nodes
    PROVE  /\ Dependency(g, s, u) = SumFunction(PathsThrough(g, s, u))
           /\ \A t \in Nodes : PathsThrough(g, s, u)[t] \in Nat
<1> DEFINE ds == Away(g, s)
           du == Away(g, u)
           w == [t \in Nodes |-> Paths(g, s, u) * Pull(g, s, u)[t]]
           fun == PathsThrough(g, s, u)
           T == Nodes \ {u}
<1>1. \A t \in Nodes : ds[t] \in Int /\ du[t] \in Int /\ ds[t] >= -1 /\ du[t] >= -1
  BY AwayFacts
<1>2. \A t \in Nodes :
          fun[t] = IF u # t /\ ds[t] # Unreached /\ du[t] # Unreached /\ ds[u] + du[t] = ds[t]
                   THEN (Scale * Paths(g, s, u) * Paths(g, u, t)) \div Paths(g, s, t) ELSE 0
  BY DEF PathsThrough, Away
<1> HIDE DEF fun, ds, du
<1>3. ASSUME NEW t \in T PROVE fun[t] = w[t] /\ w[t] \in Nat
  <2>1. t \in Nodes /\ t # u
    OBVIOUS
  <2>2. PICK p, c, x, a, o : /\ p = Paths(g, s, u) /\ c = Paths(g, s, t) /\ x = Paths(g, u, t)
                             /\ a = Unit(g, s, t) /\ o = Onward(g, s, u, t)
    OBVIOUS
  <2>3. /\ p \in Nat /\ c \in Nat /\ x \in Nat /\ a \in Nat /\ o \in Nat /\ Scale \in Nat
        /\ c # 0 => c * a = Scale
    BY <2>1, <2>2, PathsFacts, AheadFacts, OnwardFacts, BrandesAssumption
  <2>4. w[t] = p * (a * o)
    BY <2>1, <2>2 DEF Pull
  <2>5. /\ p = 0 <=> ds[u] = Unreached
        /\ c = 0 <=> ds[t] = Unreached
        /\ x = 0 <=> du[t] = Unreached
    BY <2>1, <2>2, PathsFacts DEF ds, du
  <2>6. p * (a * o) \in Nat
    <3>1. \A i, j, k \in Nat : i * (j * k) \in Nat
      OBVIOUS
    <3> QED BY <2>3, <3>1
  <2>7. CASE ds[t] # Unreached /\ du[t] # Unreached /\ ds[u] + du[t] = ds[t]
    <3>1. fun[t] = (Scale * p * x) \div c
      BY <1>2, <2>1, <2>2, <2>7
    <3>2. c # 0 /\ Scale = c * a
      BY <2>3, <2>5, <2>7
    <3>3. fun[t] = p * (a * x)
      <4>1. p * (a * x) \in Nat /\ (c * a) * p * x = c * (p * (a * x))
        <5>1. \A i, j, k, l \in Nat : i * (j * k) \in Nat /\ (l * j) * i * k = l * (i * (j * k))
          OBVIOUS
        <5> QED BY <2>3, <5>1
      <4>2. \A n \in Nat : (c * n) \div c = n
        BY <2>3, <3>2, DivExact
      <4> QED BY <3>1, <3>2, <4>1, <4>2
    <3>4. CASE p = 0
      <4>1. \A n \in Nat : 0 * n = 0
        OBVIOUS
      <4>2. a * x \in Nat /\ a * o \in Nat
        <5>1. \A i, j \in Nat : i * j \in Nat
          OBVIOUS
        <5> QED BY <2>3, <5>1
      <4> QED BY <2>4, <2>6, <3>3, <3>4, <4>1, <4>2
    <3>5. CASE p # 0
      <4>1. ds[u] >= 0 /\ du[t] >= 0 /\ ds[u] <= ds[t] /\ ds[t] - ds[u] = du[t]
        BY <1>1, <2>1, <2>5, <2>7, <3>5 DEF Unreached
      <4>2. o = Walks(g, u)[du[t]][t]
        BY <2>2, <4>1 DEF Onward, ds
      <4>3. x = Walks(g, u)[du[t]][t]
        BY <2>2, <2>7 DEF Paths, du, Away
      <4> QED BY <2>4, <2>6, <3>3, <4>2, <4>3
    <3> QED BY <3>4, <3>5
  <2>8. CASE ~(ds[t] # Unreached /\ du[t] # Unreached /\ ds[u] + du[t] = ds[t])
    <3>1. fun[t] = 0
      BY <1>2, <2>1, <2>8
    <3>2. p = 0 \/ o = 0
      <4> SUFFICES ASSUME p # 0, o # 0 PROVE FALSE
        OBVIOUS
      <4>1. ds[u] >= 0
        BY <1>1, <2>5 DEF Unreached
      <4>2. ds[t] >= 0 /\ du[t] >= 0 /\ ds[u] + du[t] = ds[t]
        BY <2>1, <2>2, <4>1, OnwardIsShortest DEF ds, du
      <4> QED BY <1>1, <2>1, <2>8, <4>2 DEF Unreached
    <3>3. p * (a * o) = 0
      <4>1. \A i, j \in Nat : i * (j * 0) = 0 /\ 0 * (i * j) = 0
        OBVIOUS
      <4> QED BY <2>3, <3>2, <4>1
    <3> QED BY <2>4, <2>6, <3>1, <3>3
  <2> QED BY <2>7, <2>8
<1>4. fun[u] = 0
  BY <1>2
<1>5. T \in SUBSET Nodes /\ IsFiniteSet(Nodes) /\ IsFiniteSet(T)
  BY NodesFinite, FS_Subset
<1>6. SumFunctionOnSet(fun, Nodes) = SumFunctionOnSet(w, T)
  <2>1. \A t \in Nodes : fun[t] = IF t \in T THEN w[t] ELSE 0
    BY <1>3, <1>4
  <2>2. \A t \in T : w[t] \in Int
    BY <1>3
  <2> HIDE DEF w, T
  <2> QED BY <1>5, <2>1, <2>2, SumSupport
<1>7. SumFunctionOnSet(w, T) = Paths(g, s, u) * SumFunctionOnSet(Pull(g, s, u), T)
  <2>1. Paths(g, s, u) \in Int
    <3>1. Paths(g, s, u) \in Nat
      BY PathsFacts
    <3> QED BY <3>1
  <2>2. \A t \in T : Pull(g, s, u)[t] \in Int /\ w[t] = Paths(g, s, u) * Pull(g, s, u)[t]
    <3>1. \A t \in Nodes : Pull(g, s, u)[t] \in Nat
      BY AheadFacts
    <3> QED BY <3>1
  <2> HIDE DEF w, T
  <2> QED BY <1>5, <2>1, <2>2, SumScaled
<1>8. DOMAIN fun = Nodes
  BY DEF fun, PathsThrough
<1>9. \A t \in Nodes : fun[t] \in Nat
  BY <1>3, <1>4
<1> QED BY <1>6, <1>7, <1>8, <1>9 DEF fun, Dependency, Ahead, SumFunction

-----------------------------------------------------------------------------
(* The verifier adds up over the edges of a row of the graph. *)
LEMMA RowSum ==
    ASSUME NEW g \in GraphsIn, NEW u \in Nodes, NEW S \in SUBSET DOMAIN g[u], NEW fun, NEW gun,
           DOMAIN fun = S, \A i \in S : gun[g[u][i]] \in Int /\ fun[i] = gun[g[u][i]]
    PROVE  SumFunction(fun) = SumFunctionOnSet(gun, {g[u][i] : i \in S})
<1>1. PICK row : row = g[u]
  OBVIOUS
<1>2. \A i, j \in S : row[i] = row[j] => i = j
  BY <1>1, NearFacts
<1>3. IsFiniteSet(S)
  <2>1. DOMAIN g[u] = 1 .. Len(g[u]) /\ Len(g[u]) \in Nat
    BY NearFacts
  <2>2. \A n \in Nat : IsFiniteSet(1 .. n)
    BY FS_Interval
  <2>3. IsFiniteSet(DOMAIN g[u])
    BY <2>1, <2>2
  <2> QED BY <2>3, FS_Subset
<1>4. \A i \in S : gun[row[i]] \in Int /\ fun[i] = gun[row[i]]
  BY <1>1
<1>5. SumFunctionOnSet(fun, S) = SumFunctionOnSet(gun, {row[i] : i \in S})
  BY <1>2, <1>3, <1>4, SumReindexed
<1> QED BY <1>1, <1>5 DEF SumFunction

DownTo(g, s, u) == {i \in DOMAIN g[u] : Away(g, s)[g[u][i]] = Away(g, s)[u] + 1}
UpFrom(g, s, v) == {i \in DOMAIN g[v] : Away(g, s)[g[v][i]] = Away(g, s)[v] - 1}

LEMMA RowEnds ==
    ASSUME NEW g \in GraphsIn, NEW s \in Nodes, NEW u \in Nodes
    PROVE  /\ DownTo(g, s, u) \in SUBSET DOMAIN g[u] /\ UpFrom(g, s, u) \in SUBSET DOMAIN g[u]
           /\ {g[u][i] : i \in DownTo(g, s, u)} = Below(g, s, u)
           /\ {g[u][i] : i \in UpFrom(g, s, u)} = Above(g, s, u)
<1>1. Near(g, u) = {g[u][i] : i \in DOMAIN g[u]}
  BY DEF Near, Range
<1> QED BY <1>1 DEF DownTo, UpFrom, Below, Above

(* Its numbers of paths ... *)
PathsOver(g, s, p) ==
    [v \in Nodes |-> IF v = s THEN 1 ELSE SumFunction([i \in UpFrom(g, s, v) |-> p[g[v][i]]])]
CountedPaths(g, s) == CHOOSE p : p = PathsOver(g, s, p)

LEMMA PathsOverIs ==
    ASSUME NEW g \in GraphsIn, NEW s \in Nodes, NEW v \in Nodes, NEW p,
           \A u \in Above(g, s, v) : p[u] = Paths(g, s, u)
    PROVE  PathsOver(g, s, p)[v] = Paths(g, s, v)
<1> DEFINE S == UpFrom(g, s, v)
           fun == [i \in S |-> p[g[v][i]]]
<1>1. S \in SUBSET DOMAIN g[v] /\ {g[v][i] : i \in S} = Above(g, s, v) /\ DOMAIN fun = S
  BY RowEnds
<1>2. \A i \in S : PathsFrom(g, s)[g[v][i]] \in Int /\ fun[i] = PathsFrom(g, s)[g[v][i]]
  <2> SUFFICES ASSUME NEW i \in S
               PROVE  PathsFrom(g, s)[g[v][i]] \in Int /\ fun[i] = PathsFrom(g, s)[g[v][i]]
    OBVIOUS
  <2>1. PICK u : u = g[v][i]
    OBVIOUS
  <2>2. u \in Above(g, s, v)
    BY <1>1, <2>1
  <2>3. u \in Nodes
    BY <2>2, BelowFacts
  <2>4. Paths(g, s, u) \in Nat
    BY <2>3, PathsFacts
  <2> QED BY <2>1, <2>2, <2>3, <2>4 DEF PathsFrom
<1> HIDE DEF S, fun
<1>3. SumFunction(fun) = SumFunctionOnSet(PathsFrom(g, s), Above(g, s, v))
  BY <1>1, <1>2, RowSum
<1>4. PathsOver(g, s, p)[v] = IF v = s THEN 1 ELSE SumFunction(fun)
  BY DEF PathsOver, fun, S
<1> QED BY <1>3, <1>4, PathsFacts

LEMMA CountedPathsAre ==
    ASSUME NEW g \in GraphsIn, NEW s \in Nodes
    PROVE  CountedPaths(g, s) = PathsFrom(g, s)
<1>1. PathsFrom(g, s) = PathsOver(g, s, PathsFrom(g, s))
  <2>1. ASSUME NEW v \in Nodes PROVE PathsOver(g, s, PathsFrom(g, s))[v] = Paths(g, s, v)
    <3>1. \A u \in Above(g, s, v) : PathsFrom(g, s)[u] = Paths(g, s, u)
      <4>1. Above(g, s, v) \in SUBSET Nodes
        BY BelowFacts
      <4> QED BY <4>1 DEF PathsFrom
    <3> QED BY <3>1, PathsOverIs
  <2>2. PathsOver(g, s, PathsFrom(g, s)) = [v \in Nodes |-> PathsOver(g, s, PathsFrom(g, s))[v]]
    BY DEF PathsOver
  <2> QED BY <2>1, <2>2 DEF PathsFrom
<1>2. PICK p : p = CountedPaths(g, s) /\ p = PathsOver(g, s, p)
  BY <1>1 DEF CountedPaths
<1> DEFINE Good == {v \in Nodes : p[v] = Paths(g, s, v)}
<1>3. ASSUME NEW v \in Nodes, Above(g, s, v) \subseteq Good PROVE v \in Good
  <2>1. PathsOver(g, s, p)[v] = Paths(g, s, v)
    BY <1>3, PathsOverIs
  <2> QED BY <1>2, <2>1
<1>4. Nodes \subseteq Good
  <2> HIDE DEF Good
  <2> QED BY <1>3, FromAbove
<1>5. p = [v \in Nodes |-> p[v]]
  <2>1. PathsOver(g, s, p) = [v \in Nodes |-> PathsOver(g, s, p)[v]]
    BY DEF PathsOver
  <2> QED BY <1>2, <2>1
<1> QED BY <1>2, <1>4, <1>5 DEF PathsFrom

(* ... and its dependencies. *)
DeltaOver(g, s, p, d) ==
    [u \in Nodes |-> SumFunction([i \in DownTo(g, s, u) |->
                         (p[u] * (Scale + d[g[u][i]])) \div p[g[u][i]]])]
AddedUp(g, s) == CHOOSE d : d = DeltaOver(g, s, CountedPaths(g, s), d)
DependencyOf(g, s) == [u \in Nodes |-> Dependency(g, s, u)]

LEMMA SharesOver ==
    ASSUME NEW g \in GraphsIn, NEW s \in Nodes, NEW u \in Nodes, NEW p, NEW d,
           p[u] = Paths(g, s, u),
           \A v \in Below(g, s, u) : p[v] = Paths(g, s, v) /\ d[v] = Dependency(g, s, v),
           NEW S \in SUBSET DOMAIN g[u], {g[u][i] : i \in S} = Below(g, s, u)
    PROVE  SumFunction([i \in S |-> (p[u] * (Scale + d[g[u][i]])) \div p[g[u][i]]])
               = Dependency(g, s, u)
<1> DEFINE fun == [i \in S |-> (p[u] * (Scale + d[g[u][i]])) \div p[g[u][i]]]
<1>1. \A i \in S : Shares(g, s, u)[g[u][i]] \in Int /\ fun[i] = Shares(g, s, u)[g[u][i]]
  <2> SUFFICES ASSUME NEW i \in S
               PROVE  Shares(g, s, u)[g[u][i]] \in Int /\ fun[i] = Shares(g, s, u)[g[u][i]]
    OBVIOUS
  <2>1. PICK v : v = g[u][i]
    OBVIOUS
  <2>2. v \in Below(g, s, u)
    BY <2>1
  <2>3. v \in Nodes
    BY <2>2, BelowFacts
  <2>4. Shares(g, s, u)[v] \in Nat
    BY <2>2, DependencySteps
  <2>5. fun[i] = (p[u] * (Scale + d[v])) \div p[v]
    BY <2>1
  <2>6. Shares(g, s, u)[v] = (Paths(g, s, u) * (Scale + Dependency(g, s, v))) \div Paths(g, s, v)
    BY <2>3 DEF Shares
  <2>7. fun[i] = Shares(g, s, u)[v]
    BY <2>2, <2>5, <2>6
  <2> QED BY <2>1, <2>4, <2>7
<1>2. DOMAIN fun = S
  OBVIOUS
<1> HIDE DEF fun
<1>3. SumFunction(fun) = SumFunctionOnSet(Shares(g, s, u), Below(g, s, u))
  BY <1>1, <1>2, RowSum
<1> QED BY <1>3, DependencySteps DEF fun

LEMMA DeltaOverIs ==
    ASSUME NEW g \in GraphsIn, NEW s \in Nodes, NEW u \in Nodes, NEW d,
           \A v \in Below(g, s, u) : d[v] = Dependency(g, s, v)
    PROVE  DeltaOver(g, s, CountedPaths(g, s), d)[u] = Dependency(g, s, u)
<1>1. PICK p : p = CountedPaths(g, s) /\ p = PathsFrom(g, s)
  BY CountedPathsAre
<1>2. \A v \in Nodes : p[v] = Paths(g, s, v)
  BY <1>1 DEF PathsFrom
<1>3. PICK S : S = DownTo(g, s, u)
  OBVIOUS
<1>4. S \in SUBSET DOMAIN g[u] /\ {g[u][i] : i \in S} = Below(g, s, u)
  BY <1>3, RowEnds
<1>5. \A v \in Below(g, s, u) : p[v] = Paths(g, s, v) /\ d[v] = Dependency(g, s, v)
  BY <1>2, BelowFacts
<1>6. SumFunction([i \in S |-> (p[u] * (Scale + d[g[u][i]])) \div p[g[u][i]]]) = Dependency(g, s, u)
  BY <1>2, <1>4, <1>5, SharesOver
<1>7. DeltaOver(g, s, p, d)[u]
          = SumFunction([i \in S |-> (p[u] * (Scale + d[g[u][i]])) \div p[g[u][i]]])
  BY <1>3 DEF DeltaOver
<1> QED BY <1>1, <1>6, <1>7

LEMMA AddedUpIs ==
    ASSUME NEW g \in GraphsIn, NEW s \in Nodes
    PROVE  AddedUp(g, s) = DependencyOf(g, s)
<1> DEFINE F(d) == DeltaOver(g, s, CountedPaths(g, s), d)
<1>1. DependencyOf(g, s) = F(DependencyOf(g, s))
  <2>1. ASSUME NEW u \in Nodes PROVE F(DependencyOf(g, s))[u] = Dependency(g, s, u)
    <3>1. \A v \in Below(g, s, u) : DependencyOf(g, s)[v] = Dependency(g, s, v)
      <4>1. Below(g, s, u) \in SUBSET Nodes
        BY BelowFacts
      <4> QED BY <4>1 DEF DependencyOf
    <3> QED BY <3>1, DeltaOverIs
  <2>2. F(DependencyOf(g, s)) = [u \in Nodes |-> F(DependencyOf(g, s))[u]]
    BY DEF DeltaOver
  <2> QED BY <2>1, <2>2 DEF DependencyOf
<1>2. PICK d : d = AddedUp(g, s) /\ d = F(d)
  BY <1>1 DEF AddedUp
<1> DEFINE Good == {u \in Nodes : d[u] = Dependency(g, s, u)}
<1>3. ASSUME NEW u \in Nodes, Below(g, s, u) \subseteq Good PROVE u \in Good
  <2>1. F(d)[u] = Dependency(g, s, u)
    BY <1>3, DeltaOverIs
  <2> QED BY <1>2, <2>1
<1>4. Nodes \subseteq Good
  <2> HIDE DEF Good
  <2> QED BY <1>3, FromBelow
<1>5. d = [u \in Nodes |-> d[u]]
  <2>1. F(d) = [u \in Nodes |-> F(d)[u]]
    BY DEF DeltaOver
  <2> QED BY <1>2, <2>1
<1> QED BY <1>2, <1>4, <1>5 DEF DependencyOf

(* What the sources bring in together, and when it is nothing. *)
DependenciesOn(g, s, u) == [i \in DOMAIN s |-> Dependency(g, s[i], u)]
Totals(g, s) == [u \in Nodes |-> SumFunction(DependenciesOn(g, s, u))]

LEMMA TotalsFacts ==
    ASSUME NEW g \in GraphsIn, NEW s \in SourceLists
    PROVE  /\ IsFiniteSet(DOMAIN s) /\ \A i \in DOMAIN s : s[i] \in Nodes
           /\ \A u \in Nodes : \A i \in DOMAIN s : DependenciesOn(g, s, u)[i] \in Nat
           /\ Totals(g, s) \in [Nodes -> Nat]
<1>1. s \in Seq(Nodes)
  BY BrandesAssumption
<1>2. \A n \in Nat : IsFiniteSet(1 .. n)
  BY FS_Interval
<1>3. IsFiniteSet(DOMAIN s) /\ \A i \in DOMAIN s : s[i] \in Nodes
  BY <1>1, <1>2
<1>4. \A u \in Nodes : \A i \in DOMAIN s : DependenciesOn(g, s, u)[i] \in Nat
  <2> SUFFICES ASSUME NEW u \in Nodes, NEW i \in DOMAIN s
               PROVE  DependenciesOn(g, s, u)[i] \in Nat
    OBVIOUS
  <2>1. PICK x \in Nodes : x = s[i]
    BY <1>3
  <2>2. Dependency(g, x, u) \in Nat
    BY AheadFacts
  <2> QED BY <2>1, <2>2 DEF DependenciesOn
<1>5. ASSUME NEW u \in Nodes PROVE SumFunction(DependenciesOn(g, s, u)) \in Nat
  <2>1. DOMAIN DependenciesOn(g, s, u) = DOMAIN s
    BY DEF DependenciesOn
  <2>2. SumFunctionOnSet(DependenciesOn(g, s, u), DOMAIN s) \in Nat
    BY <1>3, <1>4, SumCounts
  <2> QED BY <2>1, <2>2 DEF SumFunction
<1>6. Totals(g, s) \in [Nodes -> Nat]
  BY <1>5 DEF Totals
<1> QED BY <1>3, <1>4, <1>6

LEMMA LonelySource ==
    ASSUME NEW g \in GraphsIn, NEW s \in Nodes, Near(g, s) = {}, NEW u \in Nodes
    PROVE  Dependency(g, s, u) = 0
<1> DEFINE Good == {v \in Nodes : v = s \/ Away(g, s)[v] = -1}
<1>1. ASSUME NEW v \in Nodes, Above(g, s, v) \subseteq Good PROVE v \in Good
  <2>1. Away(g, s)[v] \in Int /\ Away(g, s)[v] >= -1 /\ (Away(g, s)[v] = 0 <=> v = s)
    BY AwayFacts
  <2>2. ASSUME Away(g, s)[v] > 0 PROVE FALSE
    <3>1. PICK w \in Near(g, v) : Away(g, s)[w] = Away(g, s)[v] - 1
      BY <2>2, AwayFacts
    <3>2. w \in Above(g, s, v)
      BY <3>1 DEF Above
    <3>3. w = s
      BY <1>1, <2>1, <2>2, <3>1, <3>2
    <3>4. v \in Near(g, w)
      BY <3>1, NearFacts
    <3> QED BY <3>3, <3>4
  <2> QED BY <2>1, <2>2
<1> HIDE DEF Good
<1>2. Nodes \subseteq Good
  BY <1>1, FromAbove
<1>3. Below(g, s, u) = {}
  <2> SUFFICES ASSUME NEW v \in Below(g, s, u) PROVE FALSE
    OBVIOUS
  <2>1. Away(g, s)[u] >= 0
    BY BelowFacts
  <2>2. u = s
    BY <1>2, <2>1 DEF Good
  <2> QED BY <2>2 DEF Below
<1>4. Dependency(g, s, u) = SumFunctionOnSet(Shares(g, s, u), {})
  BY <1>3, DependencySteps
<1> QED BY <1>4, SumEmpty

LEMMA SourceWithNeighbor ==
    ASSUME NEW g \in GraphsIn, NEW s \in Nodes, NEW v \in Near(g, s)
    PROVE  Dependency(g, s, s) # 0
<1>1. v \in Nodes /\ v # s /\ s \in Near(g, v)
  BY NearFacts
<1>2. Away(g, s)[s] = 0
  BY AwayFacts
<1>3. Away(g, s)[v] = 1
  <2>1. Away(g, s)[v] \in 0 .. Away(g, s)[s] + 1
    BY <1>1, <1>2, AwayFacts
  <2>2. Away(g, s)[v] # 0
    BY <1>1, AwayFacts
  <2> QED BY <1>2, <2>1, <2>2
<1>4. v \in Below(g, s, s)
  BY <1>2, <1>3 DEF Below
<1>5. Through(g, s)[v] \in Nat \ {0}
  <2>1. Paths(g, s, v) \in Nat /\ Paths(g, s, v) # 0
    BY <1>1, <1>3, PathsFacts DEF Unreached
  <2>2. Unit(g, s, v) \in Nat /\ Ahead(g, s, v) \in Nat /\ Paths(g, s, v) * Unit(g, s, v) = Scale
    BY <1>1, <2>1, AheadFacts
  <2>3. Unit(g, s, v) # 0
    <3>1. \A n \in Nat : n * 0 = 0
      OBVIOUS
    <3> QED BY <2>1, <2>2, <3>1, BrandesAssumption
  <2> QED BY <1>1, <2>2, <2>3 DEF Through
<1>6. Ahead(g, s, s) = SumFunctionOnSet(Through(g, s), Below(g, s, s))
  BY <1>2, AheadSteps
<1>7. Ahead(g, s, s) \in Nat /\ Ahead(g, s, s) # 0
  <2>1. IsFiniteSet(Below(g, s, s)) /\ Below(g, s, s) \in SUBSET Nodes
    BY BelowFacts
  <2>2. \A w \in Below(g, s, s) : Through(g, s)[w] \in Nat
    <3> SUFFICES ASSUME NEW w \in Nodes PROVE Through(g, s)[w] \in Nat
      BY <2>1
    <3>1. Unit(g, s, w) \in Nat /\ Ahead(g, s, w) \in Nat
      BY AheadFacts
    <3> QED BY <3>1 DEF Through
  <2> QED BY <1>4, <1>5, <1>6, <2>1, <2>2, SumZero
<1>8. Paths(g, s, s) = 1
  BY PathsFacts
<1> QED BY <1>7, <1>8 DEF Dependency

LEMMA TotalsZero ==
    ASSUME NEW g \in GraphsIn, NEW s \in SourceLists
    PROVE  /\ Max(Range(Totals(g, s))) \in Nat
           /\ Max(Range(Totals(g, s))) = 0 <=> \A i \in DOMAIN s : Len(g[s[i]]) = 0
<1>1. /\ IsFiniteSet(DOMAIN s) /\ \A i \in DOMAIN s : s[i] \in Nodes
      /\ \A u \in Nodes : \A i \in DOMAIN s : DependenciesOn(g, s, u)[i] \in Nat
      /\ Totals(g, s) \in [Nodes -> Nat]
  BY TotalsFacts
<1>2. /\ Max(Range(Totals(g, s))) \in Range(Totals(g, s))
      /\ \A y \in Nodes : Totals(g, s)[y] <= Max(Range(Totals(g, s)))
  <2>1. IsFiniteSet(Nodes) /\ Nodes # {}
    BY NodesFinite
  <2> QED BY <1>1, <2>1, LargestValue
<1>3. PICK most : most = Max(Range(Totals(g, s)))
  OBVIOUS
<1>4. most \in Nat
  BY <1>1, <1>2, <1>3 DEF Range
<1>5. ASSUME NEW u \in Nodes
      PROVE  Totals(g, s)[u] = 0 <=> \A i \in DOMAIN s : Dependency(g, s[i], u) = 0
  <2>1. DOMAIN DependenciesOn(g, s, u) = DOMAIN s
        /\ \A i \in DOMAIN s : DependenciesOn(g, s, u)[i] = Dependency(g, s[i], u)
    BY DEF DependenciesOn
  <2>2. Totals(g, s)[u] = SumFunctionOnSet(DependenciesOn(g, s, u), DOMAIN s)
    BY <2>1 DEF Totals, SumFunction
  <2>3. SumFunctionOnSet(DependenciesOn(g, s, u), DOMAIN s) = 0
            <=> \A i \in DOMAIN s : DependenciesOn(g, s, u)[i] = 0
    BY <1>1, SumZero
  <2> QED BY <2>1, <2>2, <2>3
<1>6. ASSUME \A i \in DOMAIN s : Len(g[s[i]]) = 0 PROVE most = 0
  <2>1. ASSUME NEW u \in Nodes, NEW i \in DOMAIN s PROVE Dependency(g, s[i], u) = 0
    <3>1. PICK x \in Nodes : x = s[i]
      BY <1>1
    <3>2. Near(g, x) = {}
      <4>1. DOMAIN g[x] = 1 .. 0
        BY <1>6, <3>1, NearFacts
      <4> QED BY <4>1 DEF Near, Range
    <3>3. Dependency(g, x, u) = 0
      BY <3>2, LonelySource
    <3> QED BY <3>1, <3>3
  <2>2. \A u \in Nodes : Totals(g, s)[u] = 0
    BY <1>5, <2>1
  <2> QED BY <1>1, <1>2, <1>3, <2>2 DEF Range
<1>7. ASSUME NEW i \in DOMAIN s, Len(g[s[i]]) # 0 PROVE most # 0
  <2>1. PICK x \in Nodes : x = s[i]
    BY <1>1
  <2>2. PICK row, l : row = g[x] /\ l = Len(g[x])
    OBVIOUS
  <2>3. DOMAIN row = 1 .. l /\ l \in Nat /\ l # 0
    BY <1>7, <2>1, <2>2, NearFacts
  <2>4. row[1] \in Near(g, x)
    <3>1. 1 \in DOMAIN row
      BY <2>3
    <3> QED BY <2>2, <3>1 DEF Near, Range
  <2>5. Dependency(g, x, x) # 0
    BY <2>4, SourceWithNeighbor
  <2>6. Totals(g, s)[x] # 0
    BY <1>5, <2>1, <2>5
  <2>7. Totals(g, s)[x] \in Nat /\ Totals(g, s)[x] <= most
    BY <1>1, <1>2, <1>3
  <2> QED BY <1>4, <2>6, <2>7
<1> QED BY <1>3, <1>4, <1>6, <1>7
-----------------------------------------------------------------------------
(* Brandes.  As long as PBFS runs, Round levels are finished, and the       *)
(* window of the queue holds the next one.                                  *)
BDist == DistancesFrom(Nodes, neigh, Source)
OnLevel(k) == {v \in Nodes : BDist[v] = k}
Round == Len(depthIndex) - 1
Found == {v \in Nodes : depths[v] # -1}

Working(t) == pc[t] \in {"read", "cas", "test", "set", "add"}

(* What is left to do in this round, and what has been done so far. *)
Left(u, i) ==
    \/ \E j \in todo : queue[j] = u
    \/ \E t \in Threads : Working(t) /\ node[t] = u /\ edge[t] <= i

Handled(u, i) == BDist[u] \in 0 .. Round - 1 \/ (BDist[u] = Round /\ ~Left(u, i))

Adding(u, i) == \E t \in Threads : pc[t] = "add" /\ node[t] = u /\ edge[t] = i

Down(u, i) == BDist[u] # Unreached /\ BDist[neigh[u][i]] = BDist[u] + 1

BCTypes ==
    /\ neigh \in GraphsIn /\ sources \in SourceLists /\ iter \in DOMAIN sources
    /\ phase \in {"search", "back", "done"} /\ todo \subseteq Nodes
    /\ QueueTypeOK
    /\ depths \in [Nodes -> Int] /\ pathCounts \in [Nodes -> Nat]
    /\ succ \subseteq Nodes \X (1 .. N) /\ \A e \in succ : e[2] \in DOMAIN neigh[e[1]]
    /\ depthIndex \in Seq(0 .. N) /\ Round \in 0 .. N + 1
    /\ level \in 0 .. N + 1 /\ biggestScore \in Nat
    /\ deltas \in [Nodes -> Nat] /\ scores \in [Nodes -> Nat]
    /\ pc \in [Threads -> BCSteps] /\ depth \in [Threads -> Int]
    /\ node \in [Threads -> Nodes] /\ edge \in [Threads -> Nat \ {0}]

(* The threads count the rounds for themselves. *)
RoundAt(t) ==
    /\ pc[t] \in {"while", "end"} => depth[t] = Round
    /\ pc[t] \notin {"while", "end"} => depth[t] = Round + 1 /\ outStart # outEnd
    /\ pc[t] = "end" => outStart = outEnd
    /\ pc[t] \in {"while", "barrier", "end"} => lqueue[t] = <<>>

Rounds == todo \subseteq Window /\ \A t \in Threads : RoundAt(t)

(* Where the threads are in the window; no node is two threads'. *)
PlaceAt(t) ==
    /\ Working(t) => /\ BDist[node[t]] = Round /\ edge[t] \in DOMAIN neigh[node[t]]
                     /\ \A i \in todo : queue[i] # node[t]
    /\ pc[t] \in {"test", "set", "add"} => Neighbor(t) \in Found
    /\ pc[t] \in {"set", "add"} => BDist[Neighbor(t)] = Round + 1

Places ==
    /\ \A t \in Threads : PlaceAt(t)
    /\ \A t, s \in Threads : Working(t) /\ Working(s) /\ node[t] = node[s] => t = s

(* The queue and the buffers hold the levels up to Round, and what has been *)
(* found of the next one.                                                   *)
Frontier ==
    /\ QueueOnce
    /\ \A v \in Nodes : v \in Found <=> InHand(v)
    /\ \A v \in Found : depths[v] = BDist[v] /\ BDist[v] \in 0 .. Round + 1
    /\ \A v \in Nodes : BDist[v] \in 0 .. Round => v \in Found
    /\ \A i \in Window : BDist[queue[i]] = Round
    /\ \A v \in OnLevel(Round) : \E i \in Window : queue[i] = v
    /\ \A v \in Nodes : Waiting(v) <=> v \in Found /\ BDist[v] = Round + 1

(* cut takes the queue up to top apart into the levels. *)
CutInto(cut, top) ==
    /\ \A i \in 1 .. Len(cut) : cut[i] \in 0 .. top
    /\ \A i \in 1 .. Len(cut) - 1 : cut[i] <= cut[i + 1]
    /\ \A i \in 0 .. Len(cut) - 2 : QueueLevel(cut, i) = IF i = 0 THEN {} ELSE OnLevel(i - 1)

Cuts == Round \in 0 .. N /\ CutInto(Append(depthIndex, outStart), outStart)

(* succ holds the edges to the next level that were handled, or are being   *)
(* added; what a handled edge leads to has been found.                      *)
Marked ==
    \A u \in Nodes : \A i \in DOMAIN neigh[u] :
        /\ <<u, i>> \in succ <=> Down(u, i) /\ (Handled(u, i) \/ Adding(u, i))
        /\ Handled(u, i) => neigh[u][i] \in Found

(* path_counts adds up over the edges that were added. *)
Preds(v) ==
    {u \in Nodes : \E i \in DOMAIN neigh[u] :
         neigh[u][i] = v /\ <<u, i>> \in succ /\ ~Adding(u, i)}

Counted ==
    \A v \in Nodes :
        pathCounts[v] = IF v = Source THEN 1 ELSE SumFunctionOnSet(pathCounts, Preds(v))

Searching == Rounds /\ Places /\ Frontier /\ Cuts /\ Marked /\ Counted
-----------------------------------------------------------------------------
LEMMA BCGraphFacts ==
    ASSUME BCTypes
    PROVE  /\ Undirected(Nodes, neigh) /\ neigh \in [Nodes -> Seq(Nodes)]
           /\ Source \in Nodes /\ AreDistances(BDist, Nodes, neigh, Source)
           /\ \A u \in Nodes : IsInjective(neigh[u])
<1>1. Undirected(Nodes, neigh) /\ neigh \in [Nodes -> Seq(Nodes)] /\ \A u \in Nodes : IsInjective(neigh[u])
  BY SearchAssumption, BrandesAssumption DEF BCTypes, Undirected
<1>2. Source \in Nodes
  <2>1. sources \in Seq(Nodes) /\ iter \in DOMAIN sources
    BY BrandesAssumption DEF BCTypes
  <2> QED BY <2>1 DEF Source
<1> QED BY <1>1, <1>2, NodesFinite, DistancesFromCorrect DEF BDist

(* One row of the graph. *)
LEMMA RowFacts ==
    ASSUME BCTypes, NEW u \in Nodes
    PROVE  /\ neigh[u] \in Seq(Nodes) /\ Degree(u) \in 0 .. N /\ DOMAIN neigh[u] = 1 .. Degree(u)
           /\ \A i \in DOMAIN neigh[u] : neigh[u][i] \in Nodes /\ i \in 1 .. N
           /\ \A i, j \in DOMAIN neigh[u] : neigh[u][i] = neigh[u][j] => i = j
<1>1. neigh[u] \in Seq(Nodes) /\ IsInjective(neigh[u])
  BY BCGraphFacts
<1>2. /\ Degree(u) \in Nat /\ DOMAIN neigh[u] = 1 .. Degree(u)
      /\ \A i \in DOMAIN neigh[u] : neigh[u][i] \in Nodes
  BY <1>1 DEF Degree
<1>3. \A i, j \in DOMAIN neigh[u] : neigh[u][i] = neigh[u][j] => i = j
  BY <1>1 DEF IsInjective
<1>4. ~(N < Degree(u))
  <2> SUFFICES ASSUME N < Degree(u) PROVE FALSE
    OBVIOUS
  <2> DEFINE f == [i \in 1 .. Degree(u) |-> neigh[u][i]]
             S == 1 .. Degree(u)
  <2>1. f \in [S -> Nodes]
    BY <1>2
  <2>2. IsFiniteSet(S) /\ Cardinality(S) = Degree(u)
    BY <1>2, FS_Interval
  <2>3. \E i, j \in S : i # j /\ f[i] = f[j]
    <3> HIDE DEF f, S
    <3>1. Cardinality(Nodes) < Cardinality(S)
      BY <2>2, NodesFinite
    <3> QED BY <2>1, <2>2, <3>1, NodesFinite, FS_PigeonHole
  <2> QED BY <1>2, <1>3, <2>3
<1>5. N \in Nat
  BY NodesFinite
<1> QED BY <1>1, <1>2, <1>3, <1>4, <1>5

(* An edge can be gone in both directions, and goes down one level at most. *)
LEMMA EdgeFacts ==
    ASSUME BCTypes, NEW u \in Nodes, NEW i \in DOMAIN neigh[u]
    PROVE  /\ neigh[u][i] \in Nodes /\ \E j \in DOMAIN neigh[neigh[u][i]] : neigh[neigh[u][i]][j] = u
           /\ BDist[u] >= 0 => BDist[neigh[u][i]] \in 0 .. BDist[u] + 1
<1>1. Undirected(Nodes, neigh) /\ AreDistances(BDist, Nodes, neigh, Source) /\ neigh[u][i] \in Nodes
  BY BCGraphFacts, RowFacts
<1>2. PICK j \in DOMAIN neigh[neigh[u][i]] : neigh[neigh[u][i]][j] = u
  BY <1>1 DEF Undirected
<1> QED BY <1>1, <1>2 DEF AreDistances

LEMMA DistFacts ==
    ASSUME BCTypes
    PROVE  /\ \A v \in Nodes : BDist[v] \in Int /\ BDist[v] >= -1 /\ BDist[v] < N
           /\ \A v \in Nodes : BDist[v] = 0 <=> v = Source
           /\ \A v \in Nodes : BDist[v] > 0 =>
                 \E u \in Nodes : \E i \in DOMAIN neigh[u] : neigh[u][i] = v /\ BDist[u] = BDist[v] - 1
           /\ Round \in Int
<1>1. AreDistances(BDist, Nodes, neigh, Source) /\ neigh \in [Nodes -> Seq(Nodes)]
  BY BCGraphFacts
<1>2. BDist \in [Nodes -> Int] /\ \A v \in Nodes : BDist[v] >= -1
  BY <1>1 DEF AreDistances, Unreached
<1>3. \A v \in Nodes : BDist[v] > 0 => \E u \in Nodes : BDist[u] = BDist[v] - 1 /\
                                           \E j \in DOMAIN neigh[v] : neigh[v][j] = u
  BY <1>1, RowFacts DEF AreDistances
<1>4. \A v \in Nodes : BDist[v] < Cardinality(Nodes)
  BY <1>2, <1>3, NodesFinite, Descent
<1>5. \A v \in Nodes : BDist[v] > 0 =>
          \E u \in Nodes : \E i \in DOMAIN neigh[u] : neigh[u][i] = v /\ BDist[u] = BDist[v] - 1
  <2> SUFFICES ASSUME NEW v \in Nodes, BDist[v] > 0
               PROVE  \E u \in Nodes : \E i \in DOMAIN neigh[u] : neigh[u][i] = v /\ BDist[u] = BDist[v] - 1
    OBVIOUS
  <2>1. PICK j \in DOMAIN neigh[v] : neigh[v][j] \in Nodes /\ BDist[neigh[v][j]] = BDist[v] - 1
    BY <1>3
  <2> QED BY <2>1, EdgeFacts
<1>6. Round \in Int
  BY DEF BCTypes
<1> QED BY <1>1, <1>2, <1>4, <1>5, <1>6, NodesFinite DEF AreDistances
-----------------------------------------------------------------------------
(* What a step leaves alone. *)
LEMMA KeepDist ==
    ASSUME UNCHANGED <<neigh, sources, iter>>
    PROVE  BDist' = BDist /\ Source' = Source
BY DEF BDist, Source

LEMMA KeepFrontier ==
    ASSUME Frontier, UNCHANGED <<neigh, sources, iter, depths, depthIndex>>,
           UNCHANGED <<queue, sharedIn, outStart, outEnd, lqueue>>
    PROVE  Frontier'
<1>1. BDist' = BDist /\ Round' = Round /\ Found' = Found
  BY KeepDist DEF Round, Found
<1>2. QueueOnce' = QueueOnce
  BY DEF QueueOnce, Cells
<1>3. \A v : InHand(v)' = InHand(v) /\ Waiting(v)' = Waiting(v)
  BY DEF InHand, Waiting, Buffered, Cells, Added
<1>4. Window' = Window /\ OnLevel(Round)' = OnLevel(Round)
  BY <1>1 DEF Window, OnLevel
<1> QED BY <1>1, <1>2, <1>3, <1>4 DEF Frontier

LEMMA KeepCuts ==
    ASSUME Cuts, UNCHANGED <<neigh, sources, iter, queue, outStart, depthIndex>>
    PROVE  Cuts'
<1>1. Round' = Round /\ Append(depthIndex, outStart)' = Append(depthIndex, outStart)
  BY DEF Round
<1>2. \A k : OnLevel(k)' = OnLevel(k)
  BY KeepDist DEF OnLevel
<1>3. \A cut, i : QueueLevel(cut, i)' = QueueLevel(cut, i)
  BY DEF QueueLevel
<1> QED BY <1>1, <1>2, <1>3 DEF Cuts, CutInto

LEMMA KeepCutsBelow ==
    ASSUME BCTypes, Cuts, UNCHANGED <<neigh, sources, iter, outStart, depthIndex>>,
           \A j \in Cells : queue'[j] = queue[j]
    PROVE  Cuts'
<1> DEFINE cut == Append(depthIndex, outStart)
<1>1. Round' = Round /\ cut' = cut
  BY DEF Round
<1>2. \A k : OnLevel(k)' = OnLevel(k)
  BY KeepDist DEF OnLevel
<1>3. CutInto(cut, outStart) /\ Len(cut) \in Nat
  BY DEF Cuts, BCTypes
<1> HIDE DEF cut
<1>4. outStart \in Int /\ outStart <= sharedIn /\ sharedIn \in Int
  BY QueueTypes DEF BCTypes
<1>5. ASSUME NEW i \in 0 .. Len(cut) - 2 PROVE QueueLevel(cut, i)' = QueueLevel(cut, i)
  <2>1. cut[i + 1] \in 0 .. outStart /\ cut[i + 2] \in 0 .. outStart
    BY <1>3 DEF CutInto
  <2>2. \A j \in cut[i + 1] .. cut[i + 2] - 1 : queue'[j] = queue[j]
    BY <1>4, <2>1 DEF Cells
  <2> QED BY <1>1, <2>2 DEF QueueLevel
<1>6. CutInto(cut, outStart)'
  BY <1>1, <1>2, <1>3, <1>5 DEF CutInto
<1> QED BY <1>1, <1>6 DEF Cuts, cut

SameHandled == \A u \in Nodes : \A i \in DOMAIN neigh[u] : Handled(u, i)' <=> Handled(u, i)
SameAdding == \A u \in Nodes : \A i \in DOMAIN neigh[u] : Adding(u, i)' <=> Adding(u, i)

SameWork ==
    \A t \in Threads : /\ Working(t)' <=> Working(t)
                       /\ Working(t) => node'[t] = node[t] /\ edge'[t] = edge[t]

LEMMA KeepHandled ==
    ASSUME SameWork, UNCHANGED <<neigh, sources, iter, todo, depthIndex>>, \A j \in todo : queue'[j] = queue[j]
    PROVE  SameHandled
<1>1. BDist' = BDist /\ Round' = Round
  BY KeepDist DEF Round
<1>2. ASSUME NEW u \in Nodes, NEW i \in DOMAIN neigh[u] PROVE Left(u, i)' <=> Left(u, i)
  BY DEF Left, SameWork
<1> QED BY <1>1, <1>2 DEF SameHandled, Handled

LEMMA KeepMarked ==
    ASSUME Marked, UNCHANGED <<neigh, sources, iter, succ>>, SameHandled, SameAdding, Found \subseteq Found'
    PROVE  Marked'
<1>1. BDist' = BDist
  BY KeepDist
<1>2. ASSUME NEW u \in Nodes, NEW i \in DOMAIN neigh[u] PROVE Down(u, i)' <=> Down(u, i)
  BY <1>1 DEF Down
<1> QED BY <1>2 DEF Marked, SameHandled, SameAdding

LEMMA KeepPreds ==
    ASSUME UNCHANGED <<neigh, succ>>, SameAdding
    PROVE  \A v : Preds(v)' = Preds(v)
BY DEF Preds, SameAdding

LEMMA KeepCounted ==
    ASSUME Counted, UNCHANGED <<neigh, sources, iter, succ, pathCounts>>, SameAdding
    PROVE  Counted'
BY KeepPreds, KeepDist DEF Counted

(* The working threads are at these five steps. *)
LEMMA StepNames ==
    ASSUME NEW t \in Threads
    PROVE  /\ Working(t) <=> pc[t] \in {"read", "cas", "test", "set", "add"}
           /\ Working(t) => pc[t] \notin {"while", "end", "idle", "barrier"}
           /\ pc[t] \in {"while", "end", "idle", "barrier"} => ~Working(t)
BY DEF Working

(* A thread goes from one step to another. *)
LEMMA GotoFacts ==
    ASSUME BCTypes, NEW t \in Threads, NEW s \in BCSteps, Goto(t, s)
    PROVE  /\ pc' \in [Threads -> BCSteps] /\ pc'[t] = s
           /\ \A o \in Threads \ {t} : pc'[o] = pc[o] /\ (Working(o)' <=> Working(o))
           /\ Working(t)' <=> s \in {"read", "cas", "test", "set", "add"}
BY DEF Goto, BCTypes, Working

LEMMA GotoKeepsWork ==
    ASSUME BCTypes, NEW t \in Threads, NEW s \in BCSteps, Goto(t, s), UNCHANGED <<node, edge>>,
           s \in {"read", "cas", "test", "set", "add"} <=> Working(t)
    PROVE  SameWork
BY GotoFacts DEF SameWork

LEMMA GotoKeepsAdding ==
    ASSUME BCTypes, NEW t \in Threads, NEW s \in BCSteps, Goto(t, s), UNCHANGED <<node, edge>>,
           s # "add", pc[t] # "add"
    PROVE  SameAdding
<1>1. \A o \in Threads : pc'[o] = "add" <=> pc[o] = "add"
  BY GotoFacts
<1> QED BY <1>1 DEF SameAdding, Adding
-----------------------------------------------------------------------------
(* The steps of a thread in PBFS. *)
SearchStep == BCTypes' /\ Searching'

LEMMA WhileStep ==
    ASSUME BCTypes, phase = "search", Searching, NEW t \in Threads, While(t)
    PROVE  SearchStep
<1> DEFINE s == IF outStart = outEnd THEN "end" ELSE "idle"
<1>1. Goto(t, s) /\ s \in BCSteps /\ pc[t] = "while" /\ s # "while"
  BY DEF While, BCSteps
<1>2. /\ UNCHANGED <<neigh, sources, iter, phase, todo, queue, sharedIn, outStart, outEnd, lqueue>>
      /\ UNCHANGED <<depths, pathCounts, succ, depthIndex, level, deltas, scores, biggestScore, node, edge>>
  BY DEF While, BCargs, queueVars, searchVars, backVars
<1>3. /\ pc' \in [Threads -> BCSteps] /\ pc'[t] = s
      /\ \A o \in Threads \ {t} : pc'[o] = pc[o] /\ (Working(o)' <=> Working(o))
  BY <1>1, GotoFacts
<1>4. ~Working(t) /\ ~Working(t)'
  BY <1>1, <1>3 DEF Working
<1>5. SameWork
  BY <1>2, <1>3, <1>4 DEF SameWork
<1>6. SameAdding
  BY <1>1, <1>2, GotoKeepsAdding
<1>7. SameHandled
  BY <1>2, <1>5, KeepHandled
<1>8. Found' = Found /\ BDist' = BDist /\ Round' = Round /\ Window' = Window
  BY <1>2, KeepDist DEF Found, Round, Window
<1>9. depth' \in [Threads -> Int] /\ \A o \in Threads \ {t} : depth'[o] = depth[o]
  <2>1. depth \in [Threads -> Int]
    BY DEF BCTypes
  <2>2. depth' = depth \/ depth' = [depth EXCEPT ![t] = @ + 1]
    BY DEF While
  <2> QED BY <2>1, <2>2
<1>10. Rounds'
  <2>1. ASSUME NEW o \in Threads PROVE RoundAt(o)'
    <3>1. CASE o = t
      <4>1. RoundAt(t) /\ depth[t] = Round /\ lqueue[t] = <<>> /\ depth[t] \in Int
        BY <1>1 DEF Searching, Rounds, RoundAt, BCTypes
      <4>2. IF outStart = outEnd THEN depth'[t] = depth[t] ELSE depth'[t] = depth[t] + 1
        BY DEF While, BCTypes
      <4> QED BY <1>1, <1>2, <1>3, <1>8, <3>1, <4>1, <4>2 DEF RoundAt
    <3>2. CASE o # t
      BY <1>2, <1>3, <1>8, <1>9, <3>2 DEF Searching, Rounds, RoundAt
    <3> QED BY <3>1, <3>2
  <2> QED BY <1>2, <1>8, <2>1 DEF Searching, Rounds
<1>11. Places'
  <2>1. ASSUME NEW o \in Threads PROVE PlaceAt(o)'
    <3>1. CASE o = t
      BY <1>1, <1>3, <1>4, <3>1 DEF PlaceAt
    <3>2. CASE o # t
      BY <1>2, <1>3, <1>8, <3>2 DEF Searching, Places, PlaceAt, Neighbor
    <3> QED BY <3>1, <3>2
  <2> QED BY <1>2, <1>5, <2>1 DEF Searching, Places, SameWork
<1>12. Frontier' /\ Cuts' /\ Marked' /\ Counted'
  BY <1>2, <1>6, <1>7, <1>8, KeepFrontier, KeepCuts, KeepMarked, KeepCounted DEF Searching
<1>13. BCTypes'
  BY <1>2, <1>3, <1>8, <1>9 DEF BCTypes, QueueTypeOK
<1> QED BY <1>10, <1>11, <1>12, <1>13 DEF Searching, SearchStep

LEMMA TakeStep ==
    ASSUME BCTypes, phase = "search", Searching, NEW t \in Threads, NEW i \in todo, BCTake(t, i)
    PROVE  SearchStep
<1>0. PICK u \in Nodes : u = queue[i]
  <2>1. i \in Window /\ Window \subseteq Cells
    BY QueueTypes DEF Searching, Rounds, BCTypes
  <2> QED BY <2>1 DEF Searching, Frontier, QueueOnce
<1> DEFINE s == IF Degree(u) = 0 THEN "idle" ELSE "read"
<1>1. /\ pc[t] = "idle" /\ Goto(t, s) /\ s \in BCSteps /\ todo' = todo \ {i}
      /\ node' = [node EXCEPT ![t] = u] /\ edge' = [edge EXCEPT ![t] = 1]
  BY <1>0 DEF BCTake, BCSteps
<1>2. /\ UNCHANGED <<neigh, sources, iter, phase, queue, sharedIn, outStart, outEnd, lqueue>>
      /\ UNCHANGED <<depths, pathCounts, succ, depthIndex, level, deltas, scores, biggestScore, depth>>
  BY DEF BCTake, BCargs, queueVars, searchVars, backVars
<1>3. /\ pc' \in [Threads -> BCSteps] /\ pc'[t] = s
      /\ \A o \in Threads \ {t} : pc'[o] = pc[o] /\ (Working(o)' <=> Working(o))
      /\ Working(t)' <=> s = "read"
  BY <1>1, GotoFacts
<1>4. u \in Nodes /\ BDist[u] = Round /\ i \in Cells
  <2>1. i \in Window /\ Window \subseteq Cells
    BY QueueTypes DEF Searching, Rounds, BCTypes
  <2> QED BY <1>0, <2>1 DEF Searching, Frontier, QueueOnce
<1>5. /\ node' \in [Threads -> Nodes] /\ edge' \in [Threads -> Nat \ {0}] /\ node'[t] = u /\ edge'[t] = 1
      /\ \A o \in Threads \ {t} : node'[o] = node[o] /\ edge'[o] = edge[o]
  <2>1. /\ t \in Threads /\ u \in Nodes
        /\ node \in [Threads -> Nodes] /\ edge \in [Threads -> Nat \ {0}]
    BY <1>4 DEF BCTypes
  <2>2. node' = [node EXCEPT ![t] = u] /\ edge' = [edge EXCEPT ![t] = 1]
    BY <1>1
  <2> QED BY <2>1, <2>2
<1>6. Found' = Found /\ BDist' = BDist /\ Round' = Round /\ Window' = Window
  BY <1>2, KeepDist DEF Found, Round, Window
<1>7. ~Working(t) /\ pc[t] # "add"
  BY <1>1 DEF Working
<1>8. SameAdding
  <2>1. \A o \in Threads : pc'[o] = "add" <=> pc[o] = "add"
    BY <1>1, <1>3
  <2> QED BY <1>3, <1>5, <1>7, <2>1 DEF SameAdding, Adding
<1>9. Degree(u) \in Nat /\ DOMAIN neigh[u] = 1 .. Degree(u)
  BY <1>4, RowFacts
<1>10. \A j \in todo' : queue[j] # u
  <2>1. todo \subseteq Window /\ Window \subseteq Cells
    BY QueueTypes DEF Searching, Rounds, BCTypes
  <2> QED BY <1>0, <1>1, <1>4, <2>1 DEF Searching, Frontier, QueueOnce
<1>11. SameHandled
  <2>1. ASSUME NEW v \in Nodes, NEW k \in DOMAIN neigh[v], v # u PROVE Left(v, k)' <=> Left(v, k)
    <3>1. (\E j \in todo' : queue'[j] = v) <=> \E j \in todo : queue[j] = v
      BY <1>0, <1>1, <1>2, <2>1
    <3>2. ASSUME NEW o \in Threads
          PROVE  (Working(o)' /\ node'[o] = v /\ edge'[o] <= k) <=> (Working(o) /\ node[o] = v /\ edge[o] <= k)
      BY <1>3, <1>5, <1>7, <2>1
    <3> QED BY <3>1, <3>2 DEF Left
  <2>2. ASSUME NEW k \in DOMAIN neigh[u] PROVE Left(u, k) /\ Left(u, k)'
    <3>1. k \in 1 .. Degree(u)
      BY <1>9
    <3>2. s = "read" /\ 1 <= k
      BY <1>9, <3>1
    <3>3. Left(u, k)
      BY <1>0 DEF Left
    <3>4. Working(t)' /\ node'[t] = u /\ edge'[t] <= k
      BY <1>3, <1>5, <3>2
    <3> QED BY <3>3, <3>4 DEF Left
  <2> QED BY <1>6, <2>1, <2>2 DEF SameHandled, Handled
<1>12. Rounds'
  <2>1. ASSUME NEW o \in Threads PROVE RoundAt(o)'
    <3>1. CASE o = t
      BY <1>1, <1>2, <1>3, <1>6, <3>1 DEF Searching, Rounds, RoundAt
    <3>2. CASE o # t
      BY <1>1, <1>2, <1>3, <1>6, <3>2 DEF Searching, Rounds, RoundAt
    <3> QED BY <3>1, <3>2
  <2> QED BY <1>1, <1>6, <2>1 DEF Searching, Rounds
<1>13. Places'
  <2>1. ASSUME NEW o \in Threads PROVE PlaceAt(o)'
    <3>1. CASE o = t
      <4>1. pc'[t] \notin {"test", "set", "add"}
        BY <1>3
      <4>2. s = "read" => 1 \in DOMAIN neigh[u]
        BY <1>9
      <4>3. \A j \in todo' : queue'[j] # node'[t]
        BY <1>2, <1>5, <1>10
      <4> QED BY <1>2, <1>3, <1>4, <1>5, <1>6, <3>1, <4>1, <4>2, <4>3 DEF PlaceAt
    <3>2. CASE o # t
      <4>1. PlaceAt(o)
        BY DEF Searching, Places
      <4> QED BY <1>1, <1>2, <1>3, <1>5, <1>6, <3>2, <4>1 DEF PlaceAt, Neighbor
    <3> QED BY <3>1, <3>2
  <2>2. ASSUME NEW o \in Threads, NEW p \in Threads, Working(o)', Working(p)', node'[o] = node'[p] PROVE o = p
    <3>1. ASSUME NEW q \in Threads, q # t, Working(q)' PROVE node'[q] # u
      BY <1>0, <1>3, <1>5, <3>1 DEF Searching, Places, PlaceAt
    <3> QED BY <1>3, <1>5, <2>2, <3>1 DEF Searching, Places
  <2> QED BY <2>1, <2>2 DEF Places
<1>14. Frontier' /\ Cuts' /\ Marked' /\ Counted'
  BY <1>2, <1>6, <1>8, <1>11, KeepFrontier, KeepCuts, KeepMarked, KeepCounted DEF Searching
<1>15. BCTypes'
  BY <1>1, <1>2, <1>3, <1>5, <1>6 DEF BCTypes, QueueTypeOK
<1> QED BY <1>12, <1>13, <1>14, <1>15 DEF Searching, SearchStep

LEMMA ReadDepthStep ==
    ASSUME BCTypes, phase = "search", Searching, NEW t \in Threads, ReadDepth(t)
    PROVE  SearchStep
<1> DEFINE s == IF depths[Neighbor(t)] = -1 THEN "cas" ELSE "test"
<1>1. pc[t] = "read" /\ Goto(t, s) /\ s \in BCSteps
  BY DEF ReadDepth, BCSteps
<1>2. /\ UNCHANGED <<neigh, sources, iter, phase, todo, queue, sharedIn, outStart, outEnd, lqueue>>
      /\ UNCHANGED <<depths, pathCounts, succ, depthIndex, level, deltas, scores, biggestScore,
                      depth, node, edge>>
  BY DEF ReadDepth, BCargs, queueVars, searchVars, backVars
<1>3. /\ pc' \in [Threads -> BCSteps] /\ pc'[t] = s
      /\ \A o \in Threads \ {t} : pc'[o] = pc[o] /\ (Working(o)' <=> Working(o))
  BY <1>1, GotoFacts
<1>4. SameWork /\ SameAdding /\ Working(t)
  BY <1>1, <1>2, GotoKeepsWork, GotoKeepsAdding DEF Working
<1>5. SameHandled
  BY <1>2, <1>4, KeepHandled
<1>6. Found' = Found /\ BDist' = BDist /\ Round' = Round /\ Window' = Window
  BY <1>2, KeepDist DEF Found, Round, Window
<1>7. Rounds'
  BY <1>1, <1>2, <1>3, <1>6 DEF Searching, Rounds, RoundAt
<1>8. Places'
  <2>1. ASSUME NEW o \in Threads PROVE PlaceAt(o)'
    <3>1. CASE o = t
      <4>1. Neighbor(t) \in Nodes
        BY <1>4, RowFacts DEF Searching, Places, PlaceAt, Neighbor, BCTypes
      <4>2. PlaceAt(t) /\ Neighbor(t)' = Neighbor(t)
        BY <1>2 DEF Searching, Places, Neighbor
      <4>3. s = "test" => Neighbor(t) \in Found
        BY <4>1 DEF Found
      <4>4. s \notin {"set", "add"} /\ Working(t)'
        BY <1>4 DEF SameWork
      <4> QED BY <1>2, <1>3, <1>4, <1>6, <3>1, <4>2, <4>3, <4>4 DEF PlaceAt
    <3>2. CASE o # t
      <4>1. PlaceAt(o)
        BY DEF Searching, Places
      <4> QED BY <1>1, <1>2, <1>3, <1>6, <3>2, <4>1 DEF PlaceAt, Neighbor
    <3> QED BY <3>1, <3>2
  <2> QED BY <1>2, <1>4, <2>1 DEF Searching, Places, SameWork
<1>9. Frontier' /\ Cuts' /\ Marked' /\ Counted'
  BY <1>2, <1>4, <1>5, <1>6, KeepFrontier, KeepCuts, KeepMarked, KeepCounted DEF Searching
<1>10. BCTypes'
  BY <1>2, <1>3, <1>6 DEF BCTypes, QueueTypeOK
<1> QED BY <1>7, <1>8, <1>9, <1>10 DEF Searching, SearchStep

(* The node that a working thread looks at. *)
LEMMA NeighborFacts ==
    ASSUME BCTypes, Searching, NEW t \in Threads, Working(t)
    PROVE  /\ node[t] \in Nodes /\ edge[t] \in DOMAIN neigh[node[t]]
           /\ Neighbor(t) \in Nodes /\ Neighbor(t) = neigh[node[t]][edge[t]]
           /\ BDist[node[t]] = Round /\ Round \in Nat /\ BDist[Neighbor(t)] \in 0 .. Round + 1
           /\ depth[t] = Round + 1
<1>1. node[t] \in Nodes /\ edge[t] \in DOMAIN neigh[node[t]] /\ BDist[node[t]] = Round /\ Round \in Nat
  BY DEF Searching, Places, PlaceAt, BCTypes, Cuts
<1>2. depth[t] = Round + 1
  BY DEF Searching, Rounds, RoundAt, Working
<1> QED BY <1>1, <1>2, EdgeFacts DEF Neighbor

(* The compare and swap finds a node of the next level, and pushes it. *)
LEMMA SwapStep ==
    ASSUME BCTypes, phase = "search", Searching, NEW t \in Threads, BCCas(t), BCSwaps(t)
    PROVE  SearchStep
<1>0. PICK v \in Nodes : v = Neighbor(t)
  BY NeighborFacts DEF BCCas, Working
<1>1. /\ pc[t] = "cas" /\ Goto(t, "test") /\ "test" \in BCSteps
      /\ depths' = [depths EXCEPT ![v] = depth[t]] /\ PushBack(t, v) /\ depths[v] = -1
  BY <1>0 DEF BCCas, BCSteps, BCSwaps
<1>2. /\ UNCHANGED <<neigh, sources, iter, phase, todo, outStart, outEnd>>
      /\ UNCHANGED <<pathCounts, succ, depthIndex, level, deltas, scores, biggestScore, depth, node, edge>>
  BY DEF BCCas, BCargs, backVars
<1>3. /\ pc' \in [Threads -> BCSteps] /\ pc'[t] = "test"
      /\ \A o \in Threads \ {t} : pc'[o] = pc[o] /\ (Working(o)' <=> Working(o))
  BY <1>1, GotoFacts
<1>4. SameWork /\ SameAdding /\ Working(t)
  BY <1>1, <1>2, GotoKeepsWork, GotoKeepsAdding DEF Working
<1>5. BDist[v] = Round + 1 /\ depth[t] = Round + 1 /\ Round \in Nat /\ v \notin Found
  <2>1. BDist[v] \in 0 .. Round + 1 /\ depth[t] = Round + 1 /\ Round \in Nat
    BY <1>0, <1>4, NeighborFacts
  <2>2. v \notin Found
    BY <1>1 DEF Found
  <2>3. ~(BDist[v] \in 0 .. Round)
    BY <2>2 DEF Searching, Frontier
  <2> QED BY <2>1, <2>2, <2>3
<1>6. /\ QueueTypeOK' /\ QueueOnce' /\ \A i \in Cells : queue'[i] = queue[i]
      /\ \A w \in Nodes : (Waiting(w)' <=> Waiting(w) \/ w = v) /\ (InHand(w)' <=> InHand(w) \/ w = v)
  <2>1. QueueTypeOK /\ QueueOnce /\ ~InHand(v) /\ UNCHANGED <<outStart, outEnd>>
    BY <1>2, <1>5 DEF BCTypes, Searching, Frontier
  <2> QED BY <1>1, <2>1, PushBackMoves
<1>7. /\ depths' \in [Nodes -> Int] /\ depths'[v] = Round + 1
      /\ \A w \in Nodes \ {v} : depths'[w] = depths[w]
      /\ Found' = Found \cup {v}
  <2>1. depths \in [Nodes -> Int] /\ v \in Nodes /\ Round + 1 \in Nat /\ depth[t] = Round + 1
    BY <1>5 DEF BCTypes
  <2>2. depths' = [depths EXCEPT ![v] = depth[t]]
    BY <1>1
  <2>3. /\ depths' \in [Nodes -> Int] /\ depths'[v] = Round + 1
        /\ \A w \in Nodes \ {v} : depths'[w] = depths[w]
    BY <2>1, <2>2
  <2>4. depths'[v] # -1
    BY <2>1, <2>3
  <2> QED BY <2>1, <2>3, <2>4 DEF Found
<1>8. BDist' = BDist /\ Round' = Round /\ Window' = Window
  BY <1>2, KeepDist DEF Round, Window
<1>9. Window \subseteq Cells /\ todo \subseteq Cells
  BY QueueTypes DEF BCTypes, Searching, Rounds
<1>10. SameHandled
  BY <1>2, <1>4, <1>6, <1>9, KeepHandled
<1>11. Rounds'
  <2>1. \A o \in Threads \ {t} : lqueue'[o] = lqueue[o]
    BY <1>1 DEF PushBack, BCTypes, QueueTypeOK
  <2> QED BY <1>1, <1>2, <1>3, <1>8, <2>1 DEF Searching, Rounds, RoundAt
<1>12. Places'
  <2>1. ASSUME NEW o \in Threads PROVE PlaceAt(o)'
    <3>1. PlaceAt(o) /\ Neighbor(o)' = Neighbor(o) /\ Found \subseteq Found'
      BY <1>2, <1>7 DEF Searching, Places, Neighbor
    <3>2. Working(o) => \A i \in todo : queue'[i] # node[o]
      BY <1>6, <1>9, <3>1 DEF PlaceAt
    <3>3. CASE o = t
      BY <1>0, <1>1, <1>2, <1>3, <1>4, <1>7, <1>8, <3>1, <3>2, <3>3 DEF PlaceAt
    <3>4. CASE o # t
      BY <1>1, <1>2, <1>3, <1>8, <3>1, <3>2, <3>4 DEF PlaceAt
    <3> QED BY <3>3, <3>4
  <2> QED BY <1>2, <1>4, <2>1 DEF Searching, Places, SameWork
<1>13. Frontier'
  <2>1. OnLevel(Round)' = OnLevel(Round)
    BY <1>8 DEF OnLevel
  <2>2. \A i \in Window : queue'[i] = queue[i]
    BY <1>6, <1>9
  <2>3. \A w \in Found' : depths'[w] = BDist[w] /\ BDist[w] \in 0 .. Round + 1
    BY <1>5, <1>7 DEF Searching, Frontier, Found
  <2>4. \A w \in Nodes : w \in Found' <=> InHand(w)'
    BY <1>6, <1>7 DEF Searching, Frontier
  <2>5. \A w \in Nodes : Waiting(w)' <=> w \in Found' /\ BDist[w] = Round + 1
    BY <1>5, <1>6, <1>7 DEF Searching, Frontier
  <2>6. \A w \in Nodes : BDist[w] \in 0 .. Round => w \in Found'
    BY <1>7 DEF Searching, Frontier
  <2>7. /\ \A i \in Window : BDist[queue'[i]] = Round
        /\ \A w \in OnLevel(Round) : \E i \in Window : queue'[i] = w
    BY <2>2 DEF Searching, Frontier
  <2> QED BY <1>6, <1>8, <2>1, <2>3, <2>4, <2>5, <2>6, <2>7 DEF Frontier
<1>14. Cuts' /\ Marked' /\ Counted'
  BY <1>2, <1>4, <1>6, <1>7, <1>10, KeepCutsBelow, KeepMarked, KeepCounted DEF Searching
<1>15. BCTypes'
  BY <1>2, <1>3, <1>6, <1>7, <1>8 DEF BCTypes
<1> QED BY <1>11, <1>12, <1>13, <1>14, <1>15 DEF Searching, SearchStep

LEMMA LostSwapStep ==
    ASSUME BCTypes, phase = "search", Searching, NEW t \in Threads, BCCas(t), ~BCSwaps(t)
    PROVE  SearchStep
<1>1. pc[t] = "cas" /\ Goto(t, "test") /\ "test" \in BCSteps /\ depths[Neighbor(t)] # -1
  BY DEF BCCas, BCSteps, BCSwaps, AfterFailedCas
<1>2. /\ UNCHANGED <<neigh, sources, iter, phase, todo, queue, sharedIn, outStart, outEnd, lqueue>>
      /\ UNCHANGED <<depths, pathCounts, succ, depthIndex, level, deltas, scores, biggestScore,
                      depth, node, edge>>
  BY DEF BCCas, BCargs, backVars
<1>3. /\ pc' \in [Threads -> BCSteps] /\ pc'[t] = "test"
      /\ \A o \in Threads \ {t} : pc'[o] = pc[o] /\ (Working(o)' <=> Working(o))
  BY <1>1, GotoFacts
<1>4. SameWork /\ SameAdding /\ Working(t)
  BY <1>1, <1>2, GotoKeepsWork, GotoKeepsAdding DEF Working
<1>5. SameHandled
  BY <1>2, <1>4, KeepHandled
<1>6. Found' = Found /\ BDist' = BDist /\ Round' = Round /\ Window' = Window
  BY <1>2, KeepDist DEF Found, Round, Window
<1>7. Rounds'
  BY <1>1, <1>2, <1>3, <1>6 DEF Searching, Rounds, RoundAt
<1>8. Places'
  <2>1. ASSUME NEW o \in Threads PROVE PlaceAt(o)'
    <3>1. PlaceAt(o) /\ Neighbor(o)' = Neighbor(o)
      BY <1>2 DEF Searching, Places, Neighbor
    <3>2. CASE o = t
      <4>1. Neighbor(t) \in Found
        BY <1>1, <1>4, NeighborFacts DEF Found
      <4> QED BY <1>2, <1>3, <1>4, <1>6, <3>1, <3>2, <4>1 DEF PlaceAt
    <3>3. CASE o # t
      BY <1>1, <1>2, <1>3, <1>6, <3>1, <3>3 DEF PlaceAt
    <3> QED BY <3>2, <3>3
  <2> QED BY <1>2, <1>4, <2>1 DEF Searching, Places, SameWork
<1>9. Frontier' /\ Cuts' /\ Marked' /\ Counted'
  BY <1>2, <1>4, <1>5, <1>6, KeepFrontier, KeepCuts, KeepMarked, KeepCounted DEF Searching
<1>10. BCTypes'
  BY <1>2, <1>3, <1>6 DEF BCTypes, QueueTypeOK
<1> QED BY <1>7, <1>8, <1>9, <1>10 DEF Searching, SearchStep

(* An edge is done with: it counts as handled, and no longer as being added. *)
HandledToo(t) ==
    \A u \in Nodes : \A i \in DOMAIN neigh[u] :
        Handled(u, i)' <=> Handled(u, i) \/ (u = node[t] /\ i = edge[t])

AddingLess(t) ==
    \A u \in Nodes : \A i \in DOMAIN neigh[u] :
        Adding(u, i)' <=> Adding(u, i) /\ ~(u = node[t] /\ i = edge[t])

ThreadTypes ==
    /\ pc \in [Threads -> BCSteps]
    /\ node \in [Threads -> Nodes] /\ edge \in [Threads -> Nat \ {0}]

(* The node of a working thread is left to no other thread. *)
LEMMA OwnNode ==
    ASSUME BCTypes, Searching, NEW t \in Threads, Working(t)
    PROVE  /\ \A i \in todo : queue[i] # node[t]
           /\ \A o \in Threads \ {t} : Working(o) => node[o] # node[t]
           /\ \A i \in DOMAIN neigh[node[t]] : Adding(node[t], i) => i = edge[t] /\ pc[t] = "add"
           /\ \A i \in DOMAIN neigh[node[t]] : Handled(node[t], i) <=> i < edge[t]
<1>1. /\ \A i \in todo : queue[i] # node[t]
      /\ \A o \in Threads \ {t} : Working(o) => node[o] # node[t]
  BY DEF Searching, Places, PlaceAt
<1>2. \A o \in Threads : pc[o] = "add" => Working(o)
  BY DEF Working
<1>3. \A i \in DOMAIN neigh[node[t]] : Adding(node[t], i) => i = edge[t] /\ pc[t] = "add"
  BY <1>1, <1>2 DEF Adding
<1>4. ASSUME NEW i \in DOMAIN neigh[node[t]] PROVE Handled(node[t], i) <=> i < edge[t]
  <2>1. i \in Int /\ edge[t] \in Int /\ BDist[node[t]] = Round /\ Round \in Nat
    BY NeighborFacts, RowFacts
  <2>2. Left(node[t], i) <=> edge[t] <= i
    BY <1>1 DEF Left
  <2> QED BY <2>1, <2>2 DEF Handled
<1> QED BY <1>1, <1>3, <1>4

LEMMA EdgeAdvances ==
    ASSUME BCTypes, phase = "search", Searching, NEW t \in Threads, Working(t), NextEdge(t), UNCHANGED node
    PROVE  /\ ThreadTypes' /\ pc'[t] \in {"read", "idle"}
           /\ \A o \in Threads \ {t} : pc'[o] = pc[o] /\ edge'[o] = edge[o] /\ (Working(o)' <=> Working(o))
           /\ Working(t)' <=> edge[t] < Degree(node[t])
           /\ Working(t)' => edge'[t] = edge[t] + 1 /\ edge'[t] \in DOMAIN neigh[node[t]]
<1> DEFINE s == IF edge[t] < Degree(node[t]) THEN "read" ELSE "idle"
<1>1. Goto(t, s) /\ s \in BCSteps /\ s \in {"read", "idle"}
  BY DEF NextEdge, BCSteps
<1>2. /\ pc' \in [Threads -> BCSteps] /\ pc'[t] = s
      /\ \A o \in Threads \ {t} : pc'[o] = pc[o] /\ (Working(o)' <=> Working(o))
      /\ Working(t)' <=> s = "read"
  BY <1>1, GotoFacts
<1>3. edge \in [Threads -> Nat \ {0}] /\ node \in [Threads -> Nodes]
  BY DEF BCTypes
<1>4. edge' = IF s = "read" THEN [edge EXCEPT ![t] = @ + 1] ELSE edge
  BY DEF NextEdge
<1>5. /\ edge' \in [Threads -> Nat \ {0}] /\ \A o \in Threads \ {t} : edge'[o] = edge[o]
      /\ s = "read" => edge'[t] = edge[t] + 1
  <2>1. edge[t] + 1 \in Nat \ {0}
    BY <1>3
  <2> QED BY <1>3, <1>4, <2>1
<1>6. s = "read" => edge[t] + 1 \in DOMAIN neigh[node[t]]
  <2>1. Degree(node[t]) \in Nat /\ DOMAIN neigh[node[t]] = 1 .. Degree(node[t]) /\ edge[t] \in Nat
    BY <1>3, RowFacts
  <2> QED BY <2>1
<1> QED BY <1>1, <1>2, <1>3, <1>5, <1>6 DEF ThreadTypes

EdgeLeaves(t) ==
    /\ UNCHANGED <<neigh, sources, iter, phase, todo, queue, sharedIn, outStart, outEnd, lqueue>>
    /\ UNCHANGED <<depths, depthIndex, level, deltas, scores, biggestScore, depth, node>>

LEMMA NextEdgeKeeps ==
    ASSUME BCTypes, phase = "search", Searching, NEW t \in Threads, Working(t), NextEdge(t), EdgeLeaves(t)
    PROVE  /\ Rounds' /\ Places' /\ Frontier' /\ Cuts'
           /\ HandledToo(t) /\ AddingLess(t) /\ ThreadTypes'
<1>1. /\ UNCHANGED <<neigh, sources, iter, phase, todo, queue, sharedIn, outStart, outEnd, lqueue>>
      /\ UNCHANGED <<depths, depthIndex, depth, node>>
  BY DEF EdgeLeaves
<1>2. /\ ThreadTypes' /\ pc'[t] \in {"read", "idle"}
      /\ \A o \in Threads \ {t} : pc'[o] = pc[o] /\ edge'[o] = edge[o] /\ (Working(o)' <=> Working(o))
      /\ Working(t)' <=> edge[t] < Degree(node[t])
      /\ Working(t)' => edge'[t] = edge[t] + 1 /\ edge'[t] \in DOMAIN neigh[node[t]]
  BY <1>1, EdgeAdvances
<1>3. Found' = Found /\ BDist' = BDist /\ Round' = Round /\ Window' = Window
  BY <1>1, KeepDist DEF Found, Round, Window
<1>4. /\ \A i \in todo : queue[i] # node[t]
      /\ \A o \in Threads \ {t} : Working(o) => node[o] # node[t]
      /\ \A i \in DOMAIN neigh[node[t]] : Adding(node[t], i) => i = edge[t] /\ pc[t] = "add"
      /\ \A i \in DOMAIN neigh[node[t]] : Handled(node[t], i) <=> i < edge[t]
  BY OwnNode
<1>5. /\ node[t] \in Nodes /\ BDist[node[t]] = Round /\ Round \in Nat
      /\ DOMAIN neigh[node[t]] = 1 .. Degree(node[t]) /\ Degree(node[t]) \in Nat
      /\ edge[t] \in DOMAIN neigh[node[t]]
  BY NeighborFacts, RowFacts
<1>6. HandledToo(t)
  <2>1. ASSUME NEW u \in Nodes, NEW i \in DOMAIN neigh[u], u # node[t] PROVE Left(u, i)' <=> Left(u, i)
    <3>1. ASSUME NEW o \in Threads
          PROVE  (Working(o)' /\ node'[o] = u /\ edge'[o] <= i) <=> (Working(o) /\ node[o] = u /\ edge[o] <= i)
      BY <1>1, <1>2, <2>1
    <3> QED BY <1>1, <3>1 DEF Left
  <2>2. ASSUME NEW i \in DOMAIN neigh[node[t]] PROVE Handled(node[t], i)' <=> i <= edge[t]
    <3>1. Left(node[t], i)' <=> Working(t)' /\ edge'[t] <= i
      BY <1>1, <1>2, <1>4 DEF Left
    <3>2. i \in 1 .. Degree(node[t]) /\ edge[t] \in 1 .. Degree(node[t])
      BY <1>5
    <3>3. Left(node[t], i)' <=> edge[t] < i
      BY <1>2, <1>5, <3>1, <3>2
    <3>4. Handled(node[t], i)' <=> ~Left(node[t], i)'
      BY <1>1, <1>3, <1>5 DEF Handled
    <3> QED BY <1>5, <3>2, <3>3, <3>4
  <2>3. ASSUME NEW i \in DOMAIN neigh[node[t]] PROVE i \in Int /\ edge[t] \in Int
    BY <1>5
  <2> QED BY <1>1, <1>3, <1>4, <1>5, <2>1, <2>2, <2>3 DEF HandledToo, Handled
<1>7. AddingLess(t)
  <2>1. pc'[t] # "add" /\ \A o \in Threads \ {t} : pc[o] = "add" => node[o] # node[t]
    BY <1>2, <1>4 DEF Working
  <2>2. ASSUME NEW u \in Nodes, NEW i \in DOMAIN neigh[u], Adding(u, i)'
        PROVE  Adding(u, i) /\ ~(u = node[t] /\ i = edge[t])
    <3>1. PICK o \in Threads : pc'[o] = "add" /\ node'[o] = u /\ edge'[o] = i
      BY <2>2 DEF Adding
    <3>2. o # t /\ pc[o] = "add" /\ node[o] = u /\ edge[o] = i
      BY <1>1, <1>2, <2>1, <3>1
    <3> QED BY <2>1, <3>2 DEF Adding
  <2>3. ASSUME NEW u \in Nodes, NEW i \in DOMAIN neigh[u], Adding(u, i), ~(u = node[t] /\ i = edge[t])
        PROVE  Adding(u, i)'
    <3>1. PICK o \in Threads : pc[o] = "add" /\ node[o] = u /\ edge[o] = i
      BY <2>3 DEF Adding
    <3>2. o # t
      BY <2>3, <3>1
    <3> QED BY <1>1, <1>2, <3>1, <3>2 DEF Adding
  <2> QED BY <2>2, <2>3 DEF AddingLess
<1>8. Rounds'
  <2>1. pc[t] \in {"read", "cas", "test", "set", "add"}
    BY DEF Working
  <2> QED BY <1>1, <1>2, <1>3, <2>1 DEF Searching, Rounds, RoundAt
<1>9. Places'
  <2>1. ASSUME NEW o \in Threads PROVE PlaceAt(o)'
    <3>1. CASE o = t
      BY <1>1, <1>2, <1>3, <1>4, <1>5, <3>1 DEF PlaceAt
    <3>2. CASE o # t
      <4>1. PlaceAt(o)
        BY DEF Searching, Places
      <4> QED BY <1>1, <1>2, <1>3, <3>2, <4>1 DEF PlaceAt, Neighbor
    <3> QED BY <3>1, <3>2
  <2>2. ASSUME NEW o \in Threads, Working(o)' PROVE Working(o)
    BY <1>2, <2>2
  <2> QED BY <1>1, <2>1, <2>2 DEF Searching, Places
<1>10. Frontier' /\ Cuts'
  BY <1>1, KeepFrontier, KeepCuts DEF Searching
<1> QED BY <1>2, <1>6, <1>7, <1>8, <1>9, <1>10

(* The rest of the types does not change with it. *)
LEMMA EdgeTypes ==
    ASSUME BCTypes, NEW t \in Threads, EdgeLeaves(t), ThreadTypes',
           pathCounts' \in [Nodes -> Nat], succ' = succ
    PROVE  BCTypes'
<1>1. Round' = Round
  BY DEF EdgeLeaves, Round
<1> QED BY <1>1 DEF BCTypes, EdgeLeaves, ThreadTypes, QueueTypeOK

LEMMA TestStep ==
    ASSUME BCTypes, phase = "search", Searching, NEW t \in Threads, Test(t), ~OnNextLevel(t)
    PROVE  SearchStep
<1>1. Working(t) /\ pc[t] = "test" /\ NextEdge(t) /\ EdgeLeaves(t) /\ succ' = succ /\ pathCounts' = pathCounts
  BY DEF Test, Working, EdgeLeaves, BCargs, queueVars, searchVars, backVars
<1>2. Rounds' /\ Places' /\ Frontier' /\ Cuts' /\ HandledToo(t) /\ AddingLess(t) /\ ThreadTypes'
  BY <1>1, NextEdgeKeeps
<1>3. UNCHANGED <<neigh, sources, iter>> /\ BDist' = BDist /\ Found' = Found
  BY <1>1, KeepDist DEF EdgeLeaves, Found
<1>4. PICK u \in Nodes : u = node[t]
  BY <1>1, NeighborFacts
<1>5. PICK e \in DOMAIN neigh[u] : e = edge[t]
  BY <1>1, <1>4, NeighborFacts
<1>6. BDist[u] = Round /\ neigh[u][e] \in Found /\ BDist[neigh[u][e]] # Round + 1
  <2>1. BDist[u] = Round /\ Neighbor(t) = neigh[u][e] /\ depth[t] = Round + 1
    BY <1>1, <1>4, <1>5, NeighborFacts
  <2>2. Neighbor(t) \in Found
    BY <1>1 DEF Searching, Places, PlaceAt
  <2>3. depths[Neighbor(t)] = BDist[Neighbor(t)]
    BY <2>2 DEF Searching, Frontier
  <2> QED BY <2>1, <2>2, <2>3 DEF OnNextLevel
<1>7. ~Down(u, e)
  BY <1>6 DEF Down
<1>8. ~Adding(u, e)
  BY <1>1, <1>4, <1>5, OwnNode
<1>9. SameAdding
  BY <1>2, <1>4, <1>5, <1>8 DEF SameAdding, AddingLess
<1>10. Marked'
  <2>1. ASSUME NEW v \in Nodes, NEW i \in DOMAIN neigh[v]
        PROVE  /\ Down(v, i)' <=> Down(v, i)
               /\ Handled(v, i)' <=> Handled(v, i) \/ (v = u /\ i = e)
               /\ Adding(v, i)' <=> Adding(v, i)
    BY <1>2, <1>3, <1>4, <1>5, <1>9 DEF Down, HandledToo, SameAdding
  <2>2. ASSUME NEW v \in Nodes, NEW i \in DOMAIN neigh[v]
        PROVE  /\ <<v, i>> \in succ <=> Down(v, i) /\ (Handled(v, i) \/ Adding(v, i))
               /\ Handled(v, i) => neigh[v][i] \in Found
    BY DEF Searching, Marked
  <2> QED BY <1>1, <1>3, <1>6, <1>7, <2>1, <2>2 DEF Marked
<1>11. Counted'
  BY <1>1, <1>3, <1>9, KeepCounted DEF Searching
<1>12. BCTypes'
  <2>1. pathCounts' \in [Nodes -> Nat]
    BY <1>1 DEF BCTypes
  <2> QED BY <1>1, <1>2, <2>1, EdgeTypes
<1> QED BY <1>2, <1>10, <1>11, <1>12 DEF Searching, SearchStep

LEMMA TestFoundStep ==
    ASSUME BCTypes, phase = "search", Searching, NEW t \in Threads, Test(t), OnNextLevel(t)
    PROVE  SearchStep
<1>1. pc[t] = "test" /\ Goto(t, "set") /\ "set" \in BCSteps
  BY DEF Test, BCSteps
<1>2. /\ UNCHANGED <<neigh, sources, iter, phase, todo, queue, sharedIn, outStart, outEnd, lqueue>>
      /\ UNCHANGED <<depths, pathCounts, succ, depthIndex, level, deltas, scores, biggestScore,
                      depth, node, edge>>
  BY DEF Test, BCargs, queueVars, searchVars, backVars
<1>3. /\ pc' \in [Threads -> BCSteps] /\ pc'[t] = "set"
      /\ \A o \in Threads \ {t} : pc'[o] = pc[o] /\ (Working(o)' <=> Working(o))
  BY <1>1, GotoFacts
<1>4. SameWork /\ SameAdding /\ Working(t)
  BY <1>1, <1>2, GotoKeepsWork, GotoKeepsAdding DEF Working
<1>5. SameHandled
  BY <1>2, <1>4, KeepHandled
<1>6. Found' = Found /\ BDist' = BDist /\ Round' = Round /\ Window' = Window
  BY <1>2, KeepDist DEF Found, Round, Window
<1>7. Rounds'
  BY <1>1, <1>2, <1>3, <1>6 DEF Searching, Rounds, RoundAt
<1>8. Places'
  <2>1. ASSUME NEW o \in Threads PROVE PlaceAt(o)'
    <3>1. PlaceAt(o) /\ Neighbor(o)' = Neighbor(o)
      BY <1>2 DEF Searching, Places, Neighbor
    <3>2. CASE o = t
      <4>1. Neighbor(t) \in Found /\ depth[t] = Round + 1
        BY <1>1, <1>4, NeighborFacts DEF Searching, Places, PlaceAt
      <4>2. BDist[Neighbor(t)] = Round + 1
        BY <4>1 DEF Searching, Frontier, OnNextLevel
      <4> QED BY <1>2, <1>3, <1>4, <1>6, <3>1, <3>2, <4>1, <4>2 DEF PlaceAt
    <3>3. CASE o # t
      BY <1>1, <1>2, <1>3, <1>6, <3>1, <3>3 DEF PlaceAt
    <3> QED BY <3>2, <3>3
  <2> QED BY <1>2, <1>4, <2>1 DEF Searching, Places, SameWork
<1>9. Frontier' /\ Cuts' /\ Marked' /\ Counted'
  BY <1>2, <1>4, <1>5, <1>6, KeepFrontier, KeepCuts, KeepMarked, KeepCounted DEF Searching
<1>10. BCTypes'
  BY <1>2, <1>3, <1>6 DEF BCTypes, QueueTypeOK
<1> QED BY <1>7, <1>8, <1>9, <1>10 DEF Searching, SearchStep

LEMMA SetBitStep ==
    ASSUME BCTypes, phase = "search", Searching, NEW t \in Threads, BCSetBitAtomic(t)
    PROVE  SearchStep
<1>1. pc[t] = "set" /\ Goto(t, "add") /\ "add" \in BCSteps
  BY DEF BCSetBitAtomic, BCSteps
<1>2. /\ UNCHANGED <<neigh, sources, iter, phase, todo, queue, sharedIn, outStart, outEnd, lqueue>>
      /\ UNCHANGED <<depths, pathCounts, depthIndex, level, deltas, scores, biggestScore, depth, node, edge>>
  BY DEF BCSetBitAtomic, BCargs, queueVars, searchVars, backVars
<1>3. /\ pc' \in [Threads -> BCSteps] /\ pc'[t] = "add"
      /\ \A o \in Threads \ {t} : pc'[o] = pc[o] /\ (Working(o)' <=> Working(o))
  BY <1>1, GotoFacts
<1>4. SameWork /\ Working(t)
  BY <1>1, <1>2, GotoKeepsWork DEF Working
<1>5. SameHandled
  BY <1>2, <1>4, KeepHandled
<1>6. Found' = Found /\ BDist' = BDist /\ Round' = Round /\ Window' = Window
  BY <1>2, KeepDist DEF Found, Round, Window
<1>7. PICK u \in Nodes : u = node[t]
  BY <1>4, NeighborFacts
<1>8. PICK e \in DOMAIN neigh[u] : e = edge[t]
  BY <1>4, <1>7, NeighborFacts
<1>9. succ' = succ \cup {<<u, e>>} /\ <<u, e>> \in Nodes \X (1 .. N)
  BY <1>7, <1>8, RowFacts DEF BCSetBitAtomic
<1>10. Down(u, e)
  <2>1. BDist[u] = Round /\ Round \in Nat /\ Neighbor(t) = neigh[u][e]
    BY <1>4, <1>7, <1>8, NeighborFacts
  <2>2. BDist[Neighbor(t)] = Round + 1
    BY <1>1 DEF Searching, Places, PlaceAt
  <2> QED BY <2>1, <2>2 DEF Down, Unreached
<1>11. ~Adding(u, e) /\ ~Handled(u, e)
  <2>1. e \in Int
    BY <1>7, <1>8, RowFacts
  <2> QED BY <1>1, <1>4, <1>7, <1>8, <2>1, OwnNode
<1>12. \A v \in Nodes : \A i \in DOMAIN neigh[v] : Adding(v, i)' <=> Adding(v, i) \/ (v = u /\ i = e)
  BY <1>1, <1>2, <1>3, <1>7, <1>8 DEF Adding
<1>13. Marked'
  <2>1. ASSUME NEW v \in Nodes, NEW i \in DOMAIN neigh[v]
        PROVE  /\ Down(v, i)' <=> Down(v, i)
               /\ Handled(v, i)' <=> Handled(v, i)
               /\ Adding(v, i)' <=> Adding(v, i) \/ (v = u /\ i = e)
               /\ <<v, i>> \in succ' <=> <<v, i>> \in succ \/ (v = u /\ i = e)
    BY <1>2, <1>5, <1>6, <1>9, <1>12 DEF Down, SameHandled
  <2>2. ASSUME NEW v \in Nodes, NEW i \in DOMAIN neigh[v]
        PROVE  /\ <<v, i>> \in succ <=> Down(v, i) /\ (Handled(v, i) \/ Adding(v, i))
               /\ Handled(v, i) => neigh[v][i] \in Found
    BY DEF Searching, Marked
  <2> QED BY <1>2, <1>6, <1>10, <2>1, <2>2 DEF Marked
<1>14. Counted'
  <2>1. <<u, e>> \notin succ
    BY <1>11 DEF Searching, Marked
  <2>2. ASSUME NEW v PROVE Preds(v)' = Preds(v)
    <3>1. ASSUME NEW w \in Nodes, NEW i \in DOMAIN neigh[w]
          PROVE  (<<w, i>> \in succ' /\ ~Adding(w, i)') <=> (<<w, i>> \in succ /\ ~Adding(w, i))
      BY <1>9, <1>11, <1>12, <2>1
    <3> QED BY <1>2, <3>1 DEF Preds
  <2> QED BY <1>2, <2>2, KeepDist DEF Searching, Counted
<1>15. Rounds'
  BY <1>1, <1>2, <1>3, <1>6 DEF Searching, Rounds, RoundAt
<1>16. Places'
  <2>1. ASSUME NEW o \in Threads PROVE PlaceAt(o)'
    <3>1. PlaceAt(o) /\ Neighbor(o)' = Neighbor(o)
      BY <1>2 DEF Searching, Places, Neighbor
    <3>2. CASE o = t
      BY <1>1, <1>2, <1>3, <1>4, <1>6, <3>1, <3>2 DEF PlaceAt
    <3>3. CASE o # t
      BY <1>1, <1>2, <1>3, <1>6, <3>1, <3>3 DEF PlaceAt
    <3> QED BY <3>2, <3>3
  <2> QED BY <1>2, <1>4, <2>1 DEF Searching, Places, SameWork
<1>17. Frontier' /\ Cuts'
  BY <1>2, KeepFrontier, KeepCuts DEF Searching
<1>18. BCTypes'
  <2>1. succ' \subseteq Nodes \X (1 .. N) /\ \A d \in succ' : d[2] \in DOMAIN neigh[d[1]]
    BY <1>8, <1>9 DEF BCTypes
  <2> QED BY <1>2, <1>3, <1>6, <2>1 DEF BCTypes, QueueTypeOK
<1> QED BY <1>13, <1>14, <1>15, <1>16, <1>17, <1>18 DEF Searching, SearchStep

(* No edge to the next level leaves it: what is added to does not change  *)
(* what is added.                                                         *)
LEMMA PredsAbove ==
    ASSUME BCTypes, Searching, NEW v \in Nodes, NEW w \in Nodes, w \in Preds(v)
    PROVE  BDist[w] \in 0 .. Round /\ BDist[v] = BDist[w] + 1
<1>1. PICK i \in DOMAIN neigh[w] : neigh[w][i] = v /\ <<w, i>> \in succ /\ ~Adding(w, i)
  BY DEF Preds
<1>2. Down(w, i) /\ Handled(w, i)
  BY <1>1 DEF Searching, Marked
<1>3. Round \in Nat /\ BDist[w] \in Int
  BY DistFacts DEF Searching, Cuts
<1> QED BY <1>1, <1>2, <1>3 DEF Down, Handled

LEMMA AddPathsStep ==
    ASSUME BCTypes, phase = "search", Searching, NEW t \in Threads, AddPaths(t)
    PROVE  SearchStep
<1>1. Working(t) /\ pc[t] = "add" /\ NextEdge(t) /\ EdgeLeaves(t) /\ succ' = succ
  BY DEF AddPaths, Working, EdgeLeaves, BCargs, queueVars, backVars
<1>2. Rounds' /\ Places' /\ Frontier' /\ Cuts' /\ HandledToo(t) /\ AddingLess(t) /\ ThreadTypes'
  BY <1>1, NextEdgeKeeps
<1>3. UNCHANGED <<neigh, sources, iter>> /\ BDist' = BDist /\ Found' = Found /\ Source' = Source
  BY <1>1, KeepDist DEF EdgeLeaves, Found
<1>4. PICK u \in Nodes : u = node[t]
  BY <1>1, NeighborFacts
<1>5. PICK e \in DOMAIN neigh[u] : e = edge[t]
  BY <1>1, <1>4, NeighborFacts
<1>6. PICK v \in Nodes : v = Neighbor(t) /\ v = neigh[u][e]
  BY <1>1, <1>4, <1>5, NeighborFacts
<1>7. BDist[u] = Round /\ Round \in Nat /\ v \in Found /\ BDist[v] = Round + 1 /\ Down(u, e)
  <2>1. BDist[u] = Round /\ Round \in Nat
    BY <1>1, <1>4, NeighborFacts
  <2>2. v \in Found /\ BDist[v] = Round + 1
    BY <1>1, <1>6 DEF Searching, Places, PlaceAt
  <2> QED BY <1>6, <2>1, <2>2 DEF Down, Unreached
<1>8. Adding(u, e)
  BY <1>1, <1>4, <1>5 DEF Adding
<1>9. pathCounts' = [pathCounts EXCEPT ![v] = @ + pathCounts[u]] /\ pathCounts \in [Nodes -> Nat]
  BY <1>4, <1>6 DEF AddPaths, BCTypes
<1>10. Marked'
  <2>1. ASSUME NEW w \in Nodes, NEW i \in DOMAIN neigh[w]
        PROVE  /\ Down(w, i)' <=> Down(w, i)
               /\ Handled(w, i)' <=> Handled(w, i) \/ (w = u /\ i = e)
               /\ Adding(w, i)' <=> Adding(w, i) /\ ~(w = u /\ i = e)
    BY <1>2, <1>3, <1>4, <1>5 DEF Down, HandledToo, AddingLess
  <2>2. ASSUME NEW w \in Nodes, NEW i \in DOMAIN neigh[w]
        PROVE  /\ <<w, i>> \in succ <=> Down(w, i) /\ (Handled(w, i) \/ Adding(w, i))
               /\ Handled(w, i) => neigh[w][i] \in Found
    BY DEF Searching, Marked
  <2> QED BY <1>1, <1>3, <1>6, <1>7, <1>8, <2>1, <2>2 DEF Marked
<1>11. u \notin Preds(v)
  <2> SUFFICES ASSUME u \in Preds(v) PROVE FALSE
    OBVIOUS
  <2>1. PICK i \in DOMAIN neigh[u] : neigh[u][i] = v /\ ~Adding(u, i)
    BY DEF Preds
  <2>2. i = e
    BY <1>6, <2>1, RowFacts
  <2> QED BY <1>8, <2>1, <2>2
<1>12. Preds(v)' = Preds(v) \cup {u} /\ \A w \in Nodes : w # v => Preds(w)' = Preds(w)
  <2>1. \A w \in Nodes : \A i \in DOMAIN neigh[w] : Adding(w, i)' <=> Adding(w, i) /\ ~(w = u /\ i = e)
    BY <1>2, <1>4, <1>5 DEF AddingLess
  <2>2. <<u, e>> \in succ
    BY <1>7, <1>8 DEF Searching, Marked
  <2> QED BY <1>1, <1>3, <1>6, <2>1, <2>2 DEF Preds
<1>13. ASSUME NEW w \in Nodes PROVE v \notin Preds(w) /\ Preds(w) \in SUBSET Nodes /\ IsFiniteSet(Preds(w))
  <2>1. Preds(w) \in SUBSET Nodes
    BY DEF Preds
  <2> QED BY <1>7, <2>1, PredsAbove, NodesFinite, FS_Subset
<1>14. ASSUME NEW w \in Nodes
       PROVE  SumFunctionOnSet(pathCounts', Preds(w)) = SumFunctionOnSet(pathCounts, Preds(w))
  <2>1. \A x \in Preds(w) : pathCounts[x] \in Int /\ pathCounts'[x] = pathCounts[x]
    BY <1>9, <1>13
  <2> QED BY <1>13, <2>1, SumSame
<1>15. u # v /\ v # Source
  BY <1>7, DistFacts
<1>16. SumFunctionOnSet(pathCounts', Preds(v) \cup {u}) = pathCounts[u] + SumFunctionOnSet(pathCounts, Preds(v))
  <2>1. \A x \in Preds(v) \cup {u} : pathCounts'[x] \in Int
    BY <1>9, <1>13
  <2>2. SumFunctionOnSet(pathCounts', Preds(v) \cup {u})
            = pathCounts'[u] + SumFunctionOnSet(pathCounts', Preds(v))
    <3>1. IsFiniteSet(Preds(v))
      BY <1>13
    <3> QED BY <1>11, <2>1, <3>1, SumInsert
  <2>3. pathCounts'[u] = pathCounts[u]
    BY <1>9, <1>15
  <2> QED BY <1>14, <2>2, <2>3
<1>17. Counted'
  <2>1. ASSUME NEW w \in Nodes
        PROVE  pathCounts'[w] = IF w = Source THEN 1 ELSE SumFunctionOnSet(pathCounts', Preds(w)')
    <3>1. pathCounts[w] = IF w = Source THEN 1 ELSE SumFunctionOnSet(pathCounts, Preds(w))
      BY DEF Searching, Counted
    <3>2. CASE w = v
      <4>1. pathCounts'[v] = pathCounts[v] + pathCounts[u]
        BY <1>9
      <4>2. pathCounts[v] \in Int /\ pathCounts[u] \in Int
        BY <1>9
      <4>3. SumFunctionOnSet(pathCounts', Preds(w)') = pathCounts[u] + pathCounts[v]
        BY <1>12, <1>15, <1>16, <3>1, <3>2
      <4> QED BY <1>15, <3>2, <4>1, <4>2, <4>3
    <3>3. CASE w # v
      BY <1>9, <1>12, <1>14, <3>1, <3>3
    <3> QED BY <3>2, <3>3
  <2> QED BY <1>3, <2>1 DEF Counted
<1>18. BCTypes'
  <2>1. pathCounts' \in [Nodes -> Nat]
    BY <1>9
  <2> QED BY <1>1, <1>2, <2>1, EdgeTypes
<1> QED BY <1>2, <1>10, <1>17, <1>18 DEF Searching, SearchStep

LEMMA LeaveStep ==
    ASSUME BCTypes, phase = "search", Searching, NEW t \in Threads, Leave(t)
    PROVE  SearchStep
<1>1. /\ pc[t] = "idle" /\ Goto(t, "barrier") /\ "barrier" \in BCSteps
      /\ Flush(t) /\ lqueue' = [lqueue EXCEPT ![t] = <<>>]
  BY DEF Leave, BCSteps
<1>2. /\ UNCHANGED <<neigh, sources, iter, phase, todo, outStart, outEnd>>
      /\ UNCHANGED <<depths, pathCounts, succ, depthIndex, level, deltas, scores, biggestScore,
                      depth, node, edge>>
  BY DEF Leave, BCargs, searchVars, backVars
<1>3. /\ pc' \in [Threads -> BCSteps] /\ pc'[t] = "barrier"
      /\ \A o \in Threads \ {t} : pc'[o] = pc[o] /\ (Working(o)' <=> Working(o))
  BY <1>1, GotoFacts
<1>4. SameWork /\ SameAdding /\ ~Working(t)
  BY <1>1, <1>2, GotoKeepsWork, GotoKeepsAdding DEF Working
<1>5. /\ QueueTypeOK' /\ QueueOnce' /\ \A i \in Cells : queue'[i] = queue[i]
      /\ \A v \in Nodes : (Waiting(v)' <=> Waiting(v)) /\ (InHand(v)' <=> InHand(v))
  <2>1. QueueTypeOK /\ QueueOnce /\ UNCHANGED <<outStart, outEnd>>
    BY <1>2 DEF BCTypes, Searching, Frontier
  <2> QED BY <1>1, <2>1, FlushMoves
<1>6. SameHandled /\ \A k \in todo : queue'[k] = queue[k]
  <2>1. todo \subseteq Cells
    BY QueueTypes DEF BCTypes, Searching, Rounds
  <2>2. \A k \in todo : queue'[k] = queue[k]
    BY <1>5, <2>1
  <2> QED BY <1>2, <1>4, <2>2, KeepHandled
<1>7. Found' = Found /\ BDist' = BDist /\ Round' = Round /\ Window' = Window
  BY <1>2, KeepDist DEF Found, Round, Window
<1>8. Window \subseteq Cells /\ lqueue \in [Threads -> Seq(Nodes)]
  BY QueueTypes DEF BCTypes, QueueTypeOK
<1>9. Rounds'
  <2>1. lqueue'[t] = <<>> /\ \A o \in Threads \ {t} : lqueue'[o] = lqueue[o]
    BY <1>1, <1>8
  <2> QED BY <1>1, <1>2, <1>3, <1>7, <2>1 DEF Searching, Rounds, RoundAt
<1>10. Places'
  <2>1. ASSUME NEW o \in Threads PROVE PlaceAt(o)'
    <3>1. PlaceAt(o) /\ Neighbor(o)' = Neighbor(o)
      BY <1>2 DEF Searching, Places, Neighbor
    <3>2. CASE o = t
      BY <1>3, <1>4, <3>2 DEF PlaceAt, SameWork
    <3>3. CASE o # t
      <4>1. \A k \in todo : queue'[k] # node[o] <=> queue[k] # node[o]
        BY <1>6
      <4>2. Round' = Round /\ BDist' = BDist /\ Found' = Found /\ UNCHANGED <<node, edge, neigh, todo>>
        BY <1>2, <1>7
      <4>3. pc'[o] = pc[o] /\ (Working(o)' <=> Working(o))
        BY <1>3, <3>3
      <4> QED BY <3>1, <4>1, <4>2, <4>3 DEF PlaceAt
    <3> QED BY <3>2, <3>3
  <2> QED BY <1>2, <1>4, <2>1 DEF Searching, Places, SameWork
<1>11. Frontier'
  <2>1. OnLevel(Round)' = OnLevel(Round)
    BY <1>7 DEF OnLevel
  <2>2. \A i \in Window : queue'[i] = queue[i]
    BY <1>5, <1>8
  <2> QED BY <1>2, <1>5, <1>7, <2>1, <2>2 DEF Searching, Frontier
<1>12. Cuts' /\ Marked' /\ Counted'
  BY <1>2, <1>4, <1>5, <1>6, <1>7, KeepCutsBelow, KeepMarked, KeepCounted DEF Searching
<1>13. BCTypes'
  BY <1>2, <1>3, <1>5, <1>7 DEF BCTypes
<1> QED BY <1>9, <1>10, <1>11, <1>12, <1>13 DEF Searching, SearchStep

(* All threads are at the barrier: the round is complete. *)
RoundDone ==
    /\ ~ \E t \in Threads : Working(t)
    /\ todo = {} /\ \A t \in Threads : lqueue[t] = <<>>

LEMMA RoundComplete ==
    ASSUME BCTypes, Searching, RoundDone
    PROVE  /\ \A u \in Nodes : \A i \in DOMAIN neigh[u] :
                  (Handled(u, i) <=> BDist[u] \in 0 .. Round) /\ ~Adding(u, i)
           /\ \A v \in Nodes : BDist[v] \in 0 .. Round + 1 => v \in Found
           /\ \A v \in Nodes : ~Buffered(v)
<1>1. \A t \in Threads : pc[t] # "add"
  BY DEF RoundDone, Working
<1>2. \A u \in Nodes : \A i \in DOMAIN neigh[u] : ~Left(u, i) /\ ~Adding(u, i)
  BY <1>1 DEF RoundDone, Left, Adding
<1>3. Round \in Nat /\ \A v \in Nodes : BDist[v] \in Int
  BY DistFacts DEF Searching, Cuts
<1>4. \A u \in Nodes : \A i \in DOMAIN neigh[u] : Handled(u, i) <=> BDist[u] \in 0 .. Round
  BY <1>2, <1>3 DEF Handled
<1>5. ASSUME NEW v \in Nodes, BDist[v] \in 0 .. Round + 1 PROVE v \in Found
  <2>1. CASE BDist[v] \in 0 .. Round
    BY <2>1 DEF Searching, Frontier
  <2>2. CASE BDist[v] = Round + 1
    <3>1. PICK u \in Nodes : \E i \in DOMAIN neigh[u] : neigh[u][i] = v /\ BDist[u] = BDist[v] - 1
      BY <1>3, <2>2, DistFacts
    <3>2. PICK i \in DOMAIN neigh[u] : neigh[u][i] = v /\ BDist[u] = BDist[v] - 1
      BY <3>1
    <3>3. Handled(u, i)
      BY <1>3, <1>4, <2>2, <3>2
    <3> QED BY <3>2, <3>3 DEF Searching, Marked
  <2> QED BY <1>3, <1>5, <2>1, <2>2
<1>6. \A v \in Nodes : ~Buffered(v)
  BY DEF RoundDone, Buffered
<1> QED BY <1>2, <1>4, <1>5, <1>6

(* One more cut. *)
LEMMA CutFurther ==
    ASSUME NEW cut \in Seq(Int), Len(cut) >= 2, NEW top \in Int, NEW next \in Int, top <= next, 0 <= top,
           CutInto(cut, top), cut[Len(cut)] = top,
           {queue[j] : j \in top .. next - 1} = OnLevel(Len(cut) - 2)
    PROVE  CutInto(Append(cut, next), next)
<1> DEFINE new == Append(cut, next)
           n == Len(cut)
<1>1. n \in Nat /\ Len(new) = n + 1 /\ new[n + 1] = next /\ \A i \in 1 .. n : new[i] = cut[i] /\ cut[i] \in Int
  OBVIOUS
<1>2. \A i \in 1 .. n : cut[i] \in 0 .. top
  BY DEF CutInto
<1>3. \A i \in 1 .. n - 1 : cut[i] <= cut[i + 1]
  BY DEF CutInto
<1>4. \A i \in 0 .. n - 2 : QueueLevel(cut, i) = IF i = 0 THEN {} ELSE OnLevel(i - 1)
  BY DEF CutInto
<1> HIDE DEF new, n
<1>5. \A i \in 1 .. n + 1 : new[i] \in 0 .. next
  BY <1>1, <1>2
<1>6. \A i \in 1 .. n : new[i] <= new[i + 1]
  <2> SUFFICES ASSUME NEW i \in 1 .. n PROVE new[i] <= new[i + 1]
    OBVIOUS
  <2>1. CASE i = n
    BY <1>1, <1>2, <2>1
  <2>2. CASE i # n
    <3>1. i \in 1 .. n - 1 /\ i + 1 \in 1 .. n
      BY <1>1, <2>2
    <3> QED BY <1>1, <1>3, <3>1
  <2> QED BY <2>1, <2>2
<1>7. ASSUME NEW i \in 0 .. n - 1 PROVE QueueLevel(new, i) = IF i = 0 THEN {} ELSE OnLevel(i - 1)
  <2>1. CASE i \in 0 .. n - 2
    <3>1. new[i + 1] = cut[i + 1] /\ new[i + 2] = cut[i + 2]
      BY <1>1, <2>1
    <3>2. QueueLevel(new, i) = QueueLevel(cut, i)
      BY <3>1 DEF QueueLevel
    <3> QED BY <1>4, <2>1, <3>2
  <2>2. CASE i = n - 1
    <3>1. new[i + 1] = top /\ new[i + 2] = next
      <4>1. i + 1 = n /\ i + 2 = n + 1 /\ n \in 1 .. n
        BY <1>1, <2>2 DEF n
      <4> QED BY <1>1, <4>1 DEF n
    <3>2. QueueLevel(new, i) = {queue[j] : j \in top .. next - 1}
      BY <3>1 DEF QueueLevel
    <3>3. i # 0 /\ i - 1 = Len(cut) - 2
      BY <1>1, <2>2 DEF n
    <3> QED BY <3>2, <3>3
  <2> QED BY <1>1, <2>1, <2>2
<1>8. CutInto(new, next)
  BY <1>1, <1>5, <1>6, <1>7 DEF CutInto
<1> QED BY <1>8 DEF new

LEMMA SingleStep ==
    ASSUME BCTypes, phase = "search", Searching, todo = {}, Single
    PROVE  SearchStep
<1>1. /\ \A t \in Threads : pc[t] = "barrier"
      /\ depthIndex' = Append(depthIndex, outStart) /\ outStart' = outEnd /\ outEnd' = sharedIn
      /\ todo' = outEnd .. sharedIn - 1 /\ node' = Fresh(0) /\ edge' = Fresh(1)
      /\ pc' = [t \in Threads |-> IF pc[t] = "barrier" THEN "while" ELSE pc[t]]
  BY DEF Single, AllArrived, SlideWindow
<1>2. UNCHANGED <<neigh, sources, iter, phase, queue, sharedIn, lqueue, depths, pathCounts, succ,
                  level, deltas, scores, biggestScore, depth>>
  BY DEF Single, BCargs, searchVars, backVars
<1>3. PICK anyone \in Threads : TRUE
  BY BrandesAssumption
<1>4. todo = {} /\ outStart # outEnd /\ \A t \in Threads : lqueue[t] = <<>> /\ depth[t] = Round + 1
  BY <1>1, <1>3 DEF Searching, Rounds, RoundAt
<1>5. \A t \in Threads : ~Working(t)
  BY <1>1 DEF Working
<1>6. RoundDone
  BY <1>4, <1>5 DEF RoundDone
<1>7. /\ \A u \in Nodes : \A i \in DOMAIN neigh[u] :
             (Handled(u, i) <=> BDist[u] \in 0 .. Round) /\ ~Adding(u, i)
      /\ \A v \in Nodes : BDist[v] \in 0 .. Round + 1 => v \in Found
      /\ \A v \in Nodes : ~Buffered(v)
  BY <1>6, RoundComplete
<1>8. /\ sharedIn \in 0 .. N /\ outStart \in 0 .. N /\ outEnd \in 0 .. N
      /\ outStart <= outEnd /\ outEnd <= sharedIn
      /\ Cells \subseteq Nodes /\ Added \subseteq Cells /\ Window \subseteq Cells
      /\ N \in Nat
  BY QueueTypes, NodesFinite DEF BCTypes
<1>9. Round \in 0 .. N - 1
  <2>1. outStart \in Window
    BY <1>4, <1>8 DEF Window
  <2>2. queue[outStart] \in Nodes /\ BDist[queue[outStart]] = Round
    BY <1>8, <2>1 DEF Searching, Frontier, QueueOnce
  <2>3. Round \in Nat /\ Round < N
    BY <2>2, DistFacts DEF Searching, Cuts
  <2> QED BY <1>8, <2>3
<1>10. depthIndex \in Seq(0 .. N) /\ Len(depthIndex) = Round + 1 /\ Len(depthIndex) \in Nat
  BY DEF BCTypes, Round
<1>11. Round' = Round + 1 /\ depthIndex' \in Seq(0 .. N)
  <2>1. Len(depthIndex') = Len(depthIndex) + 1 /\ depthIndex' \in Seq(0 .. N)
    BY <1>1, <1>8, <1>10
  <2> QED BY <1>10, <2>1 DEF Round
<1>12. Found' = Found /\ BDist' = BDist /\ Window' = Added
  BY <1>1, <1>2, KeepDist DEF Found, Window, Added
<1>13. \A t \in Threads : pc'[t] = "while" /\ ~Working(t)'
  <2>1. \A t \in Threads : pc'[t] = "while"
    BY <1>1
  <2> QED BY <2>1 DEF Working
<1>14. \A u \in Nodes : \A i \in DOMAIN neigh[u] : ~Adding(u, i)'
  <2>1. \A t \in Threads : pc'[t] # "add"
    BY <1>13
  <2> QED BY <2>1 DEF Adding
<1>15. \A v \in Nodes : (\E i \in Added : queue[i] = v) <=> v \in Found /\ BDist[v] = Round + 1
  BY <1>7 DEF Searching, Frontier, Waiting
<1>16. SameHandled
  <2>1. \A v \in Nodes : BDist[v] \in Int
    BY DistFacts
  <2>2. ASSUME NEW u \in Nodes, NEW i \in DOMAIN neigh[u] PROVE Handled(u, i)' <=> BDist[u] \in 0 .. Round
    <3>1. Handled(u, i)' <=> BDist[u] \in 0 .. Round' - 1 \/ (BDist[u] = Round' /\ ~Left(u, i)')
      BY <1>12 DEF Handled
    <3>2. BDist[u] = Round + 1 => Left(u, i)'
      <4> SUFFICES ASSUME BDist[u] = Round + 1 PROVE Left(u, i)'
        OBVIOUS
      <4>1. BDist[u] \in 0 .. Round + 1
        BY <1>9, <2>1
      <4>2. u \in Found
        BY <1>7, <4>1
      <4>3. PICK j \in Added : queue[j] = u
        BY <1>15, <4>2
      <4>4. j \in todo'
        BY <1>1, <4>3 DEF Added
      <4> QED BY <1>2, <4>3, <4>4 DEF Left
    <3>3. BDist[u] = Round' => Left(u, i)'
      BY <1>11, <3>2
    <3>4. Handled(u, i)' <=> BDist[u] \in 0 .. Round' - 1
      BY <3>1, <3>3
    <3>5. Round' - 1 = Round
      BY <1>9, <1>11
    <3> QED BY <3>4, <3>5
  <2> QED BY <1>7, <2>2 DEF SameHandled
<1>17. SameAdding
  BY <1>7, <1>14 DEF SameAdding
<1>18. Rounds'
  <2>1. todo' \subseteq Window'
    BY <1>1, <1>12 DEF Added
  <2>2. ASSUME NEW t \in Threads PROVE RoundAt(t)'
    BY <1>2, <1>4, <1>11, <1>13 DEF RoundAt
  <2> QED BY <2>1, <2>2 DEF Rounds
<1>19. Places'
  <2>1. ASSUME NEW t \in Threads PROVE PlaceAt(t)'
    BY <1>13 DEF PlaceAt
  <2> QED BY <1>13, <2>1 DEF Places
<1>20. Frontier'
  <2>1. QueueOnce' /\ Cells' = Cells
    BY <1>2 DEF Searching, Frontier, QueueOnce, Cells
  <2>2. \A v : (InHand(v)' <=> InHand(v)) /\ (Buffered(v)' <=> Buffered(v))
    BY <1>2, <2>1 DEF InHand, Buffered
  <2>3. Round \in Nat /\ \A v \in Nodes : BDist[v] \in Int
    BY <1>9, DistFacts
  <2>4. \A v \in Nodes : v \in Found' <=> InHand(v)'
    BY <1>12, <2>2 DEF Searching, Frontier
  <2>5. \A v \in Found' : depths'[v] = BDist'[v] /\ BDist'[v] \in 0 .. Round' + 1
    <3>1. \A v \in Found : depths[v] = BDist[v] /\ BDist[v] \in 0 .. Round + 1
      BY DEF Searching, Frontier
    <3>2. \A d \in 0 .. Round + 1 : d \in 0 .. Round + 1 + 1
      BY <2>3
    <3> QED BY <1>2, <1>11, <1>12, <3>1, <3>2
  <2>6. \A v \in Nodes : BDist'[v] \in 0 .. Round' => v \in Found'
    BY <1>7, <1>11, <1>12
  <2>7. \A i \in Window' : BDist'[queue'[i]] = Round'
    <3>1. \A i \in Added : queue[i] \in Nodes
      BY <1>8 DEF Searching, Frontier, QueueOnce
    <3> QED BY <1>2, <1>11, <1>12, <1>15, <3>1
  <2>8. \A v \in OnLevel(Round)' : \E i \in Window' : queue'[i] = v
    <3>1. ASSUME NEW v \in Nodes, BDist[v] = Round + 1 PROVE \E i \in Added : queue[i] = v
      <4>1. BDist[v] \in 0 .. Round + 1
        BY <2>3, <3>1
      <4> QED BY <1>7, <1>15, <3>1, <4>1
    <3>2. OnLevel(Round)' = {v \in Nodes : BDist[v] = Round + 1}
      BY <1>11, <1>12 DEF OnLevel
    <3> QED BY <1>2, <1>12, <3>1, <3>2
  <2>9. \A v \in Nodes : Waiting(v)' <=> v \in Found' /\ BDist'[v] = Round' + 1
    <3>1. Added' = {}
      BY <1>1, <1>2, <1>8 DEF Added
    <3>2. \A v \in Nodes : ~Waiting(v)'
      BY <1>7, <2>2, <3>1 DEF Waiting
    <3>3. \A v \in Found : BDist[v] \in 0 .. Round + 1
      BY DEF Searching, Frontier
    <3> QED BY <1>11, <1>12, <2>3, <3>2, <3>3
  <2> QED BY <2>1, <2>4, <2>5, <2>6, <2>7, <2>8, <2>9 DEF Frontier
<1>21. Cuts'
  <2> DEFINE cut == Append(depthIndex, outStart)
  <2>1. CutInto(cut, outStart)
    BY DEF Searching, Cuts
  <2>2. cut \in Seq(Int) /\ Len(cut) = Round + 2 /\ cut[Len(cut)] = outStart
    BY <1>8, <1>9, <1>10
  <2>3. {queue[j] : j \in outStart .. outEnd - 1} = OnLevel(Round)
    <3>1. \A i \in Window : queue[i] \in Nodes /\ BDist[queue[i]] = Round
      BY <1>8 DEF Searching, Frontier, QueueOnce
    <3>2. \A v \in OnLevel(Round) : \E i \in Window : queue[i] = v
      BY DEF Searching, Frontier
    <3> QED BY <3>1, <3>2 DEF Window, OnLevel
  <2>4. depthIndex' = cut
    BY <1>1
  <2> HIDE DEF cut
  <2>5. CutInto(Append(cut, outEnd), outEnd)
    <3>1. Len(cut) >= 2 /\ Len(cut) - 2 = Round /\ outStart \in Int /\ outEnd \in Int /\ 0 <= outStart
      BY <1>8, <1>9, <2>2
    <3> QED BY <1>8, <2>1, <2>2, <2>3, <3>1, CutFurther
  <2>6. \A c, i : QueueLevel(c, i)' = QueueLevel(c, i)
    BY <1>2 DEF QueueLevel
  <2>7. \A k : OnLevel(k)' = OnLevel(k)
    BY <1>12 DEF OnLevel
  <2>8. Append(depthIndex, outStart)' = Append(cut, outEnd)
    BY <1>1, <2>4
  <2>9. \A c, top : CutInto(c, top)' <=> CutInto(c, top)
    BY <2>6, <2>7 DEF CutInto
  <2>10. CutInto(Append(depthIndex, outStart), outStart)'
    BY <1>1, <2>5, <2>8, <2>9
  <2>11. Round' \in 0 .. N
    BY <1>8, <1>9, <1>11
  <2> QED BY <2>10, <2>11 DEF Cuts
<1>22. Marked' /\ Counted'
  BY <1>2, <1>12, <1>16, <1>17, KeepMarked, KeepCounted DEF Searching
<1>23. BCTypes'
  <2>1. pc' \in [Threads -> BCSteps] /\ node' \in [Threads -> Nodes] /\ edge' \in [Threads -> Nat \ {0}]
    BY <1>1, <1>13, NodesFinite DEF BCSteps, Fresh
  <2>2. todo' \subseteq Nodes /\ QueueTypeOK'
    <3>1. todo' = Added
      BY <1>1 DEF Added
    <3> QED BY <1>1, <1>2, <1>8, <3>1 DEF QueueTypeOK, BCTypes
  <2>3. Round' \in 0 .. N + 1
    BY <1>8, <1>9, <1>11
  <2> QED BY <1>2, <1>11, <2>1, <2>2, <2>3 DEF BCTypes
<1> QED BY <1>18, <1>19, <1>20, <1>21, <1>22, <1>23 DEF Searching, SearchStep

(* Between the loops the threads of the team are all alike. *)
Resting == \A t \in Threads : pc[t] = "while" /\ depth[t] = 0 /\ lqueue[t] = <<>>

(* Where PBFS begins. *)
FreshStart ==
    /\ depths = OnlySource(Source, 0, -1) /\ pathCounts = OnlySource(Source, 1, 0) /\ succ = {}
    /\ queue = Queued(Source) /\ sharedIn = 1 /\ outStart = 0 /\ outEnd = 1
    /\ depthIndex = <<0>> /\ todo = 0 .. 0 /\ Resting

LEMMA StartSearching == BCTypes /\ FreshStart => Searching
<1> SUFFICES ASSUME BCTypes, FreshStart PROVE Searching
  OBVIOUS
<1>1. /\ Source \in Nodes /\ N \in Nat \ {0} /\ Round = 0 /\ \A v \in Nodes : BDist[v] \in Int
      /\ \A v \in Nodes : BDist[v] = 0 <=> v = Source
  <2>1. Len(depthIndex) = 1
    BY DEF FreshStart
  <2> QED BY <2>1, BCGraphFacts, DistFacts, NodesFinite DEF Round
<1>2. Cells = {0} /\ Window = {0} /\ Added = {} /\ todo = {0}
  BY DEF FreshStart, Cells, Window, Added
<1>3. queue[0] = Source
  BY <1>1 DEF FreshStart, Queued, Nodes
<1>4. Found = {Source} /\ depths[Source] = 0
  BY <1>1 DEF FreshStart, OnlySource, Found
<1>5. \A t \in Threads : lqueue[t] = <<>> /\ DOMAIN lqueue[t] = {} /\ pc[t] = "while" /\ depth[t] = 0
  BY DEF FreshStart, Resting
<1>6. \A t \in Threads : ~Working(t) /\ pc[t] # "add"
  BY <1>5 DEF Working
<1>7. \A v : ~Buffered(v)
  BY <1>5 DEF Buffered
<1>8. Rounds
  BY <1>1, <1>2, <1>5 DEF Rounds, RoundAt
<1>9. Places
  BY <1>5, <1>6 DEF Places, PlaceAt
<1>10. QueueOnce
  BY <1>1, <1>2, <1>3, <1>5 DEF QueueOnce
<1>11. \A v : InHand(v) <=> v = Source
  BY <1>2, <1>3, <1>7 DEF InHand
<1>12. \A v : ~Waiting(v)
  BY <1>2, <1>7 DEF Waiting
<1>13. Frontier
  <2>1. \A v \in Found : depths[v] = BDist[v] /\ BDist[v] \in 0 .. Round + 1
    BY <1>1, <1>4
  <2>2. \A v \in Nodes : BDist[v] \in 0 .. Round => v \in Found
    BY <1>1, <1>4
  <2>3. (\A i \in Window : BDist[queue[i]] = Round) /\ \A v \in OnLevel(Round) : \E i \in Window : queue[i] = v
    BY <1>1, <1>2, <1>3 DEF OnLevel
  <2>4. \A v \in Nodes : Waiting(v) <=> v \in Found /\ BDist[v] = Round + 1
    BY <1>1, <1>4, <1>12
  <2> QED BY <1>4, <1>10, <1>11, <2>1, <2>2, <2>3, <2>4 DEF Frontier
<1>14. Cuts
  <2> DEFINE cut == Append(depthIndex, outStart)
  <2>1. Len(cut) = 2 /\ cut[1] = 0 /\ cut[2] = 0
    <3>1. depthIndex \in Seq(Nat) /\ Len(depthIndex) = 1 /\ depthIndex[1] = 0 /\ outStart = 0
      BY DEF FreshStart
    <3>2. \A s \in Seq(Nat) : \A x \in Nat :
              /\ Len(Append(s, x)) = Len(s) + 1 /\ Append(s, x)[Len(s) + 1] = x
              /\ \A i \in 1 .. Len(s) : Append(s, x)[i] = s[i]
      OBVIOUS
    <3>3. 1 \in 1 .. Len(depthIndex) /\ Len(depthIndex) + 1 = 2 /\ outStart \in Nat
      BY <3>1
    <3>4. Len(cut) = Len(depthIndex) + 1 /\ cut[Len(depthIndex) + 1] = outStart /\ cut[1] = depthIndex[1]
      BY <3>1, <3>2, <3>3
    <3> QED BY <3>1, <3>3, <3>4
  <2> HIDE DEF cut
  <2>2. QueueLevel(cut, 0) = {}
    BY <2>1 DEF QueueLevel
  <2>3. CutInto(cut, 0)
    BY <2>1, <2>2 DEF CutInto
  <2> QED BY <1>1, <2>3 DEF Cuts, cut, FreshStart
<1>15. \A u \in Nodes : \A i : ~Handled(u, i) /\ ~Adding(u, i)
  <2>1. \A i : Left(Source, i)
    BY <1>2, <1>3 DEF Left
  <2> QED BY <1>1, <1>6, <2>1 DEF Handled, Adding
<1>16. Marked
  BY <1>15 DEF Marked, FreshStart
<1>17. Counted
  <2>1. \A v : Preds(v) = {}
    BY DEF Preds, FreshStart
  <2> QED BY <1>1, <2>1, SumEmpty DEF Counted, FreshStart, OnlySource
<1> QED BY <1>8, <1>9, <1>13, <1>14, <1>16, <1>17 DEF Searching

(* The first window that is empty: no node is farther away. *)
LEMMA NothingDeeper ==
    ASSUME BCTypes, Searching, outStart = outEnd
    PROVE  \A v \in Nodes : BDist[v] < Round
<1> DEFINE S == {k \in Nat : k >= Round /\ \E v \in Nodes : BDist[v] = k}
<1>1. Round \in Nat /\ \A v \in Nodes : BDist[v] \in Int
  BY DistFacts DEF Searching, Cuts
<1>2. ASSUME S # {} PROVE FALSE
  <2>1. PICK x \in S : \A y \in S : x <= y
    <3>1. S \in SUBSET Nat
      OBVIOUS
    <3> HIDE DEF S
    <3> QED BY <1>2, <3>1, LeastNatural
  <2>2. PICK v \in Nodes : BDist[v] = x
    BY <2>1
  <2>3. x # Round
    <3>1. Window = {}
      <4>1. outStart \in Int /\ outEnd \in Int
        BY QueueTypes DEF BCTypes
      <4> QED BY <4>1 DEF Window
    <3>2. OnLevel(Round) = {}
      BY <3>1 DEF Searching, Frontier
    <3> QED BY <2>2, <3>2 DEF OnLevel
  <2>4. x > Round /\ x \in Nat
    BY <1>1, <2>1, <2>3
  <2>5. PICK u \in Nodes : BDist[u] = x - 1
    BY <1>1, <2>2, <2>4, DistFacts
  <2>6. x - 1 \in S
    BY <1>1, <2>4, <2>5
  <2> QED BY <2>1, <2>4, <2>6
<1>3. ASSUME NEW v \in Nodes, ~(BDist[v] < Round) PROVE BDist[v] \in S
  BY <1>1, <1>3
<1> QED BY <1>2, <1>3
-----------------------------------------------------------------------------
(* What PBFS leaves to the backward passes. *)
Before(v) == {u \in Nodes : \E i \in DOMAIN neigh[u] : neigh[u][i] = v /\ Down(u, i)}
DownEdges == {e \in Nodes \X (1 .. N) : e[2] \in DOMAIN neigh[e[1]] /\ Down(e[1], e[2])}

AllCounted ==
    \A v \in Nodes :
        pathCounts[v] = IF v = Source THEN 1 ELSE SumFunctionOnSet(pathCounts, Before(v))

Searched ==
    /\ depths = BDist /\ succ = DownEdges /\ AllCounted
    /\ sharedIn = Cardinality({v \in Nodes : BDist[v] # Unreached})
    /\ CutInto(depthIndex, outStart) /\ level \in 0 .. Len(depthIndex) - 2
    /\ Resting

LEMMA SearchEndsStep ==
    ASSUME BCTypes, phase = "search", Searching, SearchEnds
    PROVE  BCTypes' /\ Searched'
<1>1. /\ \A t \in Threads : pc[t] = "end"
      /\ depthIndex' = Append(depthIndex, outStart) /\ level' = Len(depthIndex) - 1
      /\ phase' = "back" /\ todo' = QueueLevel(depthIndex', level')
      /\ deltas' = [n \in Nodes |-> 0] /\ pc' = Fresh("while") /\ depth' = Fresh(0)
  BY DEF SearchEnds
<1>2. UNCHANGED <<neigh, sources, iter, queue, sharedIn, outStart, outEnd, lqueue, depths, pathCounts, succ,
                  scores, biggestScore, node, edge>>
  BY DEF SearchEnds, BCargs, queueVars, searchVars
<1>3. PICK anyone \in Threads : TRUE
  BY BrandesAssumption
<1>4. outStart = outEnd /\ \A t \in Threads : lqueue[t] = <<>> /\ ~Working(t)
  BY <1>1, <1>3 DEF Searching, Rounds, RoundAt, Working
<1>5. todo = {} /\ Window = {}
  <2>1. outStart \in Int /\ outEnd \in Int
    BY QueueTypes DEF BCTypes
  <2> QED BY <1>4, <2>1 DEF Searching, Rounds, Window
<1>6. RoundDone
  BY <1>4, <1>5 DEF RoundDone
<1>7. /\ \A u \in Nodes : \A i \in DOMAIN neigh[u] :
             (Handled(u, i) <=> BDist[u] \in 0 .. Round) /\ ~Adding(u, i)
      /\ \A v \in Nodes : BDist[v] \in 0 .. Round + 1 => v \in Found
      /\ \A v \in Nodes : ~Buffered(v)
  BY <1>6, RoundComplete
<1>8. Round \in 0 .. N /\ N \in Nat /\ \A v \in Nodes : BDist[v] \in -1 .. Round - 1
  BY <1>4, NothingDeeper, DistFacts, NodesFinite DEF Searching, Cuts
<1>9. \A v \in Nodes : v \in Found <=> BDist[v] # Unreached
  BY <1>7, <1>8 DEF Searching, Frontier, Unreached
<1>10. depths = BDist
  <2>1. depths \in [Nodes -> Int] /\ BDist \in [Nodes -> Int]
    <3>1. AreDistances(BDist, Nodes, neigh, Source)
      BY BCGraphFacts
    <3> QED BY <3>1 DEF BCTypes, AreDistances, Unreached
  <2>2. \A v \in Nodes : depths[v] = BDist[v]
    <3>1. \A v \in Found : depths[v] = BDist[v]
      BY DEF Searching, Frontier
    <3> QED BY <1>9, <3>1 DEF Found, Unreached
  <2> QED BY <2>1, <2>2
<1>11. \A u \in Nodes : \A i \in DOMAIN neigh[u] : <<u, i>> \in succ <=> Down(u, i)
  <2>1. \A u \in Nodes : \A i \in DOMAIN neigh[u] : Down(u, i) => Handled(u, i)
    BY <1>7, <1>8 DEF Down, Unreached
  <2> QED BY <2>1 DEF Searching, Marked
<1>12. succ = DownEdges
  <2>1. succ \subseteq Nodes \X (1 .. N) /\ \A e \in succ : e[2] \in DOMAIN neigh[e[1]]
    BY DEF BCTypes
  <2>2. ASSUME NEW e \in Nodes \X (1 .. N), e[2] \in DOMAIN neigh[e[1]] PROVE e \in succ <=> Down(e[1], e[2])
    <3>1. e = <<e[1], e[2]>> /\ e[1] \in Nodes
      OBVIOUS
    <3> QED BY <1>11, <2>2, <3>1
  <2> QED BY <2>1, <2>2 DEF DownEdges
<1>13. AllCounted
  <2>1. \A v \in Nodes : Preds(v) = Before(v)
    BY <1>7, <1>11 DEF Preds, Before
  <2> QED BY <2>1 DEF Searching, Counted, AllCounted
<1>14. sharedIn = Cardinality({v \in Nodes : BDist[v] # Unreached})
  <2> DEFINE f == [i \in Cells |-> queue[i]]
             T == {v \in Nodes : BDist[v] # Unreached}
  <2>1. \A v \in Nodes : v \in T <=> \E i \in Cells : queue[i] = v
    BY <1>7, <1>9 DEF Searching, Frontier, InHand
  <2>2. f \in Bijection(Cells, T)
    <3>1. \A i \in Cells : queue[i] \in T
      BY <2>1 DEF Searching, Frontier, QueueOnce
    <3>2. \A v \in T : \E i \in Cells : f[i] = v
      BY <2>1
    <3>3. \A i, j \in Cells : f[i] = f[j] => i = j
      BY DEF Searching, Frontier, QueueOnce
    <3> HIDE DEF T
    <3>4. f \in [Cells -> T]
      BY <3>1
    <3> QED BY <3>2, <3>3, <3>4 DEF Bijection, Injection, Surjection, IsInjective
  <2>3. IsFiniteSet(Cells) /\ Cardinality(Cells) = sharedIn
    <3>1. sharedIn \in Nat
      BY QueueTypes, NodesFinite DEF BCTypes
    <3> QED BY <3>1, FS_Interval DEF Cells
  <2> HIDE DEF f, T
  <2>4. ExistsBijection(Cells, T)
    BY <2>2 DEF ExistsBijection
  <2>5. Cardinality(T) = Cardinality(Cells)
    BY <2>3, <2>4, FS_Bijection
  <2> QED BY <2>3, <2>5 DEF T
<1>15. CutInto(depthIndex', outStart) /\ Len(depthIndex') = Round + 2 /\ level' = Round
  <2>1. CutInto(depthIndex', outStart)
    BY <1>1 DEF Searching, Cuts
  <2>2. depthIndex \in Seq(0 .. N) /\ outStart \in 0 .. N
    BY QueueTypes DEF BCTypes
  <2> QED BY <1>1, <2>1, <2>2 DEF Round
<1>16. BDist' = BDist /\ \A k : OnLevel(k)' = OnLevel(k)
  BY <1>2, KeepDist DEF OnLevel
<1>17. QueueLevel(depthIndex', level') \subseteq Nodes
  <2>1. level' \in 0 .. Len(depthIndex') - 2
    BY <1>8, <1>15
  <2> QED BY <1>15, <2>1 DEF CutInto, OnLevel
<1>18. Searched'
  <2>1. DownEdges' = DownEdges /\ \A v : Before(v)' = Before(v)
    BY <1>2, <1>16 DEF DownEdges, Before, Down
  <2>2. AllCounted'
    BY <1>2, <1>13, <2>1, KeepDist DEF AllCounted
  <2>3. CutInto(depthIndex, outStart)'
    <3>1. \A cut, i : QueueLevel(cut, i)' = QueueLevel(cut, i)
      BY <1>2 DEF QueueLevel
    <3>2. \A cut, top : CutInto(cut, top)' <=> CutInto(cut, top)
      BY <1>16, <3>1 DEF CutInto
    <3> QED BY <1>2, <1>15, <3>2
  <2>4. Resting'
    BY <1>1, <1>2, <1>4 DEF Resting, Fresh
  <2>5. level' \in 0 .. Len(depthIndex') - 2
    BY <1>8, <1>15
  <2>6. sharedIn' = Cardinality({v \in Nodes : BDist'[v] # Unreached})
    BY <1>2, <1>14, <1>16
  <2> QED BY <1>2, <1>10, <1>12, <1>16, <2>1, <2>2, <2>3, <2>4, <2>5, <2>6 DEF Searched
<1>19. BCTypes'
  <2>1. Round' = Round + 1 /\ depthIndex' \in Seq(0 .. N)
    <3>1. depthIndex \in Seq(0 .. N) /\ outStart \in 0 .. N
      BY QueueTypes DEF BCTypes
    <3> QED BY <1>1, <3>1 DEF Round
  <2>2. Round' \in 0 .. N + 1 /\ level' \in 0 .. N + 1
    BY <1>8, <1>15, <2>1
  <2>3. pc' \in [Threads -> BCSteps] /\ depth' \in [Threads -> Int] /\ deltas' \in [Nodes -> Nat]
    BY <1>1 DEF Fresh, BCSteps
  <2> QED BY <1>1, <1>2, <1>17, <2>1, <2>2, <2>3 DEF BCTypes, QueueTypeOK
<1> QED BY <1>18, <1>19

(* path_counts has come to the numbers of shortest paths, and succ to the   *)
(* edges that lead to the next level.                                       *)
LEMMA BDistIsAway == BDist = Away(neigh, Source)
BY DEF BDist, Away

LEMMA DownIs ==
    ASSUME BCTypes, NEW u \in Nodes, NEW v \in Near(neigh, u)
    PROVE  BDist[u] # Unreached /\ BDist[v] = BDist[u] + 1 <=> BDist[v] = BDist[u] + 1
<1>1. neigh \in GraphsIn /\ Source \in Nodes
  BY BCGraphFacts DEF BCTypes
<1>2. v \in Nodes /\ u \in Near(neigh, v)
  BY <1>1, NearFacts
<1>3. BDist[v] >= 0 => BDist[u] \in 0 .. BDist[v] + 1
  BY <1>1, <1>2, AwayFacts, BDistIsAway
<1>4. BDist[v] \in Int /\ BDist[u] \in Int
  BY <1>1, <1>2, AwayFacts, BDistIsAway
<1> QED BY <1>3, <1>4 DEF Unreached

LEMMA CountsRight ==
    ASSUME BCTypes, AllCounted
    PROVE  \A v \in Nodes : pathCounts[v] = Paths(neigh, Source, v)
<1>1. neigh \in GraphsIn /\ Source \in Nodes
  BY BCGraphFacts DEF BCTypes
<1>2. ASSUME NEW v \in Nodes PROVE Before(v) = Above(neigh, Source, v)
  <2>1. ASSUME NEW u \in Nodes
        PROVE  (\E i \in DOMAIN neigh[u] : neigh[u][i] = v) <=> u \in Near(neigh, v)
    <3>1. (\E i \in DOMAIN neigh[u] : neigh[u][i] = v) <=> v \in Near(neigh, u)
      BY DEF Near, Range
    <3> QED BY <1>1, <3>1, NearFacts
  <2>2. Before(v) = {u \in Nodes : u \in Near(neigh, v) /\ BDist[u] # Unreached /\ BDist[v] = BDist[u] + 1}
    BY <2>1 DEF Before, Down
  <2>3. \A u \in Near(neigh, v) : u \in Nodes /\ v \in Near(neigh, u)
    BY <1>1, NearFacts
  <2>4. \A u \in Near(neigh, v) : BDist[u] # Unreached /\ BDist[v] = BDist[u] + 1 <=> BDist[v] = BDist[u] + 1
    BY <2>3, DownIs
  <2>5. \A u \in Nodes : BDist[u] \in Int
    BY <1>1, AwayFacts, BDistIsAway
  <2>6. Above(neigh, Source, v) = {u \in Near(neigh, v) : BDist[u] = BDist[v] - 1}
    BY BDistIsAway DEF Above
  <2>7. \A u \in Near(neigh, v) : BDist[v] = BDist[u] + 1 <=> BDist[u] = BDist[v] - 1
    BY <2>3, <2>5
  <2> QED BY <2>2, <2>3, <2>4, <2>6, <2>7
<1>3. \A v \in Nodes : pathCounts[v] = IF v = Source THEN 1
                                       ELSE SumFunctionOnSet(pathCounts, Above(neigh, Source, v))
  BY <1>2 DEF AllCounted
<1> QED BY <1>1, <1>3, CountsArePaths

LEMMA SuccRight ==
    ASSUME BCTypes, Searched, NEW u \in Nodes
    PROVE  {j \in DOMAIN neigh[u] : <<u, j>> \in succ} = DownTo(neigh, Source, u)
<1>1. \A j \in DOMAIN neigh[u] : j \in 1 .. N /\ neigh[u][j] \in Near(neigh, u)
  BY RowFacts DEF Near, Range
<1>2. \A j \in DOMAIN neigh[u] : <<u, j>> \in succ <=> Down(u, j)
  BY <1>1 DEF Searched, DownEdges
<1>3. \A j \in DOMAIN neigh[u] : Down(u, j) <=> BDist[neigh[u][j]] = BDist[u] + 1
  BY <1>1, DownIs DEF Down
<1> QED BY <1>2, <1>3, BDistIsAway DEF DownTo

(* What a node gets from the level below is a number. *)
LEMMA DeltaType ==
    ASSUME BCTypes, Searched, NEW u \in Nodes
    PROVE  Delta(u) \in Nat
<1> DEFINE D == {j \in DOMAIN neigh[u] : <<u, j>> \in succ}
           F == [i \in D |-> (pathCounts[u] * (Scale + deltas[neigh[u][i]])) \div pathCounts[neigh[u][i]]]
<1>1. Delta(u) = SumFunctionOnSet(F, D)
  BY DEF Delta, SumFunction
<1>2. IsFiniteSet(D)
  <2>1. DOMAIN neigh[u] = 1 .. Degree(u) /\ Degree(u) \in Nat
    BY RowFacts
  <2>2. IsFiniteSet(1 .. Degree(u)) /\ D \in SUBSET (1 .. Degree(u))
    BY <2>1, FS_Interval
  <2> QED BY <2>2, FS_Subset
<1>3. ASSUME NEW i \in D PROVE F[i] \in Nat
  <2>1. PICK w \in Nodes : w = neigh[u][i]
    BY RowFacts
  <2>2. Down(u, i)
    BY DEF Searched, DownEdges
  <2>3. BDist[w] # Unreached
    BY <2>1, <2>2, DistFacts DEF Down, Unreached
  <2>4. pathCounts[w] \in Nat \ {0}
    <3>1. neigh \in GraphsIn /\ Source \in Nodes
      BY BCGraphFacts DEF BCTypes
    <3>2. pathCounts[w] = Paths(neigh, Source, w)
      BY CountsRight DEF Searched
    <3> QED BY <2>3, <3>1, <3>2, PathsFacts, BDistIsAway
  <2>5. pathCounts[u] \in Nat /\ Scale + deltas[w] \in Nat
    <3>1. Scale \in Nat /\ deltas \in [Nodes -> Nat] /\ pathCounts \in [Nodes -> Nat]
      BY BrandesAssumption DEF BCTypes
    <3> QED BY <3>1
  <2>6. pathCounts[u] * (Scale + deltas[w]) \in Nat
    BY <2>5
  <2>7. (pathCounts[u] * (Scale + deltas[w])) \div pathCounts[w] \in Nat
    BY <2>4, <2>6, DivBounds
  <2> QED BY <2>1, <2>7
<1> HIDE DEF D, F
<1> QED BY <1>1, <1>2, <1>3, SumCounts

LEMMA KeepSearched ==
    ASSUME Searched, UNCHANGED <<neigh, sources, iter, queueVars, lqueue, pc, depth>>,
           UNCHANGED <<depths, pathCounts, succ, depthIndex>>,
           level' \in 0 .. level
    PROVE  Searched'
<1>1. /\ UNCHANGED <<neigh, sources, iter, queue, sharedIn, outStart, outEnd, lqueue>>
      /\ UNCHANGED <<depths, pathCounts, succ, depthIndex, pc, depth>>
  BY DEF queueVars
<1>2. BDist' = BDist /\ Source' = Source /\ \A k : OnLevel(k)' = OnLevel(k)
  BY <1>1, KeepDist DEF OnLevel
<1>3. DownEdges' = DownEdges /\ \A v : Before(v)' = Before(v)
  BY <1>1, <1>2 DEF DownEdges, Before, Down
<1>4. AllCounted'
  BY <1>1, <1>2, <1>3 DEF Searched, AllCounted
<1>5. CutInto(depthIndex, outStart)'
  <2>1. \A cut, i : QueueLevel(cut, i)' = QueueLevel(cut, i)
    BY <1>1 DEF QueueLevel
  <2>2. \A cut, top : CutInto(cut, top)' <=> CutInto(cut, top)
    BY <1>2, <2>1 DEF CutInto
  <2> QED BY <1>1, <2>2 DEF Searched
<1>6. Resting'
  BY <1>1 DEF Searched, Resting
<1>7. level' \in 0 .. Len(depthIndex) - 2
  BY DEF Searched
<1> QED BY <1>1, <1>2, <1>3, <1>4, <1>5, <1>6, <1>7 DEF Searched

LEMMA BackPropagateStep ==
    ASSUME BCTypes, Searched, NEW u \in Nodes, BackPropagate(u)
    PROVE  BCTypes' /\ Searched' /\ phase' = phase
<1>1. /\ todo' = todo \ {u} /\ deltas' = [deltas EXCEPT ![u] = Delta(u)]
      /\ scores' = [scores EXCEPT ![u] = @ + Delta(u)]
  BY DEF BackPropagate
<1>2. UNCHANGED <<neigh, sources, iter, phase, queueVars, lqueue, depths, pathCounts, succ, depthIndex,
                  level, biggestScore, pc, depth, node, edge>>
  BY DEF BackPropagate, BCargs, searchVars, BCthreadVars
<1>3. level' \in 0 .. level
  BY <1>2 DEF BCTypes
<1>4. Searched'
  BY <1>2, <1>3, KeepSearched
<1>5. deltas' \in [Nodes -> Nat] /\ scores' \in [Nodes -> Nat]
  <2>1. deltas \in [Nodes -> Nat] /\ scores \in [Nodes -> Nat] /\ Delta(u) \in Nat
    BY DeltaType DEF BCTypes
  <2>2. scores[u] + Delta(u) \in Nat
    BY <2>1
  <2> QED BY <1>1, <2>1, <2>2
<1>6. Round' = Round
  BY <1>2 DEF Round
<1> QED BY <1>1, <1>2, <1>4, <1>5, <1>6 DEF BCTypes, QueueTypeOK, queueVars

LEMMA NextLevelStep ==
    ASSUME BCTypes, Searched, NextLevel
    PROVE  BCTypes' /\ Searched' /\ phase' = phase
<1>1. level > 0 /\ level' = level - 1 /\ todo' = QueueLevel(depthIndex, level - 1)
  BY DEF NextLevel
<1>2. UNCHANGED <<neigh, sources, iter, phase, queueVars, lqueue, depths, pathCounts, succ, depthIndex,
                  deltas, scores, biggestScore, pc, depth, node, edge>>
  BY DEF NextLevel, BCargs, searchVars, BCthreadVars
<1>3. level' \in 0 .. level /\ level' \in 0 .. N + 1 /\ level \in Nat
  BY <1>1, NodesFinite DEF BCTypes
<1>4. Searched'
  BY <1>2, <1>3, KeepSearched
<1>5. todo' \subseteq Nodes
  <2>1. level - 1 \in 0 .. Len(depthIndex) - 2
    BY <1>1, <1>3 DEF Searched
  <2> QED BY <1>1, <2>1 DEF Searched, CutInto, OnLevel
<1>6. Round' = Round
  BY <1>2 DEF Round
<1> QED BY <1>2, <1>3, <1>4, <1>5, <1>6 DEF BCTypes, QueueTypeOK, queueVars

LEMMA FinishStep ==
    ASSUME BCTypes, Searched, BCFinish
    PROVE  BCTypes' /\ Searched' /\ phase' = "done"
<1>1. phase' = "done" /\ biggestScore' = Max(Range(scores))
  BY DEF BCFinish
<1>2. UNCHANGED <<neigh, sources, iter, todo, queueVars, lqueue, depths, pathCounts, succ, depthIndex,
                  level, deltas, scores, pc, depth, node, edge>>
  BY DEF BCFinish, BCargs, searchVars, BCthreadVars
<1>3. level' \in 0 .. level
  BY <1>2 DEF BCTypes
<1>4. Searched'
  BY <1>2, <1>3, KeepSearched
<1>5. biggestScore' \in Nat
  <2>1. scores \in [Nodes -> Nat] /\ Nodes # {}
    BY NodesFinite DEF BCTypes
  <2>2. Max(Range(scores)) \in Range(scores)
    BY <2>1, NodesFinite, LargestValue
  <2> QED BY <1>1, <2>1, <2>2 DEF Range
<1>6. Round' = Round
  BY <1>2 DEF Round
<1> QED BY <1>1, <1>2, <1>4, <1>5, <1>6 DEF BCTypes, QueueTypeOK, queueVars

LEMMA FreshTypes ==
    ASSUME NEW s \in Nodes
    PROVE  /\ OnlySource(s, 0, -1) \in [Nodes -> Int] /\ OnlySource(s, 1, 0) \in [Nodes -> Nat]
           /\ Queued(s) \in [Nodes -> Nodes \cup {None}]
BY DEF OnlySource, Queued

LEMMA NextIterationStep ==
    ASSUME BCTypes, Searched, NextIteration
    PROVE  BCTypes' /\ FreshStart' /\ phase' = "search"
<1>1. /\ iter < Len(sources) /\ iter' = iter + 1 /\ phase' = "search"
      /\ depths' = OnlySource(sources[iter + 1], 0, -1) /\ pathCounts' = OnlySource(sources[iter + 1], 1, 0)
      /\ succ' = {} /\ queue' = Queued(sources[iter + 1]) /\ sharedIn' = 1 /\ outStart' = 0 /\ outEnd' = 1
      /\ depthIndex' = <<0>> /\ todo' = 0 .. 0
  BY DEF NextIteration, SuccReset
<1>2. UNCHANGED <<neigh, sources, lqueue, level, deltas, scores, biggestScore, pc, depth, node, edge>>
  BY DEF NextIteration, BCargs, backVars, BCthreadVars
<1>3. iter' \in DOMAIN sources /\ sources[iter + 1] \in Nodes
  <2>1. sources \in Seq(Nodes) /\ iter \in DOMAIN sources
    BY BrandesAssumption DEF BCTypes
  <2> QED BY <1>1, <2>1
<1>4. Source' = sources[iter + 1]
  BY <1>1, <1>2 DEF Source
<1>5. FreshStart'
  <2>1. Resting'
    BY <1>2 DEF Searched, Resting
  <2> QED BY <1>1, <1>4, <2>1 DEF FreshStart
<1>6. depthIndex' \in Seq(0 .. N) /\ Round' \in 0 .. N + 1
  <2>1. Len(depthIndex') = 1 /\ 0 \in 0 .. N /\ N \in Nat
    BY <1>1, NodesFinite
  <2> QED BY <1>1, <2>1 DEF Round
<1>7. QueueTypeOK'
  <2>1. lqueue' \in [Threads -> Seq(Nodes)] /\ \A t \in Threads : Len(lqueue'[t]) <= BufferSize
    BY <1>2 DEF QueueTypeOK, BCTypes
  <2> QED BY <1>1, <1>3, <2>1, FreshTypes, NodesFinite DEF QueueTypeOK
<1>8. todo' \subseteq Nodes
  BY <1>1, NodesFinite
<1>9. BCTypes'
  BY <1>1, <1>2, <1>3, <1>6, <1>7, <1>8, FreshTypes DEF BCTypes
<1> QED BY <1>1, <1>5, <1>9

LEMMA BCInitStep == BCInit => BCTypes /\ FreshStart /\ phase = "search"
<1> SUFFICES ASSUME BCInit PROVE BCTypes /\ FreshStart /\ phase = "search"
  OBVIOUS
<1>1. /\ neigh \in GraphsIn /\ sources \in SourceLists /\ iter = 1 /\ phase = "search"
      /\ depths = OnlySource(Source, 0, -1) /\ pathCounts = OnlySource(Source, 1, 0) /\ succ = {}
      /\ queue = Queued(Source) /\ sharedIn = 1 /\ outStart = 0 /\ outEnd = 1
      /\ depthIndex = <<0>> /\ todo = 0 .. 0
      /\ level = 0 /\ deltas = [n \in Nodes |-> 0] /\ scores = [n \in Nodes |-> 0] /\ biggestScore = 0
      /\ pc = Fresh("while") /\ depth = Fresh(0) /\ node = Fresh(0) /\ edge = Fresh(1)
      /\ lqueue = Fresh(<<>>)
  BY DEF BCInit
<1>2. iter \in DOMAIN sources /\ Source \in Nodes
  <2>1. sources \in Seq(Nodes) /\ sources # <<>>
    BY <1>1, BrandesAssumption
  <2> QED BY <1>1, <2>1 DEF Source
<1>3. FreshStart
  BY <1>1 DEF FreshStart, Resting, Fresh
<1>4. depthIndex \in Seq(0 .. N) /\ Round \in 0 .. N + 1
  <2>1. Len(depthIndex) = 1 /\ 0 \in 0 .. N /\ N \in Nat
    BY <1>1, NodesFinite
  <2> QED BY <1>1, <2>1 DEF Round
<1>5. QueueTypeOK
  <2>1. lqueue \in [Threads -> Seq(Nodes)] /\ \A t \in Threads : Len(lqueue[t]) <= BufferSize
    <3>1. \A t \in Threads : lqueue[t] = <<>> /\ Len(lqueue[t]) = 0
      BY <1>1 DEF Fresh
    <3> QED BY <1>1, <3>1, QueueAssumption DEF Fresh
  <2> QED BY <1>1, <1>2, <2>1, FreshTypes, NodesFinite DEF QueueTypeOK
<1>6. /\ pc \in [Threads -> BCSteps] /\ depth \in [Threads -> Int]
      /\ node \in [Threads -> Nodes] /\ edge \in [Threads -> Nat \ {0}]
  BY <1>1, NodesFinite DEF Fresh, BCSteps
<1>7. todo \subseteq Nodes /\ level \in 0 .. N + 1 /\ deltas \in [Nodes -> Nat] /\ scores \in [Nodes -> Nat]
  BY <1>1, NodesFinite
<1>8. BCTypes
  BY <1>1, <1>2, <1>4, <1>5, <1>6, <1>7, FreshTypes DEF BCTypes
<1> QED BY <1>1, <1>3, <1>8

-----------------------------------------------------------------------------
BCInv ==
    /\ BCTypes
    /\ phase = "search" => Searching
    /\ phase # "search" => Searched

LEMMA StartSearchingNext == BCTypes' /\ FreshStart' => Searching'
BY StartSearching, PTL

LEMMA BCSameInv ==
    ASSUME BCInv, UNCHANGED BCvars
    PROVE  BCInv'
<1>1. /\ UNCHANGED <<neigh, sources, iter, phase, todo, queue, sharedIn, outStart, outEnd, lqueue>>
      /\ UNCHANGED <<depths, pathCounts, succ, depthIndex, level, deltas, scores, biggestScore,
                      pc, depth, node, edge>>
      /\ UNCHANGED queueVars
  BY DEF BCvars, BCargs, queueVars, searchVars, backVars, BCthreadVars
<1>2. BCTypes'
  <2>1. Round' = Round
    BY <1>1 DEF Round
  <2> QED BY <1>1, <2>1 DEF BCInv, BCTypes, QueueTypeOK
<1>3. CASE phase = "search"
  <2>1. Searching
    BY <1>3 DEF BCInv
  <2>2. SameWork /\ SameAdding
    BY <1>1 DEF SameWork, SameAdding, Working, Adding
  <2>3. SameHandled
    BY <1>1, <2>2, KeepHandled
  <2>4. Found' = Found /\ BDist' = BDist /\ Round' = Round /\ Window' = Window
    BY <1>1, KeepDist DEF Found, Round, Window
  <2>5. Rounds' /\ Places'
    <3>1. Rounds'
      BY <1>1, <2>1, <2>4 DEF Searching, Rounds, RoundAt
    <3>2. \A t \in Threads : PlaceAt(t)'
      BY <1>1, <2>1, <2>4 DEF Searching, Places, PlaceAt, Working, Neighbor
    <3> QED BY <1>1, <2>1, <2>2, <3>1, <3>2 DEF Searching, Places, SameWork
  <2>6. Frontier' /\ Cuts' /\ Marked' /\ Counted'
    BY <1>1, <2>1, <2>2, <2>3, <2>4, KeepFrontier, KeepCuts, KeepMarked, KeepCounted DEF Searching
  <2> QED BY <1>1, <1>2, <1>3, <2>5, <2>6 DEF BCInv, Searching
<1>4. CASE phase # "search"
  <2>1. level' \in 0 .. level
    BY <1>1 DEF BCInv, BCTypes
  <2>2. Searched'
    BY <1>1, <1>4, <2>1, KeepSearched DEF BCInv
  <2> QED BY <1>1, <1>2, <1>4, <2>2 DEF BCInv
<1> QED BY <1>3, <1>4

(* While nodes of the level are left, not all threads have come past the    *)
(* loop over it: who leaves early leaves them to the others' chunks.        *)
Unfinished == phase = "search" /\ todo # {} => \E t \in Threads : pc[t] # "barrier"

LEMMA UnfinishedKept ==
    ASSUME BCInv, Unfinished, [BCNext]_BCvars
    PROVE  Unfinished'
<1>1. pc \in [Threads -> BCSteps] /\ Threads # {}
  BY BrandesAssumption DEF BCInv, BCTypes
<1>2. ASSUME NEW t \in Threads, pc'[t] # "barrier" PROVE Unfinished'
  BY <1>2 DEF Unfinished
<1>3. ASSUME phase = "search", NEW t \in Threads, BCThreadStep(t) PROVE Unfinished'
  <2>1. CASE Leave(t)
    <3>1. phase' = phase /\ todo' = todo /\ \A s \in Threads \ {t} : pc'[s] = pc[s]
      BY <1>1, <2>1 DEF Leave, Goto
    <3>2. todo = {} \/ \E s \in Threads \ {t} : pc[s] # "barrier"
      BY <2>1 DEF Leave
    <3> QED BY <3>1, <3>2 DEF Unfinished
  <2>2. ASSUME ~Leave(t) PROVE pc'[t] # "barrier"
    <3>1. NextEdge(t) => pc'[t] # "barrier"
      BY <1>1 DEF NextEdge, Goto
    <3> QED BY <1>1, <1>3, <2>2, <3>1
        DEF BCThreadStep, While, BCTake, ReadDepth, BCCas, AfterFailedCas, Test, BCSetBitAtomic, AddPaths, Goto
  <2> QED BY <1>2, <2>1, <2>2
<1>4. CASE Single
  BY <1>1, <1>2, <1>4 DEF Single
<1>5. CASE NextIteration
  <2>1. \A t \in Threads : pc'[t] = "while"
    BY <1>5 DEF NextIteration, BCthreadVars, BCInv, Searched, Resting
  <2> QED BY <1>1, <1>2, <2>1
<1>6. CASE UNCHANGED BCvars
  BY <1>6 DEF Unfinished, BCvars, BCthreadVars
<1>7. CASE SearchEnds \/ NextLevel \/ BCFinish \/ \E u \in Nodes : BackPropagate(u)
  BY <1>7 DEF Unfinished, SearchEnds, NextLevel, BCFinish, BackPropagate
<1> QED BY <1>3, <1>4, <1>5, <1>6, <1>7 DEF BCNext, BCMasterStep, BCTerminated

LEMMA BCStepInv ==
    ASSUME BCInv, Unfinished, [BCNext]_BCvars
    PROVE  BCInv'
<1>0. BCTypes /\ (phase = "search" => Searching) /\ (phase # "search" => Searched)
  BY DEF BCInv
<1>1. ASSUME phase = "search", NEW t \in Threads, BCThreadStep(t) PROVE BCInv'
  <2>1. SearchStep
    <3>1. CASE While(t)
      BY <1>0, <1>1, <3>1, WhileStep
    <3>2. CASE \E i \in todo : BCTake(t, i)
      BY <1>0, <1>1, <3>2, TakeStep
    <3>3. CASE ReadDepth(t)
      BY <1>0, <1>1, <3>3, ReadDepthStep
    <3>4. CASE BCCas(t)
      BY <1>0, <1>1, <3>4, SwapStep, LostSwapStep
    <3>5. CASE Test(t)
      BY <1>0, <1>1, <3>5, TestStep, TestFoundStep
    <3>6. CASE BCSetBitAtomic(t)
      BY <1>0, <1>1, <3>6, SetBitStep
    <3>7. CASE AddPaths(t)
      BY <1>0, <1>1, <3>7, AddPathsStep
    <3>8. CASE Leave(t)
      BY <1>0, <1>1, <3>8, LeaveStep
    <3> QED BY <1>1, <3>1, <3>2, <3>3, <3>4, <3>5, <3>6, <3>7, <3>8 DEF BCThreadStep
  <2>2. phase' = phase
    BY <1>1 DEF BCThreadStep, While, BCTake, ReadDepth, BCCas, Test, BCSetBitAtomic, AddPaths, Leave
  <2> QED BY <1>1, <2>1, <2>2 DEF BCInv, SearchStep
<1>2. ASSUME NEW u \in Nodes, BackPropagate(u) PROVE BCInv'
  <2>1. phase = "back"
    BY <1>2 DEF BackPropagate
  <2>2. BCTypes' /\ Searched' /\ phase' = phase
    BY <1>0, <1>2, <2>1, BackPropagateStep
  <2> QED BY <2>1, <2>2 DEF BCInv
<1>3. CASE Single
  <2>1. phase = "search"
    <3>1. PICK anyone \in Threads : TRUE
      BY BrandesAssumption
    <3>2. pc[anyone] = "barrier"
      BY <1>3 DEF Single, AllArrived
    <3> QED BY <1>0, <3>2 DEF Searched, Resting
  <2>2. todo = {}
    BY <1>3, <2>1 DEF Unfinished, Single, AllArrived
  <2>3. SearchStep /\ phase' = phase
    BY <1>0, <1>3, <2>1, <2>2, SingleStep DEF Single
  <2> QED BY <2>1, <2>3 DEF BCInv, SearchStep
<1>4. CASE SearchEnds
  <2>1. phase = "search" /\ phase' = "back"
    BY <1>4 DEF SearchEnds
  <2> QED BY <1>0, <1>4, <2>1, SearchEndsStep DEF BCInv
<1>5. CASE NextLevel
  <2>1. phase = "back"
    BY <1>5 DEF NextLevel
  <2>2. BCTypes' /\ Searched' /\ phase' = phase
    BY <1>0, <1>5, <2>1, NextLevelStep
  <2> QED BY <2>1, <2>2 DEF BCInv
<1>6. CASE NextIteration
  <2>1. phase = "back"
    BY <1>6 DEF NextIteration
  <2>2. BCTypes' /\ FreshStart' /\ phase' = "search"
    BY <1>0, <1>6, <2>1, NextIterationStep
  <2> QED BY <2>2, StartSearchingNext DEF BCInv
<1>7. CASE BCFinish
  <2>1. phase = "back"
    BY <1>7 DEF BCFinish
  <2>2. BCTypes' /\ Searched' /\ phase' = "done"
    BY <1>0, <1>7, <2>1, FinishStep
  <2> QED BY <2>2 DEF BCInv
<1>8. CASE UNCHANGED BCvars
  BY <1>8, BCSameInv
<1>9. CASE BCTerminated
  BY <1>8, <1>9 DEF BCTerminated
<1> QED BY <1>1, <1>2, <1>3, <1>4, <1>5, <1>6, <1>7, <1>8, <1>9 DEF BCNext, BCMasterStep

THEOREM BCInvariance == BCSpec => [](BCInv /\ Unfinished)
<1>1. BCInit => BCInv
  BY BCInitStep, StartSearching DEF BCInv
<1>2. BCInit => Unfinished
  <2> SUFFICES ASSUME BCInit PROVE \A t \in Threads : pc[t] # "barrier"
    BY BrandesAssumption DEF Unfinished
  <2> QED BY DEF BCInit, Fresh
<1>3. BCInv /\ Unfinished /\ [BCNext]_BCvars => BCInv' /\ Unfinished'
  BY BCStepInv, UnfinishedKept
<1> QED BY <1>1, <1>2, <1>3, PTL DEF BCSpec

LEMMA DepthsInRange ==
    ASSUME BCInv
    PROVE  depths \in [Nodes -> -1 .. N - 1]
<1>1. BCTypes /\ depths \in [Nodes -> Int] /\ N \in Nat \ {0}
  BY NodesFinite DEF BCInv, BCTypes
<1>2. \A v \in Nodes : BDist[v] \in -1 .. N - 1
  BY <1>1, DistFacts
<1>3. \A v \in Nodes : depths[v] = -1 \/ depths[v] = BDist[v]
  <2>1. CASE phase = "search"
    BY <2>1 DEF BCInv, Searching, Frontier, Found
  <2>2. CASE phase # "search"
    BY <2>2 DEF BCInv, Searched
  <2> QED BY <2>1, <2>2
<1>4. \A v \in Nodes : depths[v] \in -1 .. N - 1
  BY <1>1, <1>2, <1>3
<1> QED BY <1>1, <1>4

LEMMA CutsInOrder ==
    ASSUME BCInv
    PROVE  \A i \in DOMAIN depthIndex :
               depthIndex[i] \in 0 .. N /\ (i > 1 => depthIndex[i - 1] <= depthIndex[i])
<1>1. BCTypes /\ depthIndex \in Seq(0 .. N) /\ outStart \in 0 .. N
  BY QueueTypes DEF BCInv, BCTypes
<1>2. \A i \in DOMAIN depthIndex : depthIndex[i] \in 0 .. N /\ i \in 1 .. Len(depthIndex)
  <2>1. \A S : \A s \in Seq(S) : DOMAIN s = 1 .. Len(s) /\ \A i \in 1 .. Len(s) : s[i] \in S
    OBVIOUS
  <2> QED BY <1>1, <2>1
<1> DEFINE Appended(s, x) == /\ Len(Append(s, x)) = Len(s) + 1
                             /\ \A i \in 1 .. Len(s) : Append(s, x)[i] = s[i]
<1>3. \A s \in Seq(0 .. N) : \A x \in 0 .. N : Appended(s, x)
  OBVIOUS
<1>4. ASSUME NEW i \in DOMAIN depthIndex, i > 1 PROVE depthIndex[i - 1] <= depthIndex[i]
  <2>1. /\ i \in 1 .. Len(depthIndex) /\ i - 1 \in 1 .. Len(depthIndex) - 1
        /\ (i - 1) + 1 = i /\ Len(depthIndex) \in Nat
    BY <1>1, <1>2, <1>4
  <2>2. CASE phase = "search"
    <3> DEFINE cut == Append(depthIndex, outStart)
    <3>1. Len(cut) = Len(depthIndex) + 1 /\ \A j \in 1 .. Len(depthIndex) : cut[j] = depthIndex[j]
      BY <1>1, <1>3
    <3>2. \A j \in 1 .. Len(cut) - 1 : cut[j] <= cut[j + 1]
      BY <2>2 DEF BCInv, Searching, Cuts, CutInto
    <3> HIDE DEF cut
    <3>3. i - 1 \in 1 .. Len(cut) - 1 /\ i - 1 \in 1 .. Len(depthIndex)
      BY <2>1, <3>1
    <3>4. cut[i - 1] <= cut[(i - 1) + 1]
      BY <3>2, <3>3
    <3> QED BY <2>1, <3>1, <3>3, <3>4
  <2>3. CASE phase # "search"
    <3>1. \A j \in 1 .. Len(depthIndex) - 1 : depthIndex[j] <= depthIndex[j + 1]
      BY <2>3 DEF BCInv, Searched, CutInto
    <3>2. depthIndex[i - 1] <= depthIndex[(i - 1) + 1]
      BY <2>1, <3>1
    <3> QED BY <2>1, <3>2
  <2> QED BY <2>2, <2>3
<1> QED BY <1>2, <1>4

LEMMA DepthInRange ==
    ASSUME BCInv
    PROVE  depth \in [Threads -> 0 .. N]
<1>1. BCTypes /\ depth \in [Threads -> Int] /\ N \in Nat \ {0}
  BY NodesFinite DEF BCInv, BCTypes
<1>2. ASSUME NEW t \in Threads PROVE depth[t] \in 0 .. N
  <2>1. CASE phase = "search"
    <3>1. Searching /\ Round \in 0 .. N /\ RoundAt(t)
      BY <2>1 DEF BCInv, Searching, Cuts, Rounds
    <3>2. outStart # outEnd => Round < N
      <4> SUFFICES ASSUME outStart # outEnd PROVE Round < N
        OBVIOUS
      <4>1. outStart \in Window /\ Window \subseteq Cells
        BY <1>1, QueueTypes DEF Window, BCTypes
      <4>2. queue[outStart] \in Nodes /\ BDist[queue[outStart]] = Round
        BY <3>1, <4>1 DEF Searching, Frontier, QueueOnce
      <4> QED BY <1>1, <4>2, DistFacts
    <3> QED BY <1>1, <3>1, <3>2 DEF RoundAt
  <2>2. CASE phase # "search"
    BY <1>1, <2>2 DEF BCInv, Searched, Resting
  <2> QED BY <2>1, <2>2
<1> QED BY <1>1, <1>2

(* Every variable keeps its type: the queue stays in its array, the levels  *)
(* in the queue, and no thread counts more rounds than there are nodes.     *)
THEOREM BCTypeCorrect == BCSpec => []BCTypeOK
<1>1. BCInv => BCTypeOK
  BY DepthsInRange, CutsInOrder, DepthInRange DEF BCInv, BCTypes, BCTypeOK
<1> QED BY <1>1, BCInvariance, PTL

(* What PBFS hands over is right: depths are the distances, path_counts the *)
(* numbers of shortest paths, succ the edges between levels, and            *)
(* depth_index cuts the queue into the levels.                              *)
THEOREM BCPathsCounted == BCSpec => []PathsCounted
<1>1. BCInv => PathsCounted
  <2> SUFFICES ASSUME BCInv, phase = "back"
               PROVE  /\ depths = BDist
                      /\ \A v \in Nodes : pathCounts[v] = Paths(neigh, Source, v)
                      /\ succ = {e \in Nodes \X (1 .. N) :
                                    /\ e[2] \in DOMAIN neigh[e[1]] /\ BDist[e[1]] # Unreached
                                    /\ BDist[neigh[e[1]][e[2]]] = BDist[e[1]] + 1}
                      /\ sharedIn = Cardinality({v \in Nodes : BDist[v] # Unreached})
                      /\ \A i \in 0 .. Len(depthIndex) - 2 :
                             QueueLevel(depthIndex, i) = {v \in Nodes : BDist[v] = i - 1 /\ i > 0}
    BY DEF PathsCounted, BDist
  <2>1. Searched /\ BCTypes
    BY DEF BCInv
  <2>2. \A v \in Nodes : pathCounts[v] = Paths(neigh, Source, v)
    BY <2>1, CountsRight DEF Searched
  <2>3. ASSUME NEW i \in 0 .. Len(depthIndex) - 2
        PROVE  QueueLevel(depthIndex, i) = {v \in Nodes : BDist[v] = i - 1 /\ i > 0}
    <3>1. QueueLevel(depthIndex, i) = IF i = 0 THEN {} ELSE OnLevel(i - 1)
      BY <2>1 DEF Searched, CutInto
    <3>2. CASE i = 0
      BY <3>1, <3>2
    <3>3. CASE i # 0
      <4>1. i > 0
        BY <3>3
      <4> QED BY <3>1, <3>3, <4>1 DEF OnLevel
    <3> QED BY <3>2, <3>3
  <2> QED BY <2>1, <2>2, <2>3 DEF Searched, DownEdges, Down
<1> QED BY <1>1, BCInvariance, PTL
-----------------------------------------------------------------------------
(***************************************************************************)
(* Scores.  The backward pass has Passed the levels from `level' on, and   *)
(* of the level before what is no longer to do; their deltas are what they *)
(* have to be, and are in the scores beside those of earlier iterations.   *)
(***************************************************************************)
Due(v) == Dependency(neigh, Source, v)
Earlier(v) == SumFunctionOnSet(DependenciesOn(neigh, sources, v), 1 .. iter - 1)

Passed ==
    {v \in Nodes : BDist[v] >= 0 /\ (BDist[v] >= level \/ (BDist[v] = level - 1 /\ v \notin todo))}

Backward ==
    /\ todo \subseteq OnLevel(level - 1) /\ (level = 0 => todo = {})
    /\ \A v \in Passed : deltas[v] = Due(v)
    /\ \A v \in Nodes : scores[v] = Earlier(v) + (IF v \in Passed THEN Due(v) ELSE 0)

AllBetween == scores = Totals(neigh, sources) /\ biggestScore = Max(Range(scores))

ScoreInv ==
    /\ phase = "search" => \A v \in Nodes : scores[v] = Earlier(v)
    /\ phase = "back" => Backward
    /\ phase = "done" => AllBetween

LEMMA SourceFacts ==
    ASSUME BCTypes
    PROVE  /\ neigh \in GraphsIn /\ sources \in SourceLists /\ Source \in Nodes
           /\ DOMAIN sources = 1 .. Len(sources) /\ Len(sources) \in Nat /\ iter \in 1 .. Len(sources)
           /\ IsFiniteSet(DOMAIN sources)
           /\ \A v \in Nodes : Due(v) \in Nat
<1>1. neigh \in GraphsIn /\ sources \in SourceLists /\ Source \in Nodes
  BY BCGraphFacts DEF BCTypes
<1>2. sources \in Seq(Nodes) /\ iter \in DOMAIN sources
  BY BrandesAssumption DEF BCTypes
<1>3. DOMAIN sources = 1 .. Len(sources) /\ Len(sources) \in Nat
  BY <1>2
<1>4. IsFiniteSet(DOMAIN sources)
  BY <1>1, TotalsFacts
<1>5. \A v \in Nodes : Due(v) \in Nat
  BY <1>1, AheadFacts DEF Due
<1> QED BY <1>1, <1>2, <1>3, <1>4, <1>5

(* What the iteration adds. *)
LEMMA EarlierGrows ==
    ASSUME BCTypes, NEW v \in Nodes
    PROVE  /\ Earlier(v) \in Nat
           /\ Earlier(v) + Due(v) = SumFunctionOnSet(DependenciesOn(neigh, sources, v), 1 .. iter)
<1> DEFINE fun == DependenciesOn(neigh, sources, v)
<1>1. /\ DOMAIN sources = 1 .. Len(sources) /\ Len(sources) \in Nat /\ iter \in 1 .. Len(sources)
      /\ IsFiniteSet(DOMAIN sources) /\ Due(v) \in Nat
  BY SourceFacts
<1>2. \A i \in DOMAIN sources : fun[i] \in Nat
  BY SourceFacts, TotalsFacts
<1>3. fun[iter] = Due(v)
  BY <1>1 DEF DependenciesOn, Due, Source
<1> HIDE DEF fun
<1>4. Adds(fun, DOMAIN sources)
  <2>1. \A i \in DOMAIN sources : fun[i] \in Int
    BY <1>2
  <2> QED BY <1>1, <2>1, SumElement
<1>5. /\ 1 .. iter \in SUBSET DOMAIN sources /\ iter \in 1 .. iter
      /\ (1 .. iter) \ {iter} = 1 .. iter - 1 /\ 1 .. iter - 1 \in SUBSET DOMAIN sources
  BY <1>1
<1>6. SumFunctionOnSet(fun, 1 .. iter) = fun[iter] + SumFunctionOnSet(fun, (1 .. iter) \ {iter})
  BY <1>4, <1>5 DEF Adds
<1>7. SumFunctionOnSet(fun, 1 .. iter - 1) \in Nat
  <2>1. IsFiniteSet(1 .. iter - 1) /\ \A i \in 1 .. iter - 1 : fun[i] \in Nat
    BY <1>1, <1>2, <1>5, FS_Subset
  <2> QED BY <2>1, SumCounts
<1>8. SumFunctionOnSet(fun, 1 .. iter) = Due(v) + SumFunctionOnSet(fun, 1 .. iter - 1)
  BY <1>3, <1>5, <1>6
<1> QED BY <1>1, <1>7, <1>8 DEF Earlier, fun

LEMMA NotReached ==
    ASSUME BCTypes, NEW v \in Nodes, ~(BDist[v] >= 0)
    PROVE  Due(v) = 0
<1>1. neigh \in GraphsIn /\ Source \in Nodes
  BY SourceFacts
<1>2. BDist[v] = Unreached
  <2>1. BDist[v] \in Int /\ BDist[v] >= -1
    BY DistFacts
  <2> QED BY <2>1 DEF Unreached
<1>3. Paths(neigh, Source, v) = 0
  BY <1>1, <1>2, PathsFacts, BDistIsAway
<1>4. Ahead(neigh, Source, v) \in Nat
  BY <1>1, AheadFacts
<1> QED BY <1>3, <1>4 DEF Due, Dependency

LEMMA DeltaIs ==
    ASSUME BCTypes, Searched, NEW u \in Nodes, \A v \in Below(neigh, Source, u) : deltas[v] = Due(v)
    PROVE  Delta(u) = Due(u)
<1>1. neigh \in GraphsIn /\ Source \in Nodes
  BY SourceFacts
<1>2. PICK S : S = DownTo(neigh, Source, u)
  OBVIOUS
<1>3. S \in SUBSET DOMAIN neigh[u] /\ {neigh[u][i] : i \in S} = Below(neigh, Source, u)
  BY <1>1, <1>2, RowEnds
<1>4. \A v \in Nodes : pathCounts[v] = Paths(neigh, Source, v)
  BY CountsRight DEF Searched
<1>5. \A v \in Below(neigh, Source, u) :
          pathCounts[v] = Paths(neigh, Source, v) /\ deltas[v] = Dependency(neigh, Source, v)
  <2>1. Below(neigh, Source, u) \in SUBSET Nodes
    BY <1>1, BelowFacts
  <2> QED BY <1>4, <2>1 DEF Due
<1>6. pathCounts[u] = Paths(neigh, Source, u)
  BY <1>4
<1>7. SumFunction([i \in S |-> (pathCounts[u] * (Scale + deltas[neigh[u][i]])) \div pathCounts[neigh[u][i]]])
          = Dependency(neigh, Source, u)
  BY <1>1, <1>3, <1>5, <1>6, SharesOver
<1>8. {j \in DOMAIN neigh[u] : <<u, j>> \in succ} = S
  BY <1>2, SuccRight
<1> QED BY <1>7, <1>8 DEF Delta, Due
-----------------------------------------------------------------------------
LEMMA SearchEndsScores ==
    ASSUME BCTypes, phase = "search", Searching, SearchEnds, \A v \in Nodes : scores[v] = Earlier(v)
    PROVE  Backward'
<1>1. /\ \A t \in Threads : pc[t] = "end"
      /\ depthIndex' = Append(depthIndex, outStart) /\ level' = Len(depthIndex) - 1
      /\ todo' = QueueLevel(depthIndex', level')
      /\ UNCHANGED <<neigh, sources, iter, scores>>
  BY DEF SearchEnds, BCargs
<1>2. outStart = outEnd
  <2>1. PICK anyone \in Threads : TRUE
    BY BrandesAssumption
  <2> QED BY <1>1, <2>1 DEF Searching, Rounds, RoundAt
<1>3. level' = Round /\ Round \in 0 .. N /\ N \in Nat /\ \A v \in Nodes : BDist[v] \in Int /\ BDist[v] < Round
  BY <1>1, <1>2, NothingDeeper, DistFacts, NodesFinite DEF Searching, Cuts, Round
<1>4. todo' = IF level' = 0 THEN {} ELSE OnLevel(level' - 1)
  <2>1. CutInto(depthIndex', outStart)
    BY <1>1 DEF Searching, Cuts
  <2>2. Len(depthIndex') - 2 = level' /\ level' \in 0 .. Len(depthIndex') - 2
    <3>1. depthIndex \in Seq(0 .. N) /\ outStart \in 0 .. N
      BY QueueTypes DEF BCTypes
    <3>2. Len(depthIndex') = Len(depthIndex) + 1 /\ Len(depthIndex) \in Nat
      BY <1>1, <3>1
    <3> QED BY <1>1, <1>3, <3>2 DEF Round
  <2> QED BY <1>1, <2>1, <2>2 DEF CutInto
<1>5. BDist' = BDist /\ (\A k : OnLevel(k)' = OnLevel(k)) /\ \A v \in Nodes : Earlier(v)' = Earlier(v)
  BY <1>1, KeepDist DEF OnLevel, Earlier
<1>6. Passed' = {}
  <2> SUFFICES ASSUME NEW v \in Nodes, BDist[v] >= 0,
                      BDist[v] >= level' \/ (BDist[v] = level' - 1 /\ v \notin todo')
               PROVE  FALSE
    BY <1>5 DEF Passed
  <2>1. BDist[v] = level' - 1 /\ v \notin todo' /\ level' # 0
    BY <1>3
  <2> QED BY <1>4, <2>1 DEF OnLevel
<1>7. todo' \subseteq OnLevel(level' - 1) /\ (level' = 0 => todo' = {})
  BY <1>4
<1>8. ASSUME NEW v \in Nodes PROVE scores'[v] = Earlier(v)' + 0
  <2>1. Earlier(v) \in Nat
    BY EarlierGrows
  <2> QED BY <1>1, <1>5, <2>1
<1> QED BY <1>5, <1>6, <1>7, <1>8 DEF Backward

LEMMA BackPropagateScores ==
    ASSUME BCTypes, Searched, Backward, NEW u \in Nodes, BackPropagate(u)
    PROVE  Backward'
<1>1. /\ u \in todo /\ todo' = todo \ {u} /\ deltas' = [deltas EXCEPT ![u] = Delta(u)]
      /\ scores' = [scores EXCEPT ![u] = @ + Delta(u)]
      /\ UNCHANGED <<neigh, sources, iter, level>>
  BY DEF BackPropagate, BCargs
<1>2. Source \in Nodes /\ neigh \in GraphsIn /\ level \in Nat
  BY SourceFacts, NodesFinite DEF BCTypes
<1>3. BDist[u] = level - 1 /\ level # 0
  BY <1>1 DEF Backward, OnLevel
<1>4. u \notin Passed
  BY <1>1, <1>2, <1>3 DEF Passed
<1>5. Delta(u) = Due(u)
  <2>1. ASSUME NEW v \in Below(neigh, Source, u) PROVE v \in Passed
    <3>1. v \in Nodes /\ BDist[v] = BDist[u] + 1
      BY <1>2, BelowFacts, BDistIsAway
    <3> QED BY <1>2, <1>3, <3>1 DEF Passed
  <2>2. \A v \in Below(neigh, Source, u) : deltas[v] = Due(v)
    BY <2>1 DEF Backward
  <2> QED BY <2>2, DeltaIs
<1>6. /\ BDist' = BDist /\ (\A k : OnLevel(k)' = OnLevel(k))
      /\ \A v \in Nodes : Earlier(v)' = Earlier(v) /\ Due(v)' = Due(v)
  BY <1>1, KeepDist DEF OnLevel, Earlier, Due, Source
<1>7. Passed' = Passed \cup {u}
  <2>1. \A v \in Nodes : v \in Passed' <=> v \in Passed \/ v = u
    BY <1>1, <1>2, <1>3, <1>6 DEF Passed
  <2> QED BY <2>1 DEF Passed
<1>8. todo' \subseteq OnLevel(level - 1)' /\ (level' = 0 => todo' = {})
  BY <1>1, <1>6 DEF Backward
<1>9. \A v \in Passed' : deltas'[v] = Due(v)'
  <2>1. deltas \in [Nodes -> Nat]
    BY DEF BCTypes
  <2>2. \A v \in Passed : v \in Nodes /\ deltas[v] = Due(v)
    BY DEF Backward, Passed
  <2> QED BY <1>1, <1>4, <1>5, <1>6, <1>7, <2>1, <2>2
<1>10. ASSUME NEW v \in Nodes
       PROVE  scores'[v] = Earlier(v)' + (IF v \in Passed' THEN Due(v)' ELSE 0)
  <2>1. scores \in [Nodes -> Nat] /\ Earlier(v) \in Nat /\ Due(v) \in Nat
    BY EarlierGrows, SourceFacts DEF BCTypes
  <2>2. scores[v] = Earlier(v) + (IF v \in Passed THEN Due(v) ELSE 0)
    BY DEF Backward
  <2>3. CASE v = u
    BY <1>1, <1>4, <1>5, <1>6, <1>7, <2>1, <2>2, <2>3
  <2>4. CASE v # u
    BY <1>1, <1>6, <1>7, <2>1, <2>2, <2>4
  <2> QED BY <2>3, <2>4
<1> QED BY <1>8, <1>9, <1>10 DEF Backward

LEMMA NextLevelScores ==
    ASSUME BCTypes, Searched, Backward, NextLevel
    PROVE  Backward'
<1>1. /\ todo = {} /\ level > 0 /\ level' = level - 1 /\ todo' = QueueLevel(depthIndex, level - 1)
      /\ UNCHANGED <<neigh, sources, iter, deltas, scores>>
  BY DEF NextLevel, BCargs
<1>2. level \in Nat /\ \A v \in Nodes : BDist[v] \in Int
  <2>1. level \in Nat
    BY DEF BCTypes
  <2>2. \A v \in Nodes : BDist[v] \in Int
    BY DistFacts
  <2> QED BY <2>1, <2>2
<1>3. todo' = IF level' = 0 THEN {} ELSE OnLevel(level' - 1)
  <2>1. level - 1 \in 0 .. Len(depthIndex) - 2
    BY <1>1, <1>2 DEF Searched
  <2> QED BY <1>1, <2>1 DEF Searched, CutInto
<1>4. /\ BDist' = BDist /\ (\A k : OnLevel(k)' = OnLevel(k))
      /\ \A v \in Nodes : Earlier(v)' = Earlier(v) /\ Due(v)' = Due(v)
  BY <1>1, KeepDist DEF OnLevel, Earlier, Due, Source
<1>5. Passed' = Passed
  <2>1. ASSUME NEW v \in Nodes PROVE v \in Passed' <=> v \in Passed
    <3>1. v \in Passed' <=> BDist[v] >= 0 /\ (BDist[v] >= level' \/ (BDist[v] = level' - 1 /\ v \notin todo'))
      BY <1>4 DEF Passed
    <3>2. BDist[v] = level' - 1 /\ BDist[v] >= 0 => v \in todo'
      BY <1>1, <1>2, <1>3 DEF OnLevel
    <3>3. v \in Passed <=> BDist[v] >= 0 /\ (BDist[v] >= level \/ BDist[v] = level - 1)
      BY <1>1 DEF Passed
    <3> QED BY <1>1, <1>2, <3>1, <3>2, <3>3
  <2> QED BY <2>1 DEF Passed
<1>6. todo' \subseteq OnLevel(level - 1)' /\ (level' = 0 => todo' = {})
  BY <1>3, <1>4
<1>7. \A v \in Passed : v \in Nodes
  BY DEF Passed
<1> QED BY <1>1, <1>4, <1>5, <1>6, <1>7 DEF Backward

(* At the end of an iteration, all that is due has been added. *)
LEMMA AllPassed ==
    ASSUME BCTypes, Backward, todo = {}, level = 0, NEW v \in Nodes
    PROVE  scores[v] = SumFunctionOnSet(DependenciesOn(neigh, sources, v), 1 .. iter)
<1>1. v \in Passed <=> BDist[v] >= 0
  <2>1. BDist[v] \in Int
    BY DistFacts
  <2> QED BY <2>1 DEF Passed
<1>2. scores[v] = Earlier(v) + Due(v)
  BY <1>1, NotReached DEF Backward
<1> QED BY <1>2, EarlierGrows

LEMMA NextIterationScores ==
    ASSUME BCTypes, Backward, NextIteration
    PROVE  \A v \in Nodes : scores'[v] = Earlier(v)'
<1>1. /\ todo = {} /\ level = 0 /\ iter' = iter + 1
      /\ UNCHANGED <<neigh, sources, scores>>
  BY DEF NextIteration, BCargs, backVars
<1>2. iter' - 1 = iter
  BY <1>1, SourceFacts
<1> QED BY <1>1, <1>2, AllPassed DEF Earlier

LEMMA FinishScores ==
    ASSUME BCTypes, Backward, BCFinish
    PROVE  AllBetween'
<1>1. /\ todo = {} /\ level = 0 /\ iter = Len(sources) /\ biggestScore' = Max(Range(scores))
      /\ UNCHANGED <<neigh, sources, scores>>
  BY DEF BCFinish, BCargs
<1>2. 1 .. iter = DOMAIN sources
  BY <1>1, SourceFacts
<1>3. ASSUME NEW v \in Nodes PROVE scores[v] = Totals(neigh, sources)[v]
  <2>1. scores[v] = SumFunctionOnSet(DependenciesOn(neigh, sources, v), DOMAIN sources)
    BY <1>1, <1>2, AllPassed
  <2>2. DOMAIN DependenciesOn(neigh, sources, v) = DOMAIN sources
    BY DEF DependenciesOn
  <2> QED BY <2>1, <2>2 DEF Totals, SumFunction
<1>4. scores \in [Nodes -> Nat] /\ Totals(neigh, sources) \in [Nodes -> Nat]
  BY SourceFacts, TotalsFacts DEF BCTypes
<1>5. scores = Totals(neigh, sources)
  BY <1>3, <1>4
<1> QED BY <1>1, <1>5 DEF AllBetween

LEMMA ScoresStart == BCInit => ScoreInv
<1> SUFFICES ASSUME BCInit PROVE \A v \in Nodes : scores[v] = Earlier(v)
  BY DEF ScoreInv, BCInit
<1>1. iter = 1 /\ scores = [n \in Nodes |-> 0]
  BY DEF BCInit
<1>2. 1 .. iter - 1 = {}
  BY <1>1
<1> QED BY <1>1, <1>2, SumEmpty DEF Earlier

LEMMA ScoresStep ==
    ASSUME BCInv, ScoreInv, [BCNext]_BCvars
    PROVE  ScoreInv'
<1>0. BCTypes /\ (phase = "search" => Searching) /\ (phase # "search" => Searched)
  BY DEF BCInv
<1>1. ASSUME UNCHANGED <<neigh, sources, iter, phase, scores, biggestScore>>, phase = "search"
      PROVE  ScoreInv'
  <2>1. \A v \in Nodes : Earlier(v)' = Earlier(v)
    BY <1>1 DEF Earlier
  <2> QED BY <1>1, <2>1 DEF ScoreInv
<1>2. ASSUME phase = "search", NEW t \in Threads, BCThreadStep(t) PROVE ScoreInv'
  <2>1. UNCHANGED <<BCargs, iter, phase, backVars>>
    BY <1>2 DEF BCThreadStep, While, BCTake, ReadDepth, BCCas, Test, BCSetBitAtomic, AddPaths, Leave
  <2> QED BY <1>1, <1>2, <2>1 DEF BCargs, backVars
<1>3. CASE Single
  <2>1. phase = "search"
    <3>1. PICK anyone \in Threads : TRUE
      BY BrandesAssumption
    <3>2. pc[anyone] = "barrier"
      BY <1>3 DEF Single, AllArrived
    <3> QED BY <1>0, <3>2 DEF Searched, Resting
  <2>2. UNCHANGED <<BCargs, iter, phase, backVars>>
    BY <1>3 DEF Single
  <2> QED BY <1>1, <2>1, <2>2 DEF BCargs, backVars
<1>4. CASE SearchEnds
  <2>1. phase = "search" /\ phase' = "back"
    BY <1>4 DEF SearchEnds
  <2>2. Backward'
    BY <1>0, <1>4, <2>1, SearchEndsScores DEF ScoreInv
  <2> QED BY <2>1, <2>2 DEF ScoreInv
<1>5. ASSUME NEW u \in Nodes, BackPropagate(u) PROVE ScoreInv'
  <2>1. phase = "back" /\ phase' = phase
    BY <1>5 DEF BackPropagate
  <2>2. Backward'
    BY <1>0, <1>5, <2>1, BackPropagateScores DEF ScoreInv
  <2> QED BY <2>1, <2>2 DEF ScoreInv
<1>6. CASE NextLevel
  <2>1. phase = "back" /\ phase' = phase
    BY <1>6 DEF NextLevel
  <2>2. Backward'
    BY <1>0, <1>6, <2>1, NextLevelScores DEF ScoreInv
  <2> QED BY <2>1, <2>2 DEF ScoreInv
<1>7. CASE NextIteration
  <2>1. phase = "back" /\ phase' = "search"
    BY <1>7 DEF NextIteration
  <2>2. \A v \in Nodes : scores'[v] = Earlier(v)'
    BY <1>0, <1>7, <2>1, NextIterationScores DEF ScoreInv
  <2> QED BY <2>1, <2>2 DEF ScoreInv
<1>8. CASE BCFinish
  <2>1. phase = "back" /\ phase' = "done"
    BY <1>8 DEF BCFinish
  <2>2. AllBetween'
    BY <1>0, <1>8, <2>1, FinishScores DEF ScoreInv
  <2> QED BY <2>1, <2>2 DEF ScoreInv
<1>9. CASE UNCHANGED BCvars
  <2>1. /\ UNCHANGED <<neigh, sources, iter, phase, todo, level, deltas, scores, biggestScore>>
    BY <1>9 DEF BCvars, BCargs, backVars
  <2>2. /\ BDist' = BDist /\ (\A k : OnLevel(k)' = OnLevel(k))
        /\ \A v \in Nodes : Earlier(v)' = Earlier(v) /\ Due(v)' = Due(v)
    BY <2>1, KeepDist DEF OnLevel, Earlier, Due, Source
  <2>3. Passed' = Passed /\ Passed \subseteq Nodes
    BY <2>1, <2>2 DEF Passed
  <2>4. Backward => Backward'
    BY <2>1, <2>2, <2>3 DEF Backward
  <2>5. AllBetween => AllBetween'
    BY <2>1 DEF AllBetween
  <2> QED BY <2>1, <2>2, <2>4, <2>5 DEF ScoreInv
<1>10. CASE BCTerminated
  BY <1>9, <1>10 DEF BCTerminated
<1> QED BY <1>2, <1>3, <1>4, <1>5, <1>6, <1>7, <1>8, <1>9, <1>10 DEF BCNext, BCMasterStep

(* What the verifier adds up, and what betweenness is, are these totals. *)
VerifierScore(g, s) ==
    [u \in Nodes |-> IF Away(g, s)[u] = Unreached THEN 0 ELSE AddedUp(g, s)[u]]
VerifierTotal(g, s) ==
    [u \in Nodes |-> SumFunction([i \in DOMAIN s |-> VerifierScore(g, s[i])[u]])]
Betweenness(g, s) ==
    [u \in Nodes |-> SumFunction([i \in DOMAIN s |-> SumFunction(PathsThrough(g, s[i], u))])]

LEMMA TotalsAre ==
    ASSUME NEW g \in GraphsIn, NEW s \in SourceLists
    PROVE  VerifierTotal(g, s) = Totals(g, s) /\ Betweenness(g, s) = Totals(g, s)
<1>1. ASSUME NEW x \in Nodes, NEW u \in Nodes
      PROVE  /\ VerifierScore(g, x)[u] = Dependency(g, x, u)
             /\ SumFunction(PathsThrough(g, x, u)) = Dependency(g, x, u)
  <2>1. AddedUp(g, x)[u] = Dependency(g, x, u)
    BY AddedUpIs DEF DependencyOf
  <2>2. Away(g, x)[u] = Unreached => Dependency(g, x, u) = 0
    <3>1. Away(g, x)[u] = Unreached => Paths(g, x, u) = 0
      BY PathsFacts
    <3>2. Ahead(g, x, u) \in Nat
      BY AheadFacts
    <3> QED BY <3>1, <3>2 DEF Dependency
  <2>3. VerifierScore(g, x)[u] = Dependency(g, x, u)
    BY <2>1, <2>2 DEF VerifierScore
  <2> QED BY <2>3, DependencyIsShare
<1>2. \A i \in DOMAIN s : s[i] \in Nodes
  BY TotalsFacts
<1>3. ASSUME NEW u \in Nodes
      PROVE  /\ [i \in DOMAIN s |-> VerifierScore(g, s[i])[u]] = DependenciesOn(g, s, u)
             /\ [i \in DOMAIN s |-> SumFunction(PathsThrough(g, s[i], u))] = DependenciesOn(g, s, u)
  BY <1>1, <1>2 DEF DependenciesOn
<1> QED BY <1>3 DEF VerifierTotal, Betweenness, Totals

LEMMA VerifierIs ==
    BCVerifier <=> \A u \in Nodes : scores[u] * Max(Range(VerifierTotal(neigh, sources)))
                                        = VerifierTotal(neigh, sources)[u] * biggestScore
BY DEF BCVerifier, VerifierTotal, VerifierScore, AddedUp, CountedPaths, DeltaOver, PathsOver,
       DownTo, UpFrom, Away

LEMMA ScoresAre ==
    ScoresAreBetweenness <=>
        (phase = "done" =>
            /\ BCVerifier
            /\ scores = Betweenness(neigh, sources)
            /\ biggestScore = Max(Range(Betweenness(neigh, sources)))
            /\ biggestScore = 0 <=> \A i \in DOMAIN sources : Len(neigh[sources[i]]) = 0)
BY DEF ScoresAreBetweenness, Betweenness, PathsThrough, Degree

LEMMA TotalsSuffice ==
    ASSUME neigh \in GraphsIn, sources \in SourceLists,
           phase = "done" => /\ scores = Totals(neigh, sources)
                             /\ biggestScore = Max(Range(scores))
    PROVE  ScoresAreBetweenness
<1> SUFFICES ASSUME phase = "done" PROVE ScoresAreBetweenness
  BY ScoresAre
<1>1. PICK total : total = Totals(neigh, sources)
  OBVIOUS
<1>2. VerifierTotal(neigh, sources) = total /\ Betweenness(neigh, sources) = total
  BY <1>1, TotalsAre
<1>3. /\ scores = total /\ biggestScore = Max(Range(total)) /\ total \in [Nodes -> Nat]
      /\ Max(Range(total)) \in Nat
      /\ Max(Range(total)) = 0 <=> \A i \in DOMAIN sources : Len(neigh[sources[i]]) = 0
  BY <1>1, TotalsFacts, TotalsZero
<1>4. BCVerifier
  BY <1>2, <1>3, VerifierIs
<1> QED BY <1>2, <1>3, <1>4, ScoresAre

(* At the end the scores are betweenness: summed over the sources and the   *)
(* targets, the share of the shortest paths that go through a node, with    *)
(* the largest beside them, which is 0 only if no source has a neighbour;   *)
(* and the program's verifier accepts them.                                 *)
THEOREM BCScoresCorrect == BCSpec => []ScoresAreBetweenness
<1>1. BCInit => ScoreInv
  BY ScoresStart
<1>2. BCInv /\ ScoreInv /\ [BCNext]_BCvars => ScoreInv'
  BY ScoresStep
<1>3. BCInv /\ ScoreInv => ScoresAreBetweenness
  <2> SUFFICES ASSUME BCInv, ScoreInv PROVE ScoresAreBetweenness
    OBVIOUS
  <2>1. neigh \in GraphsIn /\ sources \in SourceLists
    BY DEF BCInv, BCTypes
  <2> QED BY <2>1, TotalsSuffice DEF ScoreInv, AllBetween
<1> QED BY <1>1, <1>2, <1>3, BCInvariance, PTL DEF BCSpec
=============================================================================
