------------------------------ MODULE Brandes ------------------------------
(***************************************************************************)
(* Betweenness centrality (bc.cc): for each source, PBFS counts the        *)
(* shortest paths to every node, level by level, in one parallel region    *)
(* with a barrier and a `single' per level; Brandes then goes through the  *)
(* levels from the last to the first and adds up dependencies.             *)
(*                                                                         *)
(* In PBFS each access to depths, succ and path_counts is a step.  In the  *)
(* backward pass a thread writes only cells of its own node and reads only *)
(* those of the level below, so a node is one step.  Scores are exact      *)
(* multiples of 1 / Scale instead of floats; the normalization leaves      *)
(* their divisor beside them.  What DirectionOptimizingBFS has under the   *)
(* same name carries the prefix BC here, so that one module of theorems    *)
(* can extend both.                                                        *)
(***************************************************************************)
EXTENDS Search

CONSTANTS
    SourceLists, \* what SourcePicker returns in the iterations
    Scale        \* a common multiple of the numbers of paths (ScaleAssumption)

ASSUME BrandesAssumption ==
    /\ Threads # {} /\ Scale \in Nat \ {0}
    /\ \A g \in GraphsIn : \A u \in Nodes : IsInjective(g[u]) /\ u \notin Range(g[u])
    /\ SourceLists \subseteq Seq(Nodes) \ {<<>>}

VARIABLES
    sources, iter,    \* what SourcePicker returns, and the iteration
    depths, pathCounts,
    succ,             \* the bitmap of edges that lead to the next level
    depthIndex, level,  \* where each level starts in the queue, and the loop over it
    deltas, scores,
    biggestScore,     \* what the scores are divided by in the end; 0 / 0 is not a number
    depth             \* per thread: the local of PBFS

BCargs == <<neigh, sources>>
searchVars == <<depths, pathCounts, succ>>
backVars == <<level, deltas, scores, biggestScore>>
BCthreadVars == <<pc, depth, node, edge>>
BCvars ==
    <<BCargs, iter, phase, todo, queueVars, lqueue, searchVars, depthIndex, backVars, BCthreadVars>>

BCSteps == {"while", "idle", "read", "cas", "test", "set", "add", "barrier", "end"}

Source == sources[iter]
Fresh(x) == [t \in Threads |-> x]

OnlySource(s, x, rest) == [n \in Nodes |-> IF n = s THEN x ELSE rest]

BCInit ==
    /\ neigh \in GraphsIn /\ sources \in SourceLists
    /\ iter = 1 /\ phase = "search"
    /\ depths = OnlySource(Source, 0, -1) /\ pathCounts = OnlySource(Source, 1, 0)
    /\ succ = {}
    /\ queue = Queued(Source) /\ sharedIn = 1 /\ outStart = 0 /\ outEnd = 1
    /\ depthIndex = <<0>> /\ todo = 0 .. 0
    /\ level = 0 /\ deltas = [n \in Nodes |-> 0] /\ scores = [n \in Nodes |-> 0] /\ biggestScore = 0
    /\ pc = Fresh("while") /\ depth = Fresh(0) /\ node = Fresh(0) /\ edge = Fresh(1)
    /\ lqueue = Fresh(<<>>)
-----------------------------------------------------------------------------
(* PBFS. *)

(* while (!queue.empty()) { depth++; ... *)
While(t) ==
    /\ pc[t] = "while"
    /\ IF outStart = outEnd
       THEN Goto(t, "end") /\ UNCHANGED depth
       ELSE Goto(t, "idle") /\ depth' = [depth EXCEPT ![t] = @ + 1]
    /\ UNCHANGED <<BCargs, iter, phase, todo, queueVars, lqueue, searchVars, depthIndex, backVars,
                   node, edge>>

BCTake(t, i) ==
    /\ phase = "search" /\ pc[t] = "idle" /\ i \in todo
    /\ todo' = todo \ {i}
    /\ node' = [node EXCEPT ![t] = queue[i]] /\ edge' = [edge EXCEPT ![t] = 1]
    /\ Goto(t, IF Degree(queue[i]) = 0 THEN "idle" ELSE "read")
    /\ UNCHANGED <<BCargs, iter, phase, queueVars, lqueue, searchVars, depthIndex, backVars, depth>>

ReadDepth(t) ==
    /\ pc[t] = "read"
    /\ Goto(t, IF depths[Neighbor(t)] = -1 THEN "cas" ELSE "test")
    /\ UNCHANGED <<BCargs, iter, phase, todo, queueVars, lqueue, searchVars, depthIndex, backVars,
                   depth, node, edge>>

(* Mutants: a plain store; the compare and swap is repeated for ever. *)
BCAlwaysSwaps(t) == TRUE
RetryCas == "cas"

BCSwaps(t) == depths[Neighbor(t)] = -1

AfterFailedCas == "test"

(* The thread that finds a node also puts it into its buffer and, if that   *)
(* is full, the buffer into the queue.  Nobody reads the queue beyond the   *)
(* window before the next barrier, and the flushes of others only take      *)
(* other places in it, so that this is one step with the compare and swap.  *)
BCCas(t) ==
    /\ pc[t] = "cas"
    /\ IF BCSwaps(t)
       THEN /\ depths' = [depths EXCEPT ![Neighbor(t)] = depth[t]] /\ PushBack(t, Neighbor(t))
            /\ Goto(t, "test")
       ELSE Goto(t, AfterFailedCas) /\ UNCHANGED <<depths, queue, sharedIn, lqueue>>
    /\ UNCHANGED <<BCargs, iter, phase, todo, outStart, outEnd, pathCounts, succ, depthIndex,
                   backVars, depth, node, edge>>

(* Mutant: only the thread that found the node counts its paths. *)
FoundByThread(t) == depths[Neighbor(t)] = depth[t] /\ Neighbor(t) \in Range(lqueue[t])

OnNextLevel(t) == depths[Neighbor(t)] = depth[t]

Test(t) ==
    /\ pc[t] = "test"
    /\ IF OnNextLevel(t) THEN Goto(t, "set") /\ UNCHANGED edge ELSE NextEdge(t)
    /\ UNCHANGED <<BCargs, iter, phase, todo, queueVars, lqueue, searchVars, depthIndex, backVars,
                   depth, node>>

BCSetBitAtomic(t) ==
    /\ pc[t] = "set"
    /\ succ' = succ \cup {<<node[t], edge[t]>>}
    /\ Goto(t, "add")
    /\ UNCHANGED <<BCargs, iter, phase, todo, queueVars, lqueue, depths, pathCounts, depthIndex,
                   backVars, depth, node, edge>>

(* omp atomic *)
AddPaths(t) ==
    /\ pc[t] = "add"
    /\ pathCounts' = [pathCounts EXCEPT ![Neighbor(t)] = @ + pathCounts[node[t]]]
    /\ NextEdge(t)
    /\ UNCHANGED <<BCargs, iter, phase, todo, queueVars, lqueue, depths, succ, depthIndex, backVars,
                   depth, node>>

(* No iteration is left for this thread.  Others may still be in theirs     *)
(* (nowait), and the nodes that nobody has taken may be of the chunks that  *)
(* they were handed (schedule(dynamic, 64)).                                *)
Leave(t) ==
    /\ phase = "search" /\ pc[t] = "idle"
    /\ todo = {} \/ \E s \in Threads \ {t} : pc[s] \in {"idle", "read", "cas", "test", "set", "add"}
    /\ Flush(t) /\ lqueue' = [lqueue EXCEPT ![t] = <<>>]
    /\ Goto(t, "barrier")
    /\ UNCHANGED <<BCargs, iter, phase, todo, outStart, outEnd, searchVars, depthIndex, backVars,
                   depth, node, edge>>

(* Mutant: without the barrier the first thread slides the window. *)
OneArrived == todo = {} /\ \E t \in Threads : pc[t] = "barrier"

AllArrived == \A t \in Threads : pc[t] = "barrier"

(* All threads are at the barrier; one runs the `single', which ends in     *)
(* another barrier.                                                         *)
Single ==
    /\ AllArrived
    /\ depthIndex' = Append(depthIndex, outStart)
    /\ SlideWindow /\ todo' = outEnd .. sharedIn - 1
    /\ pc' = [t \in Threads |-> IF pc[t] = "barrier" THEN "while" ELSE pc[t]]
    /\ node' = Fresh(0) /\ edge' = Fresh(1)
    /\ UNCHANGED <<BCargs, iter, phase, queue, sharedIn, lqueue, searchVars, backVars, depth>>
-----------------------------------------------------------------------------
(* Brandes. *)

QueueLevel(index, i) == {queue[j] : j \in index[i + 1] .. index[i + 2] - 1}

(* The region ends; fresh deltas, and d (level) = depth_index.size() - 2. *)
SearchEnds ==
    /\ phase = "search" /\ \A t \in Threads : pc[t] = "end"
    /\ depthIndex' = Append(depthIndex, outStart)
    /\ level' = Len(depthIndex) - 1
    /\ phase' = "back" /\ todo' = QueueLevel(depthIndex', level')
    /\ deltas' = [n \in Nodes |-> 0]
    /\ pc' = Fresh("while") /\ depth' = Fresh(0)
    /\ UNCHANGED <<BCargs, iter, queueVars, lqueue, searchVars, scores, biggestScore, node, edge>>

Delta(u) ==
    SumFunction([i \in {j \in DOMAIN neigh[u] : <<u, j>> \in succ} |->
                    (pathCounts[u] * (Scale + deltas[neigh[u][i]])) \div pathCounts[neigh[u][i]]])

BackPropagate(u) ==
    /\ phase = "back" /\ u \in todo
    /\ todo' = todo \ {u}
    /\ deltas' = [deltas EXCEPT ![u] = Delta(u)]
    /\ scores' = [scores EXCEPT ![u] = @ + Delta(u)]
    /\ UNCHANGED <<BCargs, iter, phase, queueVars, lqueue, searchVars, depthIndex, level,
                   biggestScore, BCthreadVars>>

NextLevel ==
    /\ phase = "back" /\ todo = {} /\ level > 0
    /\ level' = level - 1 /\ todo' = QueueLevel(depthIndex, level - 1)
    /\ UNCHANGED <<BCargs, iter, phase, queueVars, lqueue, searchVars, depthIndex, deltas, scores,
                   biggestScore, BCthreadVars>>

(* Mutant: the successors of the iteration before are kept. *)
SuccKept == succ

SuccReset == {}

(* path_counts.fill, depth_index.resize, queue.reset, succ.reset, and the   *)
(* beginning of PBFS.                                                       *)
NextIteration ==
    /\ phase = "back" /\ todo = {} /\ level = 0 /\ iter < Len(sources)
    /\ iter' = iter + 1 /\ phase' = "search"
    /\ depths' = OnlySource(sources[iter + 1], 0, -1)
    /\ pathCounts' = OnlySource(sources[iter + 1], 1, 0)
    /\ succ' = SuccReset
    /\ queue' = Queued(sources[iter + 1]) /\ sharedIn' = 1 /\ outStart' = 0 /\ outEnd' = 1
    /\ depthIndex' = <<0>> /\ todo' = 0 .. 0
    /\ UNCHANGED <<BCargs, lqueue, backVars, BCthreadVars>>

(* The normalization. *)
BCFinish ==
    /\ phase = "back" /\ todo = {} /\ level = 0 /\ iter = Len(sources)
    /\ phase' = "done"
    /\ biggestScore' = Max(Range(scores))
    /\ UNCHANGED <<BCargs, iter, todo, queueVars, lqueue, searchVars, depthIndex, level, deltas,
                   scores, BCthreadVars>>
-----------------------------------------------------------------------------
BCThreadStep(t) ==
    \/ While(t) \/ (\E i \in todo : BCTake(t, i)) \/ ReadDepth(t) \/ BCCas(t) \/ Test(t)
    \/ BCSetBitAtomic(t) \/ AddPaths(t) \/ Leave(t)

BCMasterStep == Single \/ SearchEnds \/ NextLevel \/ NextIteration \/ BCFinish

BCTerminated == phase = "done" /\ UNCHANGED BCvars

BCNext ==
    \/ phase = "search" /\ \E t \in Threads : BCThreadStep(t)
    \/ \E u \in Nodes : BackPropagate(u)
    \/ BCMasterStep \/ BCTerminated

BCSpec == BCInit /\ [][BCNext]_BCvars

(* The threads of a team are scheduled, inside the region and in the loops. *)
BCFairSpec ==
    /\ BCSpec /\ WF_BCvars(BCMasterStep) /\ WF_BCvars(\E u \in Nodes : BackPropagate(u))
    /\ \A t \in Threads : WF_BCvars(phase = "search" /\ BCThreadStep(t))
-----------------------------------------------------------------------------
(* What the program computes with -v, with exact scores: a serial search    *)
(* counts the paths, and dependencies are added up from the farthest nodes  *)
(* to the source, along edges to the next depth, and normalized.  It takes  *)
(* no NaN for a mismatch: a comparison with it is false.                    *)
BCVerifier ==
    LET down(dist, u) == {i \in DOMAIN neigh[u] : dist[neigh[u][i]] = dist[u] + 1}
        up(dist, v) == {i \in DOMAIN neigh[v] : dist[neigh[v][i]] = dist[v] - 1}
        score(s) ==
            LET dist == DistancesFrom(Nodes, neigh, s)
                paths[v \in Nodes] ==
                    IF v = s THEN 1 ELSE SumFunction([i \in up(dist, v) |-> paths[neigh[v][i]]])
                delta[u \in Nodes] ==
                    SumFunction([i \in down(dist, u) |->
                        (paths[u] * (Scale + delta[neigh[u][i]])) \div paths[neigh[u][i]]])
            IN [u \in Nodes |-> IF dist[u] = Unreached THEN 0 ELSE delta[u]]
        total == [u \in Nodes |-> SumFunction([i \in DOMAIN sources |-> score(sources[i])[u]])]
    IN \A u \in Nodes : scores[u] * Max(Range(total)) = total[u] * biggestScore
-----------------------------------------------------------------------------
(* Types, and that the queue stays in its array and the levels in the queue. *)
BCTypeOK ==
    /\ neigh \in GraphsIn /\ sources \in SourceLists /\ iter \in DOMAIN sources
    /\ phase \in {"search", "back", "done"} /\ todo \subseteq Nodes
    /\ QueueTypeOK
    /\ depths \in [Nodes -> -1 .. N - 1] /\ pathCounts \in [Nodes -> Nat]
    /\ succ \subseteq Nodes \X (1 .. N) /\ \A e \in succ : e[2] \in DOMAIN neigh[e[1]]
    /\ \A i \in DOMAIN depthIndex :
           depthIndex[i] \in 0 .. N /\ (i > 1 => depthIndex[i - 1] <= depthIndex[i])
    /\ level \in 0 .. N + 1 /\ deltas \in [Nodes -> Nat] /\ scores \in [Nodes -> Nat]
    /\ biggestScore \in Nat
    /\ pc \in [Threads -> BCSteps] /\ depth \in [Threads -> 0 .. N]
    /\ node \in [Threads -> Nodes] /\ edge \in [Threads -> Nat \ {0}]

(* The number of walks of length k from s to every node. *)
Walks(graph, s) ==
    LET walks[k \in Nat] ==
            IF k = 0 THEN OnlySource(s, 1, 0)
            ELSE LET shorter == walks[k - 1]
                 IN [v \in Nodes |-> SumFunctionOnSet(shorter, Range(graph[v]))]
    IN walks

(* The number of shortest paths from s to v. *)
Paths(graph, s, v) ==
    LET dist == DistancesFrom(Nodes, graph, s)
    IN IF dist[v] = Unreached THEN 0 ELSE Walks(graph, s)[dist[v]][v]

(* No quotient leaves a rest. *)
ASSUME ScaleAssumption ==
    \A g \in GraphsIn : \A s, v \in Nodes : Paths(g, s, v) # 0 => Scale % Paths(g, s, v) = 0

(* After the region, whichever thread found a node and in whatever order    *)
(* paths were added, depths are distances, path_counts the numbers of       *)
(* shortest paths, succ the edges between levels, and depth_index cuts the  *)
(* queue, which has each node once, into the levels, an empty one in front. *)
PathsCounted ==
    LET dist == DistancesFrom(Nodes, neigh, Source)
    IN phase = "back" =>
           /\ depths = dist
           /\ \A v \in Nodes : pathCounts[v] = Paths(neigh, Source, v)
           /\ succ = {e \in Nodes \X (1 .. N) :
                         /\ e[2] \in DOMAIN neigh[e[1]] /\ dist[e[1]] # Unreached
                         /\ dist[neigh[e[1]][e[2]]] = dist[e[1]] + 1}
           /\ sharedIn = Cardinality({v \in Nodes : dist[v] # Unreached})
           /\ \A i \in 0 .. Len(depthIndex) - 2 :
                  QueueLevel(depthIndex, i) = {v \in Nodes : dist[v] = i - 1 /\ i > 0}

(* At the end the score of each node is what betweenness is defined to be,  *)
(* in proportion to the largest: over the sources and the targets, the      *)
(* share of the shortest paths that go through it; the source counts as on  *)
(* all of its paths.  Nothing of an iteration is left to the next.  The     *)
(* scores are numbers unless no source has a neighbour, as option -r        *)
(* allows (bc.cc:144).  The program's own verifier agrees.                  *)
ScoresAreBetweenness ==
    LET through(s, u, t) ==
            LET ds == DistancesFrom(Nodes, neigh, s)
                du == DistancesFrom(Nodes, neigh, u)
            IN IF u # t /\ ds[t] # Unreached /\ du[t] # Unreached /\ ds[u] + du[t] = ds[t]
               THEN (Scale * Paths(neigh, s, u) * Paths(neigh, u, t)) \div Paths(neigh, s, t) ELSE 0
        betweenness[u \in Nodes] ==
            SumFunction([i \in DOMAIN sources |->
                SumFunction([t \in Nodes |-> through(sources[i], u, t)])])
        lonely == \A i \in DOMAIN sources : Degree(sources[i]) = 0
    IN phase = "done" =>
           /\ BCVerifier
           /\ scores = betweenness
           /\ biggestScore = Max(Range(betweenness)) /\ (biggestScore = 0 <=> lonely)
=============================================================================
