----------------------- MODULE DirectionOptimizingBFS -----------------------
(***************************************************************************)
(* The breadth-first search of bfs.cc, DOBFS: top-down steps that share a  *)
(* SlidingQueue, bottom-up steps that share two Bitmaps, and the switches  *)
(* between them.  parent[n] < 0 is an unvisited node, and -parent[n] then  *)
(* its degree.                                                             *)
(*                                                                         *)
(* In a top-down step each read and compare-and-swap of parent is a step.  *)
(* In a bottom-up step a thread writes only its own parent cells and reads *)
(* a bitmap nobody writes, so testing a node is one step; set_bit of the   *)
(* other bitmap is not atomic and loads and stores a whole word.  An       *)
(* iteration of a loop may go to any thread, but the bottom-up loop hands  *)
(* out chunks (schedule(dynamic, 1024)).                                   *)
(***************************************************************************)
EXTENDS Search

CONSTANTS
    Alphas, Betas,  \* the values of the parameters alpha, by default 15, and beta, 18
    BitsPerWord,    \* of Bitmap, 64 in the code
    Chunk           \* of the bottom-up loop, 1024 in the code

ASSUME BFSAssumption ==
    /\ Alphas \subseteq Nat \ {0} /\ Betas \subseteq Nat \ {0}
    /\ BitsPerWord \in Nat \ {0} /\ Chunk \in Nat \ {0}
    /\ Chunk % BitsPerWord = 0

VARIABLES
    source, alpha, beta,   \* the arguments of DOBFS beside the graph
    parent,
    front, curr,           \* the Bitmaps, as sets
    edgesToCheck, scoutCount, awakeCount, oldAwakeCount,
    currVal, word          \* per thread: its other locals

countVars == <<edgesToCheck, scoutCount, awakeCount, oldAwakeCount>>
threadVars == <<pc, node, edge, currVal, word, lqueue>>
args == <<neigh, source, alpha, beta>>
vars == <<args, parent, queueVars, front, curr, countVars, phase, todo, threadVars>>

PhaseNames == {"loop", "td", "td_flush", "to_bitmap", "bu", "to_queue", "to_queue_flush", "done"}
Steps == {"idle", "read", "cas", "push", "scan", "store_bit", "flushed"}

NumEdgesDirected == SumFunction([n \in Nodes |-> Degree(n)])

(* C++ division rounds towards zero. *)
Quotient(a, b) == IF a >= 0 THEN a \div b ELSE -((-a) \div b)

(* Mutant: a node without a neighbour gets -0, a parent. *)
InitialParentZero(n) == -Degree(n)

(* InitParent, and parent[source] = source. *)
InitialParent(n) == IF Degree(n) # 0 THEN -Degree(n) ELSE -1

(* The locals of the threads, when no parallel loop runs. *)
FreshNode == [t \in Threads |-> 0]
FreshEdge == [t \in Threads |-> 1]

(* SourcePicker: the node given with -r, or a random node with an edge. *)
PickNext(given) == IF given # -1 THEN {given} ELSE {n \in Nodes : Degree(n) # 0}

Init ==
    /\ neigh \in GraphsIn /\ alpha \in Alphas /\ beta \in Betas
    /\ \E given \in Nodes \cup {-1} : source \in PickNext(given)
    /\ parent = [n \in Nodes |-> IF n = source THEN source ELSE InitialParent(n)]
    /\ queue = Queued(source)
    /\ sharedIn = 1 /\ outStart = 0 /\ outEnd = 1
    /\ front = {} /\ curr = {}
    /\ edgesToCheck = NumEdgesDirected /\ scoutCount = Degree(source)
    /\ awakeCount = 0 /\ oldAwakeCount = 0
    /\ phase = "loop" /\ todo = {}
    /\ pc = [t \in Threads |-> "idle"]
    /\ node = FreshNode /\ edge = FreshEdge
    /\ currVal = [t \in Threads |-> 0]
    /\ word = [t \in Threads |-> {}] /\ lqueue = [t \in Threads |-> <<>>]
-----------------------------------------------------------------------------
(* DOBFS, between the parallel loops. *)

LoopEnds == todo = {} /\ \A t \in Threads : pc[t] = "idle"

Bottom == scoutCount > Quotient(edgesToCheck, alpha)

StartTopDown ==
    /\ phase = "loop" /\ outStart # outEnd /\ ~Bottom
    /\ edgesToCheck' = edgesToCheck - scoutCount /\ scoutCount' = 0
    /\ phase' = "td" /\ todo' = Window
    /\ UNCHANGED <<args, parent, queueVars, front, curr, awakeCount, oldAwakeCount, threadVars>>

StartConversion ==
    /\ phase = "loop" /\ outStart # outEnd /\ Bottom
    /\ phase' = "to_bitmap" /\ todo' = Window
    /\ UNCHANGED <<args, parent, queueVars, front, curr, countVars, threadVars>>

Chunks == 0 .. (N - 1) \div Chunk

(* old_awake_count = awake_count and BUStep, up to its loop: next.reset(). *)
BottomUp(awake) ==
    /\ oldAwakeCount' = awake /\ awakeCount' = 0
    /\ phase' = "bu" /\ todo' = Chunks

(* Mutant: the bitmap written by the next step is not reset. *)
Unreset(bitmap) == bitmap

Reset(bitmap) == {}

(* The queue is now in `front', with whatever front held before. *)
Converted ==
    /\ phase = "to_bitmap" /\ LoopEnds
    /\ SlideWindow /\ UNCHANGED <<queue, sharedIn>>
    /\ BottomUp(outEnd - outStart) /\ curr' = Reset(curr)
    /\ UNCHANGED <<args, parent, front, edgesToCheck, scoutCount, threadVars>>

(* Mutant: the count of the step before is taken after this step. *)
GrowingLateOld == awakeCount >= awakeCount \/ awakeCount > N \div beta

Growing == awakeCount >= oldAwakeCount \/ awakeCount > N \div beta

(* front.swap(curr), and the loop again: BUStep resets the other bitmap. *)
BottomUpAgain ==
    /\ phase = "bu" /\ LoopEnds /\ Growing
    /\ BottomUp(awakeCount) /\ front' = curr /\ curr' = Reset(front)
    /\ node' = FreshNode
    /\ UNCHANGED <<args, parent, queueVars, edgesToCheck, scoutCount, pc, edge, currVal, word, lqueue>>

BottomUpEnds ==
    /\ phase = "bu" /\ LoopEnds /\ ~Growing
    /\ front' = curr /\ curr' = front
    /\ phase' = "to_queue" /\ todo' = Nodes
    /\ node' = FreshNode
    /\ UNCHANGED <<args, parent, queueVars, countVars, pc, edge, currVal, word, lqueue>>

(* The barrier at the end of an `omp for' whose threads then flush. *)
StartFlush ==
    /\ phase \in {"td", "to_queue"} /\ LoopEnds
    /\ phase' = (IF phase = "td" THEN "td_flush" ELSE "to_queue_flush")
    /\ UNCHANGED <<args, parent, queueVars, front, curr, countVars, todo, threadVars>>

(* The end of TDStep or BitmapToQueue, and slide_window. *)
Flushed ==
    /\ phase \in {"td_flush", "to_queue_flush"} /\ \A t \in Threads : pc[t] = "flushed"
    /\ SlideWindow
    /\ phase' = "loop" /\ pc' = [t \in Threads |-> "idle"]
    /\ node' = FreshNode /\ edge' = FreshEdge
    /\ scoutCount' = IF phase = "td_flush" THEN scoutCount ELSE 1
    /\ UNCHANGED <<args, parent, queue, sharedIn, front, curr, edgesToCheck, awakeCount,
                   oldAwakeCount, todo, currVal, word, lqueue>>

(* Mutant: the degrees of nodes that were not reached are left. *)
Uncleared(p) == p

Cleared(p) == IF p < -1 THEN -1 ELSE p

(* The queue is empty; the last loop clears the degrees. *)
Finish ==
    /\ phase = "loop" /\ outStart = outEnd
    /\ phase' = "done"
    /\ parent' = [n \in Nodes |-> Cleared(parent[n])]
    /\ UNCHANGED <<args, queueVars, front, curr, countVars, todo, threadVars>>
-----------------------------------------------------------------------------
(* The flush at the end of a parallel region. *)
LastFlush(t) ==
    /\ phase \in {"td_flush", "to_queue_flush"} /\ pc[t] = "idle"
    /\ Flush(t) /\ lqueue' = [lqueue EXCEPT ![t] = <<>>]
    /\ Goto(t, "flushed")
    /\ UNCHANGED <<args, parent, outStart, outEnd, front, curr, countVars, phase, todo,
                   node, edge, currVal, word>>
-----------------------------------------------------------------------------
(* TDStep. *)

Take(t, i) ==
    /\ phase = "td" /\ pc[t] = "idle" /\ i \in todo
    /\ todo' = todo \ {i}
    /\ node' = [node EXCEPT ![t] = queue[i]] /\ edge' = [edge EXCEPT ![t] = 1]
    /\ Goto(t, IF Degree(queue[i]) = 0 THEN "idle" ELSE "read")
    /\ UNCHANGED <<args, parent, queueVars, front, curr, countVars, phase, currVal, word, lqueue>>

ReadParent(t) ==
    /\ pc[t] = "read"
    /\ IF parent[Neighbor(t)] < 0
       THEN /\ currVal' = [currVal EXCEPT ![t] = parent[Neighbor(t)]]
            /\ Goto(t, "cas") /\ UNCHANGED edge
       ELSE NextEdge(t) /\ UNCHANGED currVal
    /\ UNCHANGED <<args, parent, queueVars, front, curr, countVars, phase, todo, node, word, lqueue>>

(* Mutant: a plain store in place of the compare and swap. *)
AlwaysSwaps(t) == TRUE

Swaps(t) == parent[Neighbor(t)] = currVal[t]

Cas(t) ==
    /\ pc[t] = "cas"
    /\ IF Swaps(t)
       THEN /\ parent' = [parent EXCEPT ![Neighbor(t)] = node[t]]
            /\ scoutCount' = scoutCount - currVal[t]
            /\ Goto(t, "push") /\ UNCHANGED edge
       ELSE NextEdge(t) /\ UNCHANGED <<parent, scoutCount>>
    /\ currVal' = [currVal EXCEPT ![t] = 0]
    /\ UNCHANGED <<args, queueVars, front, curr, edgesToCheck, awakeCount, oldAwakeCount,
                   phase, todo, node, word, lqueue>>

Push(t) ==
    /\ pc[t] = "push"
    /\ PushBack(t, Neighbor(t))
    /\ NextEdge(t)
    /\ UNCHANGED <<args, parent, outStart, outEnd, front, curr, countVars, phase, todo,
                   node, currVal, word>>
-----------------------------------------------------------------------------
(* QueueToBitmap, with set_bit_atomic, and BitmapToQueue. *)

SetBitAtomic(i) ==
    /\ phase = "to_bitmap" /\ i \in todo
    /\ todo' = todo \ {i}
    /\ front' = front \cup {queue[i]}
    /\ UNCHANGED <<args, parent, queueVars, curr, countVars, phase, threadVars>>

GetBit(t, n) ==
    /\ phase = "to_queue" /\ n \in todo
    /\ todo' = todo \ {n}
    /\ IF n \in front THEN PushBack(t, n) ELSE UNCHANGED <<queue, sharedIn, lqueue>>
    /\ UNCHANGED <<args, parent, outStart, outEnd, front, curr, countVars, phase,
                   pc, node, edge, currVal, word>>
-----------------------------------------------------------------------------
(* BUStep. *)

(* Mutant: the first chunk is one node longer than the others. *)
ChunkNodesUneven(c) == {n \in Nodes : Max({0, n - 1}) \div Chunk = c}

ChunkNodes(c) == {n \in Nodes : n \div Chunk = c}

Word(n) == {m \in Nodes : m \div BitsPerWord = n \div BitsPerWord}

TakeChunk(t, c) ==
    /\ phase = "bu" /\ pc[t] = "idle" /\ c \in todo
    /\ todo' = todo \ {c}
    /\ node' = [node EXCEPT ![t] = Min(ChunkNodes(c))]
    /\ Goto(t, "scan")
    /\ UNCHANGED <<args, parent, queueVars, front, curr, countVars, phase, edge, currVal, word, lqueue>>

(* The next node of the chunk, or the next chunk. *)
NextNode(t) ==
    IF \E c \in Chunks : {node[t], node[t] + 1} \subseteq ChunkNodes(c)
    THEN node' = [node EXCEPT ![t] = @ + 1] /\ Goto(t, "scan")
    ELSE UNCHANGED node /\ Goto(t, "idle")

(* Mutant: the bits set by this step are taken for the frontier, too. *)
HitsOrNext(n) == {i \in DOMAIN neigh[n] : neigh[n][i] \in front \cup curr}

(* The neighbours of n in the frontier. *)
Hits(n) == {i \in DOMAIN neigh[n] : neigh[n][i] \in front}

(* An unvisited node takes its first neighbour in the frontier for a        *)
(* parent; set_bit then loads the word of its bit.                          *)
Scan(t) ==
    /\ pc[t] = "scan"
    /\ IF parent[node[t]] < 0 /\ Hits(node[t]) # {}
       THEN /\ parent' = [parent EXCEPT ![node[t]] = neigh[node[t]][Min(Hits(node[t]))]]
            /\ awakeCount' = awakeCount + 1
            /\ word' = [word EXCEPT ![t] = curr \cap Word(node[t])]
            /\ Goto(t, "store_bit") /\ UNCHANGED node
       ELSE NextNode(t) /\ UNCHANGED <<parent, awakeCount, word>>
    /\ UNCHANGED <<args, queueVars, front, curr, edgesToCheck, scoutCount, oldAwakeCount,
                   phase, todo, edge, currVal, lqueue>>

StoreBit(t) ==
    /\ pc[t] = "store_bit"
    /\ curr' = (curr \ Word(node[t])) \cup word[t] \cup {node[t]}
    /\ word' = [word EXCEPT ![t] = {}]
    /\ NextNode(t)
    /\ UNCHANGED <<args, parent, queueVars, front, countVars, phase, todo,
                   edge, currVal, lqueue>>
-----------------------------------------------------------------------------
ThreadStep(t) ==
    \/ \E i \in todo : Take(t, i) \/ GetBit(t, i) \/ TakeChunk(t, i)
    \/ ReadParent(t) \/ Cas(t) \/ Push(t) \/ LastFlush(t)
    \/ Scan(t) \/ StoreBit(t)

MasterStep ==
    \/ StartTopDown \/ StartConversion \/ Converted \/ BottomUpAgain \/ BottomUpEnds
    \/ StartFlush \/ Flushed \/ Finish

Terminated == phase = "done" /\ UNCHANGED vars

Next ==
    (\E t \in Threads : ThreadStep(t)) \/ (\E i \in todo : SetBitAtomic(i)) \/ MasterStep \/ Terminated

Spec == Init /\ [][Next]_vars

(* Every thread of the team is scheduled, and the master goes on after the  *)
(* barrier of a loop.                                                       *)
FairSpec ==
    /\ Spec /\ WF_vars(MasterStep) /\ WF_vars(\E i \in todo : SetBitAtomic(i))
    /\ \A t \in Threads : WF_vars(ThreadStep(t))
-----------------------------------------------------------------------------
(* What the program prints with -v: a serial search finds the depths, and   *)
(* every node it reaches must have a neighbour one level up for a parent.   *)
BFSVerifier ==
    LET depth == DistancesFrom(Nodes, neigh, source)
    IN \A u \in Nodes :
           IF depth[u] # Unreached /\ parent[u] # -1
           THEN IF u = source THEN parent[u] = u /\ depth[u] = 0
                ELSE \E i \in DOMAIN neigh[u] :
                         neigh[u][i] = parent[u] /\ depth[parent[u]] = depth[u] - 1
           ELSE depth[u] = parent[u]
-----------------------------------------------------------------------------
(* Types, that the queue stays in its array, and that at the end a parent   *)
(* is a node or -1.                                                         *)
TypeOK ==
    /\ neigh \in GraphsIn /\ source \in Nodes /\ alpha \in Alphas /\ beta \in Betas
    /\ parent \in [Nodes -> {p \in Int : p < N}]
    /\ QueueTypeOK
    /\ front \subseteq Nodes /\ curr \subseteq Nodes
    /\ scoutCount \in Nat /\ awakeCount \in 0 .. N /\ oldAwakeCount \in 0 .. N
    /\ edgesToCheck \in Int
    /\ phase \in PhaseNames /\ todo \subseteq Nodes
    /\ pc \in [Threads -> Steps] /\ node \in [Threads -> Nodes] /\ edge \in [Threads -> Nat \ {0}]
    /\ currVal \in [Threads -> Int] /\ word \in [Threads -> SUBSET Nodes]
    /\ phase = "done" => parent \in [Nodes -> Nodes \cup {-1}]

(* No node is ever in the queue twice, window or not, although top-down     *)
(* steps, threads that race for it and conversions all may put it there:    *)
(* this is why an array of num_nodes is enough for the whole search.        *)
QueuedOnce ==
    \A i, j \in 0 .. sharedIn - 1 : queue[i] = queue[j] => i = j

(* At the end the parents are a tree of shortest paths from the source over *)
(* exactly the nodes it reaches, whichever steps were top-down or bottom-up *)
(* and whatever bits front still had; and the program's own verifier        *)
(* accepts them.                                                            *)
ShortestPathTree ==
    LET dist == DistancesFrom(Nodes, neigh, source)
    IN phase = "done" =>
           /\ BFSVerifier
           /\ parent[source] = source
           /\ \A v \in Nodes \ {source} :
                  IF dist[v] = Unreached THEN parent[v] = -1
                  ELSE /\ parent[v] \in Nodes /\ dist[v] = dist[parent[v]] + 1
                       /\ \E i \in DOMAIN neigh[v] : neigh[v][i] = parent[v]

Tree == [n \in Nodes |-> IF parent[n] >= 0 THEN parent[n] ELSE None]

Levels == INSTANCE LevelOrder WITH tree <- Tree

(* At every moment, not only at the end, nodes join the tree as LevelOrder  *)
(* says: once, under a neighbour, and no level before the one above is      *)
(* complete, across the switches between the two kinds of step.             *)
JoinsByLevel == Levels!Spec
=============================================================================
