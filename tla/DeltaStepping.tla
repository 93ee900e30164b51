---------------------------- MODULE DeltaStepping ----------------------------
(***************************************************************************)
(* Single-source shortest paths (sssp.cc): DeltaStep with RelaxEdges, and  *)
(* the trials of BenchmarkKernel around it.  All threads work on a shared  *)
(* frontier, the current bin, and put nodes whose distance they improve    *)
(* into bins of their own; then they vote on the next bin and copy their   *)
(* shares of it into the frontier.                                         *)
(*                                                                         *)
(* Threads meet in dist, in the frontier and in two pairs of cells, one    *)
(* for this iteration and one for the next.  A thread reads the two        *)
(* distances of an edge in one step; its compare and swap is another, and  *)
(* a failed one includes the read that follows.  (Distances only fall: had *)
(* it read that of v earlier, it would pass the edge over all the same, or *)
(* the swap would fail and read it again.)  bins[t] has only the bins of   *)
(* local_bins that are not empty.                                          *)
(***************************************************************************)
EXTENDS Integers, Sequences, FiniteSetsExt, SequencesExt, Functions

CONSTANTS
    N,                \* the number of nodes
    Threads,
    BinSizeThreshold, \* kBinSizeThreshold, 1000 in the code
    DistInf, MaxBin,  \* kDistInf and kMaxBin, halves of the greatest int and size_t
    Inputs            \* graphs, deltas and the sources of the trials

Nodes == 0 .. N - 1

(* neigh[u] lists the pairs <<v, w>> of the edges of u. *)
ASSUME DeltaAssumption ==
    /\ {N, BinSizeThreshold, DistInf, MaxBin} \subseteq Nat \ {0}
    /\ DistInf <= MaxBin /\ Threads # {}
    /\ \A in \in Inputs :
           /\ in.neigh \in [Nodes -> Seq(Nodes \X (Nat \ {0}))]
           /\ in.delta \in Nat \ {0} /\ in.picks \in Seq(Nodes) \ {<<>>}

VARIABLES
    neigh, delta,   \* the arguments of DeltaStep, but for the source
    picks,          \* what a SourcePicker draws, one source after the other
    drawn, vdrawn,  \* how many the kernel's and the verifier's have drawn
    phase,
    dist, frontier,
    sharedIndexes, frontierTails,  \* [iter] of this iteration, [1 - iter] of the next
    iter,                          \* iter & 1
    todo,                          \* the cells of the frontier no thread has taken up
    left,                          \* the threads that have left the loop over them
    pc, node, edge, oldDist, newDist, bins, copied  \* per thread

args == <<neigh, delta, picks>>
trialVars == <<drawn, vdrawn, phase>>
sharedVars == <<sharedIndexes, frontierTails, iter>>
localVars == <<node, edge, oldDist, newDist>>
vars == <<args, trialVars, dist, frontier, sharedVars, todo, left, pc, localVars, bins, copied>>

Steps == {"idle", "relax", "cas", "barrier", "single", "copy", "end"}

None == -1
(* The edges <<u, v, w>> of a graph. *)
EdgesOf(graph) == UNION {{<<u, graph[u][i][1], graph[u][i][2]>> : i \in DOMAIN graph[u]} : u \in Nodes}
Weights == {e[3] : e \in EdgesOf(neigh)}

(* Mutant: an edge of an undirected graph is counted once, as in num_edges. *)
NumEdges == SumFunction([n \in Nodes |-> Len(neigh[n])]) \div 2

NumEdgesDirected == SumFunction([n \in Nodes |-> Len(neigh[n])])

Cells == 0 .. NumEdgesDirected - 1

CurrBin == sharedIndexes[iter]
NextBin == sharedIndexes[1 - iter]
NextTail == frontierTails[1 - iter]

Goto(t, step) == pc' = [pc EXCEPT ![t] = step]
Fresh(x) == [t \in Threads |-> x]

Init ==
    /\ \E in \in Inputs : neigh = in.neigh /\ delta = in.delta /\ picks = in.picks
    /\ drawn = 0 /\ vdrawn = 0 /\ phase = "trial"
    /\ dist = <<>> /\ frontier = <<>>
    /\ sharedIndexes = <<>> /\ frontierTails = <<>> /\ iter = 0 /\ todo = {} /\ left = {}
    /\ pc = Fresh("idle") /\ node = Fresh(0) /\ edge = Fresh(1)
    /\ oldDist = Fresh(0) /\ newDist = Fresh(0)
    /\ bins = <<>> /\ copied = Fresh(<<>>)
-----------------------------------------------------------------------------
(* BenchmarkKernel: the kernel, which draws a source, and the verifier,     *)
(* which draws its own from a SourcePicker with the same seed.              *)

(* DeltaStep up to its parallel region.  The frontier of a graph without    *)
(* edges has no room for the source.                                        *)
StartTrial ==
    /\ phase = "trial" /\ phase' = IF Cells = {} THEN "undefined" ELSE "run"
    /\ drawn' = drawn + 1
    /\ dist' = [n \in Nodes |-> IF n = picks[drawn'] THEN 0 ELSE DistInf]
    /\ frontier' = [i \in Cells |-> IF i = 0 THEN picks[drawn'] ELSE None]
    /\ sharedIndexes' = [i \in {0, 1} |-> IF i = 0 THEN 0 ELSE MaxBin]
    /\ frontierTails' = [i \in {0, 1} |-> IF i = 0 THEN 1 ELSE 0]
    /\ iter' = 0 /\ todo' = {0} /\ left' = {}
    /\ bins' = Fresh(<<>>)
    /\ UNCHANGED <<args, vdrawn, pc, localVars, copied>>

VerifierSource == picks[vdrawn + 1]

Verify ==
    /\ phase = "verify" /\ vdrawn' = vdrawn + 1
    /\ phase' = IF drawn < Len(picks) THEN "trial" ELSE "done"
    /\ UNCHANGED <<args, drawn, dist, frontier, sharedVars, todo, left, pc, localVars, bins, copied>>
-----------------------------------------------------------------------------
(* RelaxEdges. *)

V(t) == neigh[node[t]][edge[t]][1]
W(t) == neigh[node[t]][edge[t]][2]

Relaxing(t, u) ==
    IF neigh[u] = <<>> THEN UNCHANGED <<node, edge, pc>>
    ELSE node' = [node EXCEPT ![t] = u] /\ edge' = [edge EXCEPT ![t] = 1] /\ Goto(t, "relax")

NextEdge(t) ==
    /\ IF edge[t] < Len(neigh[node[t]])
       THEN edge' = [edge EXCEPT ![t] = @ + 1] /\ Goto(t, "relax") /\ UNCHANGED node
       ELSE edge' = [edge EXCEPT ![t] = 1] /\ Goto(t, "idle") /\ node' = [node EXCEPT ![t] = 0]
    /\ oldDist' = [oldDist EXCEPT ![t] = 0] /\ newDist' = [newDist EXCEPT ![t] = 0]

(* while (new_dist < old_dist) *)
TryOrNext(t, old, new) ==
    IF new < old
    THEN /\ oldDist' = [oldDist EXCEPT ![t] = old] /\ newDist' = [newDist EXCEPT ![t] = new]
         /\ Goto(t, "cas") /\ UNCHANGED <<node, edge>>
    ELSE NextEdge(t)

Relax(t) ==
    /\ pc[t] = "relax"
    /\ TryOrNext(t, dist[V(t)], dist[node[t]] + W(t))
    /\ UNCHANGED <<args, trialVars, dist, frontier, sharedVars, todo, left, bins, copied>>

(* Mutant: a plain store in place of the compare and swap. *)
AlwaysSwaps(t) == TRUE

Swaps(t) == dist[V(t)] = oldDist[t]

(* Mutant: a distance on the border of two bins goes into the lower one. *)
DestBinBelow(t) == (newDist[t] - 1) \div delta

DestBin(t) == newDist[t] \div delta

Bin(t, b) == IF b \in DOMAIN bins[t] THEN bins[t][b] ELSE <<>>
Pushed(t, b, n) ==
    [bins EXCEPT ![t] = [c \in DOMAIN bins[t] \cup {b} |-> IF c = b THEN Append(Bin(t, b), n) ELSE bins[t][c]]]
Emptied(t, b) == [bins EXCEPT ![t] = Restrict(@, DOMAIN @ \ {b})]

Cas(t) ==
    /\ pc[t] = "cas"
    /\ IF Swaps(t)
       THEN /\ dist' = [dist EXCEPT ![V(t)] = newDist[t]]
            /\ bins' = Pushed(t, DestBin(t), V(t))
            /\ NextEdge(t)
       ELSE TryOrNext(t, dist[V(t)], newDist[t]) /\ UNCHANGED <<dist, bins>>
    /\ UNCHANGED <<args, trialVars, frontier, sharedVars, todo, left, copied>>
-----------------------------------------------------------------------------
(* The parallel region of DeltaStep. *)

(* An iteration of the loop over the frontier: a node that has gone to a    *)
(* lower bin since it was put here is passed over.                          *)
Take(t, i) ==
    /\ pc[t] = "idle" /\ t \notin left /\ i \in todo
    /\ todo' = todo \ {i}
    /\ IF dist[frontier[i]] >= delta * CurrBin
       THEN Relaxing(t, frontier[i]) ELSE UNCHANGED <<node, edge, pc>>
    /\ UNCHANGED <<args, trialVars, dist, frontier, sharedVars, left, oldDist, newDist, bins, copied>>

(* No iteration is left for this thread.  Others may still relax, and the   *)
(* cells that nobody has taken up may be of the chunks that others were     *)
(* handed (nowait, schedule(dynamic, 64)).                                  *)
AfterLoop(t) ==
    /\ pc[t] = "idle" /\ copied[t] = <<>>
    /\ t \in left \/ todo = {} \/ \E s \in Threads \ {t} : s \notin left

Fusible(t) == Len(Bin(t, CurrBin)) \in 1 .. BinSizeThreshold - 1

(* Bucket fusion: the thread's own share of the current bin is taken at     *)
(* once, however often it fills again.                                      *)
Fuse(t) ==
    /\ AfterLoop(t) /\ Fusible(t)
    /\ copied' = [copied EXCEPT ![t] = Bin(t, CurrBin)]
    /\ bins' = Emptied(t, CurrBin)
    /\ left' = left \cup {t}
    /\ UNCHANGED <<args, trialVars, dist, frontier, sharedVars, todo, pc, localVars>>

TakeCopied(t) ==
    /\ pc[t] = "idle" /\ copied[t] # <<>>
    /\ copied' = [copied EXCEPT ![t] = Tail(@)]
    /\ Relaxing(t, Head(copied[t]))
    /\ UNCHANGED <<args, trialVars, dist, frontier, sharedVars, todo, left, oldDist, newDist, bins>>

Filled(t) == {b \in DOMAIN bins[t] : b >= CurrBin}

(* Mutant: the last vote counts. *)
LastVote(t) == IF Filled(t) = {} THEN NextBin ELSE Min(Filled(t))

(* In the critical section. *)
SmallestVote(t) == Min({NextBin} \cup Filled(t))

Vote(t) ==
    /\ AfterLoop(t) /\ ~Fusible(t)
    /\ sharedIndexes' = [sharedIndexes EXCEPT ![1 - iter] = SmallestVote(t)]
    /\ left' = left \cup {t} /\ Goto(t, "barrier")
    /\ UNCHANGED <<args, trialVars, dist, frontier, frontierTails, iter, todo, localVars, bins, copied>>

(* All threads have voted; one of them will run the `single nowait'. *)
Barrier ==
    /\ phase = "run" /\ \A t \in Threads : pc[t] = "barrier"
    /\ \E s \in Threads : pc' = [t \in Threads |-> IF t = s THEN "single" ELSE "copy"]
    /\ UNCHANGED <<args, trialVars, dist, frontier, sharedVars, todo, left, localVars, bins, copied>>

(* Mutant: the vote of this iteration is left for the next but one. *)
IndexKept == CurrBin

IndexReset == MaxBin

Single(t) ==
    /\ pc[t] = "single" /\ Goto(t, "copy")
    /\ sharedIndexes' = [sharedIndexes EXCEPT ![iter] = IndexReset]
    /\ frontierTails' = [frontierTails EXCEPT ![iter] = 0]
    /\ UNCHANGED <<args, trialVars, dist, frontier, iter, todo, left, localVars, bins, copied>>

(* fetch_and_add makes room in the frontier for the thread's share of the   *)
(* next bin.  Nothing compares it with the size of the array; what happens  *)
(* beyond it is undefined.                                                  *)
Copy(t) ==
    /\ pc[t] = "copy" /\ Goto(t, "end")
    /\ IF NextBin = MaxBin
       THEN UNCHANGED <<phase, frontier, frontierTails, bins>>
       ELSE LET share == Bin(t, NextBin)
            IN /\ frontierTails' = [frontierTails EXCEPT ![1 - iter] = @ + Len(share)]
               /\ phase' = IF NextTail + Len(share) > NumEdgesDirected THEN "undefined" ELSE phase
               /\ frontier' = [i \in Cells |-> IF i \in NextTail .. NextTail + Len(share) - 1
                                               THEN share[i - NextTail + 1] ELSE frontier[i]]
               /\ bins' = Emptied(t, NextBin)
    /\ UNCHANGED <<args, drawn, vdrawn, dist, sharedIndexes, iter, todo, left, localVars, copied>>

(* iter++, the barrier, and the condition of the outer loop. *)
NextIteration ==
    /\ phase = "run" /\ \A t \in Threads : pc[t] = "end"
    /\ iter' = 1 - iter /\ left' = {} /\ pc' = Fresh("idle")
    /\ IF NextBin = MaxBin
       THEN phase' = "verify" /\ todo' = {}
       ELSE phase' = phase /\ todo' = 0 .. NextTail - 1
    /\ UNCHANGED <<args, drawn, vdrawn, dist, frontier, sharedIndexes, frontierTails, localVars, bins, copied>>
-----------------------------------------------------------------------------
ThreadStep(t) ==
    \/ \E i \in todo : Take(t, i)
    \/ Relax(t) \/ Cas(t) \/ Fuse(t) \/ TakeCopied(t) \/ Vote(t) \/ Single(t) \/ Copy(t)

MasterStep == StartTrial \/ Verify \/ Barrier \/ NextIteration

Terminated == phase \in {"done", "undefined"} /\ UNCHANGED vars

Next == MasterStep \/ (phase = "run" /\ \E t \in Threads : ThreadStep(t)) \/ Terminated

Spec == Init /\ [][Next]_vars

(* The threads of the team are scheduled, and go on after a barrier. *)
FairSpec ==
    /\ Spec /\ WF_vars(MasterStep)
    /\ \A t \in Threads : WF_vars(phase = "run" /\ ThreadStep(t))
-----------------------------------------------------------------------------
(* The lengths of the shortest paths of at most k edges from s: those of    *)
(* at most k - 1 edges, and these extended by an edge.                      *)
ShortestWithin(graph, s) ==
    LET within[k \in Nat] ==
            IF k = 0 THEN [n \in Nodes |-> IF n = s THEN 0 ELSE DistInf]
            ELSE LET shorter == within[k - 1]
                 IN [v \in Nodes |-> Min({shorter[v]} \cup
                        {shorter[e[1]] + e[3] : e \in {f \in EdgesOf(graph) : f[2] = v}})]
    IN within[N - 1]

ShortestOf == [graph \in {in.neigh : in \in Inputs} |-> [s \in Nodes |-> ShortestWithin(graph, s)]]
Shortest == ShortestOf[neigh][picks[drawn]]

(* What the program computes with -v: a serial search takes the nodes from  *)
(* a priority queue, the nearest first, and relaxes their edges.            *)
Oracle(graph, s) ==
    LET step[k \in Nat] ==
            IF k = 0 THEN [dist |-> [n \in Nodes |-> IF n = s THEN 0 ELSE DistInf], done |-> {}]
            ELSE LET prev == step[k - 1]
                     queue == {u \in Nodes \ prev.done : prev.dist[u] # DistInf}
                     u == CHOOSE x \in queue : \A v \in queue : prev.dist[x] <= prev.dist[v]
                     from(v) == {prev.dist[u] + e[3] : e \in {f \in EdgesOf(graph) : f[1] = u /\ f[2] = v}}
                 IN IF queue = {} THEN prev
                    ELSE [dist |-> [v \in Nodes |-> Min({prev.dist[v]} \cup from(v))],
                          done |-> prev.done \cup {u}]
    IN step[N].dist

SSSPVerifier == dist = Oracle(neigh, VerifierSource)

(* Types, and that a bin holds only nodes that are near enough for it.      *)
TypeOK ==
    /\ phase \in {"trial", "run", "verify", "done", "undefined"}
    /\ drawn \in 0 .. Len(picks) /\ vdrawn \in 0 .. drawn
    /\ pc \in [Threads -> Steps] /\ node \in [Threads -> Nodes] /\ edge \in [Threads -> Nat \ {0}]
    /\ copied \in [Threads -> Seq(Nodes)] /\ left \subseteq Threads
    /\ drawn > 0 =>
           /\ dist \in [Nodes -> 0 .. DistInf] /\ frontier \in [Cells -> Nodes \cup {None}]
           /\ sharedIndexes \in [{0, 1} -> 0 .. MaxBin] /\ frontierTails \in [{0, 1} -> Nat]
           /\ phase # "undefined" => \A i \in todo : i \in Cells /\ frontier[i] \in Nodes
           /\ \A t \in Threads : \A b \in DOMAIN bins[t] : \A n \in ToSet(bins[t][b]) : dist[n] \div delta <= b

(* sssp.cc:19: DeltaStep returns the distances from its source, whichever   *)
(* thread improved which node in what order; and the program's verifier,    *)
(* with a picker of its own, accepts them in every trial.                   *)
DistancesExact == phase = "verify" => dist = Shortest /\ SSSPVerifier

(* sssp.cc:48: bins are processed in the order of their distances, also     *)
(* with bucket fusion: when the threads work on a bin, every node that      *)
(* belongs to a lower one has its final distance.                           *)
PriorityOrder ==
    phase = "run" /\ CurrBin # MaxBin =>
        \A n \in Nodes : Shortest[n] < delta * CurrBin => dist[n] = Shortest[n]

(* If there are edges and none is shorter than delta, as with the default   *)
(* delta of 1, each edge puts a node into a bin at most once, and the       *)
(* frontier never outgrows its array, which has a cell for each edge.       *)
FrontierFits == Weights # {} /\ (\A w \in Weights : delta <= w) => phase # "undefined"

(* Retries, fusion and iterations come to an end in every schedule.         *)
Termination == <>(phase \in {"done", "undefined"})
=============================================================================
