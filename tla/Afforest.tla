------------------------------ MODULE Afforest ------------------------------
(***************************************************************************)
(* The connected components kernel of cc.cc: Afforest with its two helpers *)
(* Link and Compress, run by OpenMP threads over the shared array comp.    *)
(* Each read or write of comp by Link is a step of its own.  A parallel    *)
(* loop hands its nodes to the threads in any order (schedule(dynamic))    *)
(* and ends when all are done.                                             *)
(***************************************************************************)
EXTENDS ComponentKernel

CONSTANT NeighborRounds  \* how many neighbours of each node are sampled

ASSUME AfforestAssumption == NeighborRounds \in Nat

VARIABLES
    round,  \* the variable r of the sampling rounds
    skip,   \* the component c that SampleFrequentElement returned
    p1, p2  \* per thread: the locals of Link

threadVars == <<pc, node, edge, p1, p2, x>>
vars == <<neigh, comp, phase, round, todo, skip, pc, node, edge, p1, p2, x>>

PhaseNames == {"link", "compress", "sample", "rest", "final", "done"}
Steps == {"idle", "check", "load_u", "load_v", "load_high", "cas", "retry_high",
          "retry_p1", "retry_p2", "walk", "reread", "write"}

Init ==
    /\ neigh \in GraphsIn
    /\ comp = [n \in Nodes |-> n]
    /\ phase = (IF NeighborRounds = 0 THEN "sample" ELSE "link")
    /\ round = 0 /\ skip = 0
    /\ todo = Nodes
    /\ pc = [t \in Threads |-> "idle"]
    /\ node = [t \in Threads |-> 0] /\ edge = [t \in Threads |-> 1]
    /\ p1 = [t \in Threads |-> 0] /\ p2 = [t \in Threads |-> 0] /\ x = [t \in Threads |-> 0]

Neighbor(t) == neigh[node[t]][edge[t]]

(* Mutant: the first parent is hooked under the second, however they compare. *)
FirstParent(t) == p1[t]

High(t) == IF p1[t] > p2[t] THEN p1[t] ELSE p2[t]

Low(t) == p1[t] + (p2[t] - High(t))
-----------------------------------------------------------------------------
(* The parallel loops. *)

(* A thread takes a node: Compress walks from it, the sampling rounds link  *)
(* it to its neighbour number `round', if it has one, and the last loop     *)
(* first looks at its component.                                            *)
Take(t, n) ==
    /\ pc[t] = "idle" /\ n \in todo
    /\ todo' = todo \ {n}
    /\ node' = [node EXCEPT ![t] = n]
    /\ \/ /\ phase = "link" /\ round < Len(neigh[n])
          /\ edge' = [edge EXCEPT ![t] = round + 1]
          /\ Goto(t, "load_u")
       \/ /\ phase = "link" /\ round >= Len(neigh[n])
          /\ UNCHANGED <<edge, pc>>
       \/ /\ phase = "rest" /\ Goto(t, "check")
          /\ UNCHANGED edge
       \/ /\ phase \in {"compress", "final"} /\ Goto(t, "walk")
          /\ UNCHANGED edge
    /\ UNCHANGED <<neigh, comp, phase, round, skip, p1, p2, x>>

(* `if (comp[u] == c) continue', else the neighbours after the sampled ones. *)
Check(t) ==
    /\ pc[t] = "check"
    /\ IF comp[node[t]] # skip /\ NeighborRounds < Len(neigh[node[t]])
       THEN /\ edge' = [edge EXCEPT ![t] = NeighborRounds + 1]
            /\ Goto(t, "load_u")
       ELSE /\ UNCHANGED edge
            /\ Goto(t, "idle")
    /\ UNCHANGED <<neigh, comp, phase, round, todo, skip, node, p1, p2, x>>

(* The barrier at the end of a parallel loop, and what comes next. *)
Barrier ==
    /\ todo = {} /\ \A t \in Threads : pc[t] = "idle"
    /\ \/ /\ phase = "link" /\ phase' = "compress"
          /\ todo' = Nodes /\ UNCHANGED round
       \/ /\ phase = "compress" /\ round' = round + 1
          /\ phase' = IF round' < NeighborRounds THEN "link" ELSE "sample"
          /\ todo' = Nodes
       \/ /\ phase = "rest" /\ phase' = "final"
          /\ todo' = Nodes /\ UNCHANGED round
       \/ /\ phase = "final" /\ phase' = "done"
          /\ UNCHANGED <<todo, round>>
    /\ UNCHANGED <<neigh, comp, skip, threadVars>>

(* SampleFrequentElement returns the component of one of the nodes it drew. *)
Sample ==
    /\ phase = "sample" /\ phase' = "rest"
    /\ \E n \in Nodes : skip' = comp[n]
    /\ UNCHANGED <<neigh, comp, round, todo, threadVars>>
-----------------------------------------------------------------------------
(* Link(u, v, comp). *)

(* Link returns: the next edge of the last loop, or the next node. *)
LinkEnds(t) ==
    IF phase = "rest" /\ edge[t] < Len(neigh[node[t]])
    THEN /\ edge' = [edge EXCEPT ![t] = @ + 1]
         /\ Goto(t, "load_u")
    ELSE /\ UNCHANGED edge
         /\ Goto(t, "idle")

LinkOrElse(t, ends, step) ==
    IF ends THEN LinkEnds(t) ELSE Goto(t, step) /\ UNCHANGED edge

LoadU(t) ==
    /\ pc[t] = "load_u"
    /\ p1' = [p1 EXCEPT ![t] = comp[node[t]]]
    /\ Goto(t, "load_v")
    /\ UNCHANGED <<neigh, comp, phase, round, todo, skip, node, edge, p2, x>>

LoadV(t) ==
    /\ pc[t] = "load_v"
    /\ p2' = [p2 EXCEPT ![t] = comp[Neighbor(t)]]
    /\ LinkOrElse(t, p1[t] = comp[Neighbor(t)], "load_high")
    /\ UNCHANGED <<neigh, comp, phase, round, todo, skip, node, p1, x>>

(* p_high = comp[high]: already low, still a root, or hooked by another. *)
LoadHigh(t) ==
    /\ pc[t] = "load_high"
    /\ LinkOrElse(t, comp[High(t)] = Low(t),
                  IF comp[High(t)] = High(t) THEN "cas" ELSE "retry_high")
    /\ UNCHANGED <<neigh, comp, phase, round, todo, skip, node, p1, p2, x>>

(* Mutant: a plain store in place of the compare and swap. *)
AlwaysSwaps(t) == TRUE

Swaps(t) == comp[High(t)] = High(t)

Cas(t) ==
    /\ pc[t] = "cas"
    /\ comp' = IF Swaps(t) THEN [comp EXCEPT ![High(t)] = Low(t)] ELSE comp
    /\ LinkOrElse(t, Swaps(t), "retry_high")
    /\ UNCHANGED <<neigh, phase, round, todo, skip, node, p1, p2, x>>

(* p1 = comp[comp[high]]; p2 = comp[low] *)
RetryHigh(t) ==
    /\ pc[t] = "retry_high"
    /\ x' = [x EXCEPT ![t] = comp[High(t)]]
    /\ Goto(t, "retry_p1")
    /\ UNCHANGED <<neigh, comp, phase, round, todo, skip, node, edge, p1, p2>>

(* Mutant: p1 is not read again. *)
KeptP1(t) == High(t)

ReloadedP1(t) == comp[x[t]]

RetryP1(t) ==
    /\ pc[t] = "retry_p1"
    /\ p1' = [p1 EXCEPT ![t] = ReloadedP1(t)]
    /\ x' = [x EXCEPT ![t] = Low(t)]
    /\ Goto(t, "retry_p2")
    /\ UNCHANGED <<neigh, comp, phase, round, todo, skip, node, edge, p2>>

RetryP2(t) ==
    /\ pc[t] = "retry_p2"
    /\ p2' = [p2 EXCEPT ![t] = comp[x[t]]]
    /\ LinkOrElse(t, p1[t] = comp[x[t]], "load_high")
    /\ UNCHANGED <<neigh, comp, phase, round, todo, skip, node, p1, x>>
-----------------------------------------------------------------------------
(* Compress(g, comp): only its own thread writes comp[n], so reading        *)
(* comp[comp[n]] is one read of another's cell; the loop's condition and    *)
(* its body read it separately.                                             *)
Walk(t) ==
    /\ pc[t] = "walk"
    /\ Goto(t, IF comp[node[t]] = comp[comp[node[t]]] THEN "idle" ELSE "reread")
    /\ UNCHANGED <<neigh, comp, phase, round, todo, skip, node, edge, p1, p2, x>>

Reread(t) ==
    /\ pc[t] = "reread"
    /\ x' = [x EXCEPT ![t] = comp[comp[node[t]]]]
    /\ Goto(t, "write")
    /\ UNCHANGED <<neigh, comp, phase, round, todo, skip, node, edge, p1, p2>>

Write(t) ==
    /\ pc[t] = "write"
    /\ comp' = [comp EXCEPT ![node[t]] = x[t]]
    /\ Goto(t, "walk")
    /\ UNCHANGED <<neigh, phase, round, todo, skip, node, edge, p1, p2, x>>
-----------------------------------------------------------------------------
LinkStep(t) ==
    LoadU(t) \/ LoadV(t) \/ LoadHigh(t) \/ Cas(t) \/ RetryHigh(t) \/ RetryP1(t) \/ RetryP2(t)

CompressStep(t) == Walk(t) \/ Reread(t) \/ Write(t)

ThreadStep(t) == (\E n \in Nodes : Take(t, n)) \/ Check(t) \/ LinkStep(t) \/ CompressStep(t)

Terminated == phase = "done" /\ UNCHANGED vars

Next == (\E t \in Threads : ThreadStep(t)) \/ Barrier \/ Sample \/ Terminated

Spec == Init /\ [][Next]_vars

(* Every thread of the team is scheduled, and the master goes on after a    *)
(* barrier that all have reached.                                           *)
FairSpec == Spec /\ WF_vars(Barrier \/ Sample) /\ \A t \in Threads : WF_vars(ThreadStep(t))
-----------------------------------------------------------------------------
(* Types, and that parents never have a larger number than their children,  *)
(* which is why the forest has no cycle.                                    *)
TypeOK ==
    /\ neigh \in GraphsIn
    /\ comp \in [Nodes -> Nodes] /\ \A n \in Nodes : comp[n] <= n
    /\ phase \in PhaseNames /\ round \in Nat /\ skip \in Nodes
    /\ todo \subseteq Nodes
    /\ pc \in [Threads -> Steps]
    /\ node \in [Threads -> Nodes] /\ edge \in [Threads -> Nat \ {0}]
    /\ p1 \in [Threads -> Nodes] /\ p2 \in [Threads -> Nodes] /\ x \in [Threads -> Nodes]

(* S is a union of trees of the forest. *)
UnionOfTrees(S) == \A n \in Nodes : n \in S <=> comp[n] \in S

(* Trees are only merged: neither a hook nor a compression, done with       *)
(* whatever stale values, ever takes a tree apart, so every set that is a   *)
(* union of trees after a step was one before.                              *)
TreesOnlyMerge == [][\A S \in SUBSET Nodes : UnionOfTrees(S)' => UnionOfTrees(S)]_comp
=============================================================================
