-------------------------- MODULE ComponentKernel --------------------------
(***************************************************************************)
(* What the two connected components kernels, cc.cc and cc_sv.cc, have in  *)
(* common: the graph, the shared array comp, the hand-out of the nodes of  *)
(* a parallel loop, the program's verifier, and what it is to be right.    *)
(***************************************************************************)
EXTENDS Components

CONSTANTS N,         \* the number of nodes
          Threads,
          GraphsIn   \* the graphs to run on

Nodes == 0 .. N - 1

ASSUME KernelAssumption ==
    /\ N \in Nat \ {0}
    /\ \A g \in GraphsIn : Undirected(Nodes, g)

VARIABLES
    neigh,  \* the graph: g.out_neigh
    comp,   \* the parent of each node
    phase,  \* the loop that runs, or "done"
    todo,   \* the nodes no thread has taken in the current loop
    pc, node, edge, x   \* per thread: its step, its node, the edge and Compress's value

Goto(t, step) == pc' = [pc EXCEPT ![t] = step]
-----------------------------------------------------------------------------
(* What the program prints with -v. *)
VerifierAccepts == CCVerifier(comp, Nodes, neigh)

(* At the end two nodes have the same label exactly if they are connected:  *)
(* although Afforest skips the nodes of the sampled component on a label    *)
(* that others are changing, and although in Shiloach-Vishkin a hook that   *)
(* another thread overwrote has joined nothing.  The label is the least     *)
(* node, whatever the schedule was, and the program's own verifier accepts  *)
(* the labels.                                                              *)
ComponentsFound ==
    phase = "done" =>
        /\ LabelsComponents(comp, Nodes, neigh) /\ LabelsWithLeast(comp, Nodes, neigh)
        /\ VerifierAccepts

(* The loops, Link's retries and Compress's walks come to an end in every   *)
(* schedule.                                                                *)
Termination == <>(phase = "done")
=============================================================================
