------------------------------- MODULE Search -------------------------------
(***************************************************************************)
(* What the two searches with a SlidingQueue, bfs.cc and bc.cc, have in    *)
(* common: the graph, the loops over the neighbours of the nodes in the    *)
(* window of the queue, and where each thread is in them.                  *)
(***************************************************************************)
EXTENDS SlidingQueue, Components, Distances, FiniteSetsExt, Functions

CONSTANT GraphsIn  \* the graphs to run on

ASSUME SearchAssumption == \A g \in GraphsIn : Undirected(Nodes, g)

VARIABLES
    neigh,          \* the graph: g.out_neigh
    phase, todo,    \* the loop that runs and its iterations not taken
    pc, node, edge  \* per thread: its step, the node u and the position of v

Degree(n) == Len(neigh[n])

Neighbor(t) == neigh[node[t]][edge[t]]

Goto(t, step) == pc' = [pc EXCEPT ![t] = step]

(* The next neighbour of u, or the next iteration. *)
NextEdge(t) ==
    IF edge[t] < Degree(node[t])
    THEN edge' = [edge EXCEPT ![t] = @ + 1] /\ Goto(t, "read")
    ELSE UNCHANGED edge /\ Goto(t, "idle")

(* All threads meet at every barrier, and the search comes to an end: DOBFS *)
(* although its bottom-up loop goes on while the frontier grows, Brandes    *)
(* with its backward passes.                                                *)
Termination == <>(phase = "done")
=============================================================================
