---------------------- MODULE MCDirectionOptimizingBFS ----------------------
(***************************************************************************)
(* Breadth-first search on graphs of eight nodes.  With alpha = 6, Bounce  *)
(* goes from node 0 bottom-up, top-down and bottom-up again, so that the   *)
(* second bottom-up phase starts with an old bit in the bitmap; with       *)
(* alpha = 1 most steps are top-down, and the nodes of a frontier race for *)
(* the same neighbours.  Clusters is not connected.                        *)
(***************************************************************************)
EXTENDS DirectionOptimizingBFS, SequencesExt

Lists(edges) == [u \in Nodes |-> SetToSortSeq({v \in Nodes : {u, v} \in edges}, <)]

Bounce == {{0, 1}, {0, 2}, {0, 3}, {3, 4}, {4, 5}, {4, 6}, {5, 7}, {6, 7}}
Lattice == {{0, 1}, {0, 2}, {1, 3}, {2, 3}, {1, 4}, {2, 4}, {3, 5}, {4, 5}}
Clusters == {{0, 1}, {0, 2}, {1, 2}, {3, 4}, {4, 5}}

SwitchingGraphs == {Lists(edges) : edges \in {Bounce, Lattice, Clusters}}
=============================================================================
