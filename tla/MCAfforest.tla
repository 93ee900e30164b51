---------------------------- MODULE MCAfforest ----------------------------
(***************************************************************************)
(* Afforest on small undirected graphs, their lists sorted as SquishCSR    *)
(* leaves them.  One sampled neighbour already makes the last loop matter; *)
(* two threads make every conflict on a cell of comp.                      *)
(***************************************************************************)
EXTENDS Afforest, FiniteSets, SequencesExt

Lists(n, edges) ==
    [u \in 0 .. n - 1 |-> SetToSortSeq({v \in 0 .. n - 1 : {u, v} \in edges}, <)]

Star == {{0, 3}, {1, 3}, {2, 3}}
Path == {{0, 3}, {1, 3}, {1, 2}}
Cycle == {{0, 1}, {1, 2}, {2, 3}, {0, 3}}
Triangle == {{1, 2}, {2, 3}, {1, 3}}
Matching == {{0, 2}, {1, 3}}

FourNodeGraphs == {Lists(4, edges) : edges \in {Star, Path, Cycle, Triangle, Matching}}

(* All graphs with three nodes. *)
ThreeNodeGraphs ==
    {Lists(3, edges) : edges \in SUBSET {{0, 1}, {0, 2}, {1, 2}}}
=============================================================================
