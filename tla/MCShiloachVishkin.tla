------------------------- MODULE MCShiloachVishkin -------------------------
(***************************************************************************)
(* Shiloach-Vishkin on small undirected graphs.  Three neighbours of one   *)
(* node, or two, let a hook be overwritten; the chain can become a tree of *)
(* depth three, which one compression step does not flatten.               *)
(***************************************************************************)
EXTENDS ShiloachVishkin, FiniteSets, SequencesExt

Lists(n, edges) ==
    [u \in 0 .. n - 1 |-> SetToSortSeq({v \in 0 .. n - 1 : {u, v} \in edges}, <)]

Star == {{0, 3}, {1, 3}, {2, 3}}
Path == {{0, 3}, {1, 3}, {1, 2}}
Chain == {{0, 1}, {1, 2}, {2, 3}}
Fork == {{1, 3}, {2, 3}}

FourNodeGraphs == {Lists(4, edges) : edges \in {Star, Path, Chain, Fork}}
=============================================================================
