----------------------------- MODULE MCBrandes -----------------------------
(***************************************************************************)
(* Betweenness on graphs of six nodes, two iterations from different       *)
(* sources, or both from the one that -r names, which in Split has no      *)
(* neighbour.  In Grid and Ladder several nodes of a level race for the    *)
(* nodes of the next; Split is not connected.  The numbers of paths        *)
(* between two nodes are 1 to 4.                                           *)
(***************************************************************************)
EXTENDS Brandes, SequencesExt

Lists(edges) == [u \in Nodes |-> SetToSortSeq({v \in Nodes : {u, v} \in edges}, <)]

Grid == {{0, 1}, {0, 2}, {1, 3}, {1, 4}, {2, 3}, {2, 4}, {3, 5}, {4, 5}}
Ladder == {{0, 1}, {0, 2}, {0, 3}, {1, 4}, {2, 4}, {3, 4}, {4, 5}}
Split == {{0, 1}, {1, 2}, {0, 2}, {3, 4}}

SmallGraphs == {Lists(edges) : edges \in {Grid, Ladder, Split}}
TwoSources == {<<0, 4>>, <<3, 0>>, <<5, 5>>}
=============================================================================
