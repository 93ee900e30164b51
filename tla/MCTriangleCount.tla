-------------------------- MODULE MCTriangleCount --------------------------
(***************************************************************************)
(* Triangles in every graph of five nodes: none to ten of them, sharing    *)
(* edges, with ties between degrees and nodes without an edge.             *)
(***************************************************************************)
EXTENDS TriangleCount

Lists(edges) == [n \in Nodes |-> SetToSortSeq({m \in Nodes : {m, n} \in edges}, <)]

GraphsOfN == {Lists(edges) : edges \in SUBSET {e \in SUBSET Nodes : Cardinality(e) = 2}}
=============================================================================
