----------------------------- MODULE Components -----------------------------
(***************************************************************************)
(* Connected components, as the kernels' verifiers understand them, in a   *)
(* form that needs no recursion: two nodes are connected if no set of      *)
(* nodes that every edge enters or leaves with both ends tells them apart. *)
(* A graph is given by its adjacency lists, one sequence per node.         *)
(***************************************************************************)
EXTENDS Integers, Sequences

ClosedUnderEdges(S, nodes, neigh) ==
    \A x \in nodes : \A i \in DOMAIN neigh[x] : x \in S <=> neigh[x][i] \in S

ConnectedIn(nodes, neigh, u, v) ==
    \A S \in SUBSET nodes :
        ClosedUnderEdges(S, nodes, neigh) => (u \in S <=> v \in S)

(* Every edge is in the list of both its ends, as MakeGraphFromEL with      *)
(* symmetrize_ leaves them.                                                 *)
Undirected(nodes, neigh) ==
    /\ neigh \in [nodes -> Seq(nodes)]
    /\ \A u \in nodes : \A i \in DOMAIN neigh[u] :
           \E j \in DOMAIN neigh[neigh[u][i]] : neigh[neigh[u][i]][j] = u

(* comp names the components: equal labels mean connected, and the label is *)
(* the smallest node of the component, whatever the schedule was.           *)
LabelsComponents(comp, nodes, neigh) ==
    \A u, v \in nodes :
        ConnectedIn(nodes, neigh, u, v) <=> comp[u] = comp[v]

LabelsWithLeast(comp, nodes, neigh) ==
    \A u, v \in nodes :
        ConnectedIn(nodes, neigh, u, v) => comp[u] <= v

(* CCVerifier: from one node of each label (the code takes the last one) a  *)
(* breadth-first search visits what is connected to it and must see no      *)
(* other label; the searches together must visit every node.                *)
CCVerifier(comp, nodes, neigh) ==
    LET labels == {comp[n] : n \in nodes}
        labelToSource == [l \in labels |-> CHOOSE n \in nodes : comp[n] = l]
        visited(l) == {n \in nodes : ConnectedIn(nodes, neigh, labelToSource[l], n)}
    IN /\ \A l \in labels : \A u \in visited(l) : \A i \in DOMAIN neigh[u] : comp[neigh[u][i]] = l
       /\ \A n \in nodes : \E l \in labels : n \in visited(l)
=============================================================================
