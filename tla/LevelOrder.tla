----------------------------- MODULE LevelOrder -----------------------------
(***************************************************************************)
(* What a parallel breadth-first search promises, whatever it does with    *)
(* queues, bitmaps and directions: nodes join the tree one at a time, each *)
(* once, under a neighbour, and none joins a level before the level above  *)
(* is complete.                                                            *)
(***************************************************************************)
EXTENDS Distances

CONSTANTS Nodes, GraphsIn

VARIABLES neigh, source, tree

vars == <<neigh, source, tree>>

None == -1

Init ==
    /\ neigh \in GraphsIn /\ source \in Nodes
    /\ tree = [n \in Nodes |-> IF n = source THEN source ELSE None]

(* v joins under u. *)
Join(u, v) ==
    LET dist == DistancesFrom(Nodes, neigh, source)
    IN /\ tree[v] = None /\ \E i \in DOMAIN neigh[v] : neigh[v][i] = u
       /\ tree' = [tree EXCEPT ![v] = u]
       /\ UNCHANGED <<neigh, source>>
       /\ dist[u] >= 0
       /\ \A w \in Nodes : dist[w] \in 0 .. dist[u] => tree[w] # None

Next == \E u, v \in Nodes : Join(u, v)

Spec == Init /\ [][Next]_vars
=============================================================================
