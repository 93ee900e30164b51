----------------------------- MODULE Distances -----------------------------
(***************************************************************************)
(* Distances in a graph given by adjacency lists, as BFSVerifier computes  *)
(* them (depth), for the specifications of the searches.                   *)
(***************************************************************************)
EXTENDS Integers, Sequences, FiniteSetsExt

Unreached == -1

(* within[k] are the nodes at most k edges away. *)
DistancesFrom(nodes, neigh, source) ==
    LET within[k \in Nat] ==
            IF k = 0 THEN {source}
            ELSE LET nearer == within[k - 1]
                 IN nearer \cup {v \in nodes : \E i \in DOMAIN neigh[v] : neigh[v][i] \in nearer}
        far == Cardinality(nodes)
    IN [v \in nodes |-> IF v \in within[far] THEN Min({k \in 0 .. far : v \in within[k]}) ELSE Unreached]
=============================================================================
