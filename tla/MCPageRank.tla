----------------------------- MODULE MCPageRank -----------------------------
(***************************************************************************)
(* All directed graphs on three nodes, without self-loops as the builder   *)
(* leaves them: nodes without in-neighbours, without out-neighbours, or    *)
(* without both are among them.                                            *)
(***************************************************************************)
EXTENDS PageRank

Digraphs == {g \in [Nodes -> SUBSET Nodes] : \A n \in Nodes : n \notin g[n]}

(* In 1 / 10000: none; the default of the program, which a graph without    *)
(* cycles reaches within four iterations, as one whose scores never change  *)
(* does; a tenth and a half of the scores, which stop other runs early.     *)
SmallInputs == [neigh : Digraphs, max_iters : {0, MaxIters}, epsilon : {0, 1, 1000, 5000}]
=============================================================================
