-------------------------- MODULE GraphPublication --------------------------
(***************************************************************************)
(* What the shared region promises the workers: graphs are made one after  *)
(* another, each appears as a whole, a worker gets the graph that is       *)
(* published or none, and a graph is replaced only when nobody holds it.   *)
(***************************************************************************)
EXTENDS Naturals

CONSTANTS Workers, MaxGen

VARIABLES gen,   \* the number of graphs made so far
          pub,   \* the published graph, 0 if none
          got    \* the graph each worker holds, 0 if none

vars == <<gen, pub, got>>

Init == gen = 0 /\ pub = 0 /\ got = [w \in Workers |-> 0]

(* A new graph is begun, and the old one is no longer there. *)
Begin ==
    /\ gen < MaxGen /\ gen' = gen + 1
    /\ pub' = 0
    /\ \A w \in Workers : got[w] = 0
    /\ UNCHANGED got

Publish ==
    /\ gen > 0 /\ pub = 0 /\ pub' = gen
    /\ UNCHANGED <<gen, got>>

Fetch(w) ==
    /\ pub # 0 /\ got[w] = 0
    /\ got' = [got EXCEPT ![w] = pub]
    /\ UNCHANGED <<gen, pub>>

Release(w) ==
    /\ got[w] # 0
    /\ got' = [got EXCEPT ![w] = 0]
    /\ UNCHANGED <<gen, pub>>

Next == Begin \/ Publish \/ \E w \in Workers : Fetch(w) \/ Release(w)

Spec == Init /\ [][Next]_vars
=============================================================================
