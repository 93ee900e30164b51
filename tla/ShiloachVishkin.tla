-------------------------- MODULE ShiloachVishkin --------------------------
(***************************************************************************)
(* The connected components kernel of cc_sv.cc.  Unlike Link of cc.cc it   *)
(* hooks with a plain load, test and store of comp[high_comp], so one      *)
(* thread's hook may overwrite another's and take a tree apart again; the  *)
(* outer loop repeats until no thread has hooked anything.                 *)
(*                                                                         *)
(* What Afforest has under the same name carries the prefix SV here, so    *)
(* that one module of theorems can extend both.                            *)
(***************************************************************************)
EXTENDS ComponentKernel

VARIABLES
    change,       \* whether a hook was done in this iteration
    compU, compV  \* per thread: comp_u and comp_v

SVthreadVars == <<pc, node, edge, compU, compV, x>>
SVvars == <<neigh, comp, change, phase, todo, pc, node, edge, compU, compV, x>>

SVSteps == {"idle", "load_u", "load_v", "test", "hook", "walk", "reread", "write"}

SVInit ==
    /\ neigh \in GraphsIn
    /\ comp = [n \in Nodes |-> n]
    /\ change = FALSE
    /\ phase = "hook"
    /\ todo = Nodes
    /\ pc = [t \in Threads |-> "idle"]
    /\ node = [t \in Threads |-> 0] /\ edge = [t \in Threads |-> 1]
    /\ compU = [t \in Threads |-> 0] /\ compV = [t \in Threads |-> 0]
    /\ x = [t \in Threads |-> 0]

(* Mutant: the label of the first node is hooked under the other, however they compare. *)
FirstComp(t) == compU[t]

HighComp(t) == IF compU[t] > compV[t] THEN compU[t] ELSE compV[t]

LowComp(t) == compU[t] + (compV[t] - HighComp(t))
-----------------------------------------------------------------------------
(* The parallel loops over the nodes. *)

SVTake(t, n) ==
    /\ pc[t] = "idle" /\ n \in todo
    /\ todo' = todo \ {n}
    /\ node' = [node EXCEPT ![t] = n]
    /\ edge' = [edge EXCEPT ![t] = 1]
    /\ Goto(t, IF phase = "compress" THEN "walk"
               ELSE IF neigh[n] = <<>> THEN "idle" ELSE "load_u")
    /\ UNCHANGED <<neigh, comp, change, phase, compU, compV, x>>

(* Mutant: change is not reset. *)
KeepChange == UNCHANGED change

ResetChange == change' = FALSE

(* The barrier at the end of a parallel loop, and `while (change)'. *)
SVBarrier ==
    /\ todo = {} /\ \A t \in Threads : pc[t] = "idle"
    /\ \/ /\ phase = "hook" /\ phase' = "compress"
          /\ todo' = Nodes /\ UNCHANGED change
       \/ /\ phase = "compress" /\ change /\ phase' = "hook"
          /\ todo' = Nodes /\ ResetChange
       \/ /\ phase = "compress" /\ ~change /\ phase' = "done"
          /\ UNCHANGED <<todo, change>>
    /\ UNCHANGED <<neigh, comp, SVthreadVars>>
-----------------------------------------------------------------------------
(* The hooking loop. *)

(* The next edge of the thread's node, or the next node. *)
NextEdge(t) ==
    IF edge[t] < Len(neigh[node[t]])
    THEN Goto(t, "load_u") /\ edge' = [edge EXCEPT ![t] = @ + 1]
    ELSE Goto(t, "idle") /\ UNCHANGED edge

NextEdgeOrElse(t, next, step) ==
    IF next THEN NextEdge(t) ELSE Goto(t, step) /\ UNCHANGED edge

SVLoadU(t) ==
    /\ pc[t] = "load_u"
    /\ compU' = [compU EXCEPT ![t] = comp[node[t]]]
    /\ Goto(t, "load_v")
    /\ UNCHANGED <<neigh, comp, change, phase, todo, node, edge, compV, x>>

SVLoadV(t) ==
    /\ pc[t] = "load_v"
    /\ compV' = [compV EXCEPT ![t] = comp[neigh[node[t]][edge[t]]]]
    /\ NextEdgeOrElse(t, compU[t] = compV'[t], "test")
    /\ UNCHANGED <<neigh, comp, change, phase, todo, node, compU, x>>

Test(t) ==
    /\ pc[t] = "test"
    /\ NextEdgeOrElse(t, HighComp(t) # comp[HighComp(t)], "hook")
    /\ UNCHANGED <<neigh, comp, change, phase, todo, node, compU, compV, x>>

(* Mutant: change is not set. *)
NoteNothing == UNCHANGED change

NoteHook == change' = TRUE

(* Whatever comp[high_comp] has become since it was tested. *)
Hook(t) ==
    /\ pc[t] = "hook"
    /\ NoteHook
    /\ comp' = [comp EXCEPT ![HighComp(t)] = LowComp(t)]
    /\ NextEdge(t)
    /\ UNCHANGED <<neigh, phase, todo, node, compU, compV, x>>
-----------------------------------------------------------------------------
(* The compressing loop; only its own thread writes comp[n]. *)

SVWalk(t) ==
    /\ pc[t] = "walk"
    /\ Goto(t, IF comp[node[t]] = comp[comp[node[t]]] THEN "idle" ELSE "reread")
    /\ UNCHANGED <<neigh, comp, change, phase, todo, node, edge, compU, compV, x>>

SVReread(t) ==
    /\ pc[t] = "reread"
    /\ x' = [x EXCEPT ![t] = comp[comp[node[t]]]]
    /\ Goto(t, "write")
    /\ UNCHANGED <<neigh, comp, change, phase, todo, node, edge, compU, compV>>

SVWrite(t) ==
    /\ pc[t] = "write"
    /\ comp' = [comp EXCEPT ![node[t]] = x[t]]
    /\ Goto(t, "walk")
    /\ UNCHANGED <<neigh, change, phase, todo, node, edge, compU, compV, x>>
-----------------------------------------------------------------------------
HookStep(t) == SVLoadU(t) \/ SVLoadV(t) \/ Test(t) \/ Hook(t)
SVCompressStep(t) == SVWalk(t) \/ SVReread(t) \/ SVWrite(t)

SVThreadStep(t) == (\E n \in Nodes : SVTake(t, n)) \/ HookStep(t) \/ SVCompressStep(t)

SVTerminated == phase = "done" /\ UNCHANGED SVvars

SVNext == (\E t \in Threads : SVThreadStep(t)) \/ SVBarrier \/ SVTerminated

SVSpec == SVInit /\ [][SVNext]_SVvars

(* Every thread of the team is scheduled, and the master goes on after a    *)
(* barrier that all have reached.                                           *)
SVFairSpec == SVSpec /\ WF_SVvars(SVBarrier) /\ \A t \in Threads : WF_SVvars(SVThreadStep(t))
-----------------------------------------------------------------------------
(* Types, and that parents never have a larger number than their children,  *)
(* which is why comp has no cycle even where a hook was overwritten.        *)
SVTypeOK ==
    /\ neigh \in GraphsIn
    /\ comp \in [Nodes -> Nodes] /\ \A n \in Nodes : comp[n] <= n
    /\ change \in BOOLEAN /\ phase \in {"hook", "compress", "done"}
    /\ todo \subseteq Nodes
    /\ pc \in [Threads -> SVSteps]
    /\ node \in [Threads -> Nodes] /\ edge \in [Threads -> Nat \ {0}]
    /\ compU \in [Threads -> Nodes] /\ compV \in [Threads -> Nodes]
    /\ x \in [Threads -> Nodes]

(* An iteration without a hook has found every edge within one component:   *)
(* no overwritten hook is left to be done again when change stays false.    *)
QuietMeansDone ==
    phase = "compress" /\ ~change =>
        \A u \in Nodes : \A i \in DOMAIN neigh[u] : comp[u] = comp[neigh[u][i]]
=============================================================================
