--------------------------- MODULE TriangleCount ---------------------------
(***************************************************************************)
(* Triangle counting (tc.cc): Hybrid relabels the graph by degree when a   *)
(* heuristic says so (RelabelByDegree of builder.h) and OrderedCount       *)
(* intersects sorted rows.  Its iterator `it' is never compared with the   *)
(* end of the row it walks along.                                          *)
(*                                                                         *)
(* The iterations of each parallel loop touch only cells of their own node *)
(* (in RelabelByDegree because the sections of neighs do not overlap, as   *)
(* the proofs show) and add to a reduction, so they are taken one after    *)
(* the other, in any order.                                                *)
(***************************************************************************)
EXTENDS Components, FiniteSets, SequencesExt

CONSTANTS N, GraphsIn

Nodes == 0 .. N - 1

(* The rows of a graph are sorted, without repetition, as SquishCSR leaves  *)
(* them, and no node is its own neighbour.                                  *)
Simple(graph) ==
    /\ Undirected(Nodes, graph)
    /\ \A n \in Nodes : \A k \in DOMAIN graph[n] : graph[n][k] # n
    /\ \A n \in Nodes : \A k, l \in DOMAIN graph[n] : k < l => graph[n][k] < graph[n][l]

ASSUME TriangleAssumption == N \in Nat \ {0} /\ \A graph \in GraphsIn : Simple(graph)

VARIABLES
    neigh,  \* the graph
    g,      \* the graph that OrderedCount runs on
    offsets, neighs,  \* of RelabelByDegree: where each row goes on, and all rows
    phase,
    todo,   \* the nodes a parallel loop has left
    u, i, j, it,  \* the node, the positions of v and w, the iterator
    pc,
    total

rowVars == <<offsets, neighs>>
vars == <<neigh, g, rowVars, phase, todo, u, i, j, it, pc, total>>

Steps == {"idle", "v", "w", "it"}

Init ==
    /\ neigh \in GraphsIn /\ g = neigh
    /\ offsets = <<>> /\ neighs = <<>>
    /\ phase = "hybrid" /\ todo = {}
    /\ u = 0 /\ i = 1 /\ j = 1 /\ it = 1 /\ pc = "idle"
    /\ total = 0
-----------------------------------------------------------------------------
(* m comes before n in decreasing order of the pairs of degree and number. *)
Before(m, n) ==
    \/ Len(neigh[m]) > Len(neigh[n])
    \/ Len(neigh[m]) = Len(neigh[n]) /\ m > n

NewId(n) == Cardinality({m \in Nodes : Before(m, n)})

(* ParallelPrefixSum of the degrees in the new order. *)
Start(r) == SumFunctionOnSet([m \in Nodes |-> Len(neigh[m])], {m \in Nodes : NewId(m) < r})

(* Hybrid: WorthRelabelling looks at a random sample of the degrees.        *)
(* RelabelByDegree has an array for all rows; no cell is read before it is  *)
(* written.                                                                 *)
Hybrid ==
    /\ phase = "hybrid" /\ todo' = Nodes
    /\ \/ phase' = "count" /\ UNCHANGED rowVars
       \/ /\ phase' = "relabel"
          /\ offsets' = [r \in 0 .. N |-> Start(r)] /\ neighs' = [c \in 0 .. Start(N) - 1 |-> 0]
    /\ UNCHANGED <<neigh, g, u, i, j, it, pc, total>>

(* Mutant: GenIndex is called after the loop, when the offsets have moved.  *)
MovedIndex(r) == offsets[r]

(* GenIndex: where the row of r starts, taken before the offsets move. *)
Index(r) == Start(r)

(* std::sort. *)
Sorted(row) ==
    [k \in 1 .. Len(row) |->
        CHOOSE x \in ToSet(row) : /\ Cardinality({l \in DOMAIN row : row[l] < x}) < k
                                  /\ k <= Cardinality({l \in DOMAIN row : row[l] <= x})]

(* The row of r in cells. *)
RowIn(cells, r) == [k \in 1 .. Index(r + 1) - Index(r) |-> cells[Index(r) + k - 1]]

(* The neighbours of n, renamed, are written one after the other where the  *)
(* offset of its new number goes on, and what is between two starts is      *)
(* sorted.                                                                  *)
Relabel(n) ==
    LET r == NewId(n)
        written == [c \in DOMAIN neighs |->
                       IF c \in offsets[r] .. offsets[r] + Len(neigh[n]) - 1
                       THEN NewId(neigh[n][c - offsets[r] + 1]) ELSE neighs[c]]
    IN /\ phase = "relabel" /\ n \in todo
       /\ todo' = todo \ {n}
       /\ offsets' = [offsets EXCEPT ![r] = @ + Len(neigh[n])]
       /\ neighs' = [c \in DOMAIN neighs |->
                         IF c \in Index(r) .. Index(r + 1) - 1
                         THEN Sorted(RowIn(written, r))[c - Index(r) + 1] ELSE written[c]]
       /\ UNCHANGED <<neigh, g, phase, u, i, j, it, pc, total>>

Relabelled ==
    /\ phase = "relabel" /\ todo = {}
    /\ phase' = "count" /\ todo' = Nodes
    /\ g' = [r \in Nodes |-> RowIn(neighs, r)]
    /\ UNCHANGED <<neigh, rowVars, u, i, j, it, pc, total>>
-----------------------------------------------------------------------------
(* OrderedCount. *)

V == g[u][i]
W == g[V][j]

Take(n) ==
    /\ phase = "count" /\ pc = "idle" /\ n \in todo
    /\ todo' = todo \ {n} /\ u' = n
    /\ i' = 1 /\ pc' = "v"
    /\ UNCHANGED <<neigh, g, rowVars, phase, j, it, total>>

(* Mutant: the iterator goes on from where the neighbour before left it. *)
KeptIt == IF i = 1 THEN 1 ELSE it

FirstIt == 1

(* The next v of u, up to u; `it' is at the start of the row of u. *)
TakeV ==
    /\ pc = "v"
    /\ IF i <= Len(g[u]) /\ ~(V > u)
       THEN pc' = "w" /\ j' = 1 /\ it' = FirstIt
       ELSE pc' = "idle" /\ UNCHANGED <<it, j>>
    /\ UNCHANGED <<neigh, g, rowVars, phase, todo, u, i, total>>

(* Mutant: all w of v. *)
NeverPast == FALSE

PastV == V < W

(* The next w of v, up to v. *)
TakeW ==
    /\ pc = "w"
    /\ IF j <= Len(g[V]) /\ ~PastV
       THEN pc' = "it" /\ UNCHANGED i
       ELSE pc' = "v" /\ i' = i + 1
    /\ UNCHANGED <<neigh, g, rowVars, phase, todo, u, j, it, total>>

(* The iterator advances while what it points to is below w. *)
Advance ==
    /\ pc = "it" /\ it <= Len(g[u]) /\ g[u][it] < W
    /\ it' = it + 1
    /\ UNCHANGED <<neigh, g, rowVars, phase, todo, u, i, j, pc, total>>

Compare ==
    /\ pc = "it" /\ it <= Len(g[u]) /\ g[u][it] >= W
    /\ total' = IF W = g[u][it] THEN total + 1 ELSE total
    /\ pc' = "w" /\ j' = j + 1
    /\ UNCHANGED <<neigh, g, rowVars, phase, todo, u, i, it>>

Finish ==
    /\ phase = "count" /\ pc = "idle" /\ todo = {}
    /\ phase' = "done"
    /\ UNCHANGED <<neigh, g, rowVars, todo, u, i, j, it, pc, total>>
-----------------------------------------------------------------------------
Terminated == phase = "done" /\ UNCHANGED vars

Next ==
    \/ Hybrid \/ (\E n \in Nodes : Relabel(n) \/ Take(n)) \/ Relabelled
    \/ TakeV \/ TakeW \/ Advance \/ Compare \/ Finish \/ Terminated

Spec == Init /\ [][Next]_vars
-----------------------------------------------------------------------------
(* What the program prints with -v: the intersections of the rows of all    *)
(* adjacent nodes count each triangle six times.                            *)
TCVerifier ==
    LET common(n, k) == Cardinality(ToSet(neigh[n]) \cap ToSet(neigh[neigh[n][k]]))
        counted == SumFunction([n \in Nodes |-> SumFunction([k \in DOMAIN neigh[n] |-> common(n, k)])])
    IN total = counted \div 6
-----------------------------------------------------------------------------
(* Types, that the offsets stay in the array, and that a relabelled graph   *)
(* has rows of nodes like the first.                                        *)
TypeOK ==
    /\ neigh \in [Nodes -> Seq(Nodes)] /\ g \in [Nodes -> Seq(Nodes)]
    /\ phase \in {"hybrid", "relabel", "count", "done"} /\ todo \subseteq Nodes
    /\ u \in Nodes /\ i \in Nat \ {0} /\ j \in Nat \ {0} /\ it \in Nat \ {0}
    /\ pc \in Steps /\ total \in Nat
    /\ phase = "relabel" => offsets \in [0 .. N -> 0 .. Start(N)] /\ neighs \in [0 .. Start(N) - 1 -> Nodes]
    /\ phase \in {"count", "done"} => Simple(g)

(* OrderedCount never reads past the row of u, although nothing in it       *)
(* compares the iterator with the end: v itself is in the row and not below *)
(* any w it is asked for.                                                   *)
IteratorInRow == pc = "it" => it \in DOMAIN g[u]

(* The count is that of the triangles of the graph given, relabelled or not, *)
(* and the program's own verifier accepts it.                                *)
TrianglesCounted ==
    phase = "done" =>
        /\ TCVerifier
        /\ total = Cardinality({T \in SUBSET Nodes :
                       /\ Cardinality(T) = 3
                       /\ \A m, n \in T : m # n => n \in ToSet(neigh[m])})
=============================================================================
