------------------------------ MODULE PageRank ------------------------------
(***************************************************************************)
(* PageRank (pr.cc): PageRankPull, and PRVerifier on its result.  Threads  *)
(* take the nodes of each of the two loops of an iteration in any order;   *)
(* after each loop they wait for one another.  A node's step of a loop     *)
(* writes only its own entry and, in the second, its part of a reduction,  *)
(* and reads what the other loop has written, so it is one step here.      *)
(*                                                                         *)
(* Scores, contributions and errors are exact: multiples of 1 / Unit.  The *)
(* code rounds them to floats, which the specification leaves out; the     *)
(* quotient of a node without out-neighbours is the float infinity.        *)
(***************************************************************************)
EXTENDS Integers, FiniteSets, Functions

CONSTANTS
    N,               \* the number of nodes
    MaxIters,        \* the most iterations of any run
    DegreeMultiple,  \* a common multiple of the graphs' out-degrees
    EpsilonUnit,     \* epsilon is a multiple of 1 / EpsilonUnit
    Inputs           \* graphs with their max_iters and epsilon

Nodes == 0 .. N - 1

(* neigh[u] is the set of u's out-neighbours. *)
ASSUME PageRankAssumption ==
    /\ N \in Nat \ {0} /\ MaxIters \in Nat /\ DegreeMultiple \in Nat \ {0}
    /\ EpsilonUnit \in Nat \ {0}
    /\ \A in \in Inputs :
           /\ in.neigh \in [Nodes -> SUBSET Nodes]
           /\ \A n \in Nodes : in.neigh[n] # {} => DegreeMultiple % Cardinality(in.neigh[n]) = 0
           /\ in.max_iters \in 0 .. MaxIters /\ in.epsilon \in Nat

VARIABLES
    neigh, max_iters, epsilon,  \* the arguments of PageRankPull
    phase, iter, todo,          \* the loop, the iteration, the nodes not yet taken
    scores, outgoing_contrib, error

args == <<neigh, max_iters, epsilon>>
vars == <<args, phase, iter, todo, scores, outgoing_contrib, error>>

OutDegree(n) == Cardinality(neigh[n])
InNeigh(n) == {v \in Nodes : n \in neigh[v]}

(* Every iteration, and the verifier's, divides by a degree and by 20.      *)
Divisions[k \in Nat] == IF k = 0 THEN 1 ELSE 20 * DegreeMultiple * Divisions[k - 1]
Unit == N * Divisions[MaxIters + 1]
Infinite == -1

(* Errors can be compared with epsilon exactly.  For any rational epsilon a *)
(* DegreeMultiple that EpsilonUnit divides sees to it.                      *)
ASSUME EpsilonAssumption == Unit % EpsilonUnit = 0

Damped(x) == (x \div 20) * 17
BaseScore == (Unit \div (20 * N)) * 3
Abs(x) == IF x < 0 THEN -x ELSE x

(* A sum with an infinite term is infinite. *)
Total(terms, S) == IF \E n \in S : terms[n] = Infinite THEN Infinite ELSE SumFunctionOnSet(terms, S)

Contribution(x, n) == IF OutDegree(n) = 0 THEN Infinite ELSE x[n] \div OutDegree(n)
Score(incoming) == IF incoming = Infinite THEN Infinite ELSE BaseScore + Damped(incoming)

Init ==
    /\ \E in \in Inputs : neigh = in.neigh /\ max_iters = in.max_iters /\ epsilon = in.epsilon
    /\ phase = (IF max_iters = 0 THEN "done" ELSE "contrib")
    /\ iter = 0 /\ todo = Nodes
    /\ scores = [n \in Nodes |-> Unit \div N]
    /\ outgoing_contrib = [n \in Nodes |-> 0] /\ error = 0

(* Mutant: the nodes n points to in place of those that point to it. *)
OutNeigh(n) == neigh[n]

PullFrom(n) == InNeigh(n)

(* Mutant: no reduction, the last thread's term is the error. *)
LastTerm(n, new) == Abs(new - scores[n])

AddedError(n, new) == error + Abs(new - scores[n])

Contrib(n) ==
    /\ phase = "contrib" /\ n \in todo /\ todo' = todo \ {n}
    /\ outgoing_contrib' = [outgoing_contrib EXCEPT ![n] = Contribution(scores, n)]
    /\ UNCHANGED <<args, phase, iter, scores, error>>

(* The barrier at the end of the first loop. *)
Contributed ==
    /\ phase = "contrib" /\ todo = {}
    /\ phase' = "pull" /\ todo' = Nodes
    /\ UNCHANGED <<args, iter, scores, outgoing_contrib, error>>

Pull(n) ==
    /\ phase = "pull" /\ n \in todo /\ todo' = todo \ {n}
    /\ LET new == Score(Total(outgoing_contrib, PullFrom(n)))
       IN scores' = [scores EXCEPT ![n] = new] /\ error' = AddedError(n, new)
    /\ UNCHANGED <<args, phase, iter, outgoing_contrib>>

Converged(e) == e < epsilon * (Unit \div EpsilonUnit)

(* The barrier at the end of the second loop, and the tests. *)
Pulled ==
    /\ phase = "pull" /\ todo = {}
    /\ iter' = iter + 1
    /\ IF Converged(error) \/ iter' = max_iters
       THEN phase' = "done" /\ UNCHANGED <<todo, error>>
       ELSE phase' = "contrib" /\ todo' = Nodes /\ error' = 0
    /\ UNCHANGED <<args, scores, outgoing_contrib>>

Terminated == phase = "done" /\ UNCHANGED vars

Next == (\E n \in Nodes : Contrib(n) \/ Pull(n)) \/ Contributed \/ Pulled \/ Terminated

Spec == Init /\ [][Next]_vars
-----------------------------------------------------------------------------
(* A serial iteration in push direction, with its own sums. *)
PRVerifier ==
    LET pushed[v \in Nodes] == Total([u \in Nodes |-> Contribution(scores, u)], {u \in Nodes : v \in neigh[u]})
    IN Converged(SumFunctionOnSet([n \in Nodes |-> Abs((BaseScore + Damped(pushed[n])) - scores[n])], Nodes))

(* A random surfer starts anywhere and follows edges: before each it goes   *)
(* on with probability 17 / 20 and stops with 3 / 20; those that go on from *)
(* a node without out-neighbours are lost.  Surfers[k] are those at each    *)
(* node who are still on their way after k edges, and who stopped there.    *)
Surfers[k \in Nat] ==
    IF k = 0 THEN [on |-> [n \in Nodes |-> Unit \div N], stopped |-> [n \in Nodes |-> 0]]
    ELSE LET before == Surfers[k - 1]
             arriving(n) == SumFunctionOnSet([u \in InNeigh(n) |-> before.on[u] \div OutDegree(u)], InNeigh(n))
         IN [on |-> [n \in Nodes |-> Damped(arriving(n))],
             stopped |-> [n \in Nodes |-> before.stopped[n] + (before.on[n] \div 20) * 3]]

(* The rank of a node after k iterations. *)
Rank(n, k) == Surfers[k].on[n] + Surfers[k].stopped[n]

(* Types, and that an iteration hands out no more than it has: the scores   *)
(* stay numbers and their sum never exceeds 1.                              *)
TypeOK ==
    /\ phase \in {"contrib", "pull", "done"} /\ iter \in 0 .. max_iters /\ todo \subseteq Nodes
    /\ scores \in [Nodes -> 0 .. Unit] /\ error \in 0 .. 2 * Unit
    /\ outgoing_contrib \in [Nodes -> Infinite .. Unit]
    /\ phase # "pull" => SumFunctionOnSet(scores, Nodes) <= Unit

(* pr.cc:22: the pull needs no atomics: whichever threads take the nodes in *)
(* whatever order, an iteration turns the ranks of the one before into its  *)
(* own.  The infinite contribution of a node without out-neighbours is in   *)
(* none of them.                                                            *)
ScoresAreRanks == phase # "pull" => \A n \in Nodes : scores[n] = Rank(n, iter)

(* pr.cc:20: the scores returned because the change was below epsilon are   *)
(* those the verifier accepts, although it compares with another iteration. *)
ConvergedMeansVerified ==
    phase = "done" /\ max_iters > 0 /\ Converged(error) => PRVerifier
=============================================================================
