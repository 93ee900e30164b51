--------------------------- MODULE MCDeltaStepping ---------------------------
(***************************************************************************)
(* Small weighted graphs.  In Race threads improve the same node from      *)
(* different sides, and may do so twice in a bin.  In Wide the three       *)
(* neighbours of the source lead to the same node; the last of its nodes   *)
(* is out of reach.  In Fan the node 2 is improved after its edges were    *)
(* relaxed, so that its four neighbours come into a bin twice: more than   *)
(* the frontier has cells for.                                             *)
(***************************************************************************)
EXTENDS DeltaStepping

Lists(edges) ==
    [u \in Nodes |-> SetToSortSeq({<<e[2], e[3]>> : e \in {f \in edges : f[1] = u}},
                                  LAMBDA x, y : x[1] < y[1])]

Both(edges) == edges \cup {<<e[2], e[1], e[3]>> : e \in edges}

Race == Both({<<0, 1, 2>>, <<0, 2, 5>>, <<1, 2, 2>>, <<1, 3, 6>>, <<2, 3, 1>>})
Wide == Both({<<0, v, v>> : v \in 1 .. 3} \cup {<<v, 4, 6 - 2 * v>> : v \in 1 .. 2} \cup {<<3, 4, 2>>, <<4, 5, 3>>})
Fan == {<<0, 1, 1>>, <<0, 2, 3>>, <<1, 2, 1>>} \cup {<<2, v, 4>> : v \in 3 .. 6}

Input(edges, delta_, picks_) == [neigh |-> Lists(edges), delta |-> delta_, picks |-> picks_]

SmallInputs ==
    {Input(Race, d, <<0, 3>>) : d \in {1, 2, 4}} \cup {Input(Wide, d, <<0>>) : d \in {1, 4, 16}}
    \cup {Input(Fan, d, <<0>>) : d \in {1, 4}} \cup {Input({}, 1, <<0>>)}
=============================================================================
