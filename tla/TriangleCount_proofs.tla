------------------------ MODULE TriangleCount_proofs ------------------------
(***************************************************************************)
(* Hybrid counts the triangles of every graph, whatever WorthRelabelling   *)
(* decides and in whatever order the nodes are taken, and never reads past *)
(* the end of a row.                                                       *)
(*                                                                         *)
(* The iterator stays in the row of u because it never gets ahead of the   *)
(* position of v there: it only advances past what is below w, and w is    *)
(* not above v.  That needs neither the sorting of the rows nor that       *)
(* RelabelByDegree numbers the nodes one to one; the count needs both.     *)
(***************************************************************************)
EXTENDS TriangleCount, GraphLemmas

IsRow(row) == Len(row) \in Nat /\ DOMAIN row = 1 .. Len(row)

Positions ==
    /\ u \in Nodes /\ i \in Nat \ {0} /\ it \in Nat \ {0}
    /\ phase # "count" => pc = "idle"

(* Where the loops are: v is in the row of u, and the iterator not after it. *)
Behind ==
    /\ pc \in {"w", "it"} => i <= Len(g[u]) /\ it <= i
    /\ pc = "it" => ~(V < W)

IInv ==
    /\ g = [n \in Nodes |-> g[n]] /\ \A n \in Nodes : IsRow(g[n])
    /\ neigh \in [Nodes -> Seq(Nodes)]
    /\ Positions /\ Behind

LEMMA MappedRow ==
    ASSUME NEW k \in Nat, NEW e
    PROVE  IsRow([x \in 1 .. k |-> e[x]])
<1> DEFINE S == {e[x] : x \in 1 .. k}
           r == [x \in 1 .. k |-> e[x]]
<1>1. r \in [1 .. k -> S]
  OBVIOUS
<1>2. r \in Seq(S)
  BY <1>1
<1> HIDE DEF r
<1> QED
  BY <1>2 DEF IsRow, r

Degrees == [m \in Nodes |-> Len(neigh[m])]
Under(r) == {m \in Nodes : NewId(m) < r}

LEMMA NodesFinite == IsFiniteSet(Nodes) /\ Nodes \subseteq Nat /\ Cardinality(Nodes) = N
<1>1. PICK n \in Nat \ {0} : n = N
  BY TriangleAssumption
<1>2. PICK m \in Int : m = n - 1
  OBVIOUS
<1>3. IsFiniteSet(0 .. m) /\ Cardinality(0 .. m) = IF 0 > m THEN 0 ELSE m - 0 + 1
  BY FS_Interval
<1> QED BY <1>1, <1>2, <1>3 DEF Nodes

LEMMA NodesBelow == Nodes \subseteq 0 .. N /\ N \notin Nodes /\ N \in 0 .. N /\ 0 \in Nodes
<1>1. PICK n \in Nat \ {0} : n = N
  BY TriangleAssumption
<1> QED BY <1>1 DEF Nodes

(* The starts of the rows in the array increase. *)
LEMMA StartsIncrease ==
    ASSUME neigh \in [Nodes -> Seq(Nodes)], NEW a \in Nat, NEW b \in Nat, a <= b
    PROVE  Start(a) \in Nat /\ Start(b) \in Nat /\ Start(a) <= Start(b)
<1>1. \A m \in Nodes : Degrees[m] \in Nat
  BY DEF Degrees
<1>2. \A m \in Nodes : NewId(m) \in Nat
  <2>1. \A m \in Nodes : IsFiniteSet({k \in Nodes : Before(k, m)})
    BY NodesFinite, FS_Subset
  <2> QED BY <2>1, FS_CardinalityType DEF NewId
<1>3. Under(a) \in SUBSET Under(b) /\ Under(b) \in SUBSET Nodes
  BY <1>2 DEF Under
<1>4. IsFiniteSet(Under(a)) /\ IsFiniteSet(Under(b))
  BY <1>3, NodesFinite, FS_Subset
<1>5. /\ SumFunctionOnSet(Degrees, Under(a)) \in Nat
      /\ SumFunctionOnSet(Degrees, Under(a)) = Cardinality(PairsOf(Degrees, Under(a)))
  <2>1. \A m \in Under(a) : Degrees[m] \in Nat
    BY <1>1, <1>3
  <2> QED BY <1>4, <2>1, SumCounts
<1>6. /\ SumFunctionOnSet(Degrees, Under(b)) \in Nat /\ IsFiniteSet(PairsOf(Degrees, Under(b)))
      /\ SumFunctionOnSet(Degrees, Under(b)) = Cardinality(PairsOf(Degrees, Under(b)))
  <2>1. \A m \in Under(b) : Degrees[m] \in Nat
    BY <1>1, <1>3
  <2> QED BY <1>4, <2>1, SumCounts
<1>7. PairsOf(Degrees, Under(a)) \in SUBSET PairsOf(Degrees, Under(b))
  BY <1>3 DEF PairsOf
<1>8. Cardinality(PairsOf(Degrees, Under(a))) <= Cardinality(PairsOf(Degrees, Under(b)))
  BY <1>6, <1>7, FS_Subset
<1>9. Start(a) = SumFunctionOnSet(Degrees, Under(a)) /\ Start(b) = SumFunctionOnSet(Degrees, Under(b))
  BY DEF Start, Degrees, Under
<1> QED BY <1>5, <1>6, <1>8, <1>9

LEMMA InitIInv == Init => IInv
<1> SUFFICES ASSUME Init PROVE IInv
  OBVIOUS
<1>1. neigh \in [Nodes -> Seq(Nodes)]
  BY TriangleAssumption DEF Init, Simple, Undirected
<1>2. \A n \in Nodes : IsRow(neigh[n])
  BY <1>1 DEF IsRow
<1>3. 0 \in Nodes
  BY TriangleAssumption DEF Nodes
<1> QED
  BY <1>1, <1>2, <1>3 DEF Init, IInv, Positions, Behind

LEMMA NextIInv == IInv /\ [Next]_vars => IInv'
<1> SUFFICES ASSUME IInv, [Next]_vars PROVE IInv'
  OBVIOUS
<1> USE DEF IInv
<1>1. CASE Hybrid
  BY <1>1 DEF Hybrid, Positions, Behind, V, W
<1>2. ASSUME NEW n \in Nodes, Relabel(n) PROVE IInv'
  <2>1. UNCHANGED <<neigh, g, phase, u, i, j, it, pc, total>>
    BY <1>2 DEF Relabel
  <2> QED
    BY <2>1 DEF Positions, Behind, V, W
<1>3. ASSUME NEW n \in Nodes, Take(n) PROVE IInv'
  BY <1>3 DEF Take, Positions, Behind
<1>4. CASE Relabelled
  <2>1. g' = [r \in Nodes |-> RowIn(neighs, r)] /\ UNCHANGED <<neigh, u, i, j, it, pc>> /\ pc = "idle"
    BY <1>4 DEF Relabelled, Positions
  <2>2. ASSUME NEW r \in Nodes PROVE IsRow(RowIn(neighs, r))
    <3>1. r \in Nat /\ r + 1 \in Nat /\ r <= r + 1
      BY NodesFinite
    <3>2. Index(r + 1) - Index(r) \in Nat
      BY <3>1, StartsIncrease DEF Index
    <3> DEFINE e == [k \in 1 .. Index(r + 1) - Index(r) |-> neighs[Index(r) + k - 1]]
    <3>3. e = [k \in 1 .. Index(r + 1) - Index(r) |-> e[k]]
      OBVIOUS
    <3> HIDE DEF e
    <3>4. IsRow(e)
      BY <3>2, <3>3, MappedRow DEF IsRow
    <3> QED BY <3>4 DEF RowIn, e
  <2> DEFINE rows(r) == RowIn(neighs, r)
  <2>3. g' = [r \in Nodes |-> rows(r)] /\ \A r \in Nodes : IsRow(rows(r))
    BY <2>1, <2>2
  <2> HIDE DEF rows
  <2>4. g' = [r \in Nodes |-> g'[r]] /\ \A r \in Nodes : IsRow(g'[r])
    BY <2>3
  <2>5. Positions' /\ Behind'
    BY <1>4, <2>1 DEF Relabelled, Positions, Behind
  <2> QED BY <2>1, <2>4, <2>5
<1>5. CASE TakeV
  BY <1>5 DEF TakeV, FirstIt, Positions, Behind, IsRow
<1>6. CASE TakeW
  BY <1>6 DEF TakeW, PastV, Positions, Behind, V, W
<1>7. CASE Advance
  <2>1. it # i
    BY <1>7 DEF Advance, Behind, V
  <2>2. it + 1 <= i
    BY <1>7, <2>1 DEF Advance, Behind, Positions
  <2> QED
    BY <1>7, <2>2 DEF Advance, Positions, Behind, V, W
<1>8. CASE Compare
  BY <1>8 DEF Compare, Positions, Behind
<1>9. CASE Finish
  BY <1>9 DEF Finish, Positions, Behind
<1>10. CASE Terminated \/ UNCHANGED vars
  BY <1>10 DEF Terminated, vars, Positions, Behind, V, W
<1> QED
  BY <1>1, <1>2, <1>3, <1>4, <1>5, <1>6, <1>7, <1>8, <1>9, <1>10 DEF Next

(* OrderedCount stays in the row of u, whatever the graph.                  *)
THEOREM OrderedCountInRow == Spec => []IteratorInRow
<1>1. IInv => IteratorInRow
  <2> SUFFICES ASSUME IInv, pc = "it" PROVE it \in DOMAIN g[u]
    BY DEF IteratorInRow
  <2>1. IsRow(g[u]) /\ i <= Len(g[u]) /\ it <= i /\ it \in Nat \ {0} /\ i \in Nat
    BY DEF IInv, Positions, Behind
  <2> QED
    BY <2>1 DEF IsRow
<1> QED
  BY <1>1, InitIInv, NextIInv, PTL DEF Spec
-----------------------------------------------------------------------------
(* Triangles, as sets of nodes, with their corners in decreasing order as   *)
(* OrderedCount meets them, and as the verifier does.                       *)
Adj(G, n) == ToSet(G[n])

Triples == Nodes \X Nodes \X Nodes

Triangles(G) ==
    {T \in SUBSET Nodes : Cardinality(T) = 3 /\ \A m, n \in T : m # n => n \in Adj(G, m)}

Walks(G) ==
    {t \in Triples : t[2] \in Adj(G, t[1]) /\ t[3] \in Adj(G, t[1]) /\ t[3] \in Adj(G, t[2])}

Corners(G) == {t \in Walks(G) : t[2] < t[1] /\ t[3] < t[2]}

LEMMA SimpleFacts ==
    ASSUME NEW G, Simple(G)
    PROVE  /\ G \in [Nodes -> Seq(Nodes)]
           /\ \A n \in Nodes : /\ Len(G[n]) \in Nat /\ DOMAIN G[n] = 1 .. Len(G[n])
                               /\ \A k \in DOMAIN G[n] : G[n][k] \in Nodes /\ G[n][k] # n
           /\ \A m \in Nodes : Adj(G, m) \subseteq Nodes /\ m \notin Adj(G, m) /\ IsFiniteSet(Adj(G, m))
           /\ \A m, n \in Nodes : n \in Adj(G, m) => m \in Adj(G, n)
<1>1. G \in [Nodes -> Seq(Nodes)]
  BY DEF Simple, Undirected
<1>2. ASSUME NEW n \in Nodes
      PROVE  /\ Len(G[n]) \in Nat /\ DOMAIN G[n] = 1 .. Len(G[n])
             /\ \A k \in DOMAIN G[n] : G[n][k] \in Nodes /\ G[n][k] # n
  <2>1. G[n] \in Seq(Nodes)
    BY <1>1
  <2>2. Len(G[n]) \in Nat /\ DOMAIN G[n] = 1 .. Len(G[n]) /\ \A k \in DOMAIN G[n] : G[n][k] \in Nodes
    BY <2>1
  <2> QED BY <2>2 DEF Simple
<1>3. ASSUME NEW m \in Nodes
      PROVE  Adj(G, m) \subseteq Nodes /\ m \notin Adj(G, m) /\ IsFiniteSet(Adj(G, m))
  <2>1. Adj(G, m) \in SUBSET Nodes /\ m \notin Adj(G, m)
    BY <1>2 DEF Adj, ToSet
  <2> QED BY <2>1, NodesFinite, FS_Subset
<1>4. ASSUME NEW m \in Nodes, NEW n \in Nodes, n \in Adj(G, m) PROVE m \in Adj(G, n)
  <2>1. PICK k \in DOMAIN G[m] : G[m][k] = n
    BY <1>4 DEF Adj, ToSet
  <2>2. \E l \in DOMAIN G[n] : G[n][l] = m
    BY <2>1 DEF Simple, Undirected
  <2> QED BY <2>2 DEF Adj, ToSet
<1> QED BY <1>1, <1>2, <1>3, <1>4

LEMMA ThreeDistinct ==
    /\ \A x, y, z : x # y /\ x # z /\ y # z => IsFiniteSet({x, y, z}) /\ Cardinality({x, y, z}) = 3
    /\ \A T : IsFiniteSet(T) /\ Cardinality(T) = 3 =>
           \E x, y, z \in T : x # y /\ x # z /\ y # z /\ T = {x, y, z}
<1>1. ASSUME NEW x, NEW y, NEW z, x # y, x # z, y # z
      PROVE  IsFiniteSet({x, y, z}) /\ Cardinality({x, y, z}) = 3
  <2>1. IsFiniteSet({x}) /\ Cardinality({x}) = 1
    BY FS_Singleton
  <2>2. IsFiniteSet({x} \cup {y}) /\ Cardinality({x} \cup {y}) = 1 + 1
    BY <1>1, <2>1, FS_AddElement
  <2>3. z \notin {x} \cup {y}
    BY <1>1
  <2>4. IsFiniteSet(({x} \cup {y}) \cup {z}) /\ Cardinality(({x} \cup {y}) \cup {z}) = (1 + 1) + 1
    BY <2>2, <2>3, FS_AddElement
  <2>5. ({x} \cup {y}) \cup {z} = {x, y, z} /\ (1 + 1) + 1 = 3
    OBVIOUS
  <2> QED BY <2>4, <2>5
<1>2. ASSUME NEW T, IsFiniteSet(T), Cardinality(T) = 3
      PROVE  \E x, y, z \in T : x # y /\ x # z /\ y # z /\ T = {x, y, z}
  <2>1. PICK x \in T : TRUE
    BY <1>2, FS_EmptySet
  <2> DEFINE A == T \ {x}
  <2>2. IsFiniteSet(A) /\ Cardinality(A) = 3 - 1
    BY <1>2, <2>1, FS_RemoveElement
  <2>3. PICK y \in A : TRUE
    <3> HIDE DEF A
    <3> QED BY <2>2, FS_EmptySet
  <2> DEFINE B == A \ {y}
  <2>4. IsFiniteSet(B) /\ Cardinality(B) = (3 - 1) - 1
    <3> HIDE DEF A
    <3> QED BY <2>2, <2>3, FS_RemoveElement
  <2>5. PICK z : B = {z}
    <3> HIDE DEF B
    <3>1. Cardinality(B) = 1
      BY <2>4
    <3> QED BY <2>4, <3>1, FS_Singleton
  <2> QED BY <2>1, <2>3, <2>5
<1> QED BY <1>1, <1>2

LEMMA TriplesFinite ==
    ASSUME NEW G PROVE IsFiniteSet(Walks(G)) /\ IsFiniteSet(Corners(G))
<1>1. IsFiniteSet(Nodes \X Nodes)
  BY NodesFinite, FS_Product
<1> DEFINE f == [p \in (Nodes \X Nodes) \X Nodes |-> <<p[1][1], p[1][2], p[2]>>]
<1>2. IsFiniteSet((Nodes \X Nodes) \X Nodes)
  BY <1>1, NodesFinite, FS_Product
<1>3. f \in Surjection((Nodes \X Nodes) \X Nodes, Triples)
  <2>1. f \in [(Nodes \X Nodes) \X Nodes -> Triples]
    BY DEF Triples
  <2>2. ASSUME NEW t \in Triples PROVE \E p \in (Nodes \X Nodes) \X Nodes : f[p] = t
    <3>1. <<<<t[1], t[2]>>, t[3]>> \in (Nodes \X Nodes) \X Nodes /\ t = <<t[1], t[2], t[3]>>
      BY DEF Triples
    <3>2. f[<<<<t[1], t[2]>>, t[3]>>] = <<t[1], t[2], t[3]>>
      BY <3>1
    <3> QED BY <3>1, <3>2
  <2> HIDE DEF f
  <2> QED BY <2>1, <2>2, Fun_IsSurj
<1>4. IsFiniteSet(Triples)
  <2> HIDE DEF f
  <2> QED BY <1>2, <1>3, FS_Surjection
<1>5. Walks(G) \in SUBSET Triples /\ Corners(G) \in SUBSET Triples
  BY DEF Walks, Corners
<1> QED BY <1>4, <1>5, FS_Subset

(* Each triangle has its corners in one decreasing order.                   *)
LEMMA CornersOnce ==
    ASSUME NEW G, Simple(G)
    PROVE  ExistsBijection(Corners(G), Triangles(G))
<1> DEFINE f == [t \in Corners(G) |-> {t[1], t[2], t[3]}]
<1>1. ASSUME NEW t \in Corners(G)
      PROVE  /\ t[1] \in Nodes /\ t[2] \in Nodes /\ t[3] \in Nodes /\ t = <<t[1], t[2], t[3]>>
             /\ t[1] \in Nat /\ t[2] \in Nat /\ t[3] \in Nat /\ t[2] < t[1] /\ t[3] < t[2]
             /\ t[2] \in Adj(G, t[1]) /\ t[3] \in Adj(G, t[1]) /\ t[3] \in Adj(G, t[2])
  <2>1. t \in Nodes \X Nodes \X Nodes /\ Nodes \subseteq Nat
    BY NodesFinite DEF Corners, Walks, Triples
  <2>2. t[1] \in Nodes /\ t[2] \in Nodes /\ t[3] \in Nodes /\ t = <<t[1], t[2], t[3]>>
    BY <2>1
  <2>3. /\ t[2] < t[1] /\ t[3] < t[2]
        /\ t[2] \in Adj(G, t[1]) /\ t[3] \in Adj(G, t[1]) /\ t[3] \in Adj(G, t[2])
    BY DEF Corners, Walks
  <2> QED BY <2>1, <2>2, <2>3
<1>2. f \in [Corners(G) -> Triangles(G)]
  <2> SUFFICES ASSUME NEW t \in Corners(G) PROVE {t[1], t[2], t[3]} \in Triangles(G)
    OBVIOUS
  <2>1. t[1] # t[2] /\ t[1] # t[3] /\ t[2] # t[3]
    BY <1>1
  <2>2. Cardinality({t[1], t[2], t[3]}) = 3
    <3>1. \A x, y, z : x # y /\ x # z /\ y # z => Cardinality({x, y, z}) = 3
      BY ThreeDistinct
    <3> QED BY <2>1, <3>1
  <2>3. {t[1], t[2], t[3]} \in SUBSET Nodes
    BY <1>1
  <2>4. /\ t[1] \in Adj(G, t[2]) /\ t[1] \in Adj(G, t[3]) /\ t[2] \in Adj(G, t[3])
        /\ t[2] \in Adj(G, t[1]) /\ t[3] \in Adj(G, t[1]) /\ t[3] \in Adj(G, t[2])
    BY <1>1, SimpleFacts
  <2>5. \A m, n \in {t[1], t[2], t[3]} : m # n => n \in Adj(G, m)
    BY <2>4
  <2> QED BY <2>2, <2>3, <2>5 DEF Triangles
<1>3. ASSUME NEW s \in Corners(G), NEW t \in Corners(G), f[s] = f[t] PROVE s = t
  <2>1. {s[1], s[2], s[3]} = {t[1], t[2], t[3]}
    BY <1>3
  <2> HIDE DEF f
  <2>2. PICK a \in Nat, b \in Nat, c \in Nat : a = s[1] /\ b = s[2] /\ c = s[3]
    BY <1>1
  <2>3. PICK x \in Nat, y \in Nat, z \in Nat : x = t[1] /\ y = t[2] /\ z = t[3]
    BY <1>1
  <2>4. b < a /\ c < b /\ y < x /\ z < y
    BY <1>1, <2>2, <2>3
  <2>5. /\ a \in {x, y, z} /\ b \in {x, y, z} /\ c \in {x, y, z}
        /\ x \in {a, b, c} /\ y \in {a, b, c} /\ z \in {a, b, c}
    BY <2>1, <2>2, <2>3
  <2>6. a = x /\ b = y /\ c = z
    BY <2>4, <2>5
  <2> QED BY <1>1, <2>2, <2>3, <2>6
<1>4. ASSUME NEW T \in Triangles(G) PROVE \E t \in Corners(G) : f[t] = T
  <2>1. T \in SUBSET Nodes /\ IsFiniteSet(T) /\ Cardinality(T) = 3
    BY NodesFinite, FS_Subset DEF Triangles
  <2>2. PICK x \in T, y \in T, z \in T : x # y /\ x # z /\ y # z /\ T = {x, y, z}
    BY <2>1, ThreeDistinct
  <2>3. x \in Nat /\ y \in Nat /\ z \in Nat /\ x \in Nodes /\ y \in Nodes /\ z \in Nodes
    BY <2>1, NodesFinite
  <2>4. ASSUME NEW a \in T, NEW b \in T, NEW c \in T, T = {a, b, c}, b < a, c < b
        PROVE  \E t \in Corners(G) : f[t] = T
    <3>1. a \in Nat /\ b \in Nat /\ c \in Nat /\ a \in Nodes /\ b \in Nodes /\ c \in Nodes
      BY <2>1, NodesFinite
    <3>2. a # b /\ a # c /\ b # c
      BY <2>4, <3>1
    <3>3. b \in Adj(G, a) /\ c \in Adj(G, a) /\ c \in Adj(G, b)
      BY <3>2 DEF Triangles
    <3>4. <<a, b, c>> \in Corners(G)
      BY <2>4, <3>1, <3>3 DEF Corners, Walks, Triples
    <3>5. f[<<a, b, c>>] = {a, b, c}
      BY <3>4
    <3> QED BY <2>4, <3>4, <3>5
  <2> HIDE DEF f
  <2>5. \/ y < x /\ z < y
        \/ z < x /\ y < z
        \/ x < y /\ z < x
        \/ z < y /\ x < z
        \/ x < z /\ y < x
        \/ y < z /\ x < y
    <3>1. x < y \/ y < x
      BY <2>2, <2>3
    <3>2. x < z \/ z < x
      BY <2>2, <2>3
    <3>3. y < z \/ z < y
      BY <2>2, <2>3
    <3> QED BY <3>1, <3>2, <3>3
  <2>6. T = {x, z, y} /\ T = {y, x, z} /\ T = {y, z, x} /\ T = {z, x, y} /\ T = {z, y, x}
    BY <2>2
  <2>7. CASE y < x /\ z < y
    BY <2>2, <2>4, <2>7
  <2>8. CASE z < x /\ y < z
    BY <2>6, <2>4, <2>8
  <2>9. CASE x < y /\ z < x
    BY <2>6, <2>4, <2>9
  <2>10. CASE z < y /\ x < z
    BY <2>6, <2>4, <2>10
  <2>11. CASE x < z /\ y < x
    BY <2>6, <2>4, <2>11
  <2>12. CASE y < z /\ x < y
    BY <2>6, <2>4, <2>12
  <2> QED BY <2>5, <2>7, <2>8, <2>9, <2>10, <2>11, <2>12
<1> HIDE DEF f
<1>5. f \in Bijection(Corners(G), Triangles(G))
  BY <1>2, <1>3, <1>4, Fun_IsBij
<1> QED BY <1>5 DEF ExistsBijection

(* A new numbering of the nodes keeps the triangles.                        *)
Renumbers(num, old, new) ==
    /\ num \in Bijection(Nodes, Nodes)
    /\ \A m, n \in Nodes : num[n] \in Adj(new, num[m]) <=> n \in Adj(old, m)

LEMMA RenumberedTriangles ==
    ASSUME NEW old, NEW new, NEW num, Renumbers(num, old, new)
    PROVE  ExistsBijection(Triangles(old), Triangles(new))
<1> DEFINE image(T) == {num[x] : x \in T}
           f == [T \in Triangles(old) |-> image(T)]
<1>1. /\ num \in [Nodes -> Nodes] /\ \A x, y \in Nodes : num[x] = num[y] => x = y
      /\ \A y \in Nodes : \E x \in Nodes : num[x] = y
  <2>1. num \in [Nodes -> Nodes] /\ \A x, y \in Nodes : num[x] = num[y] => x = y
    BY Fun_BijectionProperties DEF Renumbers
  <2>2. \A y \in Nodes : \E x \in Nodes : num[x] = y
    BY DEF Renumbers, Bijection, Surjection
  <2> QED BY <2>1, <2>2
<1>2. \A m, n \in Nodes : num[n] \in Adj(new, num[m]) <=> n \in Adj(old, m)
  BY DEF Renumbers
<1>3. ASSUME NEW x \in Nodes, NEW y \in Nodes, NEW z \in Nodes
      PROVE  {x, y, z} \in Triangles(old) <=> {num[x], num[y], num[z]} \in Triangles(new)
  <2>1. num[x] \in Nodes /\ num[y] \in Nodes /\ num[z] \in Nodes
    BY <1>1
  <2>2. \A G : \A a, b, c \in Nodes :
            (\A m, n \in {a, b, c} : m # n => n \in Adj(G, m)) <=>
                /\ a # b => b \in Adj(G, a) /\ a \in Adj(G, b)
                /\ a # c => c \in Adj(G, a) /\ a \in Adj(G, c)
                /\ b # c => c \in Adj(G, b) /\ b \in Adj(G, c)
    OBVIOUS
  <2>3. (\A m, n \in {x, y, z} : m # n => n \in Adj(old, m)) <=>
            (\A m, n \in {num[x], num[y], num[z]} : m # n => n \in Adj(new, m))
    <3>1. (\A m, n \in {x, y, z} : m # n => n \in Adj(old, m)) <=>
                /\ x # y => y \in Adj(old, x) /\ x \in Adj(old, y)
                /\ x # z => z \in Adj(old, x) /\ x \in Adj(old, z)
                /\ y # z => z \in Adj(old, y) /\ y \in Adj(old, z)
      BY <2>2
    <3>2. (\A m, n \in {num[x], num[y], num[z]} : m # n => n \in Adj(new, m)) <=>
                /\ num[x] # num[y] => num[y] \in Adj(new, num[x]) /\ num[x] \in Adj(new, num[y])
                /\ num[x] # num[z] => num[z] \in Adj(new, num[x]) /\ num[x] \in Adj(new, num[z])
                /\ num[y] # num[z] => num[z] \in Adj(new, num[y]) /\ num[y] \in Adj(new, num[z])
      BY <2>1, <2>2
    <3>3. (num[x] = num[y] <=> x = y) /\ (num[x] = num[z] <=> x = z) /\ (num[y] = num[z] <=> y = z)
      BY <1>1
    <3> QED BY <1>2, <3>1, <3>2, <3>3
  <2>4. Cardinality({x, y, z}) = Cardinality({num[x], num[y], num[z]})
    <3>1. {x, y, z} \in SUBSET Nodes /\ IsFiniteSet({x, y, z})
      BY NodesFinite, FS_Subset
    <3> DEFINE S == {x, y, z}
               R == {num[x], num[y], num[z]}
               b == [w \in S |-> num[w]]
    <3>2. b \in [S -> R] /\ \A v, w \in S : b[v] = b[w] => v = w
      BY <1>1
    <3>3. \A w \in R : \E v \in S : b[v] = w
      OBVIOUS
    <3> HIDE DEF S, R, b
    <3>4. b \in Bijection(S, R)
      BY <3>2, <3>3, Fun_IsBij
    <3>5. ExistsBijection(S, R)
      BY <3>4 DEF ExistsBijection
    <3>6. IsFiniteSet(S)
      BY <3>1 DEF S
    <3>7. Cardinality(R) = Cardinality(S)
      BY <3>5, <3>6, FS_Bijection
    <3> QED BY <3>7 DEF R, S
  <2>5. {x, y, z} \in SUBSET Nodes /\ {num[x], num[y], num[z]} \in SUBSET Nodes
    BY <2>1
  <2> QED BY <2>3, <2>4, <2>5 DEF Triangles
<1>4. ASSUME NEW G, NEW T \in Triangles(G)
      PROVE  T \in SUBSET Nodes /\ \E x, y, z \in Nodes : T = {x, y, z}
  <2>1. T \in SUBSET Nodes /\ IsFiniteSet(T) /\ Cardinality(T) = 3
    BY NodesFinite, FS_Subset DEF Triangles
  <2>2. PICK x \in T, y \in T, z \in T : T = {x, y, z}
    BY <2>1, ThreeDistinct
  <2> QED BY <2>1, <2>2
<1>5. f \in [Triangles(old) -> Triangles(new)]
  <2> SUFFICES ASSUME NEW T \in Triangles(old) PROVE image(T) \in Triangles(new)
    OBVIOUS
  <2>1. PICK x \in Nodes, y \in Nodes, z \in Nodes : T = {x, y, z}
    BY <1>4
  <2>2. image(T) = {num[x], num[y], num[z]}
    BY <2>1
  <2> QED BY <1>3, <2>1, <2>2
<1>6. ASSUME NEW S \in Triangles(old), NEW T \in Triangles(old), f[S] = f[T] PROVE S = T
  <2>1. image(S) = image(T) /\ S \in SUBSET Nodes /\ T \in SUBSET Nodes
    BY <1>4, <1>6
  <2>2. \A x \in Nodes : (x \in S <=> num[x] \in image(S)) /\ (x \in T <=> num[x] \in image(T))
    BY <1>1, <2>1
  <2> HIDE DEF image, f
  <2> QED BY <2>1, <2>2
<1>7. ASSUME NEW R \in Triangles(new) PROVE \E T \in Triangles(old) : f[T] = R
  <2>1. PICK a \in Nodes, b \in Nodes, c \in Nodes : R = {a, b, c}
    BY <1>4
  <2>2. PICK x \in Nodes, y \in Nodes, z \in Nodes : num[x] = a /\ num[y] = b /\ num[z] = c
    BY <1>1
  <2>3. {x, y, z} \in Triangles(old)
    BY <1>3, <2>1, <2>2
  <2>4. f[{x, y, z}] = {a, b, c}
    BY <2>2, <2>3
  <2> HIDE DEF f
  <2> QED BY <2>1, <2>3, <2>4
<1> HIDE DEF f
<1>8. f \in Bijection(Triangles(old), Triangles(new))
  BY <1>5, <1>6, <1>7, Fun_IsBij
<1> QED BY <1>8 DEF ExistsBijection

(* The verifier meets a triangle in each of the six orders of its corners.  *)
Turned(a, b, c) == <<<<a, b, c>>, <<a, c, b>>, <<b, a, c>>, <<b, c, a>>, <<c, a, b>>, <<c, b, a>>>>

IsTurn(w, a, b, c) == \E x, y, z : w = <<x, y, z>> /\ {x, y, z} = {a, b, c}

LEMMA TurnedFacts ==
    ASSUME NEW a, NEW b, NEW c, NEW k \in 1 .. 6
    PROVE  /\ IsTurn(Turned(a, b, c)[k], a, b, c)
           /\ \A l \in 1 .. 6 : /\ a # b /\ a # c /\ b # c
                                /\ Turned(a, b, c)[k] = Turned(a, b, c)[l]
                                => k = l
<1>1. k \in {1, 2, 3, 4, 5, 6}
  OBVIOUS
<1>2. /\ Turned(a, b, c)[1] = <<a, b, c>> /\ Turned(a, b, c)[2] = <<a, c, b>>
      /\ Turned(a, b, c)[3] = <<b, a, c>> /\ Turned(a, b, c)[4] = <<b, c, a>>
      /\ Turned(a, b, c)[5] = <<c, a, b>> /\ Turned(a, b, c)[6] = <<c, b, a>>
  BY DEF Turned
<1>3. IsTurn(Turned(a, b, c)[k], a, b, c)
  <2>1. {a, c, b} = {a, b, c} /\ {b, a, c} = {a, b, c} /\ {b, c, a} = {a, b, c}
        /\ {c, a, b} = {a, b, c} /\ {c, b, a} = {a, b, c}
    OBVIOUS
  <2> QED BY <1>1, <1>2, <2>1 DEF IsTurn
<1>4. ASSUME a # b, a # c, b # c, NEW l \in 1 .. 6, Turned(a, b, c)[k] = Turned(a, b, c)[l]
      PROVE  k = l
  <2>1. l \in {1, 2, 3, 4, 5, 6}
    OBVIOUS
  <2>2. CASE k = 1
    BY <1>2, <1>4, <2>1, <2>2
  <2>3. CASE k = 2
    BY <1>2, <1>4, <2>1, <2>3
  <2>4. CASE k = 3
    BY <1>2, <1>4, <2>1, <2>4
  <2>5. CASE k = 4
    BY <1>2, <1>4, <2>1, <2>5
  <2>6. CASE k = 5
    BY <1>2, <1>4, <2>1, <2>6
  <2>7. CASE k = 6
    BY <1>2, <1>4, <2>1, <2>7
  <2> QED BY <1>1, <2>2, <2>3, <2>4, <2>5, <2>6, <2>7
<1> QED BY <1>3, <1>4

LEMMA SixWalks ==
    ASSUME NEW G, Simple(G)
    PROVE  Cardinality(Walks(G)) = Cardinality(Corners(G)) * 6
<1> DEFINE S == Corners(G) \X (1 .. 6)
           f == [p \in S |-> Turned(p[1][1], p[1][2], p[1][3])[p[2]]]
<1>1. ASSUME NEW x, NEW y, NEW z
      PROVE  <<x, y, z>> \in Walks(G) <=>
                 /\ x \in Nodes /\ y \in Nodes /\ z \in Nodes
                 /\ y \in Adj(G, x) /\ z \in Adj(G, x) /\ z \in Adj(G, y)
  BY DEF Walks, Triples
<1>2. ASSUME NEW x \in Nodes, NEW y \in Nodes
      PROVE  (y \in Adj(G, x) <=> x \in Adj(G, y)) /\ (y \in Adj(G, x) => x # y)
  BY SimpleFacts
<1>3. ASSUME NEW t \in Corners(G)
      PROVE  \E a, b, c \in Nodes : t = <<a, b, c>> /\ <<a, b, c>> \in Walks(G) /\ b < a /\ c < b
  BY DEF Corners, Walks, Triples
<1>4. ASSUME NEW a, NEW b, NEW c, <<a, b, c>> \in Walks(G), NEW k \in 1 .. 6
      PROVE  Turned(a, b, c)[k] \in Walks(G)
  <2>1. /\ a \in Nodes /\ b \in Nodes /\ c \in Nodes
        /\ b \in Adj(G, a) /\ c \in Adj(G, a) /\ c \in Adj(G, b)
        /\ a \in Adj(G, b) /\ a \in Adj(G, c) /\ b \in Adj(G, c)
    BY <1>1, <1>2, <1>4
  <2>2. /\ <<a, b, c>> \in Walks(G) /\ <<a, c, b>> \in Walks(G) /\ <<b, a, c>> \in Walks(G)
        /\ <<b, c, a>> \in Walks(G) /\ <<c, a, b>> \in Walks(G) /\ <<c, b, a>> \in Walks(G)
    BY <1>1, <2>1
  <2>3. k \in {1, 2, 3, 4, 5, 6}
    OBVIOUS
  <2> QED BY <2>2, <2>3 DEF Turned
<1>5. f \in [S -> Walks(G)]
  <2> SUFFICES ASSUME NEW t \in Corners(G), NEW k \in 1 .. 6 PROVE Turned(t[1], t[2], t[3])[k] \in Walks(G)
    OBVIOUS
  <2>1. PICK a \in Nodes, b \in Nodes, c \in Nodes : t = <<a, b, c>> /\ <<a, b, c>> \in Walks(G)
    BY <1>3
  <2> QED BY <1>4, <2>1
<1>6. ASSUME NEW p \in S, NEW q \in S, f[p] = f[q] PROVE p = q
  <2>1. PICK s \in Corners(G), k \in 1 .. 6 : p = <<s, k>>
    OBVIOUS
  <2>2. PICK t \in Corners(G), l \in 1 .. 6 : q = <<t, l>>
    OBVIOUS
  <2>3. PICK a \in Nodes, b \in Nodes, c \in Nodes : s = <<a, b, c>> /\ b < a /\ c < b
    BY <1>3
  <2>4. PICK x \in Nodes, y \in Nodes, z \in Nodes : t = <<x, y, z>> /\ y < x /\ z < y
    BY <1>3
  <2>5. Turned(a, b, c)[k] = Turned(x, y, z)[l]
    BY <1>6, <2>1, <2>2, <2>3, <2>4
  <2> HIDE DEF f, S
  <2>6. {a, b, c} = {x, y, z}
    <3>1. IsTurn(Turned(a, b, c)[k], a, b, c) /\ IsTurn(Turned(x, y, z)[l], x, y, z)
      BY TurnedFacts
    <3>2. PICK d, e, h : Turned(a, b, c)[k] = <<d, e, h>> /\ {d, e, h} = {a, b, c}
      BY <3>1 DEF IsTurn
    <3>3. PICK d1, e1, h1 : Turned(x, y, z)[l] = <<d1, e1, h1>> /\ {d1, e1, h1} = {x, y, z}
      BY <3>1 DEF IsTurn
    <3>4. <<d, e, h>> = <<d1, e1, h1>>
      BY <2>5, <3>2, <3>3
    <3>5. d = d1 /\ e = e1 /\ h = h1
      BY <3>4
    <3> QED BY <3>2, <3>3, <3>5
  <2>7. /\ a \in Nat /\ b \in Nat /\ c \in Nat /\ x \in Nat /\ y \in Nat /\ z \in Nat
        /\ a \in {x, y, z} /\ b \in {x, y, z} /\ c \in {x, y, z}
        /\ x \in {a, b, c} /\ y \in {a, b, c} /\ z \in {a, b, c}
    BY <2>6, NodesFinite
  <2>8. a = x /\ b = y /\ c = z /\ a # b /\ a # c /\ b # c
    BY <2>3, <2>4, <2>7
  <2>9. Turned(a, b, c)[k] = Turned(a, b, c)[l]
    BY <2>5, <2>8
  <2>10. k = l
    BY <2>8, <2>9, TurnedFacts
  <2> QED BY <2>1, <2>2, <2>3, <2>4, <2>8, <2>10
<1>7. ASSUME NEW w \in Walks(G) PROVE \E p \in S : f[p] = w
  <2>1. PICK x \in Nodes, y \in Nodes, z \in Nodes : w = <<x, y, z>>
    BY DEF Walks, Triples
  <2>2. /\ y \in Adj(G, x) /\ z \in Adj(G, x) /\ z \in Adj(G, y)
        /\ x \in Adj(G, y) /\ x \in Adj(G, z) /\ y \in Adj(G, z)
        /\ x # y /\ x # z /\ y # z
    BY <1>1, <1>2, <2>1
  <2>3. ASSUME NEW a \in {x, y, z}, NEW b \in {x, y, z}, NEW c \in {x, y, z}, b < a, c < b,
               NEW k \in 1 .. 6, Turned(a, b, c)[k] = <<x, y, z>>
        PROVE  \E p \in S : f[p] = w
    <3>1. a \in Nat /\ b \in Nat /\ c \in Nat
      BY NodesFinite
    <3>2. a # b /\ a # c /\ b # c
      BY <2>3, <3>1
    <3>3. <<a, b, c>> \in Walks(G)
      BY <1>1, <2>2, <3>2
    <3>4. <<a, b, c>> \in Corners(G)
      BY <2>3, <3>3 DEF Corners
    <3>5. <<<<a, b, c>>, k>> \in S
      BY <3>4
    <3>6. f[<<<<a, b, c>>, k>>] = Turned(a, b, c)[k]
      BY <3>5
    <3> HIDE DEF f, S
    <3> QED BY <2>1, <2>3, <3>5, <3>6
  <2>4. x \in Nat /\ y \in Nat /\ z \in Nat
    BY NodesFinite
  <2>5. (x < y \/ y < x) /\ (x < z \/ z < x) /\ (y < z \/ z < y)
    BY <2>2, <2>4
  <2> HIDE DEF f, S
  <2>6. CASE y < x /\ z < y
    <3>1. Turned(x, y, z)[1] = <<x, y, z>>
      BY DEF Turned
    <3> QED BY <2>3, <2>6, <3>1
  <2>7. CASE z < x /\ y < z
    <3>1. Turned(x, z, y)[2] = <<x, y, z>>
      BY DEF Turned
    <3> QED BY <2>3, <2>7, <3>1
  <2>8. CASE x < y /\ z < x
    <3>1. Turned(y, x, z)[3] = <<x, y, z>>
      BY DEF Turned
    <3> QED BY <2>3, <2>8, <3>1
  <2>9. CASE z < y /\ x < z
    <3>1. Turned(y, z, x)[5] = <<x, y, z>>
      BY DEF Turned
    <3> QED BY <2>3, <2>9, <3>1
  <2>10. CASE x < z /\ y < x
    <3>1. Turned(z, x, y)[4] = <<x, y, z>>
      BY DEF Turned
    <3> QED BY <2>3, <2>10, <3>1
  <2>11. CASE y < z /\ x < y
    <3>1. Turned(z, y, x)[6] = <<x, y, z>>
      BY DEF Turned
    <3> QED BY <2>3, <2>11, <3>1
  <2> QED BY <2>5, <2>6, <2>7, <2>8, <2>9, <2>10, <2>11
<1>8. IsFiniteSet(Corners(G)) /\ IsFiniteSet(1 .. 6) /\ Cardinality(1 .. 6) = 6
  <2>1. PICK a \in Int, b \in Int : a = 1 /\ b = 6
    OBVIOUS
  <2>2. IsFiniteSet(a .. b) /\ Cardinality(a .. b) = IF a > b THEN 0 ELSE b - a + 1
    BY FS_Interval
  <2> QED BY <2>1, <2>2, TriplesFinite
<1>9. IsFiniteSet(S) /\ Cardinality(S) = Cardinality(Corners(G)) * 6
  BY <1>8, FS_Product
<1> HIDE DEF f, S
<1>10. f \in Bijection(S, Walks(G))
  BY <1>5, <1>6, <1>7, Fun_IsBij
<1>11. ExistsBijection(S, Walks(G))
  BY <1>10 DEF ExistsBijection
<1> QED BY <1>9, <1>11, FS_Bijection

(* The sum of TCVerifier counts the walks.                                  *)
Common(G, n, k) == ToSet(G[n]) \cap ToSet(G[G[n][k]])

LEMMA VerifierCounts ==
    ASSUME NEW G, Simple(G), NEW sums,
           sums = [n \in Nodes |-> SumFunction([k \in DOMAIN G[n] |-> Cardinality(Common(G, n, k))])]
    PROVE  SumFunction(sums) = Cardinality(Walks(G)) /\ Cardinality(Walks(G)) \in Nat
<1> DEFINE row(n) == [k \in DOMAIN G[n] |-> Common(G, n, k)]
           rows == [n \in Nodes |-> SideBySide(row(n), DOMAIN G[n])]
           Q == SideBySide(rows, Nodes)
           f == [q \in Q |-> <<q[1], G[q[1]][q[2][1]], q[2][2]>>]
<1>1. ASSUME NEW n \in Nodes
      PROVE  /\ IsFiniteSet(DOMAIN G[n]) /\ DOMAIN G[n] \subseteq Nat
             /\ \A k \in DOMAIN G[n] : /\ G[n][k] \in Nodes /\ IsFiniteSet(Common(G, n, k))
                                       /\ Common(G, n, k) \subseteq Nodes
             /\ \A k, l \in DOMAIN G[n] : G[n][k] = G[n][l] => k = l
  <2>1. PICK len \in Nat : len = Len(G[n])
    BY SimpleFacts
  <2>2. DOMAIN G[n] = 1 .. len /\ \A k \in DOMAIN G[n] : G[n][k] \in Nodes
    BY <2>1, SimpleFacts
  <2>3. IsFiniteSet(1 .. len)
    BY FS_Interval
  <2>4. ASSUME NEW k \in DOMAIN G[n]
        PROVE  G[n][k] \in Nodes /\ IsFiniteSet(Common(G, n, k)) /\ Common(G, n, k) \subseteq Nodes
    <3>1. Common(G, n, k) \in SUBSET Nodes
      BY SimpleFacts DEF Common, Adj
    <3> QED BY <2>2, <3>1, NodesFinite, FS_Subset
  <2>5. ASSUME NEW k \in DOMAIN G[n], NEW l \in DOMAIN G[n], G[n][k] = G[n][l] PROVE k = l
    <3>1. ~(k < l) /\ ~(l < k)
      <4>1. \A a, b \in DOMAIN G[n] : a < b => G[n][a] < G[n][b]
        BY DEF Simple
      <4>2. G[n][k] \in Nat
        BY <2>2, NodesFinite
      <4> QED BY <2>5, <4>1, <4>2
    <3> QED BY <2>2, <3>1
  <2> QED BY <2>2, <2>3, <2>4, <2>5
<1>2. ASSUME NEW n \in Nodes
      PROVE  IsFiniteSet(rows[n]) /\ sums[n] = Cardinality(rows[n])
  <2> DEFINE size == [k \in DOMAIN G[n] |-> Cardinality(Common(G, n, k))]
             D == DOMAIN G[n]
             parts == row(n)
  <2>1. sums[n] = SumFunctionOnSet(size, D)
    BY DEF SumFunction
  <2>2. IsFiniteSet(D) /\ \A k \in D : IsFiniteSet(parts[k]) /\ size[k] = Cardinality(parts[k])
    BY <1>1
  <2> HIDE DEF size, D, parts
  <2>3. SumFunctionOnSet(size, D) = Cardinality(SideBySide(parts, D)) /\ IsFiniteSet(SideBySide(parts, D))
    BY <2>2, SumSizes
  <2>4. rows[n] = SideBySide(parts, D)
    BY DEF parts, D
  <2> QED BY <2>1, <2>3, <2>4
<1> HIDE DEF rows
<1>3. /\ SumFunction(sums) \in Nat /\ IsFiniteSet(Q)
      /\ SumFunction(sums) = Cardinality(Q)
  <2>1. /\ SumFunctionOnSet(sums, Nodes) \in Nat /\ IsFiniteSet(Q)
        /\ SumFunctionOnSet(sums, Nodes) = Cardinality(Q)
    BY <1>2, NodesFinite, SumSizes
  <2>2. DOMAIN sums = Nodes
    OBVIOUS
  <2> QED BY <2>1, <2>2 DEF SumFunction
<1>4. ASSUME NEW q
      PROVE  q \in Q <=> \E n \in Nodes : \E k \in DOMAIN G[n] : \E z \in Common(G, n, k) :
                             q = <<n, <<k, z>>>>
  <2>1. ASSUME NEW n \in Nodes, NEW r
        PROVE  r \in rows[n] <=> \E k \in DOMAIN G[n] : \E z \in Common(G, n, k) : r = <<k, z>>
    <3>1. rows[n] = SideBySide(row(n), DOMAIN G[n])
      BY DEF rows
    <3>2. ASSUME NEW k \in DOMAIN G[n] PROVE row(n)[k] = Common(G, n, k)
      OBVIOUS
    <3> HIDE DEF row
    <3> QED BY <3>1, <3>2 DEF SideBySide
  <2>2. q \in Q <=> \E n \in Nodes : \E r \in rows[n] : q = <<n, r>>
    BY DEF SideBySide
  <2> HIDE DEF Q
  <2> QED BY <2>1, <2>2
<1> HIDE DEF Q
<1>5. f \in [Q -> Walks(G)]
  <2> SUFFICES ASSUME NEW n \in Nodes, NEW k \in DOMAIN G[n], NEW z \in Common(G, n, k)
               PROVE  <<n, G[n][k], z>> \in Walks(G)
    BY <1>4
  <2> QED BY <1>1 DEF Walks, Triples, Common, Adj, ToSet
<1>6. ASSUME NEW p \in Q, NEW q \in Q, f[p] = f[q] PROVE p = q
  <2>1. PICK n \in Nodes : \E k \in DOMAIN G[n] : \E z \in Common(G, n, k) : p = <<n, <<k, z>>>>
    BY <1>4
  <2>2. PICK k \in DOMAIN G[n] : \E z \in Common(G, n, k) : p = <<n, <<k, z>>>>
    BY <2>1
  <2>3. PICK z : p = <<n, <<k, z>>>>
    BY <2>2
  <2>4. PICK n1 \in Nodes : \E k1 \in DOMAIN G[n1] : \E z1 \in Common(G, n1, k1) : q = <<n1, <<k1, z1>>>>
    BY <1>4
  <2>5. PICK k1 \in DOMAIN G[n1] : \E z1 \in Common(G, n1, k1) : q = <<n1, <<k1, z1>>>>
    BY <2>4
  <2>6. PICK z1 : q = <<n1, <<k1, z1>>>>
    BY <2>5
  <2>7. <<n, G[n][k], z>> = <<n1, G[n1][k1], z1>>
    BY <1>6, <2>3, <2>6
  <2>8. n = n1 /\ z = z1 /\ G[n][k] = G[n][k1]
    BY <2>7
  <2>9. k = k1
    BY <1>1, <2>8
  <2> QED BY <2>3, <2>6, <2>8, <2>9
<1>7. ASSUME NEW w \in Walks(G) PROVE \E q \in Q : f[q] = w
  <2>1. PICK x \in Nodes, y \in Nodes, z \in Nodes : w = <<x, y, z>>
    BY DEF Walks, Triples
  <2>2. y \in Adj(G, x) /\ z \in Adj(G, x) /\ z \in Adj(G, y)
    BY <2>1 DEF Walks
  <2>3. PICK k \in DOMAIN G[x] : G[x][k] = y
    BY <2>2 DEF Adj, ToSet
  <2>4. z \in Common(G, x, k)
    BY <2>2, <2>3 DEF Common, Adj
  <2>5. <<x, <<k, z>>>> \in Q
    BY <1>4, <2>4
  <2>6. f[<<x, <<k, z>>>>] = <<x, y, z>>
    BY <2>3, <2>5
  <2> HIDE DEF f
  <2> QED BY <2>1, <2>5, <2>6
<1> HIDE DEF f
<1>8. f \in Bijection(Q, Walks(G))
  BY <1>5, <1>6, <1>7, Fun_IsBij
<1>9. ExistsBijection(Q, Walks(G))
  BY <1>8 DEF ExistsBijection
<1>10. Cardinality(Walks(G)) = Cardinality(Q)
  BY <1>3, <1>9, FS_Bijection
<1> QED BY <1>3, <1>10
-----------------------------------------------------------------------------
(* RelabelByDegree: sorting a row keeps what is in it, and the ranks by     *)
(* degree are a new numbering.                                              *)
LEMMA SortedFacts ==
    ASSUME NEW S \in SUBSET Nat, NEW row \in Seq(S),
           \A k, l \in DOMAIN row : row[k] = row[l] => k = l
    PROVE  /\ Sorted(row) \in Seq(S) /\ Len(Sorted(row)) = Len(row)
           /\ ToSet(Sorted(row)) = ToSet(row)
           /\ \A k, l \in DOMAIN Sorted(row) : k < l => Sorted(row)[k] < Sorted(row)[l]
<1> DEFINE D == 1 .. Len(row)
           set == ToSet(row)
           s == Sorted(row)
<1>1. Len(row) \in Nat /\ DOMAIN row = D /\ row \in [D -> S]
  OBVIOUS
<1>2. set \in SUBSET S /\ set \in SUBSET Nat
  BY <1>1 DEF ToSet
<1>3. IsFiniteSet(D) /\ Cardinality(D) = Len(row)
  <2>1. PICK len \in Nat : len = Len(row)
    BY <1>1
  <2>2. IsFiniteSet(1 .. len) /\ Cardinality(1 .. len) = IF 1 > len THEN 0 ELSE len - 1 + 1
    BY FS_Interval
  <2> QED BY <2>1, <2>2
<1>4. IsFiniteSet(set) /\ Cardinality(set) = Len(row)
  <2>1. row \in [D -> set] /\ (\A k, l \in D : row[k] = row[l] => k = l)
        /\ \A y \in set : \E k \in D : row[k] = y
    BY <1>1 DEF ToSet
  <2> HIDE DEF D, set
  <2>2. row \in Bijection(D, set)
    BY <2>1, Fun_IsBij
  <2>3. ExistsBijection(D, set)
    BY <2>2 DEF ExistsBijection
  <2> QED BY <1>3, <2>3, FS_Bijection
<1> DEFINE rank(x) == Cardinality({y \in set : y < x})
           here(x, k) == /\ Cardinality({l \in D : row[l] < x}) < k
                         /\ k <= Cardinality({l \in D : row[l] <= x})
<1>11. ASSUME NEW x \in set
       PROVE  /\ rank(x) \in Nat /\ Cardinality({l \in D : row[l] < x}) = rank(x)
              /\ Cardinality({l \in D : row[l] <= x}) = rank(x) + 1
  <2> DEFINE L == {l \in D : row[l] < x}
             Y == {y \in set : y < x}
             f == [l \in L |-> row[l]]
  <2>1. PICK p \in D : row[p] = x
    BY <1>1 DEF ToSet
  <2>2. f \in [L -> Y] /\ (\A k, l \in L : f[k] = f[l] => k = l) /\ \A y \in Y : \E l \in L : f[l] = y
    BY <1>1 DEF ToSet
  <2>3. IsFiniteSet(L) /\ p \notin L /\ {l \in D : row[l] <= x} = L \cup {p}
    <3>1. L \in SUBSET D /\ \A l \in D : row[l] \in Nat
      BY <1>1
    <3>2. \A l \in D : row[l] <= x <=> row[l] < x \/ l = p
      BY <1>1, <2>1, <3>1
    <3> QED BY <1>3, <2>1, <3>1, <3>2, FS_Subset
  <2> HIDE DEF L, Y, f
  <2>4. f \in Bijection(L, Y)
    BY <2>2, Fun_IsBij
  <2>5. ExistsBijection(L, Y)
    BY <2>4 DEF ExistsBijection
  <2>6. Cardinality(L) = Cardinality(Y) /\ Cardinality(L) \in Nat
    BY <2>3, <2>5, FS_Bijection, FS_CardinalityType
  <2>7. Cardinality(L \cup {p}) = Cardinality(L) + 1
    BY <2>3, FS_AddElement
  <2> QED BY <2>3, <2>6, <2>7 DEF L, Y
<1>12. \A k \in D : \A x \in set : here(x, k) <=> rank(x) = k - 1
  <2>1. \A k \in D : k \in Nat
    BY <1>1
  <2> HIDE DEF D, set, rank
  <2> QED BY <1>11, <2>1
<1>5. s = [k \in D |-> CHOOSE x \in set : Cardinality({y \in set : y < x}) = k - 1]
  <2>1. s = [k \in D |-> CHOOSE x \in set : here(x, k)]
    BY <1>1 DEF Sorted
  <2> HIDE DEF here, rank, s, D, set
  <2>2. \A k \in D : (CHOOSE x \in set : here(x, k)) = (CHOOSE x \in set : rank(x) = k - 1)
    BY <1>12, Zenon
  <2> DEFINE a(k) == CHOOSE x \in set : here(x, k)
             b(k) == CHOOSE x \in set : rank(x) = k - 1
  <2>3. s = [k \in D |-> a(k)] /\ \A k \in D : a(k) = b(k)
    BY <2>1, <2>2, Zenon
  <2>4. s = [k \in D |-> b(k)]
    <3> HIDE DEF a, b
    <3> QED BY <2>3
  <2> QED BY <2>4 DEF rank
<1> HIDE DEF s, set
<1>6. IsOrdered(s, set)
  BY <1>2, <1>4, <1>5, RanksOrder
<1>7. /\ DOMAIN s = D /\ \A k \in D : s[k] \in set
      /\ \A x \in set : \E k \in D : s[k] = x
      /\ \A k, l \in D : k < l => s[k] < s[l]
  BY <1>4, <1>6 DEF IsOrdered
<1>8. s \in [D -> S]
  <2> DEFINE pick(k) == CHOOSE x \in set : Cardinality({y \in set : y < x}) = k - 1
  <2>0. s = [k \in D |-> pick(k)]
    BY <1>5
  <2> HIDE DEF pick, D
  <2>1. s = [k \in D |-> s[k]]
    BY <2>0
  <2> USE DEF D
  <2> QED BY <1>2, <1>7, <2>1
<1>9. s \in Seq(S) /\ Len(s) = Len(row)
  BY <1>1, <1>8
<1>10. ToSet(s) = set
  BY <1>7 DEF ToSet
<1> QED BY <1>7, <1>9, <1>10 DEF s, set

NewIds == [n \in Nodes |-> NewId(n)]

LEMMA NewIdsNumber ==
    ASSUME neigh \in [Nodes -> Seq(Nodes)]
    PROVE  /\ NewIds \in Bijection(Nodes, Nodes) /\ NewIds \in [Nodes -> Nodes]
           /\ \A x, y \in Nodes : NewIds[x] = NewIds[y] => x = y
           /\ \A y \in Nodes : \E x \in Nodes : NewIds[x] = y
<1> DEFINE less == {p \in Nodes \X Nodes : Before(p[1], p[2])}
           rank == [n \in Nodes |-> Cardinality({m \in Nodes : <<m, n>> \in less})]
<1>1. \A m, n \in Nodes : <<m, n>> \in less <=> Before(m, n)
  OBVIOUS
<1>2. \A n \in Nodes : Len(neigh[n]) \in Nat /\ n \in Nat
  BY NodesFinite
<1> HIDE DEF less
<1>3. TotalOrder(less, Nodes)
  <2>1. \A m \in Nodes : ~Before(m, m)
    BY <1>2 DEF Before
  <2>2. \A m, n \in Nodes : m # n => Before(m, n) \/ Before(n, m)
    BY <1>2 DEF Before
  <2>3. ASSUME NEW l \in Nodes, NEW m \in Nodes, NEW n \in Nodes, Before(l, m), Before(m, n)
        PROVE  Before(l, n)
    <3>1. PICK a \in Nat, b \in Nat, c \in Nat : a = Len(neigh[l]) /\ b = Len(neigh[m]) /\ c = Len(neigh[n])
      BY <1>2
    <3> QED BY <1>2, <2>3, <3>1 DEF Before
  <2> QED BY <1>1, <2>1, <2>2, <2>3 DEF TotalOrder
<1>4. rank \in Bijection(Nodes, 0 .. Cardinality(Nodes) - 1)
  BY <1>3, NodesFinite, RanksNumber
<1>5. ASSUME NEW n \in Nodes PROVE rank[n] = NewId(n)
  <2>1. {m \in Nodes : <<m, n>> \in less} = {m \in Nodes : Before(m, n)}
    BY <1>1
  <2> QED BY <2>1 DEF NewId
<1>6. rank = NewIds
  BY <1>5 DEF NewIds
<1>7. Nodes = 0 .. Cardinality(Nodes) - 1
  BY NodesFinite DEF Nodes
<1> HIDE DEF rank
<1>8. NewIds \in Bijection(Nodes, Nodes)
  BY <1>4, <1>6, <1>7
<1>9. NewIds \in [Nodes -> Nodes] /\ \A x, y \in Nodes : NewIds[x] = NewIds[y] => x = y
  BY <1>8, Fun_BijectionProperties
<1>10. \A y \in Nodes : \E x \in Nodes : NewIds[x] = y
  BY <1>8 DEF Bijection, Surjection
<1> QED BY <1>8, <1>9, <1>10

Renamed(n) == [k \in DOMAIN neigh[n] |-> NewId(neigh[n][k])]

LEMMA RenamedFacts ==
    ASSUME Simple(neigh), NEW n \in Nodes
    PROVE  /\ Sorted(Renamed(n)) \in Seq(Nodes) /\ Len(Sorted(Renamed(n))) = Len(neigh[n])
           /\ ToSet(Sorted(Renamed(n))) = {NewIds[m] : m \in Adj(neigh, n)}
           /\ \A k, l \in DOMAIN Sorted(Renamed(n)) :
                  k < l => Sorted(Renamed(n))[k] < Sorted(Renamed(n))[l]
<1> DEFINE row == Renamed(n)
<1>1. NewIds \in [Nodes -> Nodes] /\ \A x, y \in Nodes : NewIds[x] = NewIds[y] => x = y
  BY SimpleFacts, NewIdsNumber
<1>2. /\ Len(neigh[n]) \in Nat /\ DOMAIN neigh[n] = 1 .. Len(neigh[n])
      /\ \A k \in DOMAIN neigh[n] : neigh[n][k] \in Nodes
  BY SimpleFacts
<1>3. DOMAIN row = DOMAIN neigh[n] /\ \A k \in DOMAIN neigh[n] : row[k] = NewIds[neigh[n][k]] /\ row[k] \in Nodes
  <2>1. \A k \in DOMAIN neigh[n] : row[k] = NewId(neigh[n][k])
    BY DEF Renamed
  <2>2. \A m \in Nodes : NewId(m) = NewIds[m]
    BY DEF NewIds
  <2> QED BY <1>1, <1>2, <2>1, <2>2 DEF Renamed
<1>4. row \in Seq(Nodes)
  <2>1. row = [k \in DOMAIN neigh[n] |-> row[k]]
    BY DEF Renamed
  <2> HIDE DEF row
  <2> QED BY <1>2, <1>3, <2>1
<1>5. ASSUME NEW k \in DOMAIN row, NEW l \in DOMAIN row, row[k] = row[l] PROVE k = l
  <2>1. neigh[n][k] = neigh[n][l] /\ neigh[n][k] \in Nodes
    BY <1>1, <1>2, <1>3, <1>5
  <2>2. neigh[n][k] \in Nat
    BY <2>1, NodesFinite
  <2>3. \A a, b \in DOMAIN neigh[n] : a < b => neigh[n][a] < neigh[n][b]
    BY DEF Simple
  <2>4. ~(k < l) /\ ~(l < k)
    BY <1>3, <2>1, <2>2, <2>3
  <2>5. k \in Nat /\ l \in Nat
    BY <1>2, <1>3
  <2> QED BY <2>4, <2>5
<1>6. ToSet(row) = {NewIds[m] : m \in Adj(neigh, n)}
  BY <1>3 DEF ToSet, Adj
<1>7. Nodes \in SUBSET Nat
  BY NodesFinite
<1> HIDE DEF row
<1>9. Len(row) = Len(neigh[n])
  BY <1>2, <1>3, <1>4
<1>8. /\ Sorted(row) \in Seq(Nodes) /\ ToSet(Sorted(row)) = ToSet(row) /\ Len(Sorted(row)) = Len(row)
      /\ \A k, l \in DOMAIN Sorted(row) : k < l => Sorted(row)[k] < Sorted(row)[l]
  BY <1>4, <1>5, <1>7, SortedFacts
<1> QED BY <1>6, <1>8, <1>9 DEF row

(* Each node has a section of the array for its neighbours, and no two have *)
(* a cell in common.                                                        *)
LEMMA StartAfter ==
    ASSUME neigh \in [Nodes -> Seq(Nodes)], NEW n \in Nodes
    PROVE  Start(NewId(n) + 1) = Start(NewId(n)) + Len(neigh[n])
<1>1. \A m \in Nodes : NewId(m) \in Nat /\ (NewId(m) = NewId(n) => m = n)
  <2>1. NewIds \in [Nodes -> Nodes] /\ \A x, y \in Nodes : NewIds[x] = NewIds[y] => x = y
    BY NewIdsNumber
  <2>2. \A m \in Nodes : NewIds[m] = NewId(m)
    BY DEF NewIds
  <2> QED BY <2>1, <2>2, NodesFinite
<1>2. /\ Under(NewId(n) + 1) = Under(NewId(n)) \cup {n} /\ n \notin Under(NewId(n))
      /\ Under(NewId(n)) \in SUBSET Nodes
  BY <1>1 DEF Under
<1>3. IsFiniteSet(Under(NewId(n))) /\ \A m \in Under(NewId(n)) \cup {n} : Degrees[m] \in Int
  BY <1>2, NodesFinite, FS_Subset DEF Degrees
<1>4. SumFunctionOnSet(Degrees, Under(NewId(n)) \cup {n}) = Degrees[n] + SumFunctionOnSet(Degrees, Under(NewId(n)))
  BY <1>2, <1>3, SumInsert
<1>5. \A r : Start(r) = SumFunctionOnSet(Degrees, Under(r))
  BY DEF Start, Degrees, Under
<1>6. Start(NewId(n)) \in Nat
  <2>1. NewId(n) \in Nat
    BY <1>1
  <2> QED BY <2>1, StartsIncrease
<1>7. Start(NewId(n)) = SumFunctionOnSet(Degrees, Under(NewId(n)))
  BY <1>5
<1>8. Start(NewId(n) + 1) = SumFunctionOnSet(Degrees, Under(NewId(n)) \cup {n})
  BY <1>2, <1>5
<1>9. Degrees[n] = Len(neigh[n]) /\ Len(neigh[n]) \in Nat
  BY DEF Degrees
<1> QED BY <1>4, <1>6, <1>7, <1>8, <1>9

Section(n) == Start(NewId(n)) .. Start(NewId(n) + 1) - 1

LEMMA SectionFacts ==
    ASSUME neigh \in [Nodes -> Seq(Nodes)], NEW n \in Nodes
    PROVE  /\ NewId(n) \in Nodes /\ Start(NewId(n)) \in Nat /\ Start(N) \in Nat
           /\ Start(NewId(n) + 1) = Start(NewId(n)) + Len(neigh[n]) /\ Start(NewId(n) + 1) <= Start(N)
           /\ Section(n) = Start(NewId(n)) .. Start(NewId(n)) + Len(neigh[n]) - 1
           /\ Section(n) \subseteq 0 .. Start(N) - 1
<1>1. NewId(n) \in Nodes
  <2>1. NewIds \in [Nodes -> Nodes]
    BY NewIdsNumber
  <2> QED BY <2>1 DEF NewIds
<1>2. N \in Nat /\ NewId(n) \in Nat /\ NewId(n) + 1 \in Nat /\ NewId(n) + 1 <= N
  BY <1>1, TriangleAssumption DEF Nodes
<1>3. Start(NewId(n) + 1) = Start(NewId(n)) + Len(neigh[n]) /\ Len(neigh[n]) \in Nat
  BY StartAfter
<1>4. Start(NewId(n)) \in Nat /\ Start(N) \in Nat /\ Start(NewId(n) + 1) <= Start(N)
  BY <1>2, <1>3, StartsIncrease
<1> QED BY <1>1, <1>3, <1>4 DEF Section

LEMMA SectionsApart ==
    ASSUME neigh \in [Nodes -> Seq(Nodes)], NEW n \in Nodes, NEW m \in Nodes, n # m
    PROVE  Section(n) \cap Section(m) = {} /\ NewId(n) # NewId(m)
<1>1. \A x \in Nodes : NewId(x) \in Nat
  BY SectionFacts, NodesFinite
<1>2. NewId(n) # NewId(m)
  <2>1. \A x, y \in Nodes : NewIds[x] = NewIds[y] => x = y
    BY NewIdsNumber
  <2> QED BY <2>1 DEF NewIds
<1>3. ASSUME NEW x \in Nodes, NEW y \in Nodes, NewId(x) < NewId(y) PROVE Section(x) \cap Section(y) = {}
  <2>1. NewId(x) + 1 \in Nat /\ NewId(y) \in Nat /\ NewId(x) + 1 <= NewId(y)
    BY <1>1, <1>3
  <2>2. Start(NewId(x) + 1) \in Nat /\ Start(NewId(x) + 1) <= Start(NewId(y)) /\ Start(NewId(y)) \in Nat
    BY <2>1, StartsIncrease
  <2> QED BY <2>2 DEF Section
<1>4. NewId(n) < NewId(m) \/ NewId(m) < NewId(n)
  BY <1>1, <1>2
<1> QED BY <1>2, <1>3, <1>4

(* When all rows are in their new places, the new graph is the given one    *)
(* in another numbering.                                                    *)
LEMMA RelabelledFacts ==
    ASSUME Simple(neigh), NEW G \in [Nodes -> Seq(Nodes)],
           \A n \in Nodes : G[NewId(n)] = Sorted(Renamed(n))
    PROVE  Simple(G) /\ Renumbers(NewIds, neigh, G)
<1>1. NewIds \in Bijection(Nodes, Nodes)
  BY SimpleFacts, NewIdsNumber
<1>2. /\ NewIds \in [Nodes -> Nodes] /\ \A x, y \in Nodes : NewIds[x] = NewIds[y] => x = y
      /\ \A y \in Nodes : \E x \in Nodes : NewIds[x] = y
  BY SimpleFacts, NewIdsNumber
<1>3. ASSUME NEW n \in Nodes
      PROVE  /\ Adj(G, NewIds[n]) = {NewIds[m] : m \in Adj(neigh, n)}
             /\ \A k, l \in DOMAIN G[NewIds[n]] : k < l => G[NewIds[n]][k] < G[NewIds[n]][l]
  <2>1. NewIds[n] = NewId(n)
    BY DEF NewIds
  <2>2. G[NewIds[n]] = Sorted(Renamed(n))
    BY <2>1
  <2> QED BY <2>2, RenamedFacts DEF Adj
<1>4. \A n \in Nodes : Adj(neigh, n) \subseteq Nodes /\ n \notin Adj(neigh, n)
  BY SimpleFacts
<1>5. \A m, n \in Nodes : NewIds[n] \in Adj(G, NewIds[m]) <=> n \in Adj(neigh, m)
  BY <1>2, <1>3, <1>4
<1>6. \A m, n \in Nodes : n \in Adj(neigh, m) => m \in Adj(neigh, n)
  BY SimpleFacts
<1>7. ASSUME NEW x \in Nodes, NEW k \in DOMAIN G[x]
      PROVE  G[x][k] \in Nodes /\ G[x][k] # x /\ \E l \in DOMAIN G[G[x][k]] : G[G[x][k]][l] = x
  <2>1. G[x] \in Seq(Nodes)
    OBVIOUS
  <2>2. G[x][k] \in Nodes /\ G[x][k] \in Adj(G, x)
    BY <2>1 DEF Adj, ToSet
  <2>3. PICK m \in Nodes, n \in Nodes : NewIds[m] = x /\ NewIds[n] = G[x][k]
    BY <1>2, <2>2
  <2>4. n \in Adj(neigh, m)
    BY <1>5, <2>2, <2>3
  <2>5. m # n /\ m \in Adj(neigh, n)
    BY <1>4, <1>6, <2>4
  <2>6. NewIds[m] # NewIds[n] /\ NewIds[m] \in Adj(G, NewIds[n])
    BY <1>2, <1>5, <2>5
  <2> QED BY <2>2, <2>3, <2>6 DEF Adj, ToSet
<1>8. ASSUME NEW x \in Nodes, NEW k \in DOMAIN G[x], NEW l \in DOMAIN G[x], k < l
      PROVE  G[x][k] < G[x][l]
  <2>1. PICK n \in Nodes : NewIds[n] = x
    BY <1>2
  <2> QED BY <1>3, <1>8, <2>1
<1>9. Simple(G)
  BY <1>7, <1>8 DEF Simple, Undirected
<1> QED BY <1>1, <1>5, <1>9 DEF Renumbers
-----------------------------------------------------------------------------
(* The inductive invariant.  An offset is at the start of its section until  *)
(* the row is written, and at the end from then on; the row stays as it is   *)
(* when others are written.                                                  *)
RowAt(n) ==
    IF n \in todo THEN offsets[NewId(n)] = Start(NewId(n))
    ELSE offsets[NewId(n)] = Start(NewId(n) + 1) /\ RowIn(neighs, NewId(n)) = Sorted(Renamed(n))

Relabelling ==
    /\ DOMAIN offsets = 0 .. N /\ offsets = [r \in 0 .. N |-> offsets[r]] /\ offsets[N] = Start(N)
    /\ neighs \in [0 .. Start(N) - 1 -> Nodes]
    /\ \A n \in Nodes : RowAt(n)

(* g is the given graph, in another numbering once it has been relabelled;   *)
Shape ==
    /\ Simple(neigh) /\ g \in [Nodes -> Seq(Nodes)]
    /\ phase \in {"hybrid", "relabel", "count", "done"} /\ todo \subseteq Nodes
    /\ phase = "hybrid" => g = neigh
    /\ phase = "relabel" => Relabelling
    /\ phase \in {"count", "done"} => Simple(g) /\ \E num : Renumbers(num, neigh, g)

(* v is a smaller neighbour of u, and the iterator has passed only what is   *)
(* smaller than any w to come;                                               *)
Loops ==
    /\ j \in Nat \ {0} /\ pc \in Steps
    /\ pc # "idle" => u \notin todo
    /\ pc \in {"w", "it"} =>
           /\ i \in DOMAIN g[u] /\ V < u
           /\ \A k \in DOMAIN g[u], l \in DOMAIN g[V] : k < it /\ l >= j => g[u][k] < g[V][l]
    /\ pc = "it" => j \in DOMAIN g[V]

(* and total is the number of triangles whose corners the loops have passed. *)
Passed(t) ==
    \/ \E k \in DOMAIN g[u] : k < i /\ g[u][k] = t[2]
    \/ pc \in {"w", "it"} /\ t[2] = V /\ \E l \in DOMAIN g[V] : l < j /\ g[V][l] = t[3]

Counted == {t \in Corners(g) : t[1] \notin todo /\ (pc # "idle" /\ t[1] = u => Passed(t))}

Counting ==
    /\ phase \in {"hybrid", "relabel"} => total = 0
    /\ phase = "count" => total = Cardinality(Counted)
    /\ phase = "done" => total = Cardinality(Corners(g))

CInv == Shape /\ Loops /\ Counting

LEMMA SameNumbers == ASSUME NEW G PROVE Renumbers([n \in Nodes |-> n], G, G)
<1> DEFINE same == [n \in Nodes |-> n]
<1>1. same \in [Nodes -> Nodes] /\ (\A x, y \in Nodes : same[x] = same[y] => x = y)
      /\ \A y \in Nodes : \E x \in Nodes : same[x] = y
  OBVIOUS
<1>2. \A n \in Nodes : same[n] = n
  OBVIOUS
<1> HIDE DEF same
<1>3. same \in Bijection(Nodes, Nodes)
  BY <1>1, Fun_IsBij
<1>4. Renumbers(same, G, G)
  BY <1>2, <1>3 DEF Renumbers
<1> QED BY <1>4 DEF same

LEMMA InitCInv == Init => CInv
<1> SUFFICES ASSUME Init PROVE CInv
  OBVIOUS
<1>1. neigh \in GraphsIn /\ Simple(neigh)
  BY TriangleAssumption DEF Init
<1>2. Shape
  <2>1. g \in [Nodes -> Seq(Nodes)]
    BY <1>1 DEF Init, Simple, Undirected
  <2> QED BY <1>1, <2>1 DEF Init, Shape
<1>3. Loops /\ Counting
  BY DEF Init, Loops, Counting, Steps
<1> QED BY <1>2, <1>3 DEF CInv

(* What Relabel leaves in the array: the row of n, renamed and sorted, in    *)
(* its section, and all else as it was.                                      *)
LEMMA RelabelCells ==
    ASSUME Shape, NEW n \in Nodes, Relabel(n)
    PROVE  /\ offsets' = [offsets EXCEPT ![NewId(n)] = Start(NewId(n) + 1)]
           /\ neighs' \in [0 .. Start(N) - 1 -> Nodes]
           /\ RowIn(neighs', NewId(n)) = Sorted(Renamed(n))
           /\ \A c \in 0 .. Start(N) - 1 : c \notin Section(n) => neighs'[c] = neighs[c]
<1>0. /\ Simple(neigh) /\ neigh \in [Nodes -> Seq(Nodes)] /\ phase = "relabel" /\ n \in todo
      /\ neighs \in [0 .. Start(N) - 1 -> Nodes] /\ offsets[NewId(n)] = Start(NewId(n))
      /\ DOMAIN offsets = 0 .. N
  BY SimpleFacts DEF Relabel, Shape, Relabelling, RowAt
<1>1. PICK r \in Nodes : r = NewId(n)
  BY <1>0, SectionFacts
<1>2. PICK s \in Nat, z \in Nat, d \in Nat : s = Start(r) /\ z = Start(N) /\ d = Len(neigh[n])
  BY <1>0, <1>1, SectionFacts
<1>3. Start(r + 1) = s + d /\ s + d <= z /\ Section(n) = s .. s + d - 1 /\ offsets[r] = s
  BY <1>0, <1>1, <1>2, SectionFacts
<1> DEFINE written == [c \in DOMAIN neighs |-> IF c \in s .. s + d - 1 THEN NewId(neigh[n][c - s + 1]) ELSE neighs[c]]
           row == Sorted(RowIn(written, r))
<1>4. /\ offsets' = [offsets EXCEPT ![r] = @ + d]
      /\ neighs' = [c \in DOMAIN neighs |-> IF c \in s .. s + d - 1 THEN row[c - s + 1] ELSE written[c]]
  BY <1>1, <1>2, <1>3 DEF Relabel, Index
<1>5. RowIn(written, r) = Renamed(n)
  <2>1. RowIn(written, r) = [k \in 1 .. d |-> written[s + k - 1]]
    <3>1. Index(r + 1) - Index(r) = d /\ Index(r) = s
      BY <1>2, <1>3 DEF Index
    <3> HIDE DEF written
    <3> QED BY <3>1 DEF RowIn
  <2>2. ASSUME NEW k \in 1 .. d PROVE written[s + k - 1] = NewId(neigh[n][k])
    <3>1. s + k - 1 \in s .. s + d - 1 /\ s + k - 1 \in 0 .. z - 1 /\ (s + k - 1) - s + 1 = k
      BY <1>3
    <3>2. DOMAIN neighs = 0 .. z - 1
      BY <1>0, <1>2
    <3> QED BY <3>1, <3>2
  <2>3. DOMAIN neigh[n] = 1 .. d
    BY <1>0, <1>2
  <2> HIDE DEF written
  <2> QED BY <2>1, <2>2, <2>3 DEF Renamed
<1>6. row = Sorted(Renamed(n)) /\ row \in Seq(Nodes) /\ Len(row) = d
  BY <1>0, <1>2, <1>5, RenamedFacts
<1>7. DOMAIN row = 1 .. d /\ \A k \in 1 .. d : row[k] \in Nodes
  <2> HIDE DEF row
  <2> QED BY <1>6
<1>8. \A c \in 0 .. z - 1 : c \notin s .. s + d - 1 => written[c] = neighs[c]
  BY <1>0, <1>2
<1>9. row = [k \in 1 .. d |-> row[k]]
  <2> HIDE DEF row
  <2> QED BY <1>6
<1> HIDE DEF written, row
<1>10. ASSUME NEW c \in 0 .. z - 1
       PROVE  /\ neighs'[c] = IF c \in s .. s + d - 1 THEN row[c - s + 1] ELSE neighs[c]
              /\ neighs'[c] \in Nodes
  <2>1. neighs'[c] = IF c \in s .. s + d - 1 THEN row[c - s + 1] ELSE neighs[c]
    BY <1>0, <1>2, <1>4, <1>8
  <2>2. c \in s .. s + d - 1 => c - s + 1 \in 1 .. d
    OBVIOUS
  <2> QED BY <1>0, <1>2, <1>7, <2>1, <2>2
<1>11. neighs' \in [0 .. z - 1 -> Nodes]
  <2>1. DOMAIN neighs = 0 .. z - 1
    BY <1>0, <1>2
  <2>2. neighs' = [c \in 0 .. z - 1 |-> neighs'[c]]
    BY <1>4, <2>1
  <2> QED BY <1>10, <2>2
<1>12. RowIn(neighs', r) = row
  <2>1. RowIn(neighs', r) = [k \in 1 .. d |-> neighs'[s + k - 1]]
    <3>1. Index(r + 1) - Index(r) = d /\ Index(r) = s
      BY <1>2, <1>3 DEF Index
    <3> QED BY <3>1 DEF RowIn
  <2>2. ASSUME NEW k \in 1 .. d PROVE neighs'[s + k - 1] = row[k]
    <3>1. s + k - 1 \in s .. s + d - 1 /\ s + k - 1 \in 0 .. z - 1 /\ (s + k - 1) - s + 1 = k
      BY <1>3
    <3> QED BY <1>10, <3>1
  <2> QED BY <1>9, <2>1, <2>2
<1>13. offsets' = [offsets EXCEPT ![NewId(n)] = Start(NewId(n) + 1)]
  BY <1>1, <1>3, <1>4
<1> QED BY <1>1, <1>2, <1>3, <1>6, <1>10, <1>11, <1>12, <1>13

(* Relabel(n) disturbs no row but its own.                                   *)
LEMMA RelabelStep ==
    ASSUME Shape, NEW n \in Nodes, Relabel(n)
    PROVE  Relabelling'
<1>0. /\ neigh \in [Nodes -> Seq(Nodes)] /\ Relabelling /\ n \in todo
      /\ todo' = todo \ {n} /\ neigh' = neigh
  BY SimpleFacts DEF Relabel, Shape
<1>1. /\ offsets' = [offsets EXCEPT ![NewId(n)] = Start(NewId(n) + 1)]
      /\ neighs' \in [0 .. Start(N) - 1 -> Nodes]
      /\ RowIn(neighs', NewId(n)) = Sorted(Renamed(n))
      /\ \A c \in 0 .. Start(N) - 1 : c \notin Section(n) => neighs'[c] = neighs[c]
  BY RelabelCells
<1>2. \A m : NewId(m)' = NewId(m) /\ Renamed(m)' = Renamed(m) /\ Start(m)' = Start(m)
  BY <1>0 DEF NewId, Before, Renamed, Start
<1>3. NewId(n) \in 0 .. N /\ NewId(n) # N /\ N \in 0 .. N /\ DOMAIN offsets = 0 .. N
  <2>1. NewId(n) \in Nodes
    BY <1>0, SectionFacts
  <2> QED BY <1>0, <2>1, NodesBelow DEF Relabelling
<1>4. /\ DOMAIN offsets' = 0 .. N /\ offsets' = [r \in 0 .. N |-> offsets'[r]] /\ offsets'[N] = Start(N)
      /\ offsets'[NewId(n)] = Start(NewId(n) + 1)
      /\ \A r \in 0 .. N : r # NewId(n) => offsets'[r] = offsets[r]
  <2>1. PICK r \in 0 .. N, e \in {Start(NewId(n) + 1)} : r = NewId(n)
    BY <1>3
  <2>2. offsets' = [x \in 0 .. N |-> IF x = r THEN e ELSE offsets[x]]
    BY <1>1, <1>3, <2>1
  <2>3. offsets[N] = Start(N)
    BY <1>0 DEF Relabelling
  <2> QED BY <1>3, <2>1, <2>2, <2>3
<1>5. \A r : RowIn(neighs, r)' = RowIn(neighs', r)
  BY <1>2 DEF RowIn, Index
<1>6. ASSUME NEW m \in Nodes, m # n PROVE RowIn(neighs', NewId(m)) = RowIn(neighs, NewId(m)) /\ NewId(m) \in 0 .. N
  <2>0. NewId(m) \in Nodes
    BY <1>0, SectionFacts
  <2>1. PICK r \in Nodes : r = NewId(m)
    BY <2>0
  <2>11. Start(NewId(m)) \in Nat /\ Start(N) \in Nat /\ Len(neigh[m]) \in Nat
    BY <1>0, SectionFacts
  <2>2. PICK s \in Nat, z \in Nat, d \in Nat : s = Start(r) /\ z = Start(N) /\ d = Len(neigh[m])
    BY <2>1, <2>11
  <2>3. Start(r + 1) = s + d /\ s + d <= z /\ Section(m) = s .. s + d - 1
    BY <1>0, <2>1, <2>2, SectionFacts
  <2>4. Index(r + 1) - Index(r) = d /\ Index(r) = s
    BY <2>2, <2>3 DEF Index
  <2>5. ASSUME NEW k \in 1 .. d PROVE neighs'[s + k - 1] = neighs[s + k - 1]
    <3>1. s + k - 1 \in Section(m) /\ s + k - 1 \in 0 .. z - 1
      BY <2>3
    <3>2. s + k - 1 \notin Section(n)
      BY <1>0, <1>6, <3>1, SectionsApart
    <3> QED BY <1>1, <2>2, <3>1, <3>2
  <2>6. RowIn(neighs', r) = [k \in 1 .. d |-> neighs'[s + k - 1]] /\ RowIn(neighs, r) = [k \in 1 .. d |-> neighs[s + k - 1]]
    BY <2>4 DEF RowIn
  <2>7. r \in 0 .. N
    BY NodesBelow
  <2> QED BY <2>1, <2>5, <2>6, <2>7
<1>7. ASSUME NEW m \in Nodes PROVE RowAt(m)'
  <2>1. CASE m = n
    BY <1>0, <1>1, <1>2, <1>4, <1>5, <2>1 DEF RowAt
  <2>2. CASE m # n
    <3>1. NewId(m) # NewId(n)
      BY <1>0, <2>2, SectionsApart
    <3>2. offsets'[NewId(m)] = offsets[NewId(m)] /\ RowIn(neighs', NewId(m)) = RowIn(neighs, NewId(m))
      BY <1>4, <1>6, <2>2, <3>1
    <3>3. RowAt(m) /\ (m \in todo' <=> m \in todo)
      BY <1>0, <2>2 DEF Relabelling
    <3> DEFINE done == Sorted(Renamed(m))
    <3>4. Sorted(Renamed(m))' = done
      BY <1>2
    <3>5. IF m \in todo THEN offsets[NewId(m)] = Start(NewId(m))
          ELSE offsets[NewId(m)] = Start(NewId(m) + 1) /\ RowIn(neighs, NewId(m)) = done
      BY <3>3 DEF RowAt
    <3> HIDE DEF done
    <3>6. IF m \in todo' THEN offsets'[NewId(m)'] = Start(NewId(m))'
          ELSE offsets'[NewId(m)'] = Start(NewId(m) + 1)' /\ RowIn(neighs, NewId(m))' = done
      BY <1>2, <1>5, <3>2, <3>3, <3>5
    <3> QED BY <3>4, <3>6 DEF RowAt
  <2> QED BY <2>1, <2>2
<1>8. Start(N)' = Start(N)
  BY <1>2
<1> QED BY <1>1, <1>4, <1>7, <1>8 DEF Relabelling

LEMMA RelabellingKept ==
    ASSUME Relabelling, UNCHANGED <<neigh, rowVars, todo>>
    PROVE  Relabelling'
<1>1. neigh' = neigh /\ offsets' = offsets /\ neighs' = neighs /\ todo' = todo
  BY DEF rowVars
<1>2. \A m : NewId(m)' = NewId(m) /\ Renamed(m)' = Renamed(m) /\ Start(m)' = Start(m)
  BY <1>1 DEF NewId, Before, Renamed, Start
<1>3. \A r : RowIn(neighs, r)' = RowIn(neighs, r)
  BY <1>1, <1>2 DEF RowIn, Index
<1>4. ASSUME NEW m \in Nodes PROVE RowAt(m)'
  <2> DEFINE sorted == Sorted(Renamed(m))
  <2>1. Sorted(Renamed(m))' = sorted
    BY <1>2
  <2>2. IF m \in todo THEN offsets[NewId(m)] = Start(NewId(m))
        ELSE offsets[NewId(m)] = Start(NewId(m) + 1) /\ RowIn(neighs, NewId(m)) = sorted
    BY DEF Relabelling, RowAt
  <2> HIDE DEF sorted
  <2>3. IF m \in todo' THEN offsets'[NewId(m)'] = Start(NewId(m))'
        ELSE offsets'[NewId(m)'] = Start(NewId(m) + 1)' /\ RowIn(neighs, NewId(m))' = sorted
    BY <1>1, <1>2, <1>3, <2>2
  <2> QED BY <2>1, <2>3 DEF RowAt
<1>5. Start(N)' = Start(N)
  BY <1>2
<1> QED BY <1>1, <1>4, <1>5 DEF Relabelling

LEMMA StartRelabelling ==
    ASSUME Shape, Hybrid, phase' = "relabel"
    PROVE  Relabelling'
<1>1. neigh \in [Nodes -> Seq(Nodes)] /\ todo' = Nodes /\ neigh' = neigh
      /\ offsets' = [r \in 0 .. N |-> Start(r)] /\ neighs' = [c \in 0 .. Start(N) - 1 |-> 0]
  BY SimpleFacts DEF Hybrid, Shape
<1>2. \A m : NewId(m)' = NewId(m) /\ Start(m)' = Start(m)
  BY <1>1 DEF NewId, Before, Start
<1>3. 0 \in Nodes /\ N \in 0 .. N /\ \A n \in Nodes : NewId(n) \in 0 .. N
  <2>1. \A n \in Nodes : NewId(n) \in Nodes
    BY <1>1, SectionFacts
  <2> QED BY <2>1, NodesBelow
<1>4. \A n \in Nodes : RowAt(n)'
  BY <1>1, <1>2, <1>3 DEF RowAt
<1>5. Start(N)' = Start(N)
  BY <1>2
<1> QED BY <1>1, <1>2, <1>3, <1>4, <1>5 DEF Relabelling

LEMMA ShapeStep ==
    ASSUME Shape, Next PROVE Shape'
<1> USE DEF Shape
<1>1. CASE Hybrid
  <2>1. \E num : Renumbers(num, neigh, neigh)
    BY SameNumbers
  <2>2. /\ phase = "hybrid" /\ phase' \in {"relabel", "count"} /\ todo' = Nodes
        /\ UNCHANGED <<neigh, g>> /\ g = neigh
    BY <1>1 DEF Hybrid
  <2>3. phase' = "relabel" => Relabelling'
    BY <1>1, StartRelabelling
  <2> QED BY <2>1, <2>2, <2>3
<1>2. ASSUME NEW n \in Nodes, Relabel(n) PROVE Shape'
  <2>1. phase = "relabel" /\ todo' = todo \ {n} /\ UNCHANGED <<neigh, g, phase>>
    BY <1>2 DEF Relabel
  <2> QED BY <1>2, <2>1, RelabelStep
<1>3. CASE Relabelled
  <2>1. phase = "relabel" /\ todo = {} /\ phase' = "count" /\ todo' = Nodes /\ neigh' = neigh
        /\ g' = [r \in Nodes |-> RowIn(neighs, r)]
    BY <1>3 DEF Relabelled
  <2>2. PICK G : G = [r \in Nodes |-> RowIn(neighs, r)]
    OBVIOUS
  <2>3. NewIds \in [Nodes -> Nodes] /\ \A y \in Nodes : \E x \in Nodes : NewIds[x] = y
    BY SimpleFacts, NewIdsNumber
  <2>4. \A n \in Nodes : NewIds[n] = NewId(n)
    BY DEF NewIds
  <2>5. ASSUME NEW n \in Nodes PROVE G[NewId(n)] = Sorted(Renamed(n)) /\ NewId(n) \in Nodes
    <3>1. RowIn(neighs, NewId(n)) = Sorted(Renamed(n))
      BY <2>1 DEF Relabelling, RowAt
    <3> QED BY <2>2, <2>3, <2>4, <3>1
  <2>6. ASSUME NEW x \in Nodes PROVE G[x] \in Seq(Nodes)
    <3>1. PICK n \in Nodes : NewId(n) = x
      BY <2>3, <2>4
    <3> QED BY <2>5, <3>1, RenamedFacts
  <2>7. G \in [Nodes -> Seq(Nodes)]
    <3>1. G = [r \in Nodes |-> G[r]]
      BY <2>2
    <3> QED BY <2>6, <3>1
  <2>8. Simple(G) /\ Renumbers(NewIds, neigh, G)
    BY <2>5, <2>7, RelabelledFacts
  <2>9. g' = G
    BY <2>1, <2>2
  <2>10. Simple(g)' /\ \E num : Renumbers(num, neigh, g)'
    <3>1. Simple(g)' <=> Simple(G)
      BY <2>9 DEF Simple, Undirected
    <3>2. Renumbers(NewIds, neigh, g') <=> Renumbers(NewIds, neigh, G)
      BY <2>9
    <3> QED BY <2>1, <2>8, <3>1, <3>2
  <2> QED BY <2>1, <2>7, <2>9, <2>10
<1>4. ASSUME NEW n \in Nodes, Take(n) PROVE Shape'
  BY <1>4 DEF Take
<1>5. CASE TakeV \/ TakeW \/ Advance \/ Compare
  <2>1. UNCHANGED <<neigh, g, phase, todo>> /\ UNCHANGED <<neigh, rowVars, todo>>
    BY <1>5 DEF TakeV, TakeW, Advance, Compare
  <2>2. Relabelling => Relabelling'
    BY <2>1, RelabellingKept
  <2> QED BY <2>1, <2>2
<1>6. CASE Finish
  BY <1>6 DEF Finish
<1>7. CASE Terminated
  <2>1. UNCHANGED <<neigh, g, phase, todo>>
    BY <1>7 DEF Terminated, vars
  <2>2. phase # "relabel"
    BY <1>7 DEF Terminated
  <2> QED BY <2>1, <2>2
<1> QED BY <1>1, <1>2, <1>3, <1>4, <1>5, <1>6, <1>7 DEF Next

(* Rows that the loops walk along increase strictly, up to their ends.      *)
LEMMA RowFacts ==
    ASSUME Shape, phase = "count", NEW n \in Nodes
    PROVE  /\ Len(g[n]) \in Nat /\ DOMAIN g[n] = 1 .. Len(g[n])
           /\ \A k \in DOMAIN g[n] : g[n][k] \in Nodes /\ g[n][k] \in Nat /\ g[n][k] # n /\ g[n][k] \in Adj(g, n)
           /\ \A k, l \in DOMAIN g[n] : k < l => g[n][k] < g[n][l]
<1>1. Simple(g)
  BY DEF Shape
<1> QED BY <1>1, SimpleFacts, NodesFinite DEF Simple, Adj, ToSet

LEMMA LoopsStep ==
    ASSUME IInv, Shape, Loops, Next PROVE Loops'
<1> USE DEF Loops
<1>0. /\ u \in Nodes /\ i \in Nat \ {0} /\ it \in Nat \ {0} /\ (phase # "count" => pc = "idle")
      /\ (pc \in {"w", "it"} => i <= Len(g[u]) /\ it <= i) /\ u \in Nat
  BY NodesFinite DEF IInv, Positions, Behind
<1>1. CASE Hybrid \/ Relabelled
  BY <1>0, <1>1 DEF Hybrid, Relabelled
<1>2. ASSUME NEW n \in Nodes, Relabel(n) PROVE Loops'
  BY <1>0, <1>2 DEF Relabel
<1>3. ASSUME NEW n \in Nodes, Take(n) PROVE Loops'
  BY <1>3 DEF Take, Steps
<1>4. CASE TakeV
  <2>1. phase = "count"
    BY <1>0, <1>4 DEF TakeV
  <2>2. CASE ~(i <= Len(g[u]) /\ ~(V > u))
    BY <1>4, <2>2 DEF TakeV, Steps
  <2>3. CASE i <= Len(g[u]) /\ ~(V > u)
    <3>1. i \in DOMAIN g[u] /\ V \in Nat /\ V # u /\ V < u
      BY <1>0, <2>1, <2>3, RowFacts DEF V
    <3>2. pc' = "w" /\ j' = 1 /\ it' = 1 /\ UNCHANGED <<g, todo, u, i>> /\ pc = "v"
      BY <1>4, <2>3 DEF TakeV, FirstIt
    <3>3. \A k \in DOMAIN g[u] : ~(k < 1)
      BY <1>0, <2>1, RowFacts
    <3> QED BY <3>1, <3>2, <3>3 DEF Steps, V
  <2> QED BY <2>2, <2>3
<1>5. CASE TakeW
  <2>1. phase = "count" /\ pc = "w" /\ UNCHANGED <<g, todo, u, j, it>>
    BY <1>0, <1>5 DEF TakeW
  <2>2. V \in Nodes
    BY <1>0, <2>1, RowFacts DEF V
  <2>3. CASE j <= Len(g[V]) /\ ~PastV
    <3>1. pc' = "it" /\ i' = i
      BY <1>5, <2>3 DEF TakeW
    <3>2. j \in DOMAIN g[V]
      BY <2>1, <2>2, <2>3, RowFacts
    <3>3. V' = V
      BY <2>1, <3>1 DEF V
    <3> QED BY <2>1, <3>1, <3>2, <3>3 DEF Steps
  <2>4. CASE ~(j <= Len(g[V]) /\ ~PastV)
    BY <1>5, <2>1, <2>4 DEF TakeW, Steps
  <2> QED BY <2>3, <2>4
<1>6. CASE Advance
  <2>1. phase = "count" /\ pc = "it" /\ it \in DOMAIN g[u] /\ g[u][it] < W /\ it' = it + 1
        /\ UNCHANGED <<g, todo, u, i, j, pc>>
    BY <1>0, <1>6, RowFacts DEF Advance
  <2>2. V \in Nodes /\ j \in DOMAIN g[V] /\ V' = V
    BY <1>0, <2>1, RowFacts DEF V
  <2>3. ASSUME NEW k \in DOMAIN g[u], NEW l \in DOMAIN g[V], k < it + 1, l >= j
        PROVE  g[u][k] < g[V][l]
    <3>1. CASE k < it
      BY <2>1, <2>3, <3>1
    <3>2. CASE ~(k < it)
      <4>1. k = it
        BY <1>0, <2>1, <2>3, <3>2, RowFacts
      <4>2. g[u][it] \in Nat /\ g[V][j] \in Nat /\ g[V][l] \in Nat
        BY <1>0, <2>1, <2>2, RowFacts
      <4>3. j = l \/ g[V][j] < g[V][l]
        BY <2>1, <2>2, <2>3, RowFacts
      <4> QED BY <2>1, <4>1, <4>2, <4>3 DEF W
    <3> QED BY <3>1, <3>2
  <2> QED BY <2>1, <2>2, <2>3
<1>7. CASE Compare
  <2>1. phase = "count" /\ pc = "it" /\ pc' = "w" /\ j' = j + 1 /\ UNCHANGED <<g, todo, u, i, it>>
    BY <1>0, <1>7 DEF Compare
  <2>2. V \in Nodes /\ V' = V
    BY <1>0, <2>1, RowFacts DEF V
  <2>3. \A l \in DOMAIN g[V] : l >= j + 1 => l >= j
    BY <2>1, <2>2, RowFacts
  <2> QED BY <2>1, <2>2, <2>3 DEF Steps
<1>8. CASE Finish \/ Terminated
  BY <1>0, <1>8 DEF Finish, Terminated, vars
<1> QED BY <1>1, <1>2, <1>3, <1>4, <1>5, <1>6, <1>7, <1>8 DEF Next

(* Compare counts the corners it is at, if they are those of a triangle: the *)
(* cells of the row of u before the iterator are below w, those after it     *)
(* above.                                                                    *)
LEMMA CompareStep ==
    ASSUME IInv, Shape, Loops, Counting, Compare PROVE Counting'
<1>0. /\ u \in Nodes /\ i \in Nat \ {0} /\ it \in Nat \ {0} /\ j \in Nat \ {0} /\ u \in Nat
      /\ phase # "count" => pc = "idle"
  BY NodesFinite DEF IInv, Positions, Loops
<1>1. /\ phase = "count" /\ pc = "it" /\ it <= Len(g[u]) /\ g[u][it] >= W
      /\ total' = (IF W = g[u][it] THEN total + 1 ELSE total)
      /\ pc' = "w" /\ j' = j + 1 /\ UNCHANGED <<g, phase, todo, u, i>>
  BY <1>0 DEF Compare
<1>2. /\ i \in DOMAIN g[u] /\ V < u /\ j \in DOMAIN g[V] /\ ~(V < W) /\ u \notin todo
      /\ \A k \in DOMAIN g[u], l \in DOMAIN g[V] : k < it /\ l >= j => g[u][k] < g[V][l]
  BY <1>1 DEF IInv, Behind, Loops
<1>3. V \in Nodes /\ V \in Nat /\ V \in Adj(g, u) /\ V' = V
  BY <1>0, <1>1, <1>2, RowFacts DEF V
<1>4. W \in Nodes /\ W \in Nat /\ W # V /\ W \in Adj(g, V) /\ W < V
  <2>1. W \in Nodes /\ W \in Nat /\ W # V /\ W \in Adj(g, V)
    BY <1>1, <1>2, <1>3, RowFacts DEF W
  <2> QED BY <1>2, <1>3, <2>1
<1>5. it \in DOMAIN g[u] /\ g[u][it] \in Nat
  BY <1>0, <1>1, RowFacts
<1>6. W \in Adj(g, u) <=> W = g[u][it]
  <2>1. ASSUME NEW k \in DOMAIN g[u], g[u][k] = W PROVE k = it
    <3>1. k \in Nat /\ g[u][k] \in Nat
      BY <1>0, <1>1, RowFacts
    <3>2. ~(k < it)
      <4>1. j >= j
        BY <1>0
      <4>2. k < it => g[u][k] < g[V][j]
        BY <1>2, <4>1
      <4> QED BY <1>4, <2>1, <4>2 DEF W
    <3>3. ~(it < k)
      <4>1. it < k => g[u][it] < g[u][k]
        BY <1>0, <1>1, <1>5, RowFacts
      <4> QED BY <1>1, <1>4, <1>5, <2>1, <4>1
    <3> QED BY <1>0, <3>1, <3>2, <3>3
  <2>2. W \in Adj(g, u) <=> \E k \in DOMAIN g[u] : g[u][k] = W
    BY DEF Adj, ToSet
  <2> QED BY <1>5, <2>1, <2>2
<1> DEFINE here == <<u, V, W>>
<1>7. here \in Corners(g) <=> W = g[u][it]
  BY <1>0, <1>2, <1>3, <1>4, <1>6 DEF Corners, Walks, Triples
<1>8. here \notin Counted
  <2> SUFFICES ASSUME Passed(here) PROVE FALSE
    BY <1>1 DEF Counted
  <2>1. here[2] = V /\ here[3] = W
    OBVIOUS
  <2>2. CASE \E k \in DOMAIN g[u] : k < i /\ g[u][k] = V
    <3>1. PICK k \in DOMAIN g[u] : k < i /\ g[u][k] = V
      BY <2>2
    <3>2. g[u][k] < g[u][i]
      BY <1>0, <1>1, <1>2, <3>1, RowFacts
    <3> QED BY <1>3, <3>1, <3>2 DEF V
  <2>3. CASE \E l \in DOMAIN g[V] : l < j /\ g[V][l] = W
    <3>1. PICK l \in DOMAIN g[V] : l < j /\ g[V][l] = W
      BY <2>3
    <3>2. g[V][l] < g[V][j]
      BY <1>1, <1>2, <1>3, <3>1, RowFacts
    <3> QED BY <1>4, <3>1, <3>2 DEF W
  <2> HIDE DEF here
  <2> QED BY <2>1, <2>2, <2>3 DEF Passed
<1>9. ASSUME NEW t \in Corners(g) PROVE t \in Counted' <=> t \in Counted \/ t = here
  <2>1. t = <<t[1], t[2], t[3]>>
    BY DEF Corners, Walks, Triples
  <2>2. Passed(t)' <=> Passed(t) \/ (t[2] = V /\ t[3] = W)
    <3>1. \A l \in DOMAIN g[V] : l < j + 1 <=> l < j \/ l = j
      BY <1>0, <1>1, <1>3, RowFacts
    <3>2. (\E l \in DOMAIN g[V] : l < j + 1 /\ g[V][l] = t[3]) <=>
              (\E l \in DOMAIN g[V] : l < j /\ g[V][l] = t[3]) \/ W = t[3]
      BY <1>2, <3>1 DEF W
    <3> QED BY <1>1, <1>3, <3>2 DEF Passed
  <2>3. t = here <=> t[1] = u /\ t[2] = V /\ t[3] = W
    BY <2>1
  <2>4. t \in Counted' <=> t[1] \notin todo /\ (t[1] = u => Passed(t)')
    BY <1>1 DEF Counted
  <2>5. t \in Counted <=> t[1] \notin todo /\ (t[1] = u => Passed(t))
    BY <1>1 DEF Counted
  <2> HIDE DEF here
  <2> QED BY <1>2, <2>2, <2>3, <2>4, <2>5
<1>10. Counted' \subseteq Corners(g) /\ Counted \in SUBSET Corners(g)
  BY <1>1 DEF Counted
<1> HIDE DEF here
<1>11. IsFiniteSet(Counted) /\ total = Cardinality(Counted) /\ Cardinality(Counted) \in Nat
  BY <1>1, <1>10, TriplesFinite, FS_Subset, FS_CardinalityType DEF Counting
<1>12. CASE W = g[u][it]
  <2>1. Counted' = Counted \cup {here}
    BY <1>7, <1>9, <1>10, <1>12
  <2>2. Cardinality(Counted \cup {here}) = Cardinality(Counted) + 1
    BY <1>8, <1>11, FS_AddElement
  <2>3. total' = Cardinality(Counted')
    BY <1>1, <1>11, <1>12, <2>1, <2>2
  <2> QED BY <1>1, <2>3 DEF Counting
<1>13. CASE W # g[u][it]
  <2>1. Counted' = Counted
    BY <1>7, <1>9, <1>10, <1>13
  <2> QED BY <1>1, <1>11, <1>13, <2>1 DEF Counting
<1> QED BY <1>12, <1>13

(* The loops pass the corners of one triangle after the other.              *)
LEMMA CountingStep ==
    ASSUME IInv, Shape, Loops, Counting, Next PROVE Counting'
<1>0. /\ u \in Nodes /\ i \in Nat \ {0} /\ it \in Nat \ {0} /\ j \in Nat \ {0} /\ u \in Nat
      /\ phase # "count" => pc = "idle"
      /\ pc \in {"w", "it"} => i \in DOMAIN g[u] /\ V < u
      /\ pc = "it" => j \in DOMAIN g[V] /\ ~(V < W)
      /\ pc # "idle" => u \notin todo
  BY NodesFinite DEF IInv, Positions, Behind, Loops
<1>1. IsFiniteSet(Corners(g))
  BY TriplesFinite
<1>2. \A t : t \in Corners(g) =>
          /\ t[1] \in Nodes /\ t[2] \in Nodes /\ t[3] \in Nodes /\ t = <<t[1], t[2], t[3]>>
          /\ t[2] < t[1] /\ t[3] < t[2]
          /\ \E k \in DOMAIN g[t[1]] : g[t[1]][k] = t[2]
          /\ \E l \in DOMAIN g[t[2]] : g[t[2]][l] = t[3]
  BY DEF Corners, Walks, Triples, Adj, ToSet
<1>3. CASE Hybrid \/ Relabelled
  <2>1. /\ phase \in {"hybrid", "relabel"} /\ total' = total /\ UNCHANGED pc
        /\ (phase' = "relabel" \/ (phase' = "count" /\ todo' = Nodes)) /\ pc = "idle"
    BY <1>0, <1>3 DEF Hybrid, Relabelled
  <2>2. phase' = "count" => Counted' = {}
    <3>1. ASSUME NEW G PROVE \A t \in Corners(G) : t[1] \in Nodes
      BY DEF Corners, Walks, Triples
    <3>2. Corners(g)' = Corners(g')
      BY DEF Corners, Walks, Triples, Adj
    <3>3. \A t \in Corners(g)' : t[1] \in Nodes
      BY <3>1, <3>2
    <3> QED BY <2>1, <3>3 DEF Counted
  <2>3. total' = 0
    BY <2>1 DEF Counting
  <2> QED BY <2>1, <2>2, <2>3, FS_EmptySet DEF Counting
<1>4. ASSUME NEW n \in Nodes, Relabel(n) PROVE Counting'
  BY <1>4 DEF Relabel, Counting
<1>5. ASSUME phase = "count", UNCHANGED <<phase, g, total>>, Counted' = Counted PROVE Counting'
  BY <1>5 DEF Counting
<1>6. ASSUME NEW n \in Nodes, Take(n) PROVE Counting'
  <2>1. /\ phase = "count" /\ pc = "idle" /\ n \in todo /\ todo' = todo \ {n} /\ u' = n
        /\ i' = 1 /\ pc' = "v" /\ UNCHANGED <<phase, g, total>>
    BY <1>6 DEF Take
  <2>2. ASSUME NEW t PROVE t \in Corners(g) /\ t[1] = n => ~Passed(t)'
    <3>1. \A k \in DOMAIN g[n] : ~(k < 1)
      BY <2>1, RowFacts
    <3> QED BY <2>1, <3>1 DEF Passed
  <2>3. Counted' = Counted
    <3>1. \A t \in Corners(g) : (t[1] \notin todo' /\ (pc' # "idle" /\ t[1] = u' => Passed(t)'))
              <=> t[1] \notin todo
      BY <2>1, <2>2
    <3>2. g' = g /\ pc = "idle"
      BY <2>1
    <3> QED BY <3>1, <3>2 DEF Counted
  <2> QED BY <1>5, <2>1, <2>3
<1>7. ASSUME phase = "count", pc # "idle", UNCHANGED <<phase, g, total, todo, u>>,
             \A t \in Corners(g) : t[1] = u => ((pc' # "idle" => Passed(t)') <=> Passed(t))
      PROVE  Counting'
  <2>1. \A t \in Corners(g) : (t[1] \notin todo' /\ (pc' # "idle" /\ t[1] = u' => Passed(t)'))
            <=> (t[1] \notin todo /\ (pc # "idle" /\ t[1] = u => Passed(t)))
    BY <1>7
  <2>2. Counted' = Counted
    BY <1>7, <2>1 DEF Counted
  <2> QED BY <1>5, <1>7, <2>2
<1>8. CASE TakeV
  <2>1. phase = "count" /\ pc = "v" /\ UNCHANGED <<phase, g, total, todo, u, i>>
    BY <1>0, <1>8 DEF TakeV
  <2>2. ASSUME NEW t \in Corners(g), t[1] = u PROVE (pc' # "idle" => Passed(t)') <=> Passed(t)
    <3>1. Passed(t) <=> \E k \in DOMAIN g[u] : k < i /\ g[u][k] = t[2]
      BY <2>1 DEF Passed
    <3>2. CASE i <= Len(g[u]) /\ ~(V > u)
      <4>1. pc' = "w" /\ j' = 1
        BY <1>8, <3>2 DEF TakeV
      <4>2. V \in Nodes
        BY <1>0, <2>1, <3>2, RowFacts DEF V
      <4>3. \A l \in DOMAIN g[V] : ~(l < 1)
        BY <2>1, <4>2, RowFacts
      <4>4. V' = V
        BY <2>1 DEF V
      <4>5. Passed(t)' <=> \E k \in DOMAIN g[u] : k < i /\ g[u][k] = t[2]
        BY <2>1, <4>1, <4>3, <4>4 DEF Passed
      <4> QED BY <3>1, <4>1, <4>5
    <3>3. CASE ~(i <= Len(g[u]) /\ ~(V > u))
      <4>1. pc' = "idle"
        BY <1>8, <3>3 DEF TakeV
      <4>2. PICK k \in DOMAIN g[u] : g[u][k] = t[2]
        BY <1>2, <2>2
      <4>3. k < i
        <5> SUFFICES ASSUME ~(k < i) PROVE FALSE
          OBVIOUS
        <5>1. Len(g[u]) \in Nat /\ k \in 1 .. Len(g[u]) /\ DOMAIN g[u] = 1 .. Len(g[u])
          BY <1>0, <2>1, RowFacts
        <5>2. i \in DOMAIN g[u] /\ V > u
          BY <1>0, <3>3, <5>1
        <5>3. k = i \/ g[u][i] < g[u][k]
          BY <1>0, <2>1, <5>1, <5>2, RowFacts
        <5>4. g[u][i] \in Nat /\ g[u][k] \in Nat
          BY <1>0, <2>1, <5>2, RowFacts
        <5>5. g[u][k] < u
          BY <1>2, <2>2, <4>2
        <5> QED BY <1>0, <5>2, <5>3, <5>4, <5>5 DEF V
      <4> QED BY <3>1, <4>1, <4>2, <4>3
    <3> QED BY <3>2, <3>3
  <2> QED BY <1>7, <2>1, <2>2
<1>9. CASE TakeW
  <2>1. phase = "count" /\ pc = "w" /\ UNCHANGED <<phase, g, total, todo, u, j>>
    BY <1>0, <1>9 DEF TakeW
  <2>2. i \in DOMAIN g[u] /\ V \in Nodes /\ V \in Nat
    BY <1>0, <2>1, RowFacts DEF V
  <2>3. CASE j <= Len(g[V]) /\ ~PastV
    <3>1. pc' = "it" /\ i' = i
      BY <1>9, <2>3 DEF TakeW
    <3>2. V' = V
      BY <2>1, <3>1 DEF V
    <3>3. \A t : Passed(t)' <=> Passed(t)
      BY <2>1, <3>1, <3>2 DEF Passed
    <3> QED BY <1>7, <2>1, <3>1, <3>3
  <2>4. CASE ~(j <= Len(g[V]) /\ ~PastV)
    <3>1. pc' = "v" /\ i' = i + 1
      BY <1>9, <2>4 DEF TakeW
    <3>2. ASSUME NEW t \in Corners(g), t[1] = u, t[2] = V
          PROVE  \E l \in DOMAIN g[V] : l < j /\ g[V][l] = t[3]
      <4>1. PICK l \in DOMAIN g[V] : g[V][l] = t[3]
        BY <1>2, <3>2
      <4>2. l < j
        <5> SUFFICES ASSUME ~(l < j) PROVE FALSE
          OBVIOUS
        <5>1. Len(g[V]) \in Nat /\ l \in 1 .. Len(g[V]) /\ DOMAIN g[V] = 1 .. Len(g[V])
          BY <2>1, <2>2, RowFacts
        <5>2. j \in DOMAIN g[V] /\ V < W
          BY <1>0, <2>4, <5>1 DEF PastV
        <5>3. l = j \/ g[V][j] < g[V][l]
          BY <1>0, <2>1, <2>2, <5>1, <5>2, RowFacts
        <5>4. g[V][j] \in Nat /\ g[V][l] \in Nat
          BY <2>1, <2>2, <5>2, RowFacts
        <5>5. g[V][l] < V
          BY <1>2, <3>2, <4>1
        <5> QED BY <2>2, <5>2, <5>3, <5>4, <5>5 DEF W
      <4> QED BY <4>1, <4>2
    <3>3. ASSUME NEW t \in Corners(g), t[1] = u PROVE Passed(t)' <=> Passed(t)
      <4>1. Passed(t)' <=> \E k \in DOMAIN g[u] : k < i + 1 /\ g[u][k] = t[2]
        BY <2>1, <3>1 DEF Passed
      <4>2. \A k \in DOMAIN g[u] : k < i + 1 <=> k < i \/ k = i
        BY <1>0, <2>1, RowFacts
      <4>3. Passed(t)' <=> (\E k \in DOMAIN g[u] : k < i /\ g[u][k] = t[2]) \/ t[2] = V
        BY <2>2, <4>1, <4>2 DEF V
      <4>4. Passed(t) <=> (\E k \in DOMAIN g[u] : k < i /\ g[u][k] = t[2]) \/ t[2] = V
        BY <2>1, <3>2, <3>3 DEF Passed
      <4> QED BY <4>3, <4>4
    <3> QED BY <1>7, <2>1, <3>1, <3>3
  <2> QED BY <2>3, <2>4
<1>10. CASE Advance
  <2>1. phase = "count" /\ pc = "it" /\ UNCHANGED <<phase, g, total, todo, u, i, j, pc>>
    BY <1>0, <1>10 DEF Advance
  <2>2. V' = V
    BY <2>1 DEF V
  <2>3. \A t : Passed(t)' <=> Passed(t)
    BY <2>1, <2>2 DEF Passed
  <2> QED BY <1>7, <2>1, <2>3
<1>12. CASE Finish
  <2>1. phase = "count" /\ pc = "idle" /\ todo = {} /\ phase' = "done" /\ UNCHANGED <<g, total>>
    BY <1>12 DEF Finish
  <2>2. Counted = Corners(g)
    BY <2>1 DEF Counted
  <2> QED BY <2>1, <2>2 DEF Counting
<1>13. CASE Terminated
  BY <1>13 DEF Terminated, vars, Counting, Counted, Passed, V
<1> QED BY <1>3, <1>4, <1>6, <1>8, <1>9, <1>10, <1>12, <1>13, CompareStep DEF Next

LEMMA Invariance == Spec => [](IInv /\ CInv)
<1>1. IInv /\ CInv /\ [Next]_vars => CInv'
  <2> SUFFICES ASSUME IInv, CInv, [Next]_vars PROVE CInv'
    OBVIOUS
  <2>1. CASE Next
    BY <2>1, ShapeStep, LoopsStep, CountingStep DEF CInv
  <2>2. CASE UNCHANGED vars
    <3>0. UNCHANGED <<neigh, g, phase, todo>> /\ UNCHANGED <<neigh, rowVars, todo>>
      BY <2>2 DEF vars
    <3>1. Shape'
      BY <3>0, RelabellingKept DEF CInv, Shape
    <3>2. Loops'
      BY <2>2 DEF vars, CInv, Loops, V
    <3>3. Counting'
      BY <2>2 DEF vars, CInv, Counting, Counted, Passed, V
    <3> QED BY <3>1, <3>2, <3>3 DEF CInv
  <2> QED BY <2>1, <2>2
<1> QED BY <1>1, InitIInv, NextIInv, InitCInv, PTL DEF Spec

LEMMA OffsetsInArray ==
    ASSUME Relabelling, Simple(neigh)
    PROVE  offsets \in [0 .. N -> 0 .. Start(N)] /\ neighs \in [0 .. Start(N) - 1 -> Nodes]
<1>1. neigh \in [Nodes -> Seq(Nodes)] /\ Start(N) \in Nat
  BY SimpleFacts, SectionFacts, NodesBelow
<1>2. ASSUME NEW r \in Nodes PROVE offsets[r] \in 0 .. Start(N)
  <2>1. (\A y \in Nodes : \E x \in Nodes : NewIds[x] = y) /\ \A x \in Nodes : NewIds[x] = NewId(x)
    BY <1>1, NewIdsNumber DEF NewIds
  <2>2. PICK n \in Nodes : NewId(n) = r
    BY <2>1
  <2>3. PICK s \in Nat, d \in Nat, z \in Nat :
            s = Start(NewId(n)) /\ d = Len(neigh[n]) /\ z = Start(N)
    BY <1>1, SectionFacts
  <2>4. Start(NewId(n) + 1) = s + d /\ s + d <= z
    BY <1>1, <2>3, SectionFacts
  <2>5. offsets[NewId(n)] = s \/ offsets[NewId(n)] = s + d
    BY <2>3, <2>4 DEF Relabelling, RowAt
  <2>6. s \in 0 .. z /\ s + d \in 0 .. z
    BY <2>4
  <2> QED BY <2>2, <2>3, <2>5, <2>6
<1>3. \A r \in 0 .. N : r \in Nodes \/ r = N
  <2>1. PICK n \in Nat \ {0} : n = N
    BY TriangleAssumption
  <2> QED BY <2>1 DEF Nodes
<1>4. offsets[N] \in 0 .. Start(N)
  BY <1>1 DEF Relabelling
<1> QED BY <1>2, <1>3, <1>4 DEF Relabelling

(* Types, that the offsets never leave the array, and that RelabelByDegree   *)
(* leaves the rows as SquishCSR does: sorted, without repetition, each edge  *)
(* in the rows of both its ends.                                             *)
THEOREM TypeCorrect == Spec => []TypeOK
<1>1. IInv /\ CInv => TypeOK
  <2> SUFFICES ASSUME IInv, CInv PROVE TypeOK
    OBVIOUS
  <2>1. /\ neigh \in [Nodes -> Seq(Nodes)] /\ g \in [Nodes -> Seq(Nodes)]
        /\ phase \in {"hybrid", "relabel", "count", "done"} /\ todo \subseteq Nodes
        /\ phase \in {"count", "done"} => Simple(g)
    BY DEF IInv, CInv, Shape
  <2>2. u \in Nodes /\ i \in Nat \ {0} /\ j \in Nat \ {0} /\ it \in Nat \ {0} /\ pc \in Steps
    BY DEF IInv, Positions, CInv, Loops
  <2>3. total \in Nat
    <3>1. Counted \in SUBSET Corners(g) /\ IsFiniteSet(Corners(g))
      BY TriplesFinite DEF Counted
    <3>2. Cardinality(Counted) \in Nat /\ Cardinality(Corners(g)) \in Nat
      BY <3>1, FS_Subset, FS_CardinalityType
    <3> QED BY <2>1, <3>2 DEF CInv, Counting
  <2>4. phase = "relabel" => offsets \in [0 .. N -> 0 .. Start(N)] /\ neighs \in [0 .. Start(N) - 1 -> Nodes]
    BY OffsetsInArray DEF CInv, Shape
  <2> QED BY <2>1, <2>2, <2>3, <2>4 DEF TypeOK
<1> QED BY <1>1, Invariance, PTL

(* What OrderedCount returns is the number of triangles of the graph given,  *)
(* relabelled or not, and TCVerifier accepts it.                             *)
THEOREM TrianglesCorrect == Spec => []TrianglesCounted
<1>1. IInv /\ CInv => TrianglesCounted
  <2> SUFFICES ASSUME IInv, CInv, phase = "done"
               PROVE  TCVerifier /\ total = Cardinality(Triangles(neigh))
    BY DEF TrianglesCounted, Triangles, Adj
  <2>1. Simple(neigh) /\ Simple(g) /\ total = Cardinality(Corners(g))
    BY DEF CInv, Shape, Counting
  <2>2. PICK num : Renumbers(num, neigh, g)
    BY DEF CInv, Shape
  <2>3. ASSUME NEW G, Simple(G) PROVE IsFiniteSet(Triangles(G)) /\ Cardinality(Triangles(G)) = Cardinality(Corners(G))
    BY <2>3, CornersOnce, TriplesFinite, FS_Bijection
  <2>4. Cardinality(Triangles(g)) = Cardinality(Triangles(neigh))
    BY <2>1, <2>2, <2>3, RenumberedTriangles, FS_Bijection
  <2>5. total = Cardinality(Triangles(neigh))
    BY <2>1, <2>3, <2>4
  <2> DEFINE sums == [n \in Nodes |-> SumFunction([k \in DOMAIN neigh[n] |->
                         Cardinality(ToSet(neigh[n]) \cap ToSet(neigh[neigh[n][k]]))])]
  <2>6. sums = [n \in Nodes |-> SumFunction([k \in DOMAIN neigh[n] |-> Cardinality(Common(neigh, n, k))])]
    BY DEF Common
  <2>7. TCVerifier <=> total = SumFunction(sums) \div 6
    BY DEF TCVerifier
  <2> HIDE DEF sums
  <2>8. SumFunction(sums) = Cardinality(Walks(neigh))
    BY <2>1, <2>6, VerifierCounts
  <2>9. Cardinality(Walks(neigh)) = Cardinality(Corners(neigh)) * 6
    BY <2>1, SixWalks
  <2>10. Cardinality(Corners(neigh)) = total /\ total \in Nat
    BY <2>1, <2>3, <2>5, TriplesFinite, FS_CardinalityType
  <2>11. (total * 6) \div 6 = total
    BY <2>10
  <2> QED BY <2>5, <2>7, <2>8, <2>9, <2>10, <2>11
<1> QED BY <1>1, Invariance, PTL
=============================================================================
