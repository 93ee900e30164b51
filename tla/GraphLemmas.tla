---------------------------- MODULE GraphLemmas ----------------------------
(***************************************************************************)
(* What the proofs about the kernels have in common: connectedness, least  *)
(* elements in place of induction, iteration of a function, sums, division *)
(* and the distances of a graph.                                           *)
(***************************************************************************)
EXTENDS Components, Distances, Functions, FiniteSetTheorems, FunctionTheorems, WellFoundedInduction, TLAPS

(* Being connected is an equivalence. *)
LEMMA ConnectedEquivalence ==
    ASSUME NEW nodes, NEW neigh, NEW u \in nodes, NEW v \in nodes
    PROVE  /\ ConnectedIn(nodes, neigh, u, u)
           /\ ConnectedIn(nodes, neigh, u, v) => ConnectedIn(nodes, neigh, v, u)
           /\ \A w \in nodes :
                ConnectedIn(nodes, neigh, u, v) /\ ConnectedIn(nodes, neigh, v, w)
                    => ConnectedIn(nodes, neigh, u, w)
BY DEF ConnectedIn

(* The two ends of an edge are nodes, and connected. *)
LEMMA ConnectedEdge ==
    ASSUME NEW nodes, NEW neigh, Undirected(nodes, neigh),
           NEW u \in nodes, NEW i \in DOMAIN neigh[u]
    PROVE  neigh[u][i] \in nodes /\ ConnectedIn(nodes, neigh, u, neigh[u][i])
<1>1. neigh[u] \in Seq(nodes)
  BY DEF Undirected
<1>2. neigh[u][i] \in nodes
  BY <1>1
<1> QED BY <1>2 DEF ConnectedIn, ClosedUnderEdges

AgreeAlongEdges(comp, nodes, neigh) ==
    \A a \in nodes : \A i \in DOMAIN neigh[a] :
        neigh[a][i] \in nodes /\ comp[a] = comp[neigh[a][i]]

(* If labels agree along every edge they agree within every component: the  *)
(* nodes with one label are a set that no edge leaves.                      *)
LEMMA LabelsAlongEdges ==
    ASSUME NEW nodes, NEW neigh, NEW comp, NEW u \in nodes, NEW v \in nodes,
           ConnectedIn(nodes, neigh, u, v), AgreeAlongEdges(comp, nodes, neigh)
    PROVE  comp[u] = comp[v]
<1> DEFINE S == {n \in nodes : comp[n] = comp[u]}
<1>1. ClosedUnderEdges(S, nodes, neigh)
  BY DEF ClosedUnderEdges, AgreeAlongEdges
<1>2. u \in S <=> v \in S
  <2> HIDE DEF S
  <2>1. S \in SUBSET nodes
    BY DEF S
  <2> QED BY <1>1, <2>1 DEF ConnectedIn
<1> QED BY <1>2

(* CCVerifier accepts a labelling exactly if it names the components: it    *)
(* turns down nothing right, and lets nothing wrong pass.                   *)
THEOREM CCVerifierExact ==
    ASSUME NEW nodes, NEW neigh, NEW comp, Undirected(nodes, neigh)
    PROVE  CCVerifier(comp, nodes, neigh) <=> LabelsComponents(comp, nodes, neigh)
<1> DEFINE labels == {comp[n] : n \in nodes}
           src(l) == CHOOSE n \in nodes : comp[n] = l
           Conn(u, v) == ConnectedIn(nodes, neigh, u, v)
           visited(l) == {n \in nodes : Conn(src(l), n)}
           Alone == \A l \in labels : \A u \in visited(l) : \A i \in DOMAIN neigh[u] : comp[neigh[u][i]] = l
           All == \A n \in nodes : \E l \in labels : n \in visited(l)
<1>1. CCVerifier(comp, nodes, neigh) <=> Alone /\ All
  BY Zenon DEF CCVerifier
<1>2. \A l \in labels : src(l) \in nodes /\ comp[src(l)] = l
  <2> SUFFICES ASSUME NEW l \in labels PROVE src(l) \in nodes /\ comp[src(l)] = l
    OBVIOUS
  <2>1. \E n \in nodes : comp[n] = l
    OBVIOUS
  <2> QED BY <2>1, Zenon
<1> HIDE DEF src, Conn
<1>3. \A u, v \in nodes : Conn(u, u) /\ (Conn(u, v) => Conn(v, u))
  BY ConnectedEquivalence DEF Conn
<1>4. \A u, v, w \in nodes : Conn(u, v) /\ Conn(v, w) => Conn(u, w)
  BY ConnectedEquivalence DEF Conn
<1>5. \A u \in nodes : \A i \in DOMAIN neigh[u] : neigh[u][i] \in nodes /\ Conn(u, neigh[u][i])
  BY ConnectedEdge DEF Conn
<1>6. ASSUME Alone, All PROVE LabelsComponents(comp, nodes, neigh)
  <2>1. ASSUME NEW l \in labels, NEW v \in visited(l) PROVE comp[v] = l
    <3> DEFINE S == {n \in visited(l) : comp[n] = l}
    <3>1. ClosedUnderEdges(S, nodes, neigh)
      <4> SUFFICES ASSUME NEW a \in nodes, NEW i \in DOMAIN neigh[a]
                   PROVE  a \in S <=> neigh[a][i] \in S
        BY DEF ClosedUnderEdges
      <4>1. neigh[a][i] \in nodes /\ Conn(a, neigh[a][i])
        BY <1>5
      <4>2. PICK j \in DOMAIN neigh[neigh[a][i]] : neigh[neigh[a][i]][j] = a
        BY DEF Undirected
      <4>3. ASSUME a \in S PROVE neigh[a][i] \in S
        <5>1. Conn(src(l), neigh[a][i])
          BY <4>1, <4>3, <1>2, <1>4
        <5>2. comp[neigh[a][i]] = l
          BY <4>3, <1>6
        <5> QED BY <4>1, <5>1, <5>2
      <4>4. ASSUME neigh[a][i] \in S PROVE a \in S
        <5>1. Conn(neigh[a][i], a)
          BY <4>1, <1>3
        <5>2. Conn(src(l), a)
          BY <4>4, <5>1, <1>2, <1>4
        <5>3. comp[a] = l
          BY <4>2, <4>4, <1>6
        <5> QED BY <5>2, <5>3
      <4> QED BY <4>3, <4>4
    <3>2. src(l) \in S
      BY <1>2, <1>3
    <3>3. S \in SUBSET nodes
      OBVIOUS
    <3> HIDE DEF S
    <3>4. v \in S
      BY <3>1, <3>2, <3>3 DEF Conn, ConnectedIn
    <3> QED BY <3>4 DEF S
  <2>2. \A n \in nodes : n \in visited(comp[n])
    BY <1>6, <2>1
  <2>3. ASSUME NEW u \in nodes, NEW v \in nodes PROVE Conn(u, v) <=> comp[u] = comp[v]
    <3>1. comp[u] \in labels /\ Conn(src(comp[u]), u) /\ Conn(src(comp[v]), v)
      BY <2>2
    <3>2. src(comp[u]) \in nodes
      BY <3>1, <1>2
    <3>3. ASSUME Conn(u, v) PROVE comp[u] = comp[v]
      <4>1. v \in visited(comp[u])
        BY <3>1, <3>2, <3>3, <1>4
      <4> QED BY <4>1, <3>1, <2>1
    <3>4. ASSUME comp[u] = comp[v] PROVE Conn(u, v)
      BY <3>1, <3>2, <3>4, <1>3, <1>4
    <3> QED BY <3>3, <3>4
  <2> QED BY <2>3 DEF LabelsComponents, Conn
<1>7. ASSUME LabelsComponents(comp, nodes, neigh) PROVE Alone /\ All
  <2>1. \A u, v \in nodes : Conn(u, v) <=> comp[u] = comp[v]
    BY <1>7 DEF LabelsComponents, Conn
  <2>2. Alone
    BY <2>1, <1>2, <1>5
  <2>3. All
    BY <2>1, <1>2
  <2> QED BY <2>2, <2>3
<1> QED BY <1>1, <1>6, <1>7
-----------------------------------------------------------------------------
(* A set of naturals has a least one: the induction of this module. *)
LEMMA LeastNatural ==
    ASSUME NEW S \in SUBSET Nat, S # {}
    PROVE  \E x \in S : \A y \in S : x <= y
<1>1. IsWellFoundedOn(OpToRel(<, Nat), Nat)
  BY NatLessThanWellFounded
<1>2. PICK x \in S : \A y \in S : ~ (<<y, x>> \in OpToRel(<, Nat))
  BY <1>1, WFMin
<1>3. ASSUME NEW y \in S PROVE x <= y
  <2>1. x \in Nat /\ y \in Nat
    OBVIOUS
  <2>2. <<y, x>> \in Nat \X Nat /\ ~ (<<y, x>> \in OpToRel(<, Nat))
    BY <1>2, <2>1
  <2>3. ~ (y < x)
    BY <2>2 DEF OpToRel
  <2> QED BY <2>1, <2>3
<1> QED BY <1>3

(* A function can be iterated. *)
Iterates(g, X, a, F) == g \in [Nat -> X] /\ g[0] = a /\ \A k \in Nat : g[k + 1] = F[g[k]]

LEMMA Iteration ==
    ASSUME NEW X, NEW a \in X, NEW F, \A x \in X : F[x] \in X
    PROVE  \E g : Iterates(g, X, a, F)
<1> DEFINE Good(h, n) == h \in [0 .. n -> X] /\ h[0] = a /\ \A k \in 0 .. n - 1 : h[k + 1] = F[h[k]]
           Missing == {n \in Nat : ~ \E h : Good(h, n)}
           Upto(n) == CHOOSE h : Good(h, n)
           g == [n \in Nat |-> Upto(n)[n]]
<1>1. ASSUME NEW n \in Nat, NEW h, Good(h, n)
      PROVE  Good([k \in 0 .. n + 1 |-> IF k = n + 1 THEN F[h[n]] ELSE h[k]], n + 1)
  BY <1>1
<1>2. Missing = {}
  <2> SUFFICES ASSUME Missing # {} PROVE FALSE
    OBVIOUS
  <2>1. PICK n \in Missing : \A m \in Missing : n <= m
    BY LeastNatural
  <2>2. CASE n = 0
    <3>1. Good([k \in 0 .. 0 |-> a], 0)
      OBVIOUS
    <3> QED BY <2>2, <3>1
  <2>3. CASE n # 0
    <3> HIDE DEF Good
    <3>1. n - 1 \in Nat /\ n - 1 \notin Missing /\ (n - 1) + 1 = n
      BY <2>1, <2>3
    <3>2. PICK h : Good(h, n - 1)
      BY <3>1
    <3>3. \E i : Good(i, (n - 1) + 1)
      BY <1>1, <3>1, <3>2
    <3> QED BY <2>1, <3>1, <3>3
  <2> QED BY <2>2, <2>3
<1>3. ASSUME NEW n \in Nat PROVE Good(Upto(n), n)
  BY <1>2
<1>4. ASSUME NEW n \in Nat, NEW m \in Nat, n <= m PROVE Upto(n)[n] = Upto(m)[n]
  <2> DEFINE h == Upto(n)
             i == Upto(m)
             Apart == {k \in 0 .. n : h[k] # i[k]}
  <2>1. Good(h, n) /\ Good(i, m)
    BY <1>3
  <2> HIDE DEF h, i
  <2>2. Apart = {}
    <3> SUFFICES ASSUME Apart # {} PROVE FALSE
      OBVIOUS
    <3>1. PICK k \in Apart : \A j \in Apart : k <= j
      <4>1. Apart \in SUBSET Nat
        OBVIOUS
      <4> HIDE DEF Apart
      <4> QED BY <4>1, LeastNatural
    <3>2. CASE k = 0
      BY <2>1, <3>2
    <3>3. CASE k # 0
      <4>1. k - 1 \in 0 .. n - 1 /\ k - 1 \in 0 .. m - 1 /\ h[k - 1] = i[k - 1]
        BY <1>4, <3>1, <3>3
      <4>2. h[(k - 1) + 1] = F[h[k - 1]] /\ i[(k - 1) + 1] = F[i[k - 1]]
        BY <2>1, <4>1
      <4>3. (k - 1) + 1 = k
        BY <3>1
      <4> QED BY <3>1, <4>1, <4>2, <4>3
    <3> QED BY <3>2, <3>3
  <2>3. h[n] = i[n]
    BY <2>2
  <2> QED BY <2>3 DEF h, i
<1>5. \A n \in Nat : g[n] \in X /\ g[n] = Upto(n)[n]
  <2> SUFFICES ASSUME NEW n \in Nat PROVE Upto(n)[n] \in X
    OBVIOUS
  <2>1. Good(Upto(n), n)
    BY <1>3
  <2> HIDE DEF Upto
  <2> QED BY <2>1
<1>6. g[0] = a
  <2>1. Good(Upto(0), 0)
    BY <1>3
  <2>2. Upto(0)[0] = a
    BY <2>1
  <2> QED BY <1>5, <2>2
<1>7. ASSUME NEW k \in Nat PROVE g[k + 1] = F[g[k]]
  <2>1. Upto(k + 1)[k + 1] = F[Upto(k + 1)[k]]
    <3>1. k + 1 \in Nat
      OBVIOUS
    <3>2. Good(Upto(k + 1), k + 1)
      <4> HIDE DEF Good, Upto
      <4> QED BY <1>3, <3>1
    <3> HIDE DEF Upto
    <3> QED BY <3>2
  <2>2. Upto(k + 1)[k] = Upto(k)[k]
    <3>1. k + 1 \in Nat /\ k <= k + 1
      OBVIOUS
    <3> HIDE DEF Upto
    <3> QED BY <1>4, <3>1
  <2> HIDE DEF Upto, g
  <2> QED BY <1>5, <2>1, <2>2
<1>8. g \in [Nat -> X]
  BY <1>5
<1> HIDE DEF g
<1> QED BY <1>6, <1>7, <1>8 DEF Iterates
LEMMA MinFacts ==
    ASSUME NEW S \in SUBSET Nat, S # {}
    PROVE  Min(S) \in S /\ \A y \in S : Min(S) <= y
<1>1. \E x \in S : \A y \in S : x <= y
  BY LeastNatural
<1> QED BY <1>1 DEF Min

(* A recursive definition over the naturals that amounts to applying F, and *)
(* what its values have in common.                                          *)
LEMMA Unrolled ==
    ASSUME NEW X, NEW a \in X, NEW F, \A x \in X : F[x] \in X,
           NEW h, h = [k \in Nat |-> h[k]], h[0] = a,
           \A k \in Nat : h[k] \in X => h[k + 1] = F[h[k]]
    PROVE  Iterates(h, X, a, F)
<1> DEFINE Out == {k \in Nat : h[k] \notin X}
<1>1. Out = {}
  <2> SUFFICES ASSUME Out # {} PROVE FALSE
    OBVIOUS
  <2>1. PICK k \in Out : \A j \in Out : k <= j
    BY LeastNatural
  <2>2. k # 0
    BY <2>1
  <2>3. k - 1 \in Nat /\ (k - 1) + 1 = k /\ ~(k <= k - 1)
    BY <2>1, <2>2
  <2>4. h[k - 1] \in X
    BY <2>1, <2>3
  <2>5. h[(k - 1) + 1] = F[h[k - 1]]
    BY <2>3, <2>4
  <2> QED BY <2>1, <2>3, <2>4, <2>5
<1>2. \A k \in Nat : h[k] \in X
  BY <1>1
<1> QED BY <1>2 DEF Iterates

LEMMA IterationKeeps ==
    ASSUME NEW X, NEW a, NEW F, NEW h, Iterates(h, X, a, F),
           NEW Y, a \in Y, \A x \in X \cap Y : F[x] \in Y
    PROVE  \A k \in Nat : h[k] \in Y
<1> DEFINE Out == {k \in Nat : h[k] \notin Y}
<1> SUFFICES ASSUME Out # {} PROVE FALSE
  OBVIOUS
<1>1. PICK k \in Out : \A j \in Out : k <= j
  BY LeastNatural
<1>2. k # 0
  BY <1>1 DEF Iterates
<1>3. k - 1 \in Nat /\ (k - 1) + 1 = k /\ ~(k <= k - 1)
  BY <1>1, <1>2
<1>4. h[k - 1] \in X \cap Y
  BY <1>1, <1>3 DEF Iterates
<1>5. h[(k - 1) + 1] = F[h[k - 1]]
  BY <1>3 DEF Iterates
<1> QED BY <1>1, <1>3, <1>4, <1>5
-----------------------------------------------------------------------------
(* Heights in a finite set, each one above another's, are less than its     *)
(* size: no two elements on the way down are the same.                      *)
LEMMA Descent ==
    ASSUME NEW S, IsFiniteSet(S), NEW height \in [S -> Int],
           \A v \in S : height[v] > 0 => \E u \in S : height[u] = height[v] - 1
    PROVE  \A v \in S : height[v] < Cardinality(S)
<1> SUFFICES ASSUME NEW v \in S, ~(height[v] < Cardinality(S)) PROVE FALSE
  OBVIOUS
<1> DEFINE far == height[v]
           Gap == {j \in Nat : j <= far /\ ~ \E u \in S : height[u] = far - j}
           f == [j \in 0 .. far |-> CHOOSE u \in S : height[u] = j]
<1>1. far \in Nat /\ Cardinality(S) \in Nat /\ Cardinality(S) <= far
  <2>1. Cardinality(S) \in Nat
    BY FS_CardinalityType
  <2> QED BY <2>1
<1>2. Gap = {}
  <2> SUFFICES ASSUME Gap # {} PROVE FALSE
    OBVIOUS
  <2>1. PICK j \in Gap : \A i \in Gap : j <= i
    BY LeastNatural
  <2>2. j # 0
    BY <1>1, <2>1
  <2>3. j \in Nat /\ j <= far /\ j - 1 \in Nat /\ far - (j - 1) > 0
        /\ far - (j - 1) - 1 = far - j /\ ~(j <= j - 1)
    BY <1>1, <2>1, <2>2
  <2>4. PICK u \in S : height[u] = far - (j - 1)
    <3>1. j - 1 \notin Gap
      <4> HIDE DEF Gap
      <4> QED BY <2>1, <2>3
    <3>2. j - 1 <= far
      BY <1>1, <2>3
    <3> QED BY <2>3, <3>1, <3>2
  <2>5. \E w \in S : height[w] = far - j
    BY <2>3, <2>4
  <2> QED BY <2>1, <2>5
<1> HIDE DEF far
<1>3. ASSUME NEW j \in 0 .. far PROVE \E u \in S : height[u] = j
  <2>1. far - j \in Nat /\ far - j <= far /\ far - (far - j) = j
    BY <1>1
  <2>2. \E u \in S : height[u] = far - (far - j)
    BY <1>2, <2>1
  <2> QED BY <2>1, <2>2
<1>4. f \in [0 .. far -> S] /\ \A j \in 0 .. far : height[f[j]] = j
  BY <1>3
<1>5. IsFiniteSet(0 .. far) /\ Cardinality(0 .. far) = far + 1
  BY <1>1, FS_Interval
<1> HIDE DEF f
<1> DEFINE I == 0 .. far
<1>6. f \in [I -> S] /\ IsFiniteSet(I) /\ Cardinality(S) < Cardinality(I)
  BY <1>1, <1>4, <1>5
<1>7. \E x, y \in I : x # y /\ f[x] = f[y]
  <2> HIDE DEF I
  <2> QED BY <1>6, FS_PigeonHole
<1> QED BY <1>4, <1>7
-----------------------------------------------------------------------------
(* Sums, one element after the other: that of integers is one, and that of  *)
(* naturals is the number of the pairs of an element and what it counts.    *)
SumsUp(sum, fun, S) ==
    /\ sum[{}] = 0 /\ \A s \in SUBSET S : sum[s] \in Int
    /\ \A s \in (SUBSET S) \ {{}} : \E y \in s : sum[s] = fun[y] + sum[s \ {y}]

LEMMA SumSteps ==
    ASSUME NEW S, IsFiniteSet(S), NEW fun, \A s \in S : fun[s] \in Int
    PROVE  \E sum : SumsUp(sum, fun, S) /\ SumFunctionOnSet(fun, S) = sum[S]
<1> DEFINE x(s) == CHOOSE x \in s : TRUE
           Sums == [SUBSET S -> Int]
           More(h) == [s \in SUBSET S |-> IF s = {} THEN 0 ELSE fun[x(s)] + h[s \ {x(s)}]]
           F == [h \in Sums |-> More(h)]
           Zero == [s \in SUBSET S |-> 0]
           iter == CHOOSE w : w = More(w)
<1>1. SumFunctionOnSet(fun, S) = iter[S]
  BY DEF SumFunctionOnSet, FoldFunctionOnSet, MapThenFoldSet
<1>2. ASSUME NEW s \in SUBSET S, s # {}
      PROVE  /\ x(s) \in s /\ x(s) \in S /\ s \ {x(s)} \in SUBSET S
             /\ IsFiniteSet(s) /\ Cardinality(s) \in Nat \ {0}
             /\ Cardinality(s \ {x(s)}) = Cardinality(s) - 1
  <2>1. IsFiniteSet(s) /\ x(s) \in s
    BY <1>2, FS_Subset
  <2> HIDE DEF x
  <2>2. Cardinality(s) \in Nat /\ Cardinality(s) # 0
    BY <1>2, <2>1, FS_CardinalityType, FS_EmptySet
  <2>3. Cardinality(s \ {x(s)}) = Cardinality(s) - 1
    BY <2>1, FS_RemoveElement
  <2> QED BY <2>1, <2>2, <2>3
<1> HIDE DEF x
<1>3. Zero \in Sums /\ \A h \in Sums : F[h] \in Sums
  <2>1. ASSUME NEW h \in Sums, NEW s \in SUBSET S PROVE More(h)[s] \in Int
    <3>1. CASE s = {}
      BY <3>1
    <3>2. CASE s # {}
      <4>1. x(s) \in S /\ s \ {x(s)} \in SUBSET S
        BY <1>2, <3>2
      <4>2. fun[x(s)] \in Int /\ h[s \ {x(s)}] \in Int
        BY <4>1
      <4> QED BY <4>2
    <3> QED BY <3>1, <3>2
  <2>2. ASSUME NEW h \in Sums PROVE F[h] \in Sums
    <3>1. \A s \in SUBSET S : More(h)[s] \in Int
      BY <2>1
    <3>2. More(h) = [s \in SUBSET S |-> More(h)[s]]
      OBVIOUS
    <3> HIDE DEF More
    <3>3. More(h) \in Sums
      BY <3>1, <3>2
    <3> QED BY <3>3
  <2>3. Zero \in Sums
    OBVIOUS
  <2> HIDE DEF Sums, F, Zero
  <2> QED BY <2>2, <2>3
<1>4. PICK g : Iterates(g, Sums, Zero, F)
  <2> HIDE DEF Sums, Zero, F
  <2> QED BY <1>3, Iteration
<1> DEFINE w == [s \in SUBSET S |-> g[Cardinality(s)][s]]
<1>5. ASSUME NEW s \in SUBSET S
      PROVE  w[s] \in Int /\ w[s] = IF s = {} THEN 0 ELSE fun[x(s)] + w[s \ {x(s)}]
  <2>1. CASE s = {}
    <3>1. Cardinality({}) = 0 /\ g[0] = Zero
      BY <1>4, FS_EmptySet DEF Iterates
    <3> QED BY <2>1, <3>1
  <2>2. CASE s # {}
    <3> DEFINE k == Cardinality(s) - 1
               r == s \ {x(s)}
    <3>1. k \in Nat /\ k + 1 = Cardinality(s) /\ k = Cardinality(r) /\ r \in SUBSET S /\ x(s) \in S
      <4>1. Cardinality(s) \in Nat \ {0} /\ Cardinality(s \ {x(s)}) = Cardinality(s) - 1
            /\ s \ {x(s)} \in SUBSET S /\ x(s) \in S
        BY <1>2, <2>2
      <4> QED BY <4>1
    <3>2. g[k] \in Sums /\ g[k + 1] = F[g[k]]
      BY <1>4, <3>1 DEF Iterates
    <3>3. g[k + 1] = More(g[k])
      BY <3>2
    <3>4. w[s] = g[k + 1][s] /\ w[r] = g[k][r]
      BY <3>1
    <3> HIDE DEF k, r, w
    <3>5. g[k + 1][s] = fun[x(s)] + g[k][r]
      BY <2>2, <3>3 DEF r
    <3>6. g[k][r] \in Int
      BY <3>1, <3>2
    <3> QED BY <2>2, <3>1, <3>4, <3>5, <3>6 DEF r
  <2> QED BY <2>1, <2>2
<1>6. w = More(w)
  <2> HIDE DEF w
  <2>1. \A s \in SUBSET S : w[s] = IF s = {} THEN 0 ELSE fun[x(s)] + w[s \ {x(s)}]
    BY <1>5
  <2>2. w = [s \in SUBSET S |-> w[s]]
    BY DEF w
  <2> QED BY <2>1, <2>2
<1> HIDE DEF w
<1>7. iter = More(iter)
  BY <1>6
<1> HIDE DEF iter
<1> DEFINE Out == {s \in SUBSET S : iter[s] \notin Int}
           Sizes == {Cardinality(s) : s \in Out}
<1>8. Out = {}
  <2> SUFFICES ASSUME Out # {} PROVE FALSE
    OBVIOUS
  <2>1. Sizes \in SUBSET Nat /\ Sizes # {}
    BY FS_Subset, FS_CardinalityType
  <2>2. PICK n \in Sizes : \A m \in Sizes : n <= m
    <3> HIDE DEF Sizes
    <3> QED BY <2>1, LeastNatural
  <2>3. PICK s \in Out : n = Cardinality(s)
    BY <2>2
  <2>4. iter[s] = IF s = {} THEN 0 ELSE fun[x(s)] + iter[s \ {x(s)}]
    BY <1>7, <2>3
  <2>5. s # {}
    BY <2>3, <2>4
  <2>6. Cardinality(s) \in Nat \ {0} /\ Cardinality(s \ {x(s)}) = Cardinality(s) - 1
        /\ s \ {x(s)} \in SUBSET S /\ x(s) \in S
    BY <1>2, <2>3, <2>5
  <2>7. s \ {x(s)} \notin Out
    <3>1. ~(n <= Cardinality(s \ {x(s)}))
      BY <2>3, <2>6
    <3>2. ASSUME s \ {x(s)} \in Out PROVE Cardinality(s \ {x(s)}) \in Sizes
      BY <3>2
    <3> HIDE DEF Sizes
    <3> QED BY <2>2, <3>1, <3>2
  <2> QED BY <2>3, <2>4, <2>5, <2>6, <2>7
<1>9. iter[{}] = 0
  BY <1>7
<1>10. ASSUME NEW s \in (SUBSET S) \ {{}} PROVE \E y \in s : iter[s] = fun[y] + iter[s \ {y}]
  <2>1. iter[s] = fun[x(s)] + iter[s \ {x(s)}]
    BY <1>7
  <2>2. x(s) \in s
    BY <1>2
  <2> QED BY <2>1, <2>2
<1>11. SumsUp(iter, fun, S)
  BY <1>8, <1>9, <1>10 DEF SumsUp
<1> QED BY <1>1, <1>11

LEMMA SumType ==
    ASSUME NEW S, IsFiniteSet(S), NEW fun, \A s \in S : fun[s] \in Int
    PROVE  SumFunctionOnSet(fun, S) \in Int
BY SumSteps DEF SumsUp

PairsOf(fun, S) == UNION {{<<s, k>> : k \in 1 .. fun[s]} : s \in S}

LEMMA SumCounts ==
    ASSUME NEW S, IsFiniteSet(S), NEW fun, \A s \in S : fun[s] \in Nat
    PROVE  /\ SumFunctionOnSet(fun, S) \in Nat /\ IsFiniteSet(PairsOf(fun, S))
           /\ SumFunctionOnSet(fun, S) = Cardinality(PairsOf(fun, S))
<1>1. PICK sum : SumsUp(sum, fun, S) /\ SumFunctionOnSet(fun, S) = sum[S]
  BY SumSteps
<1> DEFINE Good(s) == IsFiniteSet(PairsOf(fun, s)) /\ Cardinality(PairsOf(fun, s)) = sum[s]
           Bad == {s \in SUBSET S : ~Good(s)}
           Sizes == {Cardinality(s) : s \in Bad}
<1>2. ASSUME NEW y \in S
      PROVE  LET row == {<<y, k>> : k \in 1 .. fun[y]}
             IN  IsFiniteSet(row) /\ Cardinality(row) = fun[y]
  <2> DEFINE row == {<<y, k>> : k \in 1 .. fun[y]}
             put == [k \in 1 .. fun[y] |-> <<y, k>>]
  <2>1. PICK n \in Nat : n = fun[y]
    OBVIOUS
  <2>2. IsFiniteSet(1 .. n) /\ Cardinality(1 .. n) = n
    BY FS_Interval
  <2>3. put \in Bijection(1 .. fun[y], row)
    BY DEF Bijection, Injection, Surjection, IsInjective
  <2> HIDE DEF row, put
  <2>4. ExistsBijection(1 .. n, row)
    BY <2>1, <2>3 DEF ExistsBijection
  <2>5. IsFiniteSet(row) /\ Cardinality(row) = n
    BY <2>2, <2>4, FS_Bijection
  <2> QED BY <2>1, <2>5 DEF row
<1>3. ASSUME NEW s \in SUBSET S, s # {}, \A r \in SUBSET S : Cardinality(r) = Cardinality(s) - 1 => Good(r)
      PROVE  Good(s)
  <2>1. IsFiniteSet(s)
    BY FS_Subset
  <2>2. PICK y \in s : sum[s] = fun[y] + sum[s \ {y}]
    BY <1>1, <1>3 DEF SumsUp
  <2>3. Cardinality(s \ {y}) = Cardinality(s) - 1
    BY <2>1, FS_RemoveElement
  <2> DEFINE rest == PairsOf(fun, s \ {y})
             row == {<<y, k>> : k \in 1 .. fun[y]}
  <2>4. IsFiniteSet(rest) /\ Cardinality(rest) = sum[s \ {y}]
    BY <1>3, <2>3
  <2>5. IsFiniteSet(row) /\ Cardinality(row) = fun[y]
    BY <1>2
  <2>6. PairsOf(fun, s) = rest \cup row /\ rest \cap row = {}
    BY DEF PairsOf
  <2> HIDE DEF rest, row
  <2>7. IsFiniteSet(rest \cup row)
        /\ Cardinality(rest \cup row) = Cardinality(rest) + Cardinality(row) - Cardinality(rest \cap row)
    BY <2>4, <2>5, FS_Union
  <2>8. Cardinality(rest \cap row) = 0
    BY <2>6, FS_EmptySet
  <2>9. Cardinality(rest) \in Nat /\ Cardinality(row) \in Nat
    BY <2>4, <2>5, FS_CardinalityType
  <2> QED BY <2>2, <2>4, <2>5, <2>6, <2>7, <2>8, <2>9
<1>4. Good({})
  <2>1. PairsOf(fun, {}) = {}
    BY DEF PairsOf
  <2> QED BY <1>1, <2>1, FS_EmptySet DEF SumsUp
<1>5. Bad = {}
  <2> SUFFICES ASSUME Bad # {} PROVE FALSE
    OBVIOUS
  <2> HIDE DEF Good
  <2>1. \A s \in SUBSET S : IsFiniteSet(s) /\ Cardinality(s) \in Nat
    BY FS_Subset, FS_CardinalityType
  <2>2. Sizes \in SUBSET Nat /\ Sizes # {}
    BY <2>1
  <2>3. PICK n \in Sizes : \A m \in Sizes : n <= m
    <3> HIDE DEF Sizes
    <3> QED BY <2>2, LeastNatural
  <2>4. PICK s \in Bad : n = Cardinality(s)
    BY <2>3
  <2>5. ASSUME NEW r \in SUBSET S, Cardinality(r) = Cardinality(s) - 1 PROVE Good(r)
    <3> SUFFICES ASSUME r \in Bad PROVE FALSE
      OBVIOUS
    <3>1. Cardinality(r) \in Sizes
      OBVIOUS
    <3>2. n <= Cardinality(r)
      <4> HIDE DEF Sizes
      <4> QED BY <2>3, <3>1
    <3> QED BY <2>1, <2>4, <2>5, <3>2
  <2> QED BY <1>3, <1>4, <2>4, <2>5
<1>6. Good(S)
  BY <1>5
<1> QED BY <1>1, <1>6, FS_CardinalityType
(* A sum of sizes is the size of the sets put side by side.                 *)
SideBySide(parts, S) == {p \in S \X UNION {parts[s] : s \in S} : p[2] \in parts[p[1]]}

LEMMA SumSizes ==
    ASSUME NEW S, IsFiniteSet(S), NEW parts, \A s \in S : IsFiniteSet(parts[s]),
           NEW fun, \A s \in S : fun[s] = Cardinality(parts[s])
    PROVE  /\ SumFunctionOnSet(fun, S) \in Nat /\ IsFiniteSet(SideBySide(parts, S))
           /\ SumFunctionOnSet(fun, S) = Cardinality(SideBySide(parts, S))
<1> DEFINE bij == [s \in S |-> CHOOSE b : b \in Bijection(1 .. fun[s], parts[s])]
           f == [p \in PairsOf(fun, S) |-> <<p[1], bij[p[1]][p[2]]>>]
<1>1. ASSUME NEW s \in S
      PROVE  /\ fun[s] \in Nat /\ bij[s] \in [1 .. fun[s] -> parts[s]]
             /\ \A k, l \in 1 .. fun[s] : bij[s][k] = bij[s][l] => k = l
             /\ \A y \in parts[s] : \E k \in 1 .. fun[s] : bij[s][k] = y
  <2>1. fun[s] \in Nat /\ ExistsBijection(1 .. fun[s], parts[s])
    BY FS_CardinalityType
  <2>2. bij[s] \in Bijection(1 .. fun[s], parts[s])
    BY <2>1 DEF ExistsBijection
  <2>3. PICK b : b = bij[s]
    OBVIOUS
  <2> HIDE DEF bij
  <2> DEFINE K == 1 .. fun[s]
             P == parts[s]
  <2>4. b \in Bijection(K, P)
    BY <2>2, <2>3
  <2>5. /\ b \in [K -> P] /\ \A k, l \in K : b[k] = b[l] => k = l
        /\ \A y \in P : \E k \in K : b[k] = y
    <3> HIDE DEF K, P
    <3> QED BY <2>4, Fun_BijectionProperties
  <2> QED BY <2>1, <2>3, <2>5
<1> HIDE DEF bij
<1>2. SumFunctionOnSet(fun, S) \in Nat /\ IsFiniteSet(PairsOf(fun, S))
      /\ SumFunctionOnSet(fun, S) = Cardinality(PairsOf(fun, S))
  BY <1>1, SumCounts
<1>3. \A p \in PairsOf(fun, S) : p = <<p[1], p[2]>> /\ p[1] \in S /\ p[2] \in 1 .. fun[p[1]]
  BY DEF PairsOf
<1>4. \A s \in S : \A k \in 1 .. fun[s] : <<s, k>> \in PairsOf(fun, S)
  BY DEF PairsOf
<1>5. f \in [PairsOf(fun, S) -> SideBySide(parts, S)]
  <2> SUFFICES ASSUME NEW p \in PairsOf(fun, S) PROVE <<p[1], bij[p[1]][p[2]]>> \in SideBySide(parts, S)
    OBVIOUS
  <2>1. p[1] \in S /\ bij[p[1]][p[2]] \in parts[p[1]]
    BY <1>1, <1>3
  <2> QED BY <2>1 DEF SideBySide
<1>6. ASSUME NEW p \in PairsOf(fun, S), NEW q \in PairsOf(fun, S), f[p] = f[q] PROVE p = q
  <2>1. p[1] = q[1] /\ bij[p[1]][p[2]] = bij[q[1]][q[2]]
    BY <1>6
  <2>2. p[2] = q[2]
    BY <1>1, <1>3, <2>1
  <2> QED BY <1>3, <2>1, <2>2
<1>7. ASSUME NEW z \in SideBySide(parts, S) PROVE \E p \in PairsOf(fun, S) : f[p] = z
  <2>1. z = <<z[1], z[2]>> /\ z[1] \in S /\ z[2] \in parts[z[1]]
    BY DEF SideBySide
  <2>2. PICK k \in 1 .. fun[z[1]] : bij[z[1]][k] = z[2]
    BY <1>1, <2>1
  <2>3. <<z[1], k>> \in PairsOf(fun, S)
    BY <1>4, <2>1
  <2>4. f[<<z[1], k>>] = <<z[1], z[2]>>
    BY <2>2, <2>3
  <2> HIDE DEF f
  <2> QED BY <2>1, <2>3, <2>4
<1> HIDE DEF f
<1>8. f \in Bijection(PairsOf(fun, S), SideBySide(parts, S))
  BY <1>5, <1>6, <1>7, Fun_IsBij
<1>9. ExistsBijection(PairsOf(fun, S), SideBySide(parts, S))
  BY <1>8 DEF ExistsBijection
<1> QED BY <1>2, <1>9, FS_Bijection
-----------------------------------------------------------------------------
(* In a finite set with a total order, the number of what comes before an   *)
(* element numbers the elements.                                            *)
TotalOrder(less, S) ==
    \A x, y \in S :
        /\ <<x, x>> \notin less
        /\ x # y => <<x, y>> \in less \/ <<y, x>> \in less
        /\ \A z \in S : <<x, y>> \in less /\ <<y, z>> \in less => <<x, z>> \in less

LEMMA RanksNumber ==
    ASSUME NEW S, IsFiniteSet(S), NEW less, TotalOrder(less, S), NEW rank,
           rank = [x \in S |-> Cardinality({y \in S : <<y, x>> \in less})]
    PROVE  /\ rank \in Bijection(S, 0 .. Cardinality(S) - 1)
           /\ \A x, y \in S : <<x, y>> \in less => rank[x] < rank[y]
<1>1. PICK n \in Nat : n = Cardinality(S)
  BY FS_CardinalityType
<1> DEFINE before(x) == {y \in S : <<y, x>> \in less}
           T == 0 .. n - 1
<1>2. \A x \in S : rank[x] = Cardinality(before(x))
  OBVIOUS
<1>3. ASSUME NEW x \in S PROVE IsFiniteSet(before(x)) /\ rank[x] \in T
  <2>1. IsFiniteSet(before(x)) /\ Cardinality(before(x)) <= n /\ (n = Cardinality(before(x)) => S = before(x))
    BY <1>1, FS_Subset
  <2>2. Cardinality(before(x)) \in Nat
    BY <2>1, FS_CardinalityType
  <2>3. x \notin before(x)
    BY DEF TotalOrder
  <2> QED BY <1>1, <1>2, <2>1, <2>2, <2>3
<1>4. ASSUME NEW x \in S, NEW y \in S, <<x, y>> \in less PROVE rank[x] < rank[y]
  <2>1. before(x) \in SUBSET before(y)
    BY <1>4 DEF TotalOrder
  <2>2. x \in before(y) /\ x \notin before(x)
    BY <1>4 DEF TotalOrder
  <2>3. IsFiniteSet(before(y)) /\ rank[x] \in T /\ rank[y] \in T
    BY <1>3
  <2> HIDE DEF before
  <2>4. Cardinality(before(x)) <= Cardinality(before(y))
        /\ (Cardinality(before(y)) = Cardinality(before(x)) => before(y) = before(x))
    BY <2>1, <2>3, FS_Subset
  <2> QED BY <1>1, <1>2, <2>2, <2>3, <2>4
<1>5. rank \in [S -> T]
  <2>1. rank = [x \in S |-> rank[x]]
    OBVIOUS
  <2> QED BY <1>3, <2>1
<1>6. ASSUME NEW x \in S, NEW y \in S, rank[x] = rank[y] PROVE x = y
  <2> SUFFICES ASSUME x # y PROVE FALSE
    OBVIOUS
  <2>1. rank[x] < rank[y] \/ rank[y] < rank[x]
    BY <1>4 DEF TotalOrder
  <2>2. rank[x] \in T /\ rank[y] \in T
    BY <1>3
  <2>3. rank[x] \in Int
    BY <2>2
  <2> QED BY <1>6, <2>1, <2>3
<1>7. IsFiniteSet(T) /\ Cardinality(T) = n
  <2>1. PICK m \in Int : m = n - 1
    OBVIOUS
  <2>2. IsFiniteSet(0 .. m) /\ Cardinality(0 .. m) = IF 0 > m THEN 0 ELSE m - 0 + 1
    BY FS_Interval
  <2> QED BY <2>1, <2>2
<1> HIDE DEF T
<1>8. rank \in Injection(S, T)
  BY <1>5, <1>6, Fun_IsInj
<1>9. rank \in Surjection(S, T)
  BY <1>1, <1>7, <1>8, FS_Injection
<1>10. rank \in Bijection(S, T)
  BY <1>8, <1>9 DEF Bijection
<1> QED BY <1>1, <1>4, <1>10 DEF T

(* So a set of naturals is put in order.                                    *)
IsOrdered(row, set) ==
    /\ DOMAIN row = 1 .. Cardinality(set)
    /\ \A k \in DOMAIN row : row[k] \in set
    /\ \A x \in set : \E k \in DOMAIN row : row[k] = x
    /\ \A k, l \in DOMAIN row : k < l => row[k] < row[l]

LEMMA RanksOrder ==
    ASSUME NEW set \in SUBSET Nat, IsFiniteSet(set), NEW row,
           row = [k \in 1 .. Cardinality(set) |->
                     CHOOSE x \in set : Cardinality({y \in set : y < x}) = k - 1]
    PROVE  IsOrdered(row, set)
<1> DEFINE less == {p \in set \X set : p[1] < p[2]}
           rank == [x \in set |-> Cardinality({y \in set : <<y, x>> \in less})]
<1>1. PICK n \in Nat : n = Cardinality(set)
  BY FS_CardinalityType
<1>2. \A x \in set : x \in Nat
  OBVIOUS
<1>3. TotalOrder(less, set)
  <2>1. \A x, y \in set : <<x, y>> \in less <=> x < y
    OBVIOUS
  <2> HIDE DEF less
  <2>2. \A x, y, z \in Nat : (x < y /\ y < z => x < z) /\ (x # y => x < y \/ y < x) /\ ~(x < x)
    OBVIOUS
  <2>3. \A x, y, z \in set : (x < y /\ y < z => x < z) /\ (x # y => x < y \/ y < x) /\ ~(x < x)
    BY <1>2, <2>2
  <2> QED BY <2>1, <2>3 DEF TotalOrder
<1>4. ASSUME NEW x \in set PROVE Cardinality({y \in set : y < x}) = rank[x]
  <2>1. {y \in set : y < x} = {y \in set : <<y, x>> \in less}
    OBVIOUS
  <2> HIDE DEF less
  <2> QED BY <2>1
<1>5. rank \in Bijection(set, 0 .. n - 1)
  <2> HIDE DEF less
  <2> QED BY <1>1, <1>3, RanksNumber
<1>6. \A x, y \in set : x < y => rank[x] < rank[y]
  <2>1. \A x, y \in set : <<x, y>> \in less => rank[x] < rank[y]
    <3> HIDE DEF less
    <3> QED BY <1>3, RanksNumber
  <2>2. \A x, y \in set : <<x, y>> \in less <=> x < y
    OBVIOUS
  <2> HIDE DEF less, rank
  <2> QED BY <2>1, <2>2
<1> HIDE DEF rank
<1> DEFINE T == 0 .. n - 1
<1>7. /\ rank \in [set -> T]
      /\ \A x, y \in set : rank[x] = rank[y] => x = y
      /\ \A r \in T : \E x \in set : rank[x] = r
  <2>1. rank \in Bijection(set, T)
    BY <1>5
  <2> HIDE DEF T
  <2>2. rank \in [set -> T] /\ \A x, y \in set : rank[x] = rank[y] => x = y
    BY <2>1, Fun_BijectionProperties
  <2>3. \A r \in T : \E x \in set : rank[x] = r
    BY <2>1 DEF Bijection, Surjection
  <2> QED BY <2>2, <2>3
<1>8. ASSUME NEW k \in 1 .. n PROVE row[k] \in set /\ rank[row[k]] = k - 1
  <2>1. \E x \in set : rank[x] = k - 1
    BY <1>7
  <2>2. row[k] = CHOOSE x \in set : Cardinality({y \in set : y < x}) = k - 1
    BY <1>1
  <2>3. \E x \in set : Cardinality({y \in set : y < x}) = k - 1
    BY <1>4, <2>1
  <2>4. row[k] \in set /\ Cardinality({y \in set : y < row[k]}) = k - 1
    BY <2>2, <2>3
  <2> QED BY <1>4, <2>4
<1>9. DOMAIN row = 1 .. n
  BY <1>1
<1>10. \A x \in set : \E k \in 1 .. n : row[k] = x
  <2> TAKE x \in set
  <2>1. rank[x] \in 0 .. n - 1
    BY <1>7
  <2>2. rank[x] + 1 \in 1 .. n /\ (rank[x] + 1) - 1 = rank[x]
    BY <2>1
  <2>3. rank[row[rank[x] + 1]] = rank[x] /\ row[rank[x] + 1] \in set
    BY <1>8, <2>2
  <2>4. row[rank[x] + 1] = x
    BY <1>7, <2>3
  <2> QED BY <2>2, <2>4
<1>11. ASSUME NEW k \in 1 .. n, NEW l \in 1 .. n, k < l PROVE row[k] < row[l]
  <2>1. row[k] \in set /\ row[l] \in set /\ rank[row[k]] = k - 1 /\ rank[row[l]] = l - 1
    BY <1>8
  <2>2. PICK a \in set, b \in set : a = row[k] /\ b = row[l]
    BY <2>1
  <2>3. rank[a] < rank[b] /\ ~(rank[b] < rank[a])
    BY <1>11, <2>1, <2>2
  <2>4. ~(b < a) /\ a # b /\ a \in Nat /\ b \in Nat
    BY <1>2, <1>6, <2>3
  <2> QED BY <2>2, <2>4
<1> QED BY <1>1, <1>8, <1>9, <1>10, <1>11 DEF IsOrdered
-----------------------------------------------------------------------------
(* What distances are: nothing but the source is at no distance, an edge    *)
(* makes a difference of one at most, and a node at some distance has a     *)
(* neighbour that is one nearer.                                            *)
AreDistances(dist, nodes, neigh, source) ==
    /\ dist \in [nodes -> Nat \cup {Unreached}]
    /\ \A v \in nodes : dist[v] = 0 <=> v = source
    /\ \A v \in nodes : \A i \in DOMAIN neigh[v] :
           dist[neigh[v][i]] >= 0 => dist[v] \in 0 .. dist[neigh[v][i]] + 1
    /\ \A v \in nodes : dist[v] > 0 => \E i \in DOMAIN neigh[v] : dist[neigh[v][i]] = dist[v] - 1

LEMMA DistancesFromCorrect ==
    ASSUME NEW nodes, IsFiniteSet(nodes), NEW neigh \in [nodes -> Seq(nodes)], NEW source \in nodes
    PROVE  AreDistances(DistancesFrom(nodes, neigh, source), nodes, neigh, source)
<1> DEFINE Onto(S) == {v \in nodes : \E i \in DOMAIN neigh[v] : neigh[v][i] \in S}
           F == [S \in SUBSET nodes |-> S \cup Onto(S)]
           Def(w) == [k \in Nat |-> IF k = 0 THEN {source} ELSE w[k - 1] \cup Onto(w[k - 1])]
           within == CHOOSE w : w = Def(w)
           far == Cardinality(nodes)
           dist == DistancesFrom(nodes, neigh, source)
           Near(v) == {k \in 0 .. far : v \in within[k]}
<1>1. within \in [Nat -> SUBSET nodes] /\ within[0] = {source}
      /\ \A k \in Nat : within[k + 1] = within[k] \cup Onto(within[k])
  <2>1. F \in [SUBSET nodes -> SUBSET nodes] /\ {source} \in SUBSET nodes
    OBVIOUS
  <2> HIDE DEF F
  <2>2. PICK g : Iterates(g, SUBSET nodes, {source}, F)
    BY <2>1, Iteration
  <2>3. \A k \in Nat : g[k + 1] = g[k] \cup Onto(g[k])
    BY <2>2 DEF F, Iterates
  <2>4. g = Def(g)
    <3>1. ASSUME NEW k \in Nat PROVE g[k] = IF k = 0 THEN {source} ELSE g[k - 1] \cup Onto(g[k - 1])
      <4>1. CASE k = 0
        BY <2>2, <4>1 DEF Iterates
      <4>2. CASE k # 0
        <5>1. k - 1 \in Nat /\ (k - 1) + 1 = k
          BY <4>2
        <5> HIDE DEF Onto
        <5> QED BY <2>3, <4>2, <5>1
      <4> QED BY <4>1, <4>2
    <3> HIDE DEF Onto
    <3> QED BY <2>2, <3>1 DEF Iterates
  <2>5. within = Def(within)
    <3> HIDE DEF Onto
    <3> QED BY <2>4
  <2> DEFINE h == within
  <2>6. h = Def(h)
    BY <2>5
  <2> HIDE DEF h
  <2>7. h[0] = {source} /\ \A k \in Nat : h[k + 1] = h[k] \cup Onto(h[k])
    <3>1. \A k \in Nat : k + 1 \in Nat /\ k + 1 # 0 /\ (k + 1) - 1 = k
      OBVIOUS
    <3> HIDE DEF Onto
    <3>2. h[0] = {source}
      BY <2>6
    <3>3. \A k \in Nat : h[k + 1] = h[k] \cup Onto(h[k])
      BY <2>6, <3>1
    <3> QED BY <3>2, <3>3
  <2>8. \A k \in Nat : h[k] \in SUBSET nodes
    <3> DEFINE Out == {k \in Nat : h[k] \notin SUBSET nodes}
    <3> SUFFICES ASSUME Out # {} PROVE FALSE
      OBVIOUS
    <3>1. PICK k \in Out : \A j \in Out : k <= j
      BY LeastNatural
    <3>2. CASE k = 0
      BY <2>7, <3>2
    <3>3. CASE k # 0
      <4>1. k - 1 \in Nat /\ (k - 1) + 1 = k /\ k - 1 \notin Out
        <5>1. k - 1 \in Nat /\ (k - 1) + 1 = k /\ ~(k <= k - 1)
          BY <3>3
        <5> HIDE DEF Out
        <5> QED BY <3>1, <5>1
      <4>2. Onto(h[k - 1]) \in SUBSET nodes
        OBVIOUS
      <4> HIDE DEF Onto
      <4>3. h[k] = h[k - 1] \cup Onto(h[k - 1])
        BY <2>7, <4>1
      <4> QED BY <3>1, <4>1, <4>2, <4>3
    <3> QED BY <3>2, <3>3
  <2>9. h \in [Nat -> SUBSET nodes]
    <3> HIDE DEF Onto
    <3>1. DOMAIN h = Nat /\ h = [k \in Nat |-> h[k]]
      BY <2>6
    <3> QED BY <2>8, <3>1
  <2> QED BY <2>7, <2>9 DEF h
<1>2. dist = [v \in nodes |-> IF v \in within[far] THEN Min(Near(v)) ELSE Unreached]
  BY DEF DistancesFrom
<1> HIDE DEF within, dist
<1>3. far \in Nat
  BY FS_CardinalityType
<1> HIDE DEF far
<1>4. ASSUME NEW v \in nodes
      PROVE  \/ v \notin within[far] /\ dist[v] = Unreached
             \/ /\ v \in within[far] /\ dist[v] \in 0 .. far /\ v \in within[dist[v]]
                /\ \A k \in 0 .. dist[v] - 1 : v \notin within[k]
  <2>1. CASE v \in within[far]
    <3>1. Near(v) \in SUBSET Nat /\ far \in Near(v)
      BY <1>3, <2>1
    <3>2. \E x \in Near(v) : \A y \in Near(v) : x <= y
      BY <3>1, LeastNatural
    <3>3. Min(Near(v)) \in Near(v) /\ \A y \in Near(v) : Min(Near(v)) <= y
      BY <3>2 DEF Min
    <3>4. dist[v] \in Near(v) /\ \A y \in Near(v) : dist[v] <= y
      BY <1>2, <2>1, <3>3
    <3>5. dist[v] \in 0 .. far /\ v \in within[dist[v]]
      BY <3>4
    <3>6. ASSUME NEW k \in 0 .. dist[v] - 1, v \in within[k] PROVE FALSE
      <4>1. k \in Near(v)
        BY <1>3, <3>5, <3>6
      <4> QED BY <3>4, <3>5, <4>1
    <3> QED BY <2>1, <3>5, <3>6
  <2>2. CASE v \notin within[far]
    BY <1>2, <2>2
  <2> QED BY <2>1, <2>2
<1>5. ASSUME NEW j \in Nat, NEW k \in Nat, j <= k PROVE within[j] \subseteq within[k]
  <2> DEFINE Out == {n \in Nat : j <= n /\ ~(within[j] \subseteq within[n])}
  <2>1. Out = {}
    <3> SUFFICES ASSUME Out # {} PROVE FALSE
      OBVIOUS
    <3>1. PICK n \in Out : \A m \in Out : n <= m
      BY LeastNatural
    <3>2. n # j
      BY <3>1
    <3>3. n - 1 \in Nat /\ (n - 1) + 1 = n /\ j <= n - 1 /\ n - 1 \notin Out
      BY <3>1, <3>2
    <3> HIDE DEF Onto
    <3>4. within[n] = within[n - 1] \cup Onto(within[n - 1])
      BY <1>1, <3>3
    <3> QED BY <3>1, <3>3, <3>4
  <2> QED BY <1>5, <2>1
<1> HIDE DEF Onto
<1>6. ASSUME NEW v \in nodes PROVE dist[v] = 0 <=> v = source
  <2>1. v = source => v \in within[0] /\ v \in within[far]
    <3>1. within[0] \subseteq within[far]
      BY <1>3, <1>5
    <3> QED BY <1>1, <3>1
  <2>2. CASE v = source
    BY <1>3, <1>4, <2>1, <2>2
  <2>3. CASE dist[v] = 0
    <3>1. dist[v] # Unreached
      BY <2>3 DEF Unreached
    <3>2. v \in within[dist[v]]
      BY <1>4, <3>1
    <3> QED BY <1>1, <2>3, <3>2
  <2> QED BY <2>2, <2>3
<1>7. ASSUME NEW v \in nodes, dist[v] > 0
      PROVE  \E i \in DOMAIN neigh[v] : neigh[v][i] \in nodes /\ dist[neigh[v][i]] = dist[v] - 1
  <2> DEFINE d == dist[v]
  <2>1. d \in 1 .. far /\ v \in within[d] /\ \A k \in 0 .. d - 1 : v \notin within[k]
    BY <1>3, <1>4, <1>7 DEF Unreached
  <2> HIDE DEF d
  <2>2. d - 1 \in Nat /\ (d - 1) + 1 = d /\ d - 1 \in 0 .. d - 1 /\ d - 1 <= far
    BY <1>3, <2>1
  <2>3. v \in Onto(within[d - 1])
    BY <1>1, <2>1, <2>2
  <2>4. PICK i \in DOMAIN neigh[v] : neigh[v][i] \in within[d - 1]
    BY <2>3 DEF Onto
  <2> DEFINE u == neigh[v][i]
  <2>5. u \in nodes /\ u \in within[d - 1] /\ u \in within[far]
    BY <1>1, <1>3, <1>5, <2>2, <2>4
  <2> HIDE DEF u
  <2>6. dist[u] \in 0 .. far /\ u \in within[dist[u]] /\ dist[u] <= d - 1
    BY <1>3, <1>4, <2>2, <2>5
  <2>7. ASSUME dist[u] < d - 1 PROVE FALSE
    <3>1. within[dist[u] + 1] = within[dist[u]] \cup Onto(within[dist[u]]) /\ dist[u] + 1 \in 0 .. d - 1
      <4>1. dist[u] \in Nat /\ dist[u] + 1 \in 0 .. d - 1
        BY <1>3, <2>2, <2>6, <2>7
      <4> QED BY <1>1, <4>1
    <3>2. v \in Onto(within[dist[u]])
      BY <2>4, <2>6 DEF Onto, u
    <3> QED BY <2>1, <3>1, <3>2
  <2>8. dist[u] = d - 1
    BY <1>3, <2>2, <2>6, <2>7
  <2> QED BY <2>5, <2>8 DEF u, d
<1>8. ASSUME NEW v \in nodes PROVE dist[v] # far
  <2>1. dist \in [nodes -> Int]
    <3>1. \A w \in nodes : dist[w] \in Int
      BY <1>3, <1>4 DEF Unreached
    <3> QED BY <1>2, <3>1
  <2>2. \A w \in nodes : dist[w] > 0 => \E u \in nodes : dist[u] = dist[w] - 1
    BY <1>7
  <2>3. dist[v] < Cardinality(nodes)
    BY <2>1, <2>2, Descent
  <2> QED BY <1>3, <2>1, <2>3 DEF far
<1>9. ASSUME NEW v \in nodes, NEW i \in DOMAIN neigh[v], dist[neigh[v][i]] >= 0
      PROVE  dist[v] \in 0 .. dist[neigh[v][i]] + 1
  <2> DEFINE u == neigh[v][i]
             e == dist[u] + 1
  <2>1. u \in nodes
    OBVIOUS
  <2>2. dist[u] \in 0 .. far - 1 /\ u \in within[dist[u]]
    BY <1>3, <1>4, <1>8, <1>9, <2>1 DEF Unreached
  <2>3. v \in Onto(within[dist[u]])
    BY <2>2 DEF Onto
  <2> HIDE DEF u
  <2>4. e \in 1 .. far /\ v \in within[e] /\ v \in within[far]
    <3>1. dist[u] \in Nat /\ e \in 1 .. far /\ e \in Nat /\ e <= far
      BY <1>3, <2>2
    <3>2. within[e] = within[dist[u]] \cup Onto(within[dist[u]])
      BY <1>1, <3>1
    <3>3. within[e] \subseteq within[far]
      BY <1>3, <1>5, <3>1
    <3> QED BY <2>3, <3>1, <3>2, <3>3
  <2> HIDE DEF e
  <2>5. dist[v] \in 0 .. e
    BY <1>3, <1>4, <2>4
  <2> QED BY <2>5 DEF e, u
<1>10. dist \in [nodes -> Nat \cup {Unreached}]
  <2>1. \A v \in nodes : dist[v] \in Nat \cup {Unreached}
    BY <1>3, <1>4
  <2> QED BY <1>2, <2>1
<1> QED BY <1>6, <1>7, <1>9, <1>10 DEF AreDistances, dist
-----------------------------------------------------------------------------
(* Division, for the chunks of a loop and the words of a bitmap.            *)
LEMMA DivBounds ==
    ASSUME NEW n \in Nat, NEW c \in Nat \ {0}
    PROVE  /\ n \div c \in 0 .. n
           /\ c * (n \div c) <= n /\ n < c * (n \div c) + c
OBVIOUS

LEMMA DivIs ==
    ASSUME NEW n \in Nat, NEW c \in Nat \ {0}, NEW q \in Int, c * q <= n, n < c * q + c
    PROVE  n \div c = q
<1>1. ASSUME NEW r \in Int, NEW s \in Int, c * r < c * s + c, c * s < c * r + c PROVE r = s
  BY <1>1
<1> QED BY <1>1, DivBounds

LEMMA DivExact == ASSUME NEW n \in Nat, NEW c \in Nat \ {0} PROVE (c * n) \div c = n
<1>1. c * n \in Nat /\ n \in Int /\ c * n <= c * n /\ c * n < c * n + c
  OBVIOUS
<1> QED BY <1>1, DivIs

LEMMA DivMonotone ==
    ASSUME NEW n \in Nat, NEW c \in Nat \ {0}, NEW m \in Nat, m <= n
    PROVE  m \div c <= n \div c
<1>1. ASSUME NEW r \in Int, NEW s \in Int, c * r < c * s + c PROVE r <= s
  BY <1>1
<1> QED BY <1>1, DivBounds
-----------------------------------------------------------------------------
(* Of some subsets of a finite set, one has no smaller one by an element:   *)
(* the induction of what follows.                                           *)
LEMMA SmallestSubset ==
    ASSUME NEW S, IsFiniteSet(S), NEW Out \in SUBSET SUBSET S, Out # {}
    PROVE  \E s \in Out : \A y \in s : s \ {y} \notin Out
<1> DEFINE Sizes == {Cardinality(s) : s \in Out}
<1>1. Sizes \in SUBSET Nat /\ Sizes # {}
  BY FS_Subset, FS_CardinalityType
<1>2. PICK n \in Sizes : \A m \in Sizes : n <= m
  <2> HIDE DEF Sizes
  <2> QED BY <1>1, LeastNatural
<1>3. PICK s \in Out : n = Cardinality(s)
  BY <1>2
<1>4. ASSUME NEW y \in s, s \ {y} \in Out PROVE FALSE
  <2>1. IsFiniteSet(s) /\ Cardinality(s) \in Nat
    BY <1>3, FS_Subset, FS_CardinalityType
  <2>2. Cardinality(s \ {y}) = Cardinality(s) - 1
    BY <1>4, <2>1, FS_RemoveElement
  <2>3. Cardinality(s \ {y}) \in Sizes
    BY <1>4
  <2> HIDE DEF Sizes
  <2>4. n <= Cardinality(s \ {y})
    BY <1>2, <2>3
  <2> QED BY <1>3, <2>1, <2>2, <2>4
<1> QED BY <1>3, <1>4

(* A sum, taken apart at any element. *)
AnyOrder(sum, fun, T) == \A t \in SUBSET T : \A y \in t : sum[t] = fun[y] + sum[t \ {y}]

LEMMA SumPick ==
    ASSUME NEW T, IsFiniteSet(T), NEW fun, \A s \in T : fun[s] \in Int, NEW sum, SumsUp(sum, fun, T)
    PROVE  AnyOrder(sum, fun, T)
<1> DEFINE Out == {t \in SUBSET T : \E y \in t : sum[t] # fun[y] + sum[t \ {y}]}
<1> SUFFICES ASSUME Out # {} PROVE FALSE
  BY DEF AnyOrder
<1>1. IsFiniteSet(T) /\ Out \in SUBSET SUBSET T
  BY FS_Subset
<1>2. PICK t \in Out : \A y \in t : t \ {y} \notin Out
  <2> HIDE DEF Out
  <2> QED BY <1>1, SmallestSubset
<1>3. PICK y \in t : sum[t] # fun[y] + sum[t \ {y}]
  BY <1>2
<1>4. PICK z \in t : sum[t] = fun[z] + sum[t \ {z}]
  BY <1>2, <1>3 DEF SumsUp
<1>5. z # y
  BY <1>3, <1>4
<1> DEFINE r == (t \ {z}) \ {y}
<1>6. /\ r = (t \ {y}) \ {z} /\ r \in SUBSET T /\ t \ {y} \in SUBSET T /\ t \ {z} \in SUBSET T
      /\ y \in T /\ z \in T /\ y \in t \ {z} /\ z \in t \ {y}
  BY <1>2, <1>3, <1>4, <1>5
<1>7. sum[r] \in Int /\ fun[y] \in Int /\ fun[z] \in Int
  BY <1>6 DEF SumsUp
<1>8. sum[t \ {z}] = fun[y] + sum[r] /\ sum[t \ {y}] = fun[z] + sum[r]
  BY <1>2, <1>3, <1>4, <1>6
<1> HIDE DEF r
<1> QED BY <1>3, <1>4, <1>7, <1>8

Adds(fun, S) ==
    /\ SumFunctionOnSet(fun, {}) = 0
    /\ \A s \in SUBSET S :
           /\ SumFunctionOnSet(fun, s) \in Int
           /\ \A y \in s : SumFunctionOnSet(fun, s) = fun[y] + SumFunctionOnSet(fun, s \ {y})

LEMMA SumElement ==
    ASSUME NEW S, IsFiniteSet(S), NEW fun, \A s \in S : fun[s] \in Int
    PROVE  Adds(fun, S)
<1> DEFINE Total(s) == SumFunctionOnSet(fun, s)
<1>1. PICK all : SumsUp(all, fun, S)
  BY SumSteps
<1>2. \A t \in SUBSET S : \A y \in t : all[t] = fun[y] + all[t \ {y}]
  <2>1. AnyOrder(all, fun, S)
    BY <1>1, SumPick
  <2> QED BY <2>1 DEF AnyOrder
<1>3. ASSUME NEW T \in SUBSET S PROVE Total(T) = all[T]
  <2>1. IsFiniteSet(T) /\ \A s \in T : fun[s] \in Int
    BY FS_Subset
  <2>2. PICK sum : SumsUp(sum, fun, T) /\ Total(T) = sum[T]
    BY <2>1, SumSteps
  <2> HIDE DEF Total
  <2> DEFINE Out == {t \in SUBSET T : sum[t] # all[t]}
  <2> SUFFICES ASSUME Out # {} PROVE FALSE
    BY <2>2
  <2>3. Out \in SUBSET SUBSET T
    OBVIOUS
  <2>4. PICK t \in Out : \A y \in t : t \ {y} \notin Out
    <3> HIDE DEF Out
    <3> QED BY <2>1, <2>3, SmallestSubset
  <2>5. t # {}
    BY <1>1, <2>2, <2>4 DEF SumsUp
  <2>6. PICK y \in t : TRUE
    BY <2>5
  <2>7. t \in SUBSET T /\ t \in SUBSET S /\ t \ {y} \in SUBSET T
    BY <2>4
  <2>8. sum[t] = fun[y] + sum[t \ {y}]
    <3>1. AnyOrder(sum, fun, T)
      BY <2>1, <2>2, SumPick
    <3> QED BY <2>6, <2>7, <3>1 DEF AnyOrder
  <2>9. all[t] = fun[y] + all[t \ {y}]
    BY <1>2, <2>6, <2>7
  <2>10. sum[t \ {y}] = all[t \ {y}]
    BY <2>4, <2>6, <2>7
  <2> QED BY <2>4, <2>8, <2>9, <2>10
<1>4. Total({}) = 0
  BY <1>1, <1>3 DEF SumsUp
<1>5. ASSUME NEW s \in SUBSET S PROVE Total(s) \in Int /\ \A y \in s : Total(s) = fun[y] + Total(s \ {y})
  <2>1. Total(s) = all[s] /\ all[s] \in Int
    BY <1>1, <1>3 DEF SumsUp
  <2>2. ASSUME NEW y \in s PROVE Total(s) = fun[y] + Total(s \ {y})
    <3>1. s \ {y} \in SUBSET S
      OBVIOUS
    <3>2. Total(s \ {y}) = all[s \ {y}]
      BY <1>3, <3>1
    <3>3. all[s] = fun[y] + all[s \ {y}]
      BY <1>2
    <3> QED BY <2>1, <3>2, <3>3
  <2> QED BY <2>1, <2>2
<1> QED BY <1>4, <1>5 DEF Adds

(* Sums are linear, *)
LEMMA SumLinear ==
    ASSUME NEW S, IsFiniteSet(S), NEW fun, NEW gun, NEW hun, NEW a \in Int, NEW b \in Int,
           \A s \in S : fun[s] \in Int /\ gun[s] \in Int /\ hun[s] = a * fun[s] + b * gun[s]
    PROVE  SumFunctionOnSet(hun, S) = a * SumFunctionOnSet(fun, S) + b * SumFunctionOnSet(gun, S)
<1> DEFINE F(s) == SumFunctionOnSet(fun, s)
           G(s) == SumFunctionOnSet(gun, s)
           H(s) == SumFunctionOnSet(hun, s)
           Out == {s \in SUBSET S : H(s) # a * F(s) + b * G(s)}
<1> SUFFICES ASSUME Out # {} PROVE FALSE
  OBVIOUS
<1>1. (\A s \in S : fun[s] \in Int) /\ (\A s \in S : gun[s] \in Int) /\ \A s \in S : hun[s] \in Int
  OBVIOUS
<1>2. F({}) = 0 /\ \A s \in SUBSET S : F(s) \in Int /\ \A y \in s : F(s) = fun[y] + F(s \ {y})
  <2>1. Adds(fun, S)
    BY <1>1, SumElement
  <2> QED BY <2>1 DEF Adds
<1>3. G({}) = 0 /\ \A s \in SUBSET S : G(s) \in Int /\ \A y \in s : G(s) = gun[y] + G(s \ {y})
  <2>1. Adds(gun, S)
    BY <1>1, SumElement
  <2> QED BY <2>1 DEF Adds
<1>4. H({}) = 0 /\ \A s \in SUBSET S : H(s) \in Int /\ \A y \in s : H(s) = hun[y] + H(s \ {y})
  <2>1. Adds(hun, S)
    BY <1>1, SumElement
  <2> QED BY <2>1 DEF Adds
<1> HIDE DEF F, G, H
<1>5. PICK s \in Out : \A y \in s : s \ {y} \notin Out
  <2>1. Out \in SUBSET SUBSET S
    OBVIOUS
  <2> HIDE DEF Out
  <2> QED BY <2>1, SmallestSubset
<1>6. s # {}
  <2>1. H({}) = a * F({}) + b * G({})
    BY <1>2, <1>3, <1>4
  <2> QED BY <1>5, <2>1
<1>7. PICK y \in s : TRUE
  BY <1>6
<1>8. s \ {y} \in SUBSET S /\ y \in S
  BY <1>5
<1>9. H(s \ {y}) = a * F(s \ {y}) + b * G(s \ {y})
  BY <1>5, <1>7, <1>8
<1>10. F(s) = fun[y] + F(s \ {y}) /\ G(s) = gun[y] + G(s \ {y}) /\ H(s) = hun[y] + H(s \ {y})
  BY <1>2, <1>3, <1>4, <1>5
<1>11. F(s \ {y}) \in Int /\ G(s \ {y}) \in Int /\ fun[y] \in Int /\ gun[y] \in Int /\ hun[y] = a * fun[y] + b * gun[y]
  BY <1>2, <1>3, <1>8
<1>12. H(s) = a * F(s) + b * G(s)
  BY <1>9, <1>10, <1>11
<1> QED BY <1>5, <1>12

(* and monotone. *)
LEMMA SumMonotone ==
    ASSUME NEW S, IsFiniteSet(S), NEW fun, NEW gun,
           \A s \in S : fun[s] \in Int /\ gun[s] \in Int /\ fun[s] <= gun[s]
    PROVE  SumFunctionOnSet(fun, S) <= SumFunctionOnSet(gun, S)
<1> DEFINE F(s) == SumFunctionOnSet(fun, s)
           G(s) == SumFunctionOnSet(gun, s)
           Out == {s \in SUBSET S : ~(F(s) <= G(s))}
<1> SUFFICES ASSUME Out # {} PROVE FALSE
  OBVIOUS
<1>0. (\A s \in S : fun[s] \in Int) /\ \A s \in S : gun[s] \in Int
  OBVIOUS
<1>1. F({}) = 0 /\ \A s \in SUBSET S : F(s) \in Int /\ \A y \in s : F(s) = fun[y] + F(s \ {y})
  <2>1. Adds(fun, S)
    BY <1>0, SumElement
  <2> QED BY <2>1 DEF Adds
<1>2. G({}) = 0 /\ \A s \in SUBSET S : G(s) \in Int /\ \A y \in s : G(s) = gun[y] + G(s \ {y})
  <2>1. Adds(gun, S)
    BY <1>0, SumElement
  <2> QED BY <2>1 DEF Adds
<1> HIDE DEF F, G
<1>3. PICK s \in Out : \A y \in s : s \ {y} \notin Out
  <2>1. Out \in SUBSET SUBSET S
    OBVIOUS
  <2> HIDE DEF Out
  <2> QED BY <2>1, SmallestSubset
<1>10. s # {}
  <2>1. F({}) <= G({})
    BY <1>1, <1>2
  <2> QED BY <1>3, <2>1
<1>4. PICK y \in s : TRUE
  BY <1>10
<1>5. s \ {y} \in SUBSET S /\ y \in S
  BY <1>3
<1>6. F(s \ {y}) <= G(s \ {y})
  BY <1>3, <1>4, <1>5
<1>7. F(s) = fun[y] + F(s \ {y}) /\ G(s) = gun[y] + G(s \ {y})
  BY <1>1, <1>2, <1>3
<1>8. F(s \ {y}) \in Int /\ G(s \ {y}) \in Int /\ fun[y] \in Int /\ gun[y] \in Int /\ fun[y] <= gun[y]
  BY <1>1, <1>2, <1>5
<1>9. F(s) <= G(s)
  BY <1>6, <1>7, <1>8
<1> QED BY <1>3, <1>9

(* The sum of one term, counted over a part of the set. *)
LEMMA SumCounted ==
    ASSUME NEW S, IsFiniteSet(S), NEW part \in SUBSET S, NEW c \in Int, NEW fun,
           \A s \in S : fun[s] = IF s \in part THEN c ELSE 0
    PROVE  SumFunctionOnSet(fun, S) = Cardinality(part) * c
<1> DEFINE F(s) == SumFunctionOnSet(fun, s)
           n(s) == Cardinality(part \cap s)
           Out == {s \in SUBSET S : F(s) # n(s) * c}
<1> SUFFICES ASSUME Out # {} PROVE FALSE
  <2>1. part \cap S = part
    OBVIOUS
  <2> QED BY <2>1
<1> HIDE DEF n
<1>1. \A s \in S : fun[s] \in Int
  OBVIOUS
<1>2. F({}) = 0 /\ \A s \in SUBSET S : F(s) \in Int /\ \A y \in s : F(s) = fun[y] + F(s \ {y})
  <2>1. Adds(fun, S)
    BY <1>1, SumElement
  <2> QED BY <2>1 DEF Adds
<1> HIDE DEF F
<1>3. PICK s \in Out : \A y \in s : s \ {y} \notin Out
  <2>1. Out \in SUBSET SUBSET S
    OBVIOUS
  <2> HIDE DEF Out
  <2> QED BY <2>1, SmallestSubset
<1>4. s # {}
  <2>1. n({}) = 0
    <3>1. part \cap {} = {}
      OBVIOUS
    <3> QED BY <3>1, FS_EmptySet DEF n
  <2>2. F({}) = n({}) * c
    BY <1>2, <2>1
  <2> QED BY <1>3, <2>2
<1>5. PICK y \in s : TRUE
  BY <1>4
<1>6. s \ {y} \in SUBSET S /\ y \in S
  BY <1>3
<1>7. F(s \ {y}) = n(s \ {y}) * c /\ F(s) = fun[y] + F(s \ {y})
  BY <1>2, <1>3, <1>5, <1>6
<1>8. IsFiniteSet(part \cap s) /\ n(s) \in Nat /\ n(s \ {y}) \in Nat
  <2>1. IsFiniteSet(part \cap s) /\ IsFiniteSet(part \cap (s \ {y}))
    BY <1>3, FS_Subset
  <2> QED BY <2>1, FS_CardinalityType DEF n
<1>9. CASE y \in part
  <2>1. part \cap (s \ {y}) = (part \cap s) \ {y} /\ y \in part \cap s
    BY <1>9
  <2>2. n(s \ {y}) = n(s) - 1
    <3>1. Cardinality((part \cap s) \ {y}) = Cardinality(part \cap s) - 1
      BY <1>8, <2>1, FS_RemoveElement
    <3> QED BY <2>1, <3>1 DEF n
  <2>3. fun[y] = c
    BY <1>6, <1>9
  <2>4. n(s) * c = c + (n(s) - 1) * c
    BY <1>8
  <2>5. F(s) = n(s) * c
    BY <1>7, <2>2, <2>3, <2>4
  <2> QED BY <1>3, <2>5
<1>10. CASE y \notin part
  <2>1. part \cap (s \ {y}) = part \cap s
    BY <1>10
  <2>2. fun[y] = 0
    BY <1>6, <1>10
  <2>3. n(s) * c \in Int /\ n(s \ {y}) = n(s)
    <3>1. n(s) * c \in Int
      BY <1>8
    <3> QED BY <2>1, <3>1 DEF n
  <2>4. F(s) = n(s) * c
    BY <1>7, <2>2, <2>3
  <2> QED BY <1>3, <2>4
<1> QED BY <1>9, <1>10

(* What every node hands each of those it is related to, and what each gets *)
(* from those related to it: two sums over the same pairs.                  *)
Senders(to, S, n) == {u \in S : n \in to[u]}

LEMMA SumBothWays ==
    ASSUME NEW S, IsFiniteSet(S), NEW to \in [S -> SUBSET S], NEW amount, \A u \in S : amount[u] \in Int,
           NEW got, \A n \in S : got[n] = SumFunctionOnSet(amount, Senders(to, S, n)),
           NEW given, \A u \in S : given[u] = Cardinality(to[u]) * amount[u]
    PROVE  SumFunctionOnSet(got, S) = SumFunctionOnSet(given, S)
<1> DEFINE From(n, s) == {u \in s : n \in to[u]}
           got_from(s) == [n \in S |-> SumFunctionOnSet(amount, From(n, s))]
           A(s) == SumFunctionOnSet(amount, s)
           Got(s) == SumFunctionOnSet(got_from(s), S)
           G(s) == SumFunctionOnSet(given, s)
           Out == {s \in SUBSET S : Got(s) # G(s)}
<1>1. A({}) = 0 /\ \A s \in SUBSET S : A(s) \in Int /\ \A y \in s : A(s) = amount[y] + A(s \ {y})
  <2>1. Adds(amount, S)
    BY SumElement
  <2> QED BY <2>1 DEF Adds
<1>2. \A u \in S : given[u] \in Int
  <2>1. \A u \in S : Cardinality(to[u]) \in Int
    BY FS_Subset, FS_CardinalityType
  <2> QED BY <2>1
<1>3. G({}) = 0 /\ \A s \in SUBSET S : G(s) \in Int /\ \A y \in s : G(s) = given[y] + G(s \ {y})
  <2>1. Adds(given, S)
    BY <1>2, SumElement
  <2> QED BY <2>1 DEF Adds
<1>4. ASSUME NEW s \in SUBSET S PROVE \A n \in S : got_from(s)[n] = A(From(n, s)) /\ got_from(s)[n] \in Int
  <2>1. \A n \in S : From(n, s) \in SUBSET S
    OBVIOUS
  <2> HIDE DEF From
  <2> QED BY <1>1, <2>1
<1>5. Got({}) = 0
  <2> DEFINE f == got_from({})
  <2>1. \A n \in S : f[n] = IF n \in {} THEN 0 ELSE 0
    <3>1. \A n \in S : From(n, {}) = {}
      OBVIOUS
    <3> QED BY <1>1, <3>1
  <2> HIDE DEF f
  <2>2. SumFunctionOnSet(f, S) = Cardinality({}) * 0
    BY <2>1, SumCounted
  <2>3. Cardinality({}) = 0
    BY FS_EmptySet
  <2>4. SumFunctionOnSet(f, S) = 0
    BY <2>2, <2>3
  <2> QED BY <2>4 DEF f
<1>6. ASSUME NEW s \in SUBSET S, NEW y \in s PROVE Got(s) = given[y] + Got(s \ {y})
  <2> DEFINE f == got_from(s \ {y})
             g == [n \in S |-> IF n \in to[y] THEN amount[y] ELSE 0]
             h == got_from(s)
  <2>1. s \ {y} \in SUBSET S /\ y \in S /\ to[y] \in SUBSET S /\ amount[y] \in Int
    OBVIOUS
  <2>2. \A n \in S : f[n] \in Int /\ g[n] \in Int
    <3>1. \A n \in S : f[n] \in Int
      <4> HIDE DEF got_from
      <4> QED BY <1>4, <2>1
    <3>2. \A n \in S : g[n] \in Int
      BY <2>1
    <3> QED BY <3>1, <3>2
  <2>3. ASSUME NEW n \in S PROVE h[n] = 1 * f[n] + 1 * g[n]
    <3>1. h[n] = A(From(n, s)) /\ f[n] = A(From(n, s \ {y})) /\ f[n] \in Int
      <4> HIDE DEF got_from, From, A
      <4> QED BY <1>4, <2>1
    <3>2. CASE n \in to[y]
      <4>1. y \in From(n, s) /\ From(n, s) \ {y} = From(n, s \ {y}) /\ From(n, s) \in SUBSET S
        BY <3>2
      <4>2. g[n] = amount[y]
        BY <3>2
      <4> HIDE DEF From, A, f, g, h
      <4>3. A(From(n, s)) = amount[y] + A(From(n, s \ {y}))
        BY <1>1, <4>1
      <4> QED BY <2>1, <3>1, <4>2, <4>3
    <3>3. CASE n \notin to[y]
      <4>1. From(n, s) = From(n, s \ {y})
        BY <3>3
      <4>2. g[n] = 0
        BY <3>3
      <4> HIDE DEF From, A, f, g, h
      <4> QED BY <3>1, <4>1, <4>2
    <3> QED BY <3>2, <3>3
  <2>4. SumFunctionOnSet(g, S) = given[y]
    <3>1. \A n \in S : g[n] = IF n \in to[y] THEN amount[y] ELSE 0
      OBVIOUS
    <3> HIDE DEF g
    <3>2. SumFunctionOnSet(g, S) = Cardinality(to[y]) * amount[y]
      BY <2>1, <3>1, SumCounted
    <3> QED BY <2>1, <3>2
  <2> HIDE DEF f, g, h
  <2>5. SumFunctionOnSet(h, S) = 1 * SumFunctionOnSet(f, S) + 1 * SumFunctionOnSet(g, S)
    BY <2>2, <2>3, SumLinear
  <2>6. SumFunctionOnSet(f, S) \in Int /\ given[y] \in Int
    BY <1>2, <2>1, <2>2, SumType
  <2>7. SumFunctionOnSet(h, S) = given[y] + SumFunctionOnSet(f, S)
    BY <2>4, <2>5, <2>6
  <2> QED BY <2>7 DEF f, h
<1>7. Out = {}
  <2> SUFFICES ASSUME Out # {} PROVE FALSE
    OBVIOUS
  <2>1. Out \in SUBSET SUBSET S
    OBVIOUS
  <2> HIDE DEF Got, G
  <2>2. PICK s \in Out : \A y \in s : s \ {y} \notin Out
    <3> HIDE DEF Out
    <3> QED BY <2>1, SmallestSubset
  <2>3. PICK y \in s : TRUE
    BY <1>3, <1>5, <2>2
  <2>4. s \in SUBSET S /\ s \ {y} \in SUBSET S /\ Got(s \ {y}) = G(s \ {y})
    BY <2>2, <2>3
  <2>5. Got(s) = given[y] + Got(s \ {y}) /\ G(s) = given[y] + G(s \ {y})
    BY <1>3, <1>6, <2>3, <2>4
  <2> QED BY <2>2, <2>4, <2>5
<1>8. SumFunctionOnSet(got, S) = Got(S)
  <2> DEFINE f == got_from(S)
  <2>1. \A n \in S : f[n] \in Int /\ got[n] = 1 * f[n] + 0 * f[n]
    <3>1. \A n \in S : f[n] = A(From(n, S)) /\ f[n] \in Int
      <4> HIDE DEF got_from
      <4> QED BY <1>4
    <3>2. \A n \in S : got[n] = A(From(n, S))
      BY DEF Senders
    <3> HIDE DEF f, From, A
    <3> QED BY <3>1, <3>2
  <2> HIDE DEF f
  <2>2. SumFunctionOnSet(got, S) = 1 * SumFunctionOnSet(f, S) + 0 * SumFunctionOnSet(f, S)
    BY <2>1, SumLinear
  <2>3. SumFunctionOnSet(f, S) \in Int
    BY <2>1, SumType
  <2>4. SumFunctionOnSet(got, S) = SumFunctionOnSet(f, S)
    BY <2>2, <2>3
  <2> QED BY <2>4 DEF f
<1> HIDE DEF Got, G
<1>9. Got(S) = G(S)
  BY <1>7
<1> QED BY <1>8, <1>9 DEF G
-----------------------------------------------------------------------------
LEMMA SumEmpty == ASSUME NEW fun PROVE SumFunctionOnSet(fun, {}) = 0
BY FS_EmptySet, SumElement DEF Adds

(* A sum depends on the values at its indices alone. *)
LEMMA SumSame ==
    ASSUME NEW S, IsFiniteSet(S), NEW fun, NEW gun, \A s \in S : fun[s] \in Int /\ gun[s] = fun[s]
    PROVE  SumFunctionOnSet(gun, S) = SumFunctionOnSet(fun, S)
<1>1. \A s \in S : gun[s] \in Int /\ fun[s] \in Int /\ fun[s] <= gun[s] /\ gun[s] <= fun[s]
  OBVIOUS
<1>2. SumFunctionOnSet(gun, S) \in Int /\ SumFunctionOnSet(fun, S) \in Int
  BY <1>1, SumType
<1>3. SumFunctionOnSet(fun, S) <= SumFunctionOnSet(gun, S)
  BY <1>1, SumMonotone
<1>4. SumFunctionOnSet(gun, S) <= SumFunctionOnSet(fun, S)
  BY <1>1, SumMonotone
<1> QED BY <1>2, <1>3, <1>4

(* A set and one more element. *)
LEMMA SumInsert ==
    ASSUME NEW S, IsFiniteSet(S), NEW x, x \notin S, NEW fun, \A s \in S \cup {x} : fun[s] \in Int
    PROVE  SumFunctionOnSet(fun, S \cup {x}) = fun[x] + SumFunctionOnSet(fun, S)
<1> DEFINE T == S \cup {x}
<1>1. IsFiniteSet(T) /\ x \in T /\ T \ {x} = S
  BY FS_AddElement
<1>2. Adds(fun, T)
  <2> HIDE DEF T
  <2> QED BY <1>1, SumElement DEF T
<1> HIDE DEF T
<1>3. T \in SUBSET T
  OBVIOUS
<1>4. SumFunctionOnSet(fun, T) = fun[x] + SumFunctionOnSet(fun, T \ {x})
  BY <1>1, <1>2, <1>3 DEF Adds
<1> QED BY <1>1, <1>4 DEF T

(* A sum over S of values found at other indices. *)
LEMMA SumReindexed ==
    ASSUME NEW S, IsFiniteSet(S), NEW h, \A x, y \in S : h[x] = h[y] => x = y,
           NEW fun, NEW gun, \A x \in S : gun[h[x]] \in Int /\ fun[x] = gun[h[x]]
    PROVE  SumFunctionOnSet(fun, S) = SumFunctionOnSet(gun, {h[x] : x \in S})
<1> DEFINE Image(s) == {h[x] : x \in s}
           F(s) == SumFunctionOnSet(fun, s)
           G(s) == SumFunctionOnSet(gun, s)
           Out == {s \in SUBSET S : F(s) # G(Image(s))}
<1> SUFFICES ASSUME Out # {} PROVE FALSE
  <2>1. S \in SUBSET S
    OBVIOUS
  <2> QED BY <2>1
<1>1. F({}) = 0 /\ \A s \in SUBSET S : \A y \in s : F(s) = fun[y] + F(s \ {y})
  <2>1. \A x \in S : fun[x] \in Int
    OBVIOUS
  <2>2. Adds(fun, S)
    BY <2>1, SumElement
  <2> QED BY <2>2 DEF Adds
<1>2. G({}) = 0 /\ \A s \in SUBSET Image(S) : \A y \in s : G(s) = gun[y] + G(s \ {y})
  <2>1. IsFiniteSet(Image(S))
    <3>1. [x \in S |-> h[x]] \in Surjection(S, Image(S))
      BY DEF Surjection
    <3> HIDE DEF Image
    <3> QED BY <3>1, FS_Surjection
  <2>2. \A y \in Image(S) : gun[y] \in Int
    OBVIOUS
  <2>3. Adds(gun, Image(S))
    <3> HIDE DEF Image
    <3> QED BY <2>1, <2>2, SumElement
  <2> QED BY <2>3 DEF Adds
<1>3. PICK s \in Out : \A y \in s : s \ {y} \notin Out
  <2>1. Out \in SUBSET SUBSET S
    OBVIOUS
  <2> HIDE DEF Out
  <2> QED BY <2>1, SmallestSubset
<1>4. \A x \in SUBSET S : Image(x) \in SUBSET Image(S) /\ \A y \in x : Image(x) \ {h[y]} = Image(x \ {y})
  OBVIOUS
<1>5. Image({}) = {}
  OBVIOUS
<1>6. \A x \in SUBSET S : \A y \in x : h[y] \in Image(x)
  OBVIOUS
<1> HIDE DEF F, G, Image
<1>7. s # {}
  BY <1>1, <1>2, <1>3, <1>5
<1>8. PICK y \in s : TRUE
  BY <1>7
<1>9. s \in SUBSET S /\ y \in S /\ s \ {y} \in SUBSET S
  BY <1>3, <1>8
<1>10. F(s \ {y}) = G(Image(s \ {y})) /\ F(s) = fun[y] + F(s \ {y})
  BY <1>1, <1>3, <1>8, <1>9
<1>11. G(Image(s)) = gun[h[y]] + G(Image(s) \ {h[y]}) /\ Image(s) \ {h[y]} = Image(s \ {y})
  BY <1>2, <1>4, <1>6, <1>8, <1>9
<1>12. F(s) = G(Image(s))
  BY <1>9, <1>10, <1>11
<1> QED BY <1>3, <1>12

(* A double sum may be taken in either order. *)
DoubleSum(S, T, f, g, fun, gun) ==
    /\ \A x \in S : \A y \in T : f[x][y] \in Int /\ g[y][x] = f[x][y]
    /\ \A x \in S : fun[x] = SumFunctionOnSet(f[x], T)
    /\ \A y \in T : gun[y] = SumFunctionOnSet(g[y], S)

LEMMA SumExchange ==
    ASSUME NEW S, IsFiniteSet(S), NEW T, IsFiniteSet(T), NEW f, NEW g, NEW fun, NEW gun,
           DoubleSum(S, T, f, g, fun, gun)
    PROVE  SumFunctionOnSet(fun, S) = SumFunctionOnSet(gun, T)
<1> DEFINE Part(s) == [y \in T |-> SumFunctionOnSet(g[y], s)]
           L(s) == SumFunctionOnSet(fun, s)
           R(s) == SumFunctionOnSet(Part(s), T)
           Out == {s \in SUBSET S : L(s) # R(s)}
<1> USE DEF DoubleSum
<1>1. ASSUME NEW y \in T
      PROVE  /\ SumFunctionOnSet(g[y], {}) = 0
             /\ \A s \in SUBSET S : /\ SumFunctionOnSet(g[y], s) \in Int
                                    /\ \A x \in s : SumFunctionOnSet(g[y], s)
                                                      = f[x][y] + SumFunctionOnSet(g[y], s \ {x})
  <2>1. \A x \in S : g[y][x] \in Int
    OBVIOUS
  <2>2. Adds(g[y], S)
    BY <2>1, SumElement
  <2>3. \A s \in SUBSET S : \A x \in s : g[y][x] = f[x][y]
    OBVIOUS
  <2> QED BY <2>2, <2>3 DEF Adds
<1>2. \A x \in S : fun[x] \in Int
  <2> SUFFICES ASSUME NEW x \in S PROVE fun[x] \in Int
    OBVIOUS
  <2>1. \A y \in T : f[x][y] \in Int
    OBVIOUS
  <2> QED BY <2>1, SumType
<1>3. L({}) = 0 /\ \A s \in SUBSET S : \A x \in s : L(s) = fun[x] + L(s \ {x})
  <2>1. Adds(fun, S)
    BY <1>2, SumElement
  <2> QED BY <2>1 DEF Adds
<1>4. R({}) = 0
  <2>1. \A y \in T : Part({})[y] = IF y \in {} THEN 0 ELSE 0
    BY <1>1
  <2>2. R({}) = Cardinality({}) * 0
    <3> HIDE DEF Part
    <3> QED BY <2>1, SumCounted
  <2> QED BY <2>2, FS_EmptySet
<1>5. ASSUME NEW s \in SUBSET S, NEW x \in s PROVE R(s) = fun[x] + R(s \ {x}) /\ R(s \ {x}) \in Int
  <2>1. s \ {x} \in SUBSET S /\ x \in S
    OBVIOUS
  <2>2. \A y \in T : Part(s)[y] = f[x][y] + Part(s \ {x})[y] /\ Part(s \ {x})[y] \in Int
    BY <1>1, <2>1
  <2>3. \A a, b \in Int : 1 * a + 1 * b = a + b
    OBVIOUS
  <2>4. PICK p, q, r : p = Part(s) /\ q = Part(s \ {x}) /\ r = f[x]
    OBVIOUS
  <2> HIDE DEF Part
  <2>5. \A y \in T : r[y] \in Int /\ q[y] \in Int /\ p[y] = r[y] + q[y]
    BY <2>1, <2>2, <2>4
  <2>6. \A y \in T : r[y] \in Int /\ q[y] \in Int /\ p[y] = 1 * r[y] + 1 * q[y]
    BY <2>3, <2>5
  <2>7. SumFunctionOnSet(p, T) = 1 * SumFunctionOnSet(r, T) + 1 * SumFunctionOnSet(q, T)
    BY <2>6, SumLinear
  <2>8. SumFunctionOnSet(q, T) \in Int
    BY <2>5, SumType
  <2>9. SumFunctionOnSet(r, T) = fun[x] /\ fun[x] \in Int
    BY <1>2, <2>1, <2>4
  <2>10. SumFunctionOnSet(p, T) = fun[x] + SumFunctionOnSet(q, T)
    BY <2>3, <2>7, <2>8, <2>9
  <2> QED BY <2>4, <2>8, <2>10
<1>6. Out = {}
  <2> SUFFICES ASSUME Out # {} PROVE FALSE
    OBVIOUS
  <2>1. PICK s \in Out : \A y \in s : s \ {y} \notin Out
    <3>1. Out \in SUBSET SUBSET S
      OBVIOUS
    <3> HIDE DEF Out
    <3> QED BY <3>1, SmallestSubset
  <2> HIDE DEF L, R
  <2>2. s # {}
    BY <1>3, <1>4, <2>1
  <2>3. PICK x \in s : TRUE
    BY <2>2
  <2>4. s \in SUBSET S /\ s \ {x} \in SUBSET S
    BY <2>1
  <2>5. L(s \ {x}) = R(s \ {x})
    BY <2>1, <2>3, <2>4
  <2>6. L(s) = R(s)
    BY <1>3, <1>5, <2>3, <2>4, <2>5
  <2> QED BY <2>1, <2>6
<1>7. L(S) = R(S)
  <2>1. S \in SUBSET S
    OBVIOUS
  <2> QED BY <1>6, <2>1
<1>8. R(S) = SumFunctionOnSet(gun, T)
  <2>1. \A y \in T : gun[y] \in Int /\ Part(S)[y] = gun[y]
    <3>1. S \in SUBSET S
      OBVIOUS
    <3> QED BY <1>1, <3>1
  <2> HIDE DEF Part
  <2> QED BY <2>1, SumSame
<1> QED BY <1>7, <1>8

(* A sum of natural numbers is zero only if all of them are. *)
LEMMA SumZero ==
    ASSUME NEW S, IsFiniteSet(S), NEW fun, \A x \in S : fun[x] \in Nat
    PROVE  /\ SumFunctionOnSet(fun, S) \in Nat
           /\ SumFunctionOnSet(fun, S) = 0 <=> \A x \in S : fun[x] = 0
<1>1. SumFunctionOnSet(fun, S) \in Nat
  BY SumCounts
<1>2. ASSUME \A x \in S : fun[x] = 0 PROVE SumFunctionOnSet(fun, S) = 0
  <2>1. \A x \in S : fun[x] = IF x \in {} THEN 0 ELSE 0
    BY <1>2
  <2>2. SumFunctionOnSet(fun, S) = Cardinality({}) * 0
    BY <2>1, SumCounted
  <2> QED BY <2>2, FS_EmptySet
<1>3. ASSUME NEW x \in S, fun[x] # 0 PROVE SumFunctionOnSet(fun, S) # 0
  <2>1. Adds(fun, S)
    <3>1. \A y \in S : fun[y] \in Int
      OBVIOUS
    <3> QED BY <3>1, SumElement
  <2>2. S \in SUBSET S /\ IsFiniteSet(S \ {x}) /\ \A y \in S \ {x} : fun[y] \in Nat
    BY FS_Subset
  <2>3. SumFunctionOnSet(fun, S) = fun[x] + SumFunctionOnSet(fun, S \ {x})
    BY <2>1, <2>2 DEF Adds
  <2>4. SumFunctionOnSet(fun, S \ {x}) \in Nat /\ fun[x] \in Nat
    BY <2>2, SumCounts
  <2> QED BY <1>3, <2>3, <2>4
<1> QED BY <1>1, <1>2, <1>3

(* A common factor. *)
LEMMA SumScaled ==
    ASSUME NEW S, IsFiniteSet(S), NEW fun, NEW gun, NEW a \in Int,
           \A x \in S : fun[x] \in Int /\ gun[x] = a * fun[x]
    PROVE  SumFunctionOnSet(gun, S) = a * SumFunctionOnSet(fun, S)
<1>1. \A c \in Int : a * c \in Int /\ a * c + 0 * c = a * c
  OBVIOUS
<1>2. \A x \in S : fun[x] \in Int /\ fun[x] \in Int /\ gun[x] = a * fun[x] + 0 * fun[x]
  BY <1>1
<1>3. SumFunctionOnSet(gun, S) = a * SumFunctionOnSet(fun, S) + 0 * SumFunctionOnSet(fun, S)
  BY <1>2, SumLinear
<1>4. SumFunctionOnSet(fun, S) \in Int
  <2>1. \A x \in S : fun[x] \in Int
    OBVIOUS
  <2> QED BY <2>1, SumType
<1> QED BY <1>1, <1>3, <1>4

(* A sum of which only a part is not zero. *)
LEMMA SumSupport ==
    ASSUME NEW S, IsFiniteSet(S), NEW part \in SUBSET S, NEW fun, NEW gun,
           \A s \in S : fun[s] = IF s \in part THEN gun[s] ELSE 0,
           \A s \in part : gun[s] \in Int
    PROVE  SumFunctionOnSet(fun, S) = SumFunctionOnSet(gun, part)
<1> DEFINE F(s) == SumFunctionOnSet(fun, s)
           G(s) == SumFunctionOnSet(gun, s)
           Out == {s \in SUBSET S : F(s) # G(part \cap s)}
<1> SUFFICES ASSUME Out # {} PROVE FALSE
  <2>1. S \in SUBSET S /\ part \cap S = part
    OBVIOUS
  <2> QED BY <2>1
<1>1. F({}) = 0 /\ \A s \in SUBSET S : F(s) \in Int /\ \A y \in s : F(s) = fun[y] + F(s \ {y})
  <2>1. \A s \in S : fun[s] \in Int
    OBVIOUS
  <2>2. Adds(fun, S)
    BY <2>1, SumElement
  <2> QED BY <2>2 DEF Adds
<1>2. G({}) = 0 /\ \A s \in SUBSET part : G(s) \in Int /\ \A y \in s : G(s) = gun[y] + G(s \ {y})
  <2>1. IsFiniteSet(part)
    BY FS_Subset
  <2>2. Adds(gun, part)
    BY <2>1, SumElement
  <2> QED BY <2>2 DEF Adds
<1> HIDE DEF F, G
<1>3. PICK s \in Out : \A y \in s : s \ {y} \notin Out
  <2>1. Out \in SUBSET SUBSET S
    OBVIOUS
  <2> HIDE DEF Out
  <2> QED BY <2>1, SmallestSubset
<1>4. s # {}
  <2>1. part \cap {} = {}
    OBVIOUS
  <2> QED BY <1>1, <1>2, <1>3, <2>1
<1>5. PICK y \in s : TRUE
  BY <1>4
<1>6. s \ {y} \in SUBSET S /\ y \in S /\ s \in SUBSET S
  BY <1>3
<1>7. F(s \ {y}) = G(part \cap (s \ {y})) /\ F(s) = fun[y] + F(s \ {y}) /\ F(s \ {y}) \in Int
  BY <1>1, <1>3, <1>5, <1>6
<1>8. CASE y \in part
  <2>1. part \cap s \in SUBSET part /\ y \in part \cap s /\ (part \cap s) \ {y} = part \cap (s \ {y})
    BY <1>5, <1>8
  <2>2. G(part \cap s) = gun[y] + G((part \cap s) \ {y})
    BY <1>2, <2>1
  <2>3. fun[y] = gun[y]
    BY <1>6, <1>8
  <2>4. F(s) = G(part \cap s)
    BY <1>7, <2>1, <2>2, <2>3
  <2> QED BY <1>3, <2>4
<1>9. CASE y \notin part
  <2>1. part \cap s = part \cap (s \ {y})
    BY <1>9
  <2>2. fun[y] = 0
    BY <1>6, <1>9
  <2>3. F(s) = F(s \ {y})
    BY <1>7, <2>2
  <2>4. F(s) = G(part \cap s)
    BY <1>7, <2>1, <2>3
  <2> QED BY <1>3, <2>4
<1> QED BY <1>8, <1>9

(* A function on a finite set has a largest value. *)
LEMMA LargestValue ==
    ASSUME NEW S, IsFiniteSet(S), S # {}, NEW fun \in [S -> Nat]
    PROVE  /\ \E x \in S : \A y \in S : fun[y] <= fun[x]
           /\ Max(Range(fun)) \in Range(fun) /\ \A y \in S : fun[y] <= Max(Range(fun))
<1> DEFINE Good(t) == \E x \in t : \A y \in t : fun[y] <= fun[x]
           Out == {t \in SUBSET S : t # {} /\ ~Good(t)}
<1>1. ASSUME Out # {} PROVE FALSE
  <2>1. PICK t \in Out : \A y \in t : t \ {y} \notin Out
    <3>1. Out \in SUBSET SUBSET S
      OBVIOUS
    <3> HIDE DEF Out
    <3> QED BY <1>1, <3>1, SmallestSubset
  <2>2. PICK z \in t : TRUE
    BY <2>1
  <2>3. t \in SUBSET S /\ t \ {z} \in SUBSET S /\ \A y \in t : fun[y] \in Nat
    BY <2>1
  <2>4. CASE t \ {z} = {}
    <3>1. \A y \in t : y = z
      BY <2>4
    <3> QED BY <2>1, <2>2, <2>3, <3>1
  <2>5. CASE t \ {z} # {}
    <3>1. Good(t \ {z})
      BY <2>1, <2>2, <2>3, <2>5
    <3>2. PICK x \in t \ {z} : \A y \in t \ {z} : fun[y] <= fun[x]
      BY <3>1
    <3>3. fun[z] <= fun[x] \/ fun[x] <= fun[z]
      BY <2>3
    <3>4. ASSUME fun[z] <= fun[x] PROVE FALSE
      <4>1. \A y \in t : fun[y] <= fun[x]
        BY <3>2, <3>4
      <4> QED BY <2>1, <3>2, <4>1
    <3>5. ASSUME fun[x] <= fun[z] PROVE FALSE
      <4>1. \A y \in t : fun[y] <= fun[z]
        BY <2>3, <3>2, <3>5
      <4> QED BY <2>1, <2>2, <4>1
    <3> QED BY <3>3, <3>4, <3>5
  <2> QED BY <2>4, <2>5
<1>2. PICK x \in S : \A y \in S : fun[y] <= fun[x]
  <2>1. S \in SUBSET S
    OBVIOUS
  <2> QED BY <1>1, <2>1
<1> HIDE DEF Out, Good
<1>3. fun[x] \in Range(fun) /\ \A k \in Range(fun) : fun[x] >= k
  BY <1>2 DEF Range
<1>4. Max(Range(fun)) \in Range(fun) /\ \A k \in Range(fun) : Max(Range(fun)) >= k
  <2> HIDE DEF Range
  <2> QED BY <1>3 DEF Max
<1>5. \A y \in S : fun[y] <= Max(Range(fun))
  BY <1>3, <1>4 DEF Range
<1> QED BY <1>2, <1>4, <1>5
=============================================================================
