--------------------------- MODULE PageRank_proofs ---------------------------
(***************************************************************************)
(* Proofs about PageRank.  An iteration is linear but for the base score,  *)
(* it divides without a rest what is a multiple of the divisions still to  *)
(* come, and it brings two assignments of scores closer to one another:    *)
(* from this follow the ranks, the bounds and what the verifier finds.     *)
(***************************************************************************)
EXTENDS PageRank, GraphLemmas

LEMMA Assumed ==
    /\ N \in Nat \ {0} /\ MaxIters \in Nat /\ DegreeMultiple \in Nat \ {0}
    /\ IsFiniteSet(Nodes) /\ Cardinality(Nodes) = N
BY PageRankAssumption, FS_Interval DEF Nodes

(* Products and quotients. *)
LEMMA Cancel ==
    ASSUME NEW c \in Nat \ {0}, NEW a \in Int, NEW b \in Int
    PROVE  /\ c * a = c * b => a = b
           /\ c * a <= c * b => a <= b
OBVIOUS

LEMMA Products ==
    ASSUME NEW a \in Nat, NEW b \in Nat
    PROVE  a * b \in Nat /\ (a # 0 /\ b # 0 => a * b # 0)
OBVIOUS

LEMMA Exactly ==
    ASSUME NEW c \in Nat \ {0}, NEW q \in Nat
    PROVE  (c * q) \div c = q
<1>1. c * q \in Nat /\ q \in Int /\ c * q < c * q + c
  OBVIOUS
<1> QED BY <1>1, DivIs

LEMMA Associative ==
    ASSUME NEW a \in Int, NEW b \in Int, NEW c \in Int
    PROVE  a * (b * c) = (a * b) * c /\ a * (b + c) = a * b + a * c /\ a * b = b * a
OBVIOUS

(* The divisions an iteration makes leave nothing over. *)
LEMMA DivisionsFacts ==
    /\ Divisions[0] = 1
    /\ \A k \in Nat : Divisions[k] \in Nat \ {0} /\ Divisions[k + 1] = 20 * DegreeMultiple * Divisions[k]
<1> DEFINE c == 20 * DegreeMultiple
           X == Nat \ {0}
           F == [x \in X |-> c * x]
           Def(w) == [k \in Nat |-> IF k = 0 THEN 1 ELSE c * w[k - 1]]
<1>1. c \in X
  BY Assumed
<1>2. \A x \in X : F[x] \in X /\ F[x] = c * x
  <2> HIDE DEF c
  <2> QED BY <1>1, Products
<1>3. PICK g : Iterates(g, X, 1, F)
  <2>1. 1 \in X
    OBVIOUS
  <2> HIDE DEF X, F
  <2> QED BY <1>2, <2>1, Iteration
<1> HIDE DEF c, F
<1>4. g = Def(g)
  <2>1. ASSUME NEW k \in Nat PROVE g[k] = IF k = 0 THEN 1 ELSE c * g[k - 1]
    <3>1. CASE k = 0
      BY <1>3, <3>1 DEF Iterates
    <3>2. CASE k # 0
      <4>1. k - 1 \in Nat /\ (k - 1) + 1 = k
        BY <3>2
      <4>2. g[(k - 1) + 1] = F[g[k - 1]] /\ g[k - 1] \in X
        BY <1>3, <4>1 DEF Iterates
      <4> HIDE DEF X
      <4> QED BY <1>2, <3>2, <4>1, <4>2
    <3> QED BY <3>1, <3>2
  <2> QED BY <1>3, <2>1 DEF Iterates
<1>5. Divisions = Def(Divisions)
  BY <1>4 DEF Divisions, c
<1>6. /\ Divisions = [k \in Nat |-> Divisions[k]] /\ Divisions[0] = 1
      /\ \A k \in Nat : Divisions[k + 1] = c * Divisions[k]
  <2> DEFINE h == Divisions
  <2>1. h = Def(h)
    BY <1>5
  <2> HIDE DEF h
  <2>2. h = [k \in Nat |-> h[k]] /\ h[0] = 1
    BY <2>1
  <2>3. ASSUME NEW k \in Nat PROVE h[k + 1] = c * h[k]
    <3>1. k + 1 \in Nat /\ k + 1 # 0 /\ (k + 1) - 1 = k
      OBVIOUS
    <3> QED BY <2>1, <3>1
  <2> QED BY <2>2, <2>3 DEF h
<1>7. Iterates(Divisions, X, 1, F)
  <2> DEFINE h == Divisions
  <2>1. \A k \in Nat : h[k] \in X => h[k + 1] = F[h[k]]
    BY <1>2, <1>6
  <2>2. 1 \in X /\ h = [k \in Nat |-> h[k]] /\ h[0] = 1
    BY <1>6
  <2> HIDE DEF h, X
  <2>3. Iterates(h, X, 1, F)
    BY <1>2, <2>1, <2>2, Unrolled
  <2> QED BY <2>3 DEF h
<1> QED BY <1>6, <1>7 DEF Iterates, c
-----------------------------------------------------------------------------
Multiples(c) == {x \in Nat : \E q \in Nat : x = c * q}

LEMMA MultiplesFacts ==
    ASSUME NEW c \in Nat \ {0}
    PROVE  /\ 0 \in Multiples(c)
           /\ \A x, y \in Multiples(c) : x + y \in Multiples(c)
           /\ \A a \in Nat : \A x \in Multiples(c) : a * x \in Multiples(c)
<1>1. 0 \in Multiples(c)
  <2>1. 0 = c * 0
    OBVIOUS
  <2> QED BY <2>1 DEF Multiples
<1>2. ASSUME NEW x \in Multiples(c), NEW y \in Multiples(c) PROVE x + y \in Multiples(c)
  <2>1. PICK p \in Nat, q \in Nat : x = c * p /\ y = c * q
    BY DEF Multiples
  <2>2. x + y = c * (p + q) /\ p + q \in Nat /\ x + y \in Nat
    BY <2>1, Associative, Products
  <2> QED BY <2>2 DEF Multiples
<1>3. ASSUME NEW a \in Nat, NEW x \in Multiples(c) PROVE a * x \in Multiples(c)
  <2>1. PICK q \in Nat : x = c * q
    BY DEF Multiples
  <2>2. a * (c * q) = (a * c) * q /\ a * c = c * a /\ c * (a * q) = (c * a) * q
    BY Associative
  <2>3. a * x = c * (a * q) /\ a * q \in Nat /\ a * x \in Nat
    <3>1. x \in Nat
      BY DEF Multiples
    <3> QED BY <2>1, <2>2, <3>1, Products
  <2> QED BY <2>3 DEF Multiples
<1> QED BY <1>1, <1>2, <1>3

LEMMA Coarser ==
    ASSUME NEW c \in Nat \ {0}, NEW d \in Nat \ {0}, NEW x \in Multiples(c * d)
    PROVE  /\ x \in Multiples(d) /\ x \in Multiples(c)
           /\ x \div c \in Multiples(d) /\ c * (x \div c) = x
<1>1. PICK q \in Nat : x = (c * d) * q /\ x \in Nat
  BY DEF Multiples
<1>2. c * (d * q) = (c * d) * q /\ d * (c * q) = (d * c) * q /\ c * d = d * c
  BY Associative
<1>3. d * q \in Nat /\ c * q \in Nat
  BY Products
<1>4. x \div c = d * q
  BY <1>1, <1>2, <1>3, Exactly
<1> QED BY <1>1, <1>2, <1>3, <1>4 DEF Multiples

LEMMA SumMultiple ==
    ASSUME NEW S, IsFiniteSet(S), NEW c \in Nat \ {0}, NEW fun, \A s \in S : fun[s] \in Multiples(c)
    PROVE  SumFunctionOnSet(fun, S) \in Multiples(c)
<1> DEFINE q == [s \in S |-> CHOOSE k \in Nat : fun[s] = c * k]
<1>1. ASSUME NEW s \in S PROVE q[s] \in Nat /\ fun[s] = c * q[s] /\ fun[s] \in Nat
  <2>1. \E k \in Nat : fun[s] = c * k
    BY DEF Multiples
  <2>2. fun[s] \in Nat
    BY DEF Multiples
  <2> QED BY <2>1, <2>2
<1> HIDE DEF q
<1>2. SumFunctionOnSet(q, S) \in Nat
  BY <1>1, SumCounts
<1>3. \A s \in S : q[s] \in Int /\ q[s] \in Int /\ fun[s] = c * q[s] + 0 * q[s]
  BY <1>1
<1>4. SumFunctionOnSet(fun, S) = c * SumFunctionOnSet(q, S) + 0 * SumFunctionOnSet(q, S)
  BY <1>3, SumLinear
<1>5. SumFunctionOnSet(fun, S) = c * SumFunctionOnSet(q, S) /\ c * SumFunctionOnSet(q, S) \in Nat
  BY <1>2, <1>4, Products
<1> QED BY <1>2, <1>5 DEF Multiples
-----------------------------------------------------------------------------
(* An iteration on scores x of a graph g: what a node hands each of its     *)
(* out-neighbours, what arrives at a node, and its score but for the base.  *)
IsGraph(g) ==
    /\ g \in [Nodes -> SUBSET Nodes]
    /\ \A n \in Nodes : g[n] # {} => DegreeMultiple % Cardinality(g[n]) = 0

Share(g, x) == [u \in Nodes |-> IF g[u] = {} THEN 0 ELSE x[u] \div Cardinality(g[u])]
Arriving(g, x) == [n \in Nodes |-> SumFunctionOnSet(Share(g, x), Senders(g, Nodes, n))]
Damp(g, x) == [n \in Nodes |-> Damped(Arriving(g, x)[n])]

(* Scores that k more iterations divide without a rest. *)
Exact(k) == [Nodes -> Multiples(Divisions[k])]

LEMMA DegreeFacts ==
    ASSUME NEW g, IsGraph(g), NEW u \in Nodes
    PROVE  /\ IsFiniteSet(g[u]) /\ g[u] \in SUBSET Nodes
           /\ g[u] = {} => Cardinality(g[u]) = 0
           /\ g[u] # {} => /\ Cardinality(g[u]) \in Nat \ {0}
                           /\ \E m \in Nat \ {0} : DegreeMultiple = Cardinality(g[u]) * m
<1>1. IsFiniteSet(g[u]) /\ g[u] \in SUBSET Nodes
  BY Assumed, FS_Subset DEF IsGraph
<1>2. Cardinality(g[u]) \in Nat /\ (Cardinality(g[u]) = 0 <=> g[u] = {})
  BY <1>1, FS_CardinalityType, FS_EmptySet
<1>3. ASSUME g[u] # {} PROVE \E m \in Nat \ {0} : DegreeMultiple = Cardinality(g[u]) * m
  <2>1. PICK d : d = Cardinality(g[u])
    OBVIOUS
  <2>2. d \in Nat \ {0} /\ DegreeMultiple % d = 0 /\ DegreeMultiple \in Nat \ {0}
    BY <1>2, <1>3, <2>1, Assumed DEF IsGraph
  <2>3. DegreeMultiple = d * (DegreeMultiple \div d) /\ DegreeMultiple \div d \in Nat
    BY <2>2
  <2>4. DegreeMultiple \div d # 0
    BY <2>2, <2>3
  <2> QED BY <2>1, <2>3, <2>4
<1> QED BY <1>1, <1>2, <1>3

LEMMA ShareExact ==
    ASSUME NEW g, IsGraph(g), NEW k \in Nat, NEW x \in Exact(k + 1), NEW u \in Nodes
    PROVE  /\ Share(g, x)[u] \in Multiples(20 * Divisions[k]) /\ Share(g, x)[u] \in Nat
           /\ g[u] = {} => Share(g, x)[u] = 0
           /\ g[u] # {} => Cardinality(g[u]) * Share(g, x)[u] = x[u]
           /\ x[u] \in Nat
<1>1. Divisions[k] \in Nat \ {0} /\ Divisions[k + 1] = 20 * DegreeMultiple * Divisions[k]
  BY DivisionsFacts
<1>2. PICK rest : rest = 20 * Divisions[k] /\ rest \in Nat \ {0}
  BY <1>1
<1>3. x[u] \in Multiples(Divisions[k + 1]) /\ x[u] \in Nat
  BY DEF Exact, Multiples
<1>4. CASE g[u] = {}
  <2>1. Share(g, x)[u] = 0
    BY <1>4 DEF Share
  <2> QED BY <1>2, <1>3, <1>4, <2>1, MultiplesFacts
<1>5. CASE g[u] # {}
  <2>1. PICK d \in Nat \ {0}, m \in Nat \ {0} : d = Cardinality(g[u]) /\ DegreeMultiple = d * m
    BY <1>5, DegreeFacts
  <2>2. d * rest \in Nat \ {0} /\ m * (d * rest) = Divisions[k + 1]
    <3>1. d * rest \in Nat \ {0}
      BY <1>2, Products
    <3>2. m * (d * rest) = (m * d) * rest /\ m * d = DegreeMultiple
      BY <1>2, <2>1, Associative
    <3>3. DegreeMultiple \in Nat /\ DegreeMultiple * (20 * Divisions[k]) = (DegreeMultiple * 20) * Divisions[k]
      BY <1>1, Assumed, Associative
    <3>4. DegreeMultiple * 20 = 20 * DegreeMultiple
      BY <3>3
    <3> QED BY <1>1, <1>2, <3>1, <3>2, <3>3, <3>4
  <2>3. x[u] \in Multiples(d * rest)
    BY <1>3, <2>2, Coarser
  <2>4. x[u] \div d \in Multiples(rest) /\ d * (x[u] \div d) = x[u]
    BY <1>2, <2>3, Coarser
  <2>5. Share(g, x)[u] = x[u] \div d
    BY <1>5, <2>1 DEF Share
  <2>6. Share(g, x)[u] \in Nat
    BY <2>4, <2>5 DEF Multiples
  <2> QED BY <1>2, <1>3, <1>5, <2>1, <2>4, <2>5, <2>6
<1> QED BY <1>4, <1>5

LEMMA DampExact ==
    ASSUME NEW g, IsGraph(g), NEW k \in Nat, NEW x \in Exact(k + 1)
    PROVE  /\ Damp(g, x) \in Exact(k)
           /\ \A n \in Nodes : /\ Arriving(g, x)[n] \in Nat /\ Damp(g, x)[n] \in Nat
                               /\ 20 * Damp(g, x)[n] = 17 * Arriving(g, x)[n]
<1>1. Divisions[k] \in Nat \ {0} /\ 20 * Divisions[k] \in Nat \ {0}
  BY DivisionsFacts
<1>2. ASSUME NEW n \in Nodes
      PROVE  /\ Arriving(g, x)[n] \in Nat /\ Damp(g, x)[n] \in Multiples(Divisions[k])
             /\ 20 * Damp(g, x)[n] = 17 * Arriving(g, x)[n]
  <2> DEFINE S == Senders(g, Nodes, n)
             fun == Share(g, x)
  <2>1. IsFiniteSet(S) /\ \A u \in S : u \in Nodes
    BY Assumed, FS_Subset DEF Senders
  <2>2. \A u \in S : fun[u] \in Multiples(20 * Divisions[k])
    BY <2>1, ShareExact
  <2>3. Arriving(g, x)[n] = SumFunctionOnSet(fun, S)
    BY DEF Arriving
  <2> HIDE DEF S, fun
  <2>4. PICK a : a = Arriving(g, x)[n] /\ a \in Multiples(20 * Divisions[k])
    BY <1>1, <2>1, <2>2, <2>3, SumMultiple
  <2>5. a \in Nat /\ a \div 20 \in Multiples(Divisions[k]) /\ 20 * (a \div 20) = a
    BY <1>1, <2>4, Coarser DEF Multiples
  <2>6. Damp(g, x)[n] = (a \div 20) * 17 /\ a \div 20 \in Nat
    BY <2>4, <2>5 DEF Damp, Damped, Multiples
  <2>7. 17 * (a \div 20) \in Multiples(Divisions[k])
    BY <1>1, <2>5, MultiplesFacts
  <2> QED BY <2>4, <2>5, <2>6, <2>7
<1>3. Damp(g, x) \in Exact(k)
  BY <1>2 DEF Exact, Damp
<1>4. \A n \in Nodes : Damp(g, x)[n] \in Nat
  BY <1>2 DEF Multiples
<1> QED BY <1>2, <1>3, <1>4

(* An iteration is linear but for the base, *)
Combined(z, a, x, b, y) == \A n \in Nodes : z[n] = a * x[n] + b * y[n]

LEMMA DampLinear ==
    ASSUME NEW g, IsGraph(g), NEW k \in Nat,
           NEW x \in Exact(k + 1), NEW y \in Exact(k + 1), NEW z \in Exact(k + 1),
           NEW a \in Nat, NEW b \in Nat, Combined(z, a, x, b, y)
    PROVE  Combined(Damp(g, z), a, Damp(g, x), b, Damp(g, y))
<1>1. ASSUME NEW u \in Nodes
      PROVE  /\ Share(g, x)[u] \in Nat /\ Share(g, y)[u] \in Nat
             /\ Share(g, z)[u] = a * Share(g, x)[u] + b * Share(g, y)[u]
  <2>1. PICK p \in Nat, q \in Nat, r \in Nat : p = Share(g, x)[u] /\ q = Share(g, y)[u] /\ r = Share(g, z)[u]
    BY ShareExact
  <2>2. CASE g[u] = {}
    <3>1. p = 0 /\ q = 0 /\ r = 0
      BY <2>1, <2>2, ShareExact
    <3> QED BY <2>1, <3>1
  <2>3. CASE g[u] # {}
    <3>1. PICK d \in Nat \ {0} : d = Cardinality(g[u])
      BY <2>3, DegreeFacts
    <3>2. d * p = x[u] /\ d * q = y[u] /\ d * r = z[u]
      <4>1. Cardinality(g[u]) * Share(g, x)[u] = x[u]
        BY <2>3, ShareExact
      <4>2. Cardinality(g[u]) * Share(g, y)[u] = y[u]
        BY <2>3, ShareExact
      <4>3. Cardinality(g[u]) * Share(g, z)[u] = z[u]
        BY <2>3, ShareExact
      <4> QED BY <2>1, <3>1, <4>1, <4>2, <4>3
    <3>3. d * (a * p) = a * (d * p) /\ d * (b * q) = b * (d * q)
      <4>1. d * (a * p) = (d * a) * p /\ a * (d * p) = (a * d) * p /\ d * a = a * d
        BY Associative
      <4>2. d * (b * q) = (d * b) * q /\ b * (d * q) = (b * d) * q /\ d * b = b * d
        BY Associative
      <4> QED BY <4>1, <4>2
    <3>4. a * p \in Nat /\ b * q \in Nat
      BY Products
    <3>5. d * (a * p + b * q) = d * (a * p) + d * (b * q)
      BY <3>4, Associative
    <3>6. d * r = d * (a * p + b * q)
      BY <3>2, <3>3, <3>5 DEF Combined
    <3>7. r = a * p + b * q
      BY <3>4, <3>6, Cancel
    <3> QED BY <2>1, <3>7
  <2> QED BY <2>2, <2>3
<1>2. ASSUME NEW n \in Nodes PROVE Arriving(g, z)[n] = a * Arriving(g, x)[n] + b * Arriving(g, y)[n]
  <2> DEFINE S == Senders(g, Nodes, n)
             f == Share(g, x)
             h == Share(g, y)
             s == Share(g, z)
  <2>1. IsFiniteSet(S) /\ \A u \in S : u \in Nodes
    BY Assumed, FS_Subset DEF Senders
  <2>2. \A u \in S : f[u] \in Int /\ h[u] \in Int /\ s[u] = a * f[u] + b * h[u]
    BY <1>1, <2>1
  <2> HIDE DEF S, f, h, s
  <2>3. SumFunctionOnSet(s, S) = a * SumFunctionOnSet(f, S) + b * SumFunctionOnSet(h, S)
    <3>1. IsFiniteSet(S) /\ a \in Int /\ b \in Int
      BY <2>1
    <3> QED BY <2>2, <3>1, SumLinear
  <2> QED BY <2>3 DEF Arriving, S, f, h, s
<1>3. ASSUME NEW n \in Nodes PROVE Damp(g, z)[n] = a * Damp(g, x)[n] + b * Damp(g, y)[n]
  <2>1. PICK p \in Nat, q \in Nat, r \in Nat :
            p = Arriving(g, x)[n] /\ q = Arriving(g, y)[n] /\ r = Arriving(g, z)[n]
    BY DampExact
  <2>2. PICK i \in Nat, j \in Nat, l \in Nat : i = Damp(g, x)[n] /\ j = Damp(g, y)[n] /\ l = Damp(g, z)[n]
    BY DampExact
  <2>3. 20 * i = 17 * p /\ 20 * j = 17 * q /\ 20 * l = 17 * r
    BY <2>1, <2>2, DampExact
  <2>4. r = a * p + b * q
    BY <1>2, <2>1
  <2>5. a * (20 * i) = (a * 20) * i /\ a * (17 * p) = (a * 17) * p /\ a * i \in Nat /\ a * p \in Nat
        /\ b * (20 * j) = (b * 20) * j /\ b * (17 * q) = (b * 17) * q /\ b * j \in Nat /\ b * q \in Nat
    BY Associative, Products
  <2>6. 20 * (a * i) = (20 * a) * i /\ 17 * (a * p) = (17 * a) * p
        /\ 20 * (b * j) = (20 * b) * j /\ 17 * (b * q) = (17 * b) * q
    BY Associative
  <2>7. 20 * (a * i) = 17 * (a * p) /\ 20 * (b * j) = 17 * (b * q)
    BY <2>3, <2>5, <2>6
  <2>8. l = a * i + b * j
    BY <2>3, <2>4, <2>5, <2>7
  <2> QED BY <2>2, <2>8
<1> QED BY <1>3 DEF Combined

(* and brings scores closer to one another, taken together.                 *)
Gap(x, y) == [n \in Nodes |-> Abs(x[n] - y[n])]

LEMMA AbsFacts ==
    ASSUME NEW a \in Int
    PROVE  Abs(a) \in Nat /\ a <= Abs(a) /\ -a <= Abs(a) /\ (Abs(a) = a \/ Abs(a) = -a)
BY DEF Abs

LEMMA SumAbs ==
    ASSUME NEW S, IsFiniteSet(S), NEW fun, NEW gun, NEW abs,
           \A s \in S : fun[s] \in Int /\ gun[s] \in Int /\ abs[s] = Abs(fun[s] - gun[s])
    PROVE  Abs(SumFunctionOnSet(fun, S) - SumFunctionOnSet(gun, S)) <= SumFunctionOnSet(abs, S)
<1> DEFINE dif == [s \in S |-> fun[s] - gun[s]]
           neg == [s \in S |-> gun[s] - fun[s]]
<1>1. \A s \in S : /\ fun[s] \in Int /\ gun[s] \in Int /\ dif[s] \in Int /\ neg[s] \in Int
                   /\ dif[s] = 1 * fun[s] + (-1) * gun[s] /\ neg[s] = 1 * gun[s] + (-1) * fun[s]
  OBVIOUS
<1>2. \A s \in S : dif[s] \in Int /\ neg[s] \in Int /\ abs[s] \in Int /\ dif[s] <= abs[s] /\ neg[s] <= abs[s]
  BY DEF Abs
<1> HIDE DEF dif, neg
<1>3. SumFunctionOnSet(dif, S) = 1 * SumFunctionOnSet(fun, S) + (-1) * SumFunctionOnSet(gun, S)
  BY <1>1, SumLinear
<1>4. SumFunctionOnSet(neg, S) = 1 * SumFunctionOnSet(gun, S) + (-1) * SumFunctionOnSet(fun, S)
  BY <1>1, SumLinear
<1>5. SumFunctionOnSet(dif, S) <= SumFunctionOnSet(abs, S)
  BY <1>2, SumMonotone
<1>6. SumFunctionOnSet(neg, S) <= SumFunctionOnSet(abs, S)
  BY <1>2, SumMonotone
<1>7. SumFunctionOnSet(fun, S) \in Int /\ SumFunctionOnSet(gun, S) \in Int
  <2>1. (\A s \in S : fun[s] \in Int) /\ \A s \in S : gun[s] \in Int
    BY <1>1
  <2> QED BY <2>1, SumType
<1> QED BY <1>3, <1>4, <1>5, <1>6, <1>7 DEF Abs

LEMMA Contraction ==
    ASSUME NEW g, IsGraph(g), NEW k \in Nat, NEW x \in Exact(k + 1), NEW y \in Exact(k + 1)
    PROVE  20 * SumFunctionOnSet(Gap(Damp(g, x), Damp(g, y)), Nodes) <= 17 * SumFunctionOnSet(Gap(x, y), Nodes)
<1> DEFINE amount == [u \in Nodes |-> Abs(Share(g, x)[u] - Share(g, y)[u])]
           got == [n \in Nodes |-> SumFunctionOnSet(amount, Senders(g, Nodes, n))]
           given == [u \in Nodes |-> Cardinality(g[u]) * amount[u]]
           near == Gap(Damp(g, x), Damp(g, y))
           far == Gap(x, y)
<1>1. ASSUME NEW u \in Nodes
      PROVE  /\ amount[u] \in Nat /\ amount[u] = Abs(Share(g, x)[u] - Share(g, y)[u])
             /\ Share(g, x)[u] \in Nat /\ Share(g, y)[u] \in Nat
             /\ far[u] = Abs(x[u] - y[u]) /\ far[u] \in Nat
             /\ given[u] = Cardinality(g[u]) * amount[u]
  <2>1. Share(g, x)[u] \in Nat /\ Share(g, y)[u] \in Nat /\ x[u] \in Nat /\ y[u] \in Nat
    BY ShareExact
  <2>2. Share(g, x)[u] - Share(g, y)[u] \in Int /\ x[u] - y[u] \in Int
    BY <2>1
  <2>3. Abs(Share(g, x)[u] - Share(g, y)[u]) \in Nat /\ Abs(x[u] - y[u]) \in Nat
    BY <2>2, AbsFacts
  <2> QED BY <2>1, <2>3 DEF Gap
<1>2. near = [n \in Nodes |-> near[n]] /\ \A n \in Nodes : near[n] = Abs(Damp(g, x)[n] - Damp(g, y)[n])
  BY DEF Gap
<1> HIDE DEF far, near
<1>3. ASSUME NEW u \in Nodes PROVE given[u] \in Int /\ given[u] <= far[u]
  <2>1. PICK p \in Nat, q \in Nat, d \in Nat : p = Share(g, x)[u] /\ q = Share(g, y)[u] /\ d = Cardinality(g[u])
    BY <1>1, DegreeFacts, FS_CardinalityType
  <2>2. given[u] = d * Abs(p - q) /\ far[u] = Abs(x[u] - y[u]) /\ far[u] \in Nat
    BY <1>1, <2>1
  <2>3. CASE g[u] = {}
    <3>1. d = 0
      <4>1. Cardinality(g[u]) = 0
        BY <2>3, FS_EmptySet
      <4> QED BY <2>1, <4>1
    <3> QED BY <1>1, <2>1, <2>2, <3>1
  <2>4. CASE g[u] # {}
    <3>1. d * p = x[u] /\ d * q = y[u]
      BY <2>1, <2>4, ShareExact
    <3>2. d * (p - q) = d * p - d * q /\ d * (q - p) = d * q - d * p
      OBVIOUS
    <3>3. CASE p >= q
      <4>1. Abs(p - q) = p - q /\ p - q \in Nat
        BY <3>3 DEF Abs
      <4>2. d * (p - q) \in Nat
        BY <4>1, Products
      <4>3. given[u] = x[u] - y[u]
        BY <2>2, <3>1, <3>2, <4>1
      <4>4. given[u] \in Nat /\ given[u] <= far[u]
        BY <2>2, <4>1, <4>2, <4>3 DEF Abs
      <4> QED BY <4>4
    <3>4. CASE q > p
      <4>1. Abs(p - q) = q - p /\ q - p \in Nat
        BY <3>4 DEF Abs
      <4>2. d * (q - p) \in Nat
        BY <4>1, Products
      <4>3. given[u] = y[u] - x[u] /\ x[u] \in Nat /\ y[u] \in Nat
        BY <2>2, <3>1, <3>2, <4>1, ShareExact
      <4>4. given[u] \in Nat /\ given[u] <= far[u]
        BY <2>2, <4>1, <4>2, <4>3 DEF Abs
      <4> QED BY <4>4
    <3> QED BY <3>3, <3>4
  <2> QED BY <2>3, <2>4
<1>4. SumFunctionOnSet(got, Nodes) = SumFunctionOnSet(given, Nodes)
  <2>1. g \in [Nodes -> SUBSET Nodes] /\ IsFiniteSet(Nodes) /\ \A u \in Nodes : amount[u] \in Int
    BY <1>1, Assumed DEF IsGraph
  <2>2. \A n \in Nodes : got[n] = SumFunctionOnSet(amount, Senders(g, Nodes, n))
    OBVIOUS
  <2>3. \A u \in Nodes : given[u] = Cardinality(g[u]) * amount[u]
    OBVIOUS
  <2> HIDE DEF amount, got, given
  <2> QED BY <2>1, <2>2, <2>3, SumBothWays
<1> HIDE DEF given
<1>5. SumFunctionOnSet(given, Nodes) <= SumFunctionOnSet(far, Nodes)
  <2>1. \A u \in Nodes : given[u] \in Int /\ far[u] \in Int /\ given[u] <= far[u]
    BY <1>1, <1>3
  <2> QED BY <2>1, Assumed, SumMonotone
<1> HIDE DEF amount
<1>6. ASSUME NEW n \in Nodes PROVE near[n] \in Nat /\ got[n] \in Int /\ 20 * near[n] <= 17 * got[n]
  <2> DEFINE S == Senders(g, Nodes, n)
             f == Share(g, x)
             h == Share(g, y)
  <2>1. IsFiniteSet(S) /\ \A u \in S : u \in Nodes
    BY Assumed, FS_Subset DEF Senders
  <2>2. \A u \in S : f[u] \in Int /\ h[u] \in Int /\ amount[u] = Abs(f[u] - h[u]) /\ amount[u] \in Int
    BY <1>1, <2>1
  <2>3. got[n] = SumFunctionOnSet(amount, S) /\ Arriving(g, x)[n] = SumFunctionOnSet(f, S)
        /\ Arriving(g, y)[n] = SumFunctionOnSet(h, S)
    BY DEF Arriving
  <2> HIDE DEF S, f, h, got
  <2>4. Abs(SumFunctionOnSet(f, S) - SumFunctionOnSet(h, S)) <= SumFunctionOnSet(amount, S)
    BY <2>1, <2>2, SumAbs
  <2>5. got[n] \in Int
    <3>1. \A u \in S : amount[u] \in Int
      BY <2>2
    <3> QED BY <2>1, <2>3, <3>1, SumType
  <2>6. PICK p \in Nat, q \in Nat : p = Arriving(g, x)[n] /\ q = Arriving(g, y)[n]
    BY DampExact
  <2>7. PICK i \in Nat, j \in Nat : i = Damp(g, x)[n] /\ j = Damp(g, y)[n]
    BY DampExact
  <2>8. 20 * i = 17 * p /\ 20 * j = 17 * q
    BY <2>6, <2>7, DampExact
  <2>9. Abs(p - q) <= got[n] /\ near[n] = Abs(i - j)
    BY <1>2, <2>3, <2>4, <2>6, <2>7
  <2>10. 20 * Abs(i - j) = 17 * Abs(p - q) /\ Abs(i - j) \in Nat /\ Abs(p - q) \in Nat
    BY <2>8 DEF Abs
  <2> QED BY <2>5, <2>9, <2>10
<1> HIDE DEF got
<1>7. 20 * SumFunctionOnSet(near, Nodes) <= 17 * SumFunctionOnSet(got, Nodes)
  <2> DEFINE a == [n \in Nodes |-> 20 * near[n]]
             b == [n \in Nodes |-> 17 * got[n]]
  <2>1. \A n \in Nodes : a[n] \in Int /\ b[n] \in Int /\ a[n] <= b[n] /\ near[n] \in Int /\ got[n] \in Int
                         /\ a[n] = 20 * near[n] + 0 * near[n] /\ b[n] = 17 * got[n] + 0 * got[n]
    BY <1>6
  <2> HIDE DEF a, b
  <2>2. SumFunctionOnSet(a, Nodes) <= SumFunctionOnSet(b, Nodes)
    BY <2>1, Assumed, SumMonotone
  <2>3. SumFunctionOnSet(a, Nodes) = 20 * SumFunctionOnSet(near, Nodes) + 0 * SumFunctionOnSet(near, Nodes)
    BY <2>1, Assumed, SumLinear
  <2>4. SumFunctionOnSet(b, Nodes) = 17 * SumFunctionOnSet(got, Nodes) + 0 * SumFunctionOnSet(got, Nodes)
    BY <2>1, Assumed, SumLinear
  <2>5. SumFunctionOnSet(near, Nodes) \in Int /\ SumFunctionOnSet(got, Nodes) \in Int
    <3>1. (\A n \in Nodes : near[n] \in Int) /\ \A n \in Nodes : got[n] \in Int
      BY <2>1
    <3> QED BY <3>1, Assumed, SumType
  <2> QED BY <2>2, <2>3, <2>4, <2>5
<1>8. SumFunctionOnSet(given, Nodes) \in Int /\ SumFunctionOnSet(far, Nodes) \in Int
  <2>1. (\A n \in Nodes : given[n] \in Int) /\ \A n \in Nodes : far[n] \in Int
    BY <1>1, <1>3
  <2> QED BY <2>1, Assumed, SumType
<1>9. 20 * SumFunctionOnSet(near, Nodes) <= 17 * SumFunctionOnSet(far, Nodes)
  <2>1. SumFunctionOnSet(near, Nodes) \in Int
    <3>1. \A n \in Nodes : near[n] \in Int
      BY <1>6
    <3> QED BY <3>1, Assumed, SumType
  <2> QED BY <1>4, <1>5, <1>7, <1>8, <2>1
<1> QED BY <1>9 DEF near, far
-----------------------------------------------------------------------------
(* The scores after each number of iterations.                              *)
Start == [n \in Nodes |-> Unit \div N]
Iterated(g, x) == [n \in Nodes |-> BaseScore + Damp(g, x)[n]]
Scored(g) == CHOOSE r : Iterates(r, [Nodes -> Nat], Start, [x \in [Nodes -> Nat] |-> Iterated(g, x)])

LEMMA DivisionsDown ==
    ASSUME NEW k \in Nat, NEW x \in Multiples(Divisions[k]), NEW j \in 0 .. k
    PROVE  x \in Multiples(Divisions[j])
<1> DEFINE Out == {i \in Nat : i <= k /\ x \notin Multiples(Divisions[k - i])}
<1>1. Out = {}
  <2> SUFFICES ASSUME Out # {} PROVE FALSE
    OBVIOUS
  <2>1. PICK i \in Out : \A h \in Out : i <= h
    BY LeastNatural
  <2>2. i # 0
    BY <2>1
  <2>3. i - 1 \in Nat /\ i - 1 <= k /\ ~(i <= i - 1) /\ k - i \in Nat /\ k - (i - 1) = (k - i) + 1
    BY <2>1, <2>2
  <2>4. x \in Multiples(Divisions[(k - i) + 1])
    BY <2>1, <2>3
  <2>5. Divisions[(k - i) + 1] = 20 * DegreeMultiple * Divisions[k - i] /\ Divisions[k - i] \in Nat \ {0}
        /\ 20 * DegreeMultiple \in Nat \ {0}
    BY <2>3, DivisionsFacts, Assumed
  <2>6. x \in Multiples(Divisions[k - i])
    BY <2>4, <2>5, Coarser
  <2> QED BY <2>1, <2>6
<1>2. k - j \in Nat /\ k - j <= k /\ k - (k - j) = j
  OBVIOUS
<1> QED BY <1>1, <1>2

LEMMA UnitFacts ==
    /\ Unit \in Nat \ {0} /\ Unit \div N = Divisions[MaxIters + 1] /\ N * (Unit \div N) = Unit
    /\ BaseScore \in Multiples(Divisions[MaxIters]) /\ BaseScore \in Nat
    /\ BaseScore = ((Unit \div N) \div 20) * 3 /\ 20 * BaseScore = 3 * (Unit \div N)
<1>1. PICK d \in Nat \ {0}, e \in Nat \ {0} :
          d = Divisions[MaxIters + 1] /\ e = Divisions[MaxIters] /\ d = 20 * DegreeMultiple * e
  <2>1. MaxIters \in Nat /\ MaxIters + 1 \in Nat
    BY Assumed
  <2> QED BY <2>1, DivisionsFacts
<1>2. PICK m \in Nat \ {0}, n \in Nat \ {0} : m = DegreeMultiple /\ n = N
  BY Assumed
<1>3. Unit = n * d /\ n * d \in Nat \ {0}
  BY <1>1, <1>2, Products DEF Unit
<1>4. Unit \div n = d
  BY <1>3, Exactly
<1>5. PICK q \in Nat \ {0} : q = m * e
  BY Products
<1>6. d = 20 * q /\ d \div 20 = q
  <2>1. d = 20 * q
    BY <1>1, <1>2, <1>5, Associative
  <2> QED BY <2>1, Exactly
<1>7. Unit = (20 * n) * q
  <2>1. n * (20 * q) = (n * 20) * q
    BY Associative
  <2>2. n * 20 = 20 * n
    OBVIOUS
  <2> QED BY <1>3, <1>6, <2>1, <2>2
<1>8. Unit \div (20 * n) = q
  <2>1. 20 * n \in Nat \ {0}
    OBVIOUS
  <2> QED BY <1>7, <2>1, Exactly
<1>9. BaseScore = q * 3 /\ BaseScore = 3 * q
  BY <1>2, <1>8 DEF BaseScore
<1>10. q \in Multiples(e)
  <2>1. q = e * m
    BY <1>5, Associative
  <2> QED BY <2>1 DEF Multiples
<1>11. BaseScore \in Multiples(e)
  BY <1>9, <1>10, MultiplesFacts
<1>12. Unit \div N = d /\ N * (Unit \div N) = Unit /\ Unit \in Nat \ {0}
  BY <1>2, <1>3, <1>4
<1>13. BaseScore \in Nat /\ BaseScore = (d \div 20) * 3 /\ 20 * BaseScore = 3 * d
  BY <1>6, <1>9
<1> QED BY <1>1, <1>11, <1>12, <1>13

LEMMA ShareNumbers ==
    ASSUME NEW g, IsGraph(g), NEW x \in [Nodes -> Nat], NEW u \in Nodes
    PROVE  Share(g, x)[u] \in Nat
<1>1. CASE g[u] = {}
  BY <1>1 DEF Share
<1>2. CASE g[u] # {}
  <2>1. PICK d \in Nat \ {0} : d = Cardinality(g[u])
    BY <1>2, DegreeFacts
  <2>2. x[u] \in Nat
    OBVIOUS
  <2>3. x[u] \div d \in Nat
    BY <2>2, DivBounds
  <2> QED BY <1>2, <2>1, <2>3 DEF Share
<1> QED BY <1>1, <1>2

LEMMA DampNumbers ==
    ASSUME NEW g, IsGraph(g), NEW x \in [Nodes -> Nat]
    PROVE  Damp(g, x) \in [Nodes -> Nat] /\ \A n \in Nodes : Arriving(g, x)[n] \in Nat
<1>1. ASSUME NEW n \in Nodes PROVE Arriving(g, x)[n] \in Nat /\ Damp(g, x)[n] \in Nat
  <2> DEFINE S == Senders(g, Nodes, n)
             fun == Share(g, x)
  <2>1. IsFiniteSet(S) /\ \A u \in S : u \in Nodes
    BY Assumed, FS_Subset DEF Senders
  <2>2. \A u \in S : fun[u] \in Nat
    BY <2>1, ShareNumbers
  <2> HIDE DEF S, fun
  <2>3. SumFunctionOnSet(fun, S) \in Nat
    BY <2>1, <2>2, SumCounts
  <2>4. PICK a \in Nat : a = Arriving(g, x)[n]
    BY <2>3 DEF Arriving, S, fun
  <2>5. a \div 20 \in Nat
    BY DivBounds
  <2> QED BY <2>4, <2>5 DEF Damp, Damped
<1> QED BY <1>1 DEF Damp

LEMMA ScoredFacts ==
    ASSUME NEW g, IsGraph(g)
    PROVE  /\ Scored(g)[0] = Start
           /\ \A k \in Nat : Scored(g)[k] \in [Nodes -> Nat] /\ Scored(g)[k + 1] = Iterated(g, Scored(g)[k])
<1> DEFINE X == [Nodes -> Nat]
           F == [x \in X |-> Iterated(g, x)]
<1>1. Start \in X
  <2>1. Unit \div N \in Nat
    BY UnitFacts, DivisionsFacts, Assumed
  <2> QED BY <2>1 DEF Start
<1>2. ASSUME NEW x \in X PROVE Iterated(g, x) \in X
  <2>1. Damp(g, x) \in [Nodes -> Nat]
    BY DampNumbers
  <2>2. \A n \in Nodes : Damp(g, x)[n] \in Nat
    BY <2>1
  <2>3. \A n \in Nodes : BaseScore + Damp(g, x)[n] \in Nat
    BY <2>2, UnitFacts
  <2> QED BY <2>3 DEF Iterated
<1>3. \E r : Iterates(r, X, Start, F)
  <2>1. \A x \in X : F[x] \in X
    BY <1>2
  <2> HIDE DEF X, F
  <2> QED BY <1>1, <2>1, Iteration
<1>4. Iterates(Scored(g), X, Start, F)
  BY <1>3 DEF Scored
<1>5. ASSUME NEW k \in Nat PROVE Scored(g)[k] \in X /\ Scored(g)[k + 1] = Iterated(g, Scored(g)[k])
  <2>1. Scored(g)[k] \in X /\ Scored(g)[k + 1] = F[Scored(g)[k]]
    <3> HIDE DEF X, F
    <3> QED BY <1>4 DEF Iterates
  <2> QED BY <2>1
<1> QED BY <1>4, <1>5 DEF Iterates

(* They are exact for as many more iterations as there can be, *)
LEMMA IteratedExact ==
    ASSUME NEW g, IsGraph(g), NEW k \in 0 .. MaxIters, NEW x \in Exact(k + 1)
    PROVE  Iterated(g, x) \in Exact(k)
<1>1. k \in Nat /\ MaxIters \in Nat /\ Divisions[k] \in Nat \ {0}
  BY Assumed, DivisionsFacts
<1>2. BaseScore \in Multiples(Divisions[k])
  BY <1>1, UnitFacts, DivisionsDown
<1>3. \A n \in Nodes : Damp(g, x)[n] \in Multiples(Divisions[k])
  BY <1>1, DampExact DEF Exact
<1>4. \A n \in Nodes : BaseScore + Damp(g, x)[n] \in Multiples(Divisions[k])
  BY <1>1, <1>2, <1>3, MultiplesFacts
<1> QED BY <1>4 DEF Iterated, Exact

LEMMA ScoredExact ==
    ASSUME NEW g, IsGraph(g), NEW k \in 0 .. MaxIters + 1
    PROVE  Scored(g)[k] \in Exact(MaxIters + 1 - k)
<1> DEFINE Out == {j \in Nat : j <= MaxIters + 1 /\ Scored(g)[j] \notin Exact(MaxIters + 1 - j)}
<1> SUFFICES ASSUME Out # {} PROVE FALSE
  BY Assumed
<1>1. PICK j \in Out : \A i \in Out : j <= i
  BY LeastNatural
<1>2. CASE j = 0
  <2>1. PICK d \in Nat \ {0} : d = Divisions[MaxIters + 1] /\ Unit \div N = d
    BY UnitFacts, DivisionsFacts, Assumed
  <2>2. d \in Multiples(d)
    <3>1. d = d * 1
      OBVIOUS
    <3> QED BY <3>1 DEF Multiples
  <2>3. MaxIters + 1 - 0 = MaxIters + 1
    BY Assumed
  <2>4. Scored(g)[0] \in Exact(MaxIters + 1)
    BY <2>1, <2>2, ScoredFacts DEF Start, Exact
  <2> QED BY <1>1, <1>2, <2>3, <2>4
<1>3. CASE j # 0
  <2>1. j - 1 \in Nat /\ j - 1 <= MaxIters + 1 /\ ~(j <= j - 1) /\ (j - 1) + 1 = j
        /\ MaxIters + 1 - j \in 0 .. MaxIters /\ MaxIters + 1 - (j - 1) = (MaxIters + 1 - j) + 1
    BY <1>1, <1>3, Assumed
  <2>2. Scored(g)[j - 1] \in Exact((MaxIters + 1 - j) + 1)
    BY <1>1, <2>1
  <2>3. Scored(g)[j] = Iterated(g, Scored(g)[j - 1])
    BY <2>1, ScoredFacts
  <2>4. Scored(g)[j] \in Exact(MaxIters + 1 - j)
    BY <2>1, <2>2, <2>3, IteratedExact
  <2> QED BY <1>1, <2>4
<1> QED BY <1>2, <1>3

(* never more than 1 together, *)
LEMMA GapFromNothing ==
    ASSUME NEW g, IsGraph(g), NEW k \in Nat, NEW x \in Exact(k + 1)
    PROVE  20 * SumFunctionOnSet(Damp(g, x), Nodes) <= 17 * SumFunctionOnSet(x, Nodes)
<1> DEFINE none == [n \in Nodes |-> 0]
           near == Gap(Damp(g, x), Damp(g, none))
           far == Gap(x, none)
<1>1. none \in Exact(k + 1)
  <2>1. Divisions[k + 1] \in Nat \ {0}
    BY DivisionsFacts
  <2> QED BY <2>1, MultiplesFacts DEF Exact
<1>2. Combined(none, 0, x, 0, x)
  <2>1. \A n \in Nodes : x[n] \in Nat
    BY DEF Exact, Multiples
  <2> QED BY <2>1 DEF Combined
<1> HIDE DEF none
<1>3. Combined(Damp(g, none), 0, Damp(g, x), 0, Damp(g, x))
  BY <1>1, <1>2, DampLinear
<1>4. ASSUME NEW n \in Nodes PROVE Damp(g, x)[n] \in Nat /\ near[n] = Damp(g, x)[n]
  <2>1. Damp(g, x)[n] \in Nat
    BY DampExact
  <2>2. Damp(g, none)[n] = 0
    BY <1>3, <2>1 DEF Combined
  <2> QED BY <2>1, <2>2 DEF Gap, Abs
<1>5. ASSUME NEW n \in Nodes PROVE x[n] \in Nat /\ far[n] = x[n]
  <2>1. x[n] \in Nat
    BY DEF Exact, Multiples
  <2> QED BY <2>1 DEF Gap, Abs, none
<1>6. near = Damp(g, x)
  BY <1>4 DEF Gap, Damp
<1>7. far = x
  <2>1. x = [n \in Nodes |-> x[n]]
    BY DEF Exact
  <2> QED BY <1>5, <2>1 DEF Gap
<1>8. 20 * SumFunctionOnSet(near, Nodes) <= 17 * SumFunctionOnSet(far, Nodes)
  BY <1>1, Contraction
<1> QED BY <1>6, <1>7, <1>8

LEMMA ScoredTotal ==
    ASSUME NEW g, IsGraph(g), NEW k \in 0 .. MaxIters + 1
    PROVE  SumFunctionOnSet(Scored(g)[k], Nodes) \in Nat /\ SumFunctionOnSet(Scored(g)[k], Nodes) <= Unit
<1> DEFINE Sum(j) == SumFunctionOnSet(Scored(g)[j], Nodes)
           Out == {j \in Nat : j <= MaxIters + 1 /\ ~(Sum(j) <= Unit)}
<1>1. ASSUME NEW j \in Nat PROVE Sum(j) \in Nat
  <2> DEFINE x == Scored(g)[j]
  <2>1. \A n \in Nodes : x[n] \in Nat
    BY ScoredFacts
  <2> HIDE DEF x
  <2>2. SumFunctionOnSet(x, Nodes) \in Nat
    BY <2>1, Assumed, SumCounts
  <2> QED BY <2>2 DEF x
<1>2. ASSUME NEW c \in Nat, NEW x, \A n \in Nodes : x[n] = c PROVE SumFunctionOnSet(x, Nodes) = N * c
  <2>1. \A n \in Nodes : x[n] = IF n \in Nodes THEN c ELSE 0
    BY <1>2
  <2>2. Nodes \in SUBSET Nodes /\ c \in Int
    OBVIOUS
  <2>3. SumFunctionOnSet(x, Nodes) = Cardinality(Nodes) * c
    BY <2>1, <2>2, Assumed, SumCounted
  <2> QED BY <2>3, Assumed
<1>3. Unit \in Nat /\ Unit \div N \in Nat /\ N * (Unit \div N) = Unit /\ BaseScore \in Nat /\ N \in Nat
      /\ 20 * BaseScore = 3 * (Unit \div N) /\ MaxIters \in Nat
  BY UnitFacts, DivisionsFacts, Assumed
<1> HIDE DEF Sum
<1>4. Out = {}
  <2> SUFFICES ASSUME Out # {} PROVE FALSE
    OBVIOUS
  <2>1. PICK j \in Out : \A i \in Out : j <= i
    BY LeastNatural
  <2>2. CASE j = 0
    <3>1. \A n \in Nodes : Start[n] = Unit \div N
      BY DEF Start
    <3>2. SumFunctionOnSet(Start, Nodes) = N * (Unit \div N)
      BY <1>2, <1>3, <3>1
    <3>3. Sum(0) = Unit
      BY <1>3, <3>2, ScoredFacts DEF Sum
    <3> QED BY <1>3, <2>1, <2>2, <3>3
  <2>3. CASE j # 0
    <3>1. PICK i \in 0 .. MaxIters : j = i + 1 /\ i \in Nat
      BY <1>3, <2>1, <2>3
    <3> DEFINE x == Scored(g)[i]
               y == Damp(g, x)
               b == [n \in Nodes |-> BaseScore]
               z == Scored(g)[j]
    <3>2. Sum(i) <= Unit
      BY <1>3, <2>1, <3>1
    <3>3. x \in Exact((MaxIters - i) + 1) /\ MaxIters - i \in Nat
      <4>1. MaxIters + 1 - i = (MaxIters - i) + 1 /\ MaxIters - i \in Nat /\ i \in 0 .. MaxIters + 1
        BY <1>3
      <4>2. x \in Exact(MaxIters + 1 - i)
        BY <4>1, ScoredExact
      <4> QED BY <4>1, <4>2
    <3>4. z = Iterated(g, x)
      BY <3>1, ScoredFacts
    <3> HIDE DEF x
    <3>5. \A n \in Nodes : y[n] \in Int
      BY <3>3, DampExact
    <3>6. \A n \in Nodes : b[n] = BaseScore /\ b[n] \in Int
      BY <1>3
    <3>7. \A n \in Nodes : z[n] = BaseScore + y[n]
      BY <3>4 DEF Iterated
    <3>8. 20 * SumFunctionOnSet(y, Nodes) <= 17 * SumFunctionOnSet(x, Nodes)
      BY <3>3, GapFromNothing
    <3> HIDE DEF y, b, z
    <3>9. \A n \in Nodes : b[n] \in Int /\ y[n] \in Int /\ z[n] = 1 * b[n] + 1 * y[n]
      BY <3>5, <3>6, <3>7
    <3>10. SumFunctionOnSet(z, Nodes) = 1 * SumFunctionOnSet(b, Nodes) + 1 * SumFunctionOnSet(y, Nodes)
      BY <3>9, Assumed, SumLinear
    <3>11. SumFunctionOnSet(b, Nodes) = N * BaseScore
      BY <1>2, <1>3, <3>6
    <3>12. SumFunctionOnSet(y, Nodes) \in Int
      BY <3>5, Assumed, SumType
    <3>13. 20 * (N * BaseScore) = 3 * Unit /\ N * BaseScore \in Nat
      <4>1. PICK u \in Nat : u = Unit \div N
        BY <1>3
      <4>2. 20 * (N * BaseScore) = (20 * N) * BaseScore /\ N * (20 * BaseScore) = (N * 20) * BaseScore
            /\ N * (3 * u) = (N * 3) * u /\ 3 * (N * u) = (3 * N) * u
        BY <1>3, Associative
      <4>3. N * 20 = 20 * N /\ N * 3 = 3 * N
        BY <1>3
      <4> QED BY <1>3, <4>1, <4>2, <4>3, Products
    <3>14. Sum(j) = SumFunctionOnSet(z, Nodes) /\ Sum(i) = SumFunctionOnSet(x, Nodes) /\ Sum(i) \in Nat
      BY <1>1, <3>1 DEF Sum, x, z
    <3>15. Sum(j) <= Unit
      BY <1>3, <3>2, <3>8, <3>10, <3>11, <3>12, <3>13, <3>14
    <3> QED BY <2>1, <3>15
  <2> QED BY <2>2, <2>3
<1>5. k \in Nat /\ k <= MaxIters + 1
  BY <1>3
<1> QED BY <1>1, <1>4, <1>5 DEF Sum

(* and each change smaller than the one before.                             *)
Change(g, k) == Gap(Scored(g)[k + 1], Scored(g)[k])

LEMMA ChangeShrinks ==
    ASSUME NEW g, IsGraph(g), NEW k \in Nat, k + 1 <= MaxIters
    PROVE  /\ SumFunctionOnSet(Change(g, k), Nodes) \in Nat
           /\ SumFunctionOnSet(Change(g, k + 1), Nodes) \in Nat
           /\ SumFunctionOnSet(Change(g, k + 1), Nodes) <= SumFunctionOnSet(Change(g, k), Nodes)
<1> DEFINE x == Scored(g)[k + 1]
           y == Scored(g)[k]
           j == MaxIters - (k + 1)
           near == Change(g, k + 1)
           far == Change(g, k)
<1>1. j \in Nat /\ MaxIters + 1 - (k + 1) = j + 1 /\ MaxIters + 1 - k = (j + 1) + 1
      /\ k + 1 \in 0 .. MaxIters + 1 /\ k \in 0 .. MaxIters + 1 /\ k + 1 \in Nat /\ k \in Nat
  BY Assumed
<1>2. x \in Exact(j + 1)
  <2>1. x \in Exact(MaxIters + 1 - (k + 1))
    BY <1>1, ScoredExact
  <2> QED BY <1>1, <2>1
<1>3. y \in Exact(j + 1)
  <2>1. y \in Exact((j + 1) + 1)
    <3>1. y \in Exact(MaxIters + 1 - k)
      BY <1>1, ScoredExact
    <3> QED BY <1>1, <3>1
  <2> HIDE DEF y, j
  <2>2. (j + 1) + 1 \in Nat /\ j + 1 \in 0 .. (j + 1) + 1
    BY <1>1
  <2>3. \A n \in Nodes : y[n] \in Multiples(Divisions[j + 1])
    BY <2>1, <2>2, DivisionsDown DEF Exact
  <2>4. y = [n \in Nodes |-> y[n]]
    BY <2>1 DEF Exact
  <2> QED BY <2>3, <2>4 DEF Exact
<1>4. Scored(g)[(k + 1) + 1] = Iterated(g, x) /\ x = Iterated(g, y)
  BY <1>1, ScoredFacts
<1>5. near = Gap(Damp(g, x), Damp(g, y))
  <2>1. ASSUME NEW n \in Nodes
        PROVE  Iterated(g, x)[n] - Iterated(g, y)[n] = Damp(g, x)[n] - Damp(g, y)[n]
    <3>1. Damp(g, x)[n] \in Nat /\ Damp(g, y)[n] \in Nat
      <4> HIDE DEF x, y, j
      <4> QED BY <1>1, <1>2, <1>3, DampExact
    <3>2. Iterated(g, x)[n] = BaseScore + Damp(g, x)[n] /\ Iterated(g, y)[n] = BaseScore + Damp(g, y)[n]
      BY DEF Iterated
    <3> QED BY <3>1, <3>2, UnitFacts
  <2>2. near = Gap(Iterated(g, x), Iterated(g, y))
    BY <1>4 DEF Change
  <2> QED BY <2>1, <2>2 DEF Gap
<1>6. far = Gap(x, y)
  BY DEF Change
<1> HIDE DEF x, y, j
<1>7. ASSUME NEW n \in Nodes PROVE far[n] \in Nat /\ near[n] \in Nat
  <2>1. x[n] \in Nat /\ y[n] \in Nat
    BY <1>2, <1>3 DEF Exact, Multiples
  <2>2. Damp(g, x)[n] \in Nat /\ Damp(g, y)[n] \in Nat
    BY <1>1, <1>2, <1>3, DampExact
  <2>3. x[n] - y[n] \in Int /\ Damp(g, x)[n] - Damp(g, y)[n] \in Int
    BY <2>1, <2>2
  <2> QED BY <1>5, <1>6, <2>3, AbsFacts DEF Gap
<1>8. 20 * SumFunctionOnSet(near, Nodes) <= 17 * SumFunctionOnSet(far, Nodes)
  BY <1>1, <1>2, <1>3, <1>5, <1>6, Contraction
<1> HIDE DEF near, far
<1>9. SumFunctionOnSet(near, Nodes) \in Nat /\ SumFunctionOnSet(far, Nodes) \in Nat
  <2>1. (\A n \in Nodes : near[n] \in Nat) /\ \A n \in Nodes : far[n] \in Nat
    BY <1>7
  <2> QED BY <2>1, Assumed, SumCounts
<1>10. SumFunctionOnSet(near, Nodes) <= SumFunctionOnSet(far, Nodes)
  BY <1>8, <1>9
<1> QED BY <1>9, <1>10 DEF near, far
-----------------------------------------------------------------------------
(* The surfers: those who are still on their way follow the edges, and the  *)
(* base of the scores are those who have stopped.                           *)
LEMMA ArrivingSurfers ==
    ASSUME IsGraph(neigh), NEW x \in [Nodes -> Nat], NEW n \in Nodes
    PROVE  SumFunctionOnSet([u \in InNeigh(n) |-> x[u] \div OutDegree(u)], InNeigh(n)) = Arriving(neigh, x)[n]
<1> DEFINE S == InNeigh(n)
           fun == [u \in S |-> x[u] \div OutDegree(u)]
           gun == Share(neigh, x)
<1>1. IsFiniteSet(S) /\ S = Senders(neigh, Nodes, n) /\ \A u \in S : u \in Nodes /\ neigh[u] # {}
  BY Assumed, FS_Subset DEF Senders, InNeigh
<1>2. \A u \in S : gun[u] \in Int
  <2>1. \A u \in S : gun[u] \in Nat
    BY <1>1, ShareNumbers
  <2> QED BY <2>1
<1>3. \A u \in S : fun[u] = gun[u]
  BY <1>1 DEF Share, OutDegree
<1>4. Arriving(neigh, x)[n] = SumFunctionOnSet(gun, S)
  BY <1>1 DEF Arriving
<1> HIDE DEF S, fun, gun
<1>5. SumFunctionOnSet(fun, S) = SumFunctionOnSet(gun, S)
  BY <1>1, <1>2, <1>3, SumSame
<1> QED BY <1>4, <1>5 DEF S, fun

Walked(g, p) ==
    [on |-> Damp(g, p.on), stopped |-> [n \in Nodes |-> p.stopped[n] + (p.on[n] \div 20) * 3]]

LEMMA SurfersFacts ==
    ASSUME IsGraph(neigh)
    PROVE  /\ Surfers[0] = [on |-> Start, stopped |-> [n \in Nodes |-> 0]]
           /\ \A k \in Nat : /\ Surfers[k] \in [on : [Nodes -> Nat], stopped : [Nodes -> Nat]]
                             /\ Surfers[k + 1] = Walked(neigh, Surfers[k])
<1> DEFINE X == [on : [Nodes -> Nat], stopped : [Nodes -> Nat]]
           a == [on |-> Start, stopped |-> [n \in Nodes |-> 0]]
           F == [p \in X |-> Walked(neigh, p)]
           arriving(p, n) == SumFunctionOnSet([u \in InNeigh(n) |-> p.on[u] \div OutDegree(u)], InNeigh(n))
           Code(p) == [on |-> [n \in Nodes |-> Damped(arriving(p, n))],
                       stopped |-> [n \in Nodes |-> p.stopped[n] + (p.on[n] \div 20) * 3]]
           Def(w) == [k \in Nat |-> IF k = 0 THEN a ELSE Code(w[k - 1])]
<1>1. a \in X
  <2>1. Unit \div N \in Nat
    BY UnitFacts, DivisionsFacts, Assumed
  <2> QED BY <2>1 DEF Start
<1>2. ASSUME NEW p \in X PROVE Code(p) = F[p] /\ F[p] \in X
  <2> DEFINE x == p.on
             y == p.stopped
  <2>1. x \in [Nodes -> Nat] /\ y \in [Nodes -> Nat]
    OBVIOUS
  <2>2. \A n \in Nodes : arriving(p, n) = Arriving(neigh, x)[n]
    <3> HIDE DEF x
    <3>1. \A n \in Nodes :
              SumFunctionOnSet([u \in InNeigh(n) |-> x[u] \div OutDegree(u)], InNeigh(n)) = Arriving(neigh, x)[n]
      BY <2>1, ArrivingSurfers
    <3> QED BY <3>1 DEF x
  <2>3. Damp(neigh, x) \in [Nodes -> Nat]
    <3> HIDE DEF x
    <3> QED BY <2>1, DampNumbers
  <2>4. [n \in Nodes |-> Damped(arriving(p, n))] = Damp(neigh, x)
    <3> HIDE DEF arriving, x
    <3> QED BY <2>2 DEF Damp
  <2>5. [n \in Nodes |-> y[n] + (x[n] \div 20) * 3] \in [Nodes -> Nat]
    <3>1. ASSUME NEW n \in Nodes PROVE y[n] + (x[n] \div 20) * 3 \in Nat
      <4>1. x[n] \in Nat /\ y[n] \in Nat
        BY <2>1
      <4>2. x[n] \div 20 \in Nat
        BY <4>1, DivBounds
      <4> QED BY <4>1, <4>2
    <3> QED BY <3>1
  <2>6. F[p] = [on |-> Damp(neigh, x), stopped |-> [n \in Nodes |-> y[n] + (x[n] \div 20) * 3]]
    BY DEF Walked
  <2> HIDE DEF F, arriving
  <2>7. Code(p) = F[p]
    BY <2>4, <2>6
  <2>8. F[p] \in X
    BY <2>3, <2>5, <2>6
  <2> QED BY <2>7, <2>8
<1>3. PICK g : Iterates(g, X, a, F)
  <2>1. \A p \in X : F[p] \in X
    BY <1>2
  <2> HIDE DEF X, F, a
  <2> QED BY <1>1, <2>1, Iteration
<1> HIDE DEF F, Code, a
<1>4. g = Def(g)
  <2>1. ASSUME NEW k \in Nat PROVE g[k] = IF k = 0 THEN a ELSE Code(g[k - 1])
    <3>1. CASE k = 0
      BY <1>3, <3>1 DEF Iterates
    <3>2. CASE k # 0
      <4>1. k - 1 \in Nat /\ (k - 1) + 1 = k
        BY <3>2
      <4> HIDE DEF X
      <4>2. g[(k - 1) + 1] = F[g[k - 1]] /\ g[k - 1] \in X
        BY <1>3, <4>1 DEF Iterates
      <4> QED BY <1>2, <3>2, <4>1, <4>2
    <3> QED BY <3>1, <3>2
  <2> HIDE DEF X
  <2> QED BY <1>3, <2>1 DEF Iterates
<1>5. Surfers = Def(Surfers)
  <2>1. Surfers = CHOOSE w : w = Def(w)
    BY DEF Surfers, Code, a, Start
  <2> HIDE DEF Def
  <2> QED BY <1>4, <2>1
<1>6. /\ Surfers = [k \in Nat |-> Surfers[k]] /\ Surfers[0] = a
      /\ \A k \in Nat : Surfers[k + 1] = Code(Surfers[k])
  <2> DEFINE h == Surfers
  <2>1. h = Def(h)
    BY <1>5
  <2> HIDE DEF h
  <2>2. h = [k \in Nat |-> h[k]] /\ h[0] = a
    BY <2>1
  <2>3. ASSUME NEW k \in Nat PROVE h[k + 1] = Code(h[k])
    <3>1. k + 1 \in Nat /\ k + 1 # 0 /\ (k + 1) - 1 = k
      OBVIOUS
    <3> QED BY <2>1, <3>1
  <2> QED BY <2>2, <2>3 DEF h
<1>7. Iterates(Surfers, X, a, F)
  <2> DEFINE h == Surfers
  <2> HIDE DEF X
  <2>1. \A k \in Nat : h[k] \in X => h[k + 1] = F[h[k]]
    BY <1>2, <1>6
  <2>2. h = [k \in Nat |-> h[k]] /\ h[0] = a
    BY <1>6
  <2>3. \A p \in X : F[p] \in X
    BY <1>2
  <2> HIDE DEF h
  <2>4. Iterates(h, X, a, F)
    BY <1>1, <2>1, <2>2, <2>3, Unrolled
  <2> QED BY <2>4 DEF h
<1>8. ASSUME NEW k \in Nat PROVE Surfers[k] \in X /\ Surfers[k + 1] = Walked(neigh, Surfers[k])
  <2> HIDE DEF X
  <2>1. Surfers[k] \in X /\ Surfers[k + 1] = F[Surfers[k]]
    BY <1>7 DEF Iterates
  <2> QED BY <2>1 DEF F
<1> QED BY <1>6, <1>8 DEF a

LEMMA ExactDown ==
    ASSUME NEW k \in Nat, NEW x \in Exact(k), NEW j \in 0 .. k
    PROVE  x \in Exact(j)
<1>1. \A n \in Nodes : x[n] \in Multiples(Divisions[j])
  BY DivisionsDown DEF Exact
<1>2. x = [n \in Nodes |-> x[n]]
  BY DEF Exact
<1> QED BY <1>1, <1>2 DEF Exact

Twentieth(x) == [n \in Nodes |-> x[n] \div 20]

LEMMA TwentiethExact ==
    ASSUME NEW k \in Nat, NEW x \in Exact(k + 1)
    PROVE  Twentieth(x) \in Exact(k) /\ \A n \in Nodes : Twentieth(x)[n] \in Nat /\ 20 * Twentieth(x)[n] = x[n]
<1>1. PICK d \in Nat \ {0}, m \in Nat \ {0}, e \in Nat \ {0} :
          d = Divisions[k] /\ m = DegreeMultiple /\ e = m * d /\ 20 * e = Divisions[k + 1]
  <2>1. PICK d \in Nat \ {0}, m \in Nat \ {0} : d = Divisions[k] /\ m = DegreeMultiple
    BY DivisionsFacts, Assumed
  <2>2. m * d \in Nat \ {0} /\ 20 * (m * d) = (20 * m) * d
    BY Products, Associative
  <2> QED BY <2>1, <2>2, DivisionsFacts
<1>2. ASSUME NEW n \in Nodes
      PROVE  x[n] \div 20 \in Multiples(d) /\ x[n] \div 20 \in Nat /\ 20 * (x[n] \div 20) = x[n]
  <2>1. PICK a : a = x[n] /\ a \in Multiples(20 * e)
    BY <1>1 DEF Exact
  <2>2. a \div 20 \in Multiples(e) /\ 20 * (a \div 20) = a
    BY <1>1, <2>1, Coarser
  <2>3. a \div 20 \in Multiples(d)
    BY <1>1, <2>2, Coarser
  <2> QED BY <2>1, <2>2, <2>3 DEF Multiples
<1> QED BY <1>1, <1>2 DEF Exact, Twentieth

Stopping(w, y, x) == \A n \in Nodes : w[n] = y[n] + (x[n] \div 20) * 3

LEMMA StoppedStep ==
    ASSUME NEW g, IsGraph(g), NEW j \in Nat, NEW x \in Exact((j + 1) + 1), NEW y \in Exact(j + 1),
           NEW w \in Exact(j + 1), Stopping(w, y, x)
    PROVE  Stopping(Damp(g, w), Damp(g, y), Damp(g, x))
<1> DEFINE z == Twentieth(x)
<1>1. z \in Exact(j + 1) /\ \A n \in Nodes : z[n] \in Nat /\ 20 * z[n] = x[n]
  <2>1. j + 1 \in Nat
    OBVIOUS
  <2> QED BY <2>1, TwentiethExact
<1>2. x \in Exact(j + 1)
  <2>1. (j + 1) + 1 \in Nat /\ j + 1 \in 0 .. (j + 1) + 1
    OBVIOUS
  <2> QED BY <2>1, ExactDown
<1>3. \A n \in Nodes : y[n] \in Nat /\ w[n] = y[n] + z[n] * 3
  BY DEF Exact, Multiples, Twentieth, Stopping
<1> HIDE DEF z
<1>4. Combined(w, 1, y, 3, z)
  BY <1>1, <1>3 DEF Combined
<1>5. Combined(x, 20, z, 0, z)
  BY <1>1 DEF Combined
<1>6. Combined(Damp(g, w), 1, Damp(g, y), 3, Damp(g, z))
  BY <1>1, <1>4, DampLinear
<1>7. Combined(Damp(g, x), 20, Damp(g, z), 0, Damp(g, z))
  BY <1>1, <1>2, <1>5, DampLinear
<1>8. ASSUME NEW n \in Nodes PROVE Damp(g, w)[n] = Damp(g, y)[n] + (Damp(g, x)[n] \div 20) * 3
  <2>1. PICK q \in Nat, p \in Nat : q = Damp(g, z)[n] /\ p = Damp(g, y)[n]
    BY <1>1, DampExact
  <2>2. Damp(g, w)[n] = p + 3 * q /\ Damp(g, x)[n] = 20 * q
    BY <1>6, <1>7, <2>1 DEF Combined
  <2>3. Damp(g, x)[n] \div 20 = q
    BY <2>2, Exactly
  <2> QED BY <2>1, <2>2, <2>3
<1> QED BY <1>8 DEF Stopping

LEMMA RanksAreScores ==
    ASSUME IsGraph(neigh), NEW k \in 0 .. MaxIters + 1, NEW n \in Nodes
    PROVE  Rank(n, k) = Scored(neigh)[k][n]
<1> DEFINE on(i) == Surfers[i].on
           stopped(i) == Surfers[i].stopped
           x(i) == Scored(neigh)[i]
           Good(i) == /\ on(i) \in Exact(MaxIters + 1 - i) /\ stopped(i) \in Exact(MaxIters + 1 - i)
                      /\ \A v \in Nodes : x(i)[v] = on(i)[v] + stopped(i)[v]
                      /\ \A v \in Nodes : i <= MaxIters => stopped(i + 1)[v] = BaseScore + Damp(neigh, stopped(i))[v]
           Out == {i \in Nat : i <= MaxIters + 1 /\ ~Good(i)}
<1>1. MaxIters \in Nat /\ BaseScore \in Nat
  BY Assumed, UnitFacts
<1>2. ASSUME NEW i \in Nat
      PROVE  /\ on(i) \in [Nodes -> Nat] /\ stopped(i) \in [Nodes -> Nat] /\ on(i + 1) = Damp(neigh, on(i))
             /\ stopped(i + 1) = [v \in Nodes |-> stopped(i)[v] + (on(i)[v] \div 20) * 3]
             /\ x(i) \in [Nodes -> Nat] /\ x(i + 1) = Iterated(neigh, x(i))
  <2>1. /\ Surfers[i] \in [on : [Nodes -> Nat], stopped : [Nodes -> Nat]]
        /\ Surfers[i + 1] = Walked(neigh, Surfers[i])
    BY SurfersFacts
  <2>2. x(i) \in [Nodes -> Nat] /\ x(i + 1) = Iterated(neigh, x(i))
    BY ScoredFacts
  <2> QED BY <2>1, <2>2 DEF Walked
<1>3. on(0) = Start /\ stopped(0) = [v \in Nodes |-> 0] /\ x(0) = Start
  BY SurfersFacts, ScoredFacts
<1> HIDE DEF on, stopped, x
<1>4. Good(0)
  <2> DEFINE none == [v \in Nodes |-> 0]
  <2>1. MaxIters + 1 - 0 = MaxIters + 1 /\ MaxIters + 1 \in Nat /\ MaxIters + 1 - 0 \in Nat
    BY <1>1
  <2>2. Start \in Exact(MaxIters + 1)
    <3>1. 0 \in 0 .. MaxIters + 1
      BY <1>1
    <3>2. Scored(neigh)[0] \in Exact(MaxIters + 1 - 0)
      BY <3>1, ScoredExact
    <3> QED BY <2>1, <3>2, ScoredFacts
  <2>3. none \in Exact(MaxIters + 1)
    BY <2>1, DivisionsFacts, MultiplesFacts DEF Exact
  <2>4. \A v \in Nodes : none[v] = 0
    OBVIOUS
  <2> HIDE DEF none
  <2>5. \A v \in Nodes : Start[v] \in Nat /\ Start[v] = Start[v] + none[v]
    BY <2>2, <2>4 DEF Exact, Multiples
  <2>6. \A v \in Nodes : Damp(neigh, none)[v] = 0
    <3>1. Combined(none, 0, Start, 0, Start)
      BY <2>4, <2>5 DEF Combined
    <3>2. Combined(Damp(neigh, none), 0, Damp(neigh, Start), 0, Damp(neigh, Start))
      BY <1>1, <2>2, <2>3, <3>1, DampLinear
    <3>3. \A v \in Nodes : Damp(neigh, Start)[v] \in Nat
      BY <1>1, <2>2, DampExact
    <3> QED BY <3>2, <3>3 DEF Combined
  <2>7. \A v \in Nodes : stopped(1)[v] = BaseScore
    <3>1. stopped(0 + 1) = [v \in Nodes |-> stopped(0)[v] + (on(0)[v] \div 20) * 3]
      BY <1>2
    <3>2. \A v \in Nodes : Start[v] = Unit \div N
      BY DEF Start
    <3>3. BaseScore = ((Unit \div N) \div 20) * 3
      BY UnitFacts
    <3>4. \A v \in Nodes : stopped(0 + 1)[v] = 0 + ((Unit \div N) \div 20) * 3
      BY <1>3, <2>4, <3>1, <3>2
    <3> QED BY <1>1, <3>3, <3>4
  <2>8. \A v \in Nodes : stopped(0 + 1)[v] = BaseScore + Damp(neigh, none)[v]
    BY <1>1, <2>6, <2>7
  <2>9. stopped(0) = none
    BY <1>3 DEF none
  <2> QED BY <1>3, <2>1, <2>2, <2>3, <2>5, <2>8, <2>9
<1>5. ASSUME NEW i \in Nat, i <= MaxIters, Good(i) PROVE Good(i + 1)
  <2>1. PICK j \in Nat : j = MaxIters - i /\ j \in 0 .. MaxIters /\ MaxIters + 1 - i = j + 1 /\ MaxIters + 1 - (i + 1) = j
    BY <1>1, <1>5
  <2>2. on(i) \in Exact(j + 1) /\ stopped(i) \in Exact(j + 1)
    BY <1>5, <2>1
  <2>3. on(i + 1) \in Exact(j)
    <3>1. Damp(neigh, on(i)) \in Exact(j)
      BY <2>2, DampExact
    <3> QED BY <1>2, <3>1
  <2>4. stopped(i + 1) = Iterated(neigh, stopped(i))
    <3>1. stopped(i + 1) = [v \in Nodes |-> stopped(i + 1)[v]]
      <4>1. i + 1 \in Nat
        OBVIOUS
      <4>2. stopped(i + 1) \in [Nodes -> Nat]
        BY <1>2, <4>1
      <4> QED BY <4>2
    <3>2. \A v \in Nodes : stopped(i + 1)[v] = BaseScore + Damp(neigh, stopped(i))[v]
      BY <1>5
    <3> QED BY <3>1, <3>2 DEF Iterated
  <2>5. stopped(i + 1) \in Exact(j)
    BY <2>1, <2>2, <2>4, IteratedExact
  <2>6. ASSUME NEW v \in Nodes PROVE x(i + 1)[v] = on(i + 1)[v] + stopped(i + 1)[v]
    <3>1. x(i) \in Exact(j + 1)
      <4>1. i \in 0 .. MaxIters + 1
        BY <1>1, <1>5
      <4>2. x(i) \in Exact(MaxIters + 1 - i)
        BY <4>1, ScoredExact DEF x
      <4> QED BY <2>1, <4>2
    <3>2. Combined(x(i), 1, on(i), 1, stopped(i))
      <4>1. \A u \in Nodes : on(i)[u] \in Nat /\ stopped(i)[u] \in Nat
        BY <1>2
      <4> QED BY <1>5, <4>1 DEF Combined
    <3>3. Combined(Damp(neigh, x(i)), 1, Damp(neigh, on(i)), 1, Damp(neigh, stopped(i)))
      BY <2>2, <3>1, <3>2, DampLinear
    <3>4. Damp(neigh, on(i))[v] \in Nat /\ Damp(neigh, stopped(i))[v] \in Nat
      <4>1. Damp(neigh, on(i))[v] \in Nat
        BY <2>2, DampExact
      <4>2. Damp(neigh, stopped(i))[v] \in Nat
        BY <2>2, DampExact
      <4> QED BY <4>1, <4>2
    <3>5. x(i + 1)[v] = BaseScore + Damp(neigh, x(i))[v]
      BY <1>2 DEF Iterated
    <3>6. on(i + 1)[v] = Damp(neigh, on(i))[v] /\ stopped(i + 1)[v] = BaseScore + Damp(neigh, stopped(i))[v]
      BY <1>2, <1>5
    <3>7. Damp(neigh, x(i))[v] = 1 * Damp(neigh, on(i))[v] + 1 * Damp(neigh, stopped(i))[v]
      BY <3>3 DEF Combined
    <3> QED BY <1>1, <3>4, <3>5, <3>6, <3>7
  <2>7. ASSUME NEW v \in Nodes, i + 1 <= MaxIters
        PROVE  stopped((i + 1) + 1)[v] = BaseScore + Damp(neigh, stopped(i + 1))[v]
    <3>1. PICK l \in Nat : j = l + 1
      <4>1. j - 1 \in Nat /\ j = (j - 1) + 1
        BY <1>1, <2>1, <2>7
      <4> QED BY <4>1
    <3>2. on(i) \in Exact((l + 1) + 1) /\ stopped(i + 1) \in Exact(l + 1)
      BY <2>2, <2>5, <3>1
    <3>3. stopped(i) \in Exact(l + 1)
      <4>1. j + 1 \in Nat /\ l + 1 \in 0 .. j + 1
        BY <3>1
      <4> QED BY <2>2, <4>1, ExactDown
    <3>4. Stopping(stopped(i + 1), stopped(i), on(i))
      BY <1>2 DEF Stopping
    <3>5. Stopping(Damp(neigh, stopped(i + 1)), Damp(neigh, stopped(i)), Damp(neigh, on(i)))
      BY <3>2, <3>3, <3>4, StoppedStep
    <3>6. stopped((i + 1) + 1)[v] = stopped(i + 1)[v] + (on(i + 1)[v] \div 20) * 3
      <4>1. i + 1 \in Nat
        OBVIOUS
      <4>2. stopped((i + 1) + 1) = [u \in Nodes |-> stopped(i + 1)[u] + (on(i + 1)[u] \div 20) * 3]
        BY <1>2, <4>1
      <4> QED BY <4>2
    <3>7. stopped(i + 1)[v] = BaseScore + Damp(neigh, stopped(i))[v] /\ on(i + 1) = Damp(neigh, on(i))
      BY <1>2, <1>5
    <3>8. PICK p \in Nat, q \in Nat : p = Damp(neigh, stopped(i))[v] /\ q = Damp(neigh, on(i))[v] \div 20
      <4>1. Damp(neigh, stopped(i))[v] \in Nat
        BY <2>2, DampExact
      <4>2. Damp(neigh, on(i))[v] \in Nat
        BY <2>2, DampExact
      <4>3. Damp(neigh, on(i))[v] \div 20 \in Nat
        BY <4>2, DivBounds
      <4> QED BY <4>1, <4>3
    <3>9. /\ stopped((i + 1) + 1)[v] = (BaseScore + p) + q * 3
          /\ Damp(neigh, stopped(i + 1))[v] = p + q * 3
      BY <3>5, <3>6, <3>7, <3>8 DEF Stopping
    <3> QED BY <1>1, <3>9
  <2> QED BY <2>1, <2>3, <2>5, <2>6, <2>7
<1> HIDE DEF Good
<1>6. Out = {}
  <2> SUFFICES ASSUME Out # {} PROVE FALSE
    OBVIOUS
  <2>1. PICK i \in Out : \A h \in Out : i <= h
    BY LeastNatural
  <2>2. i # 0
    BY <1>4, <2>1
  <2>3. i - 1 \in Nat /\ i - 1 <= MaxIters /\ ~(i <= i - 1) /\ (i - 1) + 1 = i
    BY <1>1, <2>1, <2>2
  <2>4. Good(i - 1)
    BY <1>1, <2>1, <2>3
  <2>5. Good(i)
    BY <1>5, <2>3, <2>4
  <2> QED BY <2>1, <2>5
<1>7. k \in Nat /\ Good(k)
  BY <1>1, <1>6
<1>8. x(k)[n] = on(k)[n] + stopped(k)[n]
  BY <1>7 DEF Good
<1> QED BY <1>8 DEF Rank, x, on, stopped
-----------------------------------------------------------------------------
(* Bounds of a sum's terms and parts, and of the scores and their changes.  *)
LEMMA SumPart ==
    ASSUME NEW S, IsFiniteSet(S), NEW fun, \A s \in S : fun[s] \in Nat, NEW T \in SUBSET S
    PROVE  /\ SumFunctionOnSet(fun, T) \in Nat /\ SumFunctionOnSet(fun, S) \in Nat
           /\ SumFunctionOnSet(fun, T) <= SumFunctionOnSet(fun, S)
<1> DEFINE F(s) == SumFunctionOnSet(fun, s)
           Out == {s \in SUBSET S : T \subseteq s /\ ~(F(T) <= F(s))}
<1>1. ASSUME NEW s \in SUBSET S PROVE F(s) \in Nat
  <2>1. IsFiniteSet(s) /\ \A u \in s : fun[u] \in Nat
    BY FS_Subset
  <2>2. SumFunctionOnSet(fun, s) \in Nat
    BY <2>1, SumCounts
  <2> QED BY <2>2
<1>2. Adds(fun, S)
  <2>1. \A s \in S : fun[s] \in Int
    OBVIOUS
  <2> QED BY <2>1, SumElement
<1>3. \A s \in SUBSET S : \A y \in s : F(s) = fun[y] + F(s \ {y})
  BY <1>2 DEF Adds
<1> HIDE DEF F
<1>4. Out = {}
  <2> SUFFICES ASSUME Out # {} PROVE FALSE
    OBVIOUS
  <2>1. Out \in SUBSET SUBSET S
    OBVIOUS
  <2>2. PICK s \in Out : \A y \in s : s \ {y} \notin Out
    <3> HIDE DEF Out
    <3> QED BY <2>1, SmallestSubset
  <2>3. s # T /\ s \in SUBSET S /\ T \subseteq s
    BY <1>1, <2>2
  <2>4. PICK y \in s : y \notin T
    BY <2>3
  <2>5. s \ {y} \in SUBSET S /\ T \subseteq s \ {y} /\ y \in S
    BY <2>3, <2>4
  <2>6. F(T) <= F(s \ {y})
    BY <2>2, <2>4, <2>5
  <2>7. F(s) = fun[y] + F(s \ {y}) /\ fun[y] \in Nat /\ F(s) \in Nat /\ F(s \ {y}) \in Nat /\ F(T) \in Nat
    BY <1>1, <1>3, <2>3, <2>4, <2>5
  <2> QED BY <2>2, <2>6, <2>7
<1>5. F(T) \in Nat /\ F(S) \in Nat /\ F(T) <= F(S)
  BY <1>1, <1>4
<1> QED BY <1>5 DEF F

LEMMA SumTerm ==
    ASSUME NEW S, IsFiniteSet(S), NEW fun, \A s \in S : fun[s] \in Nat, NEW y \in S
    PROVE  fun[y] <= SumFunctionOnSet(fun, S)
<1>1. Adds(fun, S)
  <2>1. \A s \in S : fun[s] \in Int
    OBVIOUS
  <2> QED BY <2>1, SumElement
<1>2. PICK rest : rest = S \ {y} /\ rest \in SUBSET S /\ IsFiniteSet(rest)
  <2>1. S \ {y} \in SUBSET S /\ IsFiniteSet(S \ {y})
    BY FS_RemoveElement
  <2> QED BY <2>1
<1>3. SumFunctionOnSet(fun, S) = fun[y] + SumFunctionOnSet(fun, rest)
  BY <1>1, <1>2 DEF Adds
<1>4. SumFunctionOnSet(fun, rest) \in Nat
  BY <1>2, SumPart
<1> QED BY <1>3, <1>4

LEMMA ScoredBounds ==
    ASSUME NEW g, IsGraph(g), NEW k \in 0 .. MaxIters + 1, NEW n \in Nodes
    PROVE  Scored(g)[k][n] \in 0 .. Unit
<1> DEFINE x == Scored(g)[k]
<1>1. k \in Nat /\ Unit \in Nat
  BY UnitFacts, Assumed
<1>2. \A v \in Nodes : x[v] \in Nat
  BY <1>1, ScoredFacts
<1>3. SumFunctionOnSet(x, Nodes) <= Unit /\ SumFunctionOnSet(x, Nodes) \in Nat
  BY ScoredTotal
<1> HIDE DEF x
<1>4. x[n] <= SumFunctionOnSet(x, Nodes)
  BY <1>2, Assumed, SumTerm
<1>5. x[n] \in 0 .. Unit
  BY <1>1, <1>2, <1>3, <1>4
<1> QED BY <1>5 DEF x

LEMMA ShareBounds ==
    ASSUME NEW g, IsGraph(g), NEW k \in 0 .. MaxIters + 1, NEW n \in Nodes
    PROVE  Share(g, Scored(g)[k])[n] \in 0 .. Unit
<1> DEFINE x == Scored(g)[k]
<1>1. x \in [Nodes -> Nat] /\ x[n] \in 0 .. Unit /\ Unit \in Nat
  BY ScoredFacts, ScoredBounds, UnitFacts, Assumed
<1> HIDE DEF x
<1>2. CASE g[n] = {}
  <2>1. Share(g, x)[n] = 0
    BY <1>2 DEF Share
  <2> QED BY <1>1, <2>1 DEF x
<1>3. CASE g[n] # {}
  <2>1. PICK d \in Nat \ {0} : d = Cardinality(g[n])
    BY <1>3, DegreeFacts
  <2>2. PICK a \in Nat : a = x[n] /\ a <= Unit
    BY <1>1
  <2>3. a \div d \in 0 .. a
    BY DivBounds
  <2>4. Share(g, x)[n] = a \div d
    BY <1>3, <2>1, <2>2 DEF Share
  <2>5. Share(g, x)[n] \in 0 .. Unit
    BY <1>1, <2>2, <2>3, <2>4
  <2> QED BY <2>5 DEF x
<1> QED BY <1>2, <1>3

LEMMA ChangeBounds ==
    ASSUME NEW g, IsGraph(g), NEW k \in 0 .. MaxIters, NEW T \in SUBSET Nodes
    PROVE  /\ \A n \in Nodes : Change(g, k)[n] \in Nat
           /\ SumFunctionOnSet(Change(g, k), T) \in 0 .. 2 * Unit
<1> DEFINE x == Scored(g)[k]
           y == Scored(g)[k + 1]
           c == Change(g, k)
           both == [n \in Nodes |-> x[n] + y[n]]
<1>1. k \in Nat /\ k + 1 \in Nat /\ k \in 0 .. MaxIters + 1 /\ k + 1 \in 0 .. MaxIters + 1 /\ Unit \in Nat
  BY UnitFacts, Assumed
<1>2. x \in [Nodes -> Nat] /\ y \in [Nodes -> Nat]
  BY <1>1, ScoredFacts
<1>3. SumFunctionOnSet(x, Nodes) <= Unit /\ SumFunctionOnSet(x, Nodes) \in Nat
  BY <1>1, ScoredTotal
<1>4. SumFunctionOnSet(y, Nodes) <= Unit /\ SumFunctionOnSet(y, Nodes) \in Nat
  BY <1>1, ScoredTotal
<1>5. \A n \in Nodes : c[n] = Abs(y[n] - x[n])
  BY DEF Change, Gap
<1> HIDE DEF x, y, c
<1>6. \A n \in Nodes : /\ x[n] \in Int /\ y[n] \in Int /\ both[n] = 1 * x[n] + 1 * y[n] /\ both[n] \in Int
                       /\ c[n] \in Nat /\ c[n] \in Int /\ c[n] <= both[n]
  BY <1>2, <1>5 DEF Abs
<1> HIDE DEF both
<1>7. SumFunctionOnSet(both, Nodes) = 1 * SumFunctionOnSet(x, Nodes) + 1 * SumFunctionOnSet(y, Nodes)
  BY <1>6, Assumed, SumLinear
<1>8. SumFunctionOnSet(c, Nodes) <= SumFunctionOnSet(both, Nodes)
  BY <1>6, Assumed, SumMonotone
<1>9. \A n \in Nodes : c[n] \in Nat
  BY <1>6
<1>10. /\ SumFunctionOnSet(c, T) \in Nat /\ SumFunctionOnSet(c, Nodes) \in Nat
       /\ SumFunctionOnSet(c, T) <= SumFunctionOnSet(c, Nodes)
  BY <1>9, Assumed, SumPart
<1>11. SumFunctionOnSet(c, T) \in 0 .. 2 * Unit
  BY <1>1, <1>3, <1>4, <1>7, <1>8, <1>10
<1> QED BY <1>9, <1>11 DEF c

(* What the threads compute: the contributions of those with out-neighbours *)
(* are their shares, and the sum over a node's in-neighbours is finite.     *)
Handed(g, x, contrib, T) == \A n \in T : g[n] # {} => contrib[n] = Share(g, x)[n]

LEMMA Arrives ==
    ASSUME IsGraph(neigh), NEW x \in [Nodes -> Nat], NEW contrib, Handed(neigh, x, contrib, Nodes), NEW n \in Nodes
    PROVE  Total(contrib, InNeigh(n)) = Arriving(neigh, x)[n] /\ Arriving(neigh, x)[n] \in Nat
<1> DEFINE S == InNeigh(n)
           gun == Share(neigh, x)
<1>1. IsFiniteSet(S) /\ S = Senders(neigh, Nodes, n) /\ \A u \in S : u \in Nodes /\ neigh[u] # {}
  BY Assumed, FS_Subset DEF Senders, InNeigh
<1>2. \A u \in S : gun[u] \in Nat /\ gun[u] \in Int /\ contrib[u] = gun[u]
  <2>1. \A u \in S : gun[u] \in Nat
    BY <1>1, ShareNumbers
  <2>2. \A u \in S : contrib[u] = gun[u]
    BY <1>1 DEF Handed
  <2> QED BY <2>1, <2>2
<1>3. Arriving(neigh, x)[n] = SumFunctionOnSet(gun, S)
  BY <1>1 DEF Arriving
<1>4. Arriving(neigh, x)[n] \in Nat
  BY DampNumbers
<1> HIDE DEF S, gun
<1>5. SumFunctionOnSet(contrib, S) = SumFunctionOnSet(gun, S)
  BY <1>1, <1>2, SumSame
<1>6. ~ \E u \in S : contrib[u] = Infinite
  BY <1>2 DEF Infinite
<1>7. Total(contrib, S) = SumFunctionOnSet(contrib, S)
  BY <1>6 DEF Total
<1> QED BY <1>3, <1>4, <1>5, <1>7 DEF S

LEMMA PulledScore ==
    ASSUME IsGraph(neigh), NEW k \in Nat, NEW contrib, Handed(neigh, Scored(neigh)[k], contrib, Nodes), NEW n \in Nodes
    PROVE  /\ Score(Total(contrib, InNeigh(n))) = Scored(neigh)[k + 1][n]
           /\ BaseScore + Damped(Total(contrib, InNeigh(n))) = Scored(neigh)[k + 1][n]
<1> DEFINE x == Scored(neigh)[k]
           t == Total(contrib, InNeigh(n))
<1>1. x \in [Nodes -> Nat] /\ Scored(neigh)[k + 1] = Iterated(neigh, x)
  BY ScoredFacts
<1>2. Handed(neigh, x, contrib, Nodes)
  OBVIOUS
<1> HIDE DEF x
<1>3. t = Arriving(neigh, x)[n] /\ Arriving(neigh, x)[n] \in Nat
  BY <1>1, <1>2, Arrives
<1>4. Scored(neigh)[k + 1][n] = BaseScore + Damped(t)
  BY <1>1, <1>3 DEF Iterated, Damp
<1>5. t \in Nat
  BY <1>3
<1>6. Score(t) = BaseScore + Damped(t)
  <2> HIDE DEF t
  <2> QED BY <1>5 DEF Score, Infinite
<1> QED BY <1>4, <1>6

LEMMA ContributionIsShare ==
    ASSUME IsGraph(neigh), NEW x \in [Nodes -> Nat], NEW n \in Nodes
    PROVE  /\ neigh[n] # {} => Contribution(x, n) = Share(neigh, x)[n]
           /\ neigh[n] = {} => Contribution(x, n) = Infinite
<1>1. CASE neigh[n] = {}
  BY <1>1, DegreeFacts DEF Contribution, OutDegree
<1>2. CASE neigh[n] # {}
  <2>1. Cardinality(neigh[n]) # 0
    BY <1>2, DegreeFacts
  <2> QED BY <1>2, <2>1 DEF Contribution, OutDegree, Share
<1> QED BY <1>1, <1>2
-----------------------------------------------------------------------------
(* Where an iteration stands: the nodes not yet taken are as before it.     *)
Halfway(g, k, T) == [n \in Nodes |-> IF n \in T THEN Scored(g)[k][n] ELSE Scored(g)[k + 1][n]]

Arguments == IsGraph(neigh) /\ max_iters \in 0 .. MaxIters /\ epsilon \in Nat
Counters == phase \in {"contrib", "pull", "done"} /\ iter \in 0 .. max_iters /\ todo \in SUBSET Nodes
Contributions == outgoing_contrib \in [Nodes -> Infinite .. Unit]

Contributing ==
    /\ iter < max_iters /\ error = 0 /\ scores = Scored(neigh)[iter]
    /\ Handed(neigh, Scored(neigh)[iter], outgoing_contrib, Nodes \ todo)

Pulling ==
    /\ iter < max_iters /\ scores = Halfway(neigh, iter, todo)
    /\ Handed(neigh, Scored(neigh)[iter], outgoing_contrib, Nodes)
    /\ error = SumFunctionOnSet(Change(neigh, iter), Nodes \ todo)

Finished ==
    /\ scores = Scored(neigh)[iter]
    /\ \/ iter = 0 /\ max_iters = 0 /\ error = 0
       \/ iter > 0 /\ error = SumFunctionOnSet(Change(neigh, iter - 1), Nodes)

Invariant ==
    /\ Arguments /\ Counters /\ Contributions
    /\ phase = "contrib" => Contributing
    /\ phase = "pull" => Pulling
    /\ phase = "done" => Finished

LEMMA InvariantInit == Init => Invariant
<1> SUFFICES ASSUME Init PROVE Invariant
  OBVIOUS
<1>1. Arguments
  <2>1. PICK in \in Inputs : neigh = in.neigh /\ max_iters = in.max_iters /\ epsilon = in.epsilon
    BY DEF Init
  <2> QED BY <2>1, PageRankAssumption DEF Arguments, IsGraph
<1>2. Unit \in Nat /\ MaxIters \in Nat
  BY UnitFacts, Assumed
<1>3. Counters
  BY <1>1, <1>2 DEF Init, Counters, Arguments
<1>4. Contributions
  BY <1>2 DEF Init, Contributions, Infinite
<1>5. scores = Scored(neigh)[iter]
  BY <1>1, ScoredFacts DEF Init, Arguments, Start
<1>6. Handed(neigh, Scored(neigh)[iter], outgoing_contrib, Nodes \ todo)
  BY DEF Init, Handed
<1>7. phase = "contrib" => Contributing
  BY <1>1, <1>2, <1>5, <1>6 DEF Init, Contributing, Arguments
<1>8. phase # "pull" /\ (phase = "done" => Finished)
  BY <1>5 DEF Init, Finished
<1> QED BY <1>1, <1>3, <1>4, <1>7, <1>8 DEF Invariant

LEMMA ContribKeeps == ASSUME Invariant, NEW n \in Nodes, Contrib(n) PROVE Invariant'
<1> DEFINE x == Scored(neigh)[iter]
<1>1. Arguments /\ Counters /\ Contributions /\ Contributing /\ phase = "contrib" /\ n \in todo
  BY DEF Invariant, Contrib
<1>2. /\ neigh' = neigh /\ max_iters' = max_iters /\ epsilon' = epsilon /\ phase' = "contrib" /\ iter' = iter
      /\ scores' = scores /\ error' = error /\ todo' = todo \ {n}
      /\ outgoing_contrib' = [outgoing_contrib EXCEPT ![n] = Contribution(scores, n)]
  BY DEF Contrib, args
<1>3. iter \in Nat /\ iter \in 0 .. MaxIters + 1 /\ IsGraph(neigh) /\ Unit \in Nat
  BY <1>1, UnitFacts, Assumed DEF Arguments, Counters
<1>4. x \in [Nodes -> Nat] /\ scores = x
  BY <1>1, <1>3, ScoredFacts DEF Contributing
<1>5. Share(neigh, x)[n] \in 0 .. Unit
  BY <1>3, ShareBounds
<1>6. outgoing_contrib \in [Nodes -> Infinite .. Unit] /\ Handed(neigh, x, outgoing_contrib, Nodes \ todo)
  BY <1>1 DEF Contributions, Contributing
<1>7. Arguments' /\ Counters'
  BY <1>1, <1>2 DEF Arguments, Counters, IsGraph
<1> HIDE DEF x
<1>8. /\ neigh[n] # {} => Contribution(scores, n) = Share(neigh, x)[n]
      /\ neigh[n] = {} => Contribution(scores, n) = Infinite
  BY <1>3, <1>4, ContributionIsShare
<1>9. Contribution(scores, n) \in Infinite .. Unit
  BY <1>3, <1>5, <1>8 DEF Infinite
<1>10. Contributions'
  <2>1. outgoing_contrib' \in [Nodes -> Infinite .. Unit]
    BY <1>2, <1>6, <1>9
  <2> QED BY <2>1 DEF Contributions
<1>11. Handed(neigh, x, outgoing_contrib', Nodes \ todo')
  <2>1. ASSUME NEW v \in Nodes \ todo', neigh[v] # {} PROVE outgoing_contrib'[v] = Share(neigh, x)[v]
    <3>1. CASE v = n
      BY <1>2, <1>6, <1>8, <2>1, <3>1
    <3>2. CASE v # n
      BY <1>2, <1>6, <2>1, <3>2 DEF Handed
    <3> QED BY <3>1, <3>2
  <2> QED BY <2>1 DEF Handed
<1>12. Contributing'
  <2>1. iter' < max_iters' /\ error' = 0 /\ scores' = Scored(neigh')[iter']
    BY <1>1, <1>2 DEF Contributing
  <2>2. Handed(neigh', Scored(neigh')[iter'], outgoing_contrib', Nodes \ todo')
    BY <1>2, <1>11 DEF x
  <2> QED BY <2>1, <2>2 DEF Contributing
<1> QED BY <1>2, <1>7, <1>10, <1>12 DEF Invariant

LEMMA ContributedKeeps == ASSUME Invariant, Contributed PROVE Invariant'
<1>1. Arguments /\ Counters /\ Contributions /\ Contributing /\ todo = {}
  BY DEF Invariant, Contributed
<1>2. /\ neigh' = neigh /\ max_iters' = max_iters /\ epsilon' = epsilon /\ phase' = "pull" /\ iter' = iter
      /\ scores' = scores /\ error' = error /\ todo' = Nodes /\ outgoing_contrib' = outgoing_contrib
  BY DEF Contributed, args
<1>3. iter \in Nat /\ iter \in 0 .. MaxIters /\ IsGraph(neigh)
  BY <1>1, Assumed DEF Arguments, Counters
<1>4. Arguments' /\ Counters' /\ Contributions'
  BY <1>1, <1>2 DEF Arguments, Counters, Contributions, IsGraph
<1>5. scores = Halfway(neigh, iter, Nodes)
  <2>1. Scored(neigh)[iter] \in [Nodes -> Nat] /\ scores = Scored(neigh)[iter]
    BY <1>1, <1>3, ScoredFacts DEF Contributing
  <2> QED BY <2>1 DEF Halfway
<1>6. error = SumFunctionOnSet(Change(neigh, iter), Nodes \ Nodes)
  <2>1. \A n \in Nodes : Change(neigh, iter)[n] \in Int
    BY <1>3, ChangeBounds
  <2>2. Adds(Change(neigh, iter), Nodes)
    BY <2>1, Assumed, SumElement
  <2>3. Nodes \ Nodes = {} /\ error = 0
    BY <1>1 DEF Contributing
  <2> QED BY <2>2, <2>3 DEF Adds
<1>7. Handed(neigh, Scored(neigh)[iter], outgoing_contrib, Nodes) /\ iter < max_iters
  <2>1. Nodes \ todo = Nodes
    BY <1>1
  <2> QED BY <1>1, <2>1 DEF Contributing
<1>8. Pulling'
  <2>1. iter' < max_iters' /\ scores' = Halfway(neigh', iter', todo')
    BY <1>2, <1>5, <1>7
  <2>2. Handed(neigh', Scored(neigh')[iter'], outgoing_contrib', Nodes)
    BY <1>2, <1>7
  <2>3. error' = SumFunctionOnSet(Change(neigh', iter'), Nodes \ todo')
    BY <1>2, <1>6
  <2> QED BY <2>1, <2>2, <2>3 DEF Pulling
<1> QED BY <1>2, <1>4, <1>8 DEF Invariant

LEMMA PullKeeps == ASSUME Invariant, NEW n \in Nodes, Pull(n) PROVE Invariant'
<1> DEFINE new == Score(Total(outgoing_contrib, PullFrom(n)))
           c == Change(neigh, iter)
           done == Nodes \ todo
<1>1. Arguments /\ Counters /\ Contributions /\ Pulling /\ phase = "pull" /\ n \in todo
  BY DEF Invariant, Pull
<1>2. /\ neigh' = neigh /\ max_iters' = max_iters /\ epsilon' = epsilon /\ phase' = "pull" /\ iter' = iter
      /\ todo' = todo \ {n} /\ outgoing_contrib' = outgoing_contrib
      /\ scores' = [scores EXCEPT ![n] = new] /\ error' = error + Abs(new - scores[n])
  BY DEF Pull, args, AddedError
<1>3. iter \in Nat /\ iter \in 0 .. MaxIters /\ IsGraph(neigh)
  BY <1>1, Assumed DEF Arguments, Counters
<1>4. Handed(neigh, Scored(neigh)[iter], outgoing_contrib, Nodes) /\ iter < max_iters
      /\ scores = Halfway(neigh, iter, todo) /\ error = SumFunctionOnSet(c, done)
  BY <1>1 DEF Pulling
<1>5. new = Scored(neigh)[iter + 1][n]
  <2>1. Score(Total(outgoing_contrib, InNeigh(n))) = Scored(neigh)[iter + 1][n]
    BY <1>3, <1>4, PulledScore
  <2> QED BY <2>1 DEF PullFrom
<1>6. Arguments' /\ Counters' /\ Contributions'
  BY <1>1, <1>2 DEF Arguments, Counters, Contributions, IsGraph
<1> HIDE DEF new
<1>7. scores' = Halfway(neigh, iter, todo')
  BY <1>1, <1>2, <1>4, <1>5 DEF Halfway
<1>8. c[n] = Abs(new - scores[n])
  <2>1. scores[n] = Scored(neigh)[iter][n]
    BY <1>1, <1>4 DEF Halfway
  <2> QED BY <1>5, <2>1 DEF Change, Gap
<1>9. \A v \in Nodes : c[v] \in Int
  BY <1>3, ChangeBounds
<1> HIDE DEF c
<1>10. error' = SumFunctionOnSet(c, Nodes \ todo')
  <2>1. Adds(c, Nodes)
    BY <1>9, Assumed, SumElement
  <2>2. PICK s : s = Nodes \ todo'
    OBVIOUS
  <2>6. s \in SUBSET Nodes /\ n \in s /\ s \ {n} = done
    BY <1>1, <1>2, <2>2
  <2>3. SumFunctionOnSet(c, s) = c[n] + SumFunctionOnSet(c, s \ {n})
    BY <2>1, <2>6 DEF Adds
  <2>4. SumFunctionOnSet(c, done) \in Int
    <3>1. done \in SUBSET Nodes
      OBVIOUS
    <3> HIDE DEF done
    <3> QED BY <2>1, <3>1 DEF Adds
  <2> HIDE DEF done
  <2>5. c[n] \in Int
    BY <1>9
  <2>7. error' = SumFunctionOnSet(c, done) + c[n]
    BY <1>2, <1>4, <1>8
  <2>8. SumFunctionOnSet(c, s) = c[n] + SumFunctionOnSet(c, done)
    BY <2>3, <2>6
  <2> QED BY <2>2, <2>4, <2>5, <2>7, <2>8
<1>11. Pulling'
  <2>1. iter' < max_iters' /\ scores' = Halfway(neigh', iter', todo')
    BY <1>2, <1>4, <1>7
  <2>2. Handed(neigh', Scored(neigh')[iter'], outgoing_contrib', Nodes)
    BY <1>2, <1>4
  <2>3. error' = SumFunctionOnSet(Change(neigh', iter'), Nodes \ todo')
    BY <1>2, <1>10 DEF c
  <2> QED BY <2>1, <2>2, <2>3 DEF Pulling
<1> QED BY <1>2, <1>6, <1>11 DEF Invariant

LEMMA PulledKeeps == ASSUME Invariant, Pulled PROVE Invariant'
<1>1. Arguments /\ Counters /\ Contributions /\ Pulling /\ phase = "pull" /\ todo = {}
  BY DEF Invariant, Pulled
<1>2. /\ neigh' = neigh /\ max_iters' = max_iters /\ epsilon' = epsilon /\ iter' = iter + 1
      /\ scores' = scores /\ outgoing_contrib' = outgoing_contrib
  BY DEF Pulled, args
<1>3. \/ phase' = "done" /\ todo' = todo /\ error' = error
      \/ phase' = "contrib" /\ todo' = Nodes /\ error' = 0 /\ iter' # max_iters
  BY DEF Pulled
<1>4. /\ iter \in Nat /\ iter \in 0 .. MaxIters /\ IsGraph(neigh) /\ max_iters \in Nat /\ iter < max_iters
      /\ (iter + 1) - 1 = iter
  BY <1>1, Assumed DEF Arguments, Counters, Pulling
<1>5. Arguments' /\ Counters' /\ Contributions'
  BY <1>1, <1>2, <1>3, <1>4 DEF Arguments, Counters, Contributions, IsGraph
<1>6. scores' = Scored(neigh')[iter']
  <2>1. iter + 1 \in Nat
    BY <1>4
  <2>2. Scored(neigh)[iter + 1] \in [Nodes -> Nat]
    BY <1>4, <2>1, ScoredFacts
  <2>3. scores = Halfway(neigh, iter, {})
    BY <1>1 DEF Pulling
  <2>4. scores = Scored(neigh)[iter + 1]
    BY <2>2, <2>3 DEF Halfway
  <2> QED BY <1>2, <2>4
<1>7. phase' = "contrib" => Contributing'
  <2> SUFFICES ASSUME phase' = "contrib" PROVE Contributing'
    OBVIOUS
  <2>1. todo' = Nodes /\ error' = 0 /\ iter' < max_iters'
    BY <1>2, <1>3, <1>4
  <2>2. Handed(neigh', Scored(neigh')[iter'], outgoing_contrib', Nodes \ todo')
    BY <2>1 DEF Handed
  <2> QED BY <1>6, <2>1, <2>2 DEF Contributing
<1>8. phase' = "done" => Finished'
  <2> SUFFICES ASSUME phase' = "done" PROVE Finished'
    OBVIOUS
  <2>1. error' = error /\ iter' > 0 /\ iter' - 1 = iter
    BY <1>2, <1>3, <1>4
  <2>2. error = SumFunctionOnSet(Change(neigh, iter), Nodes)
    <3>1. Nodes \ todo = Nodes
      BY <1>1
    <3> QED BY <1>1, <3>1 DEF Pulling
  <2>3. error' = SumFunctionOnSet(Change(neigh', iter' - 1), Nodes)
    BY <1>2, <2>1, <2>2
  <2> QED BY <1>6, <2>1, <2>3 DEF Finished
<1>9. phase' # "pull"
  BY <1>3
<1> QED BY <1>5, <1>7, <1>8, <1>9 DEF Invariant

LEMMA InvariantHolds == Spec => []Invariant
<1>1. Invariant /\ [Next]_vars => Invariant'
  <2> SUFFICES ASSUME Invariant, [Next]_vars PROVE Invariant'
    OBVIOUS
  <2>1. ASSUME NEW n \in Nodes, Contrib(n) PROVE Invariant'
    BY <2>1, ContribKeeps
  <2>2. ASSUME NEW n \in Nodes, Pull(n) PROVE Invariant'
    BY <2>2, PullKeeps
  <2>3. CASE Contributed
    BY <2>3, ContributedKeeps
  <2>4. CASE Pulled
    BY <2>4, PulledKeeps
  <2>5. CASE UNCHANGED vars
    BY <2>5 DEF vars, args, Invariant, Arguments, IsGraph, Counters, Contributions, Contributing, Pulling, Finished
  <2> QED BY <2>1, <2>2, <2>3, <2>4, <2>5 DEF Next, Terminated
<1> QED BY <1>1, InvariantInit, PTL DEF Spec
-----------------------------------------------------------------------------
(* pr.cc: the scores stay numbers between 0 and 1, their sum never exceeds  *)
(* 1, and the error of an iteration never exceeds 2, for every graph, every *)
(* number of iterations and every order in which the threads take nodes.    *)
THEOREM TypeCorrect == Spec => []TypeOK
<1>1. Invariant => TypeOK
  <2> SUFFICES ASSUME Invariant PROVE TypeOK
    OBVIOUS
  <2>1. Arguments /\ Counters /\ Contributions
    BY DEF Invariant
  <2>2. /\ IsGraph(neigh) /\ max_iters \in 0 .. MaxIters /\ MaxIters \in Nat /\ iter \in 0 .. max_iters
        /\ iter \in Nat /\ iter \in 0 .. MaxIters + 1 /\ Unit \in Nat
    BY <2>1, Assumed, UnitFacts DEF Arguments, Counters
  <2>3. phase # "pull" => scores = Scored(neigh)[iter]
    BY <2>1 DEF Invariant, Contributing, Finished, Counters
  <2>4. Scored(neigh)[iter] \in [Nodes -> 0 .. Unit] /\ SumFunctionOnSet(Scored(neigh)[iter], Nodes) <= Unit
    <3>1. Scored(neigh)[iter] \in [Nodes -> Nat]
      BY <2>2, ScoredFacts
    <3>2. \A n \in Nodes : Scored(neigh)[iter][n] \in 0 .. Unit
      BY <2>2, ScoredBounds
    <3>3. SumFunctionOnSet(Scored(neigh)[iter], Nodes) <= Unit
      BY <2>2, ScoredTotal
    <3> QED BY <3>1, <3>2, <3>3
  <2>5. phase # "pull" => SumFunctionOnSet(scores, Nodes) <= Unit
    BY <2>3, <2>4
  <2>6. scores \in [Nodes -> 0 .. Unit]
    <3>1. CASE phase # "pull"
      BY <2>3, <2>4, <3>1
    <3>2. CASE phase = "pull"
      <4>1. scores = Halfway(neigh, iter, todo) /\ iter < max_iters
        BY <3>2 DEF Invariant, Pulling
      <4>2. iter + 1 \in 0 .. MaxIters + 1
        BY <2>2, <4>1
      <4>3. \A n \in Nodes : Scored(neigh)[iter][n] \in 0 .. Unit
        BY <2>2, ScoredBounds
      <4>4. \A n \in Nodes : Scored(neigh)[iter + 1][n] \in 0 .. Unit
        BY <2>2, <4>2, ScoredBounds
      <4> QED BY <4>1, <4>3, <4>4 DEF Halfway
    <3> QED BY <3>1, <3>2
  <2>7. error \in 0 .. 2 * Unit
    <3>1. CASE phase = "contrib"
      BY <2>2, <3>1 DEF Invariant, Contributing
    <3>2. CASE phase = "pull"
      <4>1. error = SumFunctionOnSet(Change(neigh, iter), Nodes \ todo) /\ iter < max_iters
        BY <3>2 DEF Invariant, Pulling
      <4>2. iter \in 0 .. MaxIters /\ Nodes \ todo \in SUBSET Nodes
        BY <2>2, <4>1
      <4>3. SumFunctionOnSet(Change(neigh, iter), Nodes \ todo) \in 0 .. 2 * Unit
        BY <2>2, <4>2, ChangeBounds
      <4> QED BY <4>1, <4>3
    <3>3. CASE phase = "done"
      <4>1. error = 0 \/ (iter > 0 /\ error = SumFunctionOnSet(Change(neigh, iter - 1), Nodes))
        BY <3>3 DEF Invariant, Finished
      <4>2. ASSUME iter > 0 PROVE SumFunctionOnSet(Change(neigh, iter - 1), Nodes) \in 0 .. 2 * Unit
        <5>1. PICK k \in 0 .. MaxIters : k = iter - 1
          BY <2>2, <4>2
        <5>2. Nodes \in SUBSET Nodes
          OBVIOUS
        <5>3. SumFunctionOnSet(Change(neigh, k), Nodes) \in 0 .. 2 * Unit
          BY <2>2, <5>2, ChangeBounds
        <5> QED BY <5>1, <5>3
      <4> QED BY <2>2, <4>1, <4>2
    <3> QED BY <2>1, <3>1, <3>2, <3>3 DEF Counters
  <2>8. phase \in {"contrib", "pull", "done"} /\ todo \subseteq Nodes /\ outgoing_contrib \in [Nodes -> Infinite .. Unit]
    BY <2>1 DEF Counters, Contributions
  <2> QED BY <2>2, <2>5, <2>6, <2>7, <2>8 DEF TypeOK
<1> QED BY <1>1, InvariantHolds, PTL

(* pr.cc:22: no atomics are needed: between two iterations every node's     *)
(* score is the share of surfers who are at it or have stopped at it after  *)
(* as many edges as there were iterations, whoever took which node when.    *)
THEOREM RanksComputed == Spec => []ScoresAreRanks
<1>1. Invariant => ScoresAreRanks
  <2> SUFFICES ASSUME Invariant, phase # "pull", NEW n \in Nodes PROVE scores[n] = Rank(n, iter)
    BY DEF ScoresAreRanks
  <2>1. IsGraph(neigh) /\ iter \in 0 .. MaxIters + 1
    BY Assumed DEF Invariant, Arguments, Counters
  <2>2. scores = Scored(neigh)[iter]
    BY DEF Invariant, Contributing, Finished, Counters
  <2> QED BY <2>1, <2>2, RanksAreScores
<1> QED BY <1>1, InvariantHolds, PTL

(* pr.cc:20: when PageRankPull stops because the last change was below      *)
(* epsilon, the verifier, which measures the change of one more iteration,  *)
(* accepts: an iteration brings any two scores closer to one another.       *)
THEOREM VerifierAccepts == Spec => []ConvergedMeansVerified
<1>1. Invariant => ConvergedMeansVerified
  <2> SUFFICES ASSUME Invariant, phase = "done", max_iters > 0, Converged(error) PROVE PRVerifier
    BY DEF ConvergedMeansVerified
  <2>1. /\ IsGraph(neigh) /\ max_iters \in 0 .. MaxIters /\ MaxIters \in Nat /\ iter \in 0 .. max_iters /\ epsilon \in Nat
        /\ scores = Scored(neigh)[iter] /\ iter > 0 /\ error = SumFunctionOnSet(Change(neigh, iter - 1), Nodes)
    BY Assumed DEF Invariant, Arguments, Counters, Finished
  <2>2. PICK k \in Nat : k = iter - 1 /\ iter = k + 1 /\ k + 1 <= MaxIters
    BY <2>1
  <2> DEFINE before == SumFunctionOnSet(Change(neigh, k), Nodes)
             after == SumFunctionOnSet(Change(neigh, iter), Nodes)
  <2>3. before \in Nat /\ after \in Nat /\ after <= before /\ error = before
    BY <2>1, <2>2, ChangeShrinks
  <2>4. epsilon * (Unit \div EpsilonUnit) \in Nat
    <3>1. PICK u \in Nat, c \in Nat \ {0}, e \in Nat : u = Unit /\ c = EpsilonUnit /\ e = epsilon
      BY <2>1, UnitFacts, PageRankAssumption
    <3>2. PICK q \in Nat : q = u \div c
      <4>1. u \div c \in 0 .. u
        BY DivBounds
      <4> QED BY <4>1
    <3>3. e * q \in Nat
      OBVIOUS
    <3> QED BY <3>1, <3>2, <3>3
  <2>5. Converged(after)
    <3> DEFINE bound == epsilon * (Unit \div EpsilonUnit)
    <3>1. before < bound /\ bound \in Nat
      BY <2>3, <2>4 DEF Converged
    <3> HIDE DEF bound
    <3>2. after < bound
      BY <2>3, <3>1
    <3> QED BY <3>2 DEF Converged, bound
  <2> DEFINE contrib == [u \in Nodes |-> Contribution(scores, u)]
  <2>6. Change(neigh, iter) = [n \in Nodes |-> Abs((BaseScore + Damped(Total(contrib, InNeigh(n)))) - scores[n])]
    <3>1. iter \in Nat /\ scores \in [Nodes -> Nat]
      BY <2>1, <2>2, ScoredFacts
    <3>2. Handed(neigh, Scored(neigh)[iter], contrib, Nodes)
      <4>1. \A u \in Nodes : neigh[u] # {} => Contribution(scores, u) = Share(neigh, scores)[u]
        BY <2>1, <3>1, ContributionIsShare
      <4> QED BY <2>1, <4>1 DEF Handed
    <3> HIDE DEF contrib
    <3>3. \A n \in Nodes : BaseScore + Damped(Total(contrib, InNeigh(n))) = Scored(neigh)[iter + 1][n]
      BY <2>1, <3>1, <3>2, PulledScore
    <3>4. Change(neigh, iter) = [n \in Nodes |-> Abs((BaseScore + Damped(Total(contrib, InNeigh(n)))) - scores[n])]
      <4>1. Change(neigh, iter) = [n \in Nodes |-> Abs(Scored(neigh)[iter + 1][n] - scores[n])]
        BY <2>1 DEF Change, Gap
      <4> DEFINE f == [n \in Nodes |-> Abs(Scored(neigh)[iter + 1][n] - scores[n])]
                 h == [n \in Nodes |-> Abs((BaseScore + Damped(Total(contrib, InNeigh(n)))) - scores[n])]
      <4>2. ASSUME NEW n \in Nodes PROVE f[n] = h[n]
        <5>1. PICK new : new = Scored(neigh)[iter + 1][n] /\ new = BaseScore + Damped(Total(contrib, InNeigh(n)))
          BY <3>3
        <5>2. f[n] = Abs(new - scores[n])
          BY <5>1
        <5>3. h[n] = Abs(new - scores[n])
          BY <5>1
        <5> QED BY <5>2, <5>3
      <4>3. f = [n \in Nodes |-> f[n]] /\ h = [n \in Nodes |-> h[n]]
        OBVIOUS
      <4>4. f = h
        <5> HIDE DEF f, h
        <5> QED BY <4>2, <4>3
      <4> QED BY <4>1, <4>4
    <3> QED BY <3>4
  <2> HIDE DEF after, contrib
  <2>7. PRVerifier <=> Converged(SumFunctionOnSet(Change(neigh, iter), Nodes))
    <3> DEFINE pushed == [v \in Nodes |-> Total(contrib, {u \in Nodes : v \in neigh[u]})]
    <3>1. PRVerifier <=> Converged(SumFunctionOnSet([n \in Nodes |-> Abs((BaseScore + Damped(pushed[n])) - scores[n])], Nodes))
      BY DEF PRVerifier, contrib
    <3>2. \A n \in Nodes : pushed[n] = Total(contrib, InNeigh(n))
      BY DEF InNeigh
    <3> HIDE DEF pushed
    <3>3. [n \in Nodes |-> Abs((BaseScore + Damped(pushed[n])) - scores[n])]
            = [n \in Nodes |-> Abs((BaseScore + Damped(Total(contrib, InNeigh(n)))) - scores[n])]
      BY <3>2
    <3> QED BY <2>6, <3>1, <3>3
  <2> QED BY <2>5, <2>7 DEF after
<1> QED BY <1>1, InvariantHolds, PTL
=============================================================================
