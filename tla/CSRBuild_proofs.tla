--------------------------- MODULE CSRBuild_proofs ---------------------------
(***************************************************************************)
(* For every edge list, every number of threads and every schedule, what a *)
(* worker finds in the published region is the graph of the edge list, and *)
(* the slots the threads of host 0 store to are their own.                 *)
(***************************************************************************)
EXTENDS CSRBuild, GraphLemmas

(* Sums of naturals over an interval, and the sums of all beginnings.       *)
LEMMA SumAdds ==
    ASSUME NEW S, IsFiniteSet(S), NEW x, x \notin S,
           NEW fun, \A s \in S \cup {x} : fun[s] \in Nat
    PROVE  SumFunctionOnSet(fun, S \cup {x}) = SumFunctionOnSet(fun, S) + fun[x]
<1> DEFINE rest == PairsOf(fun, S)
           row == PairsOf(fun, {x})
<1>1. IsFiniteSet({x}) /\ IsFiniteSet(S \cup {x}) /\ \A s \in {x} : fun[s] \in Int
  <2>1. IsFiniteSet(S \cup {x})
    BY FS_AddElement
  <2> QED BY <2>1, FS_Singleton
<1>2. SumFunctionOnSet(fun, {x}) = fun[x]
  <2>1. PICK sum : SumsUp(sum, fun, {x}) /\ SumFunctionOnSet(fun, {x}) = sum[{x}]
    BY <1>1, SumSteps
  <2>2. {x} \in (SUBSET {x}) \ {{}}
    OBVIOUS
  <2>3. PICK y \in {x} : sum[{x}] = fun[y] + sum[{x} \ {y}]
    BY <2>1, <2>2 DEF SumsUp
  <2>4. {x} \ {y} = {} /\ y = x
    OBVIOUS
  <2>5. sum[{}] = 0
    BY <2>1 DEF SumsUp
  <2> QED BY <2>1, <2>3, <2>4, <2>5
<1>3. IsFiniteSet(rest) /\ Cardinality(rest) = SumFunctionOnSet(fun, S)
  BY SumCounts
<1>4. IsFiniteSet(row) /\ Cardinality(row) = SumFunctionOnSet(fun, {x})
  BY <1>1, SumCounts
<1>5. SumFunctionOnSet(fun, S \cup {x}) = Cardinality(PairsOf(fun, S \cup {x}))
  BY <1>1, SumCounts
<1>6. PairsOf(fun, S \cup {x}) = rest \cup row /\ rest \cap row = {}
  BY DEF PairsOf
<1> HIDE DEF rest, row
<1>7. Cardinality(rest \cup row) = Cardinality(rest) + Cardinality(row) - Cardinality(rest \cap row)
  BY <1>3, <1>4, FS_Union
<1>8. Cardinality(rest \cap row) = 0
  BY <1>6, FS_EmptySet
<1>9. Cardinality(rest) \in Nat /\ Cardinality(row) \in Nat
  BY <1>3, <1>4, FS_CardinalityType
<1>10. Cardinality(rest \cup row) = Cardinality(rest) + Cardinality(row)
  BY <1>7, <1>8, <1>9
<1>11. SumFunctionOnSet(fun, S \cup {x}) = Cardinality(rest \cup row)
  BY <1>5, <1>6
<1> QED BY <1>2, <1>3, <1>4, <1>10, <1>11

LEMMA SumNone ==
    ASSUME NEW fun
    PROVE  SumFunctionOnSet(fun, {}) = 0
<1>1. PICK sum : SumsUp(sum, fun, {}) /\ SumFunctionOnSet(fun, {}) = sum[{}]
  BY SumSteps, FS_EmptySet
<1> QED BY <1>1 DEF SumsUp

(* A finite interval of naturals where something holds of the first, and of *)
(* the next whenever of one, has it throughout.                             *)
LEMMA IntervalInduction ==
    ASSUME NEW a \in Nat, NEW b \in Nat, NEW S, a \in S,
           \A n \in a .. b - 1 : n \in S => n + 1 \in S
    PROVE  \A n \in a .. b : n \in S
<1> SUFFICES ASSUME NEW m \in a .. b, m \notin S PROVE FALSE
  OBVIOUS
<1> DEFINE Out == {n \in a .. b : n \notin S}
<1>1. Out \in SUBSET Nat /\ Out # {}
  OBVIOUS
<1>2. PICK n \in Out : \A y \in Out : n <= y
  <2> HIDE DEF Out
  <2> QED BY <1>1, LeastNatural
<1>3. n # a /\ n \in a .. b /\ n \notin S
  OBVIOUS
<1>4. n - 1 \in a .. b - 1 /\ n - 1 \notin Out /\ (n - 1) + 1 = n
  BY <1>2, <1>3
<1> QED BY <1>3, <1>4

PrefixOf(d, k) == [n \in 0 .. k |-> SumFunctionOnSet(d, 0 .. n - 1)]

Counts(d, k) == \A i \in 0 .. k - 1 : d[i] \in Nat

IsIndex(p, d, k) ==
    /\ p \in [0 .. k -> Nat] /\ p[0] = 0
    /\ \A n \in 0 .. k - 1 : p[n + 1] = p[n] + d[n]

LEMMA SumInterval ==
    ASSUME NEW k \in Nat, NEW d, Counts(d, k), NEW a \in 0 .. k, NEW b \in a .. k
    PROVE  /\ SumFunctionOnSet(d, a .. b - 1) \in Nat
           /\ SumFunctionOnSet(d, a .. a - 1) = 0
           /\ b < k => SumFunctionOnSet(d, a .. b) = SumFunctionOnSet(d, a .. b - 1) + d[b]
<1>1. IsFiniteSet(a .. b - 1)
  BY FS_Interval
<1>2. \A s \in a .. b - 1 : d[s] \in Nat
  BY DEF Counts
<1>3. SumFunctionOnSet(d, a .. b - 1) \in Nat
  BY <1>1, <1>2, SumCounts
<1>4. a .. a - 1 = {}
  OBVIOUS
<1>5. ASSUME b < k PROVE SumFunctionOnSet(d, a .. b) = SumFunctionOnSet(d, a .. b - 1) + d[b]
  <2>1. a .. b = (a .. b - 1) \cup {b} /\ b \notin a .. b - 1
    OBVIOUS
  <2>2. \A s \in (a .. b - 1) \cup {b} : d[s] \in Nat
    BY <1>5 DEF Counts
  <2> DEFINE S == a .. b - 1
  <2>3. IsFiniteSet(S) /\ b \notin S /\ a .. b = S \cup {b} /\ \A s \in S \cup {b} : d[s] \in Nat
    BY <1>1, <2>1, <2>2
  <2> HIDE DEF S
  <2>4. SumFunctionOnSet(d, S \cup {b}) = SumFunctionOnSet(d, S) + d[b]
    BY <2>3, SumAdds
  <2> QED BY <2>3, <2>4 DEF S
<1> QED BY <1>3, <1>4, <1>5, SumNone

LEMMA PrefixOfIsIndex ==
    ASSUME NEW k \in Nat, NEW d, Counts(d, k)
    PROVE  IsIndex(PrefixOf(d, k), d, k)
<1> DEFINE p(n) == SumFunctionOnSet(d, 0 .. n - 1)
<1>1. \A n \in 0 .. k : p(n) \in Nat
  <2> TAKE n \in 0 .. k
  <2>1. 0 \in 0 .. k /\ n \in 0 .. k
    OBVIOUS
  <2> HIDE DEF p
  <2>2. SumFunctionOnSet(d, 0 .. n - 1) \in Nat
    BY <2>1, SumInterval
  <2> QED BY <2>2 DEF p
<1>2. p(0) = 0
  <2>1. 0 \in 0 .. k
    OBVIOUS
  <2> HIDE DEF p
  <2>2. SumFunctionOnSet(d, 0 .. 0 - 1) = 0
    BY SumNone, 0 .. 0 - 1 = {}
  <2> QED BY <2>2 DEF p
<1>3. \A n \in 0 .. k - 1 : p(n + 1) = p(n) + d[n]
  <2> TAKE n \in 0 .. k - 1
  <2>1. SumFunctionOnSet(d, 0 .. n) = SumFunctionOnSet(d, 0 .. n - 1) + d[n]
    BY SumInterval
  <2>2. (n + 1) - 1 = n
    OBVIOUS
  <2> QED BY <2>1, <2>2
<1>4. PrefixOf(d, k) = [n \in 0 .. k |-> p(n)]
  BY DEF PrefixOf
<1> HIDE DEF p
<1> QED BY <1>1, <1>2, <1>3, <1>4 DEF IsIndex

(* What is added from a to b is the difference of the beginnings.           *)
LEMMA IntervalSum ==
    ASSUME NEW k \in Nat, NEW d, Counts(d, k), NEW p, IsIndex(p, d, k),
           NEW a \in 0 .. k, NEW b \in a .. k
    PROVE  SumFunctionOnSet(d, a .. b - 1) = p[b] - p[a]
<1> DEFINE S == {n \in a .. k : SumFunctionOnSet(d, a .. n - 1) = p[n] - p[a]}
<1>1. \A n \in 0 .. k : p[n] \in Nat
  BY DEF IsIndex
<1>2. a \in S
  BY <1>1, SumInterval
<1>3. ASSUME NEW n \in a .. k - 1, n \in S PROVE n + 1 \in S
  <2>1. SumFunctionOnSet(d, a .. n) = SumFunctionOnSet(d, a .. n - 1) + d[n]
    BY SumInterval
  <2>2. p[n + 1] = p[n] + d[n] /\ d[n] \in Nat
    BY DEF IsIndex, Counts
  <2>3. (n + 1) - 1 = n /\ n + 1 \in a .. k
    OBVIOUS
  <2>4. SumFunctionOnSet(d, a .. n - 1) = p[n] - p[a]
    BY <1>3
  <2>5. p[n] \in Nat /\ p[a] \in Nat
    BY <1>1
  <2>6. SumFunctionOnSet(d, a .. n) = p[n + 1] - p[a]
    BY <2>1, <2>2, <2>4, <2>5
  <2> QED BY <2>3, <2>6
<1>4. a \in Nat /\ b \in a .. k
  OBVIOUS
<1> HIDE DEF S
<1>5. b \in S
  BY <1>2, <1>3, <1>4, IntervalInduction
<1> QED BY <1>5 DEF S

LEMMA PrefixMonotone ==
    ASSUME NEW k \in Nat, NEW d, Counts(d, k), NEW p, IsIndex(p, d, k),
           NEW a \in 0 .. k, NEW b \in a .. k
    PROVE  p[a] <= p[b]
<1>1. SumFunctionOnSet(d, a .. b - 1) \in Nat
  BY SumInterval
<1>2. SumFunctionOnSet(d, a .. b - 1) = p[b] - p[a]
  BY IntervalSum
<1>3. p[a] \in Nat /\ p[b] \in Nat
  BY DEF IsIndex
<1> QED BY <1>1, <1>2, <1>3
-----------------------------------------------------------------------------
LEMMA LeastOfTwo ==
    ASSUME NEW x \in Int, NEW y \in Int
    PROVE  /\ x <= y => Min({x, y}) = x
           /\ y <= x => Min({x, y}) = y
<1>1. ASSUME x <= y PROVE Min({x, y}) = x
  <2>1. \A z \in {x, y} : x <= z
    BY <1>1
  <2>2. ASSUME NEW w \in {x, y}, \A z \in {x, y} : w <= z PROVE w = x
    BY <1>1, <2>2
  <2> QED BY <2>1, <2>2 DEF Min
<1>2. ASSUME y <= x PROVE Min({x, y}) = y
  <2>1. \A z \in {x, y} : y <= z
    BY <1>2
  <2>2. ASSUME NEW w \in {x, y}, \A z \in {x, y} : w <= z PROVE w = y
    BY <1>2, <2>2
  <2> QED BY <2>1, <2>2 DEF Min
<1> QED BY <1>1, <1>2

(* Where the blocks of a sum end.                                           *)
BlockEnd(b, k) == Min({b * BlockSize, k})

LEMMA Blocks ==
    ASSUME NEW k \in Nat \ {0}
    PROVE  LET nb == (k + BlockSize - 1) \div BlockSize
           IN /\ nb \in Nat /\ BlockEnd(nb, k) = k
              /\ \A b \in 0 .. nb : BlockEnd(b, k) \in 0 .. k
              /\ \A b \in 0 .. nb - 1 : /\ b * BlockSize \in 0 .. k - 1 /\ BlockEnd(b, k) = b * BlockSize
                                        /\ BlockEnd(b + 1, k) \in b * BlockSize .. k
              /\ \A n \in 0 .. k - 1 : /\ n \div BlockSize \in 0 .. nb - 1
                                       /\ (n \div BlockSize) * BlockSize <= n
<1> DEFINE nb == (k + BlockSize - 1) \div BlockSize
<1>1. BlockSize \in Nat \ {0}
  BY CSRAssumption
<1>2. PICK B \in Nat \ {0} : B = BlockSize
  BY <1>1
<1>3. nb \in Nat /\ B * nb <= k + B - 1 /\ k + B - 1 < B * nb + B
  <2>1. k + B - 1 \in Nat
    OBVIOUS
  <2> QED BY <1>2, <2>1, DivBounds
<1> HIDE DEF nb
<1>4. k <= nb * B
  BY <1>3
<1>5. ASSUME NEW b \in 0 .. nb - 1 PROVE b * B \in 0 .. k - 1
  <2>1. b * B <= (nb - 1) * B
    BY <1>3
  <2>2. (nb - 1) * B = B * nb - B
    BY <1>3
  <2>3. b * B \in Nat
    BY <1>3
  <2> QED BY <1>3, <2>1, <2>2, <2>3
<1>6. ASSUME NEW b \in 0 .. nb PROVE b * B \in Nat /\ BlockEnd(b, k) \in 0 .. k
  <2>1. b * B \in Nat
    BY <1>3
  <2>2. BlockEnd(b, k) = Min({b * B, k})
    BY <1>2 DEF BlockEnd
  <2>3. b * B <= k \/ k <= b * B
    BY <2>1
  <2> QED BY <2>1, <2>2, <2>3, LeastOfTwo
<1>7. ASSUME NEW b \in 0 .. nb - 1
      PROVE  BlockEnd(b, k) = b * B /\ BlockEnd(b + 1, k) \in b * B .. k
  <2>1. b * B \in 0 .. k - 1 /\ BlockEnd(b, k) = Min({b * B, k})
    BY <1>2, <1>5 DEF BlockEnd
  <2>2. BlockEnd(b, k) = b * B
    BY <2>1, LeastOfTwo
  <2>3. b + 1 \in 0 .. nb
    BY <1>3
  <2>4. (b + 1) * B \in Nat /\ BlockEnd(b + 1, k) \in 0 .. k
    BY <1>6, <2>3
  <2>5. BlockEnd(b + 1, k) = Min({(b + 1) * B, k})
    BY <1>2 DEF BlockEnd
  <2>6. (b + 1) * B = b * B + B
    BY <1>3
  <2>7. PICK x \in Nat : x = (b + 1) * B
    BY <2>4
  <2>8. BlockEnd(b + 1, k) = x \/ BlockEnd(b + 1, k) = k
    BY <2>5, <2>7, LeastOfTwo
  <2> QED BY <2>1, <2>2, <2>4, <2>6, <2>7, <2>8
<1>8. BlockEnd(nb, k) = k
  <2>1. nb * B \in Nat /\ BlockEnd(nb, k) = Min({nb * B, k})
    BY <1>2, <1>3 DEF BlockEnd
  <2> QED BY <1>4, <2>1, LeastOfTwo
<1>9. ASSUME NEW n \in 0 .. k - 1 PROVE n \div B \in 0 .. nb - 1 /\ (n \div B) * B <= n
  <2>1. n \div B \in 0 .. n /\ B * (n \div B) <= n
    BY DivBounds
  <2>2. PICK c \in Nat : c = n \div B
    BY <2>1
  <2>3. c * B <= n /\ c * B < nb * B
    BY <1>3, <1>4, <2>1, <2>2
  <2>4. c < nb
    BY <1>3, <2>3
  <2> QED BY <1>3, <2>2, <2>3, <2>4
<1> QED BY <1>2, <1>3, <1>5, <1>6, <1>7, <1>8, <1>9 DEF nb

(* ParallelPrefixSum adds up, in blocks, what comes before each node.       *)
LEMMA ParallelPrefixSumAdds ==
    ASSUME NEW k \in Nat \ {0}, NumNodes = k, NEW d, Counts(d, k)
    PROVE  ParallelPrefixSum(d) = PrefixOf(d, k)
<1> DEFINE p == PrefixOf(d, k)
           nb == (k + BlockSize - 1) \div BlockSize
           end(b) == BlockEnd(b, k)
           localSums == [b \in 0 .. nb - 1 |-> SumFunctionOnSet(d, Block(b))]
           bulk(b) == SumFunctionOnSet(localSums, 0 .. b - 1)
           q == [b \in 0 .. nb |-> p[end(b)]]
<1>1. IsIndex(p, d, k)
  BY PrefixOfIsIndex
<1>2. nb \in Nat /\ end(nb) = k /\ \A b \in 0 .. nb : end(b) \in 0 .. k
  BY Blocks
<1>3. \A b \in 0 .. nb - 1 : /\ b * BlockSize \in 0 .. k - 1 /\ end(b) = b * BlockSize
                             /\ end(b + 1) \in b * BlockSize .. k
  BY Blocks
<1>4. \A n \in 0 .. k - 1 : n \div BlockSize \in 0 .. nb - 1 /\ (n \div BlockSize) * BlockSize <= n
  BY Blocks
<1>5. BlockSize \in Nat \ {0}
  BY CSRAssumption
<1>6. ParallelPrefixSum(d) =
        [n \in 0 .. k |-> IF n = k THEN bulk(nb)
                          ELSE bulk(n \div BlockSize)
                               + SumFunctionOnSet(d, (n \div BlockSize) * BlockSize .. n - 1)]
  BY DEF ParallelPrefixSum
<1>7. \A b \in 0 .. nb - 1 : Block(b) = b * BlockSize .. end(b + 1) - 1
  BY DEF Block, BlockEnd
<1> HIDE DEF nb, p, end
<1>8. ASSUME NEW b \in 0 .. nb - 1
      PROVE  localSums[b] = p[end(b + 1)] - p[end(b)] /\ localSums[b] \in Nat
  <2>1. b * BlockSize \in 0 .. k /\ end(b + 1) \in b * BlockSize .. k
    BY <1>3
  <2>2. \E x \in 0 .. k : \E y \in x .. k : x = b * BlockSize /\ y = end(b + 1)
    BY <2>1
  <2>5. PICK x \in 0 .. k : \E y \in x .. k : x = b * BlockSize /\ y = end(b + 1)
    BY <2>2
  <2>6. PICK y \in x .. k : x = b * BlockSize /\ y = end(b + 1)
    BY <2>5
  <2>3. localSums[b] = SumFunctionOnSet(d, x .. y - 1)
    BY <1>7, <2>6
  <2>4. SumFunctionOnSet(d, x .. y - 1) = p[y] - p[x]
    BY <1>1, IntervalSum
  <2>7. SumFunctionOnSet(d, x .. y - 1) \in Nat
    BY SumInterval
  <2> QED BY <1>3, <2>3, <2>4, <2>6, <2>7
<1>9. IsIndex(q, localSums, nb)
  <2>1. \A m \in 0 .. k : p[m] \in Nat
    BY <1>1 DEF IsIndex
  <2>2. end(0) = 0
    <3>1. 0 * BlockSize = 0
      BY <1>5
    <3>2. k \in Int /\ 0 <= k
      OBVIOUS
    <3>3. Min({0, k}) = 0
      BY <3>2, LeastOfTwo
    <3> QED BY <3>1, <3>3 DEF end, BlockEnd
  <2>3. q[0] = 0
    BY <1>1, <1>2, <2>2 DEF IsIndex
  <2>4. q \in [0 .. nb -> Nat]
    BY <1>2, <2>1
  <2>5. ASSUME NEW b \in 0 .. nb - 1 PROVE q[b + 1] = q[b] + localSums[b]
    <3>1. b \in 0 .. nb /\ b + 1 \in 0 .. nb
      BY <1>2
    <3>2. q[b] = p[end(b)] /\ q[b + 1] = p[end(b + 1)]
      BY <3>1
    <3>3. p[end(b)] \in Nat /\ p[end(b + 1)] \in Nat
      BY <1>2, <2>1, <3>1
    <3> HIDE DEF q, localSums
    <3> QED BY <1>8, <3>2, <3>3
  <2> HIDE DEF q, localSums
  <2> QED BY <2>3, <2>4, <2>5 DEF IsIndex
<1>10. ASSUME NEW b \in 0 .. nb PROVE bulk(b) = p[end(b)]
  <2>1. Counts(localSums, nb)
    <3> HIDE DEF localSums
    <3> QED BY <1>8 DEF Counts
  <2>2. q[b] = p[end(b)] /\ q[0] = 0 /\ q[b] \in Nat
    <3> HIDE DEF localSums
    <3>1. q[0] = 0 /\ q[b] \in Nat
      BY <1>9 DEF IsIndex
    <3> QED BY <3>1
  <2> HIDE DEF localSums, q
  <2>3. SumFunctionOnSet(localSums, 0 .. b - 1) = q[b] - q[0]
    <3>1. 0 \in 0 .. nb /\ b \in 0 .. nb
      BY <1>2
    <3> QED BY <1>2, <1>9, <2>1, <3>1, IntervalSum
  <2> QED BY <2>2, <2>3
<1> HIDE DEF localSums, q, bulk
<1>11. ASSUME NEW n \in 0 .. k - 1
       PROVE  bulk(n \div BlockSize) + SumFunctionOnSet(d, (n \div BlockSize) * BlockSize .. n - 1) = p[n]
  <2>1. n \div BlockSize \in 0 .. nb - 1 /\ (n \div BlockSize) * BlockSize <= n
    BY <1>4
  <2>2. PICK c \in 0 .. nb - 1 : c = n \div BlockSize
    BY <2>1
  <2>3. c * BlockSize \in 0 .. k /\ c * BlockSize <= n /\ end(c) = c * BlockSize
    BY <1>3, <2>1, <2>2
  <2>4. PICK x \in 0 .. k : x = c * BlockSize
    BY <2>3
  <2>5. n \in x .. k /\ x \in 0 .. k
    BY <2>3, <2>4
  <2>6. SumFunctionOnSet(d, x .. n - 1) = p[n] - p[x]
    BY <1>1, <2>5, IntervalSum
  <2>7. bulk(c) = p[x]
    <3>1. c \in 0 .. nb
      BY <1>2
    <3> QED BY <1>10, <2>3, <2>4, <3>1
  <2>8. p[n] \in Nat /\ p[x] \in Nat
    BY <1>1, <2>5 DEF IsIndex
  <2>9. bulk(c) + SumFunctionOnSet(d, x .. n - 1) = p[n]
    BY <2>6, <2>7, <2>8
  <2> QED BY <2>2, <2>4, <2>9
<1>12. bulk(nb) = p[k]
  <2>1. nb \in 0 .. nb
    BY <1>2
  <2> QED BY <1>2, <1>10, <2>1
<1>13. \A n \in 0 .. k : ParallelPrefixSum(d)[n] = p[n]
  <2> TAKE n \in 0 .. k
  <2>1. CASE n = k
    BY <1>6, <1>12, <2>1
  <2>2. CASE n # k
    <3>1. n \in 0 .. k - 1
      BY <2>2
    <3>2. ParallelPrefixSum(d)[n] = bulk(n \div BlockSize)
            + SumFunctionOnSet(d, (n \div BlockSize) * BlockSize .. n - 1)
      BY <1>6, <2>2
    <3> QED BY <1>11, <3>1, <3>2
  <2> QED BY <2>1, <2>2
<1>14. p = [n \in 0 .. k |-> p[n]]
  BY DEF p, PrefixOf
<1>15. ParallelPrefixSum(d) = [n \in 0 .. k |-> ParallelPrefixSum(d)[n]]
  BY <1>6
<1>16. p = ParallelPrefixSum(d)
  BY <1>13, <1>14, <1>15
<1> QED BY <1>16 DEF p
-----------------------------------------------------------------------------
(* What Ordered makes of a set: its elements, in increasing order.          *)
LEMMA OrderedFacts ==
    ASSUME NEW set \in SUBSET Nat, IsFiniteSet(set)
    PROVE  IsOrdered(Ordered(set), set)
<1> DEFINE row == Ordered(set)
<1>1. row = [k \in 1 .. Cardinality(set) |->
                CHOOSE x \in set : Cardinality({y \in set : y < x}) = k - 1]
  BY DEF Ordered
<1> HIDE DEF row
<1>2. IsOrdered(row, set)
  BY <1>1, RanksOrder
<1> QED BY <1>2 DEF row
-----------------------------------------------------------------------------
(* What an edge list L says, each edge being two ends: the end of a node is *)
(* what CountDegrees counts there and what claims a slot for the other.     *)
IsList(L) == \E k \in Nat : L \in [1 .. k -> Ids \X Ids]

Size(L) == FindMaxNodeID(L) + 1
NodesOf(L) == 0 .. Size(L) - 1
Ends(L) == (DOMAIN L) \X {1, 2}
At(L, x) == L[x[1]][x[2]]
Other(L, x) == L[x[1]][3 - x[2]]
EndsAt(L, n) == {x \in Ends(L) : At(L, x) = n}
Reach(L, n) == {Other(L, x) : x \in EndsAt(L, n)}
Nbrs(L, n) == Reach(L, n) \ {n}

LEMMA AreLists ==
    ASSUME NEW L \in AllEdgeLists
    PROVE  IsList(L)
<1>1. CASE L \in EdgeLists
  <2>1. L \in Seq(Ids \X Ids)
    BY <1>1, CSRAssumption DEF Ids
  <2>2. L \in [1 .. Len(L) -> Ids \X Ids] /\ Len(L) \in Nat
    BY <2>1
  <2> QED BY <2>2 DEF IsList
<1>2. CASE L \notin EdgeLists
  <2>1. PICK e \in Generated : L \in MakeRMatEL(e[1], e[2])
    BY <1>2 DEF AllEdgeLists
  <2>2. 2 ^ e[1] \in 1 .. Radix /\ e[2] \in Nat /\ Radix \in Nat
    BY CSRAssumption
  <2>3. PICK m \in 1 .. Radix : m = 2 ^ e[1]
    BY <2>2
  <2> DEFINE ids == 0 .. m - 1
  <2>4. PICK list \in [1 .. m * e[2] -> ids \X ids], permutation \in Bijection(ids, ids) :
            L = PermuteIDs(list, permutation)
    BY <2>1, <2>3 DEF MakeRMatEL
  <2>5. permutation \in [ids -> ids] /\ ids \subseteq Ids
    <3>1. ids \subseteq Ids
      BY <2>2 DEF Ids
    <3> HIDE DEF ids
    <3> QED BY <2>4, <3>1 DEF Bijection, Injection
  <2>6. m * e[2] \in Nat
    BY <2>2
  <2> HIDE DEF ids
  <2>7. \A i \in 1 .. m * e[2] : list[i][1] \in ids /\ list[i][2] \in ids
    BY <2>4
  <2>8. L = [i \in 1 .. m * e[2] |-> <<permutation[list[i][1]], permutation[list[i][2]]>>]
    BY <2>4 DEF PermuteIDs
  <2>9. L \in [1 .. m * e[2] -> Ids \X Ids]
    BY <2>5, <2>7, <2>8
  <2> QED BY <2>6, <2>9 DEF IsList
<1> QED BY <1>1, <1>2

LEMMA ListNodes ==
    ASSUME NEW L, IsList(L)
    PROVE  /\ Radix \in Nat \ {0, 1} /\ Size(L) \in 1 .. Radix /\ NodesOf(L) \subseteq Ids
           /\ IsFiniteSet(Ends(L)) /\ IsFiniteSet(NodesOf(L)) /\ Cardinality(NodesOf(L)) = Size(L)
           /\ \A i \in DOMAIN L : L[i] \in NodesOf(L) \X NodesOf(L)
           /\ \A x \in Ends(L) : At(L, x) \in NodesOf(L) /\ Other(L, x) \in NodesOf(L)
<1>1. PICK k \in Nat : L \in [1 .. k -> Ids \X Ids]
  BY DEF IsList
<1> DEFINE S == {0} \cup {L[i][1] : i \in DOMAIN L} \cup {L[i][2] : i \in DOMAIN L}
           Gap == {Radix - 1 - s : s \in S}
<1>2. Radix \in Nat \ {0, 1}
  BY CSRAssumption
<1>3. \A i \in DOMAIN L : L[i] \in Ids \X Ids
  BY <1>1
<1>4. S \in SUBSET Ids /\ 0 \in S
  <2>1. 0 \in Ids
    BY <1>2 DEF Ids
  <2> QED BY <1>3, <2>1
<1>5. PICK max \in S : \A s \in S : s <= max
  <2> HIDE DEF S
  <2>1. \A s \in S : Radix - 1 - s \in Nat
    <3> TAKE s \in S
    <3>1. s \in 0 .. Radix - 1
      BY <1>4 DEF Ids
    <3> QED BY <1>2, <3>1
  <2>2. Gap \in SUBSET Nat /\ Gap # {}
    BY <1>4, <2>1
  <2>3. PICK gap \in Gap : \A y \in Gap : gap <= y
    <3> HIDE DEF Gap
    <3> QED BY <2>2, LeastNatural
  <2>4. PICK max \in S : gap = Radix - 1 - max
    OBVIOUS
  <2>5. ASSUME NEW s \in S PROVE s <= max
    <3>1. gap <= Radix - 1 - s
      BY <2>3
    <3>2. s \in Nat /\ max \in Nat
      BY <1>4 DEF Ids
    <3> QED BY <1>2, <2>4, <3>1, <3>2
  <2> QED BY <2>5
<1>6. FindMaxNodeID(L) \in S /\ \A s \in S : s <= FindMaxNodeID(L)
  <2>1. FindMaxNodeID(L) = Max(S)
    BY DEF FindMaxNodeID
  <2> HIDE DEF S
  <2>2. \A s \in S : max >= s
    BY <1>4, <1>5 DEF Ids
  <2>3. Max(S) \in S /\ \A s \in S : Max(S) >= s
    BY <2>2 DEF Max
  <2> QED BY <1>4, <2>1, <2>3 DEF Ids
<1>7. Size(L) \in 1 .. Radix /\ NodesOf(L) \subseteq Ids
  <2>1. PICK m \in S : m = FindMaxNodeID(L)
    BY <1>6
  <2>2. m \in 0 .. Radix - 1
    BY <1>4 DEF Ids
  <2> HIDE DEF S
  <2> QED BY <1>2, <2>1, <2>2 DEF Size, NodesOf, Ids
<1>8. \A s \in S : s \in NodesOf(L)
  <2>1. PICK m \in S : m = FindMaxNodeID(L)
    BY <1>6
  <2> HIDE DEF S
  <2> QED BY <1>2, <1>4, <1>6, <2>1 DEF Size, NodesOf, Ids
<1>9. ASSUME NEW i \in DOMAIN L PROVE L[i] \in NodesOf(L) \X NodesOf(L)
  <2>1. L[i][1] \in NodesOf(L) /\ L[i][2] \in NodesOf(L)
    BY <1>8
  <2> QED BY <1>3, <2>1
<1>10. ASSUME NEW x \in Ends(L) PROVE At(L, x) \in NodesOf(L) /\ Other(L, x) \in NodesOf(L)
  <2>1. x[1] \in DOMAIN L /\ x[2] \in {1, 2}
    BY DEF Ends
  <2>2. L[x[1]][1] \in NodesOf(L) /\ L[x[1]][2] \in NodesOf(L)
    BY <1>9, <2>1
  <2>3. 3 - x[2] \in {1, 2}
    BY <2>1
  <2> QED BY <2>1, <2>2, <2>3 DEF At, Other
<1>11. IsFiniteSet(Ends(L))
  <2>1. IsFiniteSet(1 .. k) /\ DOMAIN L = 1 .. k
    BY <1>1, FS_Interval
  <2>2. IsFiniteSet({1, 2})
    <3>1. {1, 2} = 1 .. 2
      OBVIOUS
    <3>2. 1 \in Int /\ 2 \in Int
      OBVIOUS
    <3>3. IsFiniteSet(1 .. 2)
      BY <3>2, FS_Interval, Zenon
    <3> QED BY <3>1, <3>3
  <2> QED BY <2>1, <2>2, FS_Product DEF Ends
<1>12. IsFiniteSet(NodesOf(L)) /\ Cardinality(NodesOf(L)) = Size(L)
  <2>1. PICK n \in 1 .. Radix : n = Size(L)
    BY <1>7
  <2>2. PICK m \in Nat : m = n - 1
    BY <1>2
  <2>3. IsFiniteSet(0 .. m) /\ Cardinality(0 .. m) = IF 0 > m THEN 0 ELSE m - 0 + 1
    <3>1. 0 \in Int /\ m \in Int
      OBVIOUS
    <3> QED BY <3>1, FS_Interval, Zenon
  <2>4. Cardinality(0 .. m) = m + 1
    BY <2>3
  <2> QED BY <1>2, <2>1, <2>2, <2>3, <2>4 DEF NodesOf
<1> QED BY <1>2, <1>7, <1>9, <1>10, <1>11, <1>12

(* How long the rows are and where they start, before and after SquishCSR.  *)
Deg(L) == [n \in NodesOf(L) |-> Cardinality(EndsAt(L, n))]
Out(L) == [n \in NodesOf(L) |-> Cardinality(Nbrs(L, n))]
Idx(L) == PrefixOf(Deg(L), Size(L))
SqIdx(L) == PrefixOf(Out(L), Size(L))

LEMMA RowLengths ==
    ASSUME NEW L, IsList(L), NEW n \in NodesOf(L)
    PROVE  /\ Reach(L, n) \subseteq NodesOf(L) /\ IsFiniteSet(EndsAt(L, n))
           /\ Nbrs(L, n) \in SUBSET Nat /\ IsFiniteSet(Nbrs(L, n))
           /\ Deg(L)[n] = Cardinality(EndsAt(L, n)) /\ Deg(L)[n] \in Nat
           /\ Out(L)[n] = Cardinality(Nbrs(L, n))
           /\ Out(L)[n] \in 0 .. Size(L) - 1 /\ Out(L)[n] <= Deg(L)[n]
           /\ IsOrdered(Ordered(Nbrs(L, n)), Nbrs(L, n))
<1> DEFINE from == [x \in EndsAt(L, n) |-> Other(L, x)]
<1>1. Reach(L, n) \subseteq NodesOf(L)
  BY ListNodes DEF Reach, EndsAt
<1>2. IsFiniteSet(EndsAt(L, n))
  <2>1. EndsAt(L, n) \in SUBSET Ends(L) /\ IsFiniteSet(Ends(L))
    BY ListNodes DEF EndsAt
  <2> QED BY <2>1, FS_Subset
<1>3. IsFiniteSet(NodesOf(L)) /\ Cardinality(NodesOf(L)) = Size(L) /\ Size(L) \in Nat
      /\ NodesOf(L) \in SUBSET Nat
  BY ListNodes DEF NodesOf
<1>4. IsFiniteSet(Reach(L, n)) /\ Cardinality(Reach(L, n)) <= Cardinality(EndsAt(L, n))
  <2>1. from \in Surjection(EndsAt(L, n), Reach(L, n))
    BY DEF Surjection, Reach
  <2> HIDE DEF from
  <2> QED BY <1>2, <2>1, FS_Surjection
<1>5. IsFiniteSet(Nbrs(L, n)) /\ Cardinality(Nbrs(L, n)) <= Cardinality(Reach(L, n))
  <2>1. Nbrs(L, n) \in SUBSET Reach(L, n)
    BY DEF Nbrs
  <2> QED BY <1>4, <2>1, FS_Subset
<1>6. Cardinality(Nbrs(L, n)) <= Size(L) - 1
  <2>1. IsFiniteSet(NodesOf(L) \ {n}) /\ Cardinality(NodesOf(L) \ {n}) = Cardinality(NodesOf(L)) - 1
    BY <1>3, FS_RemoveElement
  <2>2. Nbrs(L, n) \in SUBSET (NodesOf(L) \ {n})
    BY <1>1 DEF Nbrs
  <2>3. Cardinality(Nbrs(L, n)) <= Cardinality(NodesOf(L) \ {n})
    BY <2>1, <2>2, FS_Subset
  <2> QED BY <1>3, <2>1, <2>3
<1>7. Cardinality(Nbrs(L, n)) \in Nat /\ Cardinality(EndsAt(L, n)) \in Nat
      /\ Cardinality(Reach(L, n)) \in Nat
  BY <1>2, <1>4, <1>5, FS_CardinalityType
<1>8. Nbrs(L, n) \in SUBSET Nat
  BY <1>1, <1>3 DEF Nbrs
<1>9. IsOrdered(Ordered(Nbrs(L, n)), Nbrs(L, n))
  BY <1>5, <1>8, OrderedFacts
<1>10. Deg(L)[n] = Cardinality(EndsAt(L, n)) /\ Out(L)[n] = Cardinality(Nbrs(L, n))
  BY DEF Deg, Out
<1> QED BY <1>1, <1>2, <1>3, <1>4, <1>5, <1>6, <1>7, <1>8, <1>9, <1>10

LEMMA Indexes ==
    ASSUME NEW L, IsList(L)
    PROVE  /\ Size(L) \in Nat \ {0} /\ Counts(Deg(L), Size(L)) /\ Counts(Out(L), Size(L))
           /\ IsIndex(Idx(L), Deg(L), Size(L)) /\ IsIndex(SqIdx(L), Out(L), Size(L))
           /\ SqIdx(L)[Size(L)] \in 0 .. Radix * Radix - 1
<1>1. PICK k \in 1 .. Radix : k = Size(L)
  BY ListNodes
<1>2. Radix \in Nat \ {0, 1}
  BY ListNodes
<1>3. NodesOf(L) = 0 .. k - 1
  BY <1>1 DEF NodesOf
<1>4. Counts(Deg(L), k) /\ Counts(Out(L), k)
  BY <1>1, <1>3, RowLengths DEF Counts
<1>5. IsIndex(Idx(L), Deg(L), k) /\ IsIndex(SqIdx(L), Out(L), k)
  BY <1>1, <1>2, <1>4, PrefixOfIsIndex DEF Idx, SqIdx
<1> DEFINE p == SqIdx(L)
           S == {n \in 0 .. k : p[n] <= n * (k - 1)}
<1>6. 0 \in S
  BY <1>1, <1>2, <1>5 DEF IsIndex
<1>7. ASSUME NEW n \in 0 .. k - 1, n \in S PROVE n + 1 \in S
  <2>1. Out(L)[n] \in 0 .. k - 1
    BY <1>1, <1>3, RowLengths
  <2>2. p[n + 1] = p[n] + Out(L)[n] /\ p[n] \in Nat
    BY <1>5 DEF IsIndex
  <2>3. p[n] <= n * (k - 1)
    BY <1>7
  <2>4. (n + 1) * (k - 1) = n * (k - 1) + (k - 1) /\ n * (k - 1) \in Nat
    BY <1>2
  <2> HIDE DEF p
  <2>5. p[n + 1] <= (n + 1) * (k - 1)
    BY <1>2, <2>1, <2>2, <2>3, <2>4
  <2> QED BY <1>2, <2>5
<1>8. p[k] <= k * (k - 1) /\ p[k] \in Nat
  <2>1. 0 \in Nat /\ k \in Nat /\ k \in 0 .. k
    BY <1>2
  <2> HIDE DEF S, p
  <2>2. k \in S
    BY <1>6, <1>7, <2>1, IntervalInduction
  <2>3. p[k] \in Nat
    BY <1>5, <2>1 DEF IsIndex, p
  <2> QED BY <2>2, <2>3 DEF S
<1>9. k * (k - 1) <= Radix * Radix - 1
  <2>1. k * (k - 1) <= Radix * (k - 1)
    BY <1>2
  <2>2. Radix * (k - 1) <= Radix * (Radix - 1)
    BY <1>2
  <2>3. Radix * (Radix - 1) = Radix * Radix - Radix
    BY <1>2
  <2>4. k * (k - 1) \in Nat /\ Radix * (k - 1) \in Nat /\ Radix * Radix \in Nat
    BY <1>2
  <2> QED BY <1>2, <2>1, <2>2, <2>3, <2>4
<1> HIDE DEF p
<1>10. p[k] \in 0 .. Radix * Radix - 1
  <2>1. k * (k - 1) \in Nat /\ Radix * Radix \in Nat
    BY <1>2
  <2> QED BY <1>8, <1>9, <2>1
<1> QED BY <1>1, <1>2, <1>4, <1>5, <1>10 DEF p

(* The rows of an index lie one after the other.                            *)
LEMMA RowsApart ==
    ASSUME NEW k \in Nat, NEW d, Counts(d, k), NEW p, IsIndex(p, d, k),
           NEW a \in 0 .. k - 1
    PROVE  /\ p[a] \in Nat /\ p[a + 1] = p[a] + d[a] /\ d[a] \in Nat
           /\ p[a + 1] <= p[k] /\ p[k] \in Nat
           /\ p[a] .. p[a + 1] - 1 \subseteq 0 .. p[k] - 1
           /\ \A b \in 0 .. k - 1 : \A i \in p[a] .. p[a + 1] - 1 :
                  i \in p[b] .. p[b + 1] - 1 => a = b
<1>1. \A n \in 0 .. k : p[n] \in Nat
  BY DEF IsIndex
<1>2. \A n \in 0 .. k - 1 : p[n + 1] = p[n] + d[n]
  BY DEF IsIndex
<1>3. \A m \in 0 .. k : \A n \in m .. k : p[m] <= p[n]
  BY PrefixMonotone
<1>4. a \in 0 .. k /\ a + 1 \in 0 .. k /\ k \in a + 1 .. k /\ d[a] \in Nat
  BY DEF Counts
<1>5. p[a + 1] <= p[k]
  BY <1>3, <1>4
<1>6. ASSUME NEW b \in 0 .. k - 1, NEW i \in p[a] .. p[a + 1] - 1, i \in p[b] .. p[b + 1] - 1, a # b
      PROVE  FALSE
  <2>1. b + 1 \in 0 .. k /\ b \in 0 .. k
    OBVIOUS
  <2>2. p[a] \in Nat /\ p[a + 1] \in Nat /\ p[b] \in Nat /\ p[b + 1] \in Nat
    BY <1>1, <1>4, <2>1
  <2>3. CASE a < b
    <3>1. b \in a + 1 .. k
      BY <2>3
    <3>2. p[a + 1] <= p[b]
      BY <1>3, <1>4, <3>1
    <3> QED BY <1>6, <2>2, <3>2
  <2>4. CASE b < a
    <3>1. a \in b + 1 .. k
      BY <2>4
    <3>2. p[b + 1] <= p[a]
      BY <1>3, <2>1, <3>1
    <3> QED BY <1>6, <2>2, <3>2
  <2> QED BY <1>6, <2>3, <2>4
<1>7. p[a] .. p[a + 1] - 1 \subseteq 0 .. p[k] - 1
  <2>1. p[a] \in Nat /\ p[a + 1] \in Nat /\ p[k] \in Nat
    BY <1>1, <1>4
  <2> QED BY <1>5, <2>1
<1>8. p[a] \in Nat /\ p[k] \in Nat
  BY <1>1, <1>4
<1>9. \A b \in 0 .. k - 1 : \A i \in p[a] .. p[a + 1] - 1 : i \in p[b] .. p[b + 1] - 1 => a = b
  BY <1>6
<1>10. p[a + 1] = p[a] + d[a] /\ d[a] \in Nat
  BY <1>2, <1>4
<1> QED BY <1>5, <1>7, <1>8, <1>9, <1>10

(* How many of the ends in S are of n.                                      *)
Count(L, S, n) == Cardinality({x \in S : At(L, x) = n})

LEMMA CountGrows ==
    ASSUME NEW L, IsList(L), NEW S \in SUBSET Ends(L), NEW x \in Ends(L), x \notin S,
           NEW n \in NodesOf(L)
    PROVE  /\ Count(L, S, n) \in Nat
           /\ Count(L, S \cup {x}, n) = IF At(L, x) = n THEN Count(L, S, n) + 1 ELSE Count(L, S, n)
           /\ At(L, x) = n => Count(L, S, n) < Deg(L)[n]
<1> DEFINE T == {y \in S : At(L, y) = n}
           T2 == {y \in S \cup {x} : At(L, y) = n}
<1>1. IsFiniteSet(EndsAt(L, n)) /\ Deg(L)[n] = Cardinality(EndsAt(L, n)) /\ Deg(L)[n] \in Nat
  BY RowLengths
<1>2. T \in SUBSET EndsAt(L, n) /\ T2 \in SUBSET EndsAt(L, n) /\ x \notin T
  BY DEF EndsAt
<1>3. At(L, x) = n => T2 = T \cup {x}
  OBVIOUS
<1>4. At(L, x) # n => T2 = T
  OBVIOUS
<1>5. Count(L, S, n) = Cardinality(T) /\ Count(L, S \cup {x}, n) = Cardinality(T2)
  BY DEF Count
<1> HIDE DEF T, T2
<1>6. IsFiniteSet(T) /\ Cardinality(T2) <= Cardinality(EndsAt(L, n))
  BY <1>1, <1>2, FS_Subset
<1>7. Cardinality(T) \in Nat
  BY <1>6, FS_CardinalityType
<1>8. Cardinality(T \cup {x}) = Cardinality(T) + 1
  <2>1. Cardinality(T \cup {x}) = IF x \in T THEN Cardinality(T) ELSE Cardinality(T) + 1
    BY <1>6, FS_AddElement
  <2> QED BY <1>2, <2>1
<1>9. CASE At(L, x) = n
  <2>1. Cardinality(T2) = Cardinality(T) + 1
    BY <1>3, <1>8, <1>9
  <2>2. Cardinality(T) + 1 <= Deg(L)[n]
    BY <1>1, <1>6, <2>1
  <2> QED BY <1>1, <1>5, <1>7, <1>9, <2>1, <2>2
<1>10. CASE At(L, x) # n
  BY <1>4, <1>5, <1>7, <1>10
<1> QED BY <1>9, <1>10

LEMMA CountEnds ==
    ASSUME NEW L, IsList(L), NEW n \in NodesOf(L)
    PROVE  Count(L, {}, n) = 0 /\ Count(L, Ends(L), n) = Deg(L)[n]
<1>1. {x \in {} : At(L, x) = n} = {}
  OBVIOUS
<1>2. Count(L, {}, n) = 0
  BY <1>1, FS_EmptySet DEF Count
<1>3. Count(L, Ends(L), n) = Cardinality(EndsAt(L, n))
  BY DEF Count, EndsAt
<1> QED BY <1>2, <1>3, RowLengths

LEMMA CountMost ==
    ASSUME NEW L, IsList(L), NEW S \in SUBSET Ends(L), NEW n \in NodesOf(L)
    PROVE  Count(L, S, n) \in Nat /\ Count(L, S, n) <= Deg(L)[n]
<1> DEFINE T == {y \in S : At(L, y) = n}
<1>1. IsFiniteSet(EndsAt(L, n)) /\ Deg(L)[n] = Cardinality(EndsAt(L, n)) /\ Deg(L)[n] \in Nat
  BY RowLengths
<1>2. T \in SUBSET EndsAt(L, n)
  BY DEF EndsAt
<1>3. Count(L, S, n) = Cardinality(T)
  BY DEF Count
<1> HIDE DEF T
<1>4. IsFiniteSet(T) /\ Cardinality(T) <= Cardinality(EndsAt(L, n))
  BY <1>1, <1>2, FS_Subset
<1> QED BY <1>1, <1>3, <1>4, FS_CardinalityType
-----------------------------------------------------------------------------
(* The neighbours of a node are those it shares an unordered pair with, and *)
(* there are twice as many of them as there are pairs of two nodes.         *)
Pairs(L) == {{L[i][1], L[i][2]} : i \in DOMAIN L}

LEMMA NbrsInPairs ==
    ASSUME NEW L, IsList(L), NEW n \in NodesOf(L)
    PROVE  Nbrs(L, n) = {m \in NodesOf(L) \ {n} : {m, n} \in Pairs(L)}
<1>1. ASSUME NEW m \in Nbrs(L, n) PROVE m \in NodesOf(L) \ {n} /\ {m, n} \in Pairs(L)
  <2>1. PICK x \in Ends(L) : At(L, x) = n /\ Other(L, x) = m
    BY <1>1 DEF Nbrs, Reach, EndsAt
  <2>2. x[1] \in DOMAIN L /\ x[2] \in {1, 2}
    BY DEF Ends
  <2>3. {m, n} = {L[x[1]][1], L[x[1]][2]}
    <3>1. CASE x[2] = 1
      BY <2>1, <3>1 DEF At, Other
    <3>2. CASE x[2] = 2
      BY <2>1, <3>2 DEF At, Other
    <3> QED BY <2>2, <3>1, <3>2
  <2>4. {m, n} \in Pairs(L)
    BY <2>2, <2>3 DEF Pairs
  <2> QED BY <1>1, <2>4, RowLengths DEF Nbrs
<1>2. ASSUME NEW m \in NodesOf(L) \ {n}, {m, n} \in Pairs(L) PROVE m \in Nbrs(L, n)
  <2>1. PICK i \in DOMAIN L : {m, n} = {L[i][1], L[i][2]}
    BY <1>2 DEF Pairs
  <2>2. m # n
    OBVIOUS
  <2>3. (L[i][1] = n /\ L[i][2] = m) \/ (L[i][1] = m /\ L[i][2] = n)
    BY <2>1, <2>2
  <2>4. \E x \in Ends(L) : At(L, x) = n /\ Other(L, x) = m
    <3>1. <<i, 1>> \in Ends(L) /\ <<i, 2>> \in Ends(L)
      BY DEF Ends
    <3>2. CASE L[i][1] = n /\ L[i][2] = m
      <4>1. At(L, <<i, 1>>) = n /\ Other(L, <<i, 1>>) = m
        BY <3>2 DEF At, Other
      <4> QED BY <3>1, <4>1
    <3>3. CASE L[i][1] = m /\ L[i][2] = n
      <4>1. At(L, <<i, 2>>) = n /\ Other(L, <<i, 2>>) = m
        BY <3>3 DEF At, Other
      <4> QED BY <3>1, <4>1
    <3> QED BY <2>3, <3>2, <3>3
  <2> QED BY <2>2, <2>4 DEF Nbrs, Reach, EndsAt
<1> QED BY <1>1, <1>2

(* The rows of the nodes below b, as pairs of node and neighbour.           *)
Directed(L, b) == {x \in (0 .. b - 1) \X NodesOf(L) : x[2] \in Nbrs(L, x[1])}

LEMMA DirectedCount ==
    ASSUME NEW L, IsList(L)
    PROVE  IsFiniteSet(Directed(L, Size(L))) /\ Cardinality(Directed(L, Size(L))) = SqIdx(L)[Size(L)]
<1> DEFINE D(b) == Directed(L, b)
           p == SqIdx(L)
           S == {b \in 0 .. Size(L) : IsFiniteSet(D(b)) /\ Cardinality(D(b)) = p[b]}
<1>1. Size(L) \in Nat \ {0} /\ IsIndex(p, Out(L), Size(L))
  BY Indexes
<1>2. 0 \in S
  <2>1. D(0) = {}
    BY DEF Directed
  <2> HIDE DEF D, p
  <2>2. IsFiniteSet(D(0)) /\ Cardinality(D(0)) = 0
    BY <2>1, FS_EmptySet
  <2>3. p[0] = 0 /\ 0 \in 0 .. Size(L)
    BY <1>1 DEF IsIndex
  <2> QED BY <2>2, <2>3
<1>3. ASSUME NEW b \in 0 .. Size(L) - 1, b \in S PROVE b + 1 \in S
  <2> DEFINE row == {b} \X Nbrs(L, b)
  <2>1. b \in NodesOf(L)
    BY DEF NodesOf
  <2>2. IsFiniteSet(Nbrs(L, b)) /\ Out(L)[b] = Cardinality(Nbrs(L, b)) /\ Out(L)[b] \in Nat
        /\ Nbrs(L, b) \subseteq NodesOf(L)
    <3>1. Out(L)[b] \in 0 .. Size(L) - 1
      BY <2>1, RowLengths
    <3>2. Nbrs(L, b) \subseteq NodesOf(L)
      BY <2>1, RowLengths DEF Nbrs
    <3> QED BY <1>1, <2>1, <3>1, <3>2, RowLengths
  <2>3. IsFiniteSet({b}) /\ Cardinality({b}) = 1
    BY FS_Singleton
  <2>4. IsFiniteSet(row) /\ Cardinality(row) = 1 * Cardinality(Nbrs(L, b))
    <3>1. IsFiniteSet(row) /\ Cardinality(row) = Cardinality({b}) * Cardinality(Nbrs(L, b))
      BY <2>2, <2>3, FS_Product
    <3> QED BY <2>3, <3>1
  <2>5. D(b + 1) = D(b) \cup row /\ D(b) \cap row = {}
    <3>1. (b + 1) - 1 = b /\ 0 .. b = (0 .. b - 1) \cup {b} /\ b \notin 0 .. b - 1
      OBVIOUS
    <3>2. ASSUME NEW x \in D(b + 1) PROVE x \in D(b) \cup row
      <4>1. x \in (0 .. b) \X NodesOf(L) /\ x[2] \in Nbrs(L, x[1])
        BY <3>1 DEF Directed
      <4>2. CASE x[1] = b
        BY <4>1, <4>2
      <4>3. CASE x[1] # b
        <5>1. x \in (0 .. b - 1) \X NodesOf(L)
          BY <3>1, <4>1, <4>3
        <5> QED BY <4>1, <5>1 DEF Directed
      <4> QED BY <4>2, <4>3
    <3>3. ASSUME NEW x \in D(b) PROVE x \in D(b + 1) /\ x \notin row
      BY <3>1 DEF Directed
    <3>4. ASSUME NEW x \in row PROVE x \in D(b + 1)
      <4>1. x \in (0 .. b) \X NodesOf(L) /\ x[2] \in Nbrs(L, x[1])
        BY <2>2, <3>1
      <4> QED BY <3>1, <4>1 DEF Directed
    <3> HIDE DEF D, row
    <3> QED BY <3>2, <3>3, <3>4
  <2>6. IsFiniteSet(D(b)) /\ Cardinality(D(b)) = p[b] /\ p[b] \in Nat /\ p[b + 1] = p[b] + Out(L)[b]
    BY <1>1, <1>3 DEF IsIndex
  <2> HIDE DEF D, row, p
  <2>7. IsFiniteSet(D(b) \cup row)
        /\ Cardinality(D(b) \cup row) = Cardinality(D(b)) + Cardinality(row) - Cardinality(D(b) \cap row)
    BY <2>4, <2>6, FS_Union
  <2>8. Cardinality(D(b) \cap row) = 0
    BY <2>5, FS_EmptySet
  <2>9. Cardinality(row) = Out(L)[b]
    BY <2>2, <2>4
  <2>10. Cardinality(D(b) \cup row) = p[b] + Out(L)[b]
    BY <2>2, <2>6, <2>7, <2>8, <2>9
  <2>11. IsFiniteSet(D(b + 1)) /\ Cardinality(D(b + 1)) = p[b + 1]
    BY <2>5, <2>6, <2>7, <2>10
  <2>12. b + 1 \in 0 .. Size(L)
    BY <1>1
  <2> QED BY <2>11, <2>12
<1> HIDE DEF S, D, p
<1>4. Size(L) \in S
  <2>1. 0 \in Nat /\ Size(L) \in Nat /\ Size(L) \in 0 .. Size(L)
    BY <1>1
  <2> QED BY <1>2, <1>3, <2>1, IntervalInduction
<1> QED BY <1>4 DEF S, D, p

LEMMA EdgeCount ==
    ASSUME NEW L, IsList(L)
    PROVE  LET both == {q \in Pairs(L) : Cardinality(q) = 2}
           IN  /\ Cardinality(both) \in Nat
               /\ SqIdx(L)[Size(L)] = 2 * Cardinality(both)
<1> DEFINE D == Directed(L, Size(L))
           up == {x \in D : x[1] < x[2]}
           down == {x \in D : x[2] < x[1]}
           both == {q \in Pairs(L) : Cardinality(q) = 2}
           swap == [x \in up |-> <<x[2], x[1]>>]
           pair == [x \in up |-> {x[1], x[2]}]
<1>1. IsFiniteSet(D) /\ Cardinality(D) = SqIdx(L)[Size(L)]
  BY DirectedCount
<1>2. Size(L) \in Nat \ {0} /\ NodesOf(L) = 0 .. Size(L) - 1
  BY Indexes DEF NodesOf
<1>3. \A a, b : <<a, b>> \in D <=> a \in NodesOf(L) /\ b \in NodesOf(L) /\ a # b /\ {a, b} \in Pairs(L)
  <2> SUFFICES ASSUME NEW a, NEW b
               PROVE  <<a, b>> \in D <=> a \in NodesOf(L) /\ b \in NodesOf(L) /\ a # b /\ {a, b} \in Pairs(L)
    OBVIOUS
  <2>1. <<a, b>> \in D <=> a \in NodesOf(L) /\ b \in NodesOf(L) /\ b \in Nbrs(L, a)
    BY <1>2 DEF Directed
  <2>2. a \in NodesOf(L) => (b \in Nbrs(L, a) <=> b \in NodesOf(L) \ {a} /\ {b, a} \in Pairs(L))
    BY NbrsInPairs
  <2>3. {a, b} = {b, a}
    OBVIOUS
  <2> QED BY <2>1, <2>2, <2>3
<1>4. \A x \in D : x[1] \in NodesOf(L) /\ x[2] \in NodesOf(L) /\ x = <<x[1], x[2]>>
  BY <1>2 DEF Directed
<1> HIDE DEF D
<1>5. D = up \cup down /\ up \cap down = {}
  <2>1. ASSUME NEW x \in D PROVE x[1] < x[2] \/ x[2] < x[1]
    <3>1. x[1] # x[2]
      <4>1. <<x[1], x[2]>> \in D
        BY <1>4
      <4> QED BY <1>3, <4>1
    <3>2. x[1] \in Nat /\ x[2] \in Nat
      BY <1>2, <1>4
    <3> QED BY <3>1, <3>2
  <2>2. ASSUME NEW x \in D PROVE ~(x[1] < x[2] /\ x[2] < x[1])
    <3>1. x[1] \in Nat /\ x[2] \in Nat
      BY <1>2, <1>4
    <3> QED BY <3>1
  <2> QED BY <2>1, <2>2
<1>6. IsFiniteSet(up) /\ IsFiniteSet(down)
  <2>1. up \in SUBSET D /\ down \in SUBSET D
    OBVIOUS
  <2> HIDE DEF up, down
  <2> QED BY <1>1, <2>1, FS_Subset
<1>7. Cardinality(down) = Cardinality(up)
  <2>1. swap \in [up -> down]
    <3> SUFFICES ASSUME NEW x \in up PROVE <<x[2], x[1]>> \in down
      OBVIOUS
    <3>1. <<x[2], x[1]>> \in D
      <4>1. {x[1], x[2]} = {x[2], x[1]}
        OBVIOUS
      <4>2. x[1] \in NodesOf(L) /\ x[2] \in NodesOf(L) /\ x[1] # x[2] /\ {x[1], x[2]} \in Pairs(L)
        BY <1>3, <1>4
      <4> QED BY <1>3, <4>1, <4>2
    <3> QED BY <3>1
  <2>2. \A x, y \in up : swap[x] = swap[y] => x = y
    BY <1>4
  <2>3. \A z \in down : \E x \in up : swap[x] = z
    <3> TAKE z \in down
    <3>1. <<z[2], z[1]>> \in up
      <4>1. {z[1], z[2]} = {z[2], z[1]}
        OBVIOUS
      <4>2. z[1] \in NodesOf(L) /\ z[2] \in NodesOf(L) /\ z[1] # z[2] /\ {z[1], z[2]} \in Pairs(L)
        BY <1>3, <1>4
      <4>3. <<z[2], z[1]>> \in D
        BY <1>3, <4>1, <4>2
      <4> QED BY <4>3
    <3>2. swap[<<z[2], z[1]>>] = z
      BY <1>4, <3>1
    <3> QED BY <3>1, <3>2
  <2> HIDE DEF swap, up, down
  <2>4. swap \in Bijection(up, down)
    BY <2>1, <2>2, <2>3 DEF Bijection, Injection, Surjection, IsInjective
  <2>5. ExistsBijection(up, down)
    BY <2>4 DEF ExistsBijection
  <2> QED BY <1>6, <2>5, FS_Bijection
<1>8. Cardinality(both) = Cardinality(up)
  <2>1. \A a, b : a # b => Cardinality({a, b}) = 2
    <3> TAKE a, b
    <3> HAVE a # b
    <3>1. IsFiniteSet({a}) /\ Cardinality({a}) = 1
      BY FS_Singleton
    <3>2. Cardinality({a} \cup {b}) = IF b \in {a} THEN Cardinality({a}) ELSE Cardinality({a}) + 1
      BY <3>1, FS_AddElement
    <3>3. {a} \cup {b} = {a, b} /\ b \notin {a}
      OBVIOUS
    <3> QED BY <3>1, <3>2, <3>3
  <2>2. pair \in [up -> both]
    <3> SUFFICES ASSUME NEW x \in up PROVE {x[1], x[2]} \in both
      OBVIOUS
    <3>1. x[1] # x[2] /\ {x[1], x[2]} \in Pairs(L)
      BY <1>3, <1>4
    <3> QED BY <2>1, <3>1
  <2>3. \A x, y \in up : pair[x] = pair[y] => x = y
    <3> SUFFICES ASSUME NEW x \in up, NEW y \in up, {x[1], x[2]} = {y[1], y[2]} PROVE x = y
      OBVIOUS
    <3>1. x[1] \in Nat /\ x[2] \in Nat /\ y[1] \in Nat /\ y[2] \in Nat /\ x[1] < x[2] /\ y[1] < y[2]
      BY <1>2, <1>4
    <3>2. (x[1] = y[1] /\ x[2] = y[2]) \/ (x[1] = y[2] /\ x[2] = y[1])
      BY <3>1
    <3>3. x[1] = y[1] /\ x[2] = y[2]
      BY <3>1, <3>2
    <3> QED BY <1>4, <3>3
  <2>4. \A q \in both : \E x \in up : pair[x] = q
    <3> TAKE q \in both
    <3>1. PICK i \in DOMAIN L : q = {L[i][1], L[i][2]}
      BY DEF Pairs
    <3>2. PICK a \in NodesOf(L), b \in NodesOf(L) : a = L[i][1] /\ b = L[i][2]
      <4>1. L[i] \in NodesOf(L) \X NodesOf(L)
        BY ListNodes
      <4> QED BY <4>1
    <3>3. a # b
      <4>1. Cardinality({a}) = 1
        BY FS_Singleton
      <4>2. a = b => q = {a}
        BY <3>1, <3>2
      <4> QED BY <4>1, <4>2
    <3>4. a \in Nat /\ b \in Nat
      BY <1>2
    <3>5. q = {a, b} /\ q = {b, a} /\ q \in Pairs(L)
      BY <3>1, <3>2
    <3>6. <<a, b>> \in D /\ <<b, a>> \in D
      BY <1>3, <3>3, <3>5
    <3>7. CASE a < b
      <4>1. <<a, b>> \in up /\ pair[<<a, b>>] = q
        BY <3>5, <3>6, <3>7
      <4> QED BY <4>1
    <3>8. CASE b < a
      <4>1. <<b, a>> \in up /\ pair[<<b, a>>] = q
        BY <3>5, <3>6, <3>8
      <4> QED BY <4>1
    <3> QED BY <3>3, <3>4, <3>7, <3>8
  <2> HIDE DEF pair, up, both
  <2>5. pair \in Bijection(up, both)
    BY <2>2, <2>3, <2>4 DEF Bijection, Injection, Surjection, IsInjective
  <2>6. ExistsBijection(up, both)
    BY <2>5 DEF ExistsBijection
  <2> QED BY <1>6, <2>6, FS_Bijection
<1> HIDE DEF up, down, both
<1>9. Cardinality(up \cup down) = Cardinality(up) + Cardinality(down) - Cardinality(up \cap down)
  BY <1>6, FS_Union
<1>10. Cardinality(up \cap down) = 0 /\ Cardinality(up) \in Nat
  BY <1>5, <1>6, FS_EmptySet, FS_CardinalityType
<1>11. Cardinality(D) = 2 * Cardinality(both)
  BY <1>5, <1>7, <1>8, <1>9, <1>10
<1> QED BY <1>1, <1>8, <1>10, <1>11 DEF both
-----------------------------------------------------------------------------
(* The invariant, of the edge list L and of the set S of its ends that were *)
(* counted, or claimed a slot for, by the loop that runs.                   *)
Holds(t) == pc[t] \in {"store_u", "store_v"}
HeldEnd(t) == <<edge[t], IF pc[t] = "store_u" THEN 1 ELSE 2>>
Owner(L, t) == At(L, HeldEnd(t))

(* Threads work at edges of their own, taken from those the loop has left,  *)
(* and between the two ends the second is not taken yet.                    *)
Loops(L, S) ==
    /\ el = L /\ phase \in PhaseNames
    /\ pc \in [Threads -> Steps] /\ edge \in [Threads -> {0} \cup DOMAIN L] /\ slot \in [Threads -> Int]
    /\ todo \subseteq IF phase \in {"count", "fill"} THEN DOMAIN L ELSE NodesOf(L)
    /\ \A t \in Threads : /\ pc[t] = "count_v" => phase = "count"
                          /\ pc[t] \in {"store_u", "claim_v", "store_v"} => phase = "fill"
                          /\ pc[t] # "idle" => edge[t] \in DOMAIN L /\ edge[t] \notin todo
    /\ \A s, t \in Threads : pc[s] # "idle" /\ pc[t] # "idle" /\ s # t => edge[s] # edge[t]
    /\ phase \in {"count", "fill"} =>
           \A x \in Ends(L) : x \in S <=>
               /\ x[1] \notin todo
               /\ x[2] = 2 => \A t \in Threads :
                      pc[t] \in {"count_v", "store_u", "claim_v"} => edge[t] # x[1]

Counting(L, S) ==
    IF phase = "count"
    THEN degrees \in [NodesOf(L) -> Nat] /\ \A n \in NodesOf(L) : degrees[n] = Count(L, S, n)
    ELSE degrees = Deg(L) /\ index = Idx(L)

Storage(L) ==
    phase # "count" => /\ offsets \in [0 .. Size(L) -> Nat]
                       /\ neighs \in [0 .. Idx(L)[Size(L)] - 1 -> Ids \cup {None}]

(* While the rows fill: what is claimed of a row is its beginning, a cell   *)
(* of it is empty only while a thread holds it, and the node at the other   *)
(* of each end claimed for is there or about to be.                         *)
Filling(L, S) ==
    phase = "fill" =>
        /\ \A n \in NodesOf(L) : offsets[n] = Idx(L)[n] + Count(L, S, n)
        /\ \A t \in Threads : Holds(t) =>
               /\ slot[t] \in Idx(L)[Owner(L, t)] .. offsets[Owner(L, t)] - 1
               /\ neighs[slot[t]] = None
        /\ \A s, t \in Threads : Holds(s) /\ Holds(t) /\ s # t => slot[s] # slot[t]
        /\ \A n \in NodesOf(L) :
               /\ \A i \in offsets[n] .. Idx(L)[n + 1] - 1 : neighs[i] = None
               /\ \A i \in Idx(L)[n] .. offsets[n] - 1 :
                      IF neighs[i] = None THEN \E t \in Threads : Holds(t) /\ slot[t] = i
                                          ELSE neighs[i] \in Reach(L, n)
        /\ \A x \in S : \/ \E t \in Threads : Holds(t) /\ HeldEnd(t) = x
                        \/ \E i \in Idx(L)[At(L, x)] .. offsets[At(L, x)] - 1 : neighs[i] = Other(L, x)

(* A row of an array holds a sequence, or the elements of a set.            *)
RowIs(array, at, row) == \A k \in DOMAIN row : array[at + k - 1] = row[k]

RowOf(array, from, to, set) ==
    /\ \A i \in from .. to - 1 : array[i] \in set
    /\ \A x \in set : \E i \in from .. to - 1 : array[i] = x

Squishing(L) ==
    phase = "squish" =>
        /\ diffs \in [NodesOf(L) -> Nat]
        /\ \A n \in NodesOf(L) :
               IF n \in todo THEN RowOf(neighs, Idx(L)[n], Idx(L)[n + 1], Reach(L, n))
               ELSE diffs[n] = Out(L)[n] /\ RowIs(neighs, Idx(L)[n], Ordered(Nbrs(L, n)))

AllOf(L) == SqIdx(L)[Size(L)]

Copying(L) ==
    phase \in {"copy", "sizes", "rows", "done"} =>
        /\ diffs = Out(L) /\ sqIndex = SqIdx(L)
        /\ sqNeighs \in [0 .. AllOf(L) - 1 -> Ids \cup {None}]
        /\ \A n \in NodesOf(L) :
               /\ phase = "copy" => RowIs(neighs, Idx(L)[n], Ordered(Nbrs(L, n)))
               /\ phase # "copy" \/ n \notin todo => RowIs(sqNeighs, SqIdx(L)[n], Ordered(Nbrs(L, n)))

(* Where the size and the row of a node are in the region.                  *)
SizeAt(L, n) == SizesAt(AllOf(L)) + n * Wide
RowAt(L, n) == RowsAt(AllOf(L), Size(L) + 1) + SqIdx(L)[n]
Length(L) == RowsAt(AllOf(L), Size(L) + 1) + AllOf(L)

Layout(L, mem, now, left) ==
    /\ mem \in [0 .. Length(L) - 1 -> Ids \cup {None}]
    /\ Get64(mem, NumNodesAt) = Size(L) /\ Get64(mem, IndexXAt) = Size(L) + 1
    /\ Get64(mem, NeighSizeAt) = AllOf(L)
    /\ IF now = "done" THEN mem[0] = 1
       ELSE \A c \in {0} \cup NeighsAt .. SizesAt(AllOf(L)) - 1 : mem[c] = None
    /\ \A n \in NodesOf(L) :
           IF now = "sizes" /\ n \in left
           THEN mem[SizeAt(L, n)] = None /\ mem[SizeAt(L, n) + 1] = None
           ELSE Get64(mem, SizeAt(L, n)) = Out(L)[n]
    /\ \A n \in NodesOf(L) :
           IF now = "sizes" \/ (now = "rows" /\ n \in left)
           THEN \A c \in RowAt(L, n) .. RowAt(L, n) + Out(L)[n] - 1 : mem[c] = None
           ELSE RowIs(mem, RowAt(L, n), Ordered(Nbrs(L, n)))

LayingOut(L) ==
    IF phase \in {"sizes", "rows", "done"} THEN Layout(L, region, phase, todo) ELSE region = <<>>

Inv(L, S) ==
    /\ Loops(L, S) /\ Counting(L, S) /\ Storage(L) /\ Filling(L, S)
    /\ Squishing(L) /\ Copying(L) /\ LayingOut(L)

IInv == \E L \in AllEdgeLists : \E S \in SUBSET Ends(L) : Inv(L, S)
-----------------------------------------------------------------------------
LEMMA Statics ==
    ASSUME NEW L \in AllEdgeLists, el = L
    PROVE  IsList(L) /\ NumNodes = Size(L) /\ Nodes = NodesOf(L)
BY AreLists DEF NumNodes, Size, Nodes, NodesOf

LEMMA EndFacts ==
    ASSUME NEW L, NEW e \in DOMAIN L
    PROVE  /\ <<e, 1>> \in Ends(L) /\ <<e, 2>> \in Ends(L)
           /\ At(L, <<e, 1>>) = L[e][1] /\ Other(L, <<e, 1>>) = L[e][2]
           /\ At(L, <<e, 2>>) = L[e][2] /\ Other(L, <<e, 2>>) = L[e][1]
BY DEF Ends, At, Other

(* What the steps of a loop over the edges do to the ends that are taken:   *)
(* its first step takes the first end of an edge that was left,             *)
LEMMA FirstEnd ==
    ASSUME NEW L, NEW S \in SUBSET Ends(L), Loops(L, S),
           NEW t \in Threads, NEW e \in todo, pc[t] = "idle", NEW step,
           \/ phase = "count" /\ step = "count_v"
           \/ phase = "fill" /\ step = "store_u",
           todo' = todo \ {e}, edge' = [edge EXCEPT ![t] = e], pc' = [pc EXCEPT ![t] = step],
           slot' \in [Threads -> Int], el' = el, phase' = phase
    PROVE  /\ e \in DOMAIN L /\ <<e, 1>> \in Ends(L) /\ <<e, 1>> \notin S
           /\ Loops(L, S \cup {<<e, 1>>})'
<1> USE DEF Loops
<1>1. e \in DOMAIN L
  OBVIOUS
<1>2. <<e, 1>> \in Ends(L) /\ <<e, 1>> \notin S
  BY <1>1, EndFacts
<1>3. step \in Steps \ {"idle"} /\ step \in {"count_v", "store_u"}
  BY DEF Steps
<1>4. pc' \in [Threads -> Steps] /\ pc'[t] = step /\ \A s \in Threads \ {t} : pc'[s] = pc[s]
  BY <1>3
<1>5. edge' \in [Threads -> {0} \cup DOMAIN L] /\ edge'[t] = e /\ \A s \in Threads \ {t} : edge'[s] = edge[s]
  BY <1>1
<1>6. todo' \subseteq DOMAIN L
  OBVIOUS
<1>7. ASSUME NEW s \in Threads
      PROVE  /\ pc'[s] = "count_v" => phase = "count"
             /\ pc'[s] \in {"store_u", "claim_v", "store_v"} => phase = "fill"
             /\ pc'[s] # "idle" => edge'[s] \in DOMAIN L /\ edge'[s] \notin todo'
  <2>1. CASE s = t
    BY <1>1, <1>3, <1>4, <1>5, <2>1
  <2>2. CASE s # t
    BY <1>4, <1>5, <2>2
  <2> QED BY <2>1, <2>2
<1>8. \A r, s \in Threads : pc'[r] # "idle" /\ pc'[s] # "idle" /\ r # s => edge'[r] # edge'[s]
  <2> SUFFICES ASSUME NEW r \in Threads, NEW s \in Threads, pc'[r] # "idle", pc'[s] # "idle", r # s
               PROVE  edge'[r] # edge'[s]
    OBVIOUS
  <2>1. CASE r = t
    BY <1>4, <1>5, <2>1
  <2>2. CASE s = t
    BY <1>4, <1>5, <2>2
  <2>3. CASE r # t /\ s # t
    BY <1>4, <1>5, <2>3
  <2> QED BY <2>1, <2>2, <2>3
<1>9. ASSUME NEW x \in Ends(L)
      PROVE  x \in S \cup {<<e, 1>>} <=>
               /\ x[1] \notin todo'
               /\ x[2] = 2 => \A s \in Threads :
                      pc'[s] \in {"count_v", "store_u", "claim_v"} => edge'[s] # x[1]
  <2>1. x[1] \in DOMAIN L /\ x[2] \in {1, 2} /\ x = <<x[1], x[2]>>
    BY DEF Ends
  <2>2. CASE x[1] = e
    <3>1. x \notin S /\ x[1] \notin todo'
      BY <2>2
    <3>2. CASE x[2] = 1
      BY <2>1, <2>2, <3>1, <3>2
    <3>3. CASE x[2] = 2
      BY <1>3, <1>4, <1>5, <2>1, <2>2, <3>1, <3>3
    <3> QED BY <2>1, <3>2, <3>3
  <2>3. CASE x[1] # e
    <3>1. x # <<e, 1>> /\ (x[1] \in todo' <=> x[1] \in todo)
      BY <2>1, <2>3
    <3>2. (\A s \in Threads : pc'[s] \in {"count_v", "store_u", "claim_v"} => edge'[s] # x[1])
          <=> (\A s \in Threads : pc[s] \in {"count_v", "store_u", "claim_v"} => edge[s] # x[1])
      BY <1>4, <1>5, <2>3
    <3> QED BY <3>1, <3>2
  <2> QED BY <2>2, <2>3
<1> QED BY <1>1, <1>2, <1>4, <1>5, <1>6, <1>7, <1>8, <1>9

(* a later one takes the second,                                            *)
LEMMA SecondEnd ==
    ASSUME NEW L, NEW S \in SUBSET Ends(L), Loops(L, S), NEW t \in Threads, NEW step,
           \/ pc[t] = "count_v" /\ step = "idle"
           \/ pc[t] = "claim_v" /\ step = "store_v",
           pc' = [pc EXCEPT ![t] = step], edge' = edge, todo' = todo,
           slot' \in [Threads -> Int], el' = el, phase' = phase
    PROVE  /\ edge[t] \in DOMAIN L /\ <<edge[t], 2>> \in Ends(L) /\ <<edge[t], 2>> \notin S
           /\ Loops(L, S \cup {<<edge[t], 2>>})'
<1> USE DEF Loops
<1>1. edge[t] \in DOMAIN L /\ edge[t] \notin todo /\ phase \in {"count", "fill"}
  OBVIOUS
<1>2. <<edge[t], 2>> \in Ends(L) /\ <<edge[t], 2>> \notin S
  BY <1>1, EndFacts
<1>3. pc' \in [Threads -> Steps] /\ pc'[t] = step /\ \A s \in Threads \ {t} : pc'[s] = pc[s]
  BY DEF Steps
<1>4. ASSUME NEW s \in Threads
      PROVE  /\ pc'[s] = "count_v" => phase = "count"
             /\ pc'[s] \in {"store_u", "claim_v", "store_v"} => phase = "fill"
             /\ pc'[s] # "idle" => edge[s] \in DOMAIN L /\ edge[s] \notin todo
             /\ pc'[s] # "idle" => pc[s] # "idle"
  <2>1. CASE s = t
    BY <1>1, <1>3, <2>1
  <2>2. CASE s # t
    BY <1>3, <2>2
  <2> QED BY <2>1, <2>2
<1>5. \A r, s \in Threads : pc'[r] # "idle" /\ pc'[s] # "idle" /\ r # s => edge[r] # edge[s]
  BY <1>4
<1>6. ASSUME NEW x \in Ends(L)
      PROVE  x \in S \cup {<<edge[t], 2>>} <=>
               /\ x[1] \notin todo
               /\ x[2] = 2 => \A s \in Threads :
                      pc'[s] \in {"count_v", "store_u", "claim_v"} => edge[s] # x[1]
  <2>1. x[1] \in DOMAIN L /\ x[2] \in {1, 2} /\ x = <<x[1], x[2]>>
    BY DEF Ends
  <2>2. CASE x[1] = edge[t] /\ x[2] = 2
    <3>1. \A s \in Threads \ {t} : pc'[s] \in {"count_v", "store_u", "claim_v"} => edge[s] # edge[t]
      BY <1>3
    <3> QED BY <1>1, <1>3, <2>1, <2>2, <3>1
  <2>3. CASE x[1] # edge[t] \/ x[2] # 2
    <3>1. x # <<edge[t], 2>>
      BY <2>1, <2>3
    <3>2. x[2] = 2 =>
            ((\A s \in Threads : pc'[s] \in {"count_v", "store_u", "claim_v"} => edge[s] # x[1])
             <=> (\A s \in Threads : pc[s] \in {"count_v", "store_u", "claim_v"} => edge[s] # x[1]))
      BY <1>3, <2>3
    <3> QED BY <1>1, <3>1, <3>2
  <2> QED BY <2>1, <2>2, <2>3
<1> QED BY <1>1, <1>2, <1>3, <1>4, <1>5, <1>6

(* and the stores take none.                                                *)
LEMMA SameEnds ==
    ASSUME NEW L, NEW S \in SUBSET Ends(L), Loops(L, S), NEW t \in Threads, NEW step,
           \/ pc[t] = "store_u" /\ step = "claim_v"
           \/ pc[t] = "store_v" /\ step = "idle",
           pc' = [pc EXCEPT ![t] = step], edge' = edge, todo' = todo, slot' = slot, el' = el, phase' = phase
    PROVE  edge[t] \in DOMAIN L /\ Loops(L, S)'
<1> USE DEF Loops
<1>1. pc' \in [Threads -> Steps] /\ pc'[t] = step /\ \A s \in Threads \ {t} : pc'[s] = pc[s]
  BY DEF Steps
<1>2. ASSUME NEW s \in Threads
      PROVE  /\ pc'[s] = "count_v" => phase = "count"
             /\ pc'[s] \in {"store_u", "claim_v", "store_v"} => phase = "fill"
             /\ pc'[s] # "idle" => edge[s] \in DOMAIN L /\ edge[s] \notin todo
             /\ pc'[s] # "idle" => pc[s] # "idle"
             /\ pc'[s] \in {"count_v", "store_u", "claim_v"} <=> pc[s] \in {"count_v", "store_u", "claim_v"}
  <2>1. CASE s = t
    BY <1>1, <2>1
  <2>2. CASE s # t
    BY <1>1, <2>2
  <2> QED BY <2>1, <2>2
<1>3. \A r, s \in Threads : pc'[r] # "idle" /\ pc'[s] # "idle" /\ r # s => edge[r] # edge[s]
  BY <1>2
<1>4. ASSUME NEW x \in Ends(L)
      PROVE  x \in S <=>
               /\ x[1] \notin todo
               /\ x[2] = 2 => \A s \in Threads :
                      pc'[s] \in {"count_v", "store_u", "claim_v"} => edge[s] # x[1]
  BY <1>2
<1>5. edge[t] \in DOMAIN L
  OBVIOUS
<1> QED BY <1>1, <1>2, <1>3, <1>4, <1>5
-----------------------------------------------------------------------------
LEMMA InitIInv == Init => IInv
<1> SUFFICES ASSUME Init PROVE IInv
  OBVIOUS
<1>1. PICK L \in AllEdgeLists : el = L
  BY DEF Init
<1>2. IsList(L) /\ Nodes = NodesOf(L)
  BY <1>1, Statics
<1>3. Loops(L, {})
  BY <1>1 DEF Init, Loops, PhaseNames, Steps, Ends
<1>4. Counting(L, {})
  BY <1>2, CountEnds DEF Init, Counting
<1>5. Storage(L) /\ Filling(L, {}) /\ Squishing(L) /\ Copying(L) /\ LayingOut(L)
  BY DEF Init, Storage, Filling, Squishing, Copying, LayingOut
<1> QED BY <1>3, <1>4, <1>5 DEF IInv, Inv

(* The phases that are over or still to come.                               *)
LEMMA EdgePhaseFrame ==
    ASSUME NEW L, phase \in {"count", "fill"}, LayingOut(L), phase' = phase, UNCHANGED <<squishVars, region>>
    PROVE  Squishing(L)' /\ Copying(L)' /\ LayingOut(L)'
BY DEF LayingOut, Squishing, Copying

LEMMA CountFrame ==
    ASSUME NEW L, NEW S, phase = "count", LayingOut(L), phase' = phase, UNCHANGED <<squishVars, region>>
    PROVE  Storage(L)' /\ Filling(L, S)' /\ Squishing(L)' /\ Copying(L)' /\ LayingOut(L)'
<1>1. Squishing(L)' /\ Copying(L)' /\ LayingOut(L)'
  BY EdgePhaseFrame
<1> QED BY <1>1 DEF Storage, Filling

LEMMA CountOne ==
    ASSUME NEW L, IsList(L), NEW S \in SUBSET Ends(L), Counting(L, S), phase = "count", phase' = phase,
           NEW x \in Ends(L), x \notin S, degrees' = [degrees EXCEPT ![At(L, x)] = @ + 1]
    PROVE  Counting(L, S \cup {x})'
<1>1. At(L, x) \in NodesOf(L)
  BY ListNodes
<1>2. degrees \in [NodesOf(L) -> Nat] /\ \A n \in NodesOf(L) : degrees[n] = Count(L, S, n)
  BY DEF Counting
<1>3. degrees' \in [NodesOf(L) -> Nat]
  BY <1>1, <1>2
<1>4. ASSUME NEW n \in NodesOf(L) PROVE degrees'[n] = Count(L, S \cup {x}, n)
  <2>1. Count(L, S \cup {x}, n) = IF At(L, x) = n THEN Count(L, S, n) + 1 ELSE Count(L, S, n)
    BY CountGrows
  <2>2. degrees'[n] = IF At(L, x) = n THEN degrees[n] + 1 ELSE degrees[n]
    BY <1>1, <1>2
  <2> QED BY <1>2, <2>1, <2>2
<1> QED BY <1>3, <1>4 DEF Counting

LEMMA CountUInv ==
    ASSUME NEW L \in AllEdgeLists, NEW S \in SUBSET Ends(L), Inv(L, S),
           NEW t \in Threads, NEW e \in todo, CountU(t, e)
    PROVE  \E S2 \in SUBSET Ends(L) : Inv(L, S2)'
<1> DEFINE x == <<e, 1>>
<1>1. el = L /\ IsList(L) /\ Loops(L, S) /\ Counting(L, S) /\ LayingOut(L)
  BY Statics DEF Inv, Loops
<1>2. /\ phase = "count" /\ pc[t] = "idle" /\ todo' = todo \ {e}
      /\ edge' = [edge EXCEPT ![t] = e] /\ pc' = [pc EXCEPT ![t] = "count_v"]
      /\ degrees' = [degrees EXCEPT ![el[e][1]] = @ + 1]
      /\ UNCHANGED <<el, phase, slot, squishVars, region>>
  BY DEF CountU, Goto
<1>3. slot' \in [Threads -> Int]
  BY <1>1, <1>2 DEF Loops
<1>4. e \in DOMAIN L /\ x \in Ends(L) /\ x \notin S /\ Loops(L, S \cup {x})'
  BY <1>1, <1>2, <1>3, FirstEnd
<1>5. degrees' = [degrees EXCEPT ![At(L, x)] = @ + 1]
  BY <1>1, <1>2, <1>4, EndFacts
<1> HIDE DEF x
<1>6. Counting(L, S \cup {x})'
  BY <1>1, <1>2, <1>4, <1>5, CountOne
<1>7. Storage(L)' /\ Filling(L, S \cup {x})' /\ Squishing(L)' /\ Copying(L)' /\ LayingOut(L)'
  BY <1>1, <1>2, CountFrame
<1>8. Inv(L, S \cup {x})'
  BY <1>4, <1>6, <1>7 DEF Inv
<1> QED BY <1>4, <1>8

LEMMA CountVInv ==
    ASSUME NEW L \in AllEdgeLists, NEW S \in SUBSET Ends(L), Inv(L, S),
           NEW t \in Threads, CountV(t)
    PROVE  \E S2 \in SUBSET Ends(L) : Inv(L, S2)'
<1>1. el = L /\ IsList(L) /\ Loops(L, S) /\ Counting(L, S) /\ LayingOut(L)
  BY Statics DEF Inv, Loops
<1>2. /\ pc[t] = "count_v" /\ pc' = [pc EXCEPT ![t] = "idle"] /\ todo' = todo /\ edge' = edge
      /\ degrees' = [degrees EXCEPT ![V(t)] = @ + 1]
      /\ UNCHANGED <<el, phase, slot, squishVars, region>>
  BY DEF CountV, Goto, SecondCount
<1>3. slot' \in [Threads -> Int] /\ phase = "count"
  BY <1>1, <1>2 DEF Loops
<1>4. PICK x : x = <<edge[t], 2>>
  OBVIOUS
<1>5. edge[t] \in DOMAIN L /\ x \in Ends(L) /\ x \notin S /\ Loops(L, S \cup {x})'
  BY <1>1, <1>2, <1>3, <1>4, SecondEnd
<1>6. degrees' = [degrees EXCEPT ![At(L, x)] = @ + 1]
  BY <1>1, <1>2, <1>4, <1>5, EndFacts DEF V
<1>7. Counting(L, S \cup {x})'
  BY <1>1, <1>2, <1>3, <1>5, <1>6, CountOne
<1>8. Storage(L)' /\ Filling(L, S \cup {x})' /\ Squishing(L)' /\ Copying(L)' /\ LayingOut(L)'
  BY <1>1, <1>2, <1>3, CountFrame
<1>9. Inv(L, S \cup {x})'
  BY <1>5, <1>7, <1>8 DEF Inv
<1> QED BY <1>5, <1>9
-----------------------------------------------------------------------------
(* The rows that fill: each begins where it did and has room for its ends.  *)
LEMMA FillFacts ==
    ASSUME NEW L, IsList(L), NEW S \in SUBSET Ends(L), Filling(L, S), phase = "fill",
           NEW n \in NodesOf(L)
    PROVE  /\ Idx(L)[n] \in Nat /\ Idx(L)[n + 1] \in Nat /\ Idx(L)[n] <= offsets[n]
           /\ offsets[n] \in Nat /\ offsets[n] <= Idx(L)[n + 1] /\ Idx(L)[n + 1] = Idx(L)[n] + Deg(L)[n]
           /\ Idx(L)[n] .. Idx(L)[n + 1] - 1 \subseteq 0 .. Idx(L)[Size(L)] - 1
           /\ offsets[n] = Idx(L)[n] + Count(L, S, n)
           /\ \A m \in NodesOf(L) : \A i \in Idx(L)[n] .. Idx(L)[n + 1] - 1 :
                  i \in Idx(L)[m] .. Idx(L)[m + 1] - 1 => m = n
<1>1. Size(L) \in Nat /\ IsIndex(Idx(L), Deg(L), Size(L)) /\ Counts(Deg(L), Size(L)) /\ NodesOf(L) = 0 .. Size(L) - 1
  BY Indexes DEF NodesOf
<1>2. Count(L, S, n) \in Nat /\ Count(L, S, n) <= Deg(L)[n]
  BY CountMost
<1>3. offsets[n] = Idx(L)[n] + Count(L, S, n)
  BY DEF Filling
<1>4. /\ Idx(L)[n] \in Nat /\ Idx(L)[n + 1] = Idx(L)[n] + Deg(L)[n] /\ Deg(L)[n] \in Nat
      /\ Idx(L)[n] .. Idx(L)[n + 1] - 1 \subseteq 0 .. Idx(L)[Size(L)] - 1
      /\ \A m \in 0 .. Size(L) - 1 : \A i \in Idx(L)[n] .. Idx(L)[n + 1] - 1 :
             i \in Idx(L)[m] .. Idx(L)[m + 1] - 1 => n = m
  BY <1>1, RowsApart
<1>5. /\ Idx(L)[n] <= offsets[n] /\ offsets[n] \in Nat /\ offsets[n] <= Idx(L)[n + 1]
      /\ Idx(L)[n + 1] \in Nat
  BY <1>2, <1>3, <1>4
<1> QED BY <1>1, <1>3, <1>4, <1>5

(* A claim takes the first free cell of the row of x.                       *)
LEMMA ClaimFills ==
    ASSUME NEW L, IsList(L), NEW S \in SUBSET Ends(L), Loops(L, S), Storage(L), Filling(L, S),
           phase = "fill", phase' = phase, NEW t \in Threads, NEW x \in Ends(L), x \notin S,
           slot' = [slot EXCEPT ![t] = offsets[At(L, x)]],
           offsets' = [offsets EXCEPT ![At(L, x)] = @ + 1], neighs' = neighs,
           ~Holds(t), Holds(t)', HeldEnd(t)' = x, Owner(L, t)' = At(L, x),
           \A s \in Threads \ {t} : /\ Holds(s)' <=> Holds(s)
                                    /\ HeldEnd(s)' = HeldEnd(s) /\ Owner(L, s)' = Owner(L, s)
    PROVE  Storage(L)' /\ Filling(L, S \cup {x})' /\ slot' \in [Threads -> Int]
<1> DEFINE idx == Idx(L)
<1>1. PICK a \in NodesOf(L) : a = At(L, x)
  BY ListNodes
<1>2. PICK o : o = offsets[a]
  OBVIOUS
<1>3. Count(L, S, a) < Deg(L)[a] /\ Count(L, S, a) \in Nat /\ Deg(L)[a] \in Nat
  BY <1>1, CountGrows, RowLengths
<1>4. \A n \in NodesOf(L) :
        /\ idx[n] \in Nat /\ idx[n + 1] \in Nat /\ idx[n] <= offsets[n] /\ offsets[n] \in Nat
        /\ offsets[n] <= idx[n + 1] /\ idx[n + 1] = idx[n] + Deg(L)[n]
        /\ offsets[n] = idx[n] + Count(L, S, n)
  BY FillFacts
<1>5. \A n, m \in NodesOf(L) : \A i \in idx[n] .. idx[n + 1] - 1 :
          i \in idx[m] .. idx[m + 1] - 1 => m = n
  BY FillFacts
<1> HIDE DEF idx
<1>6. o \in idx[a] .. idx[a + 1] - 1 /\ o \in Nat
  BY <1>2, <1>3, <1>4
<1>7. offsets \in [0 .. Size(L) -> Nat] /\ slot \in [Threads -> Int] /\ NodesOf(L) = 0 .. Size(L) - 1 /\ Size(L) \in Nat
  BY Indexes DEF Storage, Loops, NodesOf
<1>8. offsets' \in [0 .. Size(L) -> Nat] /\ offsets'[a] = o + 1
      /\ \A n \in NodesOf(L) \ {a} : offsets'[n] = offsets[n]
  BY <1>1, <1>2, <1>6, <1>7
<1>9. slot' \in [Threads -> Int] /\ slot'[t] = o /\ \A s \in Threads \ {t} : slot'[s] = slot[s]
  BY <1>1, <1>2, <1>6, <1>7
<1>10. ASSUME NEW n \in NodesOf(L) PROVE offsets'[n] = idx[n] + Count(L, S \cup {x}, n)
  <2>1. Count(L, S \cup {x}, n) = IF At(L, x) = n THEN Count(L, S, n) + 1 ELSE Count(L, S, n)
    BY CountGrows
  <2>2. offsets'[n] = IF a = n THEN offsets[n] + 1 ELSE offsets[n]
    BY <1>2, <1>8
  <2>3. Count(L, S, n) \in Nat /\ idx[n] \in Nat /\ offsets[n] = idx[n] + Count(L, S, n)
    BY <1>4, CountMost
  <2> QED BY <1>1, <2>1, <2>2, <2>3
<1>11. ASSUME NEW s \in Threads \ {t}, Holds(s)
       PROVE  /\ Owner(L, s) \in NodesOf(L)
              /\ slot[s] \in idx[Owner(L, s)] .. offsets[Owner(L, s)] - 1
              /\ neighs[slot[s]] = None /\ slot[s] # o
  <2>1. slot[s] \in idx[Owner(L, s)] .. offsets[Owner(L, s)] - 1 /\ neighs[slot[s]] = None
    BY <1>11 DEF Filling, idx
  <2>2. PICK b \in NodesOf(L) : b = Owner(L, s)
    <3>1. edge[s] \in DOMAIN L
      BY <1>11 DEF Holds, Loops
    <3>2. HeldEnd(s) \in Ends(L)
      BY <3>1, EndFacts DEF HeldEnd
    <3> QED BY <3>2, ListNodes DEF Owner
  <2>3. slot[s] # o
    <3>1. CASE b = a
      BY <1>2, <1>6, <2>1, <2>2, <3>1
    <3>2. CASE b # a
      <4>1. slot[s] \in idx[b] .. idx[b + 1] - 1
        BY <1>4, <2>1, <2>2
      <4> QED BY <1>5, <1>6, <3>2, <4>1
    <3> QED BY <3>1, <3>2
  <2> QED BY <2>1, <2>2, <2>3
<1>12. neighs[o] = None
  <2>1. \A i \in offsets[a] .. Idx(L)[a + 1] - 1 : neighs[i] = None
    BY DEF Filling
  <2> QED BY <1>2, <1>6, <2>1 DEF idx
<1>13. ASSUME NEW s \in Threads, Holds(s)'
       PROVE  /\ slot'[s] \in idx[Owner(L, s)'] .. offsets'[Owner(L, s)'] - 1
              /\ neighs'[slot'[s]] = None
  <2>1. CASE s = t
    <3>1. idx[a] \in Nat
      BY <1>4
    <3>2. o \in idx[a] .. (o + 1) - 1
      BY <1>6, <3>1
    <3> QED BY <1>1, <1>8, <1>9, <1>12, <2>1, <3>2
  <2>2. CASE s # t
    <3>1. Holds(s) /\ Owner(L, s)' = Owner(L, s) /\ slot'[s] = slot[s]
      BY <1>9, <1>13, <2>2
    <3>2. PICK b \in NodesOf(L) : b = Owner(L, s)
      BY <1>11, <2>2, <3>1
    <3>3. slot[s] \in idx[b] .. offsets[b] - 1 /\ neighs[slot[s]] = None
      BY <1>11, <2>2, <3>1, <3>2
    <3>4. offsets[b] <= offsets'[b] /\ offsets[b] \in Nat /\ offsets'[b] \in Nat /\ idx[b] \in Nat
      BY <1>2, <1>4, <1>6, <1>8
    <3>5. slot[s] \in idx[b] .. offsets'[b] - 1
      BY <3>3, <3>4
    <3> QED BY <3>1, <3>2, <3>3, <3>5
  <2> QED BY <2>1, <2>2
<1>14. \A r, s \in Threads : Holds(r)' /\ Holds(s)' /\ r # s => slot'[r] # slot'[s]
  <2> SUFFICES ASSUME NEW r \in Threads, NEW s \in Threads, Holds(r)', Holds(s)', r # s
               PROVE  slot'[r] # slot'[s]
    OBVIOUS
  <2>1. CASE r = t
    BY <1>9, <1>11, <2>1
  <2>2. CASE s = t
    BY <1>9, <1>11, <2>2
  <2>3. CASE r # t /\ s # t
    <3>1. Holds(r) /\ Holds(s)
      BY <2>3
    <3>2. slot[r] # slot[s]
      BY <3>1 DEF Filling
    <3> QED BY <1>9, <2>3, <3>2
  <2> QED BY <2>1, <2>2, <2>3
<1>15. ASSUME NEW n \in NodesOf(L)
       PROVE  /\ \A i \in offsets'[n] .. idx[n + 1] - 1 : neighs'[i] = None
              /\ \A i \in idx[n] .. offsets'[n] - 1 :
                     IF neighs'[i] = None THEN \E s \in Threads : Holds(s)' /\ slot'[s] = i
                                          ELSE neighs'[i] \in Reach(L, n)
  <2>1. /\ \A i \in offsets[n] .. idx[n + 1] - 1 : neighs[i] = None
        /\ \A i \in idx[n] .. offsets[n] - 1 :
               IF neighs[i] = None THEN \E s \in Threads : Holds(s) /\ slot[s] = i
                                   ELSE neighs[i] \in Reach(L, n)
    BY DEF Filling, idx
  <2>2. offsets[n] \in Nat /\ offsets'[n] \in Nat /\ offsets[n] <= offsets'[n] /\ idx[n] \in Nat /\ idx[n + 1] \in Nat
    BY <1>2, <1>4, <1>6, <1>8
  <2>3. \A i \in offsets'[n] .. idx[n + 1] - 1 : neighs'[i] = None
    BY <2>1, <2>2
  <2>4. ASSUME NEW i \in idx[n] .. offsets'[n] - 1
        PROVE  IF neighs'[i] = None THEN \E s \in Threads : Holds(s)' /\ slot'[s] = i
                                    ELSE neighs'[i] \in Reach(L, n)
    <3>1. CASE i \in idx[n] .. offsets[n] - 1
      <4>1. ASSUME NEW s \in Threads, Holds(s) PROVE Holds(s)' /\ slot'[s] = slot[s]
        BY <1>9, <4>1
      <4> QED BY <2>1, <3>1, <4>1
    <3>2. CASE i \notin idx[n] .. offsets[n] - 1
      <4>1. n = a
        BY <1>8, <3>2
      <4>2. i = o
        BY <1>2, <1>4, <1>6, <1>8, <3>2, <4>1
      <4> QED BY <1>9, <1>12, <4>2
    <3> QED BY <3>1, <3>2
  <2> QED BY <2>3, <2>4
<1>16. ASSUME NEW y \in S \cup {x}
       PROVE  \/ \E s \in Threads : Holds(s)' /\ HeldEnd(s)' = y
              \/ \E i \in idx[At(L, y)] .. offsets'[At(L, y)] - 1 : neighs'[i] = Other(L, y)
  <2>1. CASE y = x
    BY <2>1
  <2>2. CASE y # x
    <3>1. \/ \E s \in Threads : Holds(s) /\ HeldEnd(s) = y
          \/ \E i \in idx[At(L, y)] .. offsets[At(L, y)] - 1 : neighs[i] = Other(L, y)
      BY <2>2 DEF Filling, idx
    <3>2. CASE \E s \in Threads : Holds(s) /\ HeldEnd(s) = y
      <4>1. PICK s \in Threads : Holds(s) /\ HeldEnd(s) = y
        BY <3>2
      <4>2. s # t
        BY <4>1
      <4> QED BY <4>1, <4>2
    <3>3. CASE \E i \in idx[At(L, y)] .. offsets[At(L, y)] - 1 : neighs[i] = Other(L, y)
      <4>1. PICK b \in NodesOf(L) : b = At(L, y)
        BY ListNodes
      <4>2. PICK i \in idx[b] .. offsets[b] - 1 : neighs[i] = Other(L, y)
        BY <3>3, <4>1
      <4>3. offsets[b] <= offsets'[b] /\ offsets[b] \in Nat /\ offsets'[b] \in Nat /\ idx[b] \in Nat
        BY <1>2, <1>4, <1>6, <1>8
      <4>4. i \in idx[b] .. offsets'[b] - 1
        BY <4>3
      <4> QED BY <4>1, <4>2, <4>4
    <3> QED BY <3>1, <3>2, <3>3
  <2> QED BY <2>1, <2>2
<1>17. Storage(L)'
  BY <1>8 DEF Storage
<1> QED BY <1>9, <1>10, <1>13, <1>14, <1>15, <1>16, <1>17 DEF Filling, idx

(* A store fills the cell its thread holds.                                 *)
LEMMA StoreFills ==
    ASSUME NEW L, IsList(L), NEW S \in SUBSET Ends(L), Loops(L, S), Storage(L), Filling(L, S),
           phase = "fill", phase' = phase, NEW t \in Threads, Holds(t),
           neighs' = [neighs EXCEPT ![slot[t]] = Other(L, HeldEnd(t))],
           slot' = slot, offsets' = offsets, ~Holds(t)',
           \A s \in Threads \ {t} : /\ Holds(s)' <=> Holds(s)
                                    /\ HeldEnd(s)' = HeldEnd(s) /\ Owner(L, s)' = Owner(L, s)
    PROVE  Storage(L)' /\ Filling(L, S)'
<1> DEFINE idx == Idx(L)
<1>1. PICK x \in Ends(L) : x = HeldEnd(t)
  <2>1. edge[t] \in DOMAIN L
    BY DEF Holds, Loops
  <2> QED BY <2>1, EndFacts DEF HeldEnd
<1>2. PICK a \in NodesOf(L) : a = Owner(L, t) /\ a = At(L, x)
  BY <1>1, ListNodes DEF Owner
<1>3. PICK w \in NodesOf(L) : w = Other(L, x)
  BY ListNodes
<1>4. w \in Ids /\ w # None /\ w \in Reach(L, a)
  <2>1. w \in Ids
    BY <1>3, ListNodes
  <2>2. w \in Reach(L, a)
    BY <1>2, <1>3 DEF Reach, EndsAt
  <2>3. w # None
    BY <2>1, CSRAssumption DEF Ids, None
  <2> QED BY <2>1, <2>2, <2>3
<1>5. \A n \in NodesOf(L) :
        /\ idx[n] \in Nat /\ idx[n + 1] \in Nat /\ idx[n] <= offsets[n] /\ offsets[n] \in Nat
        /\ offsets[n] <= idx[n + 1] /\ idx[n] .. idx[n + 1] - 1 \subseteq 0 .. idx[Size(L)] - 1
  BY FillFacts
<1>6. \A n, m \in NodesOf(L) : \A i \in idx[n] .. idx[n + 1] - 1 :
          i \in idx[m] .. idx[m + 1] - 1 => m = n
  BY FillFacts
<1> HIDE DEF idx
<1>7. PICK c : c = slot[t]
  OBVIOUS
<1>8. c \in idx[a] .. offsets[a] - 1 /\ neighs[c] = None
  BY <1>2, <1>7 DEF Filling, idx
<1>9. c \in idx[a] .. idx[a + 1] - 1 /\ c \in 0 .. idx[Size(L)] - 1
  BY <1>5, <1>8
<1>10. neighs \in [0 .. idx[Size(L)] - 1 -> Ids \cup {None}]
  BY DEF Storage, idx
<1>11. neighs' = [neighs EXCEPT ![c] = w]
  BY <1>1, <1>3, <1>7
<1>12. neighs' \in [0 .. idx[Size(L)] - 1 -> Ids \cup {None}] /\ neighs'[c] = w
       /\ \A i \in 0 .. idx[Size(L)] - 1 : i # c => neighs'[i] = neighs[i]
  BY <1>4, <1>9, <1>10, <1>11
<1>13. \A n \in NodesOf(L) : \A i \in idx[n] .. idx[n + 1] - 1 : i # c => neighs'[i] = neighs[i]
  BY <1>5, <1>12
<1>14. ASSUME NEW s \in Threads, Holds(s)'
       PROVE  /\ s # t /\ Holds(s) /\ Owner(L, s)' = Owner(L, s) /\ HeldEnd(s)' = HeldEnd(s)
              /\ slot[s] \in idx[Owner(L, s)] .. offsets[Owner(L, s)] - 1
              /\ neighs'[slot[s]] = None /\ slot[s] # c
  <2>1. s # t /\ Holds(s) /\ Owner(L, s)' = Owner(L, s) /\ HeldEnd(s)' = HeldEnd(s)
    BY <1>14
  <2>2. slot[s] \in idx[Owner(L, s)] .. offsets[Owner(L, s)] - 1 /\ neighs[slot[s]] = None /\ slot[s] # c
    BY <1>7, <2>1 DEF Filling, idx
  <2>3. PICK b \in NodesOf(L) : b = Owner(L, s)
    <3>1. edge[s] \in DOMAIN L
      BY <2>1 DEF Holds, Loops
    <3>2. HeldEnd(s) \in Ends(L)
      BY <3>1, EndFacts DEF HeldEnd
    <3> QED BY <3>2, ListNodes DEF Owner
  <2>4. slot[s] \in idx[b] .. idx[b + 1] - 1
    BY <1>5, <2>2, <2>3
  <2>5. neighs'[slot[s]] = None
    BY <1>13, <2>2, <2>4
  <2> QED BY <2>1, <2>2, <2>5
<1>15. \A r, s \in Threads : Holds(r)' /\ Holds(s)' /\ r # s => slot[r] # slot[s]
  BY <1>14 DEF Filling
<1>16. ASSUME NEW n \in NodesOf(L)
       PROVE  /\ \A i \in offsets[n] .. idx[n + 1] - 1 : neighs'[i] = None
              /\ \A i \in idx[n] .. offsets[n] - 1 :
                     IF neighs'[i] = None THEN \E s \in Threads : Holds(s)' /\ slot[s] = i
                                          ELSE neighs'[i] \in Reach(L, n)
  <2>1. /\ \A i \in offsets[n] .. idx[n + 1] - 1 : neighs[i] = None
        /\ \A i \in idx[n] .. offsets[n] - 1 :
               IF neighs[i] = None THEN \E s \in Threads : Holds(s) /\ slot[s] = i
                                   ELSE neighs[i] \in Reach(L, n)
    BY DEF Filling, idx
  <2>2. ASSUME NEW i \in offsets[n] .. idx[n + 1] - 1 PROVE neighs'[i] = None
    <3>1. i \in idx[n] .. idx[n + 1] - 1
      BY <1>5
    <3>2. i # c
      <4>1. CASE n = a
        BY <1>5, <1>8, <4>1
      <4>2. CASE n # a
        BY <1>6, <1>9, <3>1, <4>2
      <4> QED BY <4>1, <4>2
    <3> QED BY <1>13, <2>1, <3>1, <3>2
  <2>3. ASSUME NEW i \in idx[n] .. offsets[n] - 1
        PROVE  IF neighs'[i] = None THEN \E s \in Threads : Holds(s)' /\ slot[s] = i
                                    ELSE neighs'[i] \in Reach(L, n)
    <3>1. i \in idx[n] .. idx[n + 1] - 1
      BY <1>5
    <3>2. CASE i = c
      <4>1. n = a
        BY <1>6, <1>9, <3>1, <3>2
      <4> QED BY <1>4, <1>12, <3>2, <4>1
    <3>3. CASE i # c
      <4>1. neighs'[i] = neighs[i]
        BY <1>13, <3>1, <3>3
      <4>2. CASE neighs[i] = None
        <5>1. PICK s \in Threads : Holds(s) /\ slot[s] = i
          BY <2>1, <4>2
        <5>2. s # t
          BY <1>7, <3>3, <5>1
        <5>3. Holds(s)'
          BY <5>1, <5>2
        <5> QED BY <4>1, <4>2, <5>1, <5>3
      <4>3. CASE neighs[i] # None
        BY <2>1, <4>1, <4>3
      <4> QED BY <4>2, <4>3
    <3> QED BY <3>2, <3>3
  <2> QED BY <2>2, <2>3
<1>17. ASSUME NEW y \in S
       PROVE  \/ \E s \in Threads : Holds(s)' /\ HeldEnd(s)' = y
              \/ \E i \in idx[At(L, y)] .. offsets[At(L, y)] - 1 : neighs'[i] = Other(L, y)
  <2>1. \/ \E s \in Threads : Holds(s) /\ HeldEnd(s) = y
        \/ \E i \in idx[At(L, y)] .. offsets[At(L, y)] - 1 : neighs[i] = Other(L, y)
    BY DEF Filling, idx
  <2>2. PICK b \in NodesOf(L) : b = At(L, y)
    BY ListNodes
  <2>3. CASE y = x
    BY <1>2, <1>3, <1>8, <1>12, <2>3
  <2>4. CASE y # x /\ \E s \in Threads : Holds(s) /\ HeldEnd(s) = y
    <3>1. PICK s \in Threads : Holds(s) /\ HeldEnd(s) = y
      BY <2>4
    <3>2. s # t
      BY <1>1, <2>4, <3>1
    <3> QED BY <3>1, <3>2
  <2>5. CASE \E i \in idx[At(L, y)] .. offsets[At(L, y)] - 1 : neighs[i] = Other(L, y)
    <3>1. PICK i \in idx[b] .. offsets[b] - 1 : neighs[i] = Other(L, y)
      BY <2>2, <2>5
    <3>2. Other(L, y) # None
      <4>1. Other(L, y) \in Ids
        BY ListNodes
      <4> QED BY <4>1, CSRAssumption DEF Ids, None
    <3>3. i # c
      BY <1>8, <3>1, <3>2
    <3>4. i \in idx[b] .. idx[b + 1] - 1
      BY <1>5
    <3>5. neighs'[i] = Other(L, y)
      BY <1>13, <3>1, <3>3, <3>4
    <3> QED BY <2>2, <3>5
  <2> QED BY <2>1, <2>3, <2>4, <2>5
<1>18. Storage(L)'
  BY <1>12 DEF Storage, idx
<1>19. \A n \in NodesOf(L) : offsets[n] = Idx(L)[n] + Count(L, S, n)
  BY DEF Filling
<1> QED BY <1>14, <1>15, <1>16, <1>17, <1>18, <1>19 DEF Filling, idx

LEMMA CountingStays ==
    ASSUME NEW L, NEW S, NEW S2, Counting(L, S), phase = "fill", phase' = phase, UNCHANGED <<degrees, index>>
    PROVE  Counting(L, S2)'
BY DEF Counting

LEMMA ClaimUInv ==
    ASSUME NEW L \in AllEdgeLists, NEW S \in SUBSET Ends(L), Inv(L, S),
           NEW t \in Threads, NEW e \in todo, ClaimU(t, e)
    PROVE  \E S2 \in SUBSET Ends(L) : Inv(L, S2)'
<1>1. /\ el = L /\ IsList(L) /\ Loops(L, S) /\ Counting(L, S) /\ LayingOut(L) /\ Storage(L) /\ Filling(L, S)
      /\ pc \in [Threads -> Steps] /\ edge \in [Threads -> {0} \cup DOMAIN L] /\ e \in todo
  BY Statics DEF Inv, Loops
<1>2. /\ phase = "fill" /\ pc[t] = "idle" /\ todo' = todo \ {e}
      /\ edge' = [edge EXCEPT ![t] = e] /\ pc' = [pc EXCEPT ![t] = "store_u"]
      /\ slot' = [slot EXCEPT ![t] = offsets[el[e][1]]]
      /\ offsets' = [offsets EXCEPT ![el[e][1]] = @ + 1]
      /\ UNCHANGED <<el, phase, degrees, index, neighs, squishVars, region>>
  BY DEF ClaimU, Goto
<1>3. PICK x : x = <<e, 1>>
  OBVIOUS
<1>4. e \in DOMAIN L
  BY <1>1, <1>2 DEF Loops
<1>5. x \in Ends(L) /\ At(L, x) = el[e][1]
  BY <1>1, <1>3, <1>4, EndFacts
<1>6. slot' \in [Threads -> Int]
  <2>1. el[e][1] \in NodesOf(L)
    BY <1>5, ListNodes, <1>1
  <2>2. offsets[el[e][1]] \in Nat
    BY <1>1, <1>2, <2>1, FillFacts
  <2> QED BY <1>1, <1>2, <2>2 DEF Loops
<1>7. x \notin S /\ Loops(L, S \cup {x})'
  <2>1. PICK step : step = "store_u"
    OBVIOUS
  <2>2. /\ phase = "fill" /\ step = "store_u" /\ pc[t] = "idle" /\ todo' = todo \ {e} /\ edge' = [edge EXCEPT ![t] = e]
        /\ pc' = [pc EXCEPT ![t] = step] /\ el' = el /\ phase' = phase
    BY <1>2, <2>1
  <2>3. /\ <<e, 1>> \notin S /\ Loops(L, S \cup {<<e, 1>>})'
    BY <1>1, <1>6, <2>2, FirstEnd
  <2> QED BY <1>3, <2>3
<1>8. pc'[t] = "store_u" /\ edge'[t] = e /\ \A s \in Threads \ {t} : pc'[s] = pc[s] /\ edge'[s] = edge[s]
  BY <1>1, <1>2
<1>9. ~Holds(t) /\ Holds(t)' /\ HeldEnd(t)' = x
  BY <1>2, <1>3, <1>8 DEF Holds, HeldEnd
<1>10. Owner(L, t)' = At(L, x)
  BY <1>9 DEF Owner, HeldEnd, At
<1>11. \A s \in Threads \ {t} : /\ Holds(s)' <=> Holds(s)
                                /\ HeldEnd(s)' = HeldEnd(s) /\ Owner(L, s)' = Owner(L, s)
  BY <1>8 DEF Holds, HeldEnd, Owner, At
<1>12. Storage(L)' /\ Filling(L, S \cup {x})'
  BY <1>1, <1>2, <1>5, <1>7, <1>9, <1>10, <1>11, ClaimFills
<1>13. Counting(L, S \cup {x})' /\ Squishing(L)' /\ Copying(L)' /\ LayingOut(L)'
  BY <1>1, <1>2, CountingStays, EdgePhaseFrame
<1>14. Inv(L, S \cup {x})'
  BY <1>7, <1>12, <1>13 DEF Inv
<1> QED BY <1>5, <1>14

LEMMA ClaimVInv ==
    ASSUME NEW L \in AllEdgeLists, NEW S \in SUBSET Ends(L), Inv(L, S),
           NEW t \in Threads, ClaimV(t)
    PROVE  \E S2 \in SUBSET Ends(L) : Inv(L, S2)'
<1>1. /\ el = L /\ IsList(L) /\ Loops(L, S) /\ Counting(L, S) /\ LayingOut(L) /\ Storage(L) /\ Filling(L, S)
      /\ pc \in [Threads -> Steps] /\ edge \in [Threads -> {0} \cup DOMAIN L]
  BY Statics DEF Inv, Loops
<1>2. /\ pc[t] = "claim_v" /\ pc' = [pc EXCEPT ![t] = "store_v"]
      /\ slot' = [slot EXCEPT ![t] = offsets[V(t)]]
      /\ offsets' = [offsets EXCEPT ![V(t)] = @ + 1]
      /\ UNCHANGED <<el, phase, todo, edge, degrees, index, neighs, squishVars, region>>
  <2>1. offsets' = [offsets EXCEPT ![V(t)] = offsets[V(t)] + 1]
    BY DEF ClaimV, Incremented
  <2> QED BY <2>1 DEF ClaimV, Goto
<1>3. PICK x : x = <<edge[t], 2>>
  OBVIOUS
<1>4. phase = "fill" /\ edge[t] \in DOMAIN L
  BY <1>1, <1>2 DEF Loops
<1>5. x \in Ends(L) /\ At(L, x) = V(t)
  BY <1>1, <1>3, <1>4, EndFacts DEF V
<1>6. slot' \in [Threads -> Int]
  <2>1. V(t) \in NodesOf(L)
    BY <1>1, <1>5, ListNodes
  <2>2. offsets[V(t)] \in Nat
    BY <1>1, <1>4, <2>1, FillFacts
  <2> QED BY <1>1, <1>2, <2>2 DEF Loops
<1>7. x \notin S /\ Loops(L, S \cup {x})'
  BY <1>1, <1>2, <1>3, <1>6, SecondEnd
<1>8. pc'[t] = "store_v" /\ \A s \in Threads \ {t} : pc'[s] = pc[s]
  BY <1>1, <1>2
<1>9. ~Holds(t) /\ Holds(t)' /\ HeldEnd(t)' = x
  BY <1>2, <1>3, <1>8 DEF Holds, HeldEnd
<1>10. Owner(L, t)' = At(L, x)
  BY <1>9 DEF Owner, HeldEnd, At
<1>11. \A s \in Threads \ {t} : /\ Holds(s)' <=> Holds(s)
                                /\ HeldEnd(s)' = HeldEnd(s) /\ Owner(L, s)' = Owner(L, s)
  BY <1>2, <1>8 DEF Holds, HeldEnd, Owner, At
<1>12. Storage(L)' /\ Filling(L, S \cup {x})'
  BY <1>1, <1>2, <1>4, <1>5, <1>7, <1>9, <1>10, <1>11, ClaimFills
<1>13. Counting(L, S \cup {x})' /\ Squishing(L)' /\ Copying(L)' /\ LayingOut(L)'
  BY <1>1, <1>2, <1>4, CountingStays, EdgePhaseFrame
<1>14. Inv(L, S \cup {x})'
  BY <1>7, <1>12, <1>13 DEF Inv
<1> QED BY <1>5, <1>14

LEMMA StoreInv ==
    ASSUME NEW L \in AllEdgeLists, NEW S \in SUBSET Ends(L), Inv(L, S),
           NEW t \in Threads, StoreU(t) \/ StoreV(t)
    PROVE  \E S2 \in SUBSET Ends(L) : Inv(L, S2)'
<1>1. /\ el = L /\ IsList(L) /\ Loops(L, S) /\ Counting(L, S) /\ LayingOut(L) /\ Storage(L) /\ Filling(L, S)
      /\ pc \in [Threads -> Steps] /\ edge \in [Threads -> {0} \cup DOMAIN L]
  BY Statics DEF Inv, Loops
<1>2. PICK step : /\ \/ pc[t] = "store_u" /\ step = "claim_v" /\ neighs' = [neighs EXCEPT ![slot[t]] = V(t)]
                     \/ pc[t] = "store_v" /\ step = "idle" /\ neighs' = [neighs EXCEPT ![slot[t]] = U(t)]
                  /\ pc' = [pc EXCEPT ![t] = step]
                  /\ UNCHANGED <<el, phase, todo, edge, slot, degrees, offsets, index, squishVars, region>>
  BY DEF StoreU, StoreV, Goto
<1>3. phase = "fill" /\ edge[t] \in DOMAIN L
  BY <1>1, <1>2 DEF Loops
<1>4. Loops(L, S)'
  BY <1>1, <1>2, SameEnds
<1>5. pc'[t] = step /\ \A s \in Threads \ {t} : pc'[s] = pc[s]
  BY <1>1, <1>2 DEF Steps
<1>6. Holds(t) /\ ~Holds(t)'
  BY <1>2, <1>5 DEF Holds
<1>7. \A s \in Threads \ {t} : /\ Holds(s)' <=> Holds(s)
                               /\ HeldEnd(s)' = HeldEnd(s) /\ Owner(L, s)' = Owner(L, s)
  BY <1>2, <1>5 DEF Holds, HeldEnd, Owner, At
<1>8. neighs' = [neighs EXCEPT ![slot[t]] = Other(L, HeldEnd(t))]
  <2>1. CASE pc[t] = "store_u"
    <3>1. Other(L, HeldEnd(t)) = V(t)
      BY <1>1, <1>3, <2>1, EndFacts DEF HeldEnd, V
    <3> QED BY <1>2, <2>1, <3>1
  <2>2. CASE pc[t] = "store_v"
    <3>1. Other(L, HeldEnd(t)) = U(t)
      BY <1>1, <1>3, <2>2, EndFacts DEF HeldEnd, U
    <3> QED BY <1>2, <2>2, <3>1
  <2> QED BY <1>2, <2>1, <2>2
<1>9. Storage(L)' /\ Filling(L, S)'
  BY <1>1, <1>2, <1>3, <1>6, <1>7, <1>8, StoreFills
<1>10. Counting(L, S)' /\ Squishing(L)' /\ Copying(L)' /\ LayingOut(L)'
  BY <1>1, <1>2, <1>3, CountingStays, EdgePhaseFrame
<1>11. Inv(L, S)'
  BY <1>4, <1>9, <1>10 DEF Inv
<1> QED BY <1>11
-----------------------------------------------------------------------------
(* When a loop over the edges is over every end is taken, and no slot held. *)
LEMMA LoopIsOver ==
    ASSUME NEW L, NEW S \in SUBSET Ends(L), Loops(L, S), phase \in {"count", "fill"}, LoopEnds
    PROVE  S = Ends(L) /\ \A t \in Threads : ~Holds(t)
<1>1. todo = {} /\ \A t \in Threads : pc[t] = "idle"
  BY DEF LoopEnds
<1>2. \A x \in Ends(L) : x \in S
  BY <1>1 DEF Loops
<1> QED BY <1>1, <1>2 DEF Holds

LEMMA CountedInv ==
    ASSUME NEW L \in AllEdgeLists, NEW S \in SUBSET Ends(L), Inv(L, S), Counted
    PROVE  \E S2 \in SUBSET Ends(L) : Inv(L, S2)'
<1>1. /\ el = L /\ IsList(L) /\ NumNodes = Size(L) /\ Loops(L, S) /\ Counting(L, S) /\ LayingOut(L)
  BY Statics DEF Inv, Loops
<1>2. /\ phase = "count" /\ LoopEnds /\ phase' = "fill" /\ todo' = DOMAIN el
      /\ offsets' = ParallelPrefixSum(degrees) /\ index' = offsets'
      /\ neighs' = Unset(offsets'[NumNodes])
      /\ UNCHANGED <<el, threadVars, degrees, squishVars, region>>
  BY DEF Counted
<1>3. todo = {} /\ \A t \in Threads : pc[t] = "idle" /\ pc'[t] = "idle"
  BY <1>2 DEF LoopEnds, threadVars
<1>4. degrees = Deg(L)
  <2>1. S = Ends(L)
    BY <1>1, <1>2, LoopIsOver
  <2>2. degrees \in [NodesOf(L) -> Nat] /\ \A n \in NodesOf(L) : degrees[n] = Count(L, S, n)
    BY <1>1, <1>2 DEF Counting
  <2>3. \A n \in NodesOf(L) : degrees[n] = Deg(L)[n]
    BY <1>1, <2>1, <2>2, CountEnds
  <2>4. Deg(L) = [n \in NodesOf(L) |-> Deg(L)[n]]
    BY DEF Deg
  <2> QED BY <2>2, <2>3, <2>4
<1>5. Size(L) \in Nat \ {0} /\ Counts(Deg(L), Size(L)) /\ IsIndex(Idx(L), Deg(L), Size(L))
      /\ NodesOf(L) = 0 .. Size(L) - 1
  BY <1>1, Indexes DEF NodesOf
<1>6. offsets' = Idx(L) /\ index' = Idx(L)
  BY <1>1, <1>2, <1>4, <1>5, ParallelPrefixSumAdds DEF Idx
<1>7. offsets' \in [0 .. Size(L) -> Nat]
  BY <1>5, <1>6 DEF IsIndex
<1>8. neighs' = [i \in 0 .. Idx(L)[Size(L)] - 1 |-> None]
  BY <1>1, <1>2, <1>6 DEF Unset
<1>9. Loops(L, {})'
  <2>1. \A x \in Ends(L) : x[1] \in todo'
    BY <1>1, <1>2 DEF Ends
  <2> QED BY <1>1, <1>2, <1>3, <2>1 DEF Loops, threadVars, PhaseNames
<1>10. Counting(L, {})'
  BY <1>2, <1>4, <1>6 DEF Counting
<1>11. Storage(L)'
  BY <1>7, <1>8 DEF Storage
<1>12. Filling(L, {})'
  <2>1. \A t \in Threads : ~Holds(t)'
    BY <1>3 DEF Holds
  <2>2. ASSUME NEW n \in NodesOf(L)
        PROVE  /\ offsets'[n] = Idx(L)[n] + Count(L, {}, n) /\ Idx(L)[n] \in Nat
               /\ \A i \in offsets'[n] .. Idx(L)[n + 1] - 1 : neighs'[i] = None
               /\ \A i \in Idx(L)[n] .. offsets'[n] - 1 : FALSE
    <3>1. Idx(L)[n] \in Nat /\ Idx(L)[n] .. Idx(L)[n + 1] - 1 \subseteq 0 .. Idx(L)[Size(L)] - 1
      BY <1>5, RowsApart
    <3>2. Count(L, {}, n) = 0
      BY <1>1, CountEnds
    <3> QED BY <1>6, <1>8, <3>1, <3>2
  <2> QED BY <2>1, <2>2 DEF Filling
<1>13. Squishing(L)' /\ Copying(L)' /\ LayingOut(L)'
  BY <1>1, <1>2 DEF LayingOut, Squishing, Copying
<1>14. Inv(L, {})'
  BY <1>9, <1>10, <1>11, <1>12, <1>13 DEF Inv
<1> QED BY <1>14

(* The steps after the loops over the edges leave the threads alone.        *)
LEMMA NodePhaseFrame ==
    ASSUME NEW L, NEW S, Loops(L, S), phase' \in PhaseNames \ {"count", "fill"},
           phase \notin {"count", "fill"} \/ LoopEnds,
           todo' \subseteq NodesOf(L), UNCHANGED <<el, threadVars>>
    PROVE  Loops(L, S)' /\ Filling(L, S)'
<1>1. \A t \in Threads : pc[t] = "idle"
  BY DEF Loops, LoopEnds, Steps
<1> QED BY <1>1 DEF Loops, Filling, threadVars

LEMMA FilledInv ==
    ASSUME NEW L \in AllEdgeLists, NEW S \in SUBSET Ends(L), Inv(L, S), Filled
    PROVE  Inv(L, S)'
<1>1. /\ el = L /\ IsList(L) /\ Nodes = NodesOf(L) /\ Loops(L, S) /\ Counting(L, S) /\ LayingOut(L)
      /\ Storage(L) /\ Filling(L, S)
  BY Statics DEF Inv, Loops
<1>2. /\ phase = "fill" /\ LoopEnds /\ phase' = "squish" /\ todo' = NodesOf(L)
      /\ diffs' = [n \in NodesOf(L) |-> 0]
      /\ UNCHANGED <<el, threadVars, csrVars, sqIndex, sqNeighs, region>>
  BY <1>1 DEF Filled
<1>3. Loops(L, S)' /\ Filling(L, S)'
  BY <1>1, <1>2, NodePhaseFrame DEF PhaseNames
<1>4. Counting(L, S)' /\ Storage(L)'
  BY <1>1, <1>2 DEF Counting, Storage, csrVars
<1>5. ASSUME NEW n \in NodesOf(L)
      PROVE  /\ \A i \in Idx(L)[n] .. Idx(L)[n + 1] - 1 : neighs[i] \in Reach(L, n)
             /\ \A m \in Reach(L, n) : \E i \in Idx(L)[n] .. Idx(L)[n + 1] - 1 : neighs[i] = m
  <2>1. S = Ends(L) /\ \A t \in Threads : ~Holds(t)
    BY <1>1, <1>2, LoopIsOver
  <2>2. offsets[n] = Idx(L)[n + 1]
    <3>1. offsets[n] = Idx(L)[n] + Count(L, S, n) /\ Idx(L)[n + 1] = Idx(L)[n] + Deg(L)[n]
      BY <1>1, <1>2, FillFacts
    <3> QED BY <1>1, <2>1, <3>1, CountEnds
  <2>3. \A i \in Idx(L)[n] .. Idx(L)[n + 1] - 1 : neighs[i] \in Reach(L, n)
    BY <1>1, <1>2, <2>1, <2>2 DEF Filling
  <2>4. ASSUME NEW m \in Reach(L, n) PROVE \E i \in Idx(L)[n] .. Idx(L)[n + 1] - 1 : neighs[i] = m
    <3>1. PICK x \in Ends(L) : At(L, x) = n /\ Other(L, x) = m
      BY DEF Reach, EndsAt
    <3>2. \E i \in Idx(L)[At(L, x)] .. offsets[At(L, x)] - 1 : neighs[i] = Other(L, x)
      BY <1>1, <1>2, <2>1 DEF Filling
    <3> QED BY <2>2, <3>1, <3>2
  <2> QED BY <2>3, <2>4
<1>6. Squishing(L)'
  BY <1>2, <1>5 DEF Squishing, RowOf, csrVars
<1>7. Copying(L)' /\ LayingOut(L)'
  BY <1>1, <1>2 DEF LayingOut, Copying
<1> QED BY <1>3, <1>4, <1>6, <1>7 DEF Inv
-----------------------------------------------------------------------------
LEMMA RowFacts ==
    ASSUME NEW L, IsList(L), NEW n \in NodesOf(L)
    PROVE  /\ Len(Ordered(Nbrs(L, n))) = Out(L)[n] /\ Out(L)[n] \in Nat
           /\ DOMAIN Ordered(Nbrs(L, n)) = 1 .. Out(L)[n]
           /\ \A k \in 1 .. Out(L)[n] : Ordered(Nbrs(L, n))[k] \in Ids
<1> DEFINE row == Ordered(Nbrs(L, n))
<1>1. IsOrdered(row, Nbrs(L, n)) /\ Out(L)[n] = Cardinality(Nbrs(L, n))
  BY RowLengths
<1>2. Out(L)[n] \in Nat
  <2>1. Out(L)[n] \in 0 .. Size(L) - 1 /\ Size(L) \in 1 .. Radix /\ Radix \in Nat
    BY RowLengths, ListNodes
  <2> QED BY <2>1
<1>3. Nbrs(L, n) \subseteq Ids
  <2>1. Reach(L, n) \subseteq NodesOf(L) /\ NodesOf(L) \subseteq Ids
    BY RowLengths, ListNodes
  <2> QED BY <2>1 DEF Nbrs
<1>4. row = [k \in DOMAIN row |-> row[k]]
  <2> DEFINE item(k) == CHOOSE x \in Nbrs(L, n) : Cardinality({y \in Nbrs(L, n) : y < x}) = k - 1
  <2>1. row = [k \in 1 .. Cardinality(Nbrs(L, n)) |-> item(k)]
    BY DEF Ordered
  <2> HIDE DEF item, row
  <2> QED BY <2>1
<1> HIDE DEF row
<1>5. DOMAIN row = 1 .. Out(L)[n] /\ \A k \in 1 .. Out(L)[n] : row[k] \in Nbrs(L, n)
  BY <1>1 DEF IsOrdered
<1>6. row \in [1 .. Out(L)[n] -> Nbrs(L, n)]
  BY <1>4, <1>5
<1>7. row \in Seq(Nbrs(L, n)) /\ Len(row) = Out(L)[n]
  BY <1>2, <1>6
<1> QED BY <1>2, <1>3, <1>5, <1>7 DEF row

LEMMA SquishInv ==
    ASSUME NEW L \in AllEdgeLists, NEW S \in SUBSET Ends(L), Inv(L, S), NEW n \in Nodes, Squish(n)
    PROVE  Inv(L, S)'
<1> DEFINE idx == Idx(L)
           new == Ordered(Nbrs(L, n))
<1>1. /\ el = L /\ IsList(L) /\ Nodes = NodesOf(L) /\ Loops(L, S) /\ Counting(L, S) /\ LayingOut(L)
      /\ Storage(L) /\ Squishing(L)
  BY Statics DEF Inv, Loops
<1>2. /\ phase = "squish" /\ n \in todo /\ todo' = todo \ {n}
      /\ diffs' = [diffs EXCEPT ![n] = Len(SquishedRow(n))]
      /\ neighs' = [i \in DOMAIN neighs |->
                     IF i \notin index[n] .. index[n + 1] - 1 THEN neighs[i]
                     ELSE IF i - index[n] < Len(SquishedRow(n)) THEN SquishedRow(n)[i - index[n] + 1]
                     ELSE None]
      /\ UNCHANGED <<el, phase, threadVars, degrees, offsets, index, sqIndex, sqNeighs, region>>
  BY DEF Squish
<1>3. index = idx /\ neighs \in [0 .. idx[Size(L)] - 1 -> Ids \cup {None}]
      /\ offsets \in [0 .. Size(L) -> Nat]
  BY <1>1, <1>2 DEF Counting, Storage
<1>4. Size(L) \in Nat \ {0} /\ Counts(Deg(L), Size(L)) /\ IsIndex(idx, Deg(L), Size(L))
      /\ NodesOf(L) = 0 .. Size(L) - 1
  BY <1>1, Indexes DEF NodesOf
<1>5. ASSUME NEW m \in NodesOf(L)
      PROVE  /\ idx[m] \in Nat /\ idx[m + 1] = idx[m] + Deg(L)[m] /\ Deg(L)[m] \in Nat
             /\ idx[m] .. idx[m + 1] - 1 \subseteq 0 .. idx[Size(L)] - 1
             /\ \A b \in NodesOf(L) : \A i \in idx[m] .. idx[m + 1] - 1 :
                    i \in idx[b] .. idx[b + 1] - 1 => m = b
             /\ Out(L)[m] \in Nat /\ Out(L)[m] <= Deg(L)[m]
             /\ DOMAIN Ordered(Nbrs(L, m)) = 1 .. Out(L)[m]
  <2>1. /\ idx[m] \in Nat /\ idx[m + 1] = idx[m] + Deg(L)[m] /\ Deg(L)[m] \in Nat
        /\ idx[m] .. idx[m + 1] - 1 \subseteq 0 .. idx[Size(L)] - 1
        /\ \A b \in 0 .. Size(L) - 1 : \A i \in idx[m] .. idx[m + 1] - 1 :
               i \in idx[b] .. idx[b + 1] - 1 => m = b
    BY <1>4, RowsApart
  <2>2. Out(L)[m] \in Nat /\ Out(L)[m] <= Deg(L)[m] /\ DOMAIN Ordered(Nbrs(L, m)) = 1 .. Out(L)[m]
    BY <1>1, RowLengths, RowFacts
  <2> QED BY <1>4, <2>1, <2>2
<1> HIDE DEF idx
<1>6. SquishedRow(n) = new
  <2> DEFINE row == Row(neighs, index, n)
             width == idx[n + 1] - idx[n]
  <2>1. width \in Nat /\ idx[n] \in Nat /\ idx[n + 1] \in Nat
    BY <1>1, <1>5
  <2>2. row = [i \in 1 .. width |-> neighs[idx[n] + i - 1]]
    BY <1>3 DEF Row
  <2>3. RowOf(neighs, idx[n], idx[n + 1], Reach(L, n))
    BY <1>1, <1>2 DEF Squishing, idx
  <2> HIDE DEF row, width
  <2>4. ToSet(row) = {row[i] : i \in 1 .. width}
    BY <2>2 DEF ToSet
  <2>5. \A i \in 1 .. width : row[i] \in Reach(L, n)
    <3> TAKE i \in 1 .. width
    <3>1. idx[n] + i - 1 \in idx[n] .. idx[n + 1] - 1
      BY <2>1 DEF width
    <3> QED BY <2>2, <2>3, <3>1 DEF RowOf
  <2>6. \A m \in Reach(L, n) : \E i \in 1 .. width : row[i] = m
    <3> TAKE m \in Reach(L, n)
    <3>1. PICK j \in idx[n] .. idx[n + 1] - 1 : neighs[j] = m
      BY <2>3 DEF RowOf
    <3>2. PICK i \in 1 .. width : i = j - idx[n] + 1
      BY <2>1 DEF width
    <3>3. idx[n] + i - 1 = j
      BY <2>1, <3>2
    <3> QED BY <2>2, <3>1, <3>2, <3>3
  <2>7. ToSet(row) = Reach(L, n)
    BY <2>4, <2>5, <2>6
  <2> QED BY <2>7 DEF SquishedRow, row, Nbrs
<1>7. Len(SquishedRow(n)) = Out(L)[n] /\ \A k \in 1 .. Out(L)[n] : new[k] \in Ids
  BY <1>1, <1>6, RowFacts
<1> HIDE DEF new
<1>8. neighs' = [i \in 0 .. idx[Size(L)] - 1 |->
                     IF i \notin idx[n] .. idx[n + 1] - 1 THEN neighs[i]
                     ELSE IF i - idx[n] < Out(L)[n] THEN new[i - idx[n] + 1]
                     ELSE None]
  <2>1. DOMAIN neighs = 0 .. idx[Size(L)] - 1
    BY <1>3
  <2> QED BY <1>2, <1>3, <1>6, <1>7, <2>1
<1>9. neighs' \in [0 .. idx[Size(L)] - 1 -> Ids \cup {None}]
  <2>1. ASSUME NEW i \in 0 .. idx[Size(L)] - 1, i \in idx[n] .. idx[n + 1] - 1, i - idx[n] < Out(L)[n]
        PROVE  new[i - idx[n] + 1] \in Ids
    <3>1. i - idx[n] + 1 \in 1 .. Out(L)[n]
      BY <1>1, <1>5, <2>1
    <3> QED BY <1>7, <3>1
  <2> QED BY <1>3, <1>8, <2>1
<1>10. RowIs(neighs', idx[n], new)
  <2>1. ASSUME NEW k \in DOMAIN new PROVE neighs'[idx[n] + k - 1] = new[k]
    <3>1. k \in 1 .. Out(L)[n]
      BY <1>1, <1>5 DEF new
    <3>2. PICK i : i = idx[n] + k - 1
      OBVIOUS
    <3>3. i \in idx[n] .. idx[n + 1] - 1 /\ i - idx[n] < Out(L)[n] /\ i - idx[n] + 1 = k
      BY <1>1, <1>5, <3>1, <3>2
    <3>4. i \in 0 .. idx[Size(L)] - 1
      BY <1>1, <1>5, <3>3
    <3>5. neighs'[i] = new[i - idx[n] + 1]
      BY <1>8, <3>3, <3>4
    <3> QED BY <3>2, <3>3, <3>5
  <2> QED BY <2>1 DEF RowIs
<1>11. ASSUME NEW m \in NodesOf(L) \ {n}, NEW i \in idx[m] .. idx[m + 1] - 1 PROVE neighs'[i] = neighs[i]
  <2>1. i \notin idx[n] .. idx[n + 1] - 1 /\ i \in 0 .. idx[Size(L)] - 1
    BY <1>1, <1>5
  <2> QED BY <1>8, <2>1
<1>12. diffs \in [NodesOf(L) -> Nat] /\ diffs' = [diffs EXCEPT ![n] = Out(L)[n]]
  BY <1>1, <1>2, <1>7 DEF Squishing
<1>13. ASSUME NEW m \in NodesOf(L)
       PROVE  IF m \in todo' THEN RowOf(neighs', idx[m], idx[m + 1], Reach(L, m))
              ELSE diffs'[m] = Out(L)[m] /\ RowIs(neighs', idx[m], Ordered(Nbrs(L, m)))
  <2>1. CASE m = n
    BY <1>1, <1>2, <1>10, <1>12, <2>1 DEF new
  <2>2. CASE m # n /\ m \in todo
    <3>1. RowOf(neighs, idx[m], idx[m + 1], Reach(L, m))
      BY <1>1, <1>2, <2>2 DEF Squishing, idx
    <3>2. RowOf(neighs', idx[m], idx[m + 1], Reach(L, m))
      BY <1>11, <2>2, <3>1 DEF RowOf
    <3> QED BY <1>2, <2>2, <3>2
  <2>3. CASE m # n /\ m \notin todo
    <3>1. diffs[m] = Out(L)[m] /\ RowIs(neighs, idx[m], Ordered(Nbrs(L, m)))
      BY <1>1, <1>2, <2>3 DEF Squishing, idx
    <3>2. ASSUME NEW k \in 1 .. Out(L)[m] PROVE neighs'[idx[m] + k - 1] = neighs[idx[m] + k - 1]
      <4>1. idx[m] + k - 1 \in idx[m] .. idx[m + 1] - 1
        BY <1>5
      <4> QED BY <1>11, <2>3, <4>1
    <3>3. RowIs(neighs', idx[m], Ordered(Nbrs(L, m)))
      BY <1>5, <3>1, <3>2 DEF RowIs
    <3> QED BY <1>2, <1>12, <2>3, <3>1, <3>3
  <2> QED BY <2>1, <2>2, <2>3
<1>15. Squishing(L)'
  <2>1. diffs' \in [NodesOf(L) -> Nat]
    BY <1>1, <1>5, <1>12
  <2> QED BY <1>2, <1>13, <2>1 DEF Squishing, idx, RowIs, RowOf
<1>16. Loops(L, S)' /\ Filling(L, S)'
  <2>1. todo' \subseteq NodesOf(L)
    BY <1>1, <1>2 DEF Loops
  <2> QED BY <1>1, <1>2, <2>1, NodePhaseFrame DEF PhaseNames
<1>17. Counting(L, S)' /\ Storage(L)'
  BY <1>1, <1>2, <1>3, <1>9 DEF Counting, Storage, idx
<1>18. Copying(L)' /\ LayingOut(L)'
  BY <1>1, <1>2 DEF LayingOut, Copying
<1> QED BY <1>15, <1>16, <1>17, <1>18 DEF Inv

LEMMA SquishedInv ==
    ASSUME NEW L \in AllEdgeLists, NEW S \in SUBSET Ends(L), Inv(L, S), Squished
    PROVE  Inv(L, S)'
<1>1. /\ el = L /\ IsList(L) /\ Nodes = NodesOf(L) /\ NumNodes = Size(L)
      /\ Loops(L, S) /\ Counting(L, S) /\ LayingOut(L) /\ Storage(L) /\ Squishing(L)
  BY Statics DEF Inv, Loops
<1>2. /\ phase = "squish" /\ todo = {} /\ phase' = "copy" /\ todo' = NodesOf(L)
      /\ sqIndex' = ParallelPrefixSum(diffs) /\ sqNeighs' = Unset(sqIndex'[NumNodes])
      /\ UNCHANGED <<el, threadVars, csrVars, diffs, region>>
  BY <1>1 DEF Squished
<1>3. diffs = Out(L)
  <2>1. diffs \in [NodesOf(L) -> Nat] /\ \A n \in NodesOf(L) : diffs[n] = Out(L)[n]
    BY <1>1, <1>2 DEF Squishing
  <2>2. Out(L) = [n \in NodesOf(L) |-> Out(L)[n]]
    BY DEF Out
  <2> QED BY <2>1, <2>2
<1>4. Size(L) \in Nat \ {0} /\ Counts(Out(L), Size(L)) /\ IsIndex(SqIdx(L), Out(L), Size(L))
  BY <1>1, Indexes
<1>5. sqIndex' = SqIdx(L)
  BY <1>1, <1>2, <1>3, <1>4, ParallelPrefixSumAdds DEF SqIdx
<1>6. sqNeighs' = [i \in 0 .. AllOf(L) - 1 |-> None]
  BY <1>1, <1>2, <1>5 DEF Unset, AllOf
<1>7. Loops(L, S)' /\ Filling(L, S)'
  BY <1>1, <1>2, NodePhaseFrame DEF PhaseNames
<1>8. Counting(L, S)' /\ Storage(L)'
  BY <1>1, <1>2 DEF Counting, Storage, csrVars
<1>9. Copying(L)'
  <2>1. sqNeighs' \in [0 .. AllOf(L) - 1 -> Ids \cup {None}]
    BY <1>6
  <2>2. \A n \in NodesOf(L) : RowIs(neighs, Idx(L)[n], Ordered(Nbrs(L, n)))
    BY <1>1, <1>2 DEF Squishing
  <2> QED BY <1>2, <1>3, <1>5, <2>1, <2>2 DEF Copying, RowIs, csrVars
<1>10. Squishing(L)' /\ LayingOut(L)'
  BY <1>1, <1>2 DEF LayingOut, Squishing
<1> QED BY <1>7, <1>8, <1>9, <1>10 DEF Inv

(* Where the rows of the squished graph are.                                *)
LEMMA SquishedRows ==
    ASSUME NEW L, IsList(L), NEW n \in NodesOf(L)
    PROVE  /\ SqIdx(L)[n] \in Nat /\ Out(L)[n] \in Nat /\ SqIdx(L)[n + 1] = SqIdx(L)[n] + Out(L)[n]
           /\ SqIdx(L)[n] + Out(L)[n] <= AllOf(L) /\ AllOf(L) \in Nat
           /\ \A m \in NodesOf(L) : \A i \in SqIdx(L)[n] .. SqIdx(L)[n] + Out(L)[n] - 1 :
                  i \in SqIdx(L)[m] .. SqIdx(L)[m] + Out(L)[m] - 1 => n = m
<1>1. Size(L) \in Nat \ {0} /\ Counts(Out(L), Size(L)) /\ IsIndex(SqIdx(L), Out(L), Size(L))
      /\ NodesOf(L) = 0 .. Size(L) - 1
  BY Indexes DEF NodesOf
<1>2. /\ SqIdx(L)[n] \in Nat /\ SqIdx(L)[n + 1] = SqIdx(L)[n] + Out(L)[n] /\ Out(L)[n] \in Nat
      /\ SqIdx(L)[n + 1] <= AllOf(L) /\ AllOf(L) \in Nat
      /\ \A m \in 0 .. Size(L) - 1 : \A i \in SqIdx(L)[n] .. SqIdx(L)[n + 1] - 1 :
             i \in SqIdx(L)[m] .. SqIdx(L)[m + 1] - 1 => n = m
  BY <1>1, RowsApart DEF AllOf
<1>3. \A m \in NodesOf(L) : SqIdx(L)[m + 1] = SqIdx(L)[m] + Out(L)[m]
  BY <1>1 DEF IsIndex
<1>4. ASSUME NEW m \in NodesOf(L), NEW i \in SqIdx(L)[n] .. SqIdx(L)[n] + Out(L)[n] - 1,
             i \in SqIdx(L)[m] .. SqIdx(L)[m] + Out(L)[m] - 1
      PROVE  n = m
  <2>1. i \in SqIdx(L)[n] .. SqIdx(L)[n + 1] - 1
    BY <1>2
  <2>2. SqIdx(L)[m + 1] = SqIdx(L)[m] + Out(L)[m]
    BY <1>3
  <2>3. i \in SqIdx(L)[m] .. SqIdx(L)[m + 1] - 1
    <3>1. PICK a \in Nat, b \in Nat : a = SqIdx(L)[m] /\ b = Out(L)[m]
      BY <1>1 DEF IsIndex, Counts
    <3>2. i \in a .. a + b - 1 /\ SqIdx(L)[m + 1] = a + b
      BY <1>4, <2>2, <3>1
    <3> QED BY <3>1, <3>2
  <2> QED BY <1>1, <1>2, <2>1, <2>3
<1>5. SqIdx(L)[n] + Out(L)[n] <= AllOf(L)
  BY <1>2
<1> QED BY <1>2, <1>4, <1>5

LEMMA CopyInv ==
    ASSUME NEW L \in AllEdgeLists, NEW S \in SUBSET Ends(L), Inv(L, S), NEW n \in Nodes, Copy(n)
    PROVE  Inv(L, S)'
<1> DEFINE idx == Idx(L)
           sq == SqIdx(L)
           row(m) == Ordered(Nbrs(L, m))
<1>1. /\ el = L /\ IsList(L) /\ Nodes = NodesOf(L) /\ n \in NodesOf(L)
      /\ Loops(L, S) /\ Counting(L, S) /\ LayingOut(L) /\ Storage(L) /\ Copying(L)
  BY Statics DEF Inv, Loops
<1>2. /\ phase = "copy" /\ n \in todo /\ todo' = todo \ {n}
      /\ sqNeighs' = [i \in DOMAIN sqNeighs |->
                       IF i \in sqIndex[n] .. sqIndex[n] + diffs[n] - 1
                       THEN neighs[index[n] + i - sqIndex[n]] ELSE sqNeighs[i]]
      /\ UNCHANGED <<el, phase, threadVars, csrVars, diffs, sqIndex, region>>
  BY DEF Copy
<1>3. index = idx /\ diffs = Out(L) /\ sqIndex = sq /\ sqNeighs \in [0 .. AllOf(L) - 1 -> Ids \cup {None}]
      /\ \A m \in NodesOf(L) : RowIs(neighs, idx[m], row(m)) /\ (m \notin todo => RowIs(sqNeighs, sq[m], row(m)))
  BY <1>1, <1>2 DEF Counting, Copying
<1>4. ASSUME NEW m \in NodesOf(L)
      PROVE  /\ sq[m] \in Nat /\ Out(L)[m] \in Nat /\ sq[m] + Out(L)[m] <= AllOf(L) /\ AllOf(L) \in Nat
             /\ \A b \in NodesOf(L) : \A i \in sq[m] .. sq[m] + Out(L)[m] - 1 :
                    i \in sq[b] .. sq[b] + Out(L)[b] - 1 => m = b
             /\ DOMAIN row(m) = 1 .. Out(L)[m]
             /\ \A k \in 1 .. Out(L)[m] : row(m)[k] \in Ids
             /\ idx[m] \in Nat
  <2>1. idx[m] \in Nat
    <3>1. IsIndex(idx, Deg(L), Size(L)) /\ m \in 0 .. Size(L) /\ Size(L) \in Nat
      BY <1>1, Indexes DEF NodesOf
    <3> QED BY <3>1 DEF IsIndex
  <2>2. /\ sq[m] \in Nat /\ Out(L)[m] \in Nat /\ sq[m] + Out(L)[m] <= AllOf(L) /\ AllOf(L) \in Nat
        /\ \A b \in NodesOf(L) : \A i \in sq[m] .. sq[m] + Out(L)[m] - 1 :
               i \in sq[b] .. sq[b] + Out(L)[b] - 1 => m = b
    BY <1>1, SquishedRows
  <2>3. DOMAIN row(m) = 1 .. Out(L)[m] /\ \A k \in 1 .. Out(L)[m] : row(m)[k] \in Ids
    BY <1>1, RowFacts
  <2> QED BY <2>1, <2>2, <2>3
<1> HIDE DEF idx, sq, row
<1>5. sqNeighs' = [i \in 0 .. AllOf(L) - 1 |->
                     IF i \in sq[n] .. sq[n] + Out(L)[n] - 1 THEN neighs[idx[n] + i - sq[n]] ELSE sqNeighs[i]]
  <2>1. DOMAIN sqNeighs = 0 .. AllOf(L) - 1
    BY <1>3
  <2> QED BY <1>2, <1>3, <2>1
<1>6. ASSUME NEW k \in 1 .. Out(L)[n] PROVE neighs[idx[n] + k - 1] = row(n)[k]
  BY <1>1, <1>3, <1>4 DEF RowIs
<1>7. ASSUME NEW i \in sq[n] .. sq[n] + Out(L)[n] - 1
      PROVE  /\ i - sq[n] + 1 \in 1 .. Out(L)[n] /\ i \in 0 .. AllOf(L) - 1
             /\ neighs[idx[n] + i - sq[n]] = row(n)[i - sq[n] + 1]
  <2>1. sq[n] \in Nat /\ Out(L)[n] \in Nat /\ idx[n] \in Nat /\ sq[n] + Out(L)[n] <= AllOf(L) /\ AllOf(L) \in Nat
    BY <1>1, <1>4
  <2>2. PICK k \in 1 .. Out(L)[n] : k = i - sq[n] + 1
    BY <2>1
  <2>3. idx[n] + k - 1 = idx[n] + i - sq[n]
    BY <2>1, <2>2
  <2> QED BY <1>6, <2>1, <2>2, <2>3
<1>8. sqNeighs' \in [0 .. AllOf(L) - 1 -> Ids \cup {None}]
  <2>1. \A i \in sq[n] .. sq[n] + Out(L)[n] - 1 : neighs[idx[n] + i - sq[n]] \in Ids
    BY <1>1, <1>4, <1>7
  <2> QED BY <1>3, <1>5, <2>1
<1>9. ASSUME NEW m \in NodesOf(L), m \notin todo' PROVE RowIs(sqNeighs', sq[m], row(m))
  <2> SUFFICES ASSUME NEW k \in 1 .. Out(L)[m] PROVE sqNeighs'[sq[m] + k - 1] = row(m)[k]
    BY <1>4 DEF RowIs
  <2>1. PICK i : i = sq[m] + k - 1
    OBVIOUS
  <2>2. i \in sq[m] .. sq[m] + Out(L)[m] - 1 /\ i \in 0 .. AllOf(L) - 1 /\ i - sq[m] + 1 = k
    BY <1>4, <2>1
  <2>3. CASE m = n
    BY <1>5, <1>7, <2>1, <2>2, <2>3
  <2>4. CASE m # n
    <3>1. i \notin sq[n] .. sq[n] + Out(L)[n] - 1
      BY <1>1, <1>4, <2>2, <2>4
    <3>2. RowIs(sqNeighs, sq[m], row(m))
      BY <1>2, <1>3, <1>9, <2>4
    <3>3. sqNeighs[i] = row(m)[k]
      BY <1>4, <2>1, <3>2 DEF RowIs
    <3> QED BY <1>5, <2>1, <2>2, <3>1, <3>3
  <2> QED BY <2>3, <2>4
<1>10. Copying(L)'
  BY <1>2, <1>3, <1>8, <1>9 DEF Copying, RowIs, idx, sq, row, csrVars
<1>11. Loops(L, S)' /\ Filling(L, S)'
  <2>1. todo' \subseteq NodesOf(L)
    BY <1>1, <1>2 DEF Loops
  <2> QED BY <1>1, <1>2, <2>1, NodePhaseFrame DEF PhaseNames
<1>12. Counting(L, S)' /\ Storage(L)'
  BY <1>1, <1>2 DEF Counting, Storage, csrVars
<1>13. Squishing(L)' /\ LayingOut(L)'
  BY <1>1, <1>2 DEF LayingOut, Squishing
<1> QED BY <1>10, <1>11, <1>12, <1>13 DEF Inv
-----------------------------------------------------------------------------
(* The memory of the region: a value of 64 bits comes back from its halves. *)
IsMemory(mem, size) == mem \in [0 .. size - 1 -> Ids \cup {None}]

LEMMA Put64Facts ==
    ASSUME NEW size \in Nat, NEW mem, IsMemory(mem, size), NEW at \in Nat, at + 1 < size,
           NEW x \in 0 .. Radix * Radix - 1
    PROVE  /\ IsMemory(Put64(mem, at, x), size)
           /\ Get64(Put64(mem, at, x), at) = x
           /\ \A c \in 0 .. size - 1 : c \notin {at, at + 1} => Put64(mem, at, x)[c] = mem[c]
<1> DEFINE new == Put64(mem, at, x)
<1>1. Radix \in Nat \ {0, 1}
  BY CSRAssumption
<1>2. PICK r \in Nat \ {0, 1} : r = Radix
  BY <1>1
<1>3. x \in Nat /\ x < r * r
  BY <1>2
<1>4. x % r \in 0 .. r - 1 /\ x = (x % r) + r * (x \div r)
  BY <1>3
<1>5. x \div r \in 0 .. r - 1
  <2>1. x \div r \in 0 .. x /\ r * (x \div r) <= x
    BY <1>3, DivBounds
  <2>2. PICK q \in Nat : q = x \div r
    BY <2>1
  <2>3. r * q < r * r
    BY <1>3, <2>1, <2>2
  <2>4. q < r
    BY <2>3
  <2> QED BY <2>2, <2>4
<1>6. Half(x, 0) = x % Radix /\ Half(x, 1) = x \div Radix
  BY DEF Half
<1>7. new = [c \in 0 .. size - 1 |-> IF c \in {at, at + 1} THEN Half(x, c - at) ELSE mem[c]]
  BY DEF Put64, IsMemory
<1>8. at \in 0 .. size - 1 /\ at + 1 \in 0 .. size - 1 /\ at - at = 0 /\ (at + 1) - at = 1 /\ at # at + 1
  OBVIOUS
<1> HIDE DEF new
<1>9. new[at] = x % Radix /\ new[at + 1] = x \div Radix
  BY <1>6, <1>7, <1>8
<1>10. \A c \in 0 .. size - 1 : c \notin {at, at + 1} => new[c] = mem[c]
  BY <1>7
<1>11. Get64(new, at) = x
  BY <1>2, <1>4, <1>9 DEF Get64
<1>12. \A c \in 0 .. size - 1 : new[c] \in Ids \cup {None}
  <2> TAKE c \in 0 .. size - 1
  <2>1. CASE c = at
    BY <1>2, <1>4, <1>9, <2>1 DEF Ids
  <2>2. CASE c = at + 1
    BY <1>2, <1>5, <1>9, <2>2 DEF Ids
  <2>3. CASE c \notin {at, at + 1}
    BY <1>10, <2>3 DEF IsMemory
  <2> QED BY <2>1, <2>2, <2>3
<1>13. IsMemory(new, size)
  BY <1>7, <1>12 DEF IsMemory
<1> QED BY <1>10, <1>11, <1>13 DEF new

(* The sections of the region, one after the other.                         *)
LEMMA Addresses ==
    ASSUME NEW L, IsList(L)
    PROVE  /\ AllOf(L) \in Nat /\ Size(L) \in Nat \ {0} /\ Length(L) \in Nat
           /\ NumNodesAt = 1 /\ IndexXAt = 3 /\ NeighSizeAt = 5 /\ NeighsAt = 7
           /\ SizesAt(AllOf(L)) = 7 + AllOf(L)
           /\ RowsAt(AllOf(L), Size(L) + 1) = 9 + AllOf(L) + 2 * Size(L)
           /\ Length(L) = 9 + 2 * AllOf(L) + 2 * Size(L)
           /\ \A n \in NodesOf(L) :
                  /\ n \in 0 .. Size(L) - 1
                  /\ SizeAt(L, n) = 7 + AllOf(L) + 2 * n
                  /\ SqIdx(L)[n] \in Nat /\ Out(L)[n] \in Nat /\ SqIdx(L)[n] + Out(L)[n] <= AllOf(L)
                  /\ RowAt(L, n) = 9 + AllOf(L) + 2 * Size(L) + SqIdx(L)[n]
<1>1. Size(L) \in Nat \ {0} /\ AllOf(L) \in Nat
  BY Indexes DEF AllOf, IsIndex
<1>2. PICK k \in Nat \ {0} : k = Size(L)
  BY <1>1
<1>3. PICK all \in Nat : all = AllOf(L)
  BY <1>1
<1>4. NumNodesAt = 1 /\ IndexXAt = 3 /\ NeighSizeAt = 5 /\ NeighsAt = 7
  BY DEF NumNodesAt, IndexXAt, NeighSizeAt, NeighsAt, Wide
<1>5. SizesAt(AllOf(L)) = 7 + all
  BY <1>3, <1>4 DEF SizesAt
<1>6. RowsAt(AllOf(L), Size(L) + 1) = 9 + all + 2 * k
  BY <1>2, <1>3, <1>5 DEF RowsAt, Wide
<1>7. Length(L) = 9 + 2 * all + 2 * k
  BY <1>3, <1>6 DEF Length
<1>8. ASSUME NEW n \in NodesOf(L)
      PROVE  /\ n \in 0 .. Size(L) - 1
             /\ SizeAt(L, n) = 7 + all + 2 * n
             /\ SqIdx(L)[n] \in Nat /\ Out(L)[n] \in Nat /\ SqIdx(L)[n] + Out(L)[n] <= all
             /\ RowAt(L, n) = 9 + all + 2 * k + SqIdx(L)[n]
  <2>1. n \in 0 .. k - 1
    BY <1>2 DEF NodesOf
  <2>2. SizeAt(L, n) = 7 + all + 2 * n
    BY <1>5, <2>1 DEF SizeAt, Wide
  <2>3. SqIdx(L)[n] \in Nat /\ Out(L)[n] \in Nat /\ SqIdx(L)[n] + Out(L)[n] <= all
    BY <1>3, SquishedRows
  <2>4. RowAt(L, n) = 9 + all + 2 * k + SqIdx(L)[n]
    BY <1>6 DEF RowAt
  <2> QED BY <1>2, <2>1, <2>2, <2>3, <2>4
<1> QED BY <1>2, <1>3, <1>4, <1>5, <1>6, <1>7, <1>8

(* The metadata and the sizes fit 64 bits.                                  *)
LEMMA ValuesFit ==
    ASSUME NEW L, IsList(L)
    PROVE  /\ Size(L) \in 0 .. Radix * Radix - 1 /\ Size(L) + 1 \in 0 .. Radix * Radix - 1
           /\ AllOf(L) \in 0 .. Radix * Radix - 1
           /\ \A n \in NodesOf(L) : Out(L)[n] \in 0 .. Radix * Radix - 1
<1>1. PICK r \in Nat \ {0, 1} : r = Radix
  BY CSRAssumption
<1>2. PICK k \in 1 .. r : k = Size(L)
  BY <1>1, ListNodes
<1>3. PICK big \in Nat : big = r * r
  BY <1>1
<1>4. 2 * r <= big
  BY <1>1, <1>3
<1>5. AllOf(L) \in 0 .. Radix * Radix - 1
  BY Indexes DEF AllOf
<1>6. \A n \in NodesOf(L) : Out(L)[n] \in 0 .. k - 1
  BY <1>2, RowLengths
<1>7. k \in 0 .. big - 1 /\ k + 1 \in 0 .. big - 1
  BY <1>1, <1>2, <1>4
<1>8. \A n \in NodesOf(L) : Out(L)[n] \in 0 .. big - 1
  BY <1>1, <1>2, <1>6, <1>7
<1> QED BY <1>1, <1>2, <1>3, <1>5, <1>7, <1>8

LEMMA CopiedInv ==
    ASSUME NEW L \in AllEdgeLists, NEW S \in SUBSET Ends(L), Inv(L, S), Copied
    PROVE  /\ Inv(L, S)' /\ \A c \in DOMAIN region : FALSE
<1>1. /\ el = L /\ IsList(L) /\ Nodes = NodesOf(L) /\ NumNodes = Size(L)
      /\ Loops(L, S) /\ Counting(L, S) /\ LayingOut(L) /\ Storage(L) /\ Copying(L)
  BY Statics DEF Inv, Loops
<1>2. /\ phase = "copy" /\ todo = {} /\ phase' = "sizes" /\ todo' = NodesOf(L)
      /\ region' = Put64(Put64(Put64(Unset(RowsAt(NeighSize, IndexX) + NeighSize),
                                     NumNodesAt, NumNodes), IndexXAt, IndexX), NeighSizeAt, NeighSize)
      /\ UNCHANGED <<el, threadVars, csrVars, squishVars>>
  BY <1>1 DEF Copied
<1>3. NeighSize = AllOf(L) /\ IndexX = Size(L) + 1
  BY <1>1, <1>2 DEF NeighSize, IndexX, AllOf, Copying
<1>4. PICK all \in Nat, k \in Nat \ {0}, size \in Nat :
            /\ all = AllOf(L) /\ k = Size(L) /\ size = Length(L) /\ size = 9 + 2 * all + 2 * k
  BY <1>1, Addresses
<1> DEFINE m0 == Unset(size)
           m1 == Put64(m0, 1, k)
           m2 == Put64(m1, 3, k + 1)
           m3 == Put64(m2, 5, all)
<1>5. region' = m3
  BY <1>1, <1>2, <1>3, <1>4, Addresses DEF Length
<1>6. IsMemory(m0, size) /\ \A c \in 0 .. size - 1 : m0[c] = None
  BY DEF IsMemory, Unset
<1>7. k \in 0 .. Radix * Radix - 1 /\ k + 1 \in 0 .. Radix * Radix - 1 /\ all \in 0 .. Radix * Radix - 1
  BY <1>1, <1>4, ValuesFit
<1> HIDE DEF m0
<1>8. IsMemory(m1, size) /\ Get64(m1, 1) = k /\ \A c \in 0 .. size - 1 : c \notin {1, 1 + 1} => m1[c] = m0[c]
  BY <1>4, <1>6, <1>7, Put64Facts
<1> HIDE DEF m1
<1>9. IsMemory(m2, size) /\ Get64(m2, 3) = k + 1 /\ \A c \in 0 .. size - 1 : c \notin {3, 3 + 1} => m2[c] = m1[c]
  <2>1. 3 \in Nat /\ 3 + 1 < size
    BY <1>4
  <2> HIDE DEF m2
  <2>2. m2 = Put64(m1, 3, k + 1)
    BY DEF m2
  <2>3. PICK x \in 0 .. Radix * Radix - 1 : x = k + 1
    BY <1>7
  <2>4. PICK at \in Nat : at = 3
    OBVIOUS
  <2>5. m2 = Put64(m1, at, x) /\ at + 1 < size
    BY <2>1, <2>2, <2>3, <2>4
  <2>6. IsMemory(m2, size) /\ Get64(m2, at) = x /\ \A c \in 0 .. size - 1 : c \notin {at, at + 1} => m2[c] = m1[c]
    BY <1>8, <2>5, Put64Facts
  <2> QED BY <2>3, <2>4, <2>6
<1> HIDE DEF m2
<1>10. IsMemory(m3, size) /\ Get64(m3, 5) = all /\ \A c \in 0 .. size - 1 : c \notin {5, 5 + 1} => m3[c] = m2[c]
  <2>1. 5 \in Nat /\ 5 + 1 < size
    BY <1>4
  <2> HIDE DEF m3
  <2>2. m3 = Put64(m2, 5, all)
    BY DEF m3
  <2>4. PICK at \in Nat : at = 5
    OBVIOUS
  <2>5. m3 = Put64(m2, at, all) /\ at + 1 < size
    BY <2>1, <2>2, <2>4
  <2>6. IsMemory(m3, size) /\ Get64(m3, at) = all /\ \A c \in 0 .. size - 1 : c \notin {at, at + 1} => m3[c] = m2[c]
    BY <1>7, <1>9, <2>5, Put64Facts
  <2> QED BY <2>4, <2>6
<1> HIDE DEF m3
<1>11. Get64(m3, 1) = k /\ Get64(m3, 3) = k + 1
  <2>1. m3[1] = m1[1] /\ m3[2] = m1[2] /\ m3[3] = m2[3] /\ m3[4] = m2[4]
    BY <1>4, <1>9, <1>10
  <2>2. Get64(m3, 1) = Get64(m1, 1) /\ Get64(m3, 3) = Get64(m2, 3)
    BY <2>1 DEF Get64
  <2> QED BY <1>8, <1>9, <2>2
<1>12. \A c \in 0 .. size - 1 : c \notin 1 .. 6 => m3[c] = None
  BY <1>6, <1>8, <1>9, <1>10
<1>13. Layout(L, m3, "sizes", NodesOf(L))
  <2>1. m3 \in [0 .. Length(L) - 1 -> Ids \cup {None}]
    BY <1>4, <1>10 DEF IsMemory
  <2>2. Get64(m3, NumNodesAt) = Size(L) /\ Get64(m3, IndexXAt) = Size(L) + 1 /\ Get64(m3, NeighSizeAt) = AllOf(L)
    BY <1>1, <1>4, <1>10, <1>11, Addresses
  <2>3. \A c \in {0} \cup NeighsAt .. SizesAt(AllOf(L)) - 1 : m3[c] = None
    <3>1. NeighsAt = 7 /\ SizesAt(AllOf(L)) = 7 + all
      BY <1>1, <1>4, Addresses
    <3>2. \A c \in {0} \cup 7 .. 7 + all - 1 : c \in 0 .. size - 1 /\ c \notin 1 .. 6
      BY <1>4
    <3> QED BY <1>12, <3>1, <3>2
  <2>4. ASSUME NEW n \in NodesOf(L)
        PROVE  /\ m3[SizeAt(L, n)] = None /\ m3[SizeAt(L, n) + 1] = None
               /\ \A c \in RowAt(L, n) .. RowAt(L, n) + Out(L)[n] - 1 : m3[c] = None
    <3>1. n \in 0 .. k - 1 /\ SizeAt(L, n) = 7 + all + 2 * n
      BY <1>1, <1>4, Addresses
    <3>2. PICK s \in Nat, o \in Nat : s = SqIdx(L)[n] /\ o = Out(L)[n] /\ s + o <= all
          /\ RowAt(L, n) = 9 + all + 2 * k + s
      BY <1>1, <1>4, Addresses
    <3>3. 7 + all + 2 * n \in 0 .. size - 1 /\ 7 + all + 2 * n + 1 \in 0 .. size - 1
          /\ 7 + all + 2 * n \notin 1 .. 6 /\ 7 + all + 2 * n + 1 \notin 1 .. 6
      BY <1>4, <3>1
    <3>4. \A c \in 9 + all + 2 * k + s .. 9 + all + 2 * k + s + o - 1 : c \in 0 .. size - 1 /\ c \notin 1 .. 6
      BY <1>4, <3>2
    <3> QED BY <1>12, <3>1, <3>2, <3>3, <3>4
  <2> QED BY <2>1, <2>2, <2>3, <2>4 DEF Layout
<1>14. LayingOut(L)'
  BY <1>2, <1>5, <1>13 DEF LayingOut, Layout, Get64, RowIs
<1>15. Loops(L, S)' /\ Filling(L, S)'
  BY <1>1, <1>2, NodePhaseFrame DEF PhaseNames
<1>16. Counting(L, S)' /\ Storage(L)' /\ Squishing(L)'
  BY <1>1, <1>2 DEF Counting, Storage, Squishing, csrVars
<1>17. Copying(L)'
  BY <1>1, <1>2 DEF Copying, RowIs, csrVars, squishVars
<1>18. region = <<>>
  BY <1>1, <1>2 DEF LayingOut
<1> QED BY <1>14, <1>15, <1>16, <1>17, <1>18 DEF Inv

(* A store to the region keeps what it does not store to.                   *)
LEMMA PutSizeLays ==
    ASSUME NEW L, IsList(L), NEW mem, NEW left \in SUBSET NodesOf(L), Layout(L, mem, "sizes", left),
           NEW n \in left
    PROVE  LET new == Put64(mem, SizeAt(L, n), Out(L)[n])
           IN  /\ Layout(L, new, "sizes", left \ {n})
               /\ \A c \in DOMAIN mem : mem[c] # None => new[c] = mem[c]
<1> DEFINE new == Put64(mem, SizeAt(L, n), Out(L)[n])
<1>1. PICK all \in Nat, k \in Nat \ {0}, size \in Nat :
            /\ all = AllOf(L) /\ k = Size(L) /\ size = Length(L) /\ size = 9 + 2 * all + 2 * k
            /\ NeighsAt = 7 /\ SizesAt(AllOf(L)) = 7 + all
  BY Addresses
<1>2. \A m \in NodesOf(L) : m \in 0 .. k - 1 /\ SizeAt(L, m) = 7 + all + 2 * m
  BY <1>1, Addresses
<1>3. n \in NodesOf(L) /\ Out(L)[n] \in 0 .. Radix * Radix - 1
  BY ValuesFit
<1>4. PICK at \in Nat : at = SizeAt(L, n) /\ at = 7 + all + 2 * n /\ at + 1 < 9 + all + 2 * k /\ n \in 0 .. k - 1
  <2>1. n \in 0 .. k - 1 /\ SizeAt(L, n) = 7 + all + 2 * n
    BY <1>2, <1>3
  <2> QED BY <1>1, <2>1
<1>5. IsMemory(mem, size)
  BY <1>1 DEF Layout, IsMemory
<1>6. /\ IsMemory(new, size) /\ Get64(new, at) = Out(L)[n]
      /\ \A c \in 0 .. size - 1 : c \notin {at, at + 1} => new[c] = mem[c]
  <2>1. at + 1 < size
    BY <1>1, <1>4
  <2> QED BY <1>3, <1>4, <1>5, <2>1, Put64Facts
<1>7. mem[at] = None /\ mem[at + 1] = None
  BY <1>3, <1>4 DEF Layout
<1> HIDE DEF new
<1>8. \A c \in 0 .. 6 + all : new[c] = mem[c]
  BY <1>1, <1>4, <1>6
<1>9. Get64(new, NumNodesAt) = Size(L) /\ Get64(new, IndexXAt) = Size(L) + 1 /\ Get64(new, NeighSizeAt) = AllOf(L)
  <2>1. new[1] = mem[1] /\ new[2] = mem[2] /\ new[3] = mem[3] /\ new[4] = mem[4] /\ new[5] = mem[5] /\ new[6] = mem[6]
    BY <1>1, <1>8
  <2>2. NumNodesAt = 1 /\ IndexXAt = 3 /\ NeighSizeAt = 5
    BY Addresses
  <2>3. Get64(new, 1) = Get64(mem, 1) /\ Get64(new, 3) = Get64(mem, 3) /\ Get64(new, 5) = Get64(mem, 5)
    BY <2>1 DEF Get64
  <2> QED BY <2>2, <2>3 DEF Layout
<1>10. \A c \in {0} \cup NeighsAt .. SizesAt(AllOf(L)) - 1 : new[c] = None
  <2>1. \A c \in {0} \cup NeighsAt .. SizesAt(AllOf(L)) - 1 : mem[c] = None
    BY DEF Layout
  <2>2. \A c \in {0} \cup 7 .. 7 + all - 1 : c \in 0 .. 6 + all
    BY <1>1
  <2> QED BY <1>1, <1>8, <2>1, <2>2
<1>11. ASSUME NEW m \in NodesOf(L)
       PROVE  IF m \in left \ {n} THEN new[SizeAt(L, m)] = None /\ new[SizeAt(L, m) + 1] = None
              ELSE Get64(new, SizeAt(L, m)) = Out(L)[m]
  <2>1. CASE m = n
    BY <1>4, <1>6, <2>1
  <2>2. CASE m # n
    <3>1. PICK b \in Nat : b = SizeAt(L, m) /\ b = 7 + all + 2 * m /\ m \in 0 .. k - 1
      BY <1>2
    <3>2. b \in 0 .. size - 1 /\ b + 1 \in 0 .. size - 1 /\ b \notin {at, at + 1} /\ b + 1 \notin {at, at + 1}
      BY <1>1, <1>4, <2>2, <3>1
    <3>3. new[b] = mem[b] /\ new[b + 1] = mem[b + 1]
      BY <1>6, <3>2
    <3>4. Get64(new, b) = Get64(mem, b)
      BY <3>3 DEF Get64
    <3>5. IF m \in left THEN mem[b] = None /\ mem[b + 1] = None ELSE Get64(mem, b) = Out(L)[m]
      BY <3>1 DEF Layout
    <3> QED BY <2>2, <3>1, <3>3, <3>4, <3>5
  <2> QED BY <2>1, <2>2
<1>12. ASSUME NEW m \in NodesOf(L), NEW c \in RowAt(L, m) .. RowAt(L, m) + Out(L)[m] - 1 PROVE new[c] = None
  <2>1. mem[c] = None
    BY DEF Layout
  <2>2. PICK s \in Nat, o \in Nat : s = SqIdx(L)[m] /\ o = Out(L)[m] /\ s + o <= all
        /\ RowAt(L, m) = 9 + all + 2 * k + s
    BY <1>1, Addresses
  <2>3. c \in 0 .. size - 1 /\ c \notin {at, at + 1}
    BY <1>1, <1>4, <2>2
  <2> QED BY <1>6, <2>1, <2>3
<1>13. new \in [0 .. Length(L) - 1 -> Ids \cup {None}]
  BY <1>1, <1>6 DEF IsMemory
<1>14. Layout(L, new, "sizes", left \ {n})
  BY <1>9, <1>10, <1>11, <1>12, <1>13 DEF Layout
<1>15. \A c \in DOMAIN mem : mem[c] # None => new[c] = mem[c]
  BY <1>5, <1>6, <1>7 DEF IsMemory
<1> QED BY <1>14, <1>15 DEF new

LEMMA RegionFrame ==
    ASSUME NEW L, NEW S, Loops(L, S), Counting(L, S), Storage(L), Copying(L),
           phase \in {"sizes", "rows"}, phase' \in {"sizes", "rows", "done"},
           todo' \subseteq NodesOf(L), UNCHANGED <<el, threadVars, csrVars, squishVars>>
    PROVE  /\ Loops(L, S)' /\ Filling(L, S)' /\ Counting(L, S)' /\ Storage(L)'
           /\ Squishing(L)' /\ Copying(L)'
<1>1. UNCHANGED <<el, threadVars>> /\ phase \notin {"count", "fill"} /\ phase' \in PhaseNames \ {"count", "fill"}
  BY DEF PhaseNames
<1>2. Loops(L, S)' /\ Filling(L, S)'
  BY <1>1, NodePhaseFrame
<1>3. Counting(L, S)' /\ Storage(L)' /\ Squishing(L)'
  BY DEF Counting, Storage, Squishing, csrVars
<1>4. Copying(L)'
  BY DEF Copying, RowIs, csrVars, squishVars
<1> QED BY <1>2, <1>3, <1>4

LEMMA PutSizeInv ==
    ASSUME NEW L \in AllEdgeLists, NEW S \in SUBSET Ends(L), Inv(L, S), NEW n \in Nodes, PutSize(n)
    PROVE  Inv(L, S)' /\ \A c \in DOMAIN region : region[c] # None => region'[c] = region[c]
<1>1. /\ el = L /\ IsList(L) /\ NumNodes = Size(L) /\ Nodes = NodesOf(L)
      /\ Loops(L, S) /\ Counting(L, S) /\ Storage(L) /\ Copying(L) /\ LayingOut(L)
  BY Statics DEF Inv, Loops
<1>2. /\ phase = "sizes" /\ n \in todo /\ todo' = todo \ {n}
      /\ region' = Put64(region, SizesAt(NeighSize) + n * Wide, sqIndex[n + 1] - sqIndex[n])
      /\ UNCHANGED <<el, phase, threadVars, csrVars, squishVars>>
  BY DEF PutSize
<1>3. sqIndex = SqIdx(L) /\ NeighSize = AllOf(L) /\ todo \in SUBSET NodesOf(L)
  BY <1>1, <1>2 DEF Copying, NeighSize, AllOf, Loops
<1>4. SizesAt(NeighSize) + n * Wide = SizeAt(L, n)
  BY <1>3 DEF SizeAt
<1>5. sqIndex[n + 1] - sqIndex[n] = Out(L)[n]
  <2>1. SqIdx(L)[n] \in Nat /\ Out(L)[n] \in Nat /\ SqIdx(L)[n + 1] = SqIdx(L)[n] + Out(L)[n]
    BY <1>1, SquishedRows
  <2> QED BY <1>3, <2>1
<1>6. PICK mem : mem = region
  OBVIOUS
<1>7. PICK left \in SUBSET NodesOf(L) : left = todo
  BY <1>3
<1>8. Layout(L, mem, "sizes", left) /\ n \in left
  BY <1>1, <1>2, <1>6, <1>7 DEF LayingOut
<1>9. PICK new : new = Put64(mem, SizeAt(L, n), Out(L)[n])
  OBVIOUS
<1>10. Layout(L, new, "sizes", left \ {n}) /\ \A c \in DOMAIN mem : mem[c] # None => new[c] = mem[c]
  BY <1>1, <1>8, <1>9, PutSizeLays
<1>11. region' = new /\ todo' = left \ {n} /\ phase' = "sizes"
  BY <1>2, <1>4, <1>5, <1>6, <1>9, <1>7
<1>12. LayingOut(L)'
  BY <1>10, <1>11 DEF LayingOut, Layout, Get64, RowIs
<1>13. /\ Loops(L, S)' /\ Filling(L, S)' /\ Counting(L, S)' /\ Storage(L)'
       /\ Squishing(L)' /\ Copying(L)'
  BY <1>1, <1>2, <1>6, <1>11, <1>7, RegionFrame
<1> QED BY <1>6, <1>10, <1>11, <1>12, <1>13 DEF Inv

LEMMA SizesPutInv ==
    ASSUME NEW L \in AllEdgeLists, NEW S \in SUBSET Ends(L), Inv(L, S), SizesPut
    PROVE  Inv(L, S)'
<1>1. /\ el = L /\ IsList(L) /\ NumNodes = Size(L) /\ Nodes = NodesOf(L)
      /\ Loops(L, S) /\ Counting(L, S) /\ Storage(L) /\ Copying(L) /\ LayingOut(L)
  BY Statics DEF Inv, Loops
<1>2. /\ phase = "sizes" /\ todo = {} /\ phase' = "rows" /\ todo' = NodesOf(L)
      /\ region' = region /\ UNCHANGED <<el, threadVars, csrVars, squishVars>>
  BY <1>1 DEF SizesPut
<1>3. PICK mem : mem = region
  OBVIOUS
<1>4. Layout(L, mem, "sizes", {})
  BY <1>1, <1>2, <1>3 DEF LayingOut
<1>5. Layout(L, mem, "rows", NodesOf(L))
  BY <1>4 DEF Layout
<1>6. LayingOut(L)'
  BY <1>2, <1>3, <1>5 DEF LayingOut, Layout, Get64, RowIs
<1>7. /\ Loops(L, S)' /\ Filling(L, S)' /\ Counting(L, S)' /\ Storage(L)'
      /\ Squishing(L)' /\ Copying(L)'
  BY <1>1, <1>2, RegionFrame
<1> QED BY <1>6, <1>7 DEF Inv

(* Values that a store left alone.                                          *)
LEMMA ValuesKept ==
    ASSUME NEW L, IsList(L), NEW mem, NEW new,
           \A c \in 1 .. 6 \cup SizesAt(AllOf(L)) .. RowsAt(AllOf(L), Size(L) + 1) - 1 : new[c] = mem[c]
    PROVE  /\ Get64(new, NumNodesAt) = Get64(mem, NumNodesAt) /\ Get64(new, IndexXAt) = Get64(mem, IndexXAt)
           /\ Get64(new, NeighSizeAt) = Get64(mem, NeighSizeAt)
           /\ \A n \in NodesOf(L) : Get64(new, SizeAt(L, n)) = Get64(mem, SizeAt(L, n))
<1>1. PICK all \in Nat, k \in Nat \ {0} :
            /\ all = AllOf(L) /\ k = Size(L) /\ SizesAt(AllOf(L)) = 7 + all
            /\ RowsAt(AllOf(L), Size(L) + 1) = 9 + all + 2 * k
            /\ NumNodesAt = 1 /\ IndexXAt = 3 /\ NeighSizeAt = 5
  BY Addresses
<1>2. \A c \in 1 .. 6 \cup 7 + all .. 9 + all + 2 * k - 1 : new[c] = mem[c]
  BY <1>1
<1>3. new[1] = mem[1] /\ new[1 + 1] = mem[1 + 1] /\ new[3] = mem[3] /\ new[3 + 1] = mem[3 + 1]
      /\ new[5] = mem[5] /\ new[5 + 1] = mem[5 + 1]
  BY <1>2
<1>4. ASSUME NEW n \in NodesOf(L) PROVE Get64(new, SizeAt(L, n)) = Get64(mem, SizeAt(L, n))
  <2>1. PICK b \in Nat : b = SizeAt(L, n) /\ b = 7 + all + 2 * n /\ n \in 0 .. k - 1
    BY <1>1, Addresses
  <2>2. b \in 7 + all .. 9 + all + 2 * k - 1 /\ b + 1 \in 7 + all .. 9 + all + 2 * k - 1
    BY <2>1
  <2>3. new[b] = mem[b] /\ new[b + 1] = mem[b + 1]
    BY <1>2, <2>2
  <2> QED BY <2>1, <2>3 DEF Get64
<1> QED BY <1>1, <1>3, <1>4 DEF Get64

(* The sums assign_data makes of the sizes in the region are those of the   *)
(* index, so that the row of a node starts where the index says.            *)
LEMMA RowStartAt ==
    ASSUME NEW L \in AllEdgeLists, el = L, sqIndex = SqIdx(L),
           \A m \in NodesOf(L) : Get64(region, SizeAt(L, m)) = Out(L)[m],
           NEW n \in NodesOf(L)
    PROVE  RowStart(n) = RowAt(L, n)
<1> DEFINE size == [m \in Nodes |-> Get64(region, SizesAt(NeighSize) + m * Wide)]
<1>1. IsList(L) /\ NumNodes = Size(L) /\ Nodes = NodesOf(L) /\ NodesOf(L) = 0 .. Size(L) - 1
      /\ Size(L) \in Nat
  BY Statics, Indexes DEF NodesOf
<1>2. NeighSize = AllOf(L) /\ IndexX = Size(L) + 1
  BY <1>1 DEF NeighSize, IndexX, AllOf
<1>3. size = Out(L)
  <2>1. Out(L) = [m \in NodesOf(L) |-> Out(L)[m]]
    BY DEF Out
  <2> QED BY <1>1, <1>2, <2>1 DEF SizeAt
<1>4. RowStart(n) = RowsAt(NeighSize, IndexX) + SumFunctionOnSet(size, 0 .. n - 1)
  BY DEF RowStart
<1> HIDE DEF size
<1>5. SqIdx(L)[n] = SumFunctionOnSet(Out(L), 0 .. n - 1)
  <2>1. n \in 0 .. Size(L)
    BY <1>1
  <2> QED BY <2>1 DEF SqIdx, PrefixOf
<1> QED BY <1>2, <1>3, <1>4, <1>5 DEF RowAt

RowPut(L, mem, n, rows) ==
    [c \in DOMAIN mem |-> IF c \in RowAt(L, n) .. RowAt(L, n) + Out(L)[n] - 1
                          THEN rows[SqIdx(L)[n] + c - RowAt(L, n)] ELSE mem[c]]

LEMMA PutRowLays ==
    ASSUME NEW L, IsList(L), NEW mem, NEW left \in SUBSET NodesOf(L), Layout(L, mem, "rows", left),
           NEW n \in left, NEW rows, RowIs(rows, SqIdx(L)[n], Ordered(Nbrs(L, n))),
           NEW new, new = RowPut(L, mem, n, rows)
    PROVE  Layout(L, new, "rows", left \ {n}) /\ \A c \in DOMAIN mem : mem[c] # None => new[c] = mem[c]
<1> DEFINE row(m) == Ordered(Nbrs(L, m))
<1>1. PICK all \in Nat, k \in Nat \ {0}, size \in Nat :
            /\ all = AllOf(L) /\ k = Size(L) /\ size = Length(L) /\ size = 9 + 2 * all + 2 * k
            /\ NeighsAt = 7 /\ SizesAt(AllOf(L)) = 7 + all
            /\ RowsAt(AllOf(L), Size(L) + 1) = 9 + all + 2 * k
  BY Addresses
<1>2. ASSUME NEW m \in NodesOf(L)
      PROVE  /\ RowAt(L, m) = 9 + all + 2 * k + SqIdx(L)[m]
             /\ SqIdx(L)[m] \in Nat /\ Out(L)[m] \in Nat /\ SqIdx(L)[m] + Out(L)[m] <= all
             /\ DOMAIN row(m) = 1 .. Out(L)[m] /\ \A j \in 1 .. Out(L)[m] : row(m)[j] \in Ids
  <2>1. RowAt(L, m) = 9 + all + 2 * k + SqIdx(L)[m]
        /\ SqIdx(L)[m] \in Nat /\ Out(L)[m] \in Nat /\ SqIdx(L)[m] + Out(L)[m] <= all
    BY <1>1, Addresses
  <2>2. DOMAIN row(m) = 1 .. Out(L)[m] /\ \A j \in 1 .. Out(L)[m] : row(m)[j] \in Ids
    BY RowFacts
  <2> QED BY <2>1, <2>2
<1> HIDE DEF row
<1>3. n \in NodesOf(L)
  OBVIOUS
<1>4. PICK from \in Nat, at \in Nat, o \in Nat : from = RowAt(L, n) /\ at = SqIdx(L)[n] /\ o = Out(L)[n]
        /\ from = 9 + all + 2 * k + at /\ at + o <= all
  BY <1>2, <1>3
<1>5. DOMAIN mem = 0 .. size - 1 /\ \A c \in 0 .. size - 1 : mem[c] \in Ids \cup {None}
  BY <1>1 DEF Layout
<1>6. new = [c \in 0 .. size - 1 |-> IF c \in from .. from + o - 1 THEN rows[at + c - from] ELSE mem[c]]
  BY <1>4, <1>5 DEF RowPut
<1>7. ASSUME NEW c \in from .. from + o - 1
      PROVE  /\ c \in 0 .. size - 1 /\ c - from + 1 \in 1 .. o /\ new[c] = row(n)[c - from + 1] /\ mem[c] = None
  <2>1. c \in 0 .. size - 1
    BY <1>1, <1>4
  <2>2. PICK j \in 1 .. o : j = c - from + 1
    BY <1>4
  <2>3. at + c - from = at + j - 1
    BY <1>4, <2>2
  <2>4. rows[at + j - 1] = row(n)[j]
    BY <1>2, <1>3, <1>4, <2>2 DEF RowIs, row
  <2>5. mem[c] = None
    BY <1>3, <1>4 DEF Layout
  <2> QED BY <1>6, <2>1, <2>2, <2>3, <2>4, <2>5
<1>8. \A c \in 0 .. size - 1 : c \notin from .. from + o - 1 => new[c] = mem[c]
  BY <1>6
<1>9. new \in [0 .. Length(L) - 1 -> Ids \cup {None}]
  <2>1. \A c \in from .. from + o - 1 : new[c] \in Ids
    BY <1>2, <1>3, <1>4, <1>7
  <2>2. \A c \in 0 .. size - 1 : new[c] \in Ids \cup {None}
    BY <1>5, <1>8, <2>1
  <2> QED BY <1>1, <1>6, <2>2
<1>10. \A c \in 0 .. 8 + all + 2 * k : new[c] = mem[c]
  <2>1. \A c \in 0 .. 8 + all + 2 * k : c \in 0 .. size - 1 /\ c \notin from .. from + o - 1
    BY <1>1, <1>4
  <2> QED BY <1>8, <2>1
<1>11. /\ Get64(new, NumNodesAt) = Get64(mem, NumNodesAt) /\ Get64(new, IndexXAt) = Get64(mem, IndexXAt)
       /\ Get64(new, NeighSizeAt) = Get64(mem, NeighSizeAt)
       /\ \A m \in NodesOf(L) : Get64(new, SizeAt(L, m)) = Get64(mem, SizeAt(L, m))
  <2>1. \A c \in 1 .. 6 \cup 7 + all .. 9 + all + 2 * k - 1 : c \in 0 .. 8 + all + 2 * k
    BY <1>1
  <2>2. \A c \in 1 .. 6 \cup SizesAt(AllOf(L)) .. RowsAt(AllOf(L), Size(L) + 1) - 1 : new[c] = mem[c]
    BY <1>1, <1>10, <2>1
  <2> QED BY <2>2, ValuesKept
<1>12. \A c \in {0} \cup NeighsAt .. SizesAt(AllOf(L)) - 1 : new[c] = None
  <2>1. \A c \in {0} \cup 7 .. 7 + all - 1 : c \in 0 .. 8 + all + 2 * k
    BY <1>1
  <2>2. \A c \in {0} \cup NeighsAt .. SizesAt(AllOf(L)) - 1 : mem[c] = None
    BY DEF Layout
  <2> QED BY <1>1, <1>10, <2>1, <2>2
<1>13. ASSUME NEW m \in NodesOf(L)
       PROVE  IF m \in left \ {n}
              THEN \A c \in RowAt(L, m) .. RowAt(L, m) + Out(L)[m] - 1 : new[c] = None
              ELSE RowIs(new, RowAt(L, m), row(m))
  <2>1. CASE m = n
    <3> SUFFICES ASSUME NEW j \in 1 .. o PROVE new[from + j - 1] = row(n)[j]
      BY <1>2, <1>4, <2>1 DEF RowIs
    <3>1. from + j - 1 \in from .. from + o - 1 /\ from + j - 1 - from + 1 = j
      BY <1>4
    <3> QED BY <1>7, <3>1
  <2>2. CASE m # n
    <3>1. PICK fm \in Nat, sm \in Nat, om \in Nat : fm = RowAt(L, m) /\ sm = SqIdx(L)[m] /\ om = Out(L)[m]
            /\ fm = 9 + all + 2 * k + sm /\ sm + om <= all
      BY <1>2
    <3>2. ASSUME NEW c \in fm .. fm + om - 1 PROVE new[c] = mem[c]
      <4>1. PICK i \in Nat : i = c - 9 - all - 2 * k /\ i \in sm .. sm + om - 1 /\ c = 9 + all + 2 * k + i
        BY <1>1, <3>1
      <4>2. i \notin at .. at + o - 1
        BY <1>3, <1>4, <2>2, <3>1, <4>1, SquishedRows
      <4>3. c \in 0 .. size - 1 /\ c \notin from .. from + o - 1
        BY <1>1, <1>4, <3>1, <4>1, <4>2
      <4> QED BY <1>8, <4>3
    <3>3. CASE m \in left
      <4>1. \A c \in fm .. fm + om - 1 : mem[c] = None
        BY <3>1, <3>3 DEF Layout
      <4> QED BY <2>2, <3>1, <3>2, <3>3, <4>1
    <3>4. CASE m \notin left
      <4>1. RowIs(mem, fm, row(m))
        BY <3>1, <3>4 DEF Layout, row
      <4>2. DOMAIN row(m) = 1 .. om
        BY <1>2, <3>1
      <4>3. \A j \in 1 .. om : fm + j - 1 \in fm .. fm + om - 1
        BY <3>1
      <4>4. RowIs(new, fm, row(m))
        BY <3>2, <4>1, <4>2, <4>3 DEF RowIs
      <4> QED BY <3>1, <3>4, <4>4
    <3> QED BY <3>3, <3>4
  <2> QED BY <2>1, <2>2
<1>14. Layout(L, new, "rows", left \ {n})
  <2>1. /\ Get64(mem, NumNodesAt) = Size(L) /\ Get64(mem, IndexXAt) = Size(L) + 1
        /\ Get64(mem, NeighSizeAt) = AllOf(L)
        /\ \A m \in NodesOf(L) : Get64(mem, SizeAt(L, m)) = Out(L)[m]
    BY DEF Layout
  <2> QED BY <1>9, <1>11, <1>12, <1>13, <2>1 DEF Layout, row
<1>15. \A c \in DOMAIN mem : mem[c] # None => new[c] = mem[c]
  BY <1>5, <1>7, <1>8
<1> QED BY <1>14, <1>15

LEMMA PutRowInv ==
    ASSUME NEW L \in AllEdgeLists, NEW S \in SUBSET Ends(L), Inv(L, S), NEW n \in Nodes, PutRow(n)
    PROVE  Inv(L, S)' /\ \A c \in DOMAIN region : region[c] # None => region'[c] = region[c]
<1>1. /\ el = L /\ IsList(L) /\ NumNodes = Size(L) /\ Nodes = NodesOf(L)
      /\ Loops(L, S) /\ Counting(L, S) /\ Storage(L) /\ Copying(L) /\ LayingOut(L)
  BY Statics DEF Inv, Loops
<1>2. /\ phase = "rows" /\ n \in todo /\ todo' = todo \ {n}
      /\ region' = [c \in DOMAIN region |->
                       IF c \in RowStart(n) .. RowStart(n) + Get64(region, SizesAt(NeighSize) + n * Wide) - 1
                       THEN sqNeighs[sqIndex[n] + c - RowStart(n)] ELSE region[c]]
      /\ UNCHANGED <<el, phase, threadVars, csrVars, squishVars>>
  BY DEF PutRow
<1>3. sqIndex = SqIdx(L) /\ NeighSize = AllOf(L) /\ todo \in SUBSET NodesOf(L)
  BY <1>1, <1>2 DEF Copying, NeighSize, AllOf, Loops
<1>4. SizesAt(NeighSize) + n * Wide = SizeAt(L, n)
  BY <1>3 DEF SizeAt
<1>5. PICK mem : mem = region
  OBVIOUS
<1>6. PICK left \in SUBSET NodesOf(L) : left = todo
  BY <1>3
<1>7. Layout(L, mem, "rows", left) /\ n \in left /\ n \in NodesOf(L)
  BY <1>1, <1>2, <1>5, <1>6 DEF LayingOut
<1>8. \A m \in NodesOf(L) : Get64(region, SizeAt(L, m)) = Out(L)[m]
  BY <1>5, <1>7 DEF Layout
<1>9. RowStart(n) = RowAt(L, n) /\ Get64(region, SizesAt(NeighSize) + n * Wide) = Out(L)[n]
  BY <1>1, <1>3, <1>4, <1>7, <1>8, RowStartAt
<1>10. PICK rows : rows = sqNeighs
  OBVIOUS
<1>11. RowIs(rows, SqIdx(L)[n], Ordered(Nbrs(L, n)))
  BY <1>1, <1>2, <1>7, <1>10 DEF Copying
<1>12. PICK new : new = RowPut(L, mem, n, rows)
  OBVIOUS
<1>13. Layout(L, new, "rows", left \ {n}) /\ \A c \in DOMAIN mem : mem[c] # None => new[c] = mem[c]
  BY <1>1, <1>7, <1>11, <1>12, PutRowLays
<1>14. region' = new /\ todo' = left \ {n} /\ phase' = "rows"
  BY <1>2, <1>3, <1>5, <1>6, <1>9, <1>10, <1>12 DEF RowPut
<1>15. LayingOut(L)'
  BY <1>13, <1>14 DEF LayingOut, Layout, Get64, RowIs
<1>16. /\ Loops(L, S)' /\ Filling(L, S)' /\ Counting(L, S)' /\ Storage(L)'
       /\ Squishing(L)' /\ Copying(L)'
  BY <1>1, <1>2, <1>6, <1>14, RegionFrame
<1> QED BY <1>5, <1>13, <1>14, <1>15, <1>16 DEF Inv

Published(L, mem, rows) ==
    [c \in DOMAIN mem |-> IF c = 0 THEN 1
                          ELSE IF c \in NeighsAt .. SizesAt(AllOf(L)) - 1 THEN rows[c - NeighsAt]
                          ELSE mem[c]]

LEMMA PublishLays ==
    ASSUME NEW L, IsList(L), NEW mem, Layout(L, mem, "rows", {}),
           NEW rows, IsMemory(rows, AllOf(L)),
           NEW new, new = Published(L, mem, rows)
    PROVE  Layout(L, new, "done", {}) /\ \A c \in DOMAIN mem : mem[c] # None => new[c] = mem[c]
<1>1. PICK all \in Nat, k \in Nat \ {0}, size \in Nat :
            /\ all = AllOf(L) /\ k = Size(L) /\ size = Length(L) /\ size = 9 + 2 * all + 2 * k
            /\ NeighsAt = 7 /\ SizesAt(AllOf(L)) = 7 + all
            /\ RowsAt(AllOf(L), Size(L) + 1) = 9 + all + 2 * k
  BY Addresses
<1>2. DOMAIN mem = 0 .. size - 1 /\ \A c \in 0 .. size - 1 : mem[c] \in Ids \cup {None}
  BY <1>1 DEF Layout
<1>3. new = [c \in 0 .. size - 1 |->
               IF c = 0 THEN 1 ELSE IF c \in 7 .. 7 + all - 1 THEN rows[c - 7] ELSE mem[c]]
  <2>1. new = [c \in DOMAIN mem |->
                 IF c = 0 THEN 1
                 ELSE IF c \in NeighsAt .. SizesAt(AllOf(L)) - 1 THEN rows[c - NeighsAt]
                 ELSE mem[c]]
    BY DEF Published
  <2>2. NeighsAt = 7 /\ SizesAt(AllOf(L)) = 7 + all /\ DOMAIN mem = 0 .. size - 1
    BY <1>1, <1>2
  <2> QED BY ONLY <2>1, <2>2
<1>4. \A c \in 7 .. 7 + all - 1 : c - 7 \in 0 .. all - 1
  BY <1>1
<1>5. 1 \in Ids
  BY CSRAssumption DEF Ids
<1>6. new \in [0 .. Length(L) - 1 -> Ids \cup {None}] /\ new[0] = 1
  <2>1. \A c \in 7 .. 7 + all - 1 : rows[c - 7] \in Ids \cup {None}
    BY <1>1, <1>4 DEF IsMemory
  <2>2. 0 \in 0 .. size - 1 /\ size = Length(L)
    BY <1>1
  <2>3. new[0] = 1
    BY <1>3, <2>2
  <2>4. ASSUME NEW c \in 0 .. size - 1 PROVE new[c] \in Ids \cup {None}
    <3>1. CASE c = 0
      BY <1>5, <2>3, <3>1
    <3>2. CASE c # 0 /\ c \in 7 .. 7 + all - 1
      BY <1>3, <2>1, <3>2
    <3>3. CASE c # 0 /\ c \notin 7 .. 7 + all - 1
      BY <1>2, <1>3, <3>3
    <3> QED BY <3>1, <3>2, <3>3
  <2>5. new = [c \in 0 .. size - 1 |-> new[c]]
    BY <1>3
  <2> HIDE DEF Published
  <2> QED BY <2>2, <2>3, <2>4, <2>5
<1>7. \A c \in 0 .. size - 1 : c # 0 /\ c \notin 7 .. 7 + all - 1 => new[c] = mem[c]
  BY <1>3
<1>8. /\ Get64(new, NumNodesAt) = Get64(mem, NumNodesAt) /\ Get64(new, IndexXAt) = Get64(mem, IndexXAt)
      /\ Get64(new, NeighSizeAt) = Get64(mem, NeighSizeAt)
      /\ \A m \in NodesOf(L) : Get64(new, SizeAt(L, m)) = Get64(mem, SizeAt(L, m))
  <2>1. \A c \in 1 .. 6 \cup 7 + all .. 9 + all + 2 * k - 1 :
            c \in 0 .. size - 1 /\ c # 0 /\ c \notin 7 .. 7 + all - 1
    BY <1>1
  <2>2. \A c \in 1 .. 6 \cup SizesAt(AllOf(L)) .. RowsAt(AllOf(L), Size(L) + 1) - 1 : new[c] = mem[c]
    BY <1>1, <1>7, <2>1
  <2> QED BY <2>2, ValuesKept
<1>9. ASSUME NEW m \in NodesOf(L) PROVE RowIs(new, RowAt(L, m), Ordered(Nbrs(L, m)))
  <2>6. RowAt(L, m) = 9 + all + 2 * k + SqIdx(L)[m]
        /\ SqIdx(L)[m] \in Nat /\ Out(L)[m] \in Nat /\ SqIdx(L)[m] + Out(L)[m] <= all
    BY <1>1, Addresses
  <2>1. PICK fm \in Nat, sm \in Nat, om \in Nat : fm = RowAt(L, m) /\ sm = SqIdx(L)[m] /\ om = Out(L)[m]
          /\ fm = 9 + all + 2 * k + sm /\ sm + om <= all
    BY <1>1, <2>6
  <2>2. RowIs(mem, fm, Ordered(Nbrs(L, m)))
    BY <2>1 DEF Layout
  <2>3. DOMAIN Ordered(Nbrs(L, m)) = 1 .. om
    BY <2>1, RowFacts
  <2>4. \A j \in 1 .. om : LET c == fm + j - 1
                            IN c \in 0 .. size - 1 /\ c # 0 /\ c \notin 7 .. 7 + all - 1
    BY <1>1, <2>1
  <2>5. \A j \in 1 .. om : new[fm + j - 1] = mem[fm + j - 1]
    BY <1>7, <2>4
  <2> QED BY <2>1, <2>2, <2>3, <2>5 DEF RowIs
<1>10. /\ Get64(mem, NumNodesAt) = Size(L) /\ Get64(mem, IndexXAt) = Size(L) + 1
       /\ Get64(mem, NeighSizeAt) = AllOf(L)
       /\ \A m \in NodesOf(L) : Get64(mem, SizeAt(L, m)) = Out(L)[m]
       /\ \A c \in {0} \cup NeighsAt .. SizesAt(AllOf(L)) - 1 : mem[c] = None
  BY DEF Layout
<1>11. Layout(L, new, "done", {})
  BY <1>6, <1>8, <1>9, <1>10 DEF Layout
<1>12. \A c \in DOMAIN mem : mem[c] # None => new[c] = mem[c]
  <2> SUFFICES ASSUME NEW c \in 0 .. size - 1, mem[c] # None PROVE new[c] = mem[c]
    BY <1>2
  <2>1. \A a \in {0} \cup 7 .. 7 + all - 1 : mem[a] = None
    BY <1>1, <1>10
  <2>2. c # 0 /\ c \notin 7 .. 7 + all - 1
    BY <2>1
  <2> QED BY <1>7, <2>2
<1> QED BY <1>11, <1>12

LEMMA PublishInv ==
    ASSUME NEW L \in AllEdgeLists, NEW S \in SUBSET Ends(L), Inv(L, S), Publish
    PROVE  Inv(L, S)' /\ \A c \in DOMAIN region : region[c] # None => region'[c] = region[c]
<1>1. /\ el = L /\ IsList(L) /\ NumNodes = Size(L) /\ Nodes = NodesOf(L)
      /\ Loops(L, S) /\ Counting(L, S) /\ Storage(L) /\ Copying(L) /\ LayingOut(L)
  BY Statics DEF Inv, Loops
<1>2. /\ phase = "rows" /\ todo = {} /\ phase' = "done" /\ todo' = {}
      /\ region' = [c \in DOMAIN region |->
                       IF c = 0 THEN 1
                       ELSE IF c \in NeighsAt .. SizesAt(NeighSize) - 1 THEN sqNeighs[c - NeighsAt]
                       ELSE region[c]]
      /\ UNCHANGED <<el, threadVars, csrVars, squishVars>>
  BY DEF Publish
<1>3. NeighSize = AllOf(L) /\ sqNeighs \in [0 .. AllOf(L) - 1 -> Ids \cup {None}]
  BY <1>1, <1>2 DEF Copying, NeighSize, AllOf
<1>4. PICK mem : mem = region
  OBVIOUS
<1>5. PICK rows : rows = sqNeighs
  OBVIOUS
<1>6. Layout(L, mem, "rows", {})
  BY <1>1, <1>2, <1>4 DEF LayingOut
<1>7. PICK new : new = Published(L, mem, rows)
  OBVIOUS
<1>8. Layout(L, new, "done", {}) /\ \A c \in DOMAIN mem : mem[c] # None => new[c] = mem[c]
  <2>1. IsMemory(rows, AllOf(L))
    BY <1>3, <1>5 DEF IsMemory
  <2> QED BY <1>1, <1>6, <1>7, <2>1, PublishLays
<1>9. region' = new /\ phase' = "done" /\ todo' = {}
  BY <1>2, <1>3, <1>4, <1>5, <1>7 DEF Published
<1>10. LayingOut(L)'
  BY <1>8, <1>9 DEF LayingOut, Layout, Get64, RowIs
<1>11. /\ Loops(L, S)' /\ Filling(L, S)' /\ Counting(L, S)' /\ Storage(L)'
       /\ Squishing(L)' /\ Copying(L)'
  BY <1>1, <1>2, RegionFrame
<1> QED BY <1>4, <1>8, <1>9, <1>10, <1>11 DEF Inv
-----------------------------------------------------------------------------
(* What a step does to the cells of the rows and of the region, and that it *)
(* keeps the invariant.                                                     *)
StoresOnce ==
    /\ phase = "fill" => \A i \in DOMAIN neighs : neighs[i] # None => neighs'[i] = neighs[i]
    /\ \A c \in DOMAIN region : region[c] # None => region'[c] = region[c]

LEMMA EdgeStepInv ==
    ASSUME NEW L \in AllEdgeLists, NEW S \in SUBSET Ends(L), Inv(L, S), NEW t \in Threads, EdgeStep(t)
    PROVE  (\E S2 \in SUBSET Ends(L) : Inv(L, S2)') /\ StoresOnce
<1>1. CASE \E e \in todo : CountU(t, e)
  <2>1. \E S2 \in SUBSET Ends(L) : Inv(L, S2)'
    BY <1>1, CountUInv
  <2> QED BY <1>1, <2>1 DEF CountU, StoresOnce
<1>2. CASE \E e \in todo : ClaimU(t, e)
  <2>1. \E S2 \in SUBSET Ends(L) : Inv(L, S2)'
    BY <1>2, ClaimUInv
  <2> QED BY <1>2, <2>1 DEF ClaimU, StoresOnce
<1>3. CASE CountV(t)
  <2>1. \E S2 \in SUBSET Ends(L) : Inv(L, S2)'
    BY <1>3, CountVInv
  <2>2. UNCHANGED <<neighs, region>>
    BY <1>3 DEF CountV
  <2> QED BY <2>1, <2>2 DEF StoresOnce
<1>4. CASE StoreU(t) \/ StoreV(t)
  <2>1. \E S2 \in SUBSET Ends(L) : Inv(L, S2)'
    BY <1>4, StoreInv
  <2>2. PICK w : neighs' = [neighs EXCEPT ![slot[t]] = w]
    BY <1>4 DEF StoreU, StoreV
  <2>3. Holds(t) /\ region' = region
    BY <1>4 DEF StoreU, StoreV, Holds
  <2>4. phase = "fill" => neighs[slot[t]] = None
    BY <2>3 DEF Inv, Filling
  <2> QED BY <2>1, <2>2, <2>3, <2>4 DEF StoresOnce
<1>5. CASE ClaimV(t)
  <2>1. \E S2 \in SUBSET Ends(L) : Inv(L, S2)'
    BY <1>5, ClaimVInv
  <2>2. UNCHANGED <<neighs, region>>
    BY <1>5 DEF ClaimV
  <2> QED BY <2>1, <2>2 DEF StoresOnce
<1> QED BY <1>1, <1>2, <1>3, <1>4, <1>5 DEF EdgeStep

LEMMA NodeStepInv ==
    ASSUME NEW L \in AllEdgeLists, NEW S \in SUBSET Ends(L), Inv(L, S), NodeStep
    PROVE  Inv(L, S)' /\ StoresOnce
<1>1. PICK n \in Nodes : Squish(n) \/ Copy(n) \/ PutSize(n) \/ PutRow(n)
  BY DEF NodeStep
<1>2. CASE Squish(n)
  <2>1. phase = "squish" /\ region' = region
    BY <1>2 DEF Squish
  <2> QED BY <1>2, <2>1, SquishInv DEF StoresOnce
<1>3. CASE Copy(n)
  <2>1. phase = "copy" /\ region' = region
    BY <1>3 DEF Copy
  <2> QED BY <1>3, <2>1, CopyInv DEF StoresOnce
<1>4. CASE PutSize(n)
  <2>1. phase = "sizes"
    BY <1>4 DEF PutSize
  <2> QED BY <1>4, <2>1, PutSizeInv DEF StoresOnce
<1>5. CASE PutRow(n)
  <2>1. phase = "rows"
    BY <1>5 DEF PutRow
  <2> QED BY <1>5, <2>1, PutRowInv DEF StoresOnce
<1> QED BY <1>1, <1>2, <1>3, <1>4, <1>5

LEMMA LoopStepInv ==
    ASSUME NEW L \in AllEdgeLists, NEW S \in SUBSET Ends(L), Inv(L, S), LoopStep
    PROVE  (\E S2 \in SUBSET Ends(L) : Inv(L, S2)') /\ StoresOnce
<1>1. CASE Counted
  <2>1. phase = "count" /\ region' = region
    BY <1>1 DEF Counted
  <2> QED BY <1>1, <2>1, CountedInv DEF StoresOnce
<1>2. CASE Filled
  <2>1. neighs' = neighs /\ region' = region
    BY <1>2 DEF Filled, csrVars
  <2> QED BY <1>2, <2>1, FilledInv DEF StoresOnce
<1>3. CASE Squished
  <2>1. phase = "squish" /\ region' = region
    BY <1>3 DEF Squished
  <2> QED BY <1>3, <2>1, SquishedInv DEF StoresOnce
<1>4. CASE Copied
  <2>1. phase = "copy"
    BY <1>4 DEF Copied
  <2> QED BY <1>4, <2>1, CopiedInv DEF StoresOnce
<1>5. CASE SizesPut
  <2>1. phase = "sizes" /\ region' = region
    BY <1>5 DEF SizesPut
  <2> QED BY <1>5, <2>1, SizesPutInv DEF StoresOnce
<1>6. CASE Publish
  <2>1. phase = "rows"
    BY <1>6 DEF Publish
  <2> QED BY <1>6, <2>1, PublishInv DEF StoresOnce
<1> QED BY <1>1, <1>2, <1>3, <1>4, <1>5, <1>6 DEF LoopStep

LEMMA StutterInv ==
    ASSUME NEW L \in AllEdgeLists, NEW S \in SUBSET Ends(L), Inv(L, S), UNCHANGED vars
    PROVE  Inv(L, S)' /\ StoresOnce
<1>1. /\ UNCHANGED <<el, phase, todo, degrees, offsets, index, neighs, diffs, sqIndex, sqNeighs, region>>
      /\ UNCHANGED <<pc, edge, slot>>
  BY DEF vars, threadVars, csrVars, squishVars
<1>2. Loops(L, S)' /\ Counting(L, S)' /\ Storage(L)'
  BY <1>1 DEF Inv, Loops, Counting, Storage
<1>3. Filling(L, S)'
  BY <1>1 DEF Inv, Filling, Holds, HeldEnd, Owner, At
<1>4. Squishing(L)' /\ Copying(L)'
  BY <1>1 DEF Inv, Squishing, Copying, RowOf, RowIs
<1>5. LayingOut(L)'
  BY <1>1 DEF Inv, LayingOut, Layout, RowIs, Get64
<1> QED BY <1>1, <1>2, <1>3, <1>4, <1>5 DEF Inv, StoresOnce

LEMMA NextIInv == IInv /\ [Next]_vars => IInv' /\ StoresOnce
<1> SUFFICES ASSUME IInv, [Next]_vars PROVE IInv' /\ StoresOnce
  OBVIOUS
<1>1. PICK L \in AllEdgeLists : \E S \in SUBSET Ends(L) : Inv(L, S)
  BY DEF IInv
<1>2. PICK S \in SUBSET Ends(L) : Inv(L, S)
  BY <1>1
<1>3. (\E S2 \in SUBSET Ends(L) : Inv(L, S2)') /\ StoresOnce
  <2>1. CASE \E t \in Threads : EdgeStep(t)
    BY <1>2, <2>1, EdgeStepInv
  <2>2. CASE NodeStep
    BY <1>2, <2>2, NodeStepInv
  <2>3. CASE LoopStep
    BY <1>2, <2>3, LoopStepInv
  <2>4. CASE UNCHANGED vars
    BY <1>2, <2>4, StutterInv
  <2> QED BY <2>1, <2>2, <2>3, <2>4 DEF Next, Terminated
<1> QED BY <1>3 DEF IInv

(* The invariant holds of every edge list, generated or given, and every    *)
(* schedule of the threads.                                                 *)
THEOREM Invariance == Spec => []IInv
<1>1. Init => IInv
  BY InitIInv
<1>2. IInv /\ [Next]_vars => IInv'
  BY NextIInv
<1> QED BY <1>1, <1>2, PTL DEF Spec

(* A cell that was stored to is not stored to again, whichever threads meet *)
(* in MakeCSR and wherever assign_data puts a section of the region.        *)
THEOREM CellsStoredOnce == Spec => StoredOnce
<1>1. IInv /\ [Next]_vars => StoresOnce
  BY NextIInv
<1> QED BY <1>1, Invariance, PTL DEF Spec, StoredOnce, StoresOnce
-----------------------------------------------------------------------------
LEMMA HeldSlots ==
    ASSUME NEW L \in AllEdgeLists, NEW S \in SUBSET Ends(L), Inv(L, S), NEW t \in Threads, Holds(t)
    PROVE  /\ phase = "fill" /\ index = Idx(L)
           /\ Owner(L, t) = IF pc[t] = "store_u" THEN U(t) ELSE V(t)
           /\ slot[t] \in index[Owner(L, t)] .. index[Owner(L, t) + 1] - 1
           /\ slot[t] \in DOMAIN neighs
           /\ \A s \in Threads \ {t} : Holds(s) => slot[s] # slot[t]
<1>1. el = L /\ IsList(L) /\ Loops(L, S) /\ Counting(L, S) /\ Storage(L) /\ Filling(L, S)
  BY Statics DEF Inv, Loops
<1>2. phase = "fill" /\ edge[t] \in DOMAIN L
  BY <1>1 DEF Loops, Holds
<1>3. index = Idx(L) /\ neighs \in [0 .. Idx(L)[Size(L)] - 1 -> Ids \cup {None}]
  BY <1>1, <1>2 DEF Counting, Storage
<1>4. PICK x \in Ends(L) : x = HeldEnd(t)
  BY <1>2, EndFacts DEF HeldEnd
<1>5. PICK n \in NodesOf(L) : n = Owner(L, t)
  BY <1>1, <1>4, ListNodes DEF Owner
<1>6. n = IF pc[t] = "store_u" THEN U(t) ELSE V(t)
  BY <1>1, <1>2, <1>5, EndFacts DEF Owner, HeldEnd, U, V
<1>7. slot[t] \in Idx(L)[n] .. offsets[n] - 1
  BY <1>1, <1>2, <1>5 DEF Filling
<1>8. /\ Idx(L)[n] \in Nat /\ Idx(L)[n + 1] \in Nat /\ offsets[n] \in Nat /\ offsets[n] <= Idx(L)[n + 1]
      /\ Idx(L)[n] .. Idx(L)[n + 1] - 1 \subseteq 0 .. Idx(L)[Size(L)] - 1
  BY <1>1, <1>2, FillFacts
<1>9. slot[t] \in Idx(L)[n] .. Idx(L)[n + 1] - 1
  BY <1>7, <1>8
<1>10. slot[t] \in DOMAIN neighs
  BY <1>3, <1>8, <1>9
<1>11. \A s \in Threads \ {t} : Holds(s) => slot[s] # slot[t]
  BY <1>1, <1>2 DEF Filling
<1> QED BY <1>2, <1>3, <1>5, <1>6, <1>9, <1>10, <1>11

(* A thread that claimed a slot holds it alone, in the row of its node.     *)
THEOREM SlotsHeldAlone == Spec => []SlotsApart
<1>1. IInv => SlotsApart
  <2> SUFFICES ASSUME IInv PROVE SlotsApart
    OBVIOUS
  <2>1. PICK L \in AllEdgeLists : \E S \in SUBSET Ends(L) : Inv(L, S)
    BY DEF IInv
  <2>2. PICK S \in SUBSET Ends(L) : Inv(L, S)
    BY <2>1
  <2>3. ASSUME NEW t \in Threads, pc[t] \in {"store_u", "store_v"}
        PROVE  LET owner == IF pc[t] = "store_u" THEN U(t) ELSE V(t)
               IN  /\ slot[t] \in index[owner] .. index[owner + 1] - 1
                   /\ \A s \in Threads \ {t} : pc[s] \in {"store_u", "store_v"} => slot[s] # slot[t]
    <3>1. Holds(t)
      BY <2>3 DEF Holds
    <3>2. /\ Owner(L, t) = IF pc[t] = "store_u" THEN U(t) ELSE V(t)
          /\ slot[t] \in index[Owner(L, t)] .. index[Owner(L, t) + 1] - 1
          /\ \A s \in Threads \ {t} : Holds(s) => slot[s] # slot[t]
      BY <2>2, <3>1, HeldSlots
    <3> QED BY <3>2 DEF Holds
  <2> QED BY <2>3 DEF SlotsApart
<1> QED BY <1>1, Invariance, PTL

(* Every variable keeps its type, and a slot is a cell of the array.        *)
THEOREM TypeCorrect == Spec => []TypeOK
<1>1. IInv => TypeOK
  <2> SUFFICES ASSUME IInv PROVE TypeOK
    OBVIOUS
  <2>1. PICK L \in AllEdgeLists : \E S \in SUBSET Ends(L) : Inv(L, S)
    BY DEF IInv
  <2>2. PICK S \in SUBSET Ends(L) : Inv(L, S)
    BY <2>1
  <2>3. /\ el = L /\ IsList(L) /\ NumNodes = Size(L) /\ Nodes = NodesOf(L) /\ Loops(L, S) /\ Counting(L, S)
        /\ Storage(L) /\ Squishing(L) /\ Copying(L) /\ LayingOut(L)
    BY <2>2, Statics DEF Inv, Loops
  <2>4. /\ el \in AllEdgeLists /\ phase \in PhaseNames /\ todo \subseteq Nodes \cup DOMAIN el
        /\ pc \in [Threads -> Steps] /\ edge \in [Threads -> {0} \cup DOMAIN el]
    BY <2>3 DEF Loops
  <2>5. \A t \in Threads : pc[t] \in {"store_u", "store_v"} => slot[t] \in DOMAIN neighs
    BY <2>2, HeldSlots DEF Holds
  <2>6. degrees \in [Nodes -> Nat]
    <3>1. Deg(L) \in [NodesOf(L) -> Nat]
      BY <2>3, RowLengths DEF Deg
    <3> QED BY <2>3, <3>1 DEF Counting
  <2>7. phase # "count" => /\ offsets \in [0 .. NumNodes -> Nat]
                           /\ neighs \in [0 .. index[NumNodes] - 1 -> Ids \cup {None}]
    BY <2>3 DEF Counting, Storage
  <2>8. phase \notin {"count", "fill"} => diffs \in [Nodes -> Nat]
    <3>1. Out(L) \in [NodesOf(L) -> Nat]
      <4>1. \A n \in NodesOf(L) : Cardinality(Nbrs(L, n)) \in Nat
        BY <2>3, RowLengths, FS_CardinalityType
      <4> QED BY <4>1 DEF Out
    <3> QED BY <2>3, <2>4, <3>1 DEF Squishing, Copying, PhaseNames
  <2>9. phase \in {"sizes", "rows", "done"} => \A c \in DOMAIN region : region[c] \in Ids \cup {None}
    BY <2>3 DEF LayingOut, Layout
  <2> QED BY <2>4, <2>5, <2>6, <2>7, <2>8, <2>9 DEF TypeOK
<1> QED BY <1>1, Invariance, PTL
-----------------------------------------------------------------------------
LEMMA WorkerRows ==
    ASSUME NEW L \in AllEdgeLists, Layout(L, region, "done", {}), NEW n \in 0 .. Size(L)
    PROVE  WorkerRowStart(n) = RowsAt(AllOf(L), Size(L) + 1) + SqIdx(L)[n]
<1> DEFINE neighSize == Get64(region, NeighSizeAt)
           size == [m \in 0 .. WorkerNumNodes - 1 |-> Get64(region, SizesAt(neighSize) + m * Wide)]
<1>1. WorkerNumNodes = Size(L) /\ Get64(region, IndexXAt) = Size(L) + 1 /\ neighSize = AllOf(L)
  BY DEF Layout, WorkerNumNodes
<1>2. size = Out(L)
  <2>1. Out(L) = [m \in NodesOf(L) |-> Out(L)[m]]
    BY DEF Out
  <2>2. \A m \in NodesOf(L) : Get64(region, SizeAt(L, m)) = Out(L)[m]
    BY DEF Layout
  <2> HIDE DEF neighSize
  <2> QED BY <1>1, <2>1, <2>2 DEF SizeAt, NodesOf
<1>3. WorkerRowStart(n) = RowsAt(neighSize, Get64(region, IndexXAt)) + SumFunctionOnSet(size, 0 .. n - 1)
  BY DEF WorkerRowStart
<1> HIDE DEF size, neighSize
<1>4. SqIdx(L)[n] = SumFunctionOnSet(Out(L), 0 .. n - 1)
  BY DEF SqIdx, PrefixOf
<1> QED BY <1>1, <1>2, <1>3, <1>4

LEMMA WorkerRow ==
    ASSUME NEW L \in AllEdgeLists, Layout(L, region, "done", {}), NEW n \in NodesOf(L)
    PROVE  /\ ToSet(OutNeigh(n)) = Nbrs(L, n)
           /\ \A k, l \in DOMAIN OutNeigh(n) : k < l => OutNeigh(n)[k] < OutNeigh(n)[l]
<1> DEFINE row == Ordered(Nbrs(L, n))
           out == OutNeigh(n)
<1>1. IsList(L) /\ n \in 0 .. Size(L) /\ n + 1 \in 0 .. Size(L)
  <2>1. Size(L) \in Nat /\ n \in 0 .. Size(L) - 1 /\ IsList(L)
    BY AreLists, Indexes DEF NodesOf
  <2> QED BY <2>1
<1>2. WorkerRowStart(n) = RowAt(L, n)
      /\ WorkerRowStart(n + 1) = RowsAt(AllOf(L), Size(L) + 1) + SqIdx(L)[n + 1]
  BY <1>1, WorkerRows DEF RowAt
<1>3. PICK start \in Nat, len \in Nat : start = RowAt(L, n) /\ len = Out(L)[n]
        /\ WorkerRowStart(n + 1) = start + len
  <2>1. PICK rows \in Nat, s \in Nat, o \in Nat :
          /\ rows = RowsAt(AllOf(L), Size(L) + 1) /\ s = SqIdx(L)[n] /\ o = Out(L)[n]
          /\ SqIdx(L)[n + 1] = s + o
    <3>1. SqIdx(L)[n] \in Nat /\ Out(L)[n] \in Nat /\ SqIdx(L)[n + 1] = SqIdx(L)[n] + Out(L)[n]
      BY <1>1, SquishedRows
    <3>2. RowsAt(AllOf(L), Size(L) + 1) \in Nat
      BY <1>1, Addresses
    <3> QED BY <3>1, <3>2
  <2> QED BY <1>2, <2>1 DEF RowAt
<1>4. out = [i \in 1 .. len |-> region[start + i - 1]]
  <2>1. out = [i \in 1 .. WorkerRowStart(n + 1) - WorkerRowStart(n) |-> region[WorkerRowStart(n) + i - 1]]
    BY DEF OutNeigh
  <2>2. WorkerRowStart(n + 1) - WorkerRowStart(n) = len /\ WorkerRowStart(n) = start
    BY <1>2, <1>3
  <2> HIDE DEF out
  <2> QED BY <2>1, <2>2
<1>5. IsOrdered(row, Nbrs(L, n)) /\ DOMAIN row = 1 .. len
  BY <1>1, <1>3, RowLengths, RowFacts
<1>6. \A i \in 1 .. len : region[start + i - 1] = row[i]
  BY <1>3, <1>5 DEF Layout, RowIs
<1> HIDE DEF out, row
<1>7. DOMAIN out = 1 .. len /\ \A i \in 1 .. len : out[i] = row[i]
  BY <1>4, <1>6
<1>8. ToSet(out) = Nbrs(L, n)
  <2>1. ToSet(out) = {out[i] : i \in 1 .. len}
    BY <1>7 DEF ToSet
  <2>2. ToSet(row) = Nbrs(L, n) /\ ToSet(row) = {row[i] : i \in 1 .. len}
    BY <1>5 DEF ToSet, IsOrdered
  <2> QED BY <1>7, <2>1, <2>2
<1>9. \A k, l \in DOMAIN out : k < l => out[k] < out[l]
  BY <1>5, <1>7 DEF IsOrdered
<1> QED BY <1>8, <1>9 DEF out

LEMMA WorkerEdges ==
    ASSUME NEW L \in AllEdgeLists, Layout(L, region, "done", {})
    PROVE  NumEdges = Cardinality({q \in Pairs(L) : Cardinality(q) = 2})
<1>1. IsList(L) /\ Size(L) \in Nat /\ IsIndex(SqIdx(L), Out(L), Size(L))
  BY AreLists, Indexes
<1>2. PICK c : c = Cardinality({q \in Pairs(L) : Cardinality(q) = 2})
  OBVIOUS
<1>3. c \in Nat /\ SqIdx(L)[Size(L)] = 2 * c
  BY <1>1, <1>2, EdgeCount
<1>4. PICK rows \in Nat : rows = RowsAt(AllOf(L), Size(L) + 1)
  BY <1>1, Addresses
<1>5. WorkerNumNodes = Size(L)
  BY DEF Layout, WorkerNumNodes
<1>6. 0 \in 0 .. Size(L) /\ Size(L) \in 0 .. Size(L) /\ SqIdx(L)[0] = 0
  BY <1>1 DEF IsIndex
<1>7. WorkerRowStart(WorkerNumNodes) = rows + 2 * c /\ WorkerRowStart(0) = rows + 0
  BY <1>3, <1>4, <1>5, <1>6, WorkerRows
<1>8. (rows + 2 * c) - (rows + 0) = 2 * c /\ (2 * c) \div 2 = c
  BY <1>3
<1> QED BY <1>2, <1>7, <1>8 DEF NumEdges

(* Whatever edge list the graph is built from and whatever the schedule, a  *)
(* worker finds in the published region the neighbours of each node, in     *)
(* either direction, sorted, each once, without the node, and the number of *)
(* undirected edges.                                                        *)
THEOREM WorkerFindsGraph == Spec => []WorkerSeesGraph
<1>1. IInv => WorkerSeesGraph
  <2> SUFFICES ASSUME IInv, phase = "done"
               PROVE  /\ region[0] = 1 /\ WorkerNumNodes = NumNodes
                      /\ \A n \in Nodes :
                            /\ ToSet(OutNeigh(n)) = {m \in Nodes \ {n} : {m, n} \in Pairs(el)}
                            /\ \A k, l \in DOMAIN OutNeigh(n) : k < l => OutNeigh(n)[k] < OutNeigh(n)[l]
                      /\ NumEdges = Cardinality({p \in Pairs(el) : Cardinality(p) = 2})
    BY DEF WorkerSeesGraph, Pairs
  <2>1. PICK L \in AllEdgeLists : \E S \in SUBSET Ends(L) : Inv(L, S)
    BY DEF IInv
  <2>2. PICK S \in SUBSET Ends(L) : Inv(L, S)
    BY <2>1
  <2>3. el = L /\ IsList(L) /\ NumNodes = Size(L) /\ Nodes = NodesOf(L) /\ Layout(L, region, "done", todo)
    BY <2>2, Statics DEF Inv, Loops, LayingOut
  <2>4. Layout(L, region, "done", {})
    BY <2>3 DEF Layout
  <2>5. region[0] = 1 /\ WorkerNumNodes = NumNodes
    BY <2>3, <2>4 DEF Layout, WorkerNumNodes
  <2>6. ASSUME NEW n \in Nodes
        PROVE  /\ ToSet(OutNeigh(n)) = {m \in Nodes \ {n} : {m, n} \in Pairs(el)}
               /\ \A k, l \in DOMAIN OutNeigh(n) : k < l => OutNeigh(n)[k] < OutNeigh(n)[l]
    <3>1. Nbrs(L, n) = {m \in NodesOf(L) \ {n} : {m, n} \in Pairs(L)}
      BY <2>3, NbrsInPairs
    <3>2. /\ ToSet(OutNeigh(n)) = Nbrs(L, n)
          /\ \A k, l \in DOMAIN OutNeigh(n) : k < l => OutNeigh(n)[k] < OutNeigh(n)[l]
      BY <2>3, <2>4, WorkerRow
    <3> QED BY <2>3, <3>1, <3>2
  <2>7. NumEdges = Cardinality({p \in Pairs(el) : Cardinality(p) = 2})
    BY <2>3, <2>4, WorkerEdges
  <2> QED BY <2>5, <2>6, <2>7
<1> QED BY <1>1, Invariance, PTL
=============================================================================
