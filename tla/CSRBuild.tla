------------------------------ MODULE CSRBuild ------------------------------
(***************************************************************************)
(* How host 0 turns an edge list into the graph it publishes: MakeCSR and  *)
(* SquishCSR of builder.h, then assign_data of graph.h, which lays it out  *)
(* in the shared region; and how a worker finds the rows again             *)
(* (assign_sizes).  SharedGraph is about when the region may be read, this *)
(* module about what is in it.                                             *)
(*                                                                         *)
(* Threads meet in the two loops over the edges, where each atomic         *)
(* operation and each store is a step.  An iteration of a loop over the    *)
(* nodes touches only the row of its node and is one step.                 *)
(***************************************************************************)
EXTENDS Integers, Sequences, FiniteSets, FiniteSetsExt, SequencesExt, Functions

CONSTANTS
    EdgeLists,  \* edge lists to build from: sequences of <<u, v>>
    Generated,  \* and pairs <<scale, degree>> to generate some with
    Threads,
    BlockSize,  \* of ParallelPrefixSum, 2^20 in the code
    Radix       \* the values of one int of the region, 2^32 in the code

ASSUME CSRAssumption ==
    /\ BlockSize \in Nat \ {0} /\ Radix \in Nat \ {0, 1}
    /\ Generated \subseteq Nat \X Nat
    /\ \A e \in Generated : 2 ^ e[1] \in 1 .. Radix
    /\ EdgeLists \subseteq Seq((0 .. Radix - 1) \X (0 .. Radix - 1))

VARIABLES
    el,        \* the edge list
    phase,     \* which loop runs
    todo,      \* its iterations that no thread has taken
    pc, edge, slot,   \* per thread, in the loops over the edges
    degrees,   \* CountDegrees
    offsets,   \* where the next neighbour of each node goes
    index,     \* where its row starts, as GenIndex found it
    neighs,    \* the rows of MakeCSR
    diffs,     \* how much SquishCSR leaves of each row
    sqIndex, sqNeighs,   \* the squished graph
    region     \* the shared memory, an int per cell

threadVars == <<pc, edge, slot>>
csrVars == <<degrees, offsets, index, neighs>>
squishVars == <<diffs, sqIndex, sqNeighs>>
vars == <<el, phase, todo, threadVars, csrVars, squishVars, region>>

None == -1  \* memory that was not stored to

PhaseNames == {"count", "fill", "squish", "copy", "sizes", "rows", "done"}
Steps == {"idle", "count_v", "store_u", "claim_v", "store_v"}

(* Generator: with -g an edge list drawn at random, then renumbered by a     *)
(* random permutation; any list may come out.                              *)
PermuteIDs(list, permutation) ==
    [e \in DOMAIN list |-> <<permutation[list[e][1]], permutation[list[e][2]]>>]

MakeRMatEL(scale, degree) ==
    LET ids == 0 .. 2 ^ scale - 1
    IN {PermuteIDs(list, permutation) :
            list \in [1 .. 2 ^ scale * degree -> ids \X ids], permutation \in Bijection(ids, ids)}

AllEdgeLists == EdgeLists \cup UNION {MakeRMatEL(g[1], g[2]) : g \in Generated}

FindMaxNodeID(list) == Max({0} \cup {list[i][1] : i \in DOMAIN list}
                               \cup {list[i][2] : i \in DOMAIN list})
NumNodes == FindMaxNodeID(el) + 1
Nodes == 0 .. NumNodes - 1
U(t) == el[edge[t]][1]
V(t) == el[edge[t]][2]

Init ==
    /\ el \in AllEdgeLists
    /\ phase = "count" /\ todo = DOMAIN el
    /\ pc = [t \in Threads |-> "idle"]
    /\ edge = [t \in Threads |-> 0] /\ slot = [t \in Threads |-> 0]
    /\ degrees = [n \in Nodes |-> 0]
    /\ offsets = <<>> /\ index = <<>> /\ neighs = <<>>
    /\ diffs = <<>> /\ sqIndex = <<>> /\ sqNeighs = <<>>
    /\ region = <<>>

Goto(t, step) == pc' = [pc EXCEPT ![t] = step]
Unset(size) == [i \in 0 .. size - 1 |-> None]
-----------------------------------------------------------------------------
(* Prefix sums. *)

(* Mutant: the sum of a block leaves its last element out. *)
BlockShort(b) == b * BlockSize .. Min({(b + 1) * BlockSize, NumNodes}) - 2

Block(b) == b * BlockSize .. Min({(b + 1) * BlockSize, NumNodes}) - 1

(* Each block is summed, the sums of the blocks are added up in one thread, *)
(* and each block then continues from the sum of those before it.          *)
ParallelPrefixSum(d) ==
    LET numBlocks == (NumNodes + BlockSize - 1) \div BlockSize
        localSums == [b \in 0 .. numBlocks - 1 |-> SumFunctionOnSet(d, Block(b))]
        bulkPrefix(b) == SumFunctionOnSet(localSums, 0 .. b - 1)
    IN [n \in 0 .. NumNodes |->
           IF n = NumNodes
           THEN bulkPrefix(numBlocks)
           ELSE bulkPrefix(n \div BlockSize)
                + SumFunctionOnSet(d, (n \div BlockSize) * BlockSize .. n - 1)]
-----------------------------------------------------------------------------
(* CountDegrees and the filling loop of MakeCSR, with symmetrize_. *)

(* A thread takes an edge and does its first atomic operation. *)
CountU(t, e) ==
    /\ phase = "count" /\ pc[t] = "idle" /\ e \in todo
    /\ todo' = todo \ {e} /\ edge' = [edge EXCEPT ![t] = e]
    /\ degrees' = [degrees EXCEPT ![el[e][1]] = @ + 1]
    /\ Goto(t, "count_v")
    /\ UNCHANGED <<el, phase, slot, offsets, index, neighs, squishVars, region>>

(* Mutant: the second end is not counted, as with in_place_. *)
CountInPlace == 0

SecondCount == 1

CountV(t) ==
    /\ pc[t] = "count_v"
    /\ degrees' = [degrees EXCEPT ![V(t)] = @ + SecondCount]
    /\ Goto(t, "idle")
    /\ UNCHANGED <<el, phase, todo, edge, slot, offsets, index, neighs, squishVars, region>>

(* neighs[fetch_and_add(offsets[n], 1)]: the slot of a neighbour of n. *)
ClaimU(t, e) ==
    /\ phase = "fill" /\ pc[t] = "idle" /\ e \in todo
    /\ todo' = todo \ {e} /\ edge' = [edge EXCEPT ![t] = e]
    /\ slot' = [slot EXCEPT ![t] = offsets[el[e][1]]]
    /\ offsets' = [offsets EXCEPT ![el[e][1]] = @ + 1]
    /\ Goto(t, "store_u")
    /\ UNCHANGED <<el, phase, degrees, index, neighs, squishVars, region>>

StoreU(t) ==
    /\ pc[t] = "store_u"
    /\ neighs' = [neighs EXCEPT ![slot[t]] = V(t)]
    /\ Goto(t, "claim_v")
    /\ UNCHANGED <<el, phase, todo, edge, slot, degrees, offsets, index, squishVars, region>>

(* Mutant: an increment is lost when another thread is at the same row. *)
LostIncrement(t) ==
    offsets[V(t)] + IF \E s \in Threads \ {t} : pc[s] = "store_v" /\ V(s) = V(t) THEN 0 ELSE 1

Incremented(t) == offsets[V(t)] + 1

ClaimV(t) ==
    /\ pc[t] = "claim_v"
    /\ slot' = [slot EXCEPT ![t] = offsets[V(t)]]
    /\ offsets' = [offsets EXCEPT ![V(t)] = Incremented(t)]
    /\ Goto(t, "store_v")
    /\ UNCHANGED <<el, phase, todo, edge, degrees, index, neighs, squishVars, region>>

StoreV(t) ==
    /\ pc[t] = "store_v"
    /\ neighs' = [neighs EXCEPT ![slot[t]] = U(t)]
    /\ Goto(t, "idle")
    /\ UNCHANGED <<el, phase, todo, edge, slot, degrees, offsets, index, squishVars, region>>

(* MakeCSR after its loops: the offsets and the storage, then SquishGraph.  *)
LoopEnds == todo = {} /\ \A t \in Threads : pc[t] = "idle"

Counted ==
    /\ phase = "count" /\ LoopEnds
    /\ phase' = "fill" /\ todo' = DOMAIN el
    /\ offsets' = ParallelPrefixSum(degrees) /\ index' = offsets'
    /\ neighs' = Unset(offsets'[NumNodes])
    /\ UNCHANGED <<el, threadVars, degrees, squishVars, region>>

Filled ==
    /\ phase = "fill" /\ LoopEnds
    /\ phase' = "squish" /\ todo' = Nodes
    /\ diffs' = [n \in Nodes |-> 0]
    /\ UNCHANGED <<el, threadVars, csrVars, sqIndex, sqNeighs, region>>
-----------------------------------------------------------------------------
(* SquishCSR. *)

Row(array, idx, n) == [i \in 1 .. idx[n + 1] - idx[n] |-> array[idx[n] + i - 1]]

(* What std::sort and std::unique leave of a row with these elements. *)
Ordered(set) ==
    [k \in 1 .. Cardinality(set) |->
        CHOOSE x \in set : Cardinality({y \in set : y < x}) = k - 1]

(* And std::remove of the node itself. *)
SquishedRow(n) == Ordered(ToSet(Row(neighs, index, n)) \ {n})

(* The row is squished in its place; what follows its new end is unspecified. *)
Squish(n) ==
    /\ phase = "squish" /\ n \in todo /\ todo' = todo \ {n}
    /\ diffs' = [diffs EXCEPT ![n] = Len(SquishedRow(n))]
    /\ neighs' = [i \in DOMAIN neighs |->
                     IF i \notin index[n] .. index[n + 1] - 1 THEN neighs[i]
                     ELSE IF i - index[n] < Len(SquishedRow(n)) THEN SquishedRow(n)[i - index[n] + 1]
                     ELSE None]
    /\ UNCHANGED <<el, phase, threadVars, degrees, offsets, index, sqIndex, sqNeighs, region>>

Squished ==
    /\ phase = "squish" /\ todo = {}
    /\ phase' = "copy" /\ todo' = Nodes
    /\ sqIndex' = ParallelPrefixSum(diffs)
    /\ sqNeighs' = Unset(sqIndex'[NumNodes])
    /\ UNCHANGED <<el, threadVars, csrVars, diffs, region>>

Copy(n) ==
    /\ phase = "copy" /\ n \in todo /\ todo' = todo \ {n}
    /\ sqNeighs' = [i \in DOMAIN sqNeighs |->
                       IF i \in sqIndex[n] .. sqIndex[n] + diffs[n] - 1
                       THEN neighs[index[n] + i - sqIndex[n]] ELSE sqNeighs[i]]
    /\ UNCHANGED <<el, phase, threadVars, csrVars, diffs, sqIndex, region>>
-----------------------------------------------------------------------------
(* The region, in ints: the synch variable, three values of two ints, the   *)
(* neighs, the sizes of the rows in two ints each, and the rows.            *)
Wide == 2
NumNodesAt == 1
IndexXAt == 1 + Wide
NeighSizeAt == 1 + 2 * Wide

(* Mutant: an int for neigh_size. *)
NeighsAtNarrow == 1 + Wide + Wide + 1

NeighsAt == 1 + Wide + 2 * Wide

SizesAt(neighSize) == NeighsAt + neighSize

RowsAt(neighSize, indexX) == SizesAt(neighSize) + indexX * Wide

(* A 64-bit store touches two cells, the low half first. *)
Half(x, i) == IF i = 0 THEN x % Radix ELSE x \div Radix
Put64(mem, at, x) == [c \in DOMAIN mem |-> IF c \in {at, at + 1} THEN Half(x, c - at) ELSE mem[c]]
Get64(mem, at) == mem[at] + Radix * mem[at + 1]

NeighSize == sqIndex[NumNodes]
IndexX == NumNodes + 1
RowStart(n) ==
    RowsAt(NeighSize, IndexX)
    + SumFunctionOnSet([m \in Nodes |-> Get64(region, SizesAt(NeighSize) + m * Wide)], 0 .. n - 1)

(* The SDM constructor stores the metadata. *)
Copied ==
    /\ phase = "copy" /\ todo = {}
    /\ phase' = "sizes" /\ todo' = Nodes
    /\ region' = Put64(Put64(Put64(Unset(RowsAt(NeighSize, IndexX) + NeighSize),
                                   NumNodesAt, NumNodes), IndexXAt, IndexX), NeighSizeAt, NeighSize)
    /\ UNCHANGED <<el, threadVars, csrVars, squishVars>>

(* assign_data.  index_index_array[i] = index[i + 1] - index[i]; its last   *)
(* entry, of index_x, is never stored.                                      *)
PutSize(n) ==
    /\ phase = "sizes" /\ n \in todo /\ todo' = todo \ {n}
    /\ region' = Put64(region, SizesAt(NeighSize) + n * Wide, sqIndex[n + 1] - sqIndex[n])
    /\ UNCHANGED <<el, phase, threadVars, csrVars, squishVars>>

SizesPut ==
    /\ phase = "sizes" /\ todo = {}
    /\ phase' = "rows" /\ todo' = Nodes
    /\ UNCHANGED <<el, threadVars, csrVars, squishVars, region>>

PutRow(n) ==
    /\ phase = "rows" /\ n \in todo /\ todo' = todo \ {n}
    /\ LET size == Get64(region, SizesAt(NeighSize) + n * Wide)
       IN region' = [c \in DOMAIN region |->
                        IF c \in RowStart(n) .. RowStart(n) + size - 1
                        THEN sqNeighs[sqIndex[n] + c - RowStart(n)] ELSE region[c]]
    /\ UNCHANGED <<el, phase, threadVars, csrVars, squishVars>>

(* The neighs are stored by one thread, and then the synch variable. *)
Publish ==
    /\ phase = "rows" /\ todo = {}
    /\ phase' = "done"
    /\ region' = [c \in DOMAIN region |->
                     IF c = 0 THEN 1
                     ELSE IF c \in NeighsAt .. SizesAt(NeighSize) - 1 THEN sqNeighs[c - NeighsAt]
                     ELSE region[c]]
    /\ UNCHANGED <<el, todo, threadVars, csrVars, squishVars>>
-----------------------------------------------------------------------------
(* assign_sizes on a worker, from nothing but the region.  The sum after    *)
(* the last row, which reads the entry never stored, is not used.           *)
WorkerNumNodes == Get64(region, NumNodesAt)

WorkerRowStart(n) ==
    LET neighSize == Get64(region, NeighSizeAt)
        indexX == Get64(region, IndexXAt)
        size == [m \in 0 .. WorkerNumNodes - 1 |-> Get64(region, SizesAt(neighSize) + m * Wide)]
    IN RowsAt(neighSize, indexX) + SumFunctionOnSet(size, 0 .. n - 1)

OutNeigh(n) == [i \in 1 .. WorkerRowStart(n + 1) - WorkerRowStart(n) |-> region[WorkerRowStart(n) + i - 1]]

NumEdges == (WorkerRowStart(WorkerNumNodes) - WorkerRowStart(0)) \div 2
-----------------------------------------------------------------------------
EdgeStep(t) ==
    \/ \E e \in todo : CountU(t, e) \/ ClaimU(t, e)
    \/ CountV(t) \/ StoreU(t) \/ ClaimV(t) \/ StoreV(t)

NodeStep == \E n \in Nodes : Squish(n) \/ Copy(n) \/ PutSize(n) \/ PutRow(n)

LoopStep == Counted \/ Filled \/ Squished \/ Copied \/ SizesPut \/ Publish

Terminated == phase = "done" /\ UNCHANGED vars

Next == (\E t \in Threads : EdgeStep(t)) \/ NodeStep \/ LoopStep \/ Terminated

Spec == Init /\ [][Next]_vars
-----------------------------------------------------------------------------
Ids == 0 .. Radix - 1

(* Types, and that a claimed slot is one of the array. *)
TypeOK ==
    /\ el \in AllEdgeLists /\ phase \in PhaseNames
    /\ todo \subseteq Nodes \cup DOMAIN el
    /\ pc \in [Threads -> Steps]
    /\ edge \in [Threads -> {0} \cup DOMAIN el]
    /\ \A t \in Threads : pc[t] \in {"store_u", "store_v"} => slot[t] \in DOMAIN neighs
    /\ degrees \in [Nodes -> Nat]
    /\ phase # "count" => /\ offsets \in [0 .. NumNodes -> Nat]
                          /\ neighs \in [0 .. index[NumNodes] - 1 -> Ids \cup {None}]
    /\ phase \notin {"count", "fill"} => diffs \in [Nodes -> Nat]
    /\ phase \in {"sizes", "rows", "done"} => \A c \in DOMAIN region : region[c] \in Ids \cup {None}

(* While the loop fills the rows, a thread that holds a slot holds it alone *)
(* and in the row of the node it claimed it for, whatever the others do.    *)
SlotsApart ==
    LET holds(t) == pc[t] \in {"store_u", "store_v"}
        owner(t) == IF pc[t] = "store_u" THEN U(t) ELSE V(t)
    IN \A t \in Threads : holds(t) =>
           /\ slot[t] \in index[owner(t)] .. index[owner(t) + 1] - 1
           /\ \A s \in Threads \ {t} : holds(s) => slot[s] # slot[t]

(* A cell that was stored to is not stored to again: no two threads meet in *)
(* a slot of the rows, and no two sections of the region overlap.           *)
StoredOnce ==
    [][/\ phase = "fill" => \A i \in DOMAIN neighs : neighs[i] # None => neighs'[i] = neighs[i]
       /\ \A c \in DOMAIN region : region[c] # None => region'[c] = region[c]]_<<neighs, region>>

(* Whatever the schedule, the rows a worker finds in the published region   *)
(* hold the neighbours of each node in the edge list, in either direction,  *)
(* sorted, each once, without the node itself, and the number of edges is   *)
(* that of unordered pairs.                                                 *)
WorkerSeesGraph ==
    phase = "done" =>
        LET pairs == {{el[i][1], el[i][2]} : i \in DOMAIN el}
        IN /\ region[0] = 1 /\ WorkerNumNodes = NumNodes
           /\ \A n \in Nodes :
                 /\ ToSet(OutNeigh(n)) = {m \in Nodes \ {n} : {m, n} \in pairs}
                 /\ \A k, l \in DOMAIN OutNeigh(n) : k < l => OutNeigh(n)[k] < OutNeigh(n)[l]
           /\ NumEdges = Cardinality({p \in pairs : Cardinality(p) = 2})
=============================================================================
