# A verification of shared-gapbs

shared-gapbs is a fork of the GAP benchmark suite in which the graph lives in a
memory region shared by several hosts (or, with `-T 1`, by several processes of
one machine). One program, `allocator`, builds the graph and writes it there;
the benchmark programs (`bfs`, `bc`, `cc`, `cc_sv`, `pr`, `sssp`, `tc`) run as workers on
the other hosts, map the region read-only and run a parallel kernel on it.

This directory holds TLA+ models of that system, TLC configurations that check
them on small instances, and theorems about them proved with TLAPS. Paths below
such as `graph.h` are relative to `src/src/`.

    tlc -config afforest.cfg MCAfforest.tla   # any run; its module is in PROJECT.json
    tlapm PageRank_proofs.tla                 # any *_proofs.tla

`PROJECT.json` lists the components, the runs, which lines of the code each
definition models ("map"), the hazards of the code and the properties that
watch them, and, for each property of each passing run, a mutant: a definition,
written just before the right one and commented as such, that changes the code's
behaviour in the way a plausible bug would and makes the property fail. No
action uses a mutant.

## 1. Inventory

The parts interact in three ways: processes meet in the shared region and
nowhere else; inside a process one call chain leads from `main` through
`Builder::MakeGraph(host_id)` and the constructor of `CSRGraph` to a kernel
called by `BenchmarkKernel`; and inside the kernels and the builder OpenMP
threads meet in arrays on the heap. There are no messages and no callbacks other
than the kernel and its verifier.

| part | state | operations | what is hard | what makes it correct |
|---|---|---|---|---|
| shared region (`allocator.cc`, `dmalloc.h`, the SDM constructor, `assign_data` and `assign_sizes` of `graph.h`) | the region: a synch variable, three numbers, neighs, sizes, rows; the caches of the hosts | map, size and zero the region; store the parts, then the synch variable; flush every line; on a worker: map, poll, read | processes of several hosts without cache coherence, restarts, kills, a region that still holds an earlier graph, a poll that the compiler sees as an ordinary loop | a worker reads one graph, whole, or waits |
| builder (`builder.h`, `graph.h`) | edge list, degrees, offsets, rows, squished rows, region | `FindMaxNodeID`, `CountDegrees`, `ParallelPrefixSum`, `MakeCSR`, `SquishCSR`, `assign_data`, `assign_sizes`, `RelabelByDegree` | threads claim slots of the same row by `fetch_and_add`; offsets are added up in units of `int`; block boundaries | the worker finds exactly the graph of the edge list |
| Afforest (`cc.cc`) | `comp`, a forest of parent pointers | `Link`, `Compress`, `SampleFrequentElement`, the phases of `Afforest` | lock-free hooks and compressions with stale parents; most nodes are skipped on the strength of a sample | labels name the connected components |
| Shiloach-Vishkin (`cc_sv.cc`) | `comp`, `change` | hooking and compressing loops | hooks are plain stores that overwrite each other | the same, and the loop stops at the right time |
| breadth-first search (`bfs.cc`, `sliding_queue.h`, `bitmap.h`) | `parent`, a queue, two bitmaps, counters | `InitParent`, `TDStep`, `BUStep`, `QueueToBitmap`, `BitmapToQueue` | races for a node, a non-atomic `set_bit`, a bitmap that is not reset, a queue without a bounds check, a loop that runs while the frontier grows | a tree of shortest paths, built level by level |
| betweenness (`bc.cc`) | `depths`, `path_counts`, `succ`, queue, `depth_index`, deltas, scores | `PBFS`, the backward pass, iterations | finding a node and counting paths to it race; threads leave the loop without a barrier; everything is used again | exact path counts; scores are betweenness |
| triangle count (`tc.cc`) | the graph, an iterator | `Hybrid`, `RelabelByDegree`, `OrderedCount` | the iterator is never compared with the end of its row | right count, no read outside the row |
| shortest paths (`sssp.cc`) | `dist`, the frontier, two pairs of cells `shared_indexes` and `frontier_tails`, the bins of each thread | `DeltaStep`, `RelaxEdges`, `SSSPVerifier`, the trials | compare-and-swap races on a distance, in bins that no longer fit it; a `nowait` loop followed by bucket fusion, so threads work on a bin at different times; a vote on the next bin; one `single nowait` that resets the cells others are about to read; a frontier array that is filled without a check | exact distances, bins in order, no store beyond the frontier |
| PageRank (`pr.cc`) | `scores`, `outgoing_contrib`, `error` | `PageRankPull`, `PRVerifier` | a pull without atomics that is right only between two barriers; an infinite quotient at nodes without out-neighbours; a verifier that judges by another iteration than the kernel's | scores are ranks, and the verifier accepts what converged |
| harness (`benchmark.h`), generator (`generator.h`), options (`command_line.h`), files (`reader.h`, `writer.h`, `converter.cc`), simulator hooks | none shared | sequential, or parallel without sharing | `PickNext` may draw for ever | - |

The hazards, one by one with their lines, are in `PROJECT.json`. Three have no
property: a graph from a `.sg` file is never published (`builder.h:489`), an
`sssp` worker misreads a region of unweighted neighbours (`graph.h:320`), and
`PickNext` keeps drawing on a graph without edges (`benchmark.h:58`); their notes
say why.

## 2. Modules

In the order they were written, the most important behaviour first.

| module | models | uses |
|---|---|---|
| `GraphPublication` | abstract: graphs appear one after another, each as a whole, and a worker holds the published one or none | |
| `SharedGraph` | the region, allocator and workers | implements `GraphPublication` |
| `Components` | connectedness, undirected graphs, the verifier of the component kernels | |
| `ComponentKernel` | `comp`, the hand-out of nodes and the property the two component kernels share | `Components` |
| `Afforest`, `ShiloachVishkin` | the two component kernels; the latter's names carry the prefix `SV` where both would have the same | `ComponentKernel` |
| `CSRBuild` | from an edge list to the region and back | |
| `SlidingQueue` | `SlidingQueue` and `QueueBuffer`; shared by the two searches | |
| `Distances` | depths, as the serial search of `BFSVerifier` finds them | |
| `LevelOrder` | abstract: what a parallel breadth-first search promises | `Distances` |
| `Search` | the loop over the neighbours of the nodes in the window, as in `TDStep` and `PBFS` | `SlidingQueue`, `Components`, `Distances` |
| `DirectionOptimizingBFS` | `DOBFS` | `Search`; implements `LevelOrder` |
| `Brandes` | `Brandes` and `PBFS`; names carry the prefix `BC` where those of `DirectionOptimizingBFS` would be the same | `Search` |
| `TriangleCount` | `Hybrid`, `RelabelByDegree`, `OrderedCount` | `Components` |
| `DeltaStepping` | `DeltaStep`, `RelaxEdges`, `SSSPVerifier`, the trials of `BenchmarkKernel` with their two `SourcePicker`s | |
| `PageRank` | `PageRankPull`, `PRVerifier` | |
| `GraphLemmas` | lemmas about connectedness, distances, sums, iteration and division | `Components`, `Distances` |
| `ConnectedComponents_proofs` | theorems about `Afforest` and `ShiloachVishkin` | both, `GraphLemmas` |
| `Search_proofs` | theorems about `DirectionOptimizingBFS` and `Brandes` | both, `GraphLemmas` |
| the other `*_proofs` | theorems | the module they are named after; `GraphLemmas` |
| `MC*` | instances for TLC | the module they are named after |

`SharedGraph` is about *when* the region may be read and leaves its content
abstract; `CSRBuild` is about *what* is in it. What `CSRBuild` shows of the
published graph (`WorkerSeesGraph`: undirected, sorted and so without repetition, no
self-loop) is what the kernels assume of theirs (`Undirected`, `Simple`), so together the models
follow a graph from the edge list to the result of a kernel.

### How the models read the code

*Region* (`SharedGraph`). A cell is the synch variable, one of the three numbers
or a cache line of neighs, sizes or rows, and holds the number of the allocator
run that stored to it. The header is one line; in the code the first neighs
share it too, which the model separates. One action is one store, one
`clflushopt`, one load, one mapping (with the `ftruncate` of `shmalloc`), one
eviction, or the end of a process, killed or not. With `-l 1` the allocator maps the
region twice: to zero it, and again when the graph is built. Hosts other than 0 map the
region read-only, so only host 0 has dirty lines. The polling loop is modelled
as each build leaves it: reloading (`-O0`), loading once (`-O1`), or gone (`-O2`
and the `-O3` of the Makefile, seen in the object code of g++ 12.2). That
a compiler or processor might reorder the stores of `assign_data` is not
modelled. `-l`, `-S` (on host 0: `AllocatorLengths`, on
the others: `WorkerLengths`) and `-T` are constants. `Regime` says in which order the
operator starts programs: `workers_after` (README-SDM.md's procedure: workers
run after the allocator has exited, and none is running when it starts),
`one_publication` (the allocator is not run again after the region was
published), `free`.

*Kernels.* A step is one access to memory that other threads use; locals that
are dead are reset, so that they do not multiply states. An iteration of a
parallel loop may go to any thread that is free: this includes every OpenMP
schedule (more than the static one in places), also of the chunks of a `nowait`
loop: a thread may leave while others have nodes nobody has taken yet (`Brandes`;
`left` in `DeltaStepping`). The exception is where the schedule itself
matters: the bottom-up loop hands out chunks, which is what makes its `set_bit`
safe. Loops whose iterations touch only cells of their own (squishing and
copying a row, the backward pass, counting triangles at one node with a
reduction) take one step per iteration; the atomic loop inside `set_bit_atomic`
is one step, and so is in `Brandes` a compare-and-swap with the `push_back` after it:
nobody reads what was pushed before the next barrier, so only the order of a
level's nodes in the queue could differ, on which nothing depends. In `ShiloachVishkin` `comp_u` is read again for every edge, as
compiled by g++ 12.2 -O3. A barrier is an action of the master (or, in `PBFS`,
of the `single`) that needs all threads to have arrived.

*Shortest paths* (`DeltaStepping`). The two pairs of shared cells are indexed by
`iter & 1` as in the code; the thread that gets the `single nowait` is a choice
among those that passed the barrier, and it may be late: the others copy into the
frontier before the cells of this iteration are reset. A share that does not fit
into the frontier's array leads to the phase `undefined`, where the model stops; so does the
first store, of the source, if the graph has no edges and the array no cells.
The kernel and the verifier of a trial draw their sources from two
`SourcePicker`s with the same seed; the model keeps a position for each. Weights
are positive, as the 1 to 255 that `InsertWeights` draws.

*Data.* Region cells of `CSRBuild` are ints of a small radix, and 64-bit values
take two of them. Betweenness scores are exact multiples of 1/`Scale`, a common multiple of
all the numbers of shortest paths (`ScaleAssumption`; there is one whatever the
other constants are, because a finite set of nodes has finitely many graphs whose rows
repeat no neighbour and leave out the node itself, as `SquishCSR` leaves
them), and the normalization leaves the largest of them, the divisor, beside
them: where it is 0 the code's floats become 0 / 0. `PageRank` computes in exact multiples of a
unit that all its divisions divide, for which it is given a common multiple of
the out-degrees (`DegreeMultiple`); the quotient of a node without
out-neighbours is the infinity of the code's floats, and no sum takes it up
because no node pulls from it. Epsilon is a multiple of 1/`EpsilonUnit`, which may be
any number that divides the unit (`EpsilonAssumption`), so any rational one.
`RelabelByDegree` has its `offsets`, which advance with each neighbour written, and
its array `neighs`, in which each row is sorted between the starts that `GenIndex`
took before. The sample of `SampleFrequentElement`, the
decision of `WorthRelabelling`, the random edge list and the random source are
choices.

## 3. Runs

Passing runs explore all reachable states; terminated programs stutter, and
deadlock is checked in every run but those of `SharedGraph`, where nobody need
start a program.

| run | instance | shows |
|---|---|---|
| `sdm_procedure` | 2 workers, 8 cells, 2 allocator runs, no coherence, a `-S` that is one line short or enough, `-l` or not, builds with and without the poll | `NoTornGraph`, `DoneMeansFlushed`: used as README-SDM.md says, a worker reads one graph, whole, and an allocator that has ended has left nothing in a cache; worker 2, whose host keeps its cache from one worker to the next, may mix in pieces of the first graph, but nothing else |
| `sdm_concurrent` | the same on one coherent machine, workers at any time, also with a `-S` one line short, one publication | `WorkersWait`; `PublishesAtomically`: the protocol implements an atomic publication, but for a line that a short `-S` cuts off; `WaitingWorkerServed`: who polls gets the graph, unless killed |
| `sdm_poll_removed` | `-O3` | **fails** `WorkersWait`: there is no waiting left |
| `sdm_reallocation` | two allocations without `-l 1` | **fails** `SynchUnsetWhileWriting`: nothing unsets the variable |
| `afforest` | 2 threads, five graphs of 4 nodes, one round | `ComponentsFound`: labels are the least nodes of the components, and `CCVerifier` accepts them; `TreesOnlyMerge`, `Termination` |
| `shiloach_vishkin` | 2 threads, four graphs of 4 nodes | `ComponentsFound`, `QuietMeansDone`, `Termination` |
| `csr_build` | 2 threads, six edge lists of up to 4 edges and all of `-g 1 -k 1`; blocks of 2 nodes, radix 5 | `SlotsApart`, `StoredOnce`: no two edges share a slot and each is stored once; `WorkerSeesGraph` |
| `dobfs` | 2 threads, three graphs of 8 nodes, every source, two values of alpha; 2-bit words, chunks of 2, buffers of 1 | `QueuedOnce`, `ShortestPathTree` (with `BFSVerifier`), `JoinsByLevel`, `Termination` |
| `brandes` | 3 threads, three graphs of 6 nodes, one with an isolated node, two iterations | `PathsCounted`, `ScoresAreBetweenness` (with `BCVerifier`, and where the normalization has nothing to divide by), `Termination` |
| `triangle_count` | all 1024 graphs of 5 nodes, relabelled or not | `TypeOK`: the offsets stay in the array and each row lands in its own section; `IteratorInRow`, `TrianglesCounted` (with `TCVerifier`) |
| `delta_stepping` | 3 threads, three weighted graphs of up to 7 nodes and one without edges, deltas 1, 2, 4 and 16, two trials on one of them; fusion below 2 nodes | `DistancesExact` (with `SSSPVerifier`), `PriorityOrder`: bins are done in order, also with fusion; `FrontierFits`: if there are edges and none is shorter than delta; `Termination` |
| `page_rank` | all 64 directed graphs of 3 nodes without self-loops, 0 or 4 iterations, epsilon 0, 0.0001 (the default), 0.1, 0.5 | `ScoresAreRanks`, `ConvergedMeansVerified` |

The two failing runs are the findings of `PROJECT.json`. Each quotes the
sentence of README-SDM.md that the code does not keep. The passing runs and the
theorems have as their premises what keeps clear of them. One more limit of the
protocol is in the premises: without coherence `SynchOnlyAfterData` does not hold
for a worker that is already polling, because the synch variable is stored before
the flush.

Two other weaknesses are not premises: they happen in the runs, and the properties
say how far they reach.

- `shmalloc` opens the object for writing and calls `ftruncate` on every host
  (`dmalloc.h:195-201`), although the comment at `dmalloc.h:183-185` gives the workers
  read permission only. A worker with a smaller `-S` cuts the end off the published
  graph. `OfGraph` allows that zero only in cells beyond the shortest `-S`
  (outside `Kept`); every other cell must stay whole.
- README-SDM.md:21 has the flush enforce cache coherence, but only host 0 flushes
  (`graph.h:242`). A host that is not in `ColdHosts` keeps what a worker has cached,
  so its next worker may read lines of an earlier graph; `NoTornGraph` allows it there
  those, but never zeroes or anything unpublished. Hosts in `ColdHosts`, and all
  hosts of one coherent machine, are `FreshHosts`: they must see the latest graph.

Why the bounds are enough to be interesting:

- Two workers and two allocator runs are the least with an old graph, a new one
  and two readers in different places; two lines of rows are the least that can
  be half written. One worker fewer is enough for the failing runs.
- Two threads make every conflict on one cell; a third matters where threads
  wait for each other at a barrier that others have not reached, hence three in
  `brandes`. Four nodes are the least with two trees of two nodes to hook
  onto each other. Five-node graphs have up to ten triangles that share edges.
- In `dobfs` the graphs were chosen so that the search enters the bottom-up
  phase, leaves it, and enters it again with old bits in `front`, and so that
  threads meet in a compare-and-swap. Words and chunks of 2 give several of each;
  buffers of 1 make every second push a flush.
- In `csr_build` blocks of 2 nodes give full, short and single blocks; the radix
  makes sizes of the last list need both halves of a 64-bit value.
- In `delta_stepping` the graph Race has a node that is improved twice within a
  bin, from different sides; Wide gives three threads a node each in the same
  iteration and has a node out of reach; Fan has an edge shorter than delta in
  front of a node with most of the edges: with delta 4 its run does reach the
  overflow of the frontier, which is why `FrontierFits` needs its premise. A
  threshold of 2 lets bins of one node fuse and bins of two wait for the vote.
- In `page_rank` three nodes make cycles, chains, nodes without out-neighbours and
  without in-neighbours; within four iterations some of them converge for
  epsilon 0.1 and some, as the path between two ends, do not.
- Bounds that are only for checking: `MaxGen` (allocator runs). Every other
  counter is bounded by the code itself.

Fairness. `FairSpec` asks weak fairness of each thread of a team and of the
master after a barrier (in `DeltaStepping` also at the start and the end of a
trial): the threads are those of one OpenMP team, which the operating system
schedules, and none of them waits for anything but a barrier.
In `SharedGraph` it asks the same of an allocator and a worker that have
started, never of starting one, of a kill or of an eviction. No strong fairness
is assumed; retry loops (`Link`, the compare-and-swaps) end because a lost
race means that someone else moved on: in `RelaxEdges`, that a distance fell.

## 4. Theorems

Every theorem holds for all values of the constants that satisfy the `ASSUME`
of its module, which ask only for what the code's types and callers ensure
(numbers of nodes and threads, undirected graphs).

*`SharedGraph_proofs`.* `TypeCorrect`. `CoherentUseSafe`: with `TestMode`, one
publication and a build that keeps the poll, whatever the `-S` of each process, `NoTornGraph`, `SynchOnlyAfterData` and `WorkersWait`. Its invariant adds that
nothing is dirty, that the loop at work stays in its section (`LoopInSection`),
that all cells but those the current and later phases have left hold the current
graph (`WrittenInOrder`), and that a reader has seen the synch variable set, so
that no store will follow (`ReadersAfterSynch`); none of the three properties is
inductive without the second and third, because only the order of the phases
says that the store to the synch variable is the last. `ProcedureUseSafe`: without coherence, for
workers after the allocator, whichever hosts keep their caches, `NoTornGraph` and
`DoneMeansFlushed`; the invariant says what the device and the cache of host 0
hold *together* (`WrittenThroughCache`), that clean lines agree with the device
(`CacheSound`), that workers run only when the allocator is done, that a cold host has
cached only what is in the device, and any host only published graphs (`WorkersAfter`).

`NeverTorn` has `NoTornGraph` under either premise. `PublicationImplemented`: under
either premise every step is a step of `GraphPublication` or a stutter
(`PublishesAtomically`), seen from `FreshHosts`. The mapping shows the graph whose synch variable is set as
published and a worker that has read everything as holding it, so the proof is that
the one store to the synch variable finds the whole graph in place, and that a
worker never mixes pieces; both come from the invariants.

*`GraphLemmas`.* Connectedness is an equivalence and is decided by labels
that agree along edges. `CCVerifierExact`: the verifier behind `-v` accepts a
labelling exactly if it names the components. The rest is what other proofs
cite. Where one would use induction, they look at a least counterexample: a set
of naturals that is not empty has a least element (`LeastNatural`), because the
library proves that `<` is well founded on the naturals. So a sum is any function
that satisfies the recursion equations (`SumSteps`; a sum of sizes is the size of
a set, `SumSizes`), an iteration any function that does (`Iteration`), sorting is
numbering by rank (`RanksNumber`, `RanksOrder`), sums are linear and monotone, and
may be taken along the edges in either direction, in either order or over other
indices (`SumLinear`, `SumMonotone`, `SumBothWays`, `SumExchange`, `SumReindexed`), and distances are characterised by what holds along edges
(`AreDistances`), which the serial search satisfies (`DistancesFromCorrect`) and
nothing else does.

*`ConnectedComponents_proofs`, Afforest.* `TypeCorrect`, `AfforestCorrect`
(`ComponentsFound`, which includes that the label is the least node of the
component, whatever the schedule and the sample), `ForestOnlyMerges`
(`TreesOnlyMerge`), for every graph, number of threads and rounds. The invariant: what
each thread holds in its locals is still in the tree of the node it came from, however stale
(`Knows`); trees stay within components (`Sound`); each edge that a finished
loop handled joins one tree, and each edge a thread is at will be joined when it
returns (`Covered`), where an edge of a skipped node is covered from its other end or
because both ends are in the skipped tree; and in the last phase every handled
node points to its root (`Flat`). That no store takes a tree apart
(`StepKeepsClosed`) is what lets knowledge survive the steps of others.

*`ConnectedComponents_proofs`, Shiloach-Vishkin.* `SVTypeCorrect`,
`ShiloachVishkinCorrect` (`ComponentsFound`), `QuietIterationIsLast`. Trees here
may be taken apart by a lost hook, so the invariant is weaker: labels stay within
a component (`SVKnows`), and an iteration that has hooked nothing yet has compared equal labels
along all the edges it has done (`Quiet`), which needs that compressed trees
are stars between the loops (`Stars`).

*`TriangleCount_proofs`.* `OrderedCountInRow` (`IteratorInRow`): the iterator stays in
the row of u, because it never passes the position of v itself (`Behind`): the
cell there holds v, and v is not below any w it is compared with. This holds
for unsorted rows too, so it does not depend on what `RelabelByDegree` leaves.
`TypeCorrect` and `TrianglesCorrect` (`TrianglesCounted`), for every graph, do:
ranks in decreasing order of degree and number are a new numbering
(`NewIdsNumber`), the sections of the array have the lengths of the rows and no cell in
common (`StartAfter`, `SectionsApart`), so an offset that advances is at its section's end
when the row is written and no row disturbs another (`Relabelling`), sorted renamed
rows make a graph again, with an edge wherever the
given one has one (`RelabelledFacts`), and that keeps triangles
(`RenumberedTriangles`). While `OrderedCount` runs, `total` is the number of triangles
whose corners, in decreasing order, the three loops have passed (`Counting`); the
iterator, never put back for a new w, has only passed what is smaller than any w to
come (`Loops`). `TCVerifier` counts the walks around the triangles, six for each
(`VerifierCounts`, `SixWalks`).

*`CSRBuild_proofs`.* `TypeCorrect`, `SlotsHeldAlone` (`SlotsApart`), `CellsStoredOnce`
(`StoredOnce`) and `WorkerFindsGraph` (`WorkerSeesGraph`): for every edge list, given
or generated, every number of threads, block size and radix of at least 2. The
invariant speaks of the edge list `L` and of the set `S` of its *ends* that the loop
at work has handled, both rigid, so that everything about degrees, rows and
addresses is a fact about `L` alone. While degrees are counted, each is the
number of ends in `S` (`Counting`); `ParallelPrefixSum` is a plain prefix sum
(`ParallelPrefixSumAdds`, for every block size); while rows fill (`Filling`), what is
claimed of a row is its beginning and as long as its part of `S`, a cell of it is
empty only while the one thread that claimed it holds it, and the other end of each
end in `S` is in the row or about to be; a squished row is the sorted set of
neighbours (`OrderedFacts`); and the region is laid out section by section
(`Layout`), each of which is empty until its loop gets there. The addresses
(`Addresses`) and the values, which always fit 64 bits (`ValuesFit`: fewer than
`Radix` neighbours for each of at most `Radix` nodes), are arithmetic. That twice the
number of edges is the sum of the row lengths (`EdgeCount`) is by mapping ordered to
unordered pairs.

*`Search_proofs`, `DOBFS`.* `TypeCorrect`, `QueueHoldsOnce` (`QueuedOnce`),
`LevelsImplemented` (`JoinsByLevel`: every step is a step of `LevelOrder` or a
stutter), `BFSCorrect` (`ShortestPathTree`): for every graph, team, word width, chunk,
buffer size, alpha and beta. The invariant says for which level `d` the search is
at work and, for each phase, where the nodes of the levels `d` and `d + 1` are: in the
window of the queue, among the cells added to it, in a buffer, in `front`, in `curr`,
or about to be put there by a thread (`AtPhase`); a node of the next level that is not
in the tree still has an edge from a node that no thread has finished (`Covered`).
Each node is in one place only (`QueueOnce`, `PushersOnce`), which is why the queue,
of one cell per node and without a check, does not overflow (`RoomForBuffer`). The
plain `set_bit` loses no bit because words do not cross chunks (`WordInChunk`), for
any chunk size that is a multiple of the word.

*`Search_proofs`, Brandes.* `BCTypeCorrect`, `BCPathsCounted` (`PathsCounted`) and
`BCScoresCorrect` (`ScoresAreBetweenness`): for every undirected graph without repeated
neighbours and self-loops, list of sources, team and buffer size. The difficulty of `PBFS` is that a node is found by one thread and reached by others in the
same level, who add to its count while it waits in the first one's buffer. The
invariant (`BCInv`) of a search in round `r`: the threads at work have nodes of
level `r`, each its own, and all have the depth `r + 1` (`Rounds`, `Places`), which
holds across the `nowait` because no thread passes the barrier before the last one has
flushed, and not all leave while nodes are left to take (`Unfinished`); the window is level `r`, and what is found of level `r + 1` is in the queue or in
a buffer, once (`Frontier`); `depth_index` cuts the queue into the levels, an empty one in
front (`Cuts`); `succ` has exactly those edges down a level that are handled or about to
be added (`Marked`); and each count is the sum of the counts along the
marked edges that were added (`Counted`), which stays true when a count of level `r + 1`
grows because no edge from there is marked yet. When a round ends each
edge down from its level is handled (`RoundComplete`). When the search ends, depths are
distances and the counts satisfy a recursion over the levels; that this makes them the numbers
of shortest paths, which `Walks` defines by length, is `CountsArePaths`: both satisfy the
recursion, and two functions that do cannot differ at a node of least distance
(`FromAbove`). Successors, counts, queue and levels
are reset between iterations (`StartSearching`), which is why `sources` may repeat nodes.

The scores are a second invariant beside that one (`ScoreInv`). In the backward pass the
nodes of the levels already passed, and those of the level at work that are done, have
their delta, and the scores are those of the earlier iterations and the deltas of
these nodes (`Backward`, `Earlier`, `Due`); a thread reads only deltas of the level below,
which is passed. What a delta has to become comes from the graph alone: `Dependency`, the
shortest paths to the node times the parts of all paths that go on from it, which is the
sum over all targets of the share of the shortest paths that go through the node
(`OnwardIsShortest`, `DependencyIsShare`). That it satisfies the recursion of the
code over the edges down a level (`DependencySteps`) needs that a walk can be taken apart
after its first edge as well as before its last (`WalksBegin`, by exchanging sums),
so that what goes on from a node goes on from a neighbour below it (`AheadSteps`), and
that no quotient leaves a rest (`ScaleAssumption`). `BCVerifier` computes both recursions over levels anew; each has only one
solution, from the source down and from the last level up (`CountedPathsAre`, `AddedUpIs`),
so its sums are the scores. The largest is 0 only if no source has a neighbour,
because the source counts as on its paths (`LonelySource`, `SourceWithNeighbor`).

*`DeltaStepping_proofs`.* `TypeCorrect`, `LowerBinsSettled` (`PriorityOrder`),
`DistancesCorrect` (`DistancesExact`), `FrontierSuffices` (`FrontierFits`): for every
graph with positive weights, delta, team, fusion threshold and list of sources.
Shortest distances are characterised by what holds along edges (`AreShortest`), which
determines them; the oracle of `SSSPVerifier` computes them. The invariant: a distance
is never too small; an edge that is not relaxed starts at a node that waits, in a
bin, in the frontier or in the copy of a share, or is being relaxed
(`Progress`); and a bin below the current one holds nothing, so that
everything below is settled (`Settled`). That survives fusion because a thread
that is still at the current bin votes only when its own share of it is empty
(`Binned`, `Voted`), and because cells nobody has taken up keep at least one thread from
the barrier (`LeftInv`). The room in the frontier is a counting argument: if no
edge is shorter than delta, a node is taken with its final distance, so
each edge puts a node into a bin at most once (`Room`), and the array has a cell
for each edge.

*`PageRank_proofs`.* `TypeCorrect`, `RanksComputed` (`ScoresAreRanks`),
`VerifierAccepts` (`ConvergedMeansVerified`): for every directed graph, number of
iterations and rational epsilon, and every order in which the threads take the nodes. The
invariant is short: before a pull the nodes that are done have put out their share of
their score, and during a pull the nodes not yet taken have the old score and the
others the new (`Halfway`), while `error` is the change of the others. The rest is
about an iteration as a function of the scores (`Damp`), all of it in integers:
scores after k iterations are multiples of the divisions of the others
(`ScoredExact`), so that no quotient leaves a rest; an iteration is linear but for the
base (`DampLinear`), from which follow the ranks, because the base is what the
surfers that stop leave behind (`RanksAreScores`); and it brings two
assignments of scores closer to each other by 17/20 (`Contraction`), because a node
hands out no more than it has (`SumBothWays`): hence the sum of at most 1
(`ScoredTotal`), and a change no greater than the one before (`ChangeShrinks`), which
is all the verifier asks for.

Only model-checked: liveness under fairness, in every run that has it, which
TLAPS cannot prove. Every invariant and every action property of a passing run, and
the refinements, are theorems.

## 5. Not modelled

- Weighted graphs on their way into memory. `MakeGraphFromEL` asserts on host 0
  that a graph needs no weights (`builder.h:433`), so `DeltaStep` runs only on a
  `.wsg` file read by `ReadSerializedGraph` (`builder.h:485-489`), as in
  `sssp -x 0 -f graph.wsg`; the graph it returns is where `DeltaStepping` begins. A
  weighted worker, which reads the region with the wrong type, is not modelled.
- The text formats and their writer. The readers of edge lists end in the
  `exit(-1)` of `pvector::reserve` (`pvector.h:88`), `converter` and so `writer.h`
  in that of `MakeGraph()` (`builder.h:475`). `ReadSerializedGraph` is a sequential
  copy of a file.
- Floats. Scores are exact in `Brandes` and `PageRank`; what rounding and the
  order of a reduction do to the last bits, and whether the tolerances of the
  verifiers absorb it, is outside TLA+'s integers.
- What `DeltaStep` does after a store outside the frontier's array (a graph without
  edges under `-r`, or an edge shorter than delta): the model stops in the phase
  `undefined`.
- Option parsing, `TopK`, the printing functions, timers and gem5 hooks:
  sequential, without an effect on the state of a kernel. The random numbers: what they may
  choose is a choice in the models.
- `hmalloc`, `MakeCSRInPlace`, `MakeUniformEL` past its `exit`, and the directed and
  weighted branches of the builder: unreachable.

## 6. Plan

Done, in this order: the region with its refinement and invariants; the component
kernels with proofs; the builder; the searches; triangles; delta stepping and its
trials; PageRank; the normalization of betweenness; proofs of every safety property of
every component. What is left to model: workers of different types on one region; the
worker that waits for a graph read from a `.sg` file.
