---------------------------- MODULE SharedGraph ----------------------------
(***************************************************************************)
(* How a graph travels from the allocator (host 0) to the workers through  *)
(* the shared region: the SDM constructor of CSRGraph (graph.h), the       *)
(* mapping, zeroing and flushing functions of dmalloc.h and allocator.cc.  *)
(*                                                                         *)
(* The region is a sequence of cells.  The four header cells share cache   *)
(* line 0; every other cell stands for one cache line of the neighs, sizes *)
(* or rows section.  A cell other than the synch variable holds the number *)
(* of the allocator run ("generation") that last stored to it, 0 if it is  *)
(* zero.  With -T 1 all hosts are processes of one coherent machine; else  *)
(* each host has a cache that no other host's stores invalidate.           *)
(***************************************************************************)
EXTENDS Integers, FiniteSets

CONSTANTS
    Workers,      \* the hosts with -x > 0
    NeighCells, SizeCells, RowCells,  \* lines of the three data sections
    MaxGen,       \* how often the allocator is run
    TestMode,     \* -T: POSIX shared memory on one host instead of /dev/dax
    Zeroing,      \* the values of -l the allocator is run with
    AllocatorLengths, WorkerLengths,  \* the values of -S on host 0 and on the others, in cells
    SpinBuilds,   \* what the compiler made of the polling loop
    Regime,       \* the order in which the operator starts the programs
    ColdHosts     \* the hosts that drop their cache when the worker exits

Regimes == {"workers_after", "one_publication", "free"}
Builds == {"reload", "hoisted", "removed"}

ASSUME ConstantsAssumption ==
    /\ NeighCells \in Nat \ {0} /\ SizeCells \in Nat \ {0} /\ RowCells \in Nat \ {0}
    /\ MaxGen \in Nat \ {0}
    /\ TestMode \in BOOLEAN /\ ColdHosts \subseteq Workers
    /\ Zeroing \subseteq BOOLEAN
    /\ AllocatorLengths \subseteq Nat \ {0} /\ WorkerLengths \subseteq Nat \ {0}
    /\ SpinBuilds \subseteq Builds /\ Regime \in Regimes
    /\ 0 \notin Workers

Hosts == {0} \cup Workers
-----------------------------------------------------------------------------
(* Figure 1 of README-SDM.md: the map of the region. *)
Synch == 0
Metadata == 1 .. 3           \* num_nodes, index_x, neigh_size
Neighs == 4 .. 3 + NeighCells
Sizes == 4 + NeighCells .. 3 + NeighCells + SizeCells
Rows == 4 + NeighCells + SizeCells .. 3 + NeighCells + SizeCells + RowCells
Cells == 0 .. 3 + NeighCells + SizeCells + RowCells
Data == Cells \ {Synch}

Line(c) == IF c <= 3 THEN 0 ELSE c
Lines == {Line(c) : c \in Cells}

None == -1
Content == 0 .. MaxGen

(* The ways in which the hosts may have been given their -S. *)
Mappings ==
    {m \in [Hosts -> AllocatorLengths \cup WorkerLengths] :
        m[0] \in AllocatorLengths /\ \A w \in Workers : m[w] \in WorkerLengths}

VARIABLES
    mem,     \* the content of the region in the memory device
    len,     \* its length, which ftruncate changes
    cache,   \* per host and cell, the cached copy or None
    dirty,   \* the lines host 0 has modified and not written back
    mapped,  \* per host, its -S
    apc,     \* what the allocator does
    todo,    \* the cells (lines, when flushing) its current loop has left
    gen,     \* the number of allocator runs so far
    wpc,     \* what each worker does
    view,    \* per worker and cell, the value it last read, or None
    spin     \* the build in use

allocVars == <<apc, todo, gen>>
workerVars == <<wpc, view>>
regionVars == <<mem, len, cache, dirty>>
vars == <<mem, len, cache, dirty, mapped, apc, todo, gen, wpc, view, spin>>

Init ==
    /\ mem = [c \in Cells |-> 0]
    /\ mapped \in Mappings
    /\ len = IF TestMode THEN 0 ELSE mapped[0]
    /\ cache = [h \in Hosts |-> [c \in Cells |-> None]]
    /\ dirty = {}
    /\ apc = "idle" /\ todo = {} /\ gen = 0
    /\ wpc = [w \in Workers |-> "off"]
    /\ view = [w \in Workers |-> [c \in Cells |-> None]]
    /\ spin \in SpinBuilds
-----------------------------------------------------------------------------
(* Loads and stores.  A load fills the whole line, a store needs it filled; *)
(* only host 0 maps the region writable, so only its lines are ever dirty.  *)

Load(h, c) == IF TestMode \/ cache[h][c] = None THEN mem[c] ELSE cache[h][c]

Filled(h, c) ==
    IF TestMode THEN cache[h]
    ELSE [d \in Cells |-> IF Line(d) = Line(c) THEN Load(h, d) ELSE cache[h][d]]

Store(c, v) ==
    IF TestMode
    THEN /\ mem' = [mem EXCEPT ![c] = v]
         /\ UNCHANGED <<len, cache, dirty>>
    ELSE /\ cache' = [cache EXCEPT ![0] = [Filled(0, c) EXCEPT ![c] = v]]
         /\ dirty' = dirty \cup {Line(c)}
         /\ UNCHANGED <<mem, len>>

(* A line leaves host h's cache: written back first if it is dirty. *)
WriteBack(h, l) ==
    /\ mem' = IF h = 0 /\ l \in dirty
              THEN [c \in Cells |-> IF Line(c) = l THEN cache[0][c] ELSE mem[c]]
              ELSE mem
    /\ cache' = [cache EXCEPT ![h] =
                    [c \in Cells |-> IF Line(c) = l THEN None ELSE @[c]]]
    /\ dirty' = IF h = 0 THEN dirty \ {l} ELSE dirty
    /\ UNCHANGED len

(* An access beyond the mapping, or beyond the end of the shared memory     *)
(* object, kills the process.                                               *)
Faults(h, c) == c >= mapped[h] \/ (TestMode /\ c >= len)

(* Mutant: the shared memory object is opened with O_TRUNC. *)
NothingSurvives(h, c) == FALSE

Survives(h, c) == c < mapped[h]

(* dmalloc or shmalloc.  The latter sizes the object with ftruncate whoever *)
(* calls it: what lies beyond the new end is gone, and reads 0 if the       *)
(* object grows again.                                                      *)
Map(h) ==
    /\ IF TestMode
       THEN /\ len' = mapped[h]
            /\ mem' = [c \in Cells |-> IF Survives(h, c) THEN mem[c] ELSE 0]
       ELSE UNCHANGED <<mem, len>>
    /\ UNCHANGED <<cache, dirty>>
-----------------------------------------------------------------------------
(* The allocator. *)

Writing == {"zero", "meta", "sizes", "rows", "neighs", "synch"}
Phases == Writing \cup {"map", "flush"}
AllocatorStates == {"idle", "killed", "done"} \cup Phases

MayAllocate ==
    CASE Regime = "workers_after" -> \A w \in Workers : wpc[w] = "off"
      [] Regime = "one_publication" -> mem[Synch] = 0 /\ apc # "done"
      [] OTHER -> TRUE

(* main() of allocator.cc: with -l 1 munmap_memory maps the region, to zero *)
(* it before a graph is built.                                              *)
AllocatorStart(zero) ==
    /\ apc \in {"idle", "killed", "done"}
    /\ gen < MaxGen /\ MayAllocate
    /\ gen' = gen + 1
    /\ \/ zero /\ Map(0) /\ apc' = "zero" /\ todo' = {c \in Cells : c < mapped[0]}
       \/ ~zero /\ apc' = "map" /\ todo' = {} /\ UNCHANGED regionVars
    /\ UNCHANGED <<mapped, workerVars, spin>>

(* A graph has been built; its constructor maps the region, with -l 1 for   *)
(* the second time.                                                         *)
AllocatorMap ==
    /\ apc = "map"
    /\ Map(0)
    /\ apc' = "meta" /\ todo' = Metadata
    /\ UNCHANGED <<mapped, gen, workerVars, spin>>

(* Mutants: the constructor does not flush; assign_data does not store the  *)
(* rows; it does not set the synch variable.                                *)
WithoutFlush == "done"
WithoutRows == "neighs"
WithoutSynch == "flush"

AfterSynch == "flush"

AfterSizes == "rows"

AfterNeighs == "synch"

(* After the phase, what comes next and the cells it will touch. *)
Following(phase) ==
    CASE phase = "zero" -> "map"
      [] phase = "meta" -> "sizes"
      [] phase = "sizes" -> AfterSizes
      [] phase = "rows" -> "neighs"
      [] phase = "neighs" -> AfterNeighs
      [] phase = "synch" -> AfterSynch
      [] OTHER -> "done"

(* Mutant: every second line. *)
FlushStride == {l \in Lines : l < mapped[0] /\ l % 2 = 0}

FlushedLines == {l \in Lines : l < mapped[0]}

(* Mutant: the loop over the rows runs to index_x, not to index_x - 1. *)
RowsAndOneMore == Rows \cup {4 + NeighCells + SizeCells + RowCells}

RowsStored == Rows

CellsOf(phase) ==
    CASE phase = "meta" -> Metadata
      [] phase = "sizes" -> Sizes
      [] phase = "rows" -> RowsStored
      [] phase = "neighs" -> Neighs
      [] phase = "synch" -> {Synch}
      [] phase = "flush" -> FlushedLines
      [] OTHER -> {}

(* Which cell of the current loop may be next.  The sizes and rows loops    *)
(* and the zeroing run in parallel, in any order between the lines; the     *)
(* header line lies in one thread's share of the zeroing.                   *)
Eligible(c) ==
    /\ c \in todo
    /\ CASE apc \in {"sizes", "rows", "flush"} -> TRUE
         [] apc = "zero" -> \A d \in todo : Line(d) = Line(c) => c <= d
         [] OTHER -> \A d \in todo : c <= d

Progress(c) ==
    IF todo = {c}
    THEN /\ apc' = Following(apc)
         /\ todo' = CellsOf(Following(apc))
    ELSE /\ apc' = apc
         /\ todo' = todo \ {c}

(* One store of the zeroing, of the constructor's metadata, of assign_data, *)
(* or the final store to the synch variable.                                *)
AllocatorWrite(c) ==
    /\ apc \in Writing
    /\ Eligible(c)
    /\ IF Faults(0, c)
       THEN apc' = "killed" /\ todo' = {} /\ UNCHANGED regionVars
       ELSE /\ Store(c, CASE apc = "zero" -> 0 [] apc = "synch" -> 1 [] OTHER -> gen)
            /\ Progress(c)
    /\ UNCHANGED <<mapped, gen, workerVars, spin>>

(* One clflushopt of flush_x86_cache; the loop is parallel. *)
AllocatorFlush(l) ==
    /\ apc = "flush"
    /\ Eligible(l)
    /\ WriteBack(0, l)
    /\ Progress(l)
    /\ UNCHANGED <<mapped, gen, workerVars, spin>>

(* The process is killed from outside; what its host caches stays cached. *)
AllocatorKilled ==
    /\ apc \in Phases
    /\ apc' = "killed" /\ todo' = {}
    /\ UNCHANGED <<regionVars, mapped, gen, workerVars, spin>>
-----------------------------------------------------------------------------
(* The workers. *)

Nothing == [c \in Cells |-> None]

(* The process of worker w ends: nothing of what it read is left. *)
Ended(w) ==
    /\ wpc' = [wpc EXCEPT ![w] = "off"]
    /\ view' = [view EXCEPT ![w] = Nothing]
    /\ cache' = IF w \in ColdHosts THEN [cache EXCEPT ![w] = Nothing] ELSE cache

Reading == {"meta", "sizes", "rows"}
WorkerStates == {"off", "poll", "stuck"} \cup Reading

MayStart == Regime = "workers_after" => apc = "done"

WorkerStart(w) ==
    /\ wpc[w] = "off" /\ MayStart
    /\ wpc' = [wpc EXCEPT ![w] = "poll"]
    /\ Map(w)
    /\ UNCHANGED <<mapped, allocVars, view, spin>>

(* The loop `while (_synch_var[0] != 1) {}' reads a plain int and has no    *)
(* other effect, so a compiler may reload it at each turn, load it once, or *)
(* assume that the loop ends and remove it; g++ does these at -O0, -O1 and  *)
(* -O2 or -O3.                                                              *)
WorkerPoll(w) ==
    /\ wpc[w] = "poll"
    /\ IF spin # "removed" /\ Faults(w, Synch)
       THEN Ended(w)
       ELSE /\ UNCHANGED view
            /\ wpc' = [wpc EXCEPT ![w] =
                        IF spin = "removed" \/ Load(w, Synch) = 1 THEN "meta"
                        ELSE IF spin = "hoisted" THEN "stuck" ELSE "poll"]
            /\ cache' = IF spin = "removed" THEN cache
                        ELSE [cache EXCEPT ![w] = Filled(w, Synch)]
    /\ UNCHANGED <<mem, len, dirty, mapped, allocVars, spin>>

(* The constructor reads the metadata in order, assign_sizes the sizes in   *)
(* order, and the kernel the rows in whatever order and as often as it      *)
(* needs.                                                                   *)
Wanted(w, c) ==
    CASE wpc[w] = "meta" -> c \in Metadata /\ \A d \in Metadata : d < c => view[w][d] # None
      [] wpc[w] = "sizes" -> c \in Sizes /\ \A d \in Sizes : d < c => view[w][d] # None
      [] wpc[w] = "rows" -> c \in Rows
      [] OTHER -> FALSE

Unread(w, S) == {c \in S : view[w][c] = None}

WorkerRead(w, c) ==
    /\ wpc[w] \in Reading /\ Wanted(w, c)
    /\ wpc[w] # "rows" => view[w][c] = None
    /\ IF Faults(w, c)
       THEN Ended(w)
       ELSE /\ view' = [view EXCEPT ![w][c] = Load(w, c)]
            /\ cache' = [cache EXCEPT ![w] = Filled(w, c)]
            /\ wpc' = [wpc EXCEPT ![w] =
                        CASE wpc[w] = "meta" /\ Unread(w, Metadata) = {c} -> "sizes"
                          [] wpc[w] = "sizes" /\ Unread(w, Sizes) = {c} -> "rows"
                          [] OTHER -> wpc[w]]
    /\ UNCHANGED <<mem, len, dirty, mapped, allocVars, spin>>

(* The kernel ends, or the worker is killed. *)
WorkerExit(w) ==
    /\ wpc[w] # "off"
    /\ Ended(w)
    /\ UNCHANGED <<mem, len, dirty, mapped, allocVars, spin>>

(* A host's cache may replace a line at any moment. *)
Evict(h, l) ==
    /\ \E c \in Cells : Line(c) = l /\ cache[h][c] # None
    /\ WriteBack(h, l)
    /\ UNCHANGED <<mapped, allocVars, workerVars, spin>>
-----------------------------------------------------------------------------
AllocatorStep == AllocatorMap \/ \E c \in Cells : AllocatorWrite(c) \/ AllocatorFlush(c)
WorkerStep(w) == WorkerPoll(w) \/ \E c \in Cells : WorkerRead(w, c)

Next ==
    \/ \E zero \in Zeroing : AllocatorStart(zero)
    \/ AllocatorMap
    \/ \E c \in Cells : AllocatorWrite(c)
    \/ \E l \in Lines : AllocatorFlush(l)
    \/ AllocatorKilled
    \/ \E w \in Workers : WorkerStart(w) \/ WorkerPoll(w) \/ WorkerExit(w)
    \/ \E w \in Workers, c \in Cells : WorkerRead(w, c)
    \/ \E h \in Hosts, l \in Lines : Evict(h, l)

Spec == Init /\ [][Next]_vars

(* The operating system runs every started process; nothing makes the       *)
(* operator start one, and nothing makes a cache drop a line.               *)
FairSpec ==
    /\ Spec
    /\ WF_vars(AllocatorStep)
    /\ \A w \in Workers : WF_vars(WorkerStep(w))
-----------------------------------------------------------------------------
(* What no worker's -S is too short for, so that no ftruncate of shmalloc   *)
(* cuts it off.                                                             *)
Kept == {c \in Data : TestMode => \A w \in Workers : c < mapped[w]}

(* A cell's part of the graph of the latest allocator run: all of it, or    *)
(* zero where a worker has cut it off.                                      *)
OfGraph(c, v) == v = gen \/ (c \notin Kept /\ v = 0)

(* The region holds that graph. *)
WholeGraph == \A c \in Data : OfGraph(c, mem[c])

(* The hosts that see what is in the region, not what they have cached.     *)
FreshHosts == IF TestMode THEN Workers ELSE ColdHosts

(* Every variable has its type: no loop of the allocator over the region    *)
(* has a cell to write or flush that lies outside of the graph, and only    *)
(* lines that host 0 caches are dirty.                                      *)
TypeOK ==
    /\ mem \in [Cells -> Content] /\ len \in Nat
    /\ cache \in [Hosts -> [Cells -> Content \cup {None}]]
    /\ dirty \subseteq Lines
    /\ mapped \in Mappings
    /\ apc \in AllocatorStates /\ todo \subseteq Cells /\ gen \in 0 .. MaxGen
    /\ wpc \in [Workers -> WorkerStates]
    /\ view \in [Workers -> [Cells -> Content \cup {None}]]
    /\ spin \in SpinBuilds
    /\ \A c \in Cells : Line(c) \in dirty => cache[0][c] # None

(* No worker ever holds a piece of anything but the graph the allocator     *)
(* wrote last: not of an earlier graph, not of zeroes, not of both.  Only   *)
(* where a worker's ftruncate has cut off the end of the region it holds    *)
(* zeroes, and only on a host that has kept its cache, earlier graphs.      *)
NoTornGraph ==
    \A w \in Workers, c \in Data :
        \/ view[w][c] = None
        \/ OfGraph(c, view[w][c])
        \/ w \notin FreshHosts /\ view[w][c] \in 1 .. gen

(* README-SDM.md:98: the synch variable "is set only when everything is     *)
(* written into the shared memory region".                                  *)
SynchOnlyAfterData == mem[Synch] = 1 => WholeGraph

(* README-SDM.md:98: the synch variable "is unset when the allocator is     *)
(* writing the graph".                                                      *)
SynchUnsetWhileWriting == apc \in {"meta", "sizes", "rows", "neighs"} => mem[Synch] = 0

(* README-SDM.md:99: the workers "wait until the graph is fully written".   *)
WorkersWait == \A w \in Workers : wpc[w] \in Reading => WholeGraph

(* README-SDM.md:17: "the allocator makes sure that the data is coherently  *)
(* written to the shared memory": once it has exited, the device itself     *)
(* holds the whole graph and no line of it waits in host 0's cache.         *)
DoneMeansFlushed == apc = "done" => /\ mem[Synch] = 1 /\ WholeGraph
                                    /\ dirty = {}

(* A worker that polls while the allocator is at work, with a build that    *)
(* reloads the synch variable, gets the whole graph, unless one of the two  *)
(* processes is killed first.                                               *)
HasGraph(w) == Unread(w, Metadata \cup Sizes \cup Rows) = {}

WaitingWorkerServed ==
    \A w \in Workers :
        (spin = "reload" /\ wpc[w] = "poll" /\ apc \in Phases)
            ~> (HasGraph(w) \/ wpc[w] = "off" \/ apc = "killed")

(* To a worker the many stores look like one: the graph appears as a whole  *)
(* and is fetched as a whole, on every host that sees the region as it is.  *)
Published == IF Regime = "one_publication" THEN mem[Synch] = 1 ELSE apc = "done"

Publication == INSTANCE GraphPublication WITH
    pub <- IF Published THEN gen ELSE 0,
    Workers <- FreshHosts,
    got <- [w \in FreshHosts |->
               IF ~HasGraph(w) THEN 0
               ELSE IF \A c \in Metadata \cup Sizes \cup Rows : OfGraph(c, view[w][c])
               THEN gen ELSE None]

PublishesAtomically == Publication!Spec
=============================================================================
