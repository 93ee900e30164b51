------------------------ MODULE SharedGraph_proofs ------------------------
(***************************************************************************)
(* Proofs about SharedGraph, for every number of workers, lines, allocator *)
(* runs and for every -S: that the two ways of using the shared region     *)
(* which the code supports never show a worker a torn graph.               *)
(*                                                                         *)
(* Coherent: all processes on one machine (-T 1), workers started at any   *)
(* time, one graph published.  Procedure: a host per process, workers      *)
(* started after the allocator has exited, some with cold caches.          *)
(***************************************************************************)
EXTENDS SharedGraph, TLAPS

(* The sections cover the region behind the synch variable. *)
LEMMA Sections ==
    /\ Metadata \cup Sizes \cup Rows \cup Neighs = Data
    /\ Data \subseteq Cells /\ Cells \subseteq Nat /\ Cells = Data \cup {Synch}
    /\ Synch \in Cells /\ Synch \notin Data
    /\ \A c \in Cells : Line(c) \in Lines /\ Line(c) <= c /\ Line(c) \in Cells
    /\ Lines \subseteq Cells
BY ConstantsAssumption
   DEF Metadata, Sizes, Rows, Neighs, Data, Cells, Synch, Line, Lines

LEMMA PhaseCells == \A phase : CellsOf(phase) \subseteq Cells
<1>1. Rows \subseteq Cells /\ Sizes \subseteq Cells /\ Neighs \subseteq Cells
      /\ Metadata \subseteq Cells /\ Synch \in Cells
  BY Sections
<1> QED BY <1>1, Sections DEF CellsOf, FlushedLines, RowsStored

(* What Mappings is. *)
LEMMA MappingType ==
    ASSUME NEW m \in Mappings
    PROVE  /\ m[0] \in AllocatorLengths /\ \A w \in Workers : m[w] \in WorkerLengths
           /\ \A h \in Hosts : m[h] \in Nat
<1>1. AllocatorLengths \subseteq Nat /\ WorkerLengths \subseteq Nat
  BY ConstantsAssumption
<1> QED BY <1>1 DEF Mappings, Hosts

LEMMA PhaseOrder == \A phase : Following(phase) \in AllocatorStates
BY DEF Following, AfterSizes, AfterNeighs, AfterSynch, AllocatorStates, Phases, Writing

-----------------------------------------------------------------------------
(* Every step keeps the types; a line that host 0 has dirtied stays cached  *)
(* until it is written back.                                                *)
LEMMA LoadType ==
    ASSUME TypeOK, NEW h \in Hosts, NEW c \in Cells
    PROVE  /\ Load(h, c) \in Content
           /\ Filled(h, c) \in [Cells -> Content \cup {None}]
           /\ \A d \in Cells : cache[h][d] # None => Filled(h, c)[d] = cache[h][d]
           /\ ~TestMode => \A d \in Cells : Line(d) = Line(c) => Filled(h, c)[d] = Load(h, d)
           /\ \A d \in Cells : Filled(h, c)[d] \in {cache[h][d], Load(h, d)}
<1>1. \A d \in Cells : Load(h, d) \in Content /\ Load(h, d) # None
  BY ConstantsAssumption DEF TypeOK, Load, Content, None
<1>2. CASE TestMode
  BY <1>1, <1>2, ConstantsAssumption DEF TypeOK, Filled
<1>3. CASE ~TestMode
  BY <1>1, <1>3, ConstantsAssumption DEF TypeOK, Filled, Load
<1> QED BY <1>1, <1>2, <1>3

LEMMA StoreType ==
    ASSUME TypeOK, NEW c \in Cells, NEW v \in Content, Store(c, v)
    PROVE  /\ mem' \in [Cells -> Content] /\ len' \in Nat
           /\ cache' \in [Hosts -> [Cells -> Content \cup {None}]]
           /\ dirty' \subseteq Lines
           /\ \A d \in Cells : Line(d) \in dirty' => cache'[0][d] # None
<1> 0 \in Hosts
  BY DEF Hosts
<1> None \notin Content
  BY ConstantsAssumption DEF None, Content
<1>1. CASE TestMode
  BY <1>1 DEF TypeOK, Store
<1>2. CASE ~TestMode
  <2> DEFINE f == [Filled(0, c) EXCEPT ![c] = v]
  <2>1. f \in [Cells -> Content \cup {None}]
    BY LoadType
  <2>2. cache' = [cache EXCEPT ![0] = f] /\ dirty' = dirty \cup {Line(c)} /\ mem' = mem /\ len' = len
    BY <1>2 DEF Store
  <2>3. ASSUME NEW d \in Cells, Line(d) \in dirty' PROVE f[d] # None
    <3>1. CASE Line(d) \in dirty
      BY <3>1, LoadType DEF TypeOK
    <3>2. CASE Line(d) = Line(c)
      <4>1. Filled(0, c)[d] = Load(0, d) /\ Load(0, d) \in Content
        BY <1>2, <3>2, LoadType
      <4> QED BY <4>1, LoadType
    <3> QED BY <2>2, <2>3, <3>1, <3>2
  <2> HIDE DEF f
  <2>4. cache' \in [Hosts -> [Cells -> Content \cup {None}]] /\ cache'[0] = f
    BY <2>1, <2>2 DEF TypeOK
  <2>5. dirty' \subseteq Lines
    BY <2>2, Sections DEF TypeOK
  <2>6. \A d \in Cells : Line(d) \in dirty' => cache'[0][d] # None
    BY <2>3, <2>4
  <2> QED BY <2>2, <2>4, <2>5, <2>6 DEF TypeOK
<1> QED BY <1>1, <1>2

LEMMA WriteBackType ==
    ASSUME TypeOK, NEW h \in Hosts, NEW l \in Lines, WriteBack(h, l)
    PROVE  /\ mem' \in [Cells -> Content] /\ len' \in Nat
           /\ cache' \in [Hosts -> [Cells -> Content \cup {None}]]
           /\ dirty' \subseteq Lines
           /\ \A d \in Cells : Line(d) \in dirty' => cache'[0][d] # None
<1> 0 \in Hosts
  BY DEF Hosts
<1>1. mem' \in [Cells -> Content]
  BY DEF TypeOK, WriteBack
<1>2. cache' \in [Hosts -> [Cells -> Content \cup {None}]]
  BY DEF TypeOK, WriteBack
<1>3. dirty' \subseteq Lines /\ len' \in Nat
  BY DEF TypeOK, WriteBack
<1>4. ASSUME NEW d \in Cells, Line(d) \in dirty' PROVE cache'[0][d] # None
  BY <1>4 DEF TypeOK, WriteBack
<1> QED BY <1>1, <1>2, <1>3, <1>4

LEMMA MapType ==
    ASSUME TypeOK, NEW h \in Hosts, Map(h)
    PROVE  mem' \in [Cells -> Content] /\ len' \in Nat /\ cache' = cache /\ dirty' = dirty
<1>1. mapped[h] \in Nat /\ 0 \in Content
  <2>1. mapped[h] \in Nat
    BY MappingType DEF TypeOK
  <2>2. 0 \in Content
    BY ConstantsAssumption DEF Content
  <2> QED BY <2>1, <2>2, ConstantsAssumption
<1>2. CASE TestMode
  <2>1. mem' = [c \in Cells |-> IF c < mapped[h] THEN mem[c] ELSE 0] /\ len' = mapped[h]
    BY <1>2 DEF Map, Survives
  <2>2. \A c \in Cells : (IF c < mapped[h] THEN mem[c] ELSE 0) \in Content
    BY <1>1 DEF TypeOK
  <2>3. mem' \in [Cells -> Content]
    BY <2>1, <2>2
  <2> QED BY <1>1, <2>1, <2>3 DEF Map, Survives
<1>3. CASE ~TestMode
  BY <1>3 DEF TypeOK, Map, Survives
<1> QED BY <1>2, <1>3

LEMMA EndedType ==
    ASSUME TypeOK, NEW w \in Workers, Ended(w)
    PROVE  /\ wpc' \in [Workers -> WorkerStates]
           /\ view' \in [Workers -> [Cells -> Content \cup {None}]]
           /\ cache' \in [Hosts -> [Cells -> Content \cup {None}]]
           /\ cache'[0] = cache[0]
<1> w \in Hosts /\ w # 0 /\ 0 \in Hosts
  BY ConstantsAssumption DEF Hosts
<1> Nothing \in [Cells -> Content \cup {None}]
  BY DEF Nothing
<1> QED BY DEF TypeOK, Ended, WorkerStates

LEMMA TypeStep == TypeOK /\ [Next]_vars => TypeOK'
<1> SUFFICES ASSUME TypeOK, [Next]_vars PROVE TypeOK'
  OBVIOUS
<1> USE DEF allocVars, workerVars, regionVars
<1> 0 \in Hosts /\ Workers \subseteq Hosts /\ 0 \notin Workers
  BY ConstantsAssumption DEF Hosts
<1>1. ASSUME NEW zero \in Zeroing, AllocatorStart(zero) PROVE TypeOK'
  <2>1. mem' \in [Cells -> Content] /\ len' \in Nat /\ cache' = cache /\ dirty' = dirty
    <3>1. CASE Map(0)
      BY <3>1, MapType
    <3>2. CASE UNCHANGED regionVars
      BY <3>2 DEF TypeOK
    <3> QED BY <1>1, <3>1, <3>2 DEF AllocatorStart
  <2>2. apc' \in AllocatorStates /\ todo' \subseteq Cells /\ gen' \in 0 .. MaxGen
    BY <1>1, Sections, ConstantsAssumption
       DEF AllocatorStart, TypeOK, AllocatorStates, Phases, Writing
  <2> QED BY <1>1, <2>1, <2>2 DEF AllocatorStart, TypeOK
<1>11. CASE AllocatorMap
  <2>1. mem' \in [Cells -> Content] /\ len' \in Nat /\ cache' = cache /\ dirty' = dirty
    BY <1>11, MapType DEF AllocatorMap
  <2>2. apc' \in AllocatorStates /\ todo' \subseteq Cells
    BY <1>11, Sections DEF AllocatorMap, AllocatorStates, Phases, Writing
  <2> QED BY <1>11, <2>1, <2>2 DEF AllocatorMap, TypeOK
<1>2. ASSUME NEW c \in Cells, AllocatorWrite(c) PROVE TypeOK'
  <2>1. CASE Faults(0, c)
    BY <1>2, <2>1 DEF AllocatorWrite, TypeOK, AllocatorStates
  <2>2. CASE ~Faults(0, c)
    <3> DEFINE v == CASE apc = "zero" -> 0 [] apc = "synch" -> 1 [] OTHER -> gen
    <3>1. v \in Content
      BY ConstantsAssumption DEF TypeOK, Content
    <3>2. Store(c, v) /\ Progress(c)
      BY <1>2, <2>2 DEF AllocatorWrite
    <3> HIDE DEF v
    <3>3. apc' \in AllocatorStates /\ todo' \subseteq Cells
      BY <3>2, PhaseCells, PhaseOrder DEF Progress, TypeOK
    <3> QED BY <1>2, <3>1, <3>2, <3>3, StoreType DEF AllocatorWrite, TypeOK
  <2> QED BY <2>1, <2>2
<1>3. ASSUME NEW l \in Lines, AllocatorFlush(l) PROVE TypeOK'
  <2>1. apc' \in AllocatorStates /\ todo' \subseteq Cells
    BY <1>3, PhaseCells, PhaseOrder DEF AllocatorFlush, Progress, TypeOK
  <2> QED BY <1>3, <2>1, WriteBackType DEF AllocatorFlush, TypeOK
<1>4. CASE AllocatorKilled
  BY <1>4 DEF AllocatorKilled, TypeOK, AllocatorStates
<1>5. ASSUME NEW w \in Workers, WorkerStart(w) PROVE TypeOK'
  <2>1. mem' \in [Cells -> Content] /\ len' \in Nat /\ cache' = cache /\ dirty' = dirty
    BY <1>5, MapType DEF WorkerStart
  <2> QED BY <1>5, <2>1 DEF WorkerStart, TypeOK, WorkerStates
<1>6. ASSUME NEW w \in Workers, WorkerPoll(w) PROVE TypeOK'
  <2>1. CASE Ended(w)
    BY <1>6, <2>1, EndedType DEF WorkerPoll, TypeOK
  <2>2. CASE ~Ended(w)
    <3>1. Filled(w, Synch) \in [Cells -> Content \cup {None}]
      BY LoadType, Sections
    <3>2. cache' \in [Hosts -> [Cells -> Content \cup {None}]] /\ cache'[0] = cache[0]
      BY <1>6, <2>2, <3>1 DEF WorkerPoll, TypeOK
    <3>3. wpc' \in [Workers -> WorkerStates] /\ view' = view
      BY <1>6, <2>2 DEF WorkerPoll, TypeOK, WorkerStates, Reading
    <3> QED BY <1>6, <3>2, <3>3 DEF WorkerPoll, TypeOK
  <2> QED BY <2>1, <2>2
<1>7. ASSUME NEW w \in Workers, NEW c \in Cells, WorkerRead(w, c) PROVE TypeOK'
  <2>1. CASE Faults(w, c)
    BY <1>7, <2>1, EndedType DEF WorkerRead, TypeOK
  <2>2. CASE ~Faults(w, c)
    <3>1. Filled(w, c) \in [Cells -> Content \cup {None}] /\ Load(w, c) \in Content
      BY LoadType
    <3>2. cache' \in [Hosts -> [Cells -> Content \cup {None}]] /\ cache'[0] = cache[0]
      BY <1>7, <2>2, <3>1 DEF WorkerRead, TypeOK
    <3>3. view' \in [Workers -> [Cells -> Content \cup {None}]]
      <4>1. view' = [view EXCEPT ![w] = [view[w] EXCEPT ![c] = Load(w, c)]]
        BY <1>7, <2>2 DEF WorkerRead
      <4>2. [view[w] EXCEPT ![c] = Load(w, c)] \in [Cells -> Content \cup {None}]
        BY <3>1 DEF TypeOK
      <4> QED BY <4>1, <4>2 DEF TypeOK
    <3>4. wpc' \in [Workers -> WorkerStates]
      BY <1>7, <2>2 DEF WorkerRead, TypeOK, WorkerStates, Reading
    <3> QED BY <1>7, <3>2, <3>3, <3>4 DEF WorkerRead, TypeOK
  <2> QED BY <2>1, <2>2
<1>8. ASSUME NEW w \in Workers, WorkerExit(w) PROVE TypeOK'
  BY <1>8, EndedType DEF WorkerExit, TypeOK
<1>9. ASSUME NEW h \in Hosts, NEW l \in Lines, Evict(h, l) PROVE TypeOK'
  BY <1>9, WriteBackType DEF Evict, TypeOK
<1>10. CASE UNCHANGED vars
  BY <1>10 DEF vars, TypeOK
<1> QED BY <1>1, <1>2, <1>3, <1>4, <1>5, <1>6, <1>7, <1>8, <1>9, <1>10, <1>11 DEF Next

LEMMA TypeInit == Init => TypeOK
<1>1. Init => len \in Nat
  BY MappingType DEF Init, Hosts
<1> QED BY <1>1, ConstantsAssumption
   DEF Init, TypeOK, Hosts, Content, None, AllocatorStates, WorkerStates

(* Every variable keeps its type, whatever the programs and caches do. *)
THEOREM TypeCorrect == Spec => []TypeOK
BY TypeInit, TypeStep, PTL DEF Spec
-----------------------------------------------------------------------------
(* The cells the current allocator run has still to write. *)
Left == CASE apc \in {"zero", "map"} -> Data
          [] apc = "meta" -> todo \cup Sizes \cup Rows \cup Neighs
          [] apc = "sizes" -> todo \cup Rows \cup Neighs
          [] apc = "rows" -> todo \cup Neighs
          [] apc = "neighs" -> todo
          [] OTHER -> {}

(* The current loop only touches its own section. *)
LoopInSection ==
    apc \in {"map", "meta", "sizes", "rows", "neighs", "synch", "flush"} => todo \subseteq CellsOf(apc)

-----------------------------------------------------------------------------
CoherentUse ==
    /\ TestMode = TRUE /\ Regime = "one_publication"
    /\ SpinBuilds \subseteq {"reload", "hoisted"}

(* What the allocator has written so far is of this run, and the synch      *)
(* variable is set only when that is everything.                            *)
WrittenInOrder ==
    /\ apc \in Phases \cup {"done"} => \A c \in Data \ Left : OfGraph(c, mem[c])
    /\ mem[Synch] = 1 => apc \in {"flush", "done", "killed"} /\ WholeGraph

ReadersAfterSynch ==
    \A w \in Workers :
        /\ wpc[w] \in Reading => mem[Synch] = 1
        /\ \A c \in Data : view[w][c] # None => wpc[w] \in Reading /\ OfGraph(c, view[w][c])

CoherentInv == TypeOK /\ dirty = {} /\ LoopInSection /\ WrittenInOrder /\ ReadersAfterSynch
-----------------------------------------------------------------------------
ProcedureUse == TestMode = FALSE /\ Regime = "workers_after"

(* The same for what host 0 sees through its own cache. *)
WrittenThroughCache ==
    /\ apc \in Phases \cup {"done"} => \A c \in Data \ Left : Load(0, c) = gen
    /\ apc \in {"flush", "done"} => Load(0, Synch) = 1

(* A clean line agrees with the device; dirty lines will still be flushed. *)
CacheSound ==
    /\ \A c \in Cells : cache[0][c] # None /\ Line(c) \notin dirty => cache[0][c] = mem[c]
    /\ \A l \in dirty : l < mapped[0]
    /\ apc = "flush" => dirty \subseteq todo
    /\ apc = "done" => dirty = {}

WorkersAfter ==
    \A w \in Workers :
        /\ wpc[w] # "off" => apc = "done"
        /\ w \in ColdHosts => /\ \A c \in Cells : cache[w][c] # None =>
                                    wpc[w] # "off" /\ cache[w][c] = mem[c]
                              /\ \A c \in Data : view[w][c] # None => view[w][c] = gen
        /\ \A c \in Data : cache[w][c] # None => cache[w][c] \in 1 .. gen
        /\ \A c \in Data : view[w][c] # None => wpc[w] # "off" /\ view[w][c] \in 1 .. gen

(* An allocator that has started has a number, and so has what it wrote. *)
Numbered == apc = "idle" \/ gen > 0

ProcedureInv ==
    TypeOK /\ LoopInSection /\ WrittenThroughCache /\ CacheSound /\ WorkersAfter /\ Numbered

LEMMA NumberedStep == TypeOK /\ Numbered /\ [Next]_vars => Numbered'
<1> SUFFICES ASSUME TypeOK, Numbered, [Next]_vars PROVE Numbered'
  OBVIOUS
<1> gen \in Nat
  BY ConstantsAssumption DEF TypeOK
<1>1. ASSUME NEW zero \in Zeroing, AllocatorStart(zero) PROVE Numbered'
  BY <1>1 DEF AllocatorStart, Numbered
<1>2. ASSUME apc # "idle", gen' = gen PROVE Numbered'
  BY <1>2 DEF Numbered
<1>3. ASSUME UNCHANGED <<apc, gen>> PROVE Numbered'
  BY <1>3 DEF Numbered
<1> USE DEF allocVars
<1>4. ASSUME NEW c \in Cells, AllocatorWrite(c) PROVE Numbered'
  BY <1>2, <1>4 DEF AllocatorWrite, Writing
<1>5. ASSUME NEW l \in Lines, AllocatorFlush(l) PROVE Numbered'
  BY <1>2, <1>5 DEF AllocatorFlush
<1>6. CASE AllocatorKilled
  BY <1>2, <1>6 DEF AllocatorKilled, Phases, Writing
<1>11. CASE AllocatorMap
  BY <1>2, <1>11 DEF AllocatorMap
<1>7. ASSUME NEW w \in Workers, WorkerStart(w) \/ WorkerPoll(w) \/ WorkerExit(w) PROVE Numbered'
  BY <1>3, <1>7 DEF WorkerStart, WorkerPoll, WorkerExit
<1>8. ASSUME NEW w \in Workers, NEW c \in Cells, WorkerRead(w, c) PROVE Numbered'
  BY <1>3, <1>8 DEF WorkerRead
<1>9. ASSUME NEW h \in Hosts, NEW l \in Lines, Evict(h, l) PROVE Numbered'
  BY <1>3, <1>9 DEF Evict
<1>10. CASE UNCHANGED vars
  BY <1>3, <1>10 DEF vars
<1> QED BY <1>1, <1>4, <1>5, <1>6, <1>7, <1>8, <1>9, <1>10, <1>11 DEF Next
-----------------------------------------------------------------------------
(* What the phases are followed by, and what is left in each. *)
LEMMA PhaseTable ==
    /\ Following("zero") = "map" /\ Following("meta") = "sizes"
    /\ Following("sizes") = "rows" /\ Following("rows") = "neighs"
    /\ Following("neighs") = "synch" /\ Following("synch") = "flush"
    /\ Following("flush") = "done"
    /\ CellsOf("map") = {} /\ CellsOf("meta") = Metadata /\ CellsOf("sizes") = Sizes /\ CellsOf("rows") = Rows
    /\ CellsOf("neighs") = Neighs /\ CellsOf("synch") = {Synch} /\ CellsOf("done") = {}
    /\ CellsOf("flush") = {l \in Lines : l < mapped[0]}
BY DEF Following, AfterSizes, AfterNeighs, AfterSynch, CellsOf, FlushedLines, RowsStored

LEMMA LeftTable ==
    /\ apc \in {"zero", "map"} => Left = Data
    /\ apc = "meta" => Left = todo \cup Sizes \cup Rows \cup Neighs
    /\ apc = "sizes" => Left = todo \cup Rows \cup Neighs
    /\ apc = "rows" => Left = todo \cup Neighs
    /\ apc = "neighs" => Left = todo
    /\ apc \in {"synch", "flush", "done"} => Left = {}
BY DEF Left

LEMMA LeftTableNext ==
    /\ apc' \in {"zero", "map"} => Left' = Data
    /\ apc' = "meta" => Left' = todo' \cup Sizes \cup Rows \cup Neighs
    /\ apc' = "sizes" => Left' = todo' \cup Rows \cup Neighs
    /\ apc' = "rows" => Left' = todo' \cup Neighs
    /\ apc' = "neighs" => Left' = todo'
    /\ apc' \in {"synch", "flush", "done"} => Left' = {}
BY DEF Left

LEMMA CellsOfNext == mapped' = mapped => CellsOf(apc)' = CellsOf(apc')
BY DEF CellsOf, FlushedLines

(* One step of a loop leaves at most the cell of that step behind. *)
LEMMA LoopStep ==
    ASSUME LoopInSection, apc \in Phases, NEW c \in todo, Progress(c), mapped' = mapped
    PROVE  /\ LoopInSection'
           /\ Data \ Left' \subseteq (Data \ Left) \cup {c}
           /\ apc' \in Phases \cup {"done"}
           /\ apc' \in {"flush", "done"} => apc \in {"synch", "flush"} \/ Left = {}
           /\ apc = "synch" => c = Synch
           /\ apc' = "flush" => apc = "flush" \/ (apc = "synch" /\ todo' = {l \in Lines : l < mapped[0]})
           /\ apc' = "done" => apc = "flush" /\ todo = {c}
           /\ apc' = apc => todo' = todo \ {c}
           /\ apc = "zero" => Data \ Left' = {}
           /\ apc # "map"
           /\ apc = "synch" => apc' \in {"synch", "flush"}
<1>1. \/ apc' = apc /\ todo' = todo \ {c}
      \/ apc' = Following(apc) /\ todo' = CellsOf(Following(apc)) /\ todo = {c}
  BY DEF Progress
<1>2. apc \in {"zero", "meta", "sizes", "rows", "neighs", "synch", "flush"}
  BY PhaseTable DEF Phases, Writing, LoopInSection
<1> USE DEF Phases, Writing
<1>3. CASE apc = "zero"
  BY <1>1, <1>3, PhaseTable, LeftTable, LeftTableNext, CellsOfNext, Sections DEF LoopInSection
<1>4. CASE apc = "meta"
  BY <1>1, <1>4, PhaseTable, LeftTable, LeftTableNext, CellsOfNext, Sections DEF LoopInSection
<1>5. CASE apc = "sizes"
  BY <1>1, <1>5, PhaseTable, LeftTable, LeftTableNext, CellsOfNext, Sections DEF LoopInSection
<1>6. CASE apc = "rows"
  BY <1>1, <1>6, PhaseTable, LeftTable, LeftTableNext, CellsOfNext, Sections DEF LoopInSection
<1>7. CASE apc = "neighs"
  BY <1>1, <1>7, PhaseTable, LeftTable, LeftTableNext, CellsOfNext, Sections DEF LoopInSection
<1>8. CASE apc = "synch"
  BY <1>1, <1>8, PhaseTable, LeftTable, LeftTableNext, CellsOfNext, Sections DEF LoopInSection
<1>9. CASE apc = "flush"
  BY <1>1, <1>9, PhaseTable, LeftTable, LeftTableNext, CellsOfNext, Sections DEF LoopInSection
<1> QED BY <1>2, <1>3, <1>4, <1>5, <1>6, <1>7, <1>8, <1>9
-----------------------------------------------------------------------------
(* The hosts never change what they map, so what is never cut off stays so. *)
LEMMA KeptNext == [Next]_vars => Kept' = Kept /\ mapped' = mapped
<1> SUFFICES ASSUME [Next]_vars PROVE mapped' = mapped
  BY DEF Kept
<1> QED BY DEF Next, AllocatorStart, AllocatorMap, AllocatorWrite, AllocatorFlush, AllocatorKilled,
               WorkerStart, WorkerPoll, WorkerExit, WorkerRead, Evict, vars

(* On one coherent machine, whoever maps the region leaves at least the     *)
(* synch variable of it, and a worker cuts off only what is not kept.       *)
LEMMA CoherentMap ==
    ASSUME CoherentUse, TypeOK, NEW w \in Workers, Map(w)
    PROVE  /\ mem'[Synch] = mem[Synch] /\ dirty' = dirty /\ cache' = cache
           /\ \A c \in Cells : mem'[c] = mem[c] \/ (c \notin Kept /\ mem'[c] = 0)
<1>1. mapped[w] \in WorkerLengths /\ WorkerLengths \subseteq Nat \ {0}
  BY MappingType, ConstantsAssumption DEF TypeOK
<1>2. Survives(w, Synch)
  <2>1. \A n \in Nat \ {0} : 0 < n
    OBVIOUS
  <2> QED BY <1>1, <2>1 DEF Survives, Synch
<1>3. \A c \in Cells : mem'[c] = IF Survives(w, c) THEN mem[c] ELSE 0
  BY DEF Map, CoherentUse
<1>4. \A c \in Cells : ~Survives(w, c) => c \notin Kept
  BY DEF Survives, Kept, CoherentUse
<1> QED BY <1>2, <1>3, <1>4, Sections DEF Map

LEMMA AllocatorMapsSynch ==
    ASSUME CoherentUse, TypeOK, Map(0)
    PROVE  mem'[Synch] = mem[Synch] /\ dirty' = dirty /\ cache' = cache
<1>1. mapped[0] \in AllocatorLengths /\ AllocatorLengths \subseteq Nat \ {0}
  BY MappingType, ConstantsAssumption DEF TypeOK
<1>2. Survives(0, Synch)
  <2>1. \A n \in Nat \ {0} : 0 < n
    OBVIOUS
  <2> QED BY <1>1, <2>1 DEF Survives, Synch
<1> QED BY <1>2, Sections DEF Map, CoherentUse

(* Before the synch variable is set, nobody reads and nobody has read. *)
LEMMA NoReaderBeforeSynch ==
    ASSUME ReadersAfterSynch, mem[Synch] # 1
    PROVE  \A w \in Workers : /\ wpc[w] \notin Reading
                              /\ \A c \in Data : view[w][c] = None
BY DEF ReadersAfterSynch

(* What a worker reads lies behind the synch variable. *)
LEMMA WantedData ==
    \A w \in Workers, c \in Cells : Wanted(w, c) => c \in Data
BY Sections DEF Wanted

LEMMA CoherentStep ==
    ASSUME CoherentUse, CoherentInv, [Next]_vars PROVE CoherentInv'
<1> USE DEF allocVars, workerVars, regionVars
<1> Workers \subseteq Hosts /\ 0 \in Hosts /\ None \notin Content /\ TestMode
  BY ConstantsAssumption DEF Hosts, None, Content, CoherentUse
<1> TypeOK /\ TypeOK'
  BY TypeStep DEF CoherentInv
<1> dirty = {} /\ LoopInSection /\ WrittenInOrder /\ ReadersAfterSynch
  BY DEF CoherentInv
<1> Kept' = Kept /\ mapped' = mapped
  BY KeptNext
<1> SUFFICES dirty' = {} /\ LoopInSection' /\ WrittenInOrder' /\ ReadersAfterSynch'
  BY DEF CoherentInv
<1>a. ASSUME UNCHANGED <<mem, dirty, allocVars, mapped>>
      PROVE  dirty' = {} /\ LoopInSection' /\ WrittenInOrder'
  BY <1>a DEF LoopInSection, WrittenInOrder, WholeGraph, OfGraph, Left, CellsOf, FlushedLines
<1>1. ASSUME NEW zero \in Zeroing, AllocatorStart(zero)
      PROVE  dirty' = {} /\ LoopInSection' /\ WrittenInOrder' /\ ReadersAfterSynch'
  <2>1. mem[Synch] = 0
    BY <1>1 DEF AllocatorStart, MayAllocate, CoherentUse
  <2>2. mem'[Synch] = mem[Synch] /\ dirty' = {} /\ UNCHANGED <<wpc, view>>
    BY <1>1, AllocatorMapsSynch DEF AllocatorStart
  <2>3. apc' = "zero" \/ (apc' = "map" /\ todo' = {})
    BY <1>1 DEF AllocatorStart
  <2>4. Data \ Left' = {}
    BY <2>3, LeftTableNext, Sections
  <2>5. LoopInSection'
    BY <2>3 DEF LoopInSection
  <2>6. WrittenInOrder'
    BY <2>1, <2>2, <2>3, <2>4 DEF WrittenInOrder
  <2>7. ReadersAfterSynch'
    BY <2>1, <2>2, NoReaderBeforeSynch DEF ReadersAfterSynch
  <2> QED BY <2>2, <2>5, <2>6, <2>7
<1>11. CASE AllocatorMap
  <2>1. mem[Synch] # 1 /\ apc' = "meta" /\ todo' = Metadata /\ UNCHANGED <<wpc, view>>
    BY <1>11 DEF AllocatorMap, WrittenInOrder
  <2>2. mem'[Synch] = mem[Synch] /\ dirty' = {}
    BY <1>11, AllocatorMapsSynch DEF AllocatorMap
  <2>3. Data \ Left' = {}
    BY <2>1, LeftTableNext, Sections
  <2>4. LoopInSection'
    BY <1>11, <2>1, PhaseTable, CellsOfNext DEF LoopInSection, AllocatorMap
  <2>5. WrittenInOrder'
    BY <2>1, <2>2, <2>3 DEF WrittenInOrder
  <2>6. ReadersAfterSynch'
    BY <2>1, NoReaderBeforeSynch DEF ReadersAfterSynch
  <2> QED BY <2>2, <2>4, <2>5, <2>6
<1>2. ASSUME NEW c \in Cells, AllocatorWrite(c)
      PROVE  dirty' = {} /\ LoopInSection' /\ WrittenInOrder' /\ ReadersAfterSynch'
  <2>1. mem[Synch] # 1 /\ apc \in Phases /\ apc # "flush" /\ c \in todo
    BY <1>2 DEF AllocatorWrite, WrittenInOrder, Writing, Phases, Eligible
  <2>2. ReadersAfterSynch'
    BY <1>2, <2>1, NoReaderBeforeSynch DEF ReadersAfterSynch, AllocatorWrite
  <2>3. CASE Faults(0, c)
    <3>1. mem' = mem /\ dirty' = {} /\ apc' = "killed"
      BY <1>2, <2>3 DEF AllocatorWrite
    <3> QED BY <2>1, <2>2, <3>1 DEF LoopInSection, WrittenInOrder, Phases, Writing
  <2>4. CASE ~Faults(0, c)
    <3> DEFINE v == CASE apc = "zero" -> 0 [] apc = "synch" -> 1 [] OTHER -> gen
    <3>1. Store(c, v) /\ Progress(c) /\ mapped' = mapped /\ gen' = gen
      BY <1>2, <2>4 DEF AllocatorWrite
    <3>2. /\ apc = "zero" => v = 0
          /\ apc = "synch" => v = 1
          /\ apc \notin {"zero", "synch"} => v = gen
      OBVIOUS
    <3> HIDE DEF v
    <3>3. mem' = [mem EXCEPT ![c] = v] /\ dirty' = {}
      BY <3>1 DEF Store
    <3>4. /\ LoopInSection'
          /\ Data \ Left' \subseteq (Data \ Left) \cup {c}
          /\ apc = "synch" => c = Synch
          /\ apc = "zero" => Data \ Left' = {}
      BY <2>1, <3>1, LoopStep
    <3>5. ASSUME NEW d \in Data \ Left' PROVE OfGraph(d, mem[d])'
      <4>1. apc # "zero"
        BY <3>4
      <4>2. CASE d = c
        BY <3>1, <3>2, <3>3, <3>4, <4>1, <4>2, Sections DEF TypeOK, OfGraph
      <4>3. CASE d # c
        BY <2>1, <3>1, <3>3, <3>4, <4>3, Sections DEF TypeOK, WrittenInOrder, OfGraph
      <4> QED BY <4>2, <4>3
    <3>6. ASSUME mem'[Synch] = 1 PROVE apc' = "flush" /\ WholeGraph'
      <4>1. c = Synch /\ v = 1
        BY <2>1, <3>3, <3>6, Sections DEF TypeOK
      <4>2. apc = "synch"
        <5>1. apc # "zero"
          BY <3>2, <4>1
        <5>2. apc \notin {"meta", "sizes", "rows", "neighs"}
          BY <2>1, <4>1, PhaseTable, Sections DEF LoopInSection
        <5>3. apc # "map"
          BY <2>1, <4>1, PhaseTable DEF LoopInSection
        <5> QED BY <2>1, <5>1, <5>2, <5>3 DEF Phases, Writing
      <4>3. todo = {c}
        BY <2>1, <4>1, <4>2, PhaseTable DEF LoopInSection
      <4>4. apc' = "flush"
        BY <3>1, <4>2, <4>3, PhaseTable DEF Progress
      <4>5. \A d \in Data : OfGraph(d, mem[d]) /\ mem'[d] = mem[d]
        BY <2>1, <3>3, <4>1, <4>2, LeftTable, Sections DEF WrittenInOrder, TypeOK
      <4> QED BY <3>1, <4>4, <4>5 DEF WholeGraph, OfGraph
    <3> QED BY <2>2, <3>1, <3>3, <3>4, <3>5, <3>6 DEF WrittenInOrder
  <2> QED BY <2>3, <2>4
<1>3. ASSUME NEW l \in Lines, AllocatorFlush(l)
      PROVE  dirty' = {} /\ LoopInSection' /\ WrittenInOrder' /\ ReadersAfterSynch'
  <2>1. mem' = mem /\ dirty' = {} /\ UNCHANGED <<wpc, view, gen, mapped>>
    BY <1>3 DEF AllocatorFlush, WriteBack
  <2>2. apc = "flush" /\ l \in todo /\ Progress(l)
    BY <1>3 DEF AllocatorFlush, Eligible
  <2>3. LoopInSection' /\ apc' \in {"flush", "done"}
    BY <2>1, <2>2, LoopStep, PhaseTable DEF Phases, Progress
  <2>4. WrittenInOrder'
    BY <2>1, <2>2, <2>3, LeftTable, LeftTableNext
       DEF WrittenInOrder, WholeGraph, OfGraph, Phases
  <2> QED BY <2>1, <2>3, <2>4 DEF ReadersAfterSynch, OfGraph
<1>4. CASE AllocatorKilled
  BY <1>4 DEF AllocatorKilled, LoopInSection, WrittenInOrder, WholeGraph, OfGraph,
              ReadersAfterSynch, Phases, Writing
<1>5. ASSUME NEW w \in Workers, WorkerStart(w)
      PROVE  dirty' = {} /\ LoopInSection' /\ WrittenInOrder' /\ ReadersAfterSynch'
  <2>1. /\ UNCHANGED <<dirty, allocVars, mapped, view>> /\ mem'[Synch] = mem[Synch]
        /\ \A c \in Cells : mem'[c] = mem[c] \/ (c \notin Kept /\ mem'[c] = 0)
    BY <1>5, CoherentMap DEF WorkerStart
  <2>2. ReadersAfterSynch'
    BY <1>5, <2>1 DEF WorkerStart, ReadersAfterSynch, OfGraph, TypeOK, Reading
  <2>3. LoopInSection' /\ Left' = Left
    BY <2>1 DEF LoopInSection, CellsOf, FlushedLines, Left
  <2>4. \A c \in Data : OfGraph(c, mem[c]) => OfGraph(c, mem[c])'
    BY <2>1, Sections DEF OfGraph
  <2>5. WrittenInOrder'
    BY <2>1, <2>3, <2>4 DEF WrittenInOrder, WholeGraph
  <2> QED BY <2>1, <2>2, <2>3, <2>5
<1>b. ASSUME NEW w \in Workers, Ended(w), mem' = mem, gen' = gen
      PROVE  ReadersAfterSynch'
  BY <1>b, Sections DEF Ended, Nothing, ReadersAfterSynch, OfGraph, TypeOK, Reading
<1>6. ASSUME NEW w \in Workers, WorkerPoll(w)
      PROVE  dirty' = {} /\ LoopInSection' /\ WrittenInOrder' /\ ReadersAfterSynch'
  <2>1. UNCHANGED <<mem, dirty, allocVars, mapped>>
    BY <1>6 DEF WorkerPoll
  <2>2. CASE ~Ended(w)
    <3>1. spin # "removed" /\ Load(w, Synch) = mem[Synch]
      BY DEF TypeOK, CoherentUse, Load
    <3>2. view' = view /\ wpc' = [wpc EXCEPT ![w] = IF mem[Synch] = 1 THEN "meta"
                                ELSE IF spin = "hoisted" THEN "stuck" ELSE "poll"]
      BY <1>6, <2>2, <3>1 DEF WorkerPoll
    <3>3. wpc[w] \notin Reading
      BY <1>6 DEF WorkerPoll, Reading
    <3> QED BY <1>a, <2>1, <3>2, <3>3 DEF ReadersAfterSynch, OfGraph, TypeOK, Reading
  <2> QED BY <1>a, <1>b, <2>1, <2>2
<1>7. ASSUME NEW w \in Workers, NEW c \in Cells, WorkerRead(w, c)
      PROVE  dirty' = {} /\ LoopInSection' /\ WrittenInOrder' /\ ReadersAfterSynch'
  <2>1. UNCHANGED <<mem, dirty, allocVars, mapped>>
    BY <1>7 DEF WorkerRead
  <2>2. CASE ~Faults(w, c)
    <3>1. c \in Data /\ mem[Synch] = 1
      BY <1>7, WantedData DEF WorkerRead, ReadersAfterSynch
    <3>2. Load(w, c) = mem[c] /\ OfGraph(c, mem[c])
      BY <3>1 DEF Load, WrittenInOrder, WholeGraph
    <3>3. view' = [view EXCEPT ![w][c] = mem[c]]
      BY <1>7, <2>2, <3>2 DEF WorkerRead
    <3>4. \A x \in Workers : wpc[x] \in Reading <=> wpc'[x] \in Reading
      BY <1>7, <2>2 DEF WorkerRead, TypeOK, Reading
    <3>5. \A x \in Workers, d \in Data :
             view'[x][d] = IF x = w /\ d = c THEN mem[c] ELSE view[x][d]
      BY <3>3, Sections DEF TypeOK
    <3>6. wpc[w] \in Reading
      BY <1>7 DEF WorkerRead
    <3>7. \A x \in Workers : wpc'[x] \in Reading => mem'[Synch] = 1
      BY <2>1, <3>4 DEF ReadersAfterSynch
    <3>8. \A x \in Workers, d \in Data : view'[x][d] # None =>
             wpc'[x] \in Reading /\ OfGraph(d, view[x][d])'
      BY <2>1, <3>2, <3>4, <3>5, <3>6 DEF ReadersAfterSynch, OfGraph
    <3> QED BY <1>a, <2>1, <3>7, <3>8 DEF ReadersAfterSynch
  <2>3. CASE Faults(w, c)
    BY <1>7, <1>a, <1>b, <2>1, <2>3 DEF WorkerRead
  <2> QED BY <2>2, <2>3
<1>8. ASSUME NEW w \in Workers, WorkerExit(w)
      PROVE  dirty' = {} /\ LoopInSection' /\ WrittenInOrder' /\ ReadersAfterSynch'
  BY <1>8, <1>a, <1>b DEF WorkerExit
<1>9. ASSUME NEW h \in Hosts, NEW l \in Lines, Evict(h, l)
      PROVE  dirty' = {} /\ LoopInSection' /\ WrittenInOrder' /\ ReadersAfterSynch'
  <2>1. UNCHANGED <<mem, dirty, allocVars, mapped, workerVars>>
    BY <1>9 DEF Evict, WriteBack
  <2> QED BY <1>a, <2>1 DEF ReadersAfterSynch, OfGraph
<1>10. CASE UNCHANGED vars
  BY <1>10, <1>a DEF vars, ReadersAfterSynch, OfGraph
<1> QED BY <1>1, <1>2, <1>3, <1>4, <1>5, <1>6, <1>7, <1>8, <1>9, <1>10, <1>11 DEF Next

LEMMA CoherentInit == CoherentUse /\ Init => CoherentInv
<1> SUFFICES ASSUME CoherentUse, Init PROVE CoherentInv
  OBVIOUS
<1>1. TypeOK
  BY TypeInit
<1>2. LoopInSection /\ WrittenInOrder
  BY Sections DEF Init, LoopInSection, WrittenInOrder, Phases, Writing
<1>3. ReadersAfterSynch
  BY Sections DEF Init, ReadersAfterSynch, Reading
<1> QED BY <1>1, <1>2, <1>3 DEF Init, CoherentInv

(* Used on one coherent machine, with workers started at any moment of the  *)
(* first publication, with processes killed at any moment and the allocator *)
(* restarted if it was killed before it published, the synch variable is    *)
(* set only over a whole graph, workers wait for it and read nothing else,  *)
(* but for the end that a worker started with a short -S has cut off: for   *)
(* every number of workers and lines, every -S and every -l.                *)
THEOREM CoherentUseSafe ==
    ASSUME CoherentUse
    PROVE  Spec => [](NoTornGraph /\ SynchOnlyAfterData /\ WorkersWait)
<1>1. Init => CoherentInv
  BY CoherentInit
<1>2. CoherentInv /\ [Next]_vars => CoherentInv'
  BY CoherentStep
<1>3. CoherentInv => NoTornGraph /\ SynchOnlyAfterData /\ WorkersWait
  BY DEF CoherentInv, WrittenInOrder, ReadersAfterSynch, NoTornGraph, SynchOnlyAfterData,
         WorkersWait
<1> QED BY <1>1, <1>2, <1>3, PTL DEF Spec
-----------------------------------------------------------------------------
(* With a cache in between, host 0 sees its own stores, and whether a line  *)
(* is cached or written back makes no difference to it.                     *)
LEMMA StoreSeen ==
    ASSUME ~TestMode, TypeOK, NEW c \in Cells, NEW v \in Content, Store(c, v)
    PROVE  /\ \A d \in Cells : Load(0, d)' = IF d = c THEN v ELSE Load(0, d)
           /\ \A d \in Cells : Line(d) # Line(c) => cache'[0][d] = cache[0][d]
           /\ \A h \in Hosts \ {0} : cache'[h] = cache[h]
           /\ mem' = mem /\ dirty' = dirty \cup {Line(c)}
<1> 0 \in Hosts /\ None \notin Content
  BY ConstantsAssumption DEF Hosts, None, Content
<1>1. Filled(0, c) \in [Cells -> Content \cup {None}]
  BY LoadType
<1>2. cache' = [cache EXCEPT ![0] = [Filled(0, c) EXCEPT ![c] = v]] /\ mem' = mem
      /\ dirty' = dirty \cup {Line(c)}
  BY DEF Store
<1>3. cache'[0] = [Filled(0, c) EXCEPT ![c] = v]
  BY <1>2 DEF TypeOK
<1>4. cache'[0][c] = v
  BY <1>1, <1>3
<1>5. ASSUME NEW d \in Cells, d # c PROVE Load(0, d)' = Load(0, d)
  <2>1. cache'[0][d] = Filled(0, c)[d]
    BY <1>1, <1>3, <1>5
  <2>2. Filled(0, c)[d] = IF Line(d) = Line(c) THEN Load(0, d) ELSE cache[0][d]
    BY DEF Filled
  <2>3. Load(0, d) # None
    BY LoadType
  <2> QED BY <1>2, <2>1, <2>2, <2>3 DEF Load
<1>6. ASSUME NEW d \in Cells, Line(d) # Line(c) PROVE cache'[0][d] = cache[0][d]
  BY <1>1, <1>3, <1>6 DEF Filled
<1>7. \A h \in Hosts \ {0} : cache'[h] = cache[h]
  BY <1>2 DEF TypeOK
<1>8. Load(0, c)' = v
  BY <1>4 DEF Load
<1> QED BY <1>2, <1>5, <1>6, <1>7, <1>8

CleanLines == \A c \in Cells : cache[0][c] # None /\ Line(c) \notin dirty => cache[0][c] = mem[c]

LEMMA WriteBackUnseen ==
    ASSUME ~TestMode, TypeOK, CleanLines, NEW h \in Hosts, NEW l \in Lines, WriteBack(h, l)
    PROVE  /\ \A d \in Cells : Load(0, d)' = Load(0, d)
           /\ CleanLines'
           /\ \A x \in Hosts, d \in Cells : cache'[x][d] \in {None, cache[x][d]}
           /\ h # 0 \/ dirty = {} => mem' = mem
<1> 0 \in Hosts
  BY DEF Hosts
<1>1. \A x \in Hosts, d \in Cells :
        cache'[x][d] = IF x = h /\ Line(d) = l THEN None ELSE cache[x][d]
  BY DEF WriteBack, TypeOK
<1>2. h # 0 \/ l \notin dirty => mem' = mem
  BY DEF WriteBack
<1>3. CASE h # 0
  BY <1>1, <1>2, <1>3 DEF WriteBack, Load, CleanLines
<1>4. CASE h = 0 /\ l \notin dirty
  BY <1>1, <1>2, <1>4 DEF WriteBack, Load, CleanLines
<1>5. CASE h = 0 /\ l \in dirty
  <2>1. \A d \in Cells : mem'[d] = IF Line(d) = l THEN cache[0][d] ELSE mem[d]
    BY <1>5 DEF WriteBack
  <2>2. \A d \in Cells : Line(d) = l => cache[0][d] # None
    BY <1>5 DEF TypeOK
  <2>3. dirty' = dirty \ {l}
    BY <1>5 DEF WriteBack
  <2> QED BY <1>1, <1>5, <2>1, <2>2, <2>3 DEF Load, CleanLines
<1> QED BY <1>3, <1>4, <1>5

(* While the allocator runs, no worker does, and none holds anything.       *)
LEMMA NoWorkerMeanwhile ==
    ASSUME WorkersAfter, apc # "done"
    PROVE  \A w \in Workers : wpc[w] = "off" /\ \A c \in Data : view[w][c] = None
BY DEF WorkersAfter

(* So the allocator may start and write; what a host has kept in its cache  *)
(* is of an earlier graph, and may only leave the cache.                    *)
LEMMA WorkersMeanwhile ==
    ASSUME TypeOK, WorkersAfter, \A w \in Workers : wpc[w] = "off",
           UNCHANGED <<wpc, view>>, gen' \in {gen, gen + 1},
           \A w \in Workers, c \in Cells : cache'[w][c] \in {None, cache[w][c]}
    PROVE  WorkersAfter'
<1>1. 1 .. gen \subseteq 1 .. gen'
  BY ConstantsAssumption DEF TypeOK
<1> SUFFICES ASSUME NEW w \in Workers
    PROVE  /\ wpc'[w] # "off" => apc' = "done"
           /\ w \in ColdHosts => /\ \A c \in Cells : cache'[w][c] # None =>
                                       wpc'[w] # "off" /\ cache'[w][c] = mem'[c]
                                 /\ \A c \in Data : view'[w][c] # None => view'[w][c] = gen'
           /\ \A c \in Data : cache'[w][c] # None => cache'[w][c] \in 1 .. gen'
           /\ \A c \in Data : view'[w][c] # None => wpc'[w] # "off" /\ view'[w][c] \in 1 .. gen'
  BY DEF WorkersAfter
<1>2. w \in ColdHosts => \A c \in Cells : cache[w][c] = None
  BY DEF WorkersAfter
<1>3. \A c \in Data : view[w][c] = None
  BY DEF WorkersAfter
<1>4. \A c \in Data : cache'[w][c] # None => cache'[w][c] \in 1 .. gen'
  BY <1>1, Sections DEF WorkersAfter
<1> QED BY <1>2, <1>3, <1>4

(* Once it has exited, the device holds the graph. *)
LEMMA DoneInDevice ==
    ASSUME ProcedureUse, ProcedureInv, apc = "done"
    PROVE  /\ \A c \in Data : mem[c] = gen
           /\ mem[Synch] = 1 /\ dirty = {} /\ gen \in 1 .. gen
<1>1. dirty = {} /\ \A c \in Cells : Load(0, c) = mem[c]
  BY DEF ProcedureInv, CacheSound, ProcedureUse, Load
<1>2. gen \in 1 .. gen
  BY ConstantsAssumption DEF ProcedureInv, TypeOK, Numbered
<1> QED BY <1>1, <1>2, LeftTable, Sections DEF ProcedureInv, WrittenThroughCache

(* What a running worker loads: on a host that started with a cold cache    *)
(* what is in the device, else at least a graph.                            *)
LEMMA WorkerSees ==
    ASSUME ProcedureUse, ProcedureInv, NEW w \in Workers, wpc[w] # "off", NEW c \in Cells
    PROVE  /\ w \in ColdHosts => /\ Load(w, c) = mem[c]
                                 /\ \A d \in Cells : Filled(w, c)[d] # None => Filled(w, c)[d] = mem[d]
           /\ c \in Data => Load(w, c) \in 1 .. gen
           /\ \A d \in Data : Filled(w, c)[d] # None => Filled(w, c)[d] \in 1 .. gen
<1>1. apc = "done" /\ WorkersAfter
  BY DEF ProcedureInv, WorkersAfter
<1>2. \A d \in Data : mem[d] \in 1 .. gen
  BY <1>1, DoneInDevice
<1>3. \A d \in Data : Load(w, d) \in 1 .. gen
  BY <1>1, <1>2 DEF WorkersAfter, Load
<1>4. \A d \in Cells : Filled(w, c)[d] = IF Line(d) = Line(c) THEN Load(w, d) ELSE cache[w][d]
  BY DEF Filled, ProcedureUse
<1>5. w \in ColdHosts => \A d \in Cells : /\ Load(w, d) = mem[d]
                                          /\ cache[w][d] # None => cache[w][d] = mem[d]
  BY <1>1 DEF WorkersAfter, Load
<1>6. \A d \in Data : cache[w][d] # None => cache[w][d] \in 1 .. gen
  BY <1>1 DEF WorkersAfter
<1> QED BY <1>3, <1>4, <1>5, <1>6, Sections

LEMMA ProcedureStep ==
    ASSUME ProcedureUse, ProcedureInv, [Next]_vars PROVE ProcedureInv'
<1> USE DEF allocVars, workerVars, regionVars
<1> Workers \subseteq Hosts /\ 0 \in Hosts /\ 0 \notin Workers /\ None \notin Content
    /\ TestMode = FALSE
  BY ConstantsAssumption DEF Hosts, None, Content, ProcedureUse
<1> DEFINE Goal == LoopInSection' /\ WrittenThroughCache' /\ CacheSound' /\ WorkersAfter'
<1> TypeOK /\ TypeOK' /\ Numbered'
  BY TypeStep, NumberedStep DEF ProcedureInv
<1> LoopInSection /\ WrittenThroughCache /\ CacheSound /\ WorkersAfter /\ CleanLines
  BY DEF ProcedureInv, CacheSound, CleanLines
<1> SUFFICES Goal
  BY DEF ProcedureInv
<1>a. ASSUME UNCHANGED <<mem, dirty, allocVars, mapped>>, cache'[0] = cache[0]
      PROVE  LoopInSection' /\ WrittenThroughCache' /\ CacheSound'
  <2>1. LoopInSection' /\ CacheSound'
    BY <1>a DEF LoopInSection, CacheSound, CellsOf, FlushedLines
  <2>2. \A c \in Cells : Load(0, c)' = Load(0, c)
    BY <1>a DEF Load
  <2>3. Left' = Left
    BY <1>a DEF Left
  <2> QED BY <1>a, <2>1, <2>2, <2>3, Sections DEF WrittenThroughCache
<1>1. ASSUME NEW zero \in Zeroing, AllocatorStart(zero) PROVE Goal
  <2>1. \A w \in Workers : wpc[w] = "off"
    BY <1>1 DEF AllocatorStart, MayAllocate, ProcedureUse
  <2>2. UNCHANGED <<mem, dirty, cache, mapped, wpc, view>>
    BY <1>1 DEF AllocatorStart, Map, Survives
  <2>3. apc' = "zero" \/ (apc' = "map" /\ todo' = {})
    BY <1>1 DEF AllocatorStart
  <2>4. Data \ Left' = {}
    BY <2>3, LeftTableNext, Sections
  <2>5. LoopInSection'
    BY <2>3 DEF LoopInSection
  <2>6. WrittenThroughCache' /\ CacheSound'
    BY <2>2, <2>3, <2>4 DEF WrittenThroughCache, CacheSound
  <2>7. WorkersAfter'
    BY <1>1, <2>1, <2>2, WorkersMeanwhile DEF AllocatorStart
  <2> QED BY <2>5, <2>6, <2>7
<1>11. CASE AllocatorMap
  <2>1. apc = "map" /\ apc' = "meta" /\ todo' = Metadata
        /\ UNCHANGED <<mem, dirty, cache, mapped, wpc, view>>
    BY <1>11 DEF AllocatorMap, Map, Survives
  <2>2. Data \ Left' = {}
    BY <2>1, LeftTableNext, Sections
  <2>3. LoopInSection'
    BY <2>1, PhaseTable, CellsOfNext DEF LoopInSection
  <2>4. WrittenThroughCache' /\ CacheSound'
    BY <2>1, <2>2 DEF WrittenThroughCache, CacheSound
  <2>5. WorkersAfter'
    BY <1>11, <2>1, NoWorkerMeanwhile, WorkersMeanwhile DEF AllocatorMap
  <2> QED BY <2>3, <2>4, <2>5
<1>2. ASSUME NEW c \in Cells, AllocatorWrite(c) PROVE Goal
  <2>1. apc # "done" /\ apc \in Phases /\ apc # "flush" /\ c \in todo
        /\ UNCHANGED <<mapped, gen, wpc, view>>
    BY <1>2 DEF AllocatorWrite, Writing, Phases, Eligible
  <2>2. CASE Faults(0, c)
    <3>1. UNCHANGED <<mem, cache, dirty>> /\ apc' = "killed"
      BY <1>2, <2>2 DEF AllocatorWrite
    <3>2. WorkersAfter'
      BY <2>1, <3>1, NoWorkerMeanwhile, WorkersMeanwhile
    <3> QED BY <2>1, <3>1, <3>2 DEF LoopInSection, WrittenThroughCache, CacheSound, Phases, Writing
  <2>3. CASE ~Faults(0, c)
    <3> DEFINE v == CASE apc = "zero" -> 0 [] apc = "synch" -> 1 [] OTHER -> gen
    <3>1. Store(c, v) /\ Progress(c)
      BY <1>2, <2>3 DEF AllocatorWrite
    <3>2. /\ apc = "synch" => v = 1
          /\ apc \notin {"zero", "synch"} => v = gen
          /\ v \in Content
      BY ConstantsAssumption DEF TypeOK, Content
    <3> HIDE DEF v
    <3>3. /\ \A d \in Cells : Load(0, d)' = IF d = c THEN v ELSE Load(0, d)
          /\ \A d \in Cells : Line(d) # Line(c) => cache'[0][d] = cache[0][d]
          /\ \A h \in Hosts \ {0} : cache'[h] = cache[h]
          /\ mem' = mem /\ dirty' = dirty \cup {Line(c)}
      BY <3>1, <3>2, StoreSeen
    <3>4. /\ LoopInSection'
          /\ Data \ Left' \subseteq (Data \ Left) \cup {c}
          /\ apc = "synch" => c = Synch
          /\ apc = "zero" => Data \ Left' = {}
          /\ apc' # "done"
          /\ apc' = "flush" => apc = "synch" /\ todo' = {l \in Lines : l < mapped[0]}
      BY <2>1, <3>1, LoopStep
    <3>5. ASSUME NEW d \in Data \ Left' PROVE Load(0, d)' = gen
      <4>1. apc # "zero"
        BY <3>4
      <4>2. CASE d = c
        BY <3>2, <3>3, <3>4, <4>1, <4>2, Sections
      <4>3. CASE d # c
        BY <2>1, <3>3, <3>4, <4>3, Sections DEF WrittenThroughCache
      <4> QED BY <4>2, <4>3
    <3>6. WrittenThroughCache'
      BY <2>1, <3>2, <3>3, <3>4, <3>5 DEF WrittenThroughCache
    <3>7. \A l \in dirty' : l \in Lines /\ l < mapped[0]
      <4>1. Line(c) < mapped[0] /\ Line(c) \in Lines
        <5>1. mapped[0] \in Nat
          BY MappingType DEF TypeOK, Hosts
        <5>2. ~(c >= mapped[0])
          BY <2>3 DEF Faults
        <5>3. c \in Nat /\ Line(c) \in Nat /\ Line(c) <= c /\ Line(c) \in Lines
          BY Sections
        <5> QED BY <5>1, <5>2, <5>3
      <4> QED BY <3>3, <4>1 DEF CacheSound, TypeOK
    <3>8. CacheSound'
      BY <2>1, <3>3, <3>4, <3>7 DEF CacheSound
    <3>9. WorkersAfter'
      BY <2>1, <3>3, NoWorkerMeanwhile, WorkersMeanwhile
    <3> QED BY <3>4, <3>6, <3>8, <3>9
  <2> QED BY <2>2, <2>3
<1>3. ASSUME NEW l \in Lines, AllocatorFlush(l) PROVE Goal
  <2>1. /\ apc = "flush" /\ l \in todo /\ Progress(l) /\ WriteBack(0, l)
        /\ UNCHANGED <<mapped, gen, wpc, view>>
    BY <1>3 DEF AllocatorFlush, Eligible
  <2>2. /\ \A d \in Cells : Load(0, d)' = Load(0, d)
        /\ CleanLines'
        /\ \A x \in Hosts, d \in Cells : cache'[x][d] \in {None, cache[x][d]}
        /\ dirty' = dirty \ {l}
    BY <2>1, WriteBackUnseen DEF WriteBack
  <2>3. LoopInSection' /\ apc' \in {"flush", "done"}
    BY <2>1, LoopStep, PhaseTable DEF Phases, Progress
  <2>4. WrittenThroughCache'
    BY <2>1, <2>2, <2>3, LeftTable, Sections DEF WrittenThroughCache, Phases
  <2>5. CacheSound'
    <3>1. (apc' = "flush" => dirty' \subseteq todo') /\ (apc' = "done" => dirty' = {})
      BY <2>1, <2>2, PhaseTable DEF CacheSound, Progress
    <3> QED BY <2>1, <2>2, <3>1 DEF CacheSound, CleanLines
  <2>6. WorkersAfter'
    BY <2>1, <2>2, NoWorkerMeanwhile, WorkersMeanwhile
  <2> QED BY <2>3, <2>4, <2>5, <2>6
<1>4. CASE AllocatorKilled
  <2>1. apc # "done" /\ apc' = "killed" /\ UNCHANGED <<mem, cache, dirty, mapped, gen, wpc, view>>
    BY <1>4 DEF AllocatorKilled, Phases, Writing
  <2>2. WorkersAfter'
    BY <2>1, NoWorkerMeanwhile, WorkersMeanwhile
  <2> QED BY <2>1, <2>2 DEF LoopInSection, WrittenThroughCache, CacheSound, Phases, Writing
<1>5. ASSUME NEW w \in Workers, WorkerStart(w) PROVE Goal
  <2>1. UNCHANGED <<mem, dirty, cache, allocVars, mapped, view>> /\ apc = "done" /\ wpc[w] = "off"
    BY <1>5 DEF WorkerStart, Map, Survives, MayStart, ProcedureUse
  <2>2. WorkersAfter'
    BY <1>5, <2>1 DEF WorkerStart, WorkersAfter, TypeOK
  <2> QED BY <1>a, <2>1, <2>2
<1>b. ASSUME NEW w \in Workers, Ended(w), mem' = mem, gen' = gen, apc' = apc
      PROVE  WorkersAfter' /\ cache'[0] = cache[0]
  <2>1. cache' = (IF w \in ColdHosts THEN [cache EXCEPT ![w] = Nothing] ELSE cache)
        /\ view' = [view EXCEPT ![w] = Nothing] /\ wpc' = [wpc EXCEPT ![w] = "off"]
    BY <1>b DEF Ended
  <2>2. \A c \in Cells : Nothing[c] = None
    BY DEF Nothing
  <2>3. \A x \in Workers : x # w => cache'[x] = cache[x] /\ view'[x] = view[x] /\ wpc'[x] = wpc[x]
    BY <2>1 DEF TypeOK
  <2>4. /\ IF w \in ColdHosts THEN cache'[w] = Nothing ELSE cache'[w] = cache[w]
        /\ view'[w] = Nothing /\ wpc'[w] = "off"
    BY <2>1 DEF TypeOK
  <2> QED BY <1>b, <2>1, <2>2, <2>3, <2>4, Sections DEF WorkersAfter, TypeOK
<1>6. ASSUME NEW w \in Workers, WorkerPoll(w) PROVE Goal
  <2>1. UNCHANGED <<mem, dirty, allocVars, mapped>> /\ wpc[w] # "off" /\ apc = "done"
    BY <1>6 DEF WorkerPoll, WorkersAfter
  <2>2. CASE ~Ended(w)
    <3>1. view' = view /\ cache' \in {cache, [cache EXCEPT ![w] = Filled(w, Synch)]}
      BY <1>6, <2>2 DEF WorkerPoll
    <3>2. \A x \in Workers : wpc[x] # "off" => wpc'[x] # "off"
      BY <1>6, <2>2 DEF WorkerPoll, TypeOK
    <3>3. cache'[0] = cache[0] /\ \A x \in Workers : x # w => cache'[x] = cache[x]
      BY <3>1 DEF TypeOK
    <3>4. cache'[w] \in {cache[w], Filled(w, Synch)}
      BY <3>1 DEF TypeOK
    <3>5. w \in ColdHosts => \A d \in Cells : cache'[w][d] # None => cache'[w][d] = mem[d]
      BY <2>1, <3>4, WorkerSees, Sections DEF WorkersAfter
    <3>6. \A d \in Data : cache'[w][d] # None => cache'[w][d] \in 1 .. gen
      BY <2>1, <3>4, WorkerSees, Sections DEF WorkersAfter
    <3> QED BY <1>a, <2>1, <3>1, <3>2, <3>3, <3>5, <3>6 DEF WorkersAfter
  <2> QED BY <1>a, <1>b, <2>1, <2>2
<1>7. ASSUME NEW w \in Workers, NEW c \in Cells, WorkerRead(w, c) PROVE Goal
  <2>1. UNCHANGED <<mem, dirty, allocVars, mapped>> /\ wpc[w] # "off" /\ apc = "done"
    BY <1>7 DEF WorkerRead, WorkersAfter, Reading
  <2>2. CASE Faults(w, c)
    BY <1>7, <1>a, <1>b, <2>1, <2>2 DEF WorkerRead
  <2>3. CASE ~Faults(w, c)
    <3>1. c \in Data
      BY <1>7, WantedData DEF WorkerRead
    <3>2. Load(w, c) \in 1 .. gen /\ (w \in ColdHosts => Load(w, c) = gen)
      BY <2>1, <3>1, WorkerSees, DoneInDevice
    <3>3. view' = [view EXCEPT ![w][c] = Load(w, c)] /\ cache' = [cache EXCEPT ![w] = Filled(w, c)]
      BY <1>7, <2>3 DEF WorkerRead
    <3>4. \A x \in Workers : wpc[x] # "off" => wpc'[x] # "off"
      BY <1>7, <2>3 DEF WorkerRead, TypeOK
    <3>5. \A x \in Workers, d \in Data :
             view'[x][d] = IF x = w /\ d = c THEN Load(w, c) ELSE view[x][d]
      BY <3>3, Sections DEF TypeOK
    <3>6. cache'[0] = cache[0] /\ (\A x \in Workers : x # w => cache'[x] = cache[x])
          /\ cache'[w] = Filled(w, c)
      BY <3>3 DEF TypeOK
    <3>7. /\ w \in ColdHosts => \A d \in Cells : cache'[w][d] # None => cache'[w][d] = mem[d]
          /\ \A d \in Data : cache'[w][d] # None => cache'[w][d] \in 1 .. gen
      BY <2>1, <3>6, WorkerSees
    <3>8. WorkersAfter'
      BY <2>1, <3>2, <3>4, <3>5, <3>6, <3>7 DEF WorkersAfter
    <3> QED BY <1>a, <2>1, <3>6, <3>8
  <2> QED BY <2>2, <2>3
<1>8. ASSUME NEW w \in Workers, WorkerExit(w) PROVE Goal
  BY <1>8, <1>a, <1>b DEF WorkerExit
<1>9. ASSUME NEW h \in Hosts, NEW l \in Lines, Evict(h, l) PROVE Goal
  <2>1. WriteBack(h, l) /\ UNCHANGED <<mapped, allocVars, workerVars>>
    BY <1>9 DEF Evict
  <2>2. /\ \A d \in Cells : Load(0, d)' = Load(0, d)
        /\ CleanLines'
        /\ \A x \in Hosts, d \in Cells : cache'[x][d] \in {None, cache[x][d]}
        /\ h # 0 \/ dirty = {} => mem' = mem
        /\ dirty' \subseteq dirty
    BY <2>1, WriteBackUnseen DEF WriteBack
  <2>3. LoopInSection' /\ Left' = Left
    BY <2>1 DEF LoopInSection, CellsOf, FlushedLines, Left
  <2>4. WrittenThroughCache'
    BY <2>1, <2>2, <2>3, Sections DEF WrittenThroughCache
  <2>5. CacheSound'
    BY <2>1, <2>2 DEF CacheSound, CleanLines
  <2>6. CASE apc = "done"
    <3>1. mem' = mem
      BY <2>2, <2>6 DEF CacheSound
    <3>2. /\ UNCHANGED <<apc, gen, wpc, view>>
          /\ \A w \in Workers, d \in Cells : cache'[w][d] # None => cache'[w][d] = cache[w][d]
      BY <2>1, <2>2
    <3>3. WorkersAfter'
      BY <3>1, <3>2, Sections DEF WorkersAfter
    <3> QED BY <2>3, <2>4, <2>5, <3>3
  <2>7. CASE apc # "done"
    <3>1. WorkersAfter'
      BY <2>1, <2>2, <2>7, NoWorkerMeanwhile, WorkersMeanwhile
    <3> QED BY <2>3, <2>4, <2>5, <3>1
  <2> QED BY <2>6, <2>7
<1>10. CASE UNCHANGED vars
  BY <1>10, <1>a DEF vars, WorkersAfter
<1> QED BY <1>1, <1>2, <1>3, <1>4, <1>5, <1>6, <1>7, <1>8, <1>9, <1>10, <1>11 DEF Next

LEMMA ProcedureInit == Init => ProcedureInv
<1> SUFFICES ASSUME Init PROVE ProcedureInv
  OBVIOUS
<1>1. TypeOK /\ Workers \subseteq Hosts /\ 0 \in Hosts
  BY TypeInit DEF Hosts
<1>2. LoopInSection /\ WrittenThroughCache /\ CacheSound
  BY <1>1 DEF Init, LoopInSection, WrittenThroughCache, CacheSound, Phases, Writing
<1>3. WorkersAfter
  BY <1>1, Sections DEF Init, WorkersAfter
<1>4. Numbered
  BY DEF Init, Numbered
<1> QED BY <1>1, <1>2, <1>3, <1>4 DEF ProcedureInv

(* Used the way the README shows, the allocator first and the workers after *)
(* it has exited, a host for each with a cache of its own: what the         *)
(* allocator leaves in the device is all of its graph; what a worker reads  *)
(* is of it where the cache was cold, and never of anything but a graph     *)
(* where the host has kept what it cached in an earlier run; whatever the   *)
(* caches write back meanwhile, whichever process is killed, whatever -S    *)
(* each host maps, with or without -l, and whatever became of the polling   *)
(* loop.                                                                    *)
THEOREM ProcedureUseSafe ==
    ASSUME ProcedureUse
    PROVE  Spec => [](NoTornGraph /\ DoneMeansFlushed)
<1>1. Init => ProcedureInv
  BY ProcedureInit
<1>2. ProcedureInv /\ [Next]_vars => ProcedureInv'
  BY ProcedureStep
<1>3. ProcedureInv => NoTornGraph /\ DoneMeansFlushed
  BY DoneInDevice DEF ProcedureInv, ProcedureUse, WorkersAfter, NoTornGraph, DoneMeansFlushed,
         WholeGraph, OfGraph, FreshHosts
<1> QED BY <1>1, <1>2, <1>3, PTL DEF Spec

(* In either use no worker on a host that sees the region as it is holds a  *)
(* piece of another graph than the one the allocator wrote last, whatever   *)
(* the workers read and in what order.                                      *)
THEOREM NeverTorn ==
    ASSUME CoherentUse \/ ProcedureUse
    PROVE  Spec => []NoTornGraph
<1>1. CASE CoherentUse
  BY <1>1, CoherentUseSafe, PTL
<1>2. CASE ProcedureUse
  BY <1>2, ProcedureUseSafe, PTL
<1> QED BY <1>1, <1>2
-----------------------------------------------------------------------------
(* The refinement: what the workers see of SharedGraph is a behaviour of    *)
(* GraphPublication.  Here are the two variables it is mapped to.           *)
Pub == IF Published THEN gen ELSE 0
Got == [w \in FreshHosts |->
           IF ~HasGraph(w) THEN 0
           ELSE IF \A c \in Metadata \cup Sizes \cup Rows : OfGraph(c, view[w][c])
           THEN gen ELSE None]

LEMMA FreshWorkers == FreshHosts \subseteq Workers
BY ConstantsAssumption DEF FreshHosts

(* Where nothing is torn, a worker holds the graph or nothing of it. *)
LEMMA GotValue ==
    NoTornGraph => Got = [w \in FreshHosts |-> IF HasGraph(w) THEN gen ELSE 0]
BY Sections, FreshWorkers DEF NoTornGraph, Got, HasGraph, Unread

LEMMA GotValueNext ==
    NoTornGraph' => Got' = [w \in FreshHosts |-> IF HasGraph(w)' THEN gen' ELSE 0]
BY Sections, FreshWorkers DEF NoTornGraph, OfGraph, Got, HasGraph, Unread

(* A worker without any of the graph does not have it. *)
LEMMA WithoutGraph ==
    ASSUME NEW w \in Workers, \A c \in Data : view[w][c] = None PROVE ~HasGraph(w)
BY Sections, 1 \in Metadata DEF HasGraph, Unread, Metadata

(* When no worker has read anything, the allocator may begin a graph, or    *)
(* publish the one it has begun, or do what nobody sees.                    *)
LEMMA AllocatorRefines ==
    ASSUME TypeOK, TypeOK', NoTornGraph, view' = view,
           \A w \in Workers, c \in Data : view[w][c] = None,
           \/ gen' = gen + 1 /\ ~Published'
           \/ gen' = gen /\ gen > 0 /\ (Published => Published')
           \/ gen' = gen /\ (Published' <=> Published)
    PROVE  [Publication!Next]_<<gen, Pub, Got>>
<1>1. Got = [w \in FreshHosts |-> 0]
  BY WithoutGraph, FreshWorkers DEF Got
<1>2. \A w \in Workers : HasGraph(w)' = HasGraph(w)
  BY DEF HasGraph, Unread
<1>3. Got' = [w \in FreshHosts |-> 0]
  BY <1>2, WithoutGraph, FreshWorkers DEF Got
<1> gen \in Nat /\ gen' \in Nat /\ gen' <= MaxGen /\ MaxGen \in Nat
  BY ConstantsAssumption DEF TypeOK
<1>4. CASE gen' = gen + 1 /\ ~Published'
  <2>1. Publication!Begin
    <3>1. gen < MaxGen /\ Pub' = 0
      BY <1>4 DEF Pub
    <3>2. (\A w \in FreshHosts : Got[w] = 0) /\ Got' = Got
      BY <1>1, <1>3
    <3> QED BY <1>4, <3>1, <3>2 DEF Publication!Begin, Pub, Got
  <2> QED BY <2>1 DEF Publication!Next
<1>5. CASE gen' = gen /\ gen > 0 /\ ~Published /\ Published'
  <2>1. Publication!Publish
    BY <1>1, <1>3, <1>5 DEF Publication!Publish, Pub, Got
  <2> QED BY <2>1 DEF Publication!Next
<1>6. CASE gen' = gen /\ (Published' <=> Published)
  BY <1>1, <1>3, <1>6 DEF Pub
<1> QED BY <1>4, <1>5, <1>6

(* When a graph is published, a worker may read a cell or end. *)
LEMMA WorkerRefines ==
    ASSUME TypeOK, TypeOK', NoTornGraph, NoTornGraph', gen' = gen, Published' <=> Published,
           NEW w \in Workers,
           \A x \in Workers \ {w} : view'[x] = view[x],
           \/ view'[w] = view[w]
           \/ \A c \in Data : view'[w][c] = None
           \/ Published /\ \A c \in Data : view[w][c] # None => view'[w][c] # None,
           Published \/ HasGraph(w) => gen > 0
    PROVE  [Publication!Next]_<<gen, Pub, Got>>
<1> gen \in Nat
  BY ConstantsAssumption DEF TypeOK
<1>1. \A x \in Workers \ {w} : HasGraph(x)' = HasGraph(x)
  BY DEF HasGraph, Unread
<1>2. Got' = [Got EXCEPT ![w] = IF HasGraph(w)' THEN gen ELSE 0]
  BY <1>1, GotValue, GotValueNext, FreshWorkers
<1>3. w \in FreshHosts => Got[w] = IF HasGraph(w) THEN gen ELSE 0
  BY GotValue
<1>4. Pub' = Pub
  BY DEF Pub
<1>8. CASE w \notin FreshHosts
  <2>1. Got' = Got
    BY <1>1, <1>8, GotValue, GotValueNext, FreshWorkers
  <2> QED BY <1>4, <2>1
<1>5. CASE HasGraph(w)' <=> HasGraph(w)
  <2>1. Got' = Got
    BY <1>1, <1>5, GotValue, GotValueNext, FreshWorkers
  <2> QED BY <1>4, <2>1
<1>6. CASE w \in FreshHosts /\ HasGraph(w) /\ ~HasGraph(w)'
  <2>1. Publication!Release(w)
    BY <1>2, <1>3, <1>4, <1>6 DEF Publication!Release, Pub, Got
  <2> QED BY <1>6, <2>1 DEF Publication!Next
<1>7. CASE w \in FreshHosts /\ ~HasGraph(w) /\ HasGraph(w)'
  <2>1. view'[w] # view[w]
    BY <1>7 DEF HasGraph, Unread
  <2>2. ~ \A c \in Data : view'[w][c] = None
    BY <1>7, Sections, 1 \in Metadata DEF HasGraph, Unread, Metadata
  <2>3. Published
    BY <2>1, <2>2
  <2>4. Publication!Fetch(w)
    BY <1>2, <1>3, <1>4, <1>7, <2>3 DEF Publication!Fetch, Pub, Got
  <2> QED BY <1>7, <2>4 DEF Publication!Next
<1> QED BY <1>5, <1>6, <1>7, <1>8
-----------------------------------------------------------------------------
(* What a step does to a worker's view, whatever the regime. *)
LEMMA ViewStep ==
    ASSUME TypeOK, NEW w \in Workers,
           \/ WorkerStart(w) \/ WorkerPoll(w) \/ WorkerExit(w)
           \/ \E c \in Cells : WorkerRead(w, c)
    PROVE  /\ \A x \in Workers \ {w} : view'[x] = view[x]
           /\ \/ view'[w] = view[w]
              \/ \A c \in Data : view'[w][c] = None
              \/ wpc[w] \in Reading /\ \A c \in Data : view[w][c] # None => view'[w][c] # None
           /\ gen' = gen /\ apc' = apc
<1> USE DEF allocVars
<1> None \notin Content
  BY ConstantsAssumption DEF None, Content
<1>1. ASSUME Ended(w)
      PROVE  /\ \A x \in Workers \ {w} : view'[x] = view[x]
             /\ \A c \in Data : view'[w][c] = None
  <2>1. view' = [view EXCEPT ![w] = Nothing] /\ \A c \in Data : Nothing[c] = None
    BY <1>1, Sections DEF Ended, Nothing
  <2> QED BY <2>1 DEF TypeOK
<1>2. CASE WorkerStart(w)
  BY <1>2 DEF WorkerStart
<1>3. CASE WorkerPoll(w)
  BY <1>1, <1>3 DEF WorkerPoll
<1>4. CASE WorkerExit(w)
  BY <1>1, <1>4 DEF WorkerExit
<1>5. ASSUME NEW c \in Cells, WorkerRead(w, c), ~Faults(w, c)
      PROVE  /\ \A x \in Workers \ {w} : view'[x] = view[x]
             /\ \A d \in Data : view[w][d] # None => view'[w][d] # None
             /\ wpc[w] \in Reading
  <2>1. view' = [view EXCEPT ![w] = [view[w] EXCEPT ![c] = Load(w, c)]] /\ wpc[w] \in Reading
    BY <1>5 DEF WorkerRead
  <2>2. w \in Hosts
    BY DEF Hosts
  <2>3. Load(w, c) # None
    BY <2>2, LoadType
  <2> QED BY <2>1, <2>3, Sections DEF TypeOK
<1>6. ASSUME NEW c \in Cells, WorkerRead(w, c), Faults(w, c) PROVE Ended(w) /\ gen' = gen /\ apc' = apc
  BY <1>6 DEF WorkerRead
<1>7. ASSUME NEW c \in Cells, WorkerRead(w, c) PROVE gen' = gen /\ apc' = apc
  BY <1>7 DEF WorkerRead
<1> QED BY <1>1, <1>2, <1>3, <1>4, <1>5, <1>6, <1>7

(* Every step in either regime is one of the abstract steps, or none.       *)
LEMMA CoherentRefines ==
    ASSUME CoherentUse, CoherentInv, CoherentInv', Numbered, [Next]_vars
    PROVE  [Publication!Next]_<<gen, Pub, Got>>
<1> USE DEF allocVars, workerVars, regionVars
<1> 0 \in Hosts /\ Workers \subseteq Hosts
  BY DEF Hosts
<1> TypeOK /\ TypeOK' /\ dirty = {}
  BY DEF CoherentInv
<1> LoopInSection /\ WrittenInOrder /\ WrittenInOrder' /\ ReadersAfterSynch
  BY DEF CoherentInv
<1> NoTornGraph /\ NoTornGraph'
  BY DEF CoherentInv, ReadersAfterSynch, NoTornGraph
<1> Kept' = Kept
  BY KeptNext
<1> (Published <=> mem[Synch] = 1) /\ (Published' <=> mem'[Synch] = 1)
  BY DEF Published, CoherentUse
<1>a. Published => gen > 0
  BY DEF WrittenInOrder, Numbered
<1>b. \A w \in Workers : HasGraph(w) => Published
  BY NoReaderBeforeSynch, WithoutGraph
<1>c. ASSUME mem' = mem, gen' = gen, view' = view PROVE [Publication!Next]_<<gen, Pub, Got>>
  <2>1. Pub' = Pub /\ Got' = Got
    BY <1>c DEF Pub, Got, OfGraph, HasGraph, Unread
  <2> QED BY <1>c, <2>1
<1>1. ASSUME NEW zero \in Zeroing, AllocatorStart(zero) PROVE [Publication!Next]_<<gen, Pub, Got>>
  <2>1. mem[Synch] = 0 /\ gen' = gen + 1 /\ view' = view
    BY <1>1 DEF AllocatorStart, MayAllocate, CoherentUse
  <2>2. mem'[Synch] = mem[Synch]
    BY <1>1, AllocatorMapsSynch DEF AllocatorStart
  <2> QED BY <2>1, <2>2, AllocatorRefines, NoReaderBeforeSynch
<1>8. CASE AllocatorMap
  <2>1. ~Published /\ gen' = gen /\ view' = view
    BY <1>8 DEF AllocatorMap, WrittenInOrder
  <2>2. mem'[Synch] = mem[Synch]
    BY <1>8, AllocatorMapsSynch DEF AllocatorMap
  <2> QED BY <2>1, <2>2, AllocatorRefines, NoReaderBeforeSynch
<1>2. ASSUME NEW c \in Cells, AllocatorWrite(c) PROVE [Publication!Next]_<<gen, Pub, Got>>
  <2>1. ~Published /\ apc # "idle" /\ gen' = gen /\ view' = view
    BY <1>2 DEF AllocatorWrite, WrittenInOrder, Writing
  <2>2. gen > 0
    BY <2>1 DEF Numbered
  <2> QED BY <2>1, <2>2, AllocatorRefines, NoReaderBeforeSynch
<1>3. ASSUME NEW l \in Lines, AllocatorFlush(l) PROVE [Publication!Next]_<<gen, Pub, Got>>
  <2>1. mem' = mem /\ gen' = gen /\ view' = view
    BY <1>3 DEF AllocatorFlush, WriteBack
  <2> QED BY <1>c, <2>1
<1>4. CASE AllocatorKilled
  BY <1>4, <1>c DEF AllocatorKilled
<1>5. ASSUME NEW w \in Workers,
             \/ WorkerStart(w) \/ WorkerPoll(w) \/ WorkerExit(w)
             \/ \E c \in Cells : WorkerRead(w, c)
      PROVE  [Publication!Next]_<<gen, Pub, Got>>
  <2>1. mem'[Synch] = mem[Synch]
    BY <1>5, CoherentMap DEF WorkerStart, WorkerPoll, WorkerExit, WorkerRead
  <2>2. wpc[w] \in Reading => Published
    BY DEF ReadersAfterSynch
  <2> QED BY <1>5, <1>a, <1>b, <2>1, <2>2, ViewStep, WorkerRefines
<1>6. ASSUME NEW h \in Hosts, NEW l \in Lines, Evict(h, l) PROVE [Publication!Next]_<<gen, Pub, Got>>
  BY <1>6, <1>c DEF Evict, WriteBack
<1>7. CASE UNCHANGED vars
  BY <1>7, <1>c DEF vars
<1> QED BY <1>1, <1>2, <1>3, <1>4, <1>5, <1>6, <1>7, <1>8 DEF Next

LEMMA ProcedureRefines ==
    ASSUME ProcedureUse, ProcedureInv, ProcedureInv', Numbered, [Next]_vars
    PROVE  [Publication!Next]_<<gen, Pub, Got>>
<1> USE DEF allocVars, workerVars, regionVars
<1> TypeOK /\ TypeOK' /\ LoopInSection /\ WorkersAfter
  BY DEF ProcedureInv
<1> Kept' = Kept
  BY KeptNext
<1> NoTornGraph /\ NoTornGraph'
  BY DEF ProcedureInv, ProcedureUse, WorkersAfter, NoTornGraph, OfGraph, FreshHosts
<1> (Published <=> apc = "done") /\ (Published' <=> apc' = "done")
  BY DEF Published, ProcedureUse
<1>a. Published => gen > 0
  BY DEF Numbered
<1>b. \A w \in Workers : HasGraph(w) => Published
  BY NoWorkerMeanwhile, WithoutGraph
<1>c. ASSUME UNCHANGED <<apc, gen, view>> PROVE [Publication!Next]_<<gen, Pub, Got>>
  <2>1. Got' = Got
    BY <1>c DEF Got, OfGraph, HasGraph, Unread
  <2>2. Pub' = Pub
    BY <1>c DEF Pub
  <2> QED BY <1>c, <2>1, <2>2
<1>1. ASSUME NEW zero \in Zeroing, AllocatorStart(zero) PROVE [Publication!Next]_<<gen, Pub, Got>>
  <2>1. gen' = gen + 1 /\ view' = view /\ apc' # "done"
    BY <1>1 DEF AllocatorStart
  <2>2. \A w \in Workers : wpc[w] = "off"
    BY <1>1 DEF AllocatorStart, MayAllocate, ProcedureUse
  <2>3. \A w \in Workers, c \in Data : view[w][c] = None
    BY <2>2 DEF WorkersAfter
  <2> QED BY <2>1, <2>3, AllocatorRefines
<1>d. ASSUME apc \in Phases, gen' = gen, view' = view PROVE [Publication!Next]_<<gen, Pub, Got>>
  <2>1. ~Published /\ gen > 0
    BY <1>d DEF Phases, Writing, Numbered
  <2> QED BY <1>d, <2>1, AllocatorRefines, NoWorkerMeanwhile
<1>2. ASSUME NEW c \in Cells, AllocatorWrite(c) PROVE [Publication!Next]_<<gen, Pub, Got>>
  BY <1>2, <1>d DEF AllocatorWrite, Phases
<1>3. ASSUME NEW l \in Lines, AllocatorFlush(l) PROVE [Publication!Next]_<<gen, Pub, Got>>
  BY <1>3, <1>d DEF AllocatorFlush, Phases
<1>4. CASE AllocatorKilled
  BY <1>4, <1>d DEF AllocatorKilled
<1>8. CASE AllocatorMap
  BY <1>8, <1>d DEF AllocatorMap, Phases
<1>5. ASSUME NEW w \in Workers,
             \/ WorkerStart(w) \/ WorkerPoll(w) \/ WorkerExit(w)
             \/ \E c \in Cells : WorkerRead(w, c)
      PROVE  [Publication!Next]_<<gen, Pub, Got>>
  <2>1. wpc[w] \in Reading => Published
    BY DEF WorkersAfter, Reading
  <2> QED BY <1>5, <1>a, <1>b, <2>1, ViewStep, WorkerRefines
<1>6. ASSUME NEW h \in Hosts, NEW l \in Lines, Evict(h, l) PROVE [Publication!Next]_<<gen, Pub, Got>>
  BY <1>6, <1>c DEF Evict
<1>7. CASE UNCHANGED vars
  BY <1>7, <1>c DEF vars
<1> QED BY <1>1, <1>2, <1>3, <1>4, <1>5, <1>6, <1>7, <1>8 DEF Next

LEMMA AbstractInit ==
    ASSUME Init, TypeOK, Regime \in {"one_publication", "workers_after"}
    PROVE  Publication!Init /\ Numbered
<1>1. ~Published
  BY Sections DEF Init, Published
<1>2. \A w \in Workers : ~HasGraph(w)
  BY Sections, WithoutGraph DEF Init
<1>3. Pub = 0 /\ Got = [w \in FreshHosts |-> 0] /\ gen = 0 /\ Numbered
  BY <1>1, <1>2, FreshWorkers DEF Pub, Got, Init, Numbered
<1> QED BY <1>3 DEF Publication!Init, Pub, Got

(* In either use the many stores, flushes and loads look to the workers on  *)
(* hosts that see the region as it is like one publication: a graph appears *)
(* as a whole, is fetched as a whole, and is replaced only when none of     *)
(* these workers holds it.                                                  *)
THEOREM PublicationImplemented ==
    ASSUME CoherentUse \/ ProcedureUse
    PROVE  Spec => PublishesAtomically
<1>1. CASE CoherentUse
  <2>1. Init => CoherentInv /\ Numbered /\ Publication!Init
    BY <1>1, CoherentInit, AbstractInit DEF CoherentInv, CoherentUse
  <2>2. CoherentInv /\ Numbered /\ [Next]_vars => CoherentInv' /\ Numbered'
    BY <1>1, CoherentStep, NumberedStep DEF CoherentInv
  <2>3. CoherentInv /\ CoherentInv' /\ Numbered /\ [Next]_vars => [Publication!Next]_<<gen, Pub, Got>>
    BY <1>1, CoherentRefines
  <2>4. [Publication!Next]_<<gen, Pub, Got>> => [Publication!Next]_(Publication!vars)
    BY DEF Publication!vars, Pub, Got
  <2> QED BY <2>1, <2>2, <2>3, <2>4, PTL DEF Spec, PublishesAtomically, Publication!Spec
<1>2. CASE ProcedureUse
  <2>1. Init => ProcedureInv /\ Numbered /\ Publication!Init
    BY <1>2, ProcedureInit, AbstractInit DEF ProcedureInv, ProcedureUse
  <2>2. ProcedureInv /\ Numbered /\ [Next]_vars => ProcedureInv' /\ Numbered'
    BY <1>2, ProcedureStep, NumberedStep DEF ProcedureInv
  <2>3. ProcedureInv /\ ProcedureInv' /\ Numbered /\ [Next]_vars => [Publication!Next]_<<gen, Pub, Got>>
    BY <1>2, ProcedureRefines
  <2>4. [Publication!Next]_<<gen, Pub, Got>> => [Publication!Next]_(Publication!vars)
    BY DEF Publication!vars, Pub, Got
  <2> QED BY <2>1, <2>2, <2>3, <2>4, PTL DEF Spec, PublishesAtomically, Publication!Spec
<1> QED BY <1>1, <1>2
=============================================================================
