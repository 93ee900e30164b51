---------------------------- MODULE SlidingQueue ----------------------------
(***************************************************************************)
(* SlidingQueue and QueueBuffer (sliding_queue.h): an array of num_nodes   *)
(* cells that only grows, a window on it that is read, and a buffer per    *)
(* thread that is appended to it.                                          *)
(***************************************************************************)
EXTENDS Integers, Sequences, FiniteSets

CONSTANTS
    N,           \* the number of nodes, and of cells
    Threads,
    BufferSize   \* of QueueBuffer, 16384 in the code

Nodes == 0 .. N - 1

ASSUME QueueAssumption == N \in Nat \ {0} /\ BufferSize \in Nat \ {0}

VARIABLES queue, sharedIn, outStart, outEnd,   \* the queue and its window
          lqueue                               \* the buffer of each thread

queueVars == <<queue, sharedIn, outStart, outEnd>>

None == -1

(* The queue after reset, a push_back of n and slide_window. *)
Queued(n) == [i \in Nodes |-> IF i = 0 THEN n ELSE None]

Window == outStart .. outEnd - 1

SlideWindow == outStart' = outEnd /\ outEnd' = sharedIn

(* flush: a fetch_and_add makes room for the buffer, which is copied there. *)
Flush(t) ==
    /\ sharedIn' = sharedIn + Len(lqueue[t])
    /\ queue' = [i \in Nodes |-> IF i \in sharedIn .. sharedIn' - 1
                                 THEN lqueue[t][i - sharedIn + 1] ELSE queue[i]]

(* push_back, of a full buffer after a flush. *)
PushBack(t, n) ==
    IF Len(lqueue[t]) = BufferSize
    THEN Flush(t) /\ lqueue' = [lqueue EXCEPT ![t] = <<n>>]
    ELSE lqueue' = [lqueue EXCEPT ![t] = Append(@, n)] /\ UNCHANGED <<queue, sharedIn>>

QueueTypeOK ==
    /\ queue \in [Nodes -> Nodes \cup {None}]
    /\ sharedIn \in 0 .. N /\ outEnd \in 0 .. sharedIn /\ outStart \in 0 .. outEnd
    /\ lqueue \in [Threads -> Seq(Nodes)] /\ \A t \in Threads : Len(lqueue[t]) <= BufferSize
=============================================================================
