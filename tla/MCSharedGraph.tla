--------------------------- MODULE MCSharedGraph ---------------------------
(***************************************************************************)
(* Instances of SharedGraph for TLC.  One line of neighs and of sizes and  *)
(* two of rows make a region of 8 cells; the rows are the loop whose order *)
(* is free on both sides.                                                  *)
(***************************************************************************)
EXTENDS SharedGraph

OneWorker == {1}
TwoWorkers == {1, 2}

RegionEnd == 4 + NeighCells + SizeCells + RowCells
JustEnough == {RegionEnd}
OneShort == {RegionEnd - 1, RegionEnd}
=============================================================================
