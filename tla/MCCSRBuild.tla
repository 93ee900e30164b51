----------------------------- MODULE MCCSRBuild -----------------------------
(***************************************************************************)
(* Small edge lists with what the generators produce: repeated edges in    *)
(* both directions, self-loops, nodes without an edge.  Blocks of two      *)
(* nodes make full, short and several blocks; a radix of five makes sizes  *)
(* that need both halves of a 64-bit value.                                *)
(***************************************************************************)
EXTENDS CSRBuild

SmallEdgeLists ==
    { <<>>,
      << <<1, 1>> >>,
      << <<0, 2>>, <<2, 0>>, <<1, 1>> >>,
      << <<2, 1>>, <<0, 1>>, <<2, 1>> >>,
      << <<0, 4>>, <<4, 3>>, <<0, 3>> >>,
      << <<0, 1>>, <<1, 2>>, <<2, 3>>, <<1, 0>> >> }

(* Two edges between two nodes, as -g 1 -k 1 gives. *)
SmallGenerated == {<<1, 1>>}
=============================================================================
