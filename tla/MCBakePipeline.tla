--------------------------- MODULE MCBakePipeline ---------------------------
(***************************************************************************)
(* Three prompts in two chunks: the second chunk is prefetched while the   *)
(* first is graded; two windows, two checkpoints, two attempts to build.   *)
(***************************************************************************)
EXTENDS BakePipeline

CONSTANTS p1, p2, p3

MCPrompts == {p1, p2, p3}
=============================================================================
