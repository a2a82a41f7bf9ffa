--------------------------- MODULE MCForcedStream ---------------------------
(***************************************************************************)
(* The three rollouts of a prompt in an engine of two rows.                *)
(***************************************************************************)
EXTENDS ForcedStream

MCPrompts == {7}
=============================================================================
