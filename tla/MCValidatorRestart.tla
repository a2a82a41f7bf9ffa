------------------------- MODULE MCValidatorRestart -------------------------
(***************************************************************************)
(* Three prompts and two miners, over four windows and two restarts.         *)
(***************************************************************************)
EXTENDS ValidatorRestart

CONSTANTS h1, h2

MCHotkeys == {h1, h2}
=============================================================================
