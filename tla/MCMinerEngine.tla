---------------------------- MODULE MCMinerEngine ----------------------------
(***************************************************************************)
(* Two prompts, one of which is in cooldown in the second of two windows,  *)
(* two checkpoints, and two submissions per window.                        *)
(***************************************************************************)
EXTENDS MinerEngine

CONSTANTS p1, p2

MCPrompts == {p1, p2}
MCCooldowns == <<{{}}, {{p1}}>>
=============================================================================
