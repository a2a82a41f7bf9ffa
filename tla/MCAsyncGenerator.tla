-------------------------- MODULE MCAsyncGenerator --------------------------
(***************************************************************************)
(* Two environments of two prompts, which share their numbers, with equal  *)
(* shares; with a prompt range three requests in flight, so that one       *)
(* environment may have two, and two without; a pool of one entry; a       *)
(* second window that takes one prompt out of the range.                   *)
(***************************************************************************)
EXTENDS AsyncGenerator

CONSTANTS math, code, p1, p2

MCPrompts == {p1, p2}
MCEnvs == <<math, code>>
MCTargets == [e \in {math, code} |-> 4]
MCModes ==
  {[armed |-> TRUE, drop |-> TRUE, target_active |-> 3],
   [armed |-> FALSE, drop |-> FALSE, target_active |-> 2]}
MCSlice == [w \in 0..MaxWindow |-> IF w = 1 THEN {p2} ELSE MCPrompts]
MCCooldown == [w \in 0..MaxWindow |-> {}]
=============================================================================
