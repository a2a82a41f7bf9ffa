----------------------- MODULE MCCheckpointLifecycle -----------------------
(***************************************************************************)
(* Two miners, either of whom fills a batch.                               *)
(***************************************************************************)
EXTENDS CheckpointLifecycle

CONSTANTS m1, m2

MCMiners == {m1, m2}
=============================================================================
