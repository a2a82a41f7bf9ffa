----------------------------- MODULE PromptPick -----------------------------
(***************************************************************************)
(* The slice of an environment's prompts that a window admits, and the     *)
(* prompt that the miner draws from it.  Prompts are 0..(n - 1), a slice   *)
(* is the pair of its first prompt and of the one after its last.          *)
(***************************************************************************)
EXTENDS Integers, FiniteSets

\* seed stands for the hash of the environment's name and the randomness.
window_prompt_range(seed, universe_n, size) ==
  IF universe_n <= size THEN <<0, universe_n>>
  ELSE LET lo == seed % (universe_n - size) IN <<lo, lo + size>>

\* No slice before the window from which it is enforced, nor before the
\* randomness is known; NO_RANGE is None.
NO_RANGE == <<>>
_active_prompt_range(armed, seed, universe_n, size) ==
  IF armed THEN window_prompt_range(seed, universe_n, size) ELSE NO_RANGE

Slice(prompt_range, n) ==
  IF prompt_range = NO_RANGE THEN 0..(n - 1)
  ELSE {p \in 0..(n - 1) : prompt_range[1] <= p /\ p < prompt_range[2]}

\* Slip: a bias that misses the slice is followed all the same.
Candidates_biased(eligible_indices, prompt_range, n) ==
  LET confined == eligible_indices \cap Slice(prompt_range, n)
  IN  IF confined # {} THEN confined ELSE eligible_indices

\* The bias yields to the slice; an environment without one has all its prompts.
Candidates(eligible_indices, prompt_range, n) ==
  IF prompt_range = NO_RANGE THEN eligible_indices
  ELSE LET confined == eligible_indices \cap Slice(prompt_range, n)
       IN  IF confined # {} THEN confined ELSE Slice(prompt_range, n)

\* The prompts that may be drawn; none when the code raises.  (While most
\* candidates are free the code draws until it hits one, a thousand times.)
pick_prompt_idx(eligible_indices, cooldown_prompts, prompt_range, n) ==
  Candidates(eligible_indices, prompt_range, n) \ cooldown_prompts
=============================================================================
