---------------------------- MODULE CooldownMap ----------------------------
(***************************************************************************)
(* The prompt cooldown of validator/cooldown.py, as operators on the       *)
(* dictionary `_last_batched`: a function whose domain is the set of       *)
(* prompts that were ever batched and whose value is the last window that  *)
(* batched them.  The map is shared by every batcher of a validator, so    *)
(* the modules that model the validator hold it in a variable of their own *)
(* and use these operators on it.                                          *)
(***************************************************************************)
EXTENDS Integers, Sequences, SequencesExt

CONSTANT COOLDOWN_WINDOWS   \* CooldownMap(cooldown_windows)

\* The constructor refuses a negative horizon; zero disables the cooldown.
ASSUME CooldownAssumption == COOLDOWN_WINDOWS \in Nat

\* Slip: the last window of the interval is let through.
is_in_cooldown_one_short(last_batched, prompt, current_window) ==
  /\ COOLDOWN_WINDOWS # 0
  /\ prompt \in DOMAIN last_batched
  /\ current_window - last_batched[prompt] + 1 < COOLDOWN_WINDOWS

(***************************************************************************)
(* The half-open interval [last, last + COOLDOWN_WINDOWS) is ineligible.   *)
(***************************************************************************)
is_in_cooldown(last_batched, prompt, current_window) ==
  /\ COOLDOWN_WINDOWS # 0
  /\ prompt \in DOMAIN last_batched
  /\ current_window - last_batched[prompt] < COOLDOWN_WINDOWS

current_cooldown_set(last_batched, current_window) ==
  {p \in DOMAIN last_batched : is_in_cooldown(last_batched, p, current_window)}

(***************************************************************************)
(* record_batched applied to each prompt of a set (the loop of seal_batch).*)
(***************************************************************************)
record_batched(last_batched, prompts, window) ==
  [p \in DOMAIN last_batched \cup prompts |->
     IF p \in prompts THEN window ELSE last_batched[p]]

(***************************************************************************)
(* rebuild_from_history: one pass over the archives in list order.  An     *)
(* archive is [window_start, batch] with batch the set of its prompts.     *)
(* Archives at or before the horizon are skipped; for the others a prompt  *)
(* keeps the most recent of its windows.                                   *)
(***************************************************************************)
ReplayArchive(last_batched, record, horizon) ==
  IF record.window_start <= horizon
  THEN last_batched
  ELSE LET newer == {p \in record.batch :
                       p \in DOMAIN last_batched =>
                         last_batched[p] < record.window_start}
       IN  record_batched(last_batched, newer, record.window_start)

NoPrompts == [p \in {} |-> 0]

rebuild_from_history(archived_windows, current_window) ==
  LET horizon == current_window - COOLDOWN_WINDOWS
      Step(last_batched, record) == ReplayArchive(last_batched, record, horizon)
  IN  FoldLeft(Step, NoPrompts, archived_windows)
=============================================================================
