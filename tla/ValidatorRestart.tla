-------------------------- MODULE ValidatorRestart --------------------------
(***************************************************************************)
(* What survives the restart of a validator.  The process keeps no state   *)
(* on disk: at its start it takes the number of the last window, the EMA   *)
(* of the miners and the prompt cooldowns from the window archives on R2,  *)
(* and each window it seals adds an archive, unless the training, the      *)
(* upload or the process fails in between.  A window is one step here, up  *)
(* to its sealing: ValidatorWindow has what happens inside it.             *)
(***************************************************************************)
EXTENDS CooldownMap, SequenceFilter, FiniteSets

CONSTANTS
  Prompts, Hotkeys,
  B_BATCH,
  ALPHA_NUM, ALPHA_DEN,   \* EMA_ALPHA as a fraction
  SCALE,                  \* the fixed-point unit of a share of 1
  PRUNE,                  \* a share up to this one is dropped
  EMA_HORIZON,            \* windows replayed into the EMA (3 * ROLLING_WINDOWS)
  Mishaps,                \* what fails at a start, of AllMishaps
  MaxWindow,              \* bound: the number of a window
  MaxRestarts             \* bound: restarts of the process

\* The listing of the archives fails; the download of some archives fails.
AllMishaps == {"no_listing", "no_download"}

ASSUME RestartAssumption ==
  /\ IsFiniteSet(Prompts) /\ IsFiniteSet(Hotkeys)
  /\ B_BATCH \in Nat \ {0}
  /\ ALPHA_NUM \in Nat \ {0} /\ ALPHA_DEN \in Nat /\ ALPHA_NUM < ALPHA_DEN
  /\ SCALE \in Nat /\ PRUNE \in Nat /\ EMA_HORIZON \in Nat
  /\ Mishaps \subseteq AllMishaps
  /\ MaxWindow \in Nat /\ MaxRestarts \in Nat

Windows == 1..MaxWindow

VARIABLES
  archives,       \* on R2: [sealed windows that were archived -> their batch]
  restarts,
  pc,             \* where the process is
  window_n,       \* _window_n
  ema,            \* _miner_scores_ema: [Hotkeys -> 0..SCALE], 0 for no entry
  last_batched,   \* the CooldownMap
  batch,          \* what the window in hand was sealed with
  lost            \* a window this process sealed was not archived (history)

vars == <<archives, restarts, pc, window_n, ema, last_batched, batch, lost>>

\* The entries of a batch: one per prompt, at most B_BATCH of them.
Batches ==
  {b \in SUBSET [prompt_idx : Prompts, hotkey : Hotkeys] :
     /\ Cardinality(b) <= B_BATCH
     /\ \A e, f \in b : e.prompt_idx = f.prompt_idx => e = f}

PromptsOf(b) == {e.prompt_idx : e \in b}

-----------------------------------------------------------------------------
(***************************************************************************)
(* The EMA.                                                                *)
(***************************************************************************)
NoScores == [h \in Hotkeys |-> 0]

Credits(b, h) == Cardinality({e \in b : e.hotkey = h})

Blend(old, share) == (ALPHA_NUM * share + (ALPHA_DEN - ALPHA_NUM) * old) \div ALPHA_DEN

Prune(scores) == [h \in Hotkeys |-> IF scores[h] > PRUNE THEN scores[h] ELSE 0]

update_ema(scores, b) ==
  Prune([h \in Hotkeys |-> Blend(scores[h], (Credits(b, h) * SCALE) \div B_BATCH)])

\* _replay_ema, for a list of the archives in the order of their windows.
replay_ema(records) ==
  LET Replay(scores, record) == update_ema(scores, record.entries)
  IN  FoldLeft(Replay, NoScores, records)

-----------------------------------------------------------------------------
(***************************************************************************)
(* R2.                                                                     *)
(***************************************************************************)
Record(w) ==
  [window_start |-> w, batch |-> PromptsOf(archives[w]), entries |-> archives[w]]

\* list_recent_datasets(current_window, n): the windows of
\* [current_window - n, current_window) are tried in order, the archives that
\* there are returned.
list_recent_datasets(stored, current_window, n) ==
  LET start == Max({0, current_window - n})
      tried == [i \in 1..(current_window - start) |-> start + i - 1]
      present == Filtered(tried, stored)
  IN  [i \in 1..Len(present) |-> Record(present[i])]

NoArchives == [w \in {} |-> {}]

\* The archives that a start manages to download.
Downloads ==
  IF "no_download" \in Mishaps THEN SUBSET DOMAIN archives ELSE {DOMAIN archives}

\* list_all_window_keys returns no key when it fails.
Listings ==
  {DOMAIN archives} \cup (IF "no_listing" \in Mishaps THEN {{}} ELSE {})

-----------------------------------------------------------------------------
(***************************************************************************)
(* The weights: the scores of the miners that are registered, and the burn *)
(* for what no score takes.  A validator without a model replays the       *)
(* archives each time, up to the last there is.                            *)
(***************************************************************************)
Total(scores) == SumFunctionOnSet(scores, Hotkeys)

_submit_weights(scores, registered) ==
  [miners |-> [h \in {h \in registered : scores[h] > 0} |-> scores[h]],
   burn |-> Max({0, SCALE - Total(scores)})]

weight_only_weights(registered) ==
  LET windows == DOMAIN archives
  IN  _submit_weights(
        replay_ema(list_recent_datasets(windows, Max(windows) + 1, EMA_HORIZON)), registered)

-----------------------------------------------------------------------------
(***************************************************************************)
(* A start of the process.                                                 *)
(***************************************************************************)
BootstrapAt(n) ==
  /\ pc = "start"
  /\ window_n' = n
  /\ pc' = "scores"
  /\ UNCHANGED <<archives, restarts, ema, last_batched, batch, lost>>

\* Slip: the archives are counted.
BootstrapWindow_counts == BootstrapAt(Cardinality(DOMAIN archives))

BootstrapWindow ==
  \E keys \in Listings : BootstrapAt(IF keys = {} THEN 0 ELSE Max(keys))

BootstrapScores ==
  /\ pc = "scores"
  /\ \E stored \in Downloads :
       ema' = replay_ema(list_recent_datasets(stored, window_n + 1, EMA_HORIZON))
  /\ pc' = "cooldown"
  /\ UNCHANGED <<archives, restarts, window_n, last_batched, batch, lost>>

RebuildWith(n) ==
  /\ pc = "cooldown"
  /\ \E stored \in Downloads :
       last_batched' = rebuild_from_history(list_recent_datasets(stored, window_n + 1, n), window_n)
  /\ pc' = "ready"
  /\ UNCHANGED <<archives, restarts, window_n, ema, batch, lost>>

\* Slip: the window before the last one is the first to be fetched.
RebuildCooldown_one_archive == RebuildWith(1)
RebuildCooldown == RebuildWith(COOLDOWN_WINDOWS)

Crash ==
  /\ restarts < MaxRestarts
  /\ pc # "start"
  /\ restarts' = restarts + 1
  /\ pc' = "start"
  /\ window_n' = 0
  /\ ema' = NoScores
  /\ last_batched' = NoPrompts
  /\ batch' = {}
  /\ lost' = FALSE
  /\ UNCHANGED archives

-----------------------------------------------------------------------------
(***************************************************************************)
(* The windows.                                                            *)
(***************************************************************************)

\* The randomness of the window cannot be derived: it ends as it began.
WindowFails ==
  /\ pc = "ready"
  /\ window_n < MaxWindow
  /\ window_n' = window_n + 1
  /\ UNCHANGED <<archives, restarts, pc, ema, last_batched, batch, lost>>

\* The window is opened and sealed: the batch is recorded in the cooldown map
\* and in the EMA, before anything that can fail.
SealWith(b, scores) ==
  /\ pc = "ready"
  /\ window_n < MaxWindow
  /\ PromptsOf(b) \cap current_cooldown_set(last_batched, window_n + 1) = {}
  /\ window_n' = window_n + 1
  /\ batch' = b
  /\ last_batched' = record_batched(last_batched, PromptsOf(b), window_n + 1)
  /\ ema' = scores
  /\ pc' = "train"
  /\ UNCHANGED <<archives, restarts, lost>>

\* Slip: only a full batch is credited.
SealWindow_credits_full_only(b) ==
  SealWith(b, IF Cardinality(b) = B_BATCH THEN update_ema(ema, b) ELSE ema)

SealWindow(b) == SealWith(b, update_ema(ema, b))

\* An exception of train_step, which is only called for a full batch, skips
\* the archive.
TrainFails ==
  /\ pc = "train"
  /\ Cardinality(batch) >= B_BATCH
  /\ lost' = TRUE
  /\ batch' = {}
  /\ pc' = "ready"
  /\ UNCHANGED <<archives, restarts, window_n, ema, last_batched>>

Archive ==
  /\ pc = "train"
  /\ archives' = [w \in DOMAIN archives \cup {window_n} |->
                    IF w = window_n THEN batch ELSE archives[w]]
  /\ batch' = {}
  /\ pc' = "ready"
  /\ UNCHANGED <<restarts, window_n, ema, last_batched, lost>>

ArchiveFails ==
  /\ pc = "train"
  /\ lost' = TRUE
  /\ batch' = {}
  /\ pc' = "ready"
  /\ UNCHANGED <<archives, restarts, window_n, ema, last_batched>>

\* The bound MaxWindow is reached: the process would open the next window.
Exhausted == pc = "ready" /\ window_n = MaxWindow /\ UNCHANGED vars

-----------------------------------------------------------------------------
Init ==
  /\ archives = NoArchives /\ restarts = 0 /\ pc = "start" /\ window_n = 0
  /\ ema = NoScores /\ last_batched = NoPrompts /\ batch = {} /\ lost = FALSE

Next ==
  \/ BootstrapWindow \/ BootstrapScores \/ RebuildCooldown \/ Crash
  \/ WindowFails \/ (\E b \in Batches : SealWindow(b))
  \/ TrainFails \/ Archive \/ ArchiveFails
  \/ Exhausted

Spec == Init /\ [][Next]_vars

-----------------------------------------------------------------------------
\* The dataset on R2 holds no prompt twice within a cooldown, whatever uploads
\* failed and however often the validator started again from it.
NoRebatchInArchives ==
  COOLDOWN_WINDOWS # 0 =>
    \A v, w \in DOMAIN archives :
      v < w /\ PromptsOf(archives[v]) \cap PromptsOf(archives[w]) # {} =>
        w - v >= COOLDOWN_WINDOWS

\* An archive is the deliverable of its window: no later window of the same or
\* of a restarted process takes its number and overwrites it.
ArchivesAreFinal ==
  [][\A w \in DOMAIN archives : w \in DOMAIN archives' /\ archives'[w] = archives[w]]_vars

\* As long as every window was archived, a validator that starts from R2 now
\* refuses in the next window the same prompts as the one that runs.
CooldownIsDurable ==
  pc = "ready" /\ ~ lost =>
    LET rebuilt == rebuild_from_history(
                     list_recent_datasets(DOMAIN archives, window_n + 1, COOLDOWN_WINDOWS), window_n)
    IN  current_cooldown_set(rebuilt, window_n + 1) =
          current_cooldown_set(last_batched, window_n + 1)

\* Likewise the trainer and any validator that only sets weights, which know of
\* each other through the archives alone, submit the same weights to the chain,
\* whoever is registered then; and they share out the whole, so that the burn,
\* the complement of the scores, is never cut off at zero.
WeightsAgree ==
  pc = "ready" /\ ~ lost =>
    /\ archives # NoArchives =>
         \A registered \in SUBSET Hotkeys :
           _submit_weights(ema, registered) = weight_only_weights(registered)
    /\ Total(ema) + _submit_weights(ema, Hotkeys).burn = SCALE
=============================================================================
