---------------------------- MODULE MinerEngine ----------------------------
(***************************************************************************)
(* The miner of one hotkey and one environment, as it runs with            *)
(* FORCED_SEED_ENFORCE and without the asynchronous vLLM backend.  Three   *)
(* kinds of task share the event loop: the generator bakes entries into    *)
(* the pool, the trigger loop polls the validator, and a fire task drains  *)
(* the pool and posts.  A task runs to its next await, so that a section   *)
(* under _pool_lock, which no task holds across an await, is part of one   *)
(* step.  Baking, finalizing and signing run in threads that read the      *)
(* fields of the engine when they start.                                   *)
(***************************************************************************)
EXTENDS SequenceFilter, Functions, FiniteSets

CONSTANTS
  Prompts,
  MAX_SUBMISSIONS,      \* MAX_SUBMISSIONS_PER_HOTKEY_PER_WINDOW
  POOL_MAX_SIZE,        \* RELIQUARY_POOL_MAX_SIZE
  BAKE_BATCH_SIZE,      \* RELIQUARY_BAKE_BATCH_SIZE
  Cooldowns,            \* bound: what /state can show as cooldown_prompts, per window
  MaxWindow,            \* bound: the number of a window
  MaxCheckpoint         \* bound: the number of a checkpoint

ASSUME MinerAssumption ==
  /\ MAX_SUBMISSIONS \in Nat \ {0}
  /\ POOL_MAX_SIZE \in Nat \ {0} /\ BAKE_BATCH_SIZE \in Nat \ {0}
  /\ MaxWindow \in Nat \ {0} /\ MaxCheckpoint \in Nat
  /\ IsFiniteSet(Prompts)
  /\ Cooldowns \in [1..MaxWindow -> SUBSET SUBSET Prompts]

VARIABLES
  served,             \* what the validator answers to /state
  trigger,            \* where the trigger loop is: "poll", "refresh" or "pull"
  seen,               \* the answer it works on
  cached_randomness,  \* _cached_randomness
  cached_cooldown,    \* _cached_cooldown
  local_n,            \* _local_n, and the _local_hash and hf_model that go with it
  pool,               \* _pool
  bake,               \* the batch in hand of the generator
  submitted_count,    \* _submitted_count
  fire,               \* the tasks of _inflight_fire_tasks
  posted,             \* requests posted, per window (history)
  reloaded            \* a checkpoint was adopted since `seen` was served (history)

vars == <<served, trigger, seen, cached_randomness, cached_cooldown, local_n, pool,
          bake, submitted_count, fire, posted, reloaded>>

Windows == 1..MaxWindow
NoRandomness == 0       \* the empty string

\* An answer of /state is [window_n, open, randomness, checkpoint_n, cooldown]; a
\* window has one randomness, which its number stands for.  An entry of the pool
\* is [prompt, randomness, checkpoint, checkpoint_n, back]: the randomness and
\* the checkpoint are what its tokens were forced with, checkpoint_n is its
\* label, and `back` says that it was posted before.

PromptsOf(entries) == {entries[i].prompt : i \in DOMAIN entries}

-----------------------------------------------------------------------------
(***************************************************************************)
(* The validator, as the miner uses it: it opens windows one after the     *)
(* other, publishes the randomness of a window some time after opening it, *)
(* closes it, and takes up new checkpoints with new windows.               *)
(***************************************************************************)
OpenWindow ==
  /\ served.window_n < MaxWindow
  /\ ~ served.open
  /\ \E n \in {served.checkpoint_n, served.checkpoint_n + 1} \cap 0..MaxCheckpoint,
        cooldown \in Cooldowns[served.window_n + 1] :
       served' = [window_n |-> served.window_n + 1, open |-> TRUE,
                  randomness |-> NoRandomness, checkpoint_n |-> n, cooldown |-> cooldown]

PublishRandomness ==
  /\ served.open
  /\ served.randomness = NoRandomness
  /\ served' = [served EXCEPT !.randomness = served.window_n]

CloseWindow ==
  /\ served.open
  /\ served.window_n < MaxWindow
  /\ served' = [served EXCEPT !.open = FALSE]

Validator ==
  /\ OpenWindow \/ PublishRandomness \/ CloseWindow
  /\ UNCHANGED <<trigger, seen, cached_randomness, cached_cooldown, local_n, pool, bake,
                 submitted_count, fire, posted, reloaded>>

-----------------------------------------------------------------------------
(***************************************************************************)
(* The fire tasks.  A task is [state, budget, entries]: the answer of      *)
(* /state it was created for, what is left of the budget of its window,    *)
(* and, once it has drained the pool, its entries with their progress.     *)
(***************************************************************************)
Remaining(window_n) == MAX_SUBMISSIONS - submitted_count[window_n]

Fireable(size) ==
  /\ seen.open
  /\ seen.randomness # NoRandomness
  /\ Remaining(seen.window_n) > 0
  /\ size > 0

\* Slip: a task has the whole budget of its window.
NewTask_full_budget ==
  [state |-> seen, budget |-> MAX_SUBMISSIONS, drained |-> FALSE, entries |-> <<>>]

NewTask ==
  [state |-> seen, budget |-> Remaining(seen.window_n), drained |-> FALSE, entries |-> <<>>]

\* The end of an iteration of the trigger loop, with a pool of this size.
FireIfReady(size) ==
  fire' = IF Fireable(size) /\ fire = {} THEN {NewTask} ELSE fire

\* The first step of a task: the entries in cooldown are dropped, and the
\* first ones of the others reserved.
Drain ==
  \E task \in fire :
    LET ready == Filtered(pool, {e \in Range(pool) : e.prompt \notin task.state.cooldown})
        k == IF Len(ready) < task.budget THEN Len(ready) ELSE task.budget
        w == task.state.window_n
    IN  /\ ~ task.drained
        /\ pool' = SubSeq(ready, k + 1, Len(ready))
        /\ submitted_count' = [submitted_count EXCEPT ![w] = @ + k]
        /\ fire' = (fire \ {task}) \cup
                   (IF k = 0 THEN {}
                    ELSE {[task EXCEPT
                             !.drained = TRUE,
                             !.entries = [i \in 1..k |-> [entry |-> ready[i],
                                                          progress |-> "build"]]]})
        /\ UNCHANGED <<served, trigger, seen, cached_randomness, cached_cooldown, local_n,
                       bake, posted, reloaded>>

Progress(task, i, progress) ==
  fire' = (fire \ {task}) \cup {[task EXCEPT !.entries[i].progress = progress]}

\* An entry is finalized, signed and posted; or one of these raises first.
Post ==
  \E task \in fire : \E i \in DOMAIN task.entries :
    /\ task.entries[i].progress = "build"
    /\ \/ /\ Progress(task, i, "sent")
          /\ posted' = [posted EXCEPT ![task.state.window_n] = @ + 1]
       \/ Progress(task, i, "drop") /\ UNCHANGED posted
    /\ UNCHANGED <<served, trigger, seen, cached_randomness, cached_cooldown, local_n,
                   pool, bake, submitted_count, reloaded>>

\* The answer: accepted, refused for good or lost, or refused for a reason that
\* allows to post the entry again.
Answer ==
  \E task \in fire : \E i \in DOMAIN task.entries, progress \in {"drop", "requeue"} :
    /\ task.entries[i].progress = "sent"
    /\ Progress(task, i, progress)
    /\ UNCHANGED <<served, trigger, seen, cached_randomness, cached_cooldown, local_n,
                   pool, bake, submitted_count, posted, reloaded>>

FinishWith(task, left) ==
  LET requeued == Filtered(task.entries, {x \in Range(task.entries) : x.progress = "requeue"})
  IN  /\ task.drained
      /\ \A i \in DOMAIN task.entries : task.entries[i].progress \in {"drop", "requeue"}
      /\ pool' = pool \o [i \in DOMAIN requeued |-> [requeued[i].entry EXCEPT !.back = TRUE]]
      /\ fire' = left
      /\ UNCHANGED <<served, trigger, seen, cached_randomness, cached_cooldown, local_n,
                     bake, submitted_count, posted, reloaded>>

\* Slip: the task is not taken out of _inflight_fire_tasks.
Finish_kept ==
  \E task \in fire :
    FinishWith(task, (fire \ {task}) \cup {[task EXCEPT !.entries = <<>>]})

Finish == \E task \in fire : FinishWith(task, fire \ {task})

-----------------------------------------------------------------------------
(***************************************************************************)
(* The trigger loop.                                                       *)
(***************************************************************************)
Poll ==
  /\ trigger = "poll"
  /\ seen' = served
  /\ trigger' = "refresh"
  /\ reloaded' = FALSE
  /\ UNCHANGED <<served, cached_randomness, cached_cooldown, local_n, pool, bake,
                 submitted_count, fire, posted>>

\* A flip of the randomness flushes the pool.  If there is no checkpoint to
\* pull, the loop goes through to its end without an await.
Flips == seen.randomness \notin {NoRandomness, cached_randomness}

Refresh ==
  /\ trigger = "refresh"
  /\ cached_cooldown' = seen.cooldown
  /\ cached_randomness' =
       IF seen.randomness # NoRandomness THEN seen.randomness ELSE cached_randomness
  /\ pool' = IF Flips THEN <<>> ELSE pool
  /\ IF seen.checkpoint_n > local_n
     THEN trigger' = "pull" /\ UNCHANGED fire
     ELSE trigger' = "poll" /\ FireIfReady(Len(pool'))
  /\ UNCHANGED <<served, seen, local_n, bake, submitted_count, posted, reloaded>>

\* The checkpoint is downloaded and loaded.
AdoptWith(left) ==
  /\ trigger = "pull"
  /\ local_n' = seen.checkpoint_n
  /\ pool' = left
  /\ trigger' = "poll"
  /\ reloaded' = TRUE
  /\ UNCHANGED <<served, seen, cached_randomness, cached_cooldown, bake, submitted_count,
                 posted>>

\* Slip: the iteration goes on to fire, with the pool that is kept.
Adopt_fires == AdoptWith(pool) /\ FireIfReady(Len(pool))

\* The pool is dropped, and the answer of before the reload is not fired on.
Adopt == AdoptWith(<<>>) /\ UNCHANGED fire

PullFails ==
  /\ trigger = "pull"
  /\ trigger' = "poll"
  /\ FireIfReady(Len(pool))
  /\ UNCHANGED <<served, seen, cached_randomness, cached_cooldown, local_n, pool, bake,
                 submitted_count, posted, reloaded>>

-----------------------------------------------------------------------------
(***************************************************************************)
(* The generator.  `bake` is the batch in hand: the prompts still to be    *)
(* baked, the label of their entries, and, while a thread bakes the first  *)
(* of them, the randomness and the checkpoint that the thread has read.    *)
(***************************************************************************)
Idle ==
  [todo |-> <<>>, checkpoint_n |-> -1, running |-> FALSE,
   randomness |-> NoRandomness, checkpoint |-> -1]

\* pick_prompt_idx draws at random among the prompts that are not excluded.
PickWith(excluded) ==
  LET left == Prompts \ excluded
      k == IF Cardinality(left) < BAKE_BATCH_SIZE THEN Cardinality(left) ELSE BAKE_BATCH_SIZE
  IN  /\ bake.todo = <<>>
      /\ Len(pool) < POOL_MAX_SIZE
      /\ cached_randomness # NoRandomness
      /\ k > 0
      /\ \E picks \in [1..k -> left] :
           /\ \A i, j \in 1..k : picks[i] = picks[j] => i = j
           /\ bake' = [Idle EXCEPT !.todo = picks, !.checkpoint_n = local_n]
      /\ UNCHANGED <<served, trigger, seen, cached_randomness, cached_cooldown, local_n,
                     pool, submitted_count, fire, posted, reloaded>>

Pick == PickWith(cached_cooldown \cup PromptsOf(pool))

StartEntry ==
  /\ bake.todo # <<>>
  /\ ~ bake.running
  /\ bake' = [bake EXCEPT !.running = TRUE, !.randomness = cached_randomness,
                          !.checkpoint = local_n]
  /\ UNCHANGED <<served, trigger, seen, cached_randomness, cached_cooldown, local_n, pool,
                 submitted_count, fire, posted, reloaded>>

Baked ==
  [prompt |-> Head(bake.todo), randomness |-> bake.randomness,
   checkpoint |-> bake.checkpoint, checkpoint_n |-> bake.checkpoint_n, back |-> FALSE]

DeliverTo(pools) ==
  /\ bake.running
  /\ pool' \in pools
  /\ bake' = IF Len(bake.todo) = 1 THEN Idle
             ELSE [bake EXCEPT !.todo = Tail(@), !.running = FALSE,
                               !.randomness = NoRandomness, !.checkpoint = -1]
  /\ UNCHANGED <<served, trigger, seen, cached_randomness, cached_cooldown, local_n,
                 submitted_count, fire, posted, reloaded>>

\* Slip: the label is not compared with the checkpoint in use.
DeliverEntry_unchecked == DeliverTo({pool, Append(pool, Baked)})

\* The thread returns no entry (out of zone, too few completions, an error), or
\* one that is appended if its label is current.
DeliverEntry ==
  DeliverTo({pool} \cup (IF Baked.checkpoint_n = local_n THEN {Append(pool, Baked)} ELSE {}))

-----------------------------------------------------------------------------
Init ==
  /\ served \in {[window_n |-> 1, open |-> TRUE, randomness |-> NoRandomness,
                   checkpoint_n |-> 0, cooldown |-> c] : c \in Cooldowns[1]}
  /\ trigger = "poll" /\ seen = served /\ reloaded = FALSE
  /\ cached_randomness = NoRandomness /\ cached_cooldown = {} /\ local_n = -1
  /\ pool = <<>> /\ bake = Idle /\ fire = {}
  /\ submitted_count = [w \in Windows |-> 0]
  /\ posted = [w \in Windows |-> 0]

TriggerLoop == Poll \/ Refresh \/ Adopt \/ PullFails
FireTask == Drain \/ Post \/ Answer \/ Finish
Generator == Pick \/ StartEntry \/ DeliverEntry

Next == Validator \/ TriggerLoop \/ FireTask \/ Generator

Spec == Init /\ [][Next]_vars

\* The calls of the trigger loop and of a fire task return or raise: httpx has a
\* timeout of 30 s, and a download ends.
FairSpec == Spec /\ WF_vars(TriggerLoop) /\ WF_vars(FireTask)

-----------------------------------------------------------------------------
Answers ==
  [window_n : Windows, open : BOOLEAN, randomness : {NoRandomness} \cup Windows,
   checkpoint_n : 0..MaxCheckpoint, cooldown : SUBSET Prompts]

Checkpoints == -1..MaxCheckpoint   \* -1 is the model that the miner starts with

PoolEntries ==
  [prompt : Prompts, randomness : {NoRandomness} \cup Windows, checkpoint : Checkpoints,
   checkpoint_n : Checkpoints, back : BOOLEAN]

Bakes ==
  [todo : Seq(Prompts), checkpoint_n : Checkpoints, running : BOOLEAN,
   randomness : {NoRandomness} \cup Windows, checkpoint : Checkpoints]

FireEntries == [entry : PoolEntries, progress : {"build", "sent", "drop", "requeue"}]
Tasks == [state : Answers, budget : Nat, drained : BOOLEAN, entries : Seq(FireEntries)]

TypeOK ==
  /\ served \in Answers /\ seen \in Answers
  /\ trigger \in {"poll", "refresh", "pull"} /\ reloaded \in BOOLEAN
  /\ cached_randomness \in {NoRandomness} \cup Windows /\ cached_cooldown \subseteq Prompts
  /\ local_n \in Checkpoints
  /\ pool \in Seq(PoolEntries)
  /\ bake \in Bakes /\ (bake.running => bake.todo # <<>>)
  /\ fire \subseteq Tasks
  /\ submitted_count \in [Windows -> Nat]
  /\ posted \in [Windows -> Nat]

-----------------------------------------------------------------------------
\* Whatever is put back and drained again, and however the polls and the fire
\* tasks interleave, a window sees no more requests of the miner than its limit.
BudgetHolds == \A w \in Windows : posted[w] <= MAX_SUBMISSIONS

\* What is fired fresh was generated under the checkpoint in use: a checkpoint
\* adopted between the pick, the generation and the append leaves no entry of
\* the old one behind.  An entry that is put back by a fire task is excepted.
PoolFromCurrentCheckpoint ==
  \A i \in DOMAIN pool : ~ pool[i].back => pool[i].checkpoint = local_n

\* A task is only created from an answer of the validator that is newer than the
\* last reload of the model.
FiresAreFresh == [][\A task \in fire' \ fire : task.drained \/ ~ reloaded']_vars

\* Entries do not lie in the pool for ever while their window takes submissions.
Waiting ==
  /\ pool # <<>>
  /\ served.open /\ served.randomness # NoRandomness
  /\ submitted_count[served.window_n] < MAX_SUBMISSIONS
PoolIsFired == []<> ~ Waiting

=============================================================================
