--------------------------- MODULE AsyncGenerator ---------------------------
(***************************************************************************)
(* The continuous-batching generator of the miner, _async_generator_loop,  *)
(* as it runs without FORCED_SEED_ENFORCE: it keeps requests in flight in  *)
(* the asynchronous vLLM backend, grades what comes back, and appends to   *)
(* the pool which the trigger loop flushes and the fire task drains.  All  *)
(* of them are tasks of one event loop; the generator gives way only where *)
(* it awaits (`Yielded`), so what it does in between is not interleaved.   *)
(***************************************************************************)
EXTENDS SequenceFilter, Functions, FiniteSets, FiniteSetsExt

CONSTANTS
  Prompts,
  ENVS,              \* active_envs, a sequence
  TARGET_SLOTS,      \* MixController.target_slots(), per environment
  POOL_MAX_SIZE,     \* RELIQUARY_POOL_MAX_SIZE
  MAX_SUBMISSIONS,   \* MAX_SUBMISSIONS_PER_HOTKEY_PER_WINDOW
  MAX_PHASES,        \* RELIQUARY_MAX_PHASES
  Modes,             \* the settings of the miner, see `mode`
  Slice,             \* the prompts of the range of a window, 0 is "before the first"
  Cooldown,          \* cooldown_prompts of a window
  TIE_CYCLE,         \* bound: _TIE_ROTATION is counted modulo this
  MaxWindow,         \* bound: the number of a window
  MaxCheckpoint      \* bound: the number of a checkpoint

ASSUME AsyncAssumption ==
  /\ POOL_MAX_SIZE \in Nat \ {0}
  /\ MAX_SUBMISSIONS \in Nat \ {0} /\ MAX_PHASES \in Nat \ {0}
  /\ MaxWindow \in Nat /\ MaxCheckpoint \in Nat
  /\ ENVS \in Seq(Range(ENVS)) /\ ENVS # <<>>
  /\ TARGET_SLOTS \in [Range(ENVS) -> Nat]
  /\ TIE_CYCLE \in Nat \ {0} /\ \A n \in 1..Len(ENVS) : TIE_CYCLE % n = 0
  /\ Modes \subseteq [armed : BOOLEAN, drop : BOOLEAN, target_active : Nat \ {0}]
  /\ Slice \in [0..MaxWindow -> SUBSET Prompts]
  /\ Cooldown \in [0..MaxWindow -> SUBSET Prompts]

VARIABLES
  mode,      \* armed: there is a prompt range; drop: RELIQUARY_DROP_POOL_ON_CKPT;
             \* target_active: RELIQUARY_ASYNC_TARGET_ACTIVE
  window,    \* the window of _cached_randomness and _cooldowns
  local_n,   \* _local_n
  pool,      \* _pool
  fired,     \* the entries a fire task holds
  retry,     \* _retry_by_env: the prompts with the phases they have behind them
  pending,   \* the tasks in flight; `done` when the task has a result
  loop,      \* where the generator is, the tasks of `done` it has still to
             \* take, and the one it works on
  turn       \* _TIE_ROTATION

vars == <<mode, window, local_n, pool, fired, retry, pending, loop, turn>>

Envs == Range(ENVS)

\* The entries of a retry queue, and those of the pool, for some prompts.
Retries(prompts) == [prompt : prompts, phases : 0..MAX_PHASES]
PoolEntries(prompts) == [env : Envs, prompt : prompts, checkpoint_n : -1..MaxCheckpoint]

\* A task is [env, prompt, phases, checkpoint_n, done]: what it generates, the
\* phases the prompt has behind it, and the checkpoint it was submitted under;
\* an entry of the pool is [env, prompt, checkpoint_n].

At(place) == [loop EXCEPT !.at = place]
Yielded == loop.at \in {"wait", "sleep", "forward", "save"}
PoolFull == Len(pool) >= POOL_MAX_SIZE

-----------------------------------------------------------------------------
(***************************************************************************)
(* _submit_one.                                                            *)
(***************************************************************************)
Count(env) ==
  Cardinality({i \in DOMAIN pool : pool[i].env = env}) +
  Cardinality({t \in pending : t.env = env})

Deficit(env) == TARGET_SLOTS[env] - Count(env)
Tied == SelectSeq(ENVS, LAMBDA e : \A f \in Envs : Deficit(f) <= Deficit(e))

\* Slip: the first of the tied environments, as before the rotation.
pick_bake_env_first == Tied[1]

pick_bake_env == Tied[(turn % Len(Tied)) + 1]

Rotated == IF Len(Tied) = 1 THEN turn ELSE (turn + 1) % TIE_CYCLE

InFlight(env) == {t.prompt : t \in {u \in pending : u.env = env}}

RetryPicks(env) ==
  Filtered(retry[env], Retries(Prompts \ (InFlight(env) \cup Cooldown[window])))

InRange == IF mode.armed THEN Slice[window] ELSE Prompts

\* Slip: what is in flight is not excluded.
FreshPicks_again(env) == InRange \ Cooldown[window]

FreshPicks(env) == InRange \ (Cooldown[window] \cup InFlight(env))

NewTask(env, prompt, phases) ==
  [env |-> env, prompt |-> prompt, phases |-> phases, checkpoint_n |-> local_n,
   done |-> FALSE]

Without(queue, prompts) == Filtered(queue, Retries(Prompts \ prompts))

\* The next prompt to bake of an environment: its first retry, else a fresh one;
\* nothing if all are excluded.  The first n retries are dropped, as their
\* problems cannot be loaded.
SubmitFor(env) ==
  LET picks == RetryPicks(env)
  IN  /\ turn' = Rotated
      /\ \E n \in 0..Len(picks) :
           /\ retry' = [retry EXCEPT ![env] =
                          Without(@, {picks[i].prompt : i \in 1..Min({n + 1, Len(picks)})})]
           /\ \/ /\ n < Len(picks)
                 /\ pending' = pending \cup
                      {NewTask(env, picks[n + 1].prompt, picks[n + 1].phases)}
              \/ /\ n = Len(picks)
                 /\ IF FreshPicks(env) = {}
                    THEN UNCHANGED pending
                    ELSE \E p \in FreshPicks(env) :
                           pending' = pending \cup {NewTask(env, p, 0)}

SubmitOne == \E env \in Envs : env = pick_bake_env /\ SubmitFor(env)

\* The problem of a fresh prompt cannot be loaded: the exception is caught
\* around the loop only, which ends.
SubmitRaises ==
  /\ FreshPicks(pick_bake_env) # {}
  /\ loop' = [at |-> "crashed", batch |-> {}, hand |-> {}]
  /\ pending' = {}
  /\ UNCHANGED <<retry, turn>>

-----------------------------------------------------------------------------
(***************************************************************************)
(* The loop.                                                               *)
(***************************************************************************)
Resume(batch) ==
  loop' = [at |-> IF batch # {} THEN "batch" ELSE IF pending' = {} THEN "sleep" ELSE "wait",
           batch |-> batch, hand |-> {}]

\* At the start: up to target_active tasks, while the pool is not full.
Fill ==
  /\ loop.at = "fill"
  /\ Cardinality(pending) < mode.target_active /\ ~ PoolFull
  /\ \/ /\ SubmitOne
        /\ IF pending' = pending THEN Resume({}) ELSE UNCHANGED loop
     \/ SubmitRaises
  /\ UNCHANGED <<mode, window, local_n, pool, fired>>

Filled ==
  /\ loop.at = "fill"
  /\ Cardinality(pending) >= mode.target_active \/ PoolFull
  /\ UNCHANGED <<mode, window, local_n, pool, fired, retry, pending, turn>>
  /\ Resume({})

\* Slip: the pool is not looked at.
Refill_unchecked(batch) == (SubmitOne /\ Resume(batch)) \/ SubmitRaises

\* The replacement of a task, or the one task after a sleep.
Refill(batch) ==
  IF PoolFull
  THEN UNCHANGED <<retry, pending, turn>> /\ Resume(batch)
  ELSE (SubmitOne /\ Resume(batch)) \/ SubmitRaises

WakeUp ==
  /\ loop.at = "sleep"
  /\ Refill({})
  /\ UNCHANGED <<mode, window, local_n, pool, fired>>

Finished == {t \in pending : t.done}

WaitReturns ==
  /\ loop.at = "wait" /\ Finished # {}
  /\ loop' = [at |-> "batch", batch |-> Finished, hand |-> {}]
  /\ UNCHANGED <<mode, window, local_n, pool, fired, retry, pending, turn>>

\* The next task of the batch: it has raised, or fails a check that comes before
\* the proof forward (too few completions, the same reward for all), and is
\* replaced; or its rollouts go to the forward.
TakeTask ==
  /\ loop.at = "batch"
  /\ \E t \in loop.batch :
       /\ pending' = pending \ {t}
       /\ loop' = [at |-> "forward", batch |-> loop.batch \ {t}, hand |-> {t}]
  /\ UNCHANGED <<mode, window, local_n, pool, fired, retry, turn>>

\* The task in hand.
Task == CHOOSE t \in loop.hand : TRUE

DropTask ==
  /\ loop.at = "forward"
  /\ loop' = At("replace")
  /\ UNCHANGED <<mode, window, local_n, pool, fired, retry, pending, turn>>

Selected ==
  [env |-> Task.env, prompt |-> Task.prompt,
   checkpoint_n |-> Task.checkpoint_n]

\* Rollouts that make a submission: appended, unless the checkpoint has advanced
\* and old entries are dropped; and then saved, in both cases.
AppendEntry ==
  /\ loop.at = "forward"
  /\ pool' = IF mode.drop /\ Selected.checkpoint_n # local_n THEN pool
             ELSE Append(pool, Selected)
  /\ loop' = At(IF mode.armed THEN "replace" ELSE "save")
  /\ UNCHANGED <<mode, window, local_n, fired, retry, pending, turn>>

Saved ==
  /\ loop.at = "save"
  /\ loop' = At("replace")
  /\ UNCHANGED <<mode, window, local_n, pool, fired, retry, pending, turn>>

MorePhases == Task.phases + 1 < MAX_PHASES

\* Rollouts that do not make a submission yet: back to the queue, with the
\* phases they have behind them.
RetryTask ==
  /\ loop.at = "forward" /\ MorePhases
  /\ LET env == Task.env
         r == [prompt |-> Task.prompt, phases |-> Task.phases + 1]
     IN  retry' = [retry EXCEPT ![env] = Append(Without(@, {r.prompt}), r)]
  /\ loop' = At("replace")
  /\ UNCHANGED <<mode, window, local_n, pool, fired, pending, turn>>

Replace ==
  /\ loop.at = "replace"
  /\ Refill(loop.batch)
  /\ UNCHANGED <<mode, window, local_n, pool, fired>>

Loop ==
  Fill \/ Filled \/ WakeUp \/ WaitReturns \/ TakeTask \/ DropTask \/ AppendEntry \/ Saved
  \/ RetryTask \/ Replace

-----------------------------------------------------------------------------
(***************************************************************************)
(* What goes on while the generator awaits: the requests of vLLM end, with *)
(* a result or an exception, and the trigger loop and the fire task of     *)
(* MinerEngine do what they do to the fields the generator shares.         *)
(***************************************************************************)
Complete(env, prompt) ==
  /\ Yielded
  /\ \E t \in pending :
       /\ t.env = env /\ t.prompt = prompt /\ ~ t.done
       /\ pending' = (pending \ {t}) \cup {[t EXCEPT !.done = TRUE]}
  /\ UNCHANGED <<mode, window, local_n, pool, fired, retry, loop, turn>>

\* A new randomness flushes the pool and the retries if the range is armed.
Flip ==
  /\ Yielded /\ window < MaxWindow
  /\ window' = window + 1
  /\ IF mode.armed
     THEN pool' = <<>> /\ retry' = [e \in Envs |-> <<>>]
     ELSE UNCHANGED <<pool, retry>>
  /\ UNCHANGED <<mode, local_n, fired, pending, loop, turn>>

Adopt ==
  /\ Yielded /\ local_n < MaxCheckpoint
  /\ local_n' = local_n + 1
  /\ pool' = IF mode.drop THEN <<>> ELSE pool
  /\ UNCHANGED <<mode, window, fired, retry, pending, loop, turn>>

Drain ==
  LET ready == Filtered(pool, PoolEntries(InRange \ Cooldown[window]))
      k == Min({Len(ready), MAX_SUBMISSIONS})
  IN  /\ Yielded /\ fired = <<>> /\ pool # <<>>
      /\ fired' = SubSeq(ready, 1, k)
      /\ pool' = SubSeq(ready, k + 1, Len(ready))
      /\ UNCHANGED <<mode, window, local_n, retry, pending, loop, turn>>

\* What was refused for a reason that allows it is put back.
Requeue ==
  /\ Yielded /\ fired # <<>>
  /\ \E back \in SUBSET DOMAIN fired :
       LET order == Filtered([i \in DOMAIN fired |-> i], back)
       IN  pool' = pool \o [i \in DOMAIN order |-> fired[order[i]]]
  /\ fired' = <<>>
  /\ UNCHANGED <<mode, window, local_n, retry, pending, loop, turn>>

Miner == Flip \/ Adopt \/ Drain \/ Requeue

-----------------------------------------------------------------------------
Init ==
  /\ mode \in Modes
  /\ window = 0 /\ local_n = -1
  /\ pool = <<>> /\ fired = <<>>
  /\ retry = [e \in Envs |-> <<>>]
  /\ pending = {}
  /\ loop = [at |-> "fill", batch |-> {}, hand |-> {}]
  /\ turn = 0

Next == Loop \/ Miner \/ \E e \in Envs, p \in Prompts : Complete(e, p)

Spec == Init /\ [][Next]_vars

\* The event loop resumes the generator, a request of vLLM ends after max_tokens
\* at the latest, and a fire task ends with its posts.
FairSpec ==
  /\ Spec
  /\ WF_vars(Loop)
  /\ \A e \in Envs, p \in Prompts : WF_vars(Complete(e, p))
  /\ WF_vars(Requeue)

-----------------------------------------------------------------------------
Tasks ==
  [env : Envs, prompt : Prompts, phases : 0..MAX_PHASES, checkpoint_n : -1..MaxCheckpoint,
   done : BOOLEAN]

Working == {"forward", "save", "replace"}

LoopTypeOK ==
  /\ loop \in [at : {"fill", "sleep", "wait", "batch", "crashed"} \cup Working,
               batch : SUBSET Tasks, hand : SUBSET Tasks]
  /\ \A t \in loop.batch : t \in pending /\ t.done
  /\ loop.at \in {"fill", "sleep", "wait", "crashed"} => loop.batch = {}
  /\ IF loop.at \in Working THEN loop.hand = {Task} ELSE loop.hand = {}
  /\ loop.at = "sleep" => pending = {}

TypeOK ==
  /\ mode \in Modes /\ window \in 0..MaxWindow /\ local_n \in -1..MaxCheckpoint /\ turn \in Nat
  /\ pool \in Seq(PoolEntries(Prompts)) /\ fired \in Seq(PoolEntries(Prompts))
  /\ retry \in [Envs -> Seq(Retries(Prompts))]
  /\ pending \subseteq Tasks /\ IsFiniteSet(pending)
  /\ LoopTypeOK

\* A prompt of an environment is generated by one task at a time, and what is in
\* flight or in hand is not waiting for a retry as well: the phases of a prompt
\* are never counted, or paid for, twice.
EachPromptOnce ==
  LET Busy(env) == {t \in pending \cup loop.hand : t.env = env}
      prompts(env) == {t.prompt : t \in Busy(env)}
  IN  loop.at # "replace" =>
        \A e \in Envs :
          /\ \A t, u \in Busy(e) : t.prompt = u.prompt => t = u
          /\ \A i, j \in DOMAIN retry[e] :
               /\ retry[e][i].prompt = retry[e][j].prompt => i = j
               /\ retry[e][i].prompt \notin prompts(e)

\* The pool is checked when a task is submitted, and filled when it ends: it
\* outgrows its limit by what is in flight and by what a fire task puts back, and
\* by no more.
PoolBounded ==
  Len(pool) + Len(fired) <= POOL_MAX_SIZE - 1 + mode.target_active + MAX_SUBMISSIONS

Crashed == loop.at = "crashed"

\* As long as the loop lives and the pool takes entries, an environment that has
\* prompts to bake and nothing in the pool gets its turn, whatever becomes of the
\* tasks of the others.
EveryEnvIsBaked ==
  \A e \in Envs :
    []<>(Crashed \/ PoolFull \/ InRange \subseteq Cooldown[window] \/ Count(e) > 0)

=============================================================================
