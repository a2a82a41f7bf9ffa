---------------------------- MODULE BakePipeline ----------------------------
(***************************************************************************)
(* How the miner bakes a batch under FORCED_SEED_ENFORCE with the forced   *)
(* seed in vLLM: the batch is cut into chunks; one thread prefetches the   *)
(* first phase of chunk n + 1 while another grades and proves the prompts  *)
(* of chunk n, taking what was prefetched or generating it itself; both    *)
(* call the same VLLMBackend, which the event loop reloads when it adopts  *)
(* a checkpoint.  The event loop is blocked during a reload, the threads   *)
(* are not.                                                                *)
(***************************************************************************)
EXTENDS Integers, SequencesExt

CONSTANTS
  Prompts,
  BAKE_BATCH_SIZE,   \* RELIQUARY_BAKE_BATCH_SIZE
  BAKE_CHUNK,        \* RELIQUARY_BAKE_CHUNK
  BUILD_ATTEMPTS,    \* the 5 attempts of _ensure_loaded
  MaxRandomness,     \* bound: the number of the last window with a randomness
  MaxCheckpoint      \* bound: the number of a checkpoint

ASSUME BakeAssumption ==
  /\ IsFiniteSet(Prompts)
  /\ BAKE_BATCH_SIZE \in Nat \ {0} /\ BAKE_CHUNK \in Nat \ {0}
  /\ BUILD_ATTEMPTS \in Nat \ {0}
  /\ MaxRandomness \in Nat \ {0} /\ MaxCheckpoint \in Nat

VARIABLES
  randomness,   \* _cached_randomness
  local_n,      \* _local_n, and the _local_hash that goes with it
  pool,         \* _pool, as a set
  bake,         \* _bake_streaming: where it is, its label, its chunks to go, the first
                \* of which is being prefetched ("await") or graded ("grade")
  cache,        \* _phase1_cache
  thread,       \* the two threads
  llm,          \* VLLMBackend._llm: the checkpoint of the engine
  model_path,   \* VLLMBackend._model_path
  lock,         \* _VLLM_CALL_LOCK
  reloading     \* VLLMBackend.reload waits for the memory of the old engine

vars == <<randomness, local_n, pool, bake, cache, thread, llm, model_path, lock, reloading>>

Threads == {"prefetch", "grade"}
NoEngine == -1
NoRandomness == 0
Free == "free"

\* Completions are [prompt, randomness, hash, model]: what they were forced with,
\* and the checkpoint of the engine that generated them.

\* A thread: where it is, the prompts it generates for, the randomness and the
\* hash it has read, the checkpoint of the engine it builds or uses, the
\* attempts to build it, and the completions it ends with.
NoThread ==
  [at |-> "none", prompts |-> {}, randomness |-> NoRandomness, hash |-> -1,
   model |-> NoEngine, attempt |-> 0, result |-> {}]
Started(prompts) == [NoThread EXCEPT !.at = "start", !.prompts = prompts]

Put(t, fields) == thread' = [thread EXCEPT ![t] = fields]

-----------------------------------------------------------------------------
(***************************************************************************)
(* VLLMBackend.                                                            *)
(***************************************************************************)
\* What becomes of the call of a thread that raises: the prefetch drops all that
\* is cached, an entry is skipped.
Raise(t) ==
  /\ Put(t, [NoThread EXCEPT !.at = "done"])
  /\ cache' = IF t = "prefetch" THEN {} ELSE cache

EnsureLoaded(t) ==
  /\ thread[t].at = "ensure"
  /\ Put(t, IF llm # NoEngine THEN [thread[t] EXCEPT !.at = "call"]
            ELSE [thread[t] EXCEPT !.at = "build", !.model = model_path, !.attempt = 1])
  /\ UNCHANGED <<cache, llm, lock>>

\* The engine is built with the path read at the start of the attempt.
Build(t) ==
  /\ thread[t].at = "build"
  /\ llm' = thread[t].model
  /\ Put(t, [thread[t] EXCEPT !.at = "call"])
  /\ UNCHANGED <<cache, lock>>

RetryBuild(t, attempt) ==
  /\ Put(t, [thread[t] EXCEPT !.model = model_path, !.attempt = attempt])
  /\ UNCHANGED cache

\* Slip: the attempts never run out.
BuildFails_for_ever(t) ==
  /\ thread[t].at = "build"
  /\ RetryBuild(t, (thread[t].attempt % BUILD_ATTEMPTS) + 1) \/ Raise(t)
  /\ UNCHANGED <<llm, lock>>

\* No memory: again, with the path of then, up to BUILD_ATTEMPTS.  Another error,
\* or the last attempt, is raised.
BuildFails(t) ==
  /\ thread[t].at = "build"
  /\ \/ thread[t].attempt < BUILD_ATTEMPTS /\ RetryBuild(t, thread[t].attempt + 1)
     \/ Raise(t)
  /\ UNCHANGED <<llm, lock>>

\* _VLLM_CALL_LOCK is taken; a reload may have dropped the engine since.
Call(t) ==
  /\ thread[t].at = "call" /\ lock = Free
  /\ IF llm = NoEngine
     THEN Raise(t) /\ UNCHANGED lock
     ELSE /\ lock' = t
          /\ Put(t, [thread[t] EXCEPT !.at = "generate", !.model = llm])
          /\ UNCHANGED cache
  /\ UNCHANGED llm

Output(t) ==
  {[prompt |-> p, randomness |-> thread[t].randomness, hash |-> thread[t].hash,
    model |-> thread[t].model] : p \in thread[t].prompts}

\* The completions of a prefetch are merged into the cache; those of an entry are
\* proved next.
Generated(t) ==
  /\ thread[t].at = "generate"
  /\ lock' = Free
  /\ \/ IF t = "prefetch"
        THEN Put(t, [NoThread EXCEPT !.at = "done"]) /\ cache' = cache \cup Output(t)
        ELSE /\ Put(t, [thread[t] EXCEPT !.at = "prove", !.result = Output(t)])
             /\ UNCHANGED cache
     \/ Raise(t)
  /\ UNCHANGED llm

-----------------------------------------------------------------------------
(***************************************************************************)
(* _prefetch_phase1 and _pre_bake_entry, in their threads.                 *)
(***************************************************************************)
\* A thread reads the randomness at its start ...
StartThread(t) ==
  /\ thread[t].at = "start"
  /\ Put(t, [thread[t] EXCEPT !.at = IF t = "prefetch" THEN "hash" ELSE "take",
                              !.randomness = randomness])
  /\ UNCHANGED <<cache, llm, lock>>

\* ... and the hash a little later.
ReadHash(t) ==
  /\ thread[t].at = "hash"
  /\ Put(t, [thread[t] EXCEPT !.at = "ensure", !.hash = local_n])
  /\ UNCHANGED <<cache, llm, lock>>

\* Slip: the cache is keyed by the prompt and the hash.
Prefetched_unkeyed(t) ==
  {c \in cache : c.prompt \in thread[t].prompts /\ c.hash = local_n}

Prefetched(t) ==
  {c \in cache : /\ c.prompt \in thread[t].prompts
                 /\ c.randomness = thread[t].randomness /\ c.hash = local_n}

\* An entry takes what was prefetched, once, or generates it itself.
Take(t) ==
  /\ thread[t].at = "take"
  /\ \E c \in Prefetched(t) \cup {[model |-> NoEngine]} :
       IF c.model = NoEngine
       THEN /\ Prefetched(t) = {}
            /\ Put(t, [thread[t] EXCEPT !.at = "ensure", !.hash = local_n])
            /\ UNCHANGED cache
       ELSE /\ Put(t, [thread[t] EXCEPT !.at = "prove", !.hash = local_n, !.result = {c}])
            /\ cache' = cache \ Prefetched(t)
  /\ UNCHANGED <<llm, lock>>

\* The second phase and the proof, which use the model of the proofs; or the
\* group is out of the zone, or something raises.
Prove(t) ==
  /\ thread[t].at = "prove"
  /\ \/ Put(t, [thread[t] EXCEPT !.at = "done"])
     \/ Put(t, [NoThread EXCEPT !.at = "done"])
  /\ UNCHANGED <<cache, llm, lock>>

ThreadStep(t) ==
  /\ \/ EnsureLoaded(t) \/ Build(t) \/ BuildFails(t) \/ Call(t) \/ Generated(t)
     \/ StartThread(t) \/ ReadHash(t) \/ Take(t) \/ Prove(t)
  /\ UNCHANGED <<randomness, local_n, pool, bake, model_path, reloading>>

-----------------------------------------------------------------------------
(***************************************************************************)
(* _bake_streaming and _grade_chunk_streaming, in the event loop.          *)
(***************************************************************************)
Idle == [at |-> "idle", checkpoint_n |-> -1, chunks |-> <<>>]

ChunksOf(picks) ==
  [c \in 1..((Len(picks) + BAKE_CHUNK - 1) \div BAKE_CHUNK) |->
     SubSeq(picks, (c - 1) * BAKE_CHUNK + 1, Min({c * BAKE_CHUNK, Len(picks)}))]

StartBake ==
  LET left == Prompts \ {e.prompt : e \in pool}
      k == Min({Cardinality(left), BAKE_BATCH_SIZE})
  IN  /\ bake = Idle /\ k > 0
      /\ \E picks \in [1..k -> left] :
           /\ \A i, j \in 1..k : picks[i] = picks[j] => i = j
           /\ bake' = [at |-> "await", checkpoint_n |-> local_n, chunks |-> ChunksOf(picks)]
           /\ Put("prefetch", Started(ToSet(ChunksOf(picks)[1])))
      /\ UNCHANGED <<pool, cache>>

\* The prefetch of the next chunk is started before the chunk is graded.
ChunkReady ==
  LET rest == Tail(bake.chunks)
  IN  /\ bake.at = "await" /\ thread["prefetch"].at = "done"
      /\ bake' = [bake EXCEPT !.at = "grade"]
      /\ thread' = [prefetch |-> IF rest = <<>> THEN NoThread ELSE Started(ToSet(rest[1])),
                    grade |-> Started({bake.chunks[1][1]})]
      /\ UNCHANGED <<pool, cache>>

\* The entry of a thread that has one.
Entry(t) ==
  [prompt |-> CHOOSE p \in thread[t].prompts : TRUE,
   randomness |-> thread[t].randomness, hash |-> thread[t].hash,
   checkpoint_n |-> bake.checkpoint_n,
   completions |-> CHOOSE c \in thread[t].result : TRUE]

\* An entry is appended if its label is current; then the next prompt of the
\* chunk is graded, or the next chunk awaited.  What is left in the cache at the
\* end is dropped.
EntryDone ==
  LET done == thread["grade"]
      chunk == Tail(bake.chunks[1])
      rest == Tail(bake.chunks)
  IN  /\ bake.at = "grade" /\ done.at = "done"
      /\ pool' = IF done.result # {} /\ bake.checkpoint_n = local_n
                 THEN pool \cup {Entry("grade")} ELSE pool
      /\ Put("grade", IF chunk = <<>> THEN NoThread ELSE Started({chunk[1]}))
      /\ IF chunk # <<>>
         THEN bake' = [bake EXCEPT !.chunks[1] = chunk] /\ UNCHANGED cache
         ELSE IF rest # <<>>
         THEN bake' = [bake EXCEPT !.at = "await", !.chunks = rest] /\ UNCHANGED cache
         ELSE bake' = Idle /\ cache' = {}

Baker ==
  /\ ~ reloading
  /\ StartBake \/ ChunkReady \/ EntryDone
  /\ UNCHANGED <<randomness, local_n, llm, model_path, lock, reloading>>

-----------------------------------------------------------------------------
(***************************************************************************)
(* The trigger loop, in the event loop.                                    *)
(***************************************************************************)
Flip ==
  /\ ~ reloading
  /\ randomness < MaxRandomness
  /\ randomness' = randomness + 1
  /\ pool' = {}
  /\ UNCHANGED <<local_n, bake, cache, thread, llm, model_path, lock, reloading>>

\* A checkpoint is pulled: the engine is dropped, or, if there is none, the path
\* replaced at once ...
Reload ==
  /\ ~ reloading
  /\ local_n < MaxCheckpoint
  /\ reloading' = TRUE
  /\ llm' = NoEngine
  /\ model_path' = IF llm = NoEngine THEN local_n + 1 ELSE model_path
  /\ UNCHANGED <<randomness, local_n, pool, bake, cache, thread, lock>>

\* ... and, when its memory is free or after 30 s, the path replaced; the pool is
\* dropped and the checkpoint adopted before the event loop goes on.
Reloaded ==
  /\ reloading
  /\ reloading' = FALSE
  /\ model_path' = local_n + 1
  /\ local_n' = local_n + 1
  /\ pool' = {}
  /\ UNCHANGED <<randomness, bake, cache, thread, llm, lock>>

\* A fire task drains the pool.
Fire ==
  /\ ~ reloading
  /\ pool # {}
  /\ pool' = {}
  /\ UNCHANGED <<randomness, local_n, bake, cache, thread, llm, model_path, lock, reloading>>

-----------------------------------------------------------------------------
Init ==
  /\ randomness = 1 /\ local_n = 0
  /\ pool = {} /\ bake = Idle /\ cache = {}
  /\ thread = [t \in Threads |-> NoThread]
  /\ llm = NoEngine /\ model_path = 0 /\ lock = Free /\ reloading = FALSE

Next ==
  \/ Baker \/ Flip \/ Reload \/ Reloaded \/ Fire
  \/ \E t \in Threads : ThreadStep(t)

Spec == Init /\ [][Next]_vars

\* The threads run, and the event loop gets to what is ready.
FairSpec ==
  /\ Spec
  /\ WF_vars(Baker) /\ WF_vars(Reloaded)
  /\ \A t \in Threads : WF_vars(ThreadStep(t))

-----------------------------------------------------------------------------
Randomnesses == NoRandomness..MaxRandomness
Checkpoints == -1..MaxCheckpoint

Completions ==
  [prompt : Prompts, randomness : Randomnesses, hash : Checkpoints, model : Checkpoints]

ThreadStates ==
  [at : {"none", "start", "hash", "take", "ensure", "build", "call", "generate", "prove", "done"},
   prompts : SUBSET Prompts, randomness : Randomnesses, hash : Checkpoints,
   model : Checkpoints, attempt : Nat, result : SUBSET Completions]

Bakes ==
  [at : {"idle", "await", "grade"}, checkpoint_n : Checkpoints,
   chunks : Seq(Seq(Prompts) \ {<<>>})]

PoolEntries ==
  [prompt : Prompts, randomness : Randomnesses, hash : Checkpoints,
   checkpoint_n : Checkpoints, completions : Completions]

TypeOK ==
  /\ randomness \in Randomnesses /\ local_n \in 0..MaxCheckpoint
  /\ pool \subseteq PoolEntries
  /\ bake \in Bakes /\ (bake.at # "idle" => bake.chunks # <<>>)
  /\ cache \subseteq Completions
  /\ thread \in [Threads -> ThreadStates]
  /\ llm \in Checkpoints /\ model_path \in Checkpoints
  /\ lock \in Threads \cup {Free}
  /\ reloading \in BOOLEAN /\ (reloading => local_n < MaxCheckpoint)

\* Whatever flips while a batch is baked, the two phases of an entry are forced
\* onto the same stream: what was prefetched for another randomness or another
\* checkpoint is never continued.
OneStreamPerEntry ==
  \A e \in pool :
    /\ e.completions.prompt = e.prompt
    /\ e.completions.randomness = e.randomness
    /\ e.completions.hash = e.hash

\* A batch comes to its end, whatever the backend raises and however often the
\* checkpoint and the randomness change under it.
EveryBakeEnds == bake.at # "idle" ~> bake.at = "idle"

=============================================================================
