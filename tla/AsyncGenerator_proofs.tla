----------------------- MODULE AsyncGenerator_proofs -----------------------
(***************************************************************************)
(* Theorems about AsyncGenerator: for any environments and shares, limits, *)
(* prompt ranges, cooldowns and number of phases; and about the reader of  *)
(* the prompts it takes, ParquetCache, at the end.                         *)
(***************************************************************************)
EXTENDS AsyncGenerator, ParquetCache, SequenceFilter_proofs, FiniteSetTheorems

-----------------------------------------------------------------------------
(***************************************************************************)
(* The steps as what they do to the queues, the tasks and the pool.        *)
(***************************************************************************)
\* A retry queue, without some prompts.
LEMMA WithoutProperties ==
  ASSUME NEW queue \in Seq(Retries(Prompts)), NEW gone
  PROVE  /\ Without(queue, gone) \in Seq(Retries(Prompts))
         /\ Range(Without(queue, gone)) = {r \in Range(queue) : r.prompt \notin gone}
         /\ IsInjective(queue) => IsInjective(Without(queue, gone))
<1>1. Range(queue) \subseteq Retries(Prompts)
  BY ElementOfSeq, LenProperties DEF Range
<1>2. /\ Without(queue, gone) \in Seq(Retries(Prompts))
      /\ Range(Without(queue, gone)) = Range(queue) \cap Retries(Prompts \ gone)
      /\ IsInjective(queue) => IsInjective(Without(queue, gone))
  BY FilterProperties DEF Without
<1>3. Range(queue) \cap Retries(Prompts \ gone) = {r \in Range(queue) : r.prompt \notin gone}
  BY <1>1 DEF Retries
<1> QED
  BY <1>2, <1>3

\* One more task at most is in flight after _submit_one: for a prompt that no task
\* of its environment has, and that no retry of it is left of.
LEMMA SubmitParts ==
  ASSUME TypeOK, NEW env \in Envs, SubmitFor(env)
  PROVE  /\ turn' \in Nat
         /\ \E gone :
              /\ retry' = [retry EXCEPT ![env] = Without(@, gone)]
              /\ \/ pending' = pending
                 \/ \E p \in Prompts, phases \in 0..MAX_PHASES :
                      /\ pending' = pending \cup {NewTask(env, p, phases)}
                      /\ p \notin InFlight(env)
                      /\ \A r \in Range(retry[env]) : r.prompt = p => p \in gone
<1> DEFINE picks == RetryPicks(env)
           keep == Retries(Prompts \ (InFlight(env) \cup Cooldown[window]))
<1>1. retry[env] \in Seq(Retries(Prompts))
  BY DEF TypeOK
<1>2. picks \in Seq(Retries(Prompts)) /\ Range(picks) = Range(retry[env]) \cap keep
  BY <1>1, FilterProperties DEF RetryPicks
<1>3. Len(picks) \in Nat /\ DOMAIN picks = 1..Len(picks)
  BY <1>2, LenProperties
<1>4. turn' \in Nat
  <2>1. turn' = turn \/ turn' = (turn + 1) % TIE_CYCLE
    BY DEF SubmitFor, Rotated
  <2>2. (turn + 1) % TIE_CYCLE \in Nat
    BY AsyncAssumption DEF TypeOK
  <2> QED
    BY <2>1, <2>2 DEF TypeOK
<1> DEFINE gone(n) == {picks[i].prompt : i \in 1..Min({n + 1, Len(picks)})}
<1>5. PICK n \in 0..Len(picks) :
        /\ retry' = [retry EXCEPT ![env] = Without(@, gone(n))]
        /\ \/ /\ n < Len(picks)
              /\ pending' = pending \cup
                   {NewTask(env, picks[n + 1].prompt, picks[n + 1].phases)}
           \/ /\ n = Len(picks)
              /\ IF FreshPicks(env) = {}
                 THEN UNCHANGED pending
                 ELSE \E p \in FreshPicks(env) :
                        pending' = pending \cup {NewTask(env, p, 0)}
  BY DEF SubmitFor
<1> HIDE DEF picks
<1>6. CASE /\ n < Len(picks)
           /\ pending' = pending \cup
                {NewTask(env, picks[n + 1].prompt, picks[n + 1].phases)}
  <2>1. n + 1 \in 1..Len(picks) /\ n + 1 \in Nat
    BY <1>3, <1>6
  <2>2. picks[n + 1] \in keep /\ picks[n + 1] \in Retries(Prompts)
    <3>1. picks[n + 1] \in Range(picks)
      BY <1>3, <2>1 DEF Range
    <3>2. picks[n + 1] \in keep
      BY <1>2, <3>1
    <3> QED
      BY <3>2 DEF Retries
  <2>3. Min({n + 1, Len(picks)}) = n + 1
    <3>1. Min({n + 1, Len(picks)}) \in {n + 1, Len(picks)} /\ Min({n + 1, Len(picks)}) <= n + 1
      BY <1>3, <2>1, MinOfTwo
    <3> QED
      BY <1>3, <1>6, <2>1, <3>1
  <2>4. picks[n + 1].prompt \in gone(n)
    <3>1. n + 1 \in 1..Min({n + 1, Len(picks)})
      BY <2>1, <2>3
    <3> QED
      BY <3>1
  <2>5. /\ picks[n + 1].prompt \in Prompts /\ picks[n + 1].prompt \notin InFlight(env)
        /\ picks[n + 1].phases \in 0..MAX_PHASES
    BY <2>2 DEF Retries
  <2>6. pending' = pending \cup {NewTask(env, picks[n + 1].prompt, picks[n + 1].phases)}
    BY <1>6
  <2>7. retry' = [retry EXCEPT ![env] = Without(@, gone(n))]
    BY <1>5
  <2>8. \A r \in Range(retry[env]) : r.prompt = picks[n + 1].prompt =>
          picks[n + 1].prompt \in gone(n)
    BY <2>4
  <2>9. \E p \in Prompts, phases \in 0..MAX_PHASES :
          /\ pending' = pending \cup {NewTask(env, p, phases)}
          /\ p \notin InFlight(env)
          /\ \A r \in Range(retry[env]) : r.prompt = p => p \in gone(n)
    <3> HIDE DEF gone
    <3> QED
      BY <2>5, <2>6, <2>8
  <2> HIDE DEF gone
  <2> QED
    BY <1>4, <2>7, <2>9
<1>7. CASE /\ n = Len(picks)
           /\ IF FreshPicks(env) = {}
              THEN UNCHANGED pending
              ELSE \E p \in FreshPicks(env) : pending' = pending \cup {NewTask(env, p, 0)}
  <2>1. Min({n + 1, Len(picks)}) = Len(picks)
    <3>1. /\ Min({n + 1, Len(picks)}) \in {n + 1, Len(picks)}
          /\ Min({n + 1, Len(picks)}) <= Len(picks)
      BY <1>3, <1>7, MinOfTwo
    <3> QED
      BY <1>3, <1>7, <3>1
  <2>2. gone(n) = {picks[i].prompt : i \in 1..Len(picks)}
    BY <2>1
  <2>3. CASE FreshPicks(env) = {}
    <3>1. pending' = pending
      BY <1>7, <2>3
    <3>2. retry' = [retry EXCEPT ![env] = Without(@, gone(n))]
      BY <1>5
    <3> HIDE DEF gone
    <3> QED
      BY <1>4, <3>1, <3>2
  <2>4. CASE FreshPicks(env) # {}
    <3>1. PICK p \in FreshPicks(env) : pending' = pending \cup {NewTask(env, p, 0)}
      BY <1>7, <2>4
    <3>2. p \in Prompts /\ p \notin InFlight(env) /\ p \notin Cooldown[window]
      <4>1. InRange \subseteq Prompts
        BY AsyncAssumption DEF InRange, TypeOK
      <4> QED
        BY <4>1 DEF FreshPicks
    <3>3. ASSUME NEW r \in Range(retry[env]), r.prompt = p
          PROVE  p \in gone(n)
      <4>1. r \in Retries(Prompts)
        BY <1>1, ElementOfSeq, LenProperties DEF Range
      <4>2. r \in keep
        BY <3>2, <3>3, <4>1 DEF Retries
      <4>3. r \in Range(picks)
        BY <1>2, <4>2
      <4>4. PICK i \in 1..Len(picks) : r = picks[i]
        BY <1>3, <4>3 DEF Range
      <4> QED
        BY <2>2, <3>3, <4>4
    <3>4. 0 \in 0..MAX_PHASES
      BY AsyncAssumption
    <3>5. retry' = [retry EXCEPT ![env] = Without(@, gone(n))]
      BY <1>5
    <3> HIDE DEF gone
    <3> QED
      BY <1>4, <3>1, <3>2, <3>3, <3>4, <3>5
  <2> QED
    BY <2>3, <2>4
<1> QED
  BY <1>5, <1>6, <1>7

\* The steps that submit, and the one that ends the filling: none touches the
\* pool, and the task in hand, if any, is done with.
LEMMA SubmitSteps ==
  ASSUME TypeOK, Fill \/ Filled \/ WakeUp \/ Replace
  PROVE  /\ UNCHANGED <<mode, window, local_n, pool, fired>>
         /\ loop.at \in {"fill", "sleep", "replace"}
         /\ loop'.at \notin Working /\ loop'.hand = {}
         /\ \/ UNCHANGED <<retry, pending, turn>>
            \/ pending' = {} /\ UNCHANGED <<retry, turn>>
            \/ /\ ~ PoolFull
               /\ loop.at = "fill" => Cardinality(pending) < mode.target_active
               /\ \E env \in Envs : SubmitFor(env)
<1>1. loop.at \in {"fill", "sleep", "batch"} => loop.hand = {}
  BY DEF TypeOK, LoopTypeOK, Working
<1>2. ASSUME NEW batch, Resume(batch)
      PROVE  loop'.at \notin Working /\ loop'.hand = {}
  BY <1>2 DEF Resume, Working
<1>3. ASSUME SubmitRaises
      PROVE  /\ pending' = {} /\ UNCHANGED <<retry, turn>>
             /\ loop'.at \notin Working /\ loop'.hand = {}
  BY <1>3 DEF SubmitRaises, Working
<1>4. ASSUME SubmitOne
      PROVE  \E env \in Envs : SubmitFor(env)
  BY <1>4 DEF SubmitOne
<1>5. CASE Fill
  BY <1>1, <1>2, <1>3, <1>4, <1>5 DEF Fill, Working
<1>6. CASE Filled
  BY <1>2, <1>6 DEF Filled
<1>7. CASE WakeUp
  BY <1>2, <1>3, <1>4, <1>7 DEF WakeUp, Refill
<1>8. CASE Replace
  BY <1>2, <1>3, <1>4, <1>8 DEF Replace, Refill
<1> QED
  BY <1>5, <1>6, <1>7, <1>8

\* A request of vLLM ends.
LEMMA CompleteParts ==
  ASSUME TypeOK, NEW env \in Envs, NEW prompt \in Prompts, Complete(env, prompt)
  PROVE  \E t \in pending :
           /\ ~ t.done
           /\ LET u == [t EXCEPT !.done = TRUE]
              IN  /\ u \in Tasks /\ u.done /\ u.env = t.env /\ u.prompt = t.prompt
                  /\ pending' = (pending \ {t}) \cup {u}
           /\ Yielded /\ UNCHANGED <<mode, window, local_n, pool, fired, retry, loop, turn>>
<1>1. PICK t \in pending : ~ t.done /\ pending' = (pending \ {t}) \cup {[t EXCEPT !.done = TRUE]}
  BY DEF Complete
<1>2. t \in Tasks
  BY DEF TypeOK
<1> QED
  BY <1>1, <1>2 DEF Complete, Tasks

\* What the trigger loop and the fire task do leaves the generator and its tasks
\* alone, keeps or clears the queues, and makes no entry.
LEMMA MinerParts ==
  ASSUME TypeOK, Miner
  PROVE  /\ Yielded /\ UNCHANGED <<mode, pending, loop, turn>>
         /\ window' \in 0..MaxWindow /\ local_n' \in -1..MaxCheckpoint
         /\ pool' \in Seq(PoolEntries(Prompts)) /\ fired' \in Seq(PoolEntries(Prompts))
         /\ Len(pool') + Len(fired') <= Len(pool) + Len(fired)
         /\ Len(fired) <= MAX_SUBMISSIONS => Len(fired') <= MAX_SUBMISSIONS
         /\ retry' = retry \/ retry' = [e \in Envs |-> <<>>]
<1>1. /\ pool \in Seq(PoolEntries(Prompts)) /\ fired \in Seq(PoolEntries(Prompts))
      /\ Len(pool) \in Nat /\ Len(fired) \in Nat
      /\ window \in 0..MaxWindow /\ local_n \in -1..MaxCheckpoint
      /\ MaxWindow \in Nat /\ MaxCheckpoint \in Nat /\ MAX_SUBMISSIONS \in Nat
  BY LenProperties, AsyncAssumption DEF TypeOK
<1>2. <<>> \in Seq(PoolEntries(Prompts)) /\ Len(<<>>) = 0
  BY EmptySeq
<1>3. CASE Flip
  <2>1. window' \in 0..MaxWindow
    BY <1>1, <1>3 DEF Flip
  <2>2. pool' \in Seq(PoolEntries(Prompts)) /\ Len(pool') <= Len(pool)
    <3>1. pool' = <<>> \/ pool' = pool
      BY <1>3 DEF Flip
    <3>2. CASE pool' = <<>>
      BY <1>1, <1>2, <3>2
    <3>3. CASE pool' = pool
      BY <1>1, <3>3
    <3> QED
      BY <3>1, <3>2, <3>3
  <2>3. Len(pool') \in Nat
    BY <2>2, LenProperties
  <2> QED
    BY <1>1, <1>3, <2>1, <2>2, <2>3 DEF Flip
<1>4. CASE Adopt
  BY <1>1, <1>2, <1>4 DEF Adopt
<1>5. CASE Drain
  <2> DEFINE ready == Filtered(pool, PoolEntries(InRange \ Cooldown[window]))
             k == Min({Len(ready), MAX_SUBMISSIONS})
  <2>1. ready \in Seq(PoolEntries(Prompts)) /\ Len(ready) <= Len(pool)
    BY <1>1, FilterProperties
  <2>2. /\ fired = <<>>
        /\ fired' = SubSeq(ready, 1, k) /\ pool' = SubSeq(ready, k + 1, Len(ready))
        /\ Yielded /\ UNCHANGED <<mode, window, local_n, retry, pending, loop, turn>>
    BY <1>5 DEF Drain
  <2> HIDE DEF ready
  <2>3. Len(ready) \in Nat /\ \A i \in 1..Len(ready) : ready[i] \in PoolEntries(Prompts)
    BY <2>1, LenProperties, ElementOfSeq
  <2>4. k \in Nat /\ k <= Len(ready) /\ k <= MAX_SUBMISSIONS
    BY <1>1, <2>3, MinOfTwo
  <2> HIDE DEF k
  <2>5. SubSeq(ready, 1, k) \in Seq(PoolEntries(Prompts)) /\ Len(SubSeq(ready, 1, k)) = k
    <3>1. \A i \in 1..k : ready[i] \in PoolEntries(Prompts)
      BY <2>3, <2>4
    <3>2. /\ SubSeq(ready, 1, k) \in Seq(PoolEntries(Prompts))
          /\ Len(SubSeq(ready, 1, k)) = IF 1 <= k THEN k - 1 + 1 ELSE 0
      BY <2>4, <3>1, SubSeqProperties
    <3> QED
      BY <2>4, <3>2
  <2>6. /\ SubSeq(ready, k + 1, Len(ready)) \in Seq(PoolEntries(Prompts))
        /\ Len(SubSeq(ready, k + 1, Len(ready))) = Len(ready) - k
    <3>1. \A i \in k + 1..Len(ready) : ready[i] \in PoolEntries(Prompts)
      BY <2>3, <2>4
    <3>2. k + 1 \in Int /\ Len(ready) \in Int
      BY <2>3, <2>4
    <3>3. /\ SubSeq(ready, k + 1, Len(ready)) \in Seq(PoolEntries(Prompts))
          /\ Len(SubSeq(ready, k + 1, Len(ready))) =
               IF k + 1 <= Len(ready) THEN Len(ready) - (k + 1) + 1 ELSE 0
      BY <3>1, <3>2, SubSeqProperties
    <3> QED
      BY <2>3, <2>4, <3>3
  <2>7. Len(fired') = k /\ Len(pool') = Len(ready) - k
    BY <2>2, <2>5, <2>6
  <2>8. Len(pool') + Len(fired') <= Len(pool) + Len(fired) /\ Len(fired') <= MAX_SUBMISSIONS
    BY <1>1, <2>1, <2>3, <2>4, <2>7
  <2>9. pool' \in Seq(PoolEntries(Prompts)) /\ fired' \in Seq(PoolEntries(Prompts))
    BY <2>2, <2>5, <2>6
  <2> QED
    BY <1>1, <2>2, <2>8, <2>9
<1>6. CASE Requeue
  <2>1. PICK back \in SUBSET DOMAIN fired :
          pool' = LET order == Filtered([i \in DOMAIN fired |-> i], back)
                  IN  pool \o [i \in DOMAIN order |-> fired[order[i]]]
    BY <1>6 DEF Requeue
  <2> DEFINE order == Filtered([i \in DOMAIN fired |-> i], back)
             again == [i \in DOMAIN order |-> fired[order[i]]]
  <2>2. DOMAIN fired = 1..Len(fired)
    BY <1>1, LenProperties
  <2>3. [i \in DOMAIN fired |-> i] \in Seq(DOMAIN fired) /\ Len([i \in DOMAIN fired |-> i]) = Len(fired)
    <3>1. [i \in DOMAIN fired |-> i] \in [1..Len(fired) -> DOMAIN fired]
      BY <2>2
    <3> QED
      BY <1>1, <3>1, FunctionIsSeq
  <2>4. order \in Seq(DOMAIN fired) /\ Len(order) <= Len(fired)
    BY <2>3, FilterProperties
  <2>5. pool' = pool \o again
    BY <2>1
  <2> HIDE DEF order
  <2>6. Len(order) \in Nat /\ DOMAIN order = 1..Len(order)
    BY <2>4, LenProperties
  <2>7. \A i \in 1..Len(order) : fired[order[i]] \in PoolEntries(Prompts)
    <3>1. \A i \in 1..Len(order) : order[i] \in DOMAIN fired
      BY <2>4, <2>6, ElementOfSeq
    <3>2. \A j \in DOMAIN fired : fired[j] \in PoolEntries(Prompts)
      BY <1>1, <2>2, ElementOfSeq
    <3> QED
      BY <3>1, <3>2
  <2>8. again \in [1..Len(order) -> PoolEntries(Prompts)]
    BY <2>6, <2>7
  <2>9. again \in Seq(PoolEntries(Prompts)) /\ Len(again) = Len(order)
    BY <2>6, <2>8, FunctionIsSeq
  <2> HIDE DEF again
  <2>10. pool' \in Seq(PoolEntries(Prompts)) /\ Len(pool') = Len(pool) + Len(order)
    <3>1. /\ pool \o again \in Seq(PoolEntries(Prompts))
          /\ Len(pool \o again) = Len(pool) + Len(again)
      BY <1>1, <2>9, ConcatProperties
    <3> QED
      BY <2>5, <2>9, <3>1
  <2>11. fired' = <<>> /\ Yielded /\ UNCHANGED <<mode, window, local_n, retry, pending, loop, turn>>
    BY <1>6 DEF Requeue
  <2> QED
    BY <1>1, <1>2, <2>4, <2>6, <2>10, <2>11
<1> QED
  BY <1>3, <1>4, <1>5, <1>6 DEF Miner

-----------------------------------------------------------------------------
(***************************************************************************)
(* The types.                                                              *)
(***************************************************************************)
LEMMA TypeInit == Init => TypeOK
<1> SUFFICES ASSUME Init PROVE TypeOK
  OBVIOUS
<1>1. /\ <<>> \in Seq(PoolEntries(Prompts)) /\ <<>> \in Seq(Retries(Prompts))
      /\ IsFiniteSet({})
  BY EmptySeq, FS_EmptySet
<1>2. LoopTypeOK
  BY DEF Init, LoopTypeOK, Working
<1> QED
  BY <1>1, <1>2, AsyncAssumption DEF Init, TypeOK

\* What _submit_one leaves.
LEMMA SubmitType ==
  ASSUME TypeOK, NEW env \in Envs, SubmitFor(env)
  PROVE  /\ turn' \in Nat
         /\ retry' \in [Envs -> Seq(Retries(Prompts))]
         /\ pending' \subseteq Tasks /\ IsFiniteSet(pending')
         /\ pending \subseteq pending'
         /\ Cardinality(pending') \in Nat
         /\ Cardinality(pending') <= Cardinality(pending) + 1
<1>1. PICK gone :
        /\ retry' = [retry EXCEPT ![env] = Without(@, gone)]
        /\ \/ pending' = pending
           \/ \E p \in Prompts, phases \in 0..MAX_PHASES :
                pending' = pending \cup {NewTask(env, p, phases)}
  BY SubmitParts
<1>2. turn' \in Nat
  BY SubmitParts
<1>3. retry' \in [Envs -> Seq(Retries(Prompts))]
  <2>1. Without(retry[env], gone) \in Seq(Retries(Prompts))
    BY WithoutProperties DEF TypeOK
  <2> QED
    BY <1>1, <2>1 DEF TypeOK
<1>4. IsFiniteSet(pending) /\ Cardinality(pending) \in Nat
  BY FS_CardinalityType DEF TypeOK
<1>5. CASE pending' = pending
  BY <1>2, <1>3, <1>4, <1>5 DEF TypeOK
<1>6. CASE \E p \in Prompts, phases \in 0..MAX_PHASES :
             pending' = pending \cup {NewTask(env, p, phases)}
  <2>1. PICK p \in Prompts, phases \in 0..MAX_PHASES :
          pending' = pending \cup {NewTask(env, p, phases)}
    BY <1>6
  <2>2. NewTask(env, p, phases) \in Tasks
    BY DEF NewTask, Tasks, TypeOK
  <2>3. /\ IsFiniteSet(pending \cup {NewTask(env, p, phases)})
        /\ Cardinality(pending \cup {NewTask(env, p, phases)}) =
             IF NewTask(env, p, phases) \in pending
             THEN Cardinality(pending) ELSE Cardinality(pending) + 1
    BY <1>4, FS_AddElement
  <2>4. Cardinality(pending') \in Nat /\ Cardinality(pending') <= Cardinality(pending) + 1
    BY <1>4, <2>1, <2>3
  <2> QED
    BY <1>2, <1>3, <2>1, <2>2, <2>3, <2>4 DEF TypeOK
<1> QED
  BY <1>1, <1>5, <1>6

\* Where the generator goes on after it has submitted.
LEMMA ResumeType ==
  ASSUME TypeOK, NEW batch \in {{}, loop.batch}, Resume(batch), pending \subseteq pending'
  PROVE  LoopTypeOK'
BY DEF TypeOK, Resume, LoopTypeOK, Working

LEMMA SubmitLoop ==
  ASSUME TypeOK, Fill \/ Filled \/ WakeUp \/ Replace
  PROVE  LoopTypeOK'
<1>1. ASSUME SubmitOne
      PROVE  pending \subseteq pending'
  BY <1>1, SubmitType DEF SubmitOne
<1>2. ASSUME SubmitRaises
      PROVE  LoopTypeOK'
  BY <1>2 DEF SubmitRaises, LoopTypeOK, Working
<1>3. CASE Fill
  <2>1. CASE SubmitOne /\ pending' = pending /\ Resume({})
    BY <2>1, ResumeType
  <2>2. CASE SubmitOne /\ UNCHANGED loop
    <3>1. loop.at = "fill"
      BY <1>3 DEF Fill
    <3> QED
      BY <1>1, <2>2, <3>1 DEF TypeOK, LoopTypeOK, Working
  <2> QED
    BY <1>2, <1>3, <2>1, <2>2 DEF Fill
<1>4. CASE Filled
  BY <1>4, ResumeType DEF Filled
<1>5. CASE WakeUp
  BY <1>1, <1>2, <1>5, ResumeType DEF WakeUp, Refill
<1>6. CASE Replace
  BY <1>1, <1>2, <1>6, ResumeType DEF Replace, Refill
<1> QED
  BY <1>3, <1>4, <1>5, <1>6

\* The task in hand stays there until it is replaced.
LEMMA HandKept ==
  ASSUME LoopTypeOK, loop.at \in Working, NEW place \in Working, loop' = At(place),
         UNCHANGED pending
  PROVE  LoopTypeOK' /\ loop'.hand = loop.hand /\ Task' = Task
BY DEF LoopTypeOK, At, Task, Working

\* A task of the batch is in flight; once taken, it is in hand.
LEMMA TakeParts ==
  ASSUME TypeOK, TakeTask
  PROVE  \E t \in pending :
           /\ t \in Tasks /\ t.done
           /\ pending' = pending \ {t}
           /\ loop.hand = {} /\ loop.at = "batch"
           /\ loop'.at = "forward" /\ loop'.hand = {t} /\ Task' = t
           /\ LoopTypeOK'
<1>1. PICK t \in loop.batch :
        /\ pending' = pending \ {t}
        /\ loop' = [at |-> "forward", batch |-> loop.batch \ {t}, hand |-> {t}]
  BY DEF TakeTask
<1>2. t \in pending /\ t.done /\ t \in Tasks
  BY DEF TypeOK, LoopTypeOK
<1>3. loop.hand = {} /\ loop.at = "batch"
  BY DEF TakeTask, TypeOK, LoopTypeOK, Working
<1>4. Task' = t
  <2>1. loop'.hand = {t}
    BY <1>1
  <2>2. Task' = CHOOSE u \in loop'.hand : TRUE
    BY DEF Task
  <2> QED
    BY <2>1, <2>2
<1>5. LoopTypeOK'
  BY <1>1, <1>2, <1>4 DEF TypeOK, LoopTypeOK, Working
<1> QED
  BY <1>1, <1>2, <1>3, <1>4, <1>5

LEMMA TypeStep == TypeOK /\ [Next]_vars => TypeOK'
<1> SUFFICES ASSUME TypeOK, [Next]_vars PROVE TypeOK'
  OBVIOUS
<1>1. loop.at \in Working => Task \in Tasks
  BY DEF TypeOK, LoopTypeOK
<1>2. CASE Fill \/ Filled \/ WakeUp \/ Replace
  <2>1. LoopTypeOK' /\ UNCHANGED <<mode, window, local_n, pool, fired>>
    BY <1>2, SubmitLoop, SubmitSteps
  <2>2. CASE UNCHANGED <<retry, pending, turn>>
    BY <2>1, <2>2 DEF TypeOK
  <2>3. CASE pending' = {} /\ UNCHANGED <<retry, turn>>
    BY <2>1, <2>3, FS_EmptySet DEF TypeOK
  <2>4. CASE \E env \in Envs : SubmitFor(env)
    BY <2>1, <2>4, SubmitType DEF TypeOK
  <2> QED
    BY <1>2, <2>2, <2>3, <2>4, SubmitSteps
<1>3. CASE WaitReturns
  BY <1>3 DEF WaitReturns, Finished, TypeOK, LoopTypeOK, Working
<1>4. CASE TakeTask
  <2>1. UNCHANGED <<mode, window, local_n, pool, fired, retry, turn>>
    BY <1>4 DEF TakeTask
  <2>2. IsFiniteSet(pending') /\ pending' \subseteq pending /\ LoopTypeOK'
    BY <1>4, TakeParts, FS_RemoveElement DEF TypeOK
  <2> QED
    BY <2>1, <2>2 DEF TypeOK
<1>5. CASE DropTask
  BY <1>5, HandKept DEF DropTask, TypeOK, Working
<1>6. CASE AppendEntry
  <2>1. /\ loop.at = "forward" /\ UNCHANGED <<mode, window, local_n, fired, retry, pending, turn>>
        /\ loop' = At("replace") \/ loop' = At("save")
    BY <1>6 DEF AppendEntry
  <2>2. LoopTypeOK'
    BY <2>1, HandKept DEF TypeOK, Working
  <2>3. Selected \in PoolEntries(Prompts)
    BY <1>1, <2>1 DEF Working, Tasks, Selected, PoolEntries
  <2>4. pool' \in Seq(PoolEntries(Prompts))
    BY <1>6, <2>3, AppendProperties DEF AppendEntry, TypeOK
  <2> QED
    BY <2>1, <2>2, <2>4 DEF TypeOK
<1>7. CASE Saved
  BY <1>7, HandKept DEF Saved, TypeOK, Working
<1>8. CASE RetryTask
  <2> DEFINE env == Task.env
             r == [prompt |-> Task.prompt, phases |-> Task.phases + 1]
  <2>1. /\ loop.at = "forward" /\ loop' = At("replace") /\ Task.phases + 1 < MAX_PHASES
        /\ UNCHANGED <<mode, window, local_n, pool, fired, pending, turn>>
        /\ retry' = [retry EXCEPT ![env] = Append(Without(@, {r.prompt}), r)]
    BY <1>8 DEF RetryTask, MorePhases
  <2>2. LoopTypeOK'
    BY <2>1, HandKept DEF TypeOK, Working
  <2>3. env \in Envs /\ r \in Retries(Prompts)
    BY <1>1, <2>1, AsyncAssumption DEF Working, Tasks, Retries
  <2>4. Append(Without(retry[env], {r.prompt}), r) \in Seq(Retries(Prompts))
    BY <2>3, WithoutProperties, AppendProperties DEF TypeOK
  <2> QED
    BY <2>1, <2>2, <2>3, <2>4 DEF TypeOK
<1>9. ASSUME NEW env \in Envs, NEW prompt \in Prompts, Complete(env, prompt)
      PROVE  TypeOK'
  <2>1. PICK t \in pending, u \in Tasks :
          /\ ~ t.done /\ pending' = (pending \ {t}) \cup {u}
          /\ UNCHANGED <<mode, window, local_n, pool, fired, retry, loop, turn>>
          /\ Yielded
    BY <1>9, CompleteParts
  <2>2. IsFiniteSet(pending') /\ pending' \subseteq Tasks
    BY <2>1, FS_RemoveElement, FS_AddElement DEF TypeOK
  <2>3. LoopTypeOK'
    BY <2>1 DEF TypeOK, LoopTypeOK, Task, Yielded
  <2> QED
    BY <2>1, <2>2, <2>3 DEF TypeOK
<1>10. CASE Miner
  <2>1. LoopTypeOK'
    BY <1>10, MinerParts DEF TypeOK, LoopTypeOK, Task
  <2>2. retry' \in [Envs -> Seq(Retries(Prompts))]
    BY <1>10, MinerParts, EmptySeq DEF TypeOK
  <2> QED
    BY <1>10, <2>1, <2>2, MinerParts DEF TypeOK
<1>11. CASE UNCHANGED vars
  BY <1>11 DEF vars, TypeOK, LoopTypeOK, Task
<1> QED
  BY <1>2, <1>3, <1>4, <1>5, <1>6, <1>7, <1>8, <1>9, <1>10, <1>11 DEF Next, Loop

\* The generator's state is well formed in every reachable state; in particular the
\* tasks of a batch are still in flight when their turn comes, and one task is in
\* hand exactly while its rollouts are graded, saved or replaced.
THEOREM TypeCorrect == Spec => []TypeOK
BY TypeInit, TypeStep, PTL DEF Spec

-----------------------------------------------------------------------------
(***************************************************************************)
(* A prompt is in one place.                                               *)
(***************************************************************************)
\* The task in hand, until its rollouts are settled: while it is being replaced it
\* is over, though the generator has not let it go.
InHand == IF loop.at = "replace" THEN {} ELSE loop.hand

Busy == pending \cup InHand

HandIsApart == InHand \cap pending = {}

OneTaskEach == \A t, u \in Busy : t.env = u.env /\ t.prompt = u.prompt => t = u

RetriesDiffer ==
  \A e \in Envs :
    /\ IsInjective(retry[e])
    /\ \A r, s \in Range(retry[e]) : r.prompt = s.prompt => r = s

RetriesAreIdle ==
  \A e \in Envs : \A r \in Range(retry[e]), t \in Busy : t.env = e => t.prompt # r.prompt

OnceInv == HandIsApart /\ OneTaskEach /\ RetriesDiffer /\ RetriesAreIdle

LEMMA EmptyQueue == IsInjective(<<>>) /\ Range(<<>>) = {}
BY DEF IsInjective, Range

LEMMA OnceInit == Init => OnceInv
<1> SUFFICES ASSUME Init PROVE OnceInv
  OBVIOUS
<1>1. Busy = {} /\ InHand = {}
  BY DEF Init, Busy, InHand
<1>2. \A e \in Envs : retry[e] = <<>>
  BY DEF Init
<1> QED
  BY <1>1, <1>2, EmptyQueue
  DEF OnceInv, HandIsApart, OneTaskEach, RetriesDiffer, RetriesAreIdle

\* Nothing new is in flight or in hand, and the queues stay or lose retries.
LEMMA LessIsOnce ==
  ASSUME OnceInv, Busy' \subseteq Busy, HandIsApart', UNCHANGED retry
  PROVE  OnceInv'
BY DEF OnceInv, OneTaskEach, RetriesDiffer, RetriesAreIdle

LEMMA SubmitIsOnce ==
  ASSUME TypeOK, OnceInv, NEW env \in Envs, SubmitFor(env), InHand = {}, InHand' = {}
  PROVE  OnceInv'
<1>1. PICK gone :
        /\ retry' = [retry EXCEPT ![env] = Without(@, gone)]
        /\ \/ pending' = pending
           \/ \E p \in Prompts, phases \in 0..MAX_PHASES :
                /\ pending' = pending \cup {NewTask(env, p, phases)}
                /\ p \notin InFlight(env)
                /\ \A r \in Range(retry[env]) : r.prompt = p => p \in gone
  BY SubmitParts
<1>2. /\ IsInjective(retry'[env])
      /\ Range(retry'[env]) = {r \in Range(retry[env]) : r.prompt \notin gone}
      /\ \A e \in Envs : e # env => retry'[e] = retry[e]
  <2>1. retry[env] \in Seq(Retries(Prompts)) /\ retry'[env] = Without(retry[env], gone)
    BY <1>1 DEF TypeOK
  <2>2. \A e \in Envs : e # env => retry'[e] = retry[e]
    BY <1>1 DEF TypeOK
  <2> QED
    BY <2>1, <2>2, WithoutProperties DEF OnceInv, RetriesDiffer
<1>3. HandIsApart'
  BY DEF HandIsApart
<1>4. RetriesDiffer'
  BY <1>2 DEF OnceInv, RetriesDiffer
<1>5. Busy = pending /\ Busy' = pending'
  BY DEF Busy
<1>6. CASE pending' = pending
  BY <1>2, <1>3, <1>4, <1>5, <1>6 DEF OnceInv, OneTaskEach, RetriesAreIdle
<1>7. CASE \E p \in Prompts, phases \in 0..MAX_PHASES :
             /\ pending' = pending \cup {NewTask(env, p, phases)}
             /\ p \notin InFlight(env)
             /\ \A r \in Range(retry[env]) : r.prompt = p => p \in gone
  <2>1. PICK p \in Prompts, phases \in 0..MAX_PHASES :
          /\ pending' = pending \cup {NewTask(env, p, phases)}
          /\ p \notin InFlight(env)
          /\ \A r \in Range(retry[env]) : r.prompt = p => p \in gone
    BY <1>7
  <2> DEFINE new == NewTask(env, p, phases)
  <2>2. new.env = env /\ new.prompt = p
    BY DEF NewTask
  <2>3. \A t \in pending : t.env = env => t.prompt # p
    BY <2>1 DEF InFlight
  <2>4. pending' = pending \cup {new}
    BY <2>1
  <2> HIDE DEF new
  <2>5. OneTaskEach'
    BY <1>5, <2>2, <2>3, <2>4 DEF OnceInv, OneTaskEach
  <2>6. RetriesAreIdle'
    <3> SUFFICES ASSUME NEW e \in Envs, NEW r \in Range(retry'[e]), NEW t \in pending', t.env = e
                 PROVE  t.prompt # r.prompt
      BY <1>5 DEF RetriesAreIdle
    <3>1. r \in Range(retry[e])
      BY <1>2
    <3>2. CASE t \in pending
      BY <1>5, <3>1, <3>2 DEF OnceInv, RetriesAreIdle
    <3>3. CASE t = new
      <4>1. e = env /\ r.prompt \notin gone
        BY <1>2, <2>2, <3>3
      <4> QED
        BY <2>1, <2>2, <3>1, <3>3, <4>1
    <3> QED
      BY <2>4, <3>2, <3>3
  <2> QED
    BY <1>3, <1>4, <2>5, <2>6 DEF OnceInv
<1> QED
  BY <1>1, <1>6, <1>7

\* The task in hand goes back to the queue of its environment.
LEMMA RetryIsOnce ==
  ASSUME TypeOK, OnceInv, RetryTask
  PROVE  OnceInv'
<1> DEFINE env == Task.env
           r == [prompt |-> Task.prompt, phases |-> Task.phases + 1]
           rest == Without(retry[env], {r.prompt})
<1>1. /\ loop.at = "forward" /\ loop'.at = "replace" /\ UNCHANGED pending
      /\ Task.phases + 1 < MAX_PHASES
      /\ retry' = [retry EXCEPT ![env] = Append(Without(@, {r.prompt}), r)]
  BY DEF RetryTask, MorePhases, At, TypeOK, LoopTypeOK
<1>2. InHand = {Task} /\ InHand' = {} /\ Task \in Tasks
  BY <1>1 DEF InHand, TypeOK, LoopTypeOK, Working
<1>3. Busy' = pending /\ Busy = pending \cup {Task}
  BY <1>1, <1>2 DEF Busy
<1>4. env \in Envs /\ r \in Retries(Prompts)
  BY <1>1, <1>2, AsyncAssumption DEF Tasks, Retries
<1>5. /\ rest \in Seq(Retries(Prompts)) /\ IsInjective(rest)
      /\ Range(rest) = {q \in Range(retry[env]) : q.prompt \notin {r.prompt}}
  BY <1>4, WithoutProperties DEF TypeOK, OnceInv, RetriesDiffer
<1>6. retry'[env] = Append(rest, r) /\ \A e \in Envs : e # env => retry'[e] = retry[e]
  BY <1>1, <1>4 DEF TypeOK
<1>7. r.prompt = Task.prompt
  OBVIOUS
<1> HIDE DEF r, rest
<1>8. Range(retry'[env]) = Range(rest) \cup {r} /\ IsInjective(retry'[env])
  BY <1>4, <1>5, <1>6, RangeAppend, AppendDistinct
<1>9. RetriesDiffer'
  <2> SUFFICES ASSUME NEW e \in Envs
               PROVE  /\ IsInjective(retry'[e])
                      /\ \A q, s \in Range(retry'[e]) : q.prompt = s.prompt => q = s
    BY DEF RetriesDiffer
  <2>1. CASE e = env
    BY <1>4, <1>5, <1>8, <2>1 DEF OnceInv, RetriesDiffer
  <2>2. CASE e # env
    BY <1>6, <2>2 DEF OnceInv, RetriesDiffer
  <2> QED
    BY <2>1, <2>2
<1>10. RetriesAreIdle'
  <2> SUFFICES ASSUME NEW e \in Envs, NEW q \in Range(retry'[e]), NEW t \in pending, t.env = e
               PROVE  t.prompt # q.prompt
    BY <1>3 DEF RetriesAreIdle
  <2>1. CASE q \in Range(retry[e])
    BY <1>3, <2>1 DEF OnceInv, RetriesAreIdle
  <2>2. CASE e = env /\ q = r
    <3>1. t # Task
      BY <1>2 DEF OnceInv, HandIsApart
    <3> QED
      BY <1>3, <1>7, <2>2, <3>1 DEF OnceInv, OneTaskEach
  <2> QED
    BY <1>5, <1>6, <1>8, <2>1, <2>2
<1>11. HandIsApart' /\ OneTaskEach'
  BY <1>2, <1>3 DEF OnceInv, HandIsApart, OneTaskEach
<1> QED
  BY <1>9, <1>10, <1>11 DEF OnceInv

\* A request that ends is the same task, with its result.
LEMMA CompleteIsOnce ==
  ASSUME TypeOK, OnceInv, NEW env \in Envs, NEW prompt \in Prompts, Complete(env, prompt)
  PROVE  OnceInv'
<1>1. PICK t \in pending :
        /\ ~ t.done
        /\ LET u == [t EXCEPT !.done = TRUE]
           IN  /\ u \in Tasks /\ u.done /\ u.env = t.env /\ u.prompt = t.prompt
               /\ pending' = (pending \ {t}) \cup {u}
        /\ UNCHANGED <<retry, loop>>
  BY CompleteParts
<1> DEFINE u == [t EXCEPT !.done = TRUE]
<1>2. u.done /\ u.env = t.env /\ u.prompt = t.prompt /\ pending' = (pending \ {t}) \cup {u}
  BY <1>1
<1> HIDE DEF u
<1>3. InHand' = InHand /\ t \in Busy /\ Busy' = pending' \cup InHand
  BY <1>1 DEF Busy, InHand
<1>4. u \notin InHand
  BY <1>1, <1>2, <1>3 DEF Busy, OnceInv, OneTaskEach
<1>5. HandIsApart'
  BY <1>2, <1>3, <1>4 DEF OnceInv, HandIsApart
<1>6. \A v \in Busy' : v # u => v \in Busy /\ v # t
  BY <1>2, <1>3 DEF Busy, OnceInv, HandIsApart
<1>7. OneTaskEach'
  BY <1>2, <1>3, <1>6 DEF OnceInv, OneTaskEach
<1>8. RetriesAreIdle'
  BY <1>1, <1>2, <1>3, <1>6 DEF OnceInv, RetriesAreIdle
<1> QED
  BY <1>1, <1>5, <1>7, <1>8 DEF OnceInv, RetriesDiffer

LEMMA OnceStep == TypeOK /\ OnceInv /\ [Next]_vars => OnceInv'
<1> SUFFICES ASSUME TypeOK, OnceInv, [Next]_vars PROVE OnceInv'
  OBVIOUS
<1>1. loop.at \notin Working => loop.hand = {}
  BY DEF TypeOK, LoopTypeOK
<1>2. CASE Fill \/ Filled \/ WakeUp \/ Replace
  <2>1. InHand = {} /\ InHand' = {}
    BY <1>1, <1>2, SubmitSteps DEF InHand, Working
  <2>2. CASE UNCHANGED <<retry, pending, turn>>
    BY <2>1, <2>2, LessIsOnce DEF Busy, HandIsApart
  <2>3. CASE pending' = {} /\ UNCHANGED <<retry, turn>>
    BY <2>1, <2>3, LessIsOnce DEF Busy, HandIsApart
  <2>4. CASE \E env \in Envs : SubmitFor(env)
    BY <2>1, <2>4, SubmitIsOnce
  <2> QED
    BY <1>2, <2>2, <2>3, <2>4, SubmitSteps
<1>3. CASE WaitReturns
  <2>1. InHand = {} /\ InHand' = {} /\ UNCHANGED <<pending, retry>>
    BY <1>1, <1>3 DEF WaitReturns, InHand, Working
  <2> QED
    BY <2>1, LessIsOnce DEF Busy, HandIsApart
<1>4. CASE TakeTask
  <2>1. PICK t \in pending : /\ pending' = pending \ {t} /\ loop.hand = {}
                             /\ loop'.at = "forward" /\ loop'.hand = {t}
    BY <1>4, TakeParts
  <2>2. InHand' = {t} /\ UNCHANGED retry
    BY <1>4, <2>1 DEF InHand, TakeTask
  <2> QED
    BY <2>1, <2>2, LessIsOnce DEF Busy, HandIsApart
<1>5. CASE DropTask \/ AppendEntry \/ Saved
  <2>1. /\ loop.at \in {"forward", "save"} /\ UNCHANGED <<pending, retry>>
        /\ loop' = At("replace") \/ loop' = At("save")
    BY <1>5 DEF DropTask, AppendEntry, Saved
  <2>2. InHand' = {} \/ InHand' = InHand
    BY <2>1 DEF InHand, At, TypeOK, LoopTypeOK
  <2> QED
    BY <2>1, <2>2, LessIsOnce DEF Busy, OnceInv, HandIsApart
<1>6. CASE RetryTask
  BY <1>6, RetryIsOnce
<1>7. ASSUME NEW env \in Envs, NEW prompt \in Prompts, Complete(env, prompt)
      PROVE  OnceInv'
  BY <1>7, CompleteIsOnce
<1>8. CASE Miner
  <2>1. InHand' = InHand /\ Busy' = Busy /\ UNCHANGED pending
    BY <1>8, MinerParts DEF InHand, Busy
  <2>2. CASE retry' = retry
    BY <2>1, <2>2, LessIsOnce DEF OnceInv, HandIsApart
  <2>3. CASE retry' = [e \in Envs |-> <<>>]
    <3>1. \A e \in Envs : retry'[e] = <<>>
      BY <2>3
    <3>2. RetriesDiffer' /\ RetriesAreIdle'
      BY <3>1, EmptyQueue DEF RetriesDiffer, RetriesAreIdle
    <3> QED
      BY <2>1, <3>2 DEF OnceInv, HandIsApart, OneTaskEach
  <2> QED
    BY <1>8, <2>2, <2>3, MinerParts
<1>9. CASE UNCHANGED vars
  BY <1>9, LessIsOnce DEF vars, InHand, Busy, OnceInv, HandIsApart
<1> QED
  BY <1>2, <1>3, <1>4, <1>5, <1>6, <1>7, <1>8, <1>9 DEF Next, Loop

LEMMA OnceIsEachPrompt == TypeOK /\ OnceInv => EachPromptOnce
<1> SUFFICES ASSUME TypeOK, OnceInv, loop.at # "replace", NEW e \in Envs,
                    NEW mine, mine = {t \in pending \cup loop.hand : t.env = e}
             PROVE  /\ \A t, u \in mine : t.prompt = u.prompt => t = u
                    /\ \A i, j \in DOMAIN retry[e] :
                         /\ retry[e][i].prompt = retry[e][j].prompt => i = j
                         /\ retry[e][i].prompt \notin {t.prompt : t \in mine}
  BY DEF EachPromptOnce
<1>1. mine \subseteq Busy /\ \A t \in mine : t.env = e
  BY DEF Busy, InHand
<1>2. \A t, u \in mine : t.prompt = u.prompt => t = u
  BY <1>1 DEF OnceInv, OneTaskEach
<1>3. \A i \in DOMAIN retry[e] : retry[e][i] \in Range(retry[e])
  BY DEF Range
<1>4. \A i, j \in DOMAIN retry[e] : retry[e][i].prompt = retry[e][j].prompt => i = j
  BY <1>3 DEF OnceInv, RetriesDiffer, IsInjective
<1>5. \A i \in DOMAIN retry[e] : retry[e][i].prompt \notin {t.prompt : t \in mine}
  BY <1>1, <1>3 DEF OnceInv, RetriesAreIdle
<1> QED
  BY <1>2, <1>4, <1>5

\* However the requests of vLLM end, and whenever the randomness changes, _submit_one
\* never takes a prompt that a task of its environment already generates, and none
\* waits in _retry_by_env while it is in flight, is graded, or waits there already.
THEOREM OneTaskPerPrompt == Spec => []EachPromptOnce
<1>1. TypeOK /\ OnceInv /\ [Next]_vars => (TypeOK /\ OnceInv)'
  BY TypeStep, OnceStep
<1> QED
  BY <1>1, TypeInit, OnceInit, OnceIsEachPrompt, PTL DEF Spec

-----------------------------------------------------------------------------
(***************************************************************************)
(* The pool.                                                               *)
(***************************************************************************)
\* A task that has been taken and not replaced holds a slot of target_active, and
\* one that is still to be graded may become an entry.
Holding == IF loop.at \in Working THEN 1 ELSE 0
Carrying == IF loop.at = "forward" THEN 1 ELSE 0

SlotsKept == Cardinality(pending) + Holding <= mode.target_active

RoomKept ==
  Len(pool) + Len(fired) + Cardinality(pending) + Carrying
    <= POOL_MAX_SIZE - 1 + mode.target_active + MAX_SUBMISSIONS

PoolInv == SlotsKept /\ RoomKept /\ Len(fired) <= MAX_SUBMISSIONS

\* The numbers that the invariant adds up.
LEMMA Sizes ==
  TypeOK =>
    /\ Len(pool) \in Nat /\ Len(fired) \in Nat /\ Cardinality(pending) \in Nat
    /\ mode.target_active \in Nat \ {0}
    /\ Holding \in {0, 1} /\ Carrying \in {0, 1}
    /\ POOL_MAX_SIZE \in Nat \ {0} /\ MAX_SUBMISSIONS \in Nat
<1> SUFFICES ASSUME TypeOK
             PROVE  /\ Len(pool) \in Nat /\ Len(fired) \in Nat /\ Cardinality(pending) \in Nat
                    /\ mode.target_active \in Nat \ {0}
                    /\ Holding \in {0, 1} /\ Carrying \in {0, 1}
                    /\ POOL_MAX_SIZE \in Nat \ {0} /\ MAX_SUBMISSIONS \in Nat
  OBVIOUS
<1>1. Len(pool) \in Nat /\ Len(fired) \in Nat
  BY LenProperties DEF TypeOK
<1>2. Cardinality(pending) \in Nat
  BY FS_CardinalityType DEF TypeOK
<1>3. mode.target_active \in Nat \ {0}
  BY AsyncAssumption DEF TypeOK
<1> QED
  BY <1>1, <1>2, <1>3, AsyncAssumption DEF Holding, Carrying

LEMMA SizesNext ==
  TypeOK' => /\ Len(pool') \in Nat /\ Len(fired') \in Nat /\ Cardinality(pending') \in Nat
             /\ Holding' \in {0, 1} /\ Carrying' \in {0, 1}
<1> SUFFICES ASSUME TypeOK'
             PROVE  /\ Len(pool') \in Nat /\ Len(fired') \in Nat
                    /\ Cardinality(pending') \in Nat
                    /\ Holding' \in {0, 1} /\ Carrying' \in {0, 1}
  OBVIOUS
<1>1. Len(pool') \in Nat /\ Len(fired') \in Nat
  BY LenProperties DEF TypeOK
<1>2. Cardinality(pending') \in Nat
  BY FS_CardinalityType DEF TypeOK
<1> QED
  BY <1>1, <1>2 DEF Holding, Carrying

LEMMA PoolInit == Init => PoolInv
<1> SUFFICES ASSUME Init PROVE PoolInv
  OBVIOUS
<1>1. TypeOK
  BY TypeInit
<1>2. Len(pool) = 0 /\ Len(fired) = 0 /\ Cardinality(pending) = 0
  BY FS_EmptySet, EmptySeq DEF Init
<1>3. Holding = 0 /\ Carrying = 0
  BY DEF Init, Holding, Carrying, Working
<1> QED
  BY <1>1, <1>2, <1>3, Sizes DEF PoolInv, SlotsKept, RoomKept

\* The sizes after a step, from those before it.
LEMMA PoolShrinks ==
  ASSUME TypeOK, TypeOK', PoolInv, UNCHANGED mode,
         Len(pool') + Len(fired') + Cardinality(pending') + Carrying'
           <= Len(pool) + Len(fired) + Cardinality(pending) + Carrying,
         Cardinality(pending') + Holding' <= Cardinality(pending) + Holding,
         Len(fired') <= MAX_SUBMISSIONS
  PROVE  PoolInv'
<1>1. /\ Len(pool') \in Nat /\ Len(fired') \in Nat /\ Cardinality(pending') \in Nat
      /\ Holding' \in {0, 1} /\ Carrying' \in {0, 1}
  BY SizesNext
<1>2. SlotsKept'
  BY <1>1, Sizes DEF PoolInv, SlotsKept
<1>3. RoomKept'
  <2> DEFINE before == Len(pool) + Len(fired) + Cardinality(pending) + Carrying
             after == Len(pool') + Len(fired') + Cardinality(pending') + Carrying'
             room == POOL_MAX_SIZE - 1 + mode.target_active + MAX_SUBMISSIONS
  <2>1. before \in Int /\ after \in Int /\ room \in Int
    <3>1. before \in Int
      BY Sizes
    <3>2. after \in Int
      BY <1>1
    <3>3. room \in Int
      BY Sizes
    <3> QED
      BY <3>1, <3>2, <3>3
  <2>2. before <= room /\ after <= before
    BY DEF PoolInv, RoomKept
  <2> HIDE DEF before, after, room
  <2>3. after <= room
    BY <2>1, <2>2
  <2> QED
    BY <2>3 DEF RoomKept, after, room
<1> QED
  BY <1>2, <1>3 DEF PoolInv

LEMMA SubmitHasRoom ==
  ASSUME TypeOK, TypeOK', PoolInv, Fill \/ Filled \/ WakeUp \/ Replace
  PROVE  PoolInv'
<1>1. /\ UNCHANGED <<mode, window, local_n, pool, fired>>
      /\ loop.at \in {"fill", "sleep", "replace"} /\ loop'.at \notin Working
  BY SubmitSteps
<1>2. Carrying = 0 /\ Holding' = 0 /\ Carrying' = 0
  BY <1>1 DEF Carrying, Holding, Working
<1>3. loop.at = "replace" => Holding = 1
  BY DEF Holding, Working
<1>4. Cardinality(pending') \in Nat
  BY SizesNext
<1>5. CASE UNCHANGED <<retry, pending, turn>>
  BY <1>1, <1>2, <1>5, PoolShrinks, Sizes DEF PoolInv
<1>6. CASE pending' = {} /\ UNCHANGED <<retry, turn>>
  <2>1. Cardinality(pending') = 0
    BY <1>6, FS_EmptySet
  <2> QED
    BY <1>1, <1>2, <2>1, PoolShrinks, Sizes DEF PoolInv
<1>7. CASE /\ ~ PoolFull
           /\ loop.at = "fill" => Cardinality(pending) < mode.target_active
           /\ \E env \in Envs : SubmitFor(env)
  <2>1. Cardinality(pending') <= Cardinality(pending) + 1
    BY <1>7, SubmitType
  <2>2. loop.at = "sleep" => Cardinality(pending) = 0
    BY FS_EmptySet DEF TypeOK, LoopTypeOK
  <2>3. Cardinality(pending) + 1 <= mode.target_active
    BY <1>1, <1>3, <1>7, <2>2, Sizes DEF PoolInv, SlotsKept
  <2>4. Cardinality(pending') <= mode.target_active
    BY <1>4, <2>1, <2>3, Sizes
  <2>5. Len(pool) <= POOL_MAX_SIZE - 1
    BY <1>7, Sizes DEF PoolFull
  <2>6. SlotsKept'
    BY <1>1, <1>2, <1>4, <2>4, Sizes DEF SlotsKept
  <2>7. RoomKept'
    BY <1>1, <1>2, <1>4, <2>4, <2>5, Sizes DEF PoolInv, RoomKept
  <2> QED
    BY <1>1, <2>6, <2>7 DEF PoolInv
<1> QED
  BY <1>5, <1>6, <1>7, SubmitSteps

LEMMA PoolStep == TypeOK /\ TypeOK' /\ PoolInv /\ [Next]_vars => PoolInv'
<1> SUFFICES ASSUME TypeOK, TypeOK', PoolInv, [Next]_vars PROVE PoolInv'
  OBVIOUS
<1>1. Len(fired) <= MAX_SUBMISSIONS
  BY DEF PoolInv
<1>2. CASE Fill \/ Filled \/ WakeUp \/ Replace
  BY <1>2, SubmitHasRoom
<1>3. CASE WaitReturns
  <2>1. Holding = 0 /\ Holding' = 0 /\ Carrying = 0 /\ Carrying' = 0
    BY <1>3 DEF WaitReturns, Holding, Carrying, Working
  <2>2. UNCHANGED <<mode, pool, fired, pending>>
    BY <1>3 DEF WaitReturns
  <2> QED
    BY <1>1, <2>1, <2>2, PoolShrinks, Sizes
<1>4. CASE TakeTask
  <2>1. PICK t \in pending :
          pending' = pending \ {t} /\ loop.at = "batch" /\ loop'.at = "forward"
    BY <1>4, TakeParts
  <2>2. Cardinality(pending') = Cardinality(pending) - 1
    BY <2>1, FS_RemoveElement DEF TypeOK
  <2>3. Holding = 0 /\ Holding' = 1 /\ Carrying = 0 /\ Carrying' = 1
    BY <2>1 DEF Holding, Carrying, Working
  <2>4. UNCHANGED <<mode, pool, fired>>
    BY <1>4 DEF TakeTask
  <2> QED
    BY <1>1, <2>2, <2>3, <2>4, PoolShrinks, Sizes
<1>5. CASE DropTask \/ RetryTask \/ Saved
  <2>1. /\ loop.at \in Working /\ loop' = At("replace")
        /\ UNCHANGED <<mode, pool, fired, pending>>
    BY <1>5 DEF DropTask, RetryTask, Saved, Working
  <2>2. Holding = 1 /\ Holding' = 1 /\ Carrying' = 0
    BY <2>1 DEF Holding, Carrying, Working, At, TypeOK, LoopTypeOK
  <2> QED
    BY <1>1, <2>1, <2>2, PoolShrinks, Sizes
<1>6. CASE AppendEntry
  <2>1. /\ loop.at = "forward"
        /\ loop' = At("replace") \/ loop' = At("save")
        /\ UNCHANGED <<mode, fired, pending>>
        /\ pool' = pool \/ pool' = Append(pool, Selected)
    BY <1>6 DEF AppendEntry
  <2>2. Holding = 1 /\ Holding' = 1 /\ Carrying = 1 /\ Carrying' = 0
    BY <1>6, <2>1 DEF AppendEntry, Holding, Carrying, Working, At, TypeOK, LoopTypeOK
  <2>3. Task \in Tasks
    BY <1>6 DEF AppendEntry, TypeOK, LoopTypeOK, Working
  <2>4. Len(Append(pool, Selected)) = Len(pool) + 1
    BY <2>3, AppendProperties DEF TypeOK, Selected, Tasks, PoolEntries
  <2>5. Len(pool') <= Len(pool) + 1 /\ Len(pool') \in Nat
    BY <2>1, <2>4, Sizes
  <2> QED
    BY <1>1, <2>1, <2>2, <2>5, PoolShrinks, Sizes
<1>7. ASSUME NEW env \in Envs, NEW prompt \in Prompts, Complete(env, prompt)
      PROVE  PoolInv'
  <2>1. PICK t \in pending, u \in Tasks :
          /\ pending' = (pending \ {t}) \cup {u} /\ UNCHANGED <<mode, pool, fired, loop>>
    BY <1>7, CompleteParts
  <2>2. IsFiniteSet(pending \ {t}) /\ Cardinality(pending \ {t}) = Cardinality(pending) - 1
    BY FS_RemoveElement DEF TypeOK
  <2>3. Cardinality((pending \ {t}) \cup {u}) =
          IF u \in pending \ {t} THEN Cardinality(pending \ {t}) ELSE Cardinality(pending \ {t}) + 1
    BY <2>2, FS_AddElement
  <2>4. Cardinality(pending') <= Cardinality(pending) /\ Cardinality(pending') \in Nat
    <3>1. Cardinality(pending') <= Cardinality(pending) - 1 + 1
      BY <2>1, <2>2, <2>3, Sizes
    <3> QED
      BY <3>1, Sizes, SizesNext
  <2>5. Holding' = Holding /\ Carrying' = Carrying
    BY <2>1 DEF Holding, Carrying
  <2> QED
    BY <1>1, <2>1, <2>4, <2>5, PoolShrinks, Sizes
<1>8. CASE Miner
  <2>1. Holding' = Holding /\ Carrying' = Carrying
    BY <1>8, MinerParts DEF Holding, Carrying
  <2>2. Len(pool') \in Nat /\ Len(fired') \in Nat
    BY SizesNext
  <2> QED
    BY <1>1, <1>8, <2>1, <2>2, MinerParts, PoolShrinks, Sizes
<1>9. CASE UNCHANGED vars
  <2>1. Holding' = Holding /\ Carrying' = Carrying
    BY <1>9 DEF vars, Holding, Carrying
  <2> QED
    BY <1>1, <1>9, <2>1, PoolShrinks, Sizes DEF vars
<1> QED
  BY <1>2, <1>3, <1>4, <1>5, <1>6, <1>7, <1>8, <1>9 DEF Next, Loop

\* The pool is looked at when a task is submitted and grows when one ends: it passes
\* POOL_MAX_SIZE by the tasks in flight and the entries a fire task puts back, and
\* never by more, for any target_active and any limit of submissions.
THEOREM PoolStaysBounded == Spec => []PoolBounded
<1>1. TypeOK /\ PoolInv /\ [Next]_vars => (TypeOK /\ PoolInv)'
  BY TypeStep, PoolStep
<1>2. TypeOK /\ PoolInv => PoolBounded
  BY Sizes DEF PoolInv, RoomKept, PoolBounded
<1> QED
  BY <1>1, <1>2, TypeInit, PoolInit, PTL DEF Spec

-----------------------------------------------------------------------------
(***************************************************************************)
(* The rows of a data set (ParquetCache).  The index space is a list of    *)
(* row groups and the sums of their sizes; a call works with one of them.  *)
(* The state of that module is apart from that of the generator: it is     *)
(* the environment that the prompts of a task are read from.               *)
(***************************************************************************)
\* Every row group, by its file and its number in it.
Groups == {<<f, g>> : f \in DOMAIN Shards, g \in UNION {DOMAIN Shards[f] : f \in DOMAIN Shards}}
GroupKeys == {key \in Groups : key[2] \in DOMAIN Shards[key[1]]}

\* The concatenations of the prefixes of seqs.
Concats(F, seqs, n) ==
  /\ F[0] = <<>>
  /\ \A i \in 1..n : F[i] = F[i - 1] \o seqs[i]

LEMMA FlattenDef ==
  ASSUME NEW S, NEW seqs \in Seq(Seq(S)), seqs # <<>>
  PROVE  \E F \in [0..Len(seqs) -> Seq(S)] :
           Concats(F, seqs, Len(seqs)) /\ FlattenSeq(seqs) = F[Len(seqs)]
<1> DEFINE n == Len(seqs)
           step == [a \in Seq(S) \X (1..n) |-> a[1] \o seqs[a[2]]]
<1>1. n \in Nat /\ n # 0 /\ \A i \in 1..n : seqs[i] \in Seq(S)
  BY LenProperties, ElementOfSeq, EmptySeq
<1>2. FlattenSeq(seqs) =
        LET flatten[i \in 1..n] == IF i = 1 THEN seqs[i] ELSE flatten[i - 1] \o seqs[i]
        IN  flatten[n]
  BY <1>1 DEF FlattenSeq
<1> HIDE DEF n
<1>3. <<>> \in Seq(S) /\ step \in [Seq(S) \X (1..n) -> Seq(S)]
  <2>1. ASSUME NEW s \in Seq(S), NEW i \in 1..n PROVE s \o seqs[i] \in Seq(S)
    BY <1>1, ConcatProperties
  <2> QED
    BY <2>1
<1>4. PICK f : FoldSolves(f, Seq(S), <<>>, step, n)
  <2> HIDE DEF step
  <2> QED
    BY <1>1, <1>3, FoldSolution
<1> DEFINE H == [i \in 0..n |-> f[1..i]]
<1>5. H \in [0..n -> Seq(S)] /\ H[0] = <<>>
  <2>1. 1..0 = {} /\ {} \in SUBSET (1..n) /\ 0 \in 0..n
    BY <1>1
  <2>2. \A i \in 0..n : 1..i \in SUBSET (1..n)
    BY <1>1
  <2> QED
    BY <1>4, <2>1, <2>2 DEF FoldSolves
<1>6. ASSUME NEW i \in 1..n PROVE H[i] = H[i - 1] \o seqs[i]
  <2>1. Max(1..i) = i /\ (1..i) \ {i} = 1..(i - 1) /\ 1..i # {} /\ 1..i \in SUBSET (1..n)
    BY <1>1, MaxOfInterval
  <2>2. i \in 0..n /\ i - 1 \in 0..n /\ 1..(i - 1) \in SUBSET (1..n)
    BY <1>1
  <2>3. f[1..i] = step[<<f[1..(i - 1)], i>>] /\ f[1..(i - 1)] \in Seq(S)
    BY <1>4, <2>1, <2>2 DEF FoldSolves
  <2> QED
    BY <2>2, <2>3
<1> HIDE DEF H, step
<1> DEFINE Body(g, i) == IF i = 1 THEN seqs[i] ELSE g[i - 1] \o seqs[i]
           Satisfies(g) == g = [i \in 1..n |-> Body(g, i)]
           h == CHOOSE g : Satisfies(g)
           k == [i \in 1..n |-> H[i]]
<1>7. Satisfies(k)
  <2>1. ASSUME NEW i \in 1..n PROVE H[i] = Body(k, i)
    <3>1. CASE i = 1
      <4>1. H[1] = <<>> \o seqs[1]
        <5>1. 1 \in 1..n /\ 1 - 1 = 0
          BY <1>1
        <5>2. H[1] = H[1 - 1] \o seqs[1]
          BY <1>6, <5>1
        <5> QED
          BY <1>5, <5>1, <5>2
      <4>2. seqs[1] \in Seq(S)
        BY <1>1, <3>1
      <4> QED
        BY <3>1, <4>1, <4>2, ConcatEmptySeq
    <3>2. CASE i # 1
      <4>1. i - 1 \in 1..n
        BY <1>1, <3>2
      <4> QED
        BY <1>6, <3>2, <4>1
    <3> QED
      BY <3>1, <3>2
  <2> QED
    BY <2>1
<1>8. Satisfies(h)
  <2> HIDE DEF Satisfies
  <2> QED
    BY <1>7
<1>9. FlattenSeq(seqs) = h[n]
  BY <1>2
<1> HIDE DEF h
<1> DEFINE I == {i \in Nat : i \in 1..n => h[i] = H[i]}
<1>10. 0 \in I
  OBVIOUS
<1>11. ASSUME NEW i \in Nat, i \in I PROVE i + 1 \in I
  <2> SUFFICES ASSUME i + 1 \in 1..n PROVE h[i + 1] = H[i + 1]
    OBVIOUS
  <2>1. h[i + 1] = Body(h, i + 1)
    BY <1>8
  <2>2. H[i + 1] = H[i] \o seqs[i + 1]
    <3>1. (i + 1) - 1 = i
      OBVIOUS
    <3>2. H[i + 1] = H[(i + 1) - 1] \o seqs[i + 1]
      BY <1>6
    <3> QED
      BY <3>1, <3>2
  <2>3. CASE i = 0
    <3>1. i + 1 = 1 /\ seqs[1] \in Seq(S)
      BY <1>1, <2>3
    <3>2. h[1] = seqs[1] /\ H[1] = <<>> \o seqs[1]
      BY <1>5, <2>1, <2>2, <2>3, <3>1
    <3>3. <<>> \o seqs[1] = seqs[1]
      BY <3>1, ConcatEmptySeq
    <3>4. h[1] = H[1]
      BY <3>2, <3>3
    <3>5. \A j : j = 1 => h[j] = H[j]
      BY <3>4
    <3> QED
      BY <3>1, <3>5
  <2>4. CASE i # 0
    <3>1. i \in 1..n /\ i + 1 # 1
      BY <1>1, <2>4
    <3>2. h[i] = H[i]
      BY <1>11, <3>1
    <3>3. h[i + 1] = h[(i + 1) - 1] \o seqs[i + 1]
      BY <2>1, <3>1, Zenon
    <3>4. h[i + 1] = h[i] \o seqs[i + 1]
      <4>1. (i + 1) - 1 = i
        OBVIOUS
      <4> QED
        BY <3>3, <4>1
    <3> QED
      BY <2>2, <3>2, <3>4
  <2> QED
    BY <2>3, <2>4
<1>12. Nat \subseteq I
  <2> HIDE DEF I
  <2> QED
    BY <1>10, <1>11, NatSetInduction
<1>13. h[n] = H[n]
  BY <1>1, <1>12
<1>14. Concats(H, seqs, n)
  BY <1>5, <1>6 DEF Concats
<1> QED
  BY <1>5, <1>9, <1>13, <1>14 DEF n

\* The sums of the sizes of the first row groups of a list.
Sums(P, seq) ==
  /\ P \in [0..Len(seq) -> Nat] /\ P[0] = 0
  /\ \A i \in 1..Len(seq) : P[i] = P[i - 1] + SizeOf(seq[i])

LEMMA SizeIsNat == ASSUME CacheAssumption, NEW key \in GroupKeys PROVE SizeOf(key) \in Nat
<1>1. key[1] \in DOMAIN Shards /\ key[2] \in DOMAIN Shards[key[1]]
  BY DEF GroupKeys, Groups
<1>2. Shards[key[1]] \in Seq(Nat)
  <2>1. Shards \in Seq(Seq(Nat))
    BY DEF CacheAssumption
  <2> HIDE DEF CacheAssumption
  <2> QED
    BY <1>1, <2>1, LenProperties, ElementOfSeq
<1> QED
  BY <1>1, <1>2, LenProperties, ElementOfSeq DEF SizeOf

\* The sums exist, and the fold along a list ends with the last of them.
LEMMA SumsDef ==
  ASSUME CacheAssumption, NEW seq \in Seq(GroupKeys)
  PROVE  \E P : Sums(P, seq) /\ FoldLeft(LAMBDA n, key : n + SizeOf(key), 0, seq) = P[Len(seq)]
<1> DEFINE n == Len(seq)
           step == [a \in Nat \X (1..n) |-> a[1] + SizeOf(seq[a[2]])]
           Body(f, T) == IF T = {} THEN 0
                         ELSE f[T \ {Max(T)}] + SizeOf(seq[Max(T)])
           Satisfies(f) == f = [T \in SUBSET (1..n) |-> Body(f, T)]
           g == CHOOSE f : Satisfies(f)
<1>1. n \in Nat /\ DOMAIN seq = 1..n /\ \A i \in 1..n : seq[i] \in GroupKeys
  BY LenProperties, ElementOfSeq
<1>2. FoldLeft(LAMBDA m, key : m + SizeOf(key), 0, seq) = g[1..n]
  BY <1>1 DEF FoldLeft, MapThenFoldSet
<1> HIDE DEF n
<1>3. step \in [Nat \X (1..n) -> Nat]
  <2>1. ASSUME NEW m \in Nat, NEW i \in 1..n PROVE m + SizeOf(seq[i]) \in Nat
    <3>1. SizeOf(seq[i]) \in Nat
      BY <1>1, SizeIsNat
    <3> QED
      BY <3>1
  <2> QED
    BY <2>1
<1>4. PICK f : FoldSolves(f, Nat, 0, step, n)
  <2> HIDE DEF step
  <2> QED
    BY <1>1, <1>3, FoldSolution
<1>5. ASSUME NEW T \in SUBSET (1..n) PROVE f[T] = Body(f, T)
  <2>1. CASE T = {}
    BY <1>4, <2>1 DEF FoldSolves
  <2>2. CASE T # {}
    <3>1. Max(T) \in 1..n
      BY <1>1, <2>2, MaxOfNumbers
    <3>2. f[T \ {Max(T)}] \in Nat
      BY <1>4 DEF FoldSolves
    <3>3. f[T] = step[<<f[T \ {Max(T)}], Max(T)>>]
      BY <1>4, <2>2 DEF FoldSolves
    <3> QED
      BY <2>2, <3>1, <3>2, <3>3
  <2> QED
    BY <2>1, <2>2
<1>6. Satisfies(f)
  <2> HIDE DEF Body
  <2>1. f = [T \in SUBSET (1..n) |-> f[T]]
    BY <1>4 DEF FoldSolves
  <2> QED
    BY <1>5, <2>1
<1>7. Satisfies(g)
  <2> HIDE DEF Satisfies
  <2> QED
    BY <1>6
<1> HIDE DEF g, step
<1>8. \A T \in SUBSET (1..n) : g[T] = Body(g, T)
  BY <1>7
<1> HIDE DEF Satisfies
<1> DEFINE P == [i \in 0..n |-> g[1..i]]
<1>9. P[0] = 0
  <2>1. 1..0 = {} /\ {} \in SUBSET (1..n) /\ 0 \in 0..n
    BY <1>1
  <2>2. g[{}] = Body(g, {})
    BY <1>8, <2>1
  <2>3. P[0] = g[1..0]
    BY <2>1
  <2> QED
    BY <2>1, <2>2, <2>3
<1>10. ASSUME NEW i \in 1..n PROVE P[i] = P[i - 1] + SizeOf(seq[i])
  <2>1. Max(1..i) = i /\ (1..i) \ {i} = 1..(i - 1) /\ 1..i # {} /\ 1..i \in SUBSET (1..n)
    BY <1>1, MaxOfInterval
  <2>2. g[1..i] = g[1..(i - 1)] + SizeOf(seq[i])
    <3>1. Max(1..i) = Max(1..i)
      OBVIOUS
    <3> QED
      BY <1>8, <2>1, <3>1
  <2>3. i \in 0..n /\ i - 1 \in 0..n
    BY <1>1
  <2> QED
    BY <2>2, <2>3
<1>11. P[n] = g[1..n] /\ DOMAIN P = 0..n /\ P = [i \in 0..n |-> P[i]]
  BY <1>1
<1> HIDE DEF P
<1> DEFINE I == {i \in Nat : i \in 0..n => P[i] \in Nat}
<1>12. 0 \in I
  BY <1>9
<1>13. ASSUME NEW i \in Nat, i \in I PROVE i + 1 \in I
  <2> SUFFICES ASSUME i + 1 \in 0..n PROVE P[i + 1] \in Nat
    OBVIOUS
  <2>1. i + 1 \in 1..n /\ (i + 1) - 1 = i /\ i \in 0..n
    BY <1>1
  <2>2. P[i] \in Nat /\ SizeOf(seq[i + 1]) \in Nat
    BY <1>1, <1>13, <2>1, SizeIsNat
  <2>3. P[i + 1] = P[i] + SizeOf(seq[i + 1])
    BY <1>10, <2>1
  <2> QED
    BY <2>2, <2>3
<1>14. Nat \subseteq I
  <2> HIDE DEF I
  <2> QED
    BY <1>12, <1>13, NatSetInduction
<1>15. Sums(P, seq)
  <2>1. \A i \in 0..n : P[i] \in Nat
    BY <1>1, <1>14
  <2>2. P \in [0..n -> Nat]
    BY <1>11, <2>1
  <2> QED
    BY <1>9, <1>10, <2>2 DEF Sums, n
<1> QED
  BY <1>2, <1>11, <1>15 DEF n

\* The sums of a list begin with those of its prefixes.
LEMMA SumsOfPrefix ==
  ASSUME CacheAssumption, NEW seq \in Seq(GroupKeys), NEW m \in 0..Len(seq), NEW P, NEW Q,
         Sums(P, seq), Sums(Q, SubSeq(seq, 1, m))
  PROVE  Len(SubSeq(seq, 1, m)) = m /\ Q[m] = P[m]
<1>1. /\ m \in Nat /\ Len(seq) \in Nat /\ m <= Len(seq)
  BY LenProperties
<1>2. /\ Len(SubSeq(seq, 1, m)) = m
      /\ \A i \in 1..m : SubSeq(seq, 1, m)[i] = seq[i]
  BY <1>1
<1> DEFINE I == {i \in Nat : i \in 0..m => Q[i] = P[i]}
<1>3. 0 \in I
  BY DEF Sums
<1>4. ASSUME NEW i \in Nat, i \in I PROVE i + 1 \in I
  <2> SUFFICES ASSUME i + 1 \in 0..m PROVE Q[i + 1] = P[i + 1]
    OBVIOUS
  <2>1. i + 1 \in 1..m /\ i + 1 \in 1..Len(seq) /\ (i + 1) - 1 = i /\ i \in 0..m
    BY <1>1
  <2>2. Q[i] = P[i]
    BY <1>4, <2>1
  <2>3. P[i + 1] = P[i] + SizeOf(seq[i + 1])
    BY <2>1 DEF Sums
  <2>4. Q[i + 1] = Q[i] + SizeOf(seq[i + 1])
    <3>1. Q[i + 1] = Q[(i + 1) - 1] + SizeOf(SubSeq(seq, 1, m)[i + 1])
      BY <1>2, <2>1 DEF Sums
    <3> QED
      BY <1>2, <2>1, <3>1
  <2> QED
    BY <2>2, <2>3, <2>4
<1>5. Nat \subseteq I
  <2> HIDE DEF I
  <2> QED
    BY <1>3, <1>4, NatSetInduction
<1> QED
  BY <1>1, <1>2, <1>5

\* The list of the row groups.
LEMMA LayoutType ==
  ASSUME CacheAssumption, RowsAssumption
  PROVE  rg_loc \in Seq(GroupKeys) /\ Total \in Nat \ {0} /\ Len(rg_loc) \in Nat \ {0}
<1> DEFINE lists == [f \in DOMAIN Shards |-> [g \in DOMAIN Shards[f] |-> <<f, g>>]]
<1>1. /\ Len(Shards) \in Nat /\ DOMAIN Shards = 1..Len(Shards)
      /\ \A f \in DOMAIN Shards : Shards[f] \in Seq(Nat)
  <2>1. Shards \in Seq(Seq(Nat))
    BY DEF CacheAssumption
  <2> HIDE DEF CacheAssumption
  <2> QED
    BY <2>1, LenProperties, ElementOfSeq
<1>2. \A f \in DOMAIN Shards : lists[f] \in Seq(GroupKeys)
  <2> TAKE f \in DOMAIN Shards
  <2>1. Len(Shards[f]) \in Nat /\ DOMAIN Shards[f] = 1..Len(Shards[f])
    BY <1>1, LenProperties
  <2>2. \A g \in DOMAIN Shards[f] : <<f, g>> \in GroupKeys
    BY DEF GroupKeys, Groups
  <2>3. lists[f] \in [1..Len(Shards[f]) -> GroupKeys]
    BY <2>1, <2>2
  <2> QED
    BY <2>1, <2>3, FunctionIsSeq
<1>3. lists \in Seq(Seq(GroupKeys)) /\ Len(lists) = Len(Shards)
  <2>1. lists \in [1..Len(Shards) -> Seq(GroupKeys)]
    BY <1>1, <1>2
  <2> HIDE DEF lists
  <2> QED
    BY <1>1, <2>1, FunctionIsSeq
<1> HIDE DEF lists
<1>4. rg_loc \in Seq(GroupKeys)
  <2>1. CASE lists = <<>>
    <3>1. rg_loc = lists
      <4>1. Len(lists) = 0
        BY <2>1
      <4> QED
        BY <4>1 DEF rg_loc, FlattenSeq, lists
    <3> QED
      BY <2>1, <3>1, EmptySeq
  <2>2. CASE lists # <<>>
    <3>1. PICK F \in [0..Len(lists) -> Seq(GroupKeys)] : FlattenSeq(lists) = F[Len(lists)]
      BY <1>3, <2>2, FlattenDef
    <3>2. Len(lists) \in 0..Len(lists)
      BY <1>1, <1>3
    <3> QED
      BY <3>1, <3>2 DEF rg_loc, lists
  <2> QED
    BY <2>1, <2>2
<1>5. PICK P : Sums(P, rg_loc) /\ Total = P[Len(rg_loc)]
  BY <1>4, SumsDef DEF Total
<1>6. Len(rg_loc) \in Nat
  BY <1>4, LenProperties
<1>7. Total \in Nat
  BY <1>5, <1>6 DEF Sums
<1>8. Len(rg_loc) # 0
  BY <1>5, <1>7, RowsAssumption DEF Sums, RowsAssumption
<1> QED
  BY <1>4, <1>6, <1>7, <1>8 DEF RowsAssumption

\* rg_start are the sums before each row group.
LEMMA StartsAreSums ==
  ASSUME CacheAssumption, RowsAssumption
  PROVE  \E P : /\ Sums(P, rg_loc) /\ Total = P[Len(rg_loc)]
                /\ DOMAIN rg_start = 1..Len(rg_loc)
                /\ \A i \in 1..Len(rg_loc) : rg_start[i] = P[i - 1]
<1>1. rg_loc \in Seq(GroupKeys) /\ Len(rg_loc) \in Nat /\ DOMAIN rg_loc = 1..Len(rg_loc)
  BY LayoutType, LenProperties
<1>2. PICK P : Sums(P, rg_loc) /\ Total = P[Len(rg_loc)]
  BY <1>1, SumsDef DEF Total
<1>3. ASSUME NEW i \in 1..Len(rg_loc) PROVE rg_start[i] = P[i - 1]
  <2> DEFINE s == SubSeq(rg_loc, 1, i - 1)
  <2>1. i - 1 \in 0..Len(rg_loc)
    BY <1>1
  <2>2. s \in Seq(GroupKeys)
    <3>1. \A j \in 1..(i - 1) : rg_loc[j] \in GroupKeys
      BY <1>1, ElementOfSeq
    <3> QED
      BY <1>1, <2>1, <3>1
  <2>3. PICK Q : Sums(Q, s) /\ FoldLeft(LAMBDA n, key : n + SizeOf(key), 0, s) = Q[Len(s)]
    <3> HIDE DEF s
    <3> QED
      BY <2>2, SumsDef
  <2>4. Len(s) = i - 1 /\ Q[i - 1] = P[i - 1]
    BY <1>1, <1>2, <2>1, <2>3, SumsOfPrefix
  <2>5. rg_start[i] = FoldLeft(LAMBDA n, key : n + SizeOf(key), 0, s)
    BY <1>1 DEF rg_start
  <2> QED
    BY <2>3, <2>4, <2>5
<1>4. DOMAIN rg_start = 1..Len(rg_loc)
  BY <1>1 DEF rg_start
<1> QED
  BY <1>2, <1>3, <1>4

\* The sums of the sizes do not decrease.
LEMMA SumsAreMonotone ==
  ASSUME CacheAssumption, NEW seq \in Seq(GroupKeys), NEW P, Sums(P, seq),
         NEW i \in 0..Len(seq), NEW j \in 0..Len(seq), i <= j
  PROVE  P[i] \in Nat /\ P[j] \in Nat /\ P[i] <= P[j]
<1>1. Len(seq) \in Nat
  BY LenProperties
<1> DEFINE I == {k \in Nat : k \in i..Len(seq) => P[i] <= P[k]}
<1>2. ASSUME NEW k \in Nat, k \in I PROVE k + 1 \in I
  <2> SUFFICES ASSUME k + 1 \in i..Len(seq) PROVE P[i] <= P[k + 1]
    OBVIOUS
  <2>0. k + 1 \in 0..Len(seq) /\ P[k + 1] \in Nat /\ P[i] \in Nat
    BY <1>1 DEF Sums
  <2>1. CASE k + 1 = i
    BY <2>0, <2>1
  <2>2. CASE k + 1 # i
    <3>1. k \in i..Len(seq) /\ k \in 0..Len(seq) /\ k + 1 \in 1..Len(seq) /\ (k + 1) - 1 = k
      BY <1>1, <2>2
    <3>2. P[i] <= P[k] /\ P[k] \in Nat
      BY <1>2, <3>1 DEF Sums
    <3>3. P[k + 1] = P[k] + SizeOf(seq[k + 1])
      BY <3>1 DEF Sums
    <3>4. SizeOf(seq[k + 1]) \in Nat
      BY <3>1, ElementOfSeq, SizeIsNat
    <3> QED
      BY <2>0, <3>2, <3>3, <3>4
  <2> QED
    BY <2>1, <2>2
<1>3. 0 \in I
  <2> SUFFICES ASSUME 0 \in i..Len(seq) PROVE P[i] <= P[0]
    OBVIOUS
  <2>1. i = 0 /\ P[0] \in Nat
    BY <1>1 DEF Sums
  <2> QED
    BY <2>1
<1>4. Nat \subseteq I
  <2> HIDE DEF I
  <2> QED
    BY <1>2, <1>3, NatSetInduction
<1>5. j \in i..Len(seq) /\ j \in Nat
  BY <1>1
<1>6. P[i] \in Nat /\ P[j] \in Nat
  BY DEF Sums
<1> QED
  BY <1>4, <1>5, <1>6

\* bisect_right finds the row group that an index falls in.
LEMMA GroupIsFound ==
  ASSUME CacheAssumption, RowsAssumption, NEW x \in Nat, x < Total,
         NEW P, Sums(P, rg_loc), Total = P[Len(rg_loc)], DOMAIN rg_start = 1..Len(rg_loc),
         \A i \in 1..Len(rg_loc) : rg_start[i] = P[i - 1]
  PROVE  LET m == BisectRight(x) IN m \in 1..Len(rg_loc) /\ P[m - 1] <= x /\ x < P[m]
<1>1. rg_loc \in Seq(GroupKeys) /\ Total \in Nat
  BY LayoutType
<1>2. PICK n \in Nat : n = Len(rg_loc) /\ n # 0
  BY LayoutType
<1> DEFINE B == {k \in DOMAIN rg_start : rg_start[k] <= x}
           m == Max(B)
<1>3. \A i \in 0..n : P[i] \in Nat
  BY <1>2 DEF Sums
<1>4. \A k \in 1..n : k \in B <=> P[k - 1] <= x
  BY <1>2
<1>5. B \in SUBSET (1..n) /\ 1 \in B
  <2>1. 1 \in 1..n /\ 1 - 1 = 0 /\ P[0] = 0
    BY <1>2 DEF Sums
  <2>2. 1 \in B
    BY <1>4, <2>1
  <2> QED
    BY <1>2, <2>2
<1>6. m \in B /\ \A w \in B : w <= m
  <2> HIDE DEF B
  <2>1. B # {}
    BY <1>5
  <2> QED
    BY <1>5, <2>1, MaxOfNumbers
<1>7. m \in 1..n /\ P[m - 1] <= x
  BY <1>4, <1>5, <1>6
<1>8. 1..m = B
  <2>1. ASSUME NEW k \in 1..m PROVE k \in B
    <3>1. k \in 1..n /\ k - 1 \in 0..n /\ m - 1 \in 0..n /\ k - 1 <= m - 1
      BY <1>7
    <3>2. P[k - 1] \in Nat /\ P[m - 1] \in Nat /\ P[k - 1] <= P[m - 1]
      BY <1>1, <1>2, <3>1, SumsAreMonotone
    <3> HIDE DEF B, m
    <3> QED
      BY <1>4, <1>7, <3>1, <3>2
  <2>2. ASSUME NEW k \in B PROVE k \in 1..m
    <3>1. k \in 1..n /\ k <= m
      BY <1>5, <1>6
    <3> HIDE DEF B, m
    <3> QED
      BY <1>7, <3>1
  <2> QED
    BY <2>1, <2>2
<1>9. BisectRight(x) = m
  <2>1. Cardinality(1..m) = m
    <3>1. 1 \in Int /\ m \in Int /\ 1 <= m
      BY <1>7
    <3>2. Cardinality(1..m) = m - 1 + 1
      BY <3>1, FS_Interval
    <3> HIDE DEF m
    <3> QED
      BY <3>1, <3>2
  <2>2. BisectRight(x) = Cardinality(B)
    BY DEF BisectRight
  <2> QED
    BY <1>8, <2>1, <2>2
<1>10. x < P[m]
  <2>1. CASE m = n
    BY <1>2, <2>1
  <2>2. CASE m # n
    <3> HIDE DEF m
    <3>1. m + 1 \in 1..n /\ (m + 1) - 1 = m /\ m \in 0..n
      BY <1>7, <2>2
    <3>2. m + 1 \notin B
      BY <1>6, <3>1
    <3>3. ~ (P[m] <= x)
      BY <1>4, <3>1, <3>2
    <3> QED
      BY <1>3, <3>1, <3>3
  <2> QED
    BY <2>1, <2>2
<1> QED
  BY <1>2, <1>7, <1>9, <1>10

\* The row of the group that is found is that of the list of all the rows.
LEMMA PickIsTheRow ==
  ASSUME CacheAssumption, RowsAssumption, NEW t, idx[t] \in Int
  PROVE  /\ KeyOf(t) \in GroupKeys
         /\ Pick(t, RowsOf(KeyOf(t))) = TheRow(idx[t])
<1> DEFINE x == idx[t] % Total
           m == BisectRight(x)
           R == [k \in DOMAIN rg_loc |-> RowsOf(rg_loc[k])]
           Rows == GroupKeys \X Nat
<1>1. rg_loc \in Seq(GroupKeys) /\ Total \in Nat \ {0} /\ DOMAIN rg_loc = 1..Len(rg_loc)
  BY LayoutType, LenProperties
<1>2. PICK n \in Nat : n = Len(rg_loc) /\ n # 0
  BY LayoutType
<1>3. PICK P : /\ Sums(P, rg_loc) /\ Total = P[Len(rg_loc)]
               /\ DOMAIN rg_start = 1..Len(rg_loc)
               /\ \A i \in 1..Len(rg_loc) : rg_start[i] = P[i - 1]
  BY StartsAreSums
<1>4. x \in Nat /\ x < Total
  BY <1>1
<1>5. m \in 1..n /\ P[m - 1] <= x /\ x < P[m]
  <2> HIDE DEF x
  <2> QED
    BY <1>2, <1>3, <1>4, GroupIsFound
<1>6. KeyOf(t) = rg_loc[m] /\ KeyOf(t) \in GroupKeys
  <2>1. KeyOf(t) = rg_loc[m]
    BY DEF KeyOf, GroupOf
  <2> HIDE DEF m
  <2> QED
    BY <1>1, <1>2, <1>5, <2>1, ElementOfSeq
<1>7. \A i \in 0..n : P[i] \in Nat
  BY <1>2, <1>3 DEF Sums
<1>8. \A i \in 1..n : P[i] = P[i - 1] + SizeOf(rg_loc[i]) /\ SizeOf(rg_loc[i]) \in Nat
  BY <1>1, <1>2, <1>3, ElementOfSeq, SizeIsNat DEF Sums
<1>9. \A i \in 1..n : /\ R[i] = [y \in 1..SizeOf(rg_loc[i]) |-> <<rg_loc[i], y>>]
                      /\ R[i] \in Seq(Rows) /\ Len(R[i]) = SizeOf(rg_loc[i])
  <2> TAKE i \in 1..n
  <2>1. R[i] = [y \in 1..SizeOf(rg_loc[i]) |-> <<rg_loc[i], y>>]
    BY <1>1, <1>2 DEF RowsOf
  <2>2. rg_loc[i] \in GroupKeys
    BY <1>1, <1>2, ElementOfSeq
  <2>3. [y \in 1..SizeOf(rg_loc[i]) |-> <<rg_loc[i], y>>] \in [1..SizeOf(rg_loc[i]) -> Rows]
    BY <2>2
  <2> HIDE DEF Rows
  <2>4. /\ [y \in 1..SizeOf(rg_loc[i]) |-> <<rg_loc[i], y>>] \in Seq(Rows)
        /\ Len([y \in 1..SizeOf(rg_loc[i]) |-> <<rg_loc[i], y>>]) = SizeOf(rg_loc[i])
    BY <1>8, <2>3, FunctionIsSeq
  <2> QED
    BY <2>1, <2>4
<1>10. R \in Seq(Seq(Rows)) /\ Len(R) = n /\ R # <<>>
  <2>1. R = [k \in 1..n |-> R[k]]
    BY <1>1, <1>2
  <2> HIDE DEF R, Rows
  <2>2. R \in [1..n -> Seq(Rows)]
    BY <1>9, <2>1
  <2>3. R \in Seq(Seq(Rows)) /\ Len(R) = n
    BY <2>2, FunctionIsSeq
  <2> QED
    BY <1>2, <2>3, EmptySeq
<1>11. TheRow(idx[t]) = FlattenSeq(R)[x + 1]
  BY DEF TheRow
<1> HIDE DEF R, Rows, x, m
<1>12. PICK F \in [0..n -> Seq(Rows)] : Concats(F, R, n) /\ FlattenSeq(R) = F[n]
  BY <1>10, FlattenDef
<1>13. ASSUME NEW i \in 1..n
       PROVE  /\ Len(F[i]) = Len(F[i - 1]) + SizeOf(rg_loc[i]) /\ Len(F[i - 1]) \in Nat
              /\ \A y \in 1..Len(F[i]) :
                   F[i][y] = IF y <= Len(F[i - 1]) THEN F[i - 1][y] ELSE R[i][y - Len(F[i - 1])]
  <2>1. i - 1 \in 0..n /\ F[i - 1] \in Seq(Rows) /\ R[i] \in Seq(Rows) /\ F[i] = F[i - 1] \o R[i]
    <3>1. i - 1 \in 0..n
      OBVIOUS
    <3>2. F[i] = F[i - 1] \o R[i]
      BY <1>12 DEF Concats
    <3> QED
      BY <1>9, <1>12, <3>1, <3>2
  <2>2. /\ Len(F[i - 1] \o R[i]) = Len(F[i - 1]) + Len(R[i])
        /\ \A y \in 1..Len(F[i - 1]) + Len(R[i]) :
             (F[i - 1] \o R[i])[y] = IF y <= Len(F[i - 1]) THEN F[i - 1][y] ELSE R[i][y - Len(F[i - 1])]
    BY <2>1, ConcatProperties
  <2>3. Len(F[i - 1]) \in Nat
    BY <2>1, LenProperties
  <2> QED
    BY <1>9, <2>1, <2>2, <2>3
<1> DEFINE L == {i \in Nat : i \in 0..n => Len(F[i]) = P[i]}
<1>14. Nat \subseteq L
  <2>1. 0 \in L
    <3>1. F[0] = <<>> /\ P[0] = 0
      BY <1>3, <1>12 DEF Concats, Sums
    <3> QED
      BY <3>1
  <2>2. ASSUME NEW i \in Nat, i \in L PROVE i + 1 \in L
    <3> SUFFICES ASSUME i + 1 \in 0..n PROVE Len(F[i + 1]) = P[i + 1]
      OBVIOUS
    <3>1. i + 1 \in 1..n /\ (i + 1) - 1 = i /\ i \in 0..n
      OBVIOUS
    <3>2. Len(F[i + 1]) = Len(F[(i + 1) - 1]) + SizeOf(rg_loc[i + 1])
      BY <1>13, <3>1
    <3>3. P[i + 1] = P[(i + 1) - 1] + SizeOf(rg_loc[i + 1])
      BY <1>8, <3>1
    <3>4. Len(F[i]) = P[i]
      BY <2>2, <3>1
    <3> QED
      BY <3>1, <3>2, <3>3, <3>4
  <2> HIDE DEF L
  <2> QED
    BY <2>1, <2>2, NatSetInduction
<1>15. \A i \in 0..n : Len(F[i]) = P[i]
  BY <1>14
<1> DEFINE y == x - P[m - 1] + 1
<1>16. /\ m \in Nat /\ m - 1 \in 0..n /\ m \in 0..n /\ P[m - 1] \in Nat /\ P[m] \in Nat
       /\ P[m] = P[m - 1] + SizeOf(rg_loc[m]) /\ SizeOf(rg_loc[m]) \in Nat
  BY <1>5, <1>7, <1>8
<1>17. y \in 1..SizeOf(rg_loc[m]) /\ x + 1 \in 1..P[m] /\ ~ (x + 1 <= P[m - 1])
       /\ (x + 1) - P[m - 1] = y
  <2>1. \A p, size \in Nat : p <= x /\ x < p + size =>
          /\ (x - p) + 1 \in 1..size /\ x + 1 \in 1..(p + size) /\ ~ (x + 1 <= p)
          /\ (x + 1) - p = (x - p) + 1
    BY <1>4
  <2>2. P[m - 1] <= x /\ x < P[m - 1] + SizeOf(rg_loc[m])
    BY <1>5, <1>16
  <2> QED
    BY <1>16, <2>1, <2>2
<1>18. F[m][x + 1] = R[m][y]
  <2>1. \A z \in 1..Len(F[m]) :
          F[m][z] = IF z <= Len(F[m - 1]) THEN F[m - 1][z] ELSE R[m][z - Len(F[m - 1])]
    BY <1>5, <1>13
  <2>2. Len(F[m]) = P[m] /\ Len(F[m - 1]) = P[m - 1]
    BY <1>15, <1>16
  <2> HIDE DEF y
  <2>3. F[m][x + 1] = IF x + 1 <= P[m - 1] THEN F[m - 1][x + 1] ELSE R[m][(x + 1) - P[m - 1]]
    BY <1>17, <2>1, <2>2
  <2> QED
    BY <1>17, <2>3
<1> HIDE DEF y
<1> DEFINE J == {i \in Nat : i \in m..n => F[i][x + 1] = R[m][y]}
<1>19. Nat \subseteq J
  <2>1. 0 \in J
    BY <1>5
  <2>2. ASSUME NEW i \in Nat, i \in J PROVE i + 1 \in J
    <3> SUFFICES ASSUME i + 1 \in m..n PROVE F[i + 1][x + 1] = R[m][y]
      OBVIOUS
    <3>1. CASE i + 1 = m
      BY <1>18, <3>1
    <3>2. CASE i + 1 # m
      <4>1. i + 1 \in 1..n /\ (i + 1) - 1 = i /\ i \in m..n /\ i \in 0..n /\ i + 1 \in 0..n /\ m <= i
        BY <1>5, <3>2
      <4>2. Len(F[i]) = P[i] /\ Len(F[i + 1]) = P[i + 1]
        BY <1>15, <4>1
      <4>3. P[m] <= P[i] /\ P[i] <= P[i + 1] /\ P[i] \in Nat /\ P[i + 1] \in Nat
        <5>1. P[m] <= P[i] /\ P[i] \in Nat
          BY <1>1, <1>2, <1>3, <1>16, <4>1, SumsAreMonotone
        <5>2. P[i] <= P[i + 1] /\ P[i + 1] \in Nat
          <6>1. i <= i + 1
            OBVIOUS
          <6> QED
            BY <1>1, <1>2, <1>3, <4>1, <6>1, SumsAreMonotone
        <5> QED
          BY <5>1, <5>2
      <4>4. x + 1 \in 1..P[i + 1] /\ x + 1 <= P[i]
        <5>1. x + 1 <= P[m] /\ x + 1 \in Nat /\ 1 <= x + 1
          BY <1>4, <1>16, <1>17
        <5>2. P[m] \in Nat
          BY <1>16
        <5>3. x + 1 <= P[i] /\ x + 1 <= P[i + 1]
          BY <4>3, <5>1, <5>2
        <5> QED
          BY <4>3, <5>1, <5>3
      <4>5. \A z \in 1..Len(F[i + 1]) :
              F[i + 1][z] = IF z <= Len(F[(i + 1) - 1]) THEN F[(i + 1) - 1][z]
                            ELSE R[i + 1][z - Len(F[(i + 1) - 1])]
        BY <1>13, <4>1
      <4>6. F[i + 1][x + 1] = F[i][x + 1]
        BY <4>1, <4>2, <4>4, <4>5
      <4>7. F[i][x + 1] = R[m][y]
        BY <2>2, <4>1
      <4> QED
        BY <4>6, <4>7
    <3> QED
      BY <3>1, <3>2
  <2> HIDE DEF J
  <2> QED
    BY <2>1, <2>2, NatSetInduction
<1>20. F[n][x + 1] = R[m][y]
  <2>1. n \in m..n
    BY <1>5
  <2> QED
    BY <1>19, <2>1
<1>21. Pick(t, RowsOf(KeyOf(t))) = R[m][y]
  <2>1. R[m] = RowsOf(KeyOf(t))
    BY <1>5, <1>6, <1>9 DEF RowsOf
  <2>2. DOMAIN R[m] = 1..SizeOf(rg_loc[m])
    BY <1>5, <1>9
  <2>3. rg_start[m] = P[m - 1]
    BY <1>2, <1>3, <1>5
  <2>4. (idx[t] % Total) - rg_start[GroupOf(idx[t])] + 1 = y
    BY <2>3 DEF GroupOf, m, x, y
  <2>5. y \in DOMAIN RowsOf(KeyOf(t))
    BY <1>17, <2>1, <2>2
  <2>6. Pick(t, RowsOf(KeyOf(t))) = RowsOf(KeyOf(t))[y]
    BY <2>4, <2>5 DEF Pick
  <2> QED
    BY <2>1, <2>6
<1> QED
  BY <1>6, <1>11, <1>12, <1>20, <1>21

-----------------------------------------------------------------------------
(***************************************************************************)
(* The cache and the open files, and the threads that use them.            *)
(***************************************************************************)
LEMMA MovedProperties ==
  ASSUME NEW S, NEW seq \in Seq(S), NEW x \in S
  PROVE  Moved(seq, x) \in Seq(S) /\ Range(Moved(seq, x)) = Range(seq) \cup {x}
<1> DEFINE rest == Filtered(seq, Range(seq) \ {x})
<1>1. rest \in Seq(S) /\ Range(rest) = Range(seq) \cap (Range(seq) \ {x})
  BY FilterProperties
<1>2. Moved(seq, x) = Append(rest, x)
  BY DEF Moved
<1> HIDE DEF rest
<1>3. Append(rest, x) \in Seq(S) /\ Range(Append(rest, x)) = Range(rest) \cup {x}
  BY <1>1, AppendProperties, RangeAppend
<1> QED
  BY <1>1, <1>2, <1>3

\* What was put last stays.
LEMMA CappedProperties ==
  ASSUME NEW S, NEW seq \in Seq(S), NEW x \in S, NEW n \in Nat \ {0}
  PROVE  LET capped == Capped(Append(seq, x), n)
         IN  /\ capped \in Seq(S)
             /\ Range(capped) \subseteq Range(seq) \cup {x} /\ x \in Range(capped)
<1> DEFINE s == Append(seq, x)
<1>1. /\ s \in Seq(S) /\ s # <<>> /\ Len(s) = Len(seq) + 1 /\ s[Len(seq) + 1] = x
      /\ Range(s) = Range(seq) \cup {x}
  BY AppendProperties, RangeAppend
<1>2. Len(seq) \in Nat /\ DOMAIN s = 1..Len(s)
  BY <1>1, LenProperties
<1>3. /\ Tail(s) \in Seq(S) /\ Len(Tail(s)) = Len(s) - 1
      /\ \A i \in 1..Len(Tail(s)) : Tail(s)[i] = s[i + 1]
  BY <1>1, HeadTailProperties
<1> HIDE DEF s
<1>4. DOMAIN Tail(s) = 1..Len(seq)
  <2>1. Len(Tail(s)) = Len(seq)
    BY <1>1, <1>2, <1>3
  <2> QED
    BY <1>3, <2>1, LenProperties
<1>5. Range(Tail(s)) \subseteq Range(s)
  <2>1. \A i \in 1..Len(seq) : i + 1 \in DOMAIN s /\ Tail(s)[i] = s[i + 1]
    BY <1>1, <1>2, <1>3
  <2> QED
    BY <1>4, <2>1 DEF Range
<1>6. CASE Len(s) > n
  <2>1. Len(seq) \in DOMAIN Tail(s) /\ Tail(s)[Len(seq)] = x
    BY <1>1, <1>2, <1>3, <1>4, <1>6
  <2>2. x \in Range(Tail(s))
    BY <2>1 DEF Range
  <2> QED
    BY <1>1, <1>3, <1>5, <1>6, <2>2 DEF Capped, s
<1>7. CASE ~ (Len(s) > n)
  BY <1>1, <1>7 DEF Capped, s
<1> QED
  BY <1>6, <1>7

Locked == {"footers", "sentinel", "open", "read", "insert"}
Places == Locked \cup {"idle", "manifest", "locate", "lookup", "miss"}
Entries == {[key |-> key, rows |-> RowsOf(key)] : key \in GroupKeys}

\* The cache holds row groups with their own rows.
CacheType ==
  /\ manifest \in [layout : BOOLEAN, total : BOOLEAN]
  /\ cache \in Seq(Entries) /\ pf \in Seq(DOMAIN Shards)
  /\ pc \in [Threads -> Places] /\ idx \in [Threads -> Int]
  /\ DOMAIN rows = Threads /\ DOMAIN answer = Threads

\* One thread at a time is inside _io_lock.
LockInv ==
  /\ \A t \in Threads : t \in io_lock <=> pc[t] \in Locked
  /\ io_lock \subseteq Threads /\ \A t, u \in io_lock : t = u

\* What a thread knows where it is.
FetchInv ==
  /\ manifest.total => manifest.layout
  /\ \A t \in Threads :
       /\ pc[t] = "locate" => manifest.total
       /\ pc[t] \in {"open", "read", "insert"} => ~ Cached(KeyOf(t))
       /\ pc[t] \in {"read", "insert"} => KeyOf(t)[1] \in Range(pf)
       /\ pc[t] = "insert" => rows[t] = RowsOf(KeyOf(t))

CacheInv == CacheType /\ LockInv /\ FetchInv /\ AnswersAreRows

\* What a cached entry is.
LEMMA EntryProperties ==
  ASSUME CacheType, NEW key, Cached(key)
  PROVE  /\ Entry(key) \in Range(cache) /\ Entry(key) \in Entries
         /\ Entry(key).key = key /\ Entry(key).rows = RowsOf(key)
<1>1. DOMAIN cache = 1..Len(cache) /\ \A i \in DOMAIN cache : cache[i] \in Entries
  BY LenProperties, ElementOfSeq DEF CacheType
<1>2. \E c \in Range(cache) : c.key = key
  BY DEF Cached, Range
<1>3. Entry(key) \in Range(cache) /\ Entry(key).key = key
  BY <1>2 DEF Entry
<1>4. Entry(key) \in Entries
  BY <1>1, <1>3 DEF Range
<1>5. PICK k \in GroupKeys : Entry(key) = [key |-> k, rows |-> RowsOf(k)]
  BY <1>4 DEF Entries
<1> QED
  BY <1>3, <1>4, <1>5

\* The keys of a cache, by the entries in it.
LEMMA CachedKeys ==
  ASSUME NEW key
  PROVE  /\ Cached(key) <=> \E c \in Range(cache) : c.key = key
         /\ Cached(key)' <=> \E c \in Range(cache') : c.key = key'
BY DEF Cached, Range

\* The row group and the row of a call are those of its index.
LEMMA SameKey ==
  ASSUME NEW t, idx'[t] = idx[t]
  PROVE  KeyOf(t)' = KeyOf(t) /\ TheRow(idx[t])' = TheRow(idx[t])
BY DEF KeyOf

\* One thread goes to a place.
Sound(t, place) ==
  /\ manifest' \in [layout : BOOLEAN, total : BOOLEAN]
  /\ manifest.total => manifest'.total
  /\ manifest'.total => manifest'.layout
  /\ cache' \in Seq(Entries) /\ pf' \in Seq(DOMAIN Shards)
  /\ t \notin io_lock => pf' = pf /\ \A c \in Range(cache') : Cached(c.key)
  /\ place \in Places /\ pc' = [pc EXCEPT ![t] = place]
  /\ idx' \in [Threads -> Int] /\ \A u \in Threads \ {t} : idx'[u] = idx[u]
  /\ DOMAIN rows' = Threads /\ \A u \in Threads \ {t} : rows'[u] = rows[u]
  /\ DOMAIN answer' = Threads /\ \A u \in Threads \ {t} : answer'[u] = answer[u]
  /\ answer'[t] \in {<<>>, <<"IOError">>, TheRow(idx'[t])}
  /\ io_lock' = IF place \in Locked THEN {t} ELSE io_lock \ {t}
  /\ place \in Locked => t \in io_lock \/ io_lock = {}
  /\ place = "locate" => manifest'.total
  /\ place \in {"open", "read", "insert"} => ~ Cached(KeyOf(t))'
  /\ place \in {"read", "insert"} => KeyOf(t)'[1] \in Range(pf')
  /\ place = "insert" => rows'[t] = RowsOf(KeyOf(t)')

LEMMA SoundKeeps ==
  ASSUME CacheInv, NEW t \in Threads, NEW place, Sound(t, place)
  PROVE  CacheInv'
<1>1. CacheType'
  BY DEF CacheInv, CacheType, Sound
<1>2. pc'[t] = place /\ \A u \in Threads \ {t} : pc'[u] = pc[u]
  BY DEF CacheInv, CacheType, Sound
<1>3. LockInv'
  <2>1. \A u \in Threads : u \in io_lock' <=> pc'[u] \in Locked
    BY <1>2 DEF CacheInv, LockInv, Sound
  <2>2. io_lock' \subseteq Threads /\ \A u, v \in io_lock' : u = v
    BY DEF CacheInv, LockInv, Sound
  <2> QED
    BY <2>1, <2>2 DEF LockInv
<1>4. FetchInv'
  <2>1. ASSUME NEW u \in Threads, u # t
        PROVE  /\ pc'[u] = "locate" => manifest'.total
               /\ pc'[u] \in {"open", "read", "insert"} => ~ Cached(KeyOf(u))'
               /\ pc'[u] \in {"read", "insert"} => KeyOf(u)'[1] \in Range(pf')
               /\ pc'[u] = "insert" => rows'[u] = RowsOf(KeyOf(u)')
    <3>1. pc'[u] = pc[u] /\ idx'[u] = idx[u] /\ rows'[u] = rows[u] /\ KeyOf(u)' = KeyOf(u)
      BY <1>2, <2>1, SameKey DEF Sound
    <3>2. pc[u] \in Locked => t \notin io_lock
      BY <2>1 DEF CacheInv, LockInv
    <3>3. pc[u] \in Locked => pf' = pf /\ (Cached(KeyOf(u))' => Cached(KeyOf(u)))
      BY <3>1, <3>2, CachedKeys DEF Sound
    <3> QED
      BY <3>1, <3>3 DEF CacheInv, FetchInv, Sound, Locked
  <2>2. /\ pc'[t] = "locate" => manifest'.total
        /\ pc'[t] \in {"open", "read", "insert"} => ~ Cached(KeyOf(t))'
        /\ pc'[t] \in {"read", "insert"} => KeyOf(t)'[1] \in Range(pf')
        /\ pc'[t] = "insert" => rows'[t] = RowsOf(KeyOf(t)')
    BY <1>2 DEF Sound
  <2>3. manifest'.total => manifest'.layout
    BY DEF Sound
  <2> QED
    BY <2>1, <2>2, <2>3 DEF FetchInv
<1>5. AnswersAreRows'
  <2>1. ASSUME NEW u \in Threads PROVE answer'[u] \in {<<>>, <<"IOError">>, TheRow(idx'[u])}
    <3>1. CASE u = t
      BY <3>1 DEF Sound
    <3>2. CASE u # t
      BY <3>2 DEF Sound, CacheInv, AnswersAreRows
    <3> QED
      BY <3>1, <3>2
  <2> QED
    BY <2>1 DEF AnswersAreRows
<1> QED
  BY <1>1, <1>3, <1>4, <1>5 DEF CacheInv

\* Each step of a thread is sound.
LEMMA StepIsSound ==
  ASSUME CacheAssumption, RowsAssumption, CacheInv, NEW t \in Threads, get_row(t) \/ Step(t)
  PROVE  \E place : Sound(t, place)
<1>1. /\ manifest \in [layout : BOOLEAN, total : BOOLEAN]
      /\ cache \in Seq(Entries) /\ pf \in Seq(DOMAIN Shards)
      /\ pc \in [Threads -> Places] /\ idx \in [Threads -> Int] /\ idx[t] \in Int
      /\ DOMAIN rows = Threads /\ DOMAIN answer = Threads
      /\ t \in io_lock <=> pc[t] \in Locked
      /\ manifest.total => manifest.layout
      /\ pc[t] = "locate" => manifest.total
      /\ pc[t] \in {"open", "read", "insert"} => ~ Cached(KeyOf(t))
      /\ pc[t] \in {"read", "insert"} => KeyOf(t)[1] \in Range(pf)
      /\ pc[t] = "insert" => rows[t] = RowsOf(KeyOf(t))
      /\ answer[t] \in {<<>>, <<"IOError">>, TheRow(idx[t])}
  BY DEF CacheInv, CacheType, LockInv, FetchInv, AnswersAreRows
<1>2. KeyOf(t) \in GroupKeys /\ Pick(t, RowsOf(KeyOf(t))) = TheRow(idx[t])
  BY <1>1, PickIsTheRow
<1>3. \A c \in Range(cache) : Cached(c.key)
  BY CachedKeys
<1>4. idx' = idx => KeyOf(t)' = KeyOf(t) /\ TheRow(idx'[t]) = TheRow(idx[t])
  BY SameKey
<1>5. idx' = idx /\ cache' = cache => (Cached(KeyOf(t))' <=> Cached(KeyOf(t)))
  BY <1>4, CachedKeys
<1>6. CASE get_row(t)
  <2> DEFINE place == IF manifest.total THEN "locate" ELSE "manifest"
  <2>1. PICK i \in Indexes : idx' = [idx EXCEPT ![t] = i]
    BY <1>6 DEF get_row
  <2>2. i \in Int
    BY <2>1 DEF CacheAssumption
  <2>3. idx' \in [Threads -> Int] /\ \A u \in Threads \ {t} : idx'[u] = idx[u]
    BY <1>1, <2>1, <2>2
  <2>4. pc[t] = "idle" /\ pc' = [pc EXCEPT ![t] = place]
    BY <1>6 DEF get_row, Goto
  <2>5. /\ manifest' = manifest /\ cache' = cache /\ pf' = pf /\ io_lock' = io_lock /\ rows' = rows
        /\ answer' = [answer EXCEPT ![t] = <<>>]
    BY <1>6 DEF get_row
  <2>6. place \in Places \ Locked /\ (place = "locate" => manifest'.total) /\ place \notin {"open", "read", "insert"}
    BY <2>5 DEF Places, Locked
  <2>7. t \notin io_lock
    BY <1>1, <2>4 DEF Locked
  <2> HIDE DEF place
  <2>8. Sound(t, place)
    BY <1>1, <1>3, <2>3, <2>4, <2>5, <2>6, <2>7 DEF Sound
  <2> QED
    BY <2>8
<1>7. CASE EnterManifest(t)
  <2>1. /\ pc[t] = "manifest" /\ t \notin io_lock
        /\ UNCHANGED <<manifest, cache, pf, idx, rows, answer>>
    BY <1>1, <1>7 DEF EnterManifest, Locked
  <2>2. CASE manifest.total
    <3>1. io_lock' = io_lock /\ pc' = [pc EXCEPT ![t] = "locate"]
      BY <1>7, <2>2 DEF EnterManifest, Goto
    <3>2. Sound(t, "locate")
      BY <1>1, <1>3, <1>4, <2>1, <2>2, <3>1 DEF Sound, Places, Locked
    <3> QED
      BY <3>2
  <2>3. CASE ~ manifest.total
    <3>1. io_lock = {} /\ io_lock' = {t} /\ pc' = [pc EXCEPT ![t] = "footers"]
      BY <1>7, <2>3 DEF EnterManifest, Goto, Acquire
    <3>2. Sound(t, "footers")
      BY <1>1, <1>3, <1>4, <2>1, <3>1 DEF Sound, Places, Locked
    <3> QED
      BY <3>2
  <2> QED
    BY <2>2, <2>3
<1>8. CASE ReadFooters(t)
  <2>1. /\ pc[t] = "footers" /\ t \in io_lock /\ pc' = [pc EXCEPT ![t] = "sentinel"]
        /\ manifest' = [manifest EXCEPT !.layout = TRUE]
        /\ UNCHANGED <<cache, pf, io_lock, idx, rows, answer>>
    BY <1>1, <1>8 DEF ReadFooters, Locked, Goto
  <2>2. io_lock = {t}
    BY <2>1 DEF CacheInv, LockInv
  <2>3. manifest' \in [layout : BOOLEAN, total : BOOLEAN] /\ manifest'.layout /\ manifest'.total = manifest.total
    BY <1>1, <2>1
  <2>4. Sound(t, "sentinel")
    BY <1>1, <1>4, <2>1, <2>2, <2>3 DEF Sound, Places, Locked
  <2> QED
    BY <2>4
<1>9. CASE SetTotal(t)
  <2>1. /\ pc[t] = "sentinel" /\ t \in io_lock /\ pc' = [pc EXCEPT ![t] = "locate"]
        /\ manifest' = [layout |-> TRUE, total |-> TRUE] /\ io_lock' = io_lock \ {t}
        /\ UNCHANGED <<cache, pf, idx, rows, answer>>
    BY <1>1, <1>9 DEF SetTotal, Locked, Goto, Release
  <2>2. manifest' \in [layout : BOOLEAN, total : BOOLEAN] /\ manifest'.layout /\ manifest'.total
    BY <2>1
  <2>3. Sound(t, "locate")
    BY <1>1, <1>4, <2>1, <2>2 DEF Sound, Places, Locked
  <2> QED
    BY <2>3
<1>10. CASE FootersFail(t) \/ FetchFails(t)
  <2>1. /\ pc[t] \in Locked /\ t \in io_lock /\ pc' = [pc EXCEPT ![t] = "idle"]
        /\ answer' = [answer EXCEPT ![t] = <<"IOError">>] /\ io_lock' = io_lock \ {t}
        /\ UNCHANGED <<manifest, cache, pf, idx, rows>>
    BY <1>1, <1>10 DEF FootersFail, FetchFails, Raise, Locked, Goto, Release
  <2>2. Sound(t, "idle")
    BY <1>1, <1>4, <2>1 DEF Sound, Places, Locked
  <2> QED
    BY <2>2
<1>11. CASE Locate(t)
  <2>1. /\ pc[t] = "locate" /\ t \notin io_lock /\ manifest.layout
        /\ UNCHANGED <<manifest, cache, pf, idx, rows>>
    BY <1>1, <1>11 DEF Locate, Locked
  <2>2. pc' = [pc EXCEPT ![t] = "lookup"] /\ answer' = answer /\ io_lock' = io_lock
    BY <1>11, <2>1 DEF Locate, Goto
  <2>3. Sound(t, "lookup")
    BY <1>1, <1>3, <1>4, <2>1, <2>2 DEF Sound, Places, Locked
  <2> QED
    BY <2>3
<1>12. CASE Lookup(t)
  <2>1. pc[t] = "lookup" /\ t \notin io_lock /\ UNCHANGED <<manifest, pf, io_lock, idx, rows>>
    BY <1>1, <1>12 DEF Lookup, Locked
  <2>2. CASE Cached(KeyOf(t))
    <3> DEFINE e == Entry(KeyOf(t))
    <3>1. e \in Range(cache) /\ e \in Entries /\ e.rows = RowsOf(KeyOf(t))
      BY <2>2, EntryProperties DEF CacheInv
    <3>2. /\ cache' = Moved(cache, e) /\ pc' = [pc EXCEPT ![t] = "idle"]
          /\ answer' = [answer EXCEPT ![t] = TheRow(idx[t])]
      BY <1>2, <1>12, <2>2, <3>1 DEF Lookup, Return, Goto
    <3> HIDE DEF e
    <3>3. cache' \in Seq(Entries) /\ Range(cache') = Range(cache)
      <4>1. Moved(cache, e) \in Seq(Entries) /\ Range(Moved(cache, e)) = Range(cache) \cup {e}
        BY <1>1, <3>1, MovedProperties
      <4> QED
        BY <3>1, <3>2, <4>1
    <3>4. Sound(t, "idle")
      BY <1>1, <1>3, <1>4, <2>1, <3>2, <3>3 DEF Sound, Places, Locked
    <3> QED
      BY <3>4
  <2>3. CASE ~ Cached(KeyOf(t))
    <3>1. cache' = cache /\ answer' = answer /\ pc' = [pc EXCEPT ![t] = "miss"]
      BY <1>12, <2>3 DEF Lookup, Goto
    <3>2. Sound(t, "miss")
      BY <1>1, <1>3, <1>4, <2>1, <3>1 DEF Sound, Places, Locked
    <3> QED
      BY <3>2
  <2> QED
    BY <2>2, <2>3
<1>13. CASE EnterMiss(t)
  <2>1. pc[t] = "miss" /\ t \notin io_lock /\ UNCHANGED <<manifest, cache, pf, idx, rows>>
    BY <1>1, <1>13 DEF EnterMiss, Locked
  <2>2. CASE Cached(KeyOf(t))
    <3>1. Entry(KeyOf(t)).rows = RowsOf(KeyOf(t))
      BY <2>2, EntryProperties DEF CacheInv
    <3>2. /\ pc' = [pc EXCEPT ![t] = "idle"] /\ io_lock' = io_lock
          /\ answer' = [answer EXCEPT ![t] = TheRow(idx[t])]
      BY <1>2, <1>13, <2>2, <3>1 DEF EnterMiss, Return, Goto
    <3>3. Sound(t, "idle")
      BY <1>1, <1>3, <1>4, <2>1, <3>2 DEF Sound, Places, Locked
    <3> QED
      BY <3>3
  <2>3. CASE ~ Cached(KeyOf(t))
    <3>1. /\ io_lock = {} /\ io_lock' = {t} /\ pc' = [pc EXCEPT ![t] = "open"]
          /\ answer' = answer
      BY <1>13, <2>3 DEF EnterMiss, Goto, Acquire
    <3>2. Sound(t, "open")
      BY <1>1, <1>3, <1>4, <1>5, <2>1, <2>3, <3>1 DEF Sound, Places, Locked
    <3> QED
      BY <3>2
  <2> QED
    BY <2>2, <2>3
<1>14. CASE Open(t)
  <2>1. /\ pc[t] = "open" /\ t \in io_lock /\ pc' = [pc EXCEPT ![t] = "read"]
        /\ pf' = Capped(Moved(pf, KeyOf(t)[1]), HANDLES)
        /\ UNCHANGED <<manifest, cache, io_lock, idx, rows, answer>>
    BY <1>1, <1>14 DEF Open, Locked, Goto
  <2>2. io_lock = {t}
    BY <2>1 DEF CacheInv, LockInv
  <2> DEFINE file == KeyOf(t)[1]
             rest == Filtered(pf, Range(pf) \ {file})
  <2>3. file \in DOMAIN Shards
    BY <1>2 DEF GroupKeys, Groups
  <2>4. rest \in Seq(DOMAIN Shards) /\ pf' = Capped(Append(rest, file), HANDLES)
    <3>1. rest \in Seq(DOMAIN Shards)
      BY <1>1, FilterProperties
    <3> QED
      BY <2>1, <3>1 DEF Moved
  <2> HIDE DEF rest
  <2>5. HANDLES \in Nat \ {0}
    BY DEF CacheAssumption
  <2>6. pf' \in Seq(DOMAIN Shards) /\ file \in Range(pf')
    <3> HIDE DEF file
    <3> QED
      BY <2>3, <2>4, <2>5, CappedProperties
  <2>7. ~ Cached(KeyOf(t))' /\ KeyOf(t)' = KeyOf(t)
    BY <1>1, <1>4, <1>5, <2>1
  <2>8. Sound(t, "read")
    BY <1>1, <1>4, <2>1, <2>2, <2>6, <2>7 DEF Sound, Places, Locked
  <2> QED
    BY <2>8
<1>15. CASE Read(t)
  <2>1. /\ pc[t] = "read" /\ t \in io_lock /\ pc' = [pc EXCEPT ![t] = "insert"]
        /\ rows' = [rows EXCEPT ![t] = RowsOf(KeyOf(t))]
        /\ UNCHANGED <<manifest, cache, pf, io_lock, idx, answer>>
    BY <1>1, <1>15 DEF Read, Locked, Goto
  <2>2. io_lock = {t}
    BY <2>1 DEF CacheInv, LockInv
  <2>3. ~ Cached(KeyOf(t))' /\ KeyOf(t)' = KeyOf(t) /\ RowsOf(KeyOf(t)') = RowsOf(KeyOf(t))
    BY <1>1, <1>4, <1>5, <2>1
  <2>4. Sound(t, "insert")
    BY <1>1, <1>4, <2>1, <2>2, <2>3 DEF Sound, Places, Locked
  <2> QED
    BY <2>4
<1>16. CASE Insert(t)
  <2> DEFINE e == [key |-> KeyOf(t), rows |-> rows[t]]
  <2>1. /\ pc[t] = "insert" /\ t \in io_lock /\ pc' = [pc EXCEPT ![t] = "idle"]
        /\ cache' = Capped(Append(cache, e), CACHE_CAP)
        /\ rows' = [rows EXCEPT ![t] = <<>>] /\ answer' = [answer EXCEPT ![t] = Pick(t, rows[t])]
        /\ io_lock' = io_lock \ {t} /\ UNCHANGED <<manifest, pf, idx>>
    BY <1>1, <1>16 DEF Insert, Locked, Goto, Return, Release
  <2>2. rows[t] = RowsOf(KeyOf(t)) /\ Pick(t, rows[t]) = TheRow(idx[t])
    BY <1>1, <1>2, <2>1
  <2>3. e \in Entries
    BY <1>2, <2>2 DEF Entries
  <2> HIDE DEF e
  <2>4. CACHE_CAP \in Nat \ {0}
    BY DEF CacheAssumption
  <2>5. cache' \in Seq(Entries)
    BY <1>1, <2>1, <2>3, <2>4, CappedProperties
  <2>6. Sound(t, "idle")
    BY <1>1, <1>4, <2>1, <2>2, <2>5 DEF Sound, Places, Locked
  <2> QED
    BY <2>6
<1> QED
  BY <1>6, <1>7, <1>8, <1>9, <1>10, <1>11, <1>12, <1>13, <1>14, <1>15, <1>16 DEF Step

\* One step keeps the invariant, and so does none.
LEMMA CacheStep ==
  CacheAssumption /\ RowsAssumption /\ CacheInv /\ [ParquetNext]_(parquet_vars) => CacheInv'
<1> SUFFICES ASSUME CacheAssumption, RowsAssumption, CacheInv, [ParquetNext]_(parquet_vars) PROVE CacheInv'
  OBVIOUS
<1>1. CASE ParquetNext
  <2>1. PICK t \in Threads : get_row(t) \/ Step(t)
    BY <1>1 DEF ParquetNext
  <2>2. PICK place : Sound(t, place)
    BY <2>1, StepIsSound
  <2> QED
    BY <2>2, SoundKeeps
<1>2. CASE UNCHANGED parquet_vars
  <2>1. /\ manifest' = manifest /\ cache' = cache /\ pf' = pf /\ io_lock' = io_lock
        /\ pc' = pc /\ idx' = idx /\ rows' = rows /\ answer' = answer
    BY <1>2 DEF parquet_vars
  <2>2. CacheType' /\ LockInv'
    BY <2>1 DEF CacheInv, CacheType, LockInv
  <2>3. FetchInv'
    BY <2>1, SameKey, CachedKeys DEF CacheInv, FetchInv
  <2>4. AnswersAreRows'
    BY <2>1 DEF CacheInv, AnswersAreRows
  <2> QED
    BY <2>2, <2>3, <2>4 DEF CacheInv
<1> QED
  BY <1>1, <1>2

LEMMA CacheInitially == ParquetInit => CacheInv
<1> SUFFICES ASSUME ParquetInit PROVE CacheInv
  OBVIOUS
<1>1. cache = <<>> /\ pf = <<>> /\ io_lock = {} /\ \A t \in Threads : pc[t] = "idle" /\ answer[t] = <<>>
  BY DEF ParquetInit
<1>2. CacheType
  <2>1. idx \in [Threads -> Int]
    BY DEF ParquetInit
  <2>2. <<>> \in Seq(Entries) /\ <<>> \in Seq(DOMAIN Shards)
    BY EmptySeq
  <2> QED
    BY <2>1, <2>2 DEF ParquetInit, CacheType, Places
<1>3. LockInv
  BY <1>1 DEF LockInv, Locked
<1>4. FetchInv
  BY <1>1 DEF ParquetInit, FetchInv
<1>5. AnswersAreRows
  BY <1>1 DEF AnswersAreRows
<1> QED
  BY <1>2, <1>3, <1>4, <1>5 DEF CacheInv

\* A call returns the row of its index, or fails as the storage does: for any number
\* of threads, any layout of the files and any bounds of the cache and of the open
\* files, no thread works with half a manifest or with the rows of another group.
THEOREM CallsAnswerRows == ParquetSpec => []AnswersAreRows
<1> USE CacheAssumption, RowsAssumption
<1>1. CacheInv => AnswersAreRows
  BY DEF CacheInv
<1>2. CacheInv /\ [ParquetNext]_(parquet_vars) => CacheInv'
  BY CacheStep
<1> QED
  BY <1>1, <1>2, CacheInitially, PTL DEF ParquetSpec

\* Threads that miss the same row group cause one read of it, by a handle that stays
\* open until the read has ended.
THEOREM ReadsAreNeeded == ParquetSpec => []FetchesAreNeeded
<1> USE CacheAssumption, RowsAssumption
<1>1. CacheInv => FetchesAreNeeded
  <2> SUFFICES ASSUME CacheInv, NEW t \in Threads, pc[t] \in {"read", "insert"}
               PROVE  io_lock = {t} /\ KeyOf(t)[1] \in Range(pf) /\ ~ Cached(KeyOf(t))
    BY DEF FetchesAreNeeded
  <2>1. io_lock = {t}
    BY DEF CacheInv, LockInv, Locked
  <2> QED
    BY <2>1 DEF CacheInv, FetchInv
<1>2. CacheInv /\ [ParquetNext]_(parquet_vars) => CacheInv'
  BY CacheStep
<1> QED
  BY <1>1, <1>2, CacheInitially, PTL DEF ParquetSpec
=============================================================================
