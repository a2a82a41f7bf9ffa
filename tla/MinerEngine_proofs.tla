------------------------- MODULE MinerEngine_proofs -------------------------
(***************************************************************************)
(* Theorems about MinerEngine: for any prompts, budget, pool and batch     *)
(* sizes, cooldowns, and any number of windows and checkpoints.            *)
(***************************************************************************)
EXTENDS MinerEngine, SequenceFilter_proofs, FiniteSetTheorems

-----------------------------------------------------------------------------
(***************************************************************************)
(* Types.  Drain and Finish are the actions that need a word: what they    *)
(* move between the pool and a task is a filtered, cut and relabelled      *)
(* sequence.                                                               *)
(***************************************************************************)
Ready(task) == Filtered(pool, {e \in Range(pool) : e.prompt \notin task.state.cooldown})
Reservable(task) == IF Len(Ready(task)) < task.budget THEN Len(Ready(task)) ELSE task.budget
Reserved(task) ==
  [task EXCEPT !.drained = TRUE,
               !.entries = [i \in 1..Reservable(task) |->
                              [entry |-> Ready(task)[i], progress |-> "build"]]]

\* What a drain reserves, what it leaves in the pool, and where both come from.
LEMMA DrainParts ==
  ASSUME TypeOK, NEW task \in fire
  PROVE  LET k == Reservable(task)
             rest == SubSeq(Ready(task), k + 1, Len(Ready(task)))
         IN  /\ k \in Nat /\ k <= task.budget
             /\ rest \in Seq(PoolEntries)
             /\ Range(rest) \subseteq Range(pool)
             /\ Reserved(task) \in Tasks
             /\ DOMAIN Reserved(task).entries = 1..k
             /\ Reserved(task).state = task.state
             /\ Reserved(task).drained
<1> DEFINE k == Reservable(task)
           ready == Ready(task)
           rest == SubSeq(ready, k + 1, Len(ready))
<1>1. pool \in Seq(PoolEntries) /\ task \in Tasks /\ task.budget \in Nat
  BY DEF TypeOK, Tasks
<1>2. /\ ready \in Seq(PoolEntries) /\ Len(ready) \in Nat
      /\ DOMAIN ready = 1..Len(ready)
      /\ \A i \in 1..Len(ready) : ready[i] \in PoolEntries /\ ready[i] \in Range(pool)
  <2>1. ready \in Seq(PoolEntries) /\ Range(ready) \subseteq Range(pool)
    BY <1>1, FilterProperties DEF Ready
  <2>2. Len(ready) \in Nat /\ DOMAIN ready = 1..Len(ready)
    BY <2>1, LenProperties
  <2>3. \A i \in 1..Len(ready) : ready[i] \in PoolEntries
    BY <2>1, ElementOfSeq
  <2>4. \A i \in 1..Len(ready) : ready[i] \in Range(ready)
    BY <2>2 DEF Range
  <2> HIDE DEF ready
  <2> QED
    BY <2>1, <2>2, <2>3, <2>4
<1>3. k \in Nat /\ k <= task.budget /\ k <= Len(ready)
  BY <1>1, <1>2 DEF Reservable
<1> HIDE DEF k, ready
<1>4. /\ rest \in Seq(PoolEntries)
      /\ Len(rest) = IF k + 1 <= Len(ready) THEN Len(ready) - k ELSE 0
      /\ \A i \in 1..Len(ready) - k : rest[i] = ready[k + i]
  <2>1. \A i \in k + 1..Len(ready) : ready[i] \in PoolEntries
    BY <1>2, <1>3
  <2>2. k + 1 \in Int /\ Len(ready) \in Int
    BY <1>2, <1>3
  <2>3. /\ rest \in Seq(PoolEntries)
        /\ Len(rest) = IF k + 1 <= Len(ready) THEN Len(ready) - (k + 1) + 1 ELSE 0
        /\ \A i \in 1..Len(ready) - (k + 1) + 1 : rest[i] = ready[k + 1 + i - 1]
    BY <2>1, <2>2, SubSeqProperties
  <2>4. Len(ready) - (k + 1) + 1 = Len(ready) - k
    BY <1>2, <1>3
  <2>5. \A i \in 1..Len(ready) - k : k + 1 + i - 1 = k + i
    BY <1>2, <1>3
  <2> HIDE DEF rest
  <2> QED
    BY <2>3, <2>4, <2>5
<1>5. Range(rest) \subseteq Range(pool)
  <2> SUFFICES ASSUME NEW i \in DOMAIN rest PROVE rest[i] \in Range(pool)
    BY DEF Range
  <2>1. i \in 1..Len(ready) - k
    BY <1>2, <1>3, <1>4, LenProperties
  <2>2. k + i \in 1..Len(ready)
    BY <1>2, <1>3, <2>1
  <2> QED
    BY <1>2, <1>4, <2>1, <2>2
<1>6. [i \in 1..k |-> [entry |-> ready[i], progress |-> "build"]] \in [1..k -> FireEntries]
  BY <1>2, <1>3 DEF FireEntries
<1>7. [i \in 1..k |-> [entry |-> ready[i], progress |-> "build"]] \in Seq(FireEntries)
  BY <1>3, <1>6, FunctionIsSeq
<1>8. /\ Reserved(task) \in Tasks
      /\ DOMAIN Reserved(task).entries = 1..k
      /\ Reserved(task).state = task.state
      /\ Reserved(task).drained
  BY <1>1, <1>7 DEF Reserved, Tasks, k, ready
<1> QED
  BY <1>3, <1>4, <1>5, <1>8 DEF k, ready, rest

\* A drain, in the words of the lemma.
LEMMA DrainStep ==
  ASSUME Drain
  PROVE  \E task \in fire :
           /\ ~ task.drained
           /\ pool' = SubSeq(Ready(task), Reservable(task) + 1, Len(Ready(task)))
           /\ submitted_count' =
                [submitted_count EXCEPT ![task.state.window_n] = @ + Reservable(task)]
           /\ fire' = (fire \ {task}) \cup (IF Reservable(task) = 0 THEN {} ELSE {Reserved(task)})
           /\ UNCHANGED <<served, trigger, seen, cached_randomness, cached_cooldown, local_n,
                          bake, posted, reloaded>>
BY DEF Drain, Ready, Reservable, Reserved

\* The progress of one entry of a task changes, and nothing else.
LEMMA ProgressType ==
  ASSUME NEW task \in Tasks, NEW i \in DOMAIN task.entries,
         NEW p \in {"build", "sent", "drop", "requeue"}
  PROVE  LET t == [task EXCEPT !.entries[i].progress = p]
         IN  /\ t \in Tasks
             /\ t.state = task.state /\ t.drained = task.drained
             /\ DOMAIN t.entries = DOMAIN task.entries
             /\ \A j \in DOMAIN t.entries :
                  t.entries[j].progress = IF j = i THEN p ELSE task.entries[j].progress
<1> DEFINE e == [task.entries EXCEPT ![i].progress = p]
<1>1. task.entries \in Seq(FireEntries)
  BY DEF Tasks
<1>2. i \in 1..Len(task.entries) /\ DOMAIN task.entries = 1..Len(task.entries)
  BY <1>1, LenProperties
<1>3. [task.entries[i] EXCEPT !.progress = p] \in FireEntries
  <2>1. task.entries[i] \in FireEntries
    BY <1>1, <1>2, ElementOfSeq
  <2> QED
    BY <2>1 DEF FireEntries
<1>4. e \in Seq(FireEntries)
  BY <1>1, <1>2, <1>3, ExceptSeq
<1>5. \A j \in DOMAIN task.entries : e[j].progress = IF j = i THEN p ELSE task.entries[j].progress
  BY <1>1, <1>2, ElementOfSeq DEF FireEntries
<1>6. [task EXCEPT !.entries[i].progress = p] = [task EXCEPT !.entries = e]
  BY DEF Tasks
<1> QED
  BY <1>4, <1>5, <1>6 DEF Tasks

\* What a task gives back is again a sequence of entries of the pool.
LEMMA RequeuedType ==
  ASSUME NEW task \in Tasks
  PROVE  LET requeued == Filtered(task.entries,
                                  {x \in Range(task.entries) : x.progress = "requeue"})
             back == [i \in DOMAIN requeued |-> [requeued[i].entry EXCEPT !.back = TRUE]]
         IN  back \in Seq(PoolEntries) /\ \A i \in DOMAIN back : back[i].back
<1> DEFINE requeued == Filtered(task.entries,
                                {x \in Range(task.entries) : x.progress = "requeue"})
           back == [i \in DOMAIN requeued |-> [requeued[i].entry EXCEPT !.back = TRUE]]
<1>1. task.entries \in Seq(FireEntries)
  BY DEF Tasks
<1>2. requeued \in Seq(FireEntries)
  BY <1>1, FilterProperties
<1> HIDE DEF requeued
<1>3. Len(requeued) \in Nat /\ DOMAIN requeued = 1..Len(requeued)
  BY <1>2, LenProperties
<1>4. \A i \in DOMAIN requeued : requeued[i].entry \in PoolEntries
  <2>1. \A i \in DOMAIN requeued : requeued[i] \in FireEntries
    BY <1>2, <1>3, ElementOfSeq
  <2> QED
    BY <2>1 DEF FireEntries
<1>5. back \in [1..Len(requeued) -> PoolEntries] /\ \A i \in DOMAIN back : back[i].back
  BY <1>3, <1>4 DEF PoolEntries
<1>6. back \in Seq(PoolEntries)
  BY <1>3, <1>5, FunctionIsSeq
<1> QED
  BY <1>5, <1>6 DEF requeued

\* What the thread in hand may return is an entry of the pool.
LEMMA BakedType ==
  ASSUME TypeOK, bake.running
  PROVE  Baked \in PoolEntries
<1>1. bake.todo \in Seq(Prompts) /\ bake.todo # <<>>
  BY DEF TypeOK, Bakes
<1>2. Head(bake.todo) \in Prompts
  BY <1>1, HeadTailProperties
<1> QED
  BY <1>2 DEF Baked, TypeOK, Bakes, PoolEntries

LEMMA TypeInit == Init => TypeOK
<1> SUFFICES ASSUME Init PROVE TypeOK
  OBVIOUS
<1> USE MinerAssumption DEF Windows, NoRandomness, Checkpoints
<1>1. PICK c \in Cooldowns[1] :
        served = [window_n |-> 1, open |-> TRUE, randomness |-> NoRandomness,
                  checkpoint_n |-> 0, cooldown |-> c]
  BY DEF Init
<1>2. served \in Answers /\ seen \in Answers
  <2>1. seen = served
    BY DEF Init
  <2>2. served \in Answers
    BY <1>1 DEF Answers
  <2> QED
    BY <2>1, <2>2
<1>3. <<>> \in Seq(PoolEntries) /\ <<>> \in Seq(Prompts)
  BY EmptySeq
<1>4. bake \in Bakes
  BY <1>3 DEF Init, Bakes, Idle
<1> QED
  <2>1. local_n \in Checkpoints
    BY DEF Init
  <2>2. submitted_count \in [Windows -> Nat] /\ posted \in [Windows -> Nat]
    BY DEF Init
  <2>3. ~ bake.running /\ fire = {}
    BY DEF Init, Idle
  <2> QED
    BY <1>2, <1>3, <1>4, <2>1, <2>2, <2>3 DEF Init, TypeOK

LEMMA TypeStep == TypeOK /\ [Next]_vars => TypeOK'
<1> SUFFICES ASSUME TypeOK, [Next]_vars PROVE TypeOK'
  OBVIOUS
<1>1. <<>> \in Seq(PoolEntries) /\ <<>> \in Seq(Prompts) /\ <<>> \in Seq(FireEntries)
  BY EmptySeq
<1>0. MaxWindow \in Nat /\ MaxCheckpoint \in Nat
  BY MinerAssumption
<1>2. ASSUME NEW size, FireIfReady(size) PROVE fire' \subseteq Tasks
  <2>1. CASE Fireable(size)
    <3>1. seen.window_n \in Windows
      BY DEF TypeOK, Answers
    <3>2. Remaining(seen.window_n) \in Nat
      BY <2>1, <3>1, MinerAssumption DEF Fireable, Remaining, TypeOK
    <3>3. NewTask \in Tasks
      BY <1>1, <3>2 DEF NewTask, Tasks, TypeOK
    <3> QED
      BY <1>2, <3>3 DEF FireIfReady, TypeOK
  <2>2. CASE ~ Fireable(size)
    BY <1>2, <2>2 DEF FireIfReady, TypeOK
  <2> QED
    BY <2>1, <2>2
<1>3. CASE Validator
  <2>1. CASE OpenWindow
    <3>1. PICK n \in {served.checkpoint_n, served.checkpoint_n + 1} \cap 0..MaxCheckpoint,
               c \in Cooldowns[served.window_n + 1] :
            served' = [window_n |-> served.window_n + 1, open |-> TRUE,
                       randomness |-> NoRandomness, checkpoint_n |-> n, cooldown |-> c]
      BY <2>1 DEF OpenWindow
    <3>2. served.window_n + 1 \in Windows
      <4>1. served.window_n \in 1..MaxWindow
        BY DEF TypeOK, Answers, Windows
      <4>2. served.window_n < MaxWindow
        BY <2>1 DEF OpenWindow
      <4> QED
        BY <1>0, <4>1, <4>2 DEF Windows
    <3>3. c \in SUBSET Prompts
      BY <3>1, <3>2, MinerAssumption DEF Windows
    <3>4. served' \in Answers
      BY <3>1, <3>2, <3>3 DEF Answers
    <3> QED
      BY <1>3, <3>4 DEF Validator, TypeOK
  <2>2. CASE PublishRandomness \/ CloseWindow
    <3>1. served' \in Answers
      BY <2>2 DEF PublishRandomness, CloseWindow, TypeOK, Answers
    <3> QED
      BY <1>3, <3>1 DEF Validator, TypeOK
  <2> QED
    BY <1>3, <2>1, <2>2 DEF Validator
<1>4. CASE Poll
  BY <1>4 DEF Poll, TypeOK
<1>5. CASE Refresh
  <2>1. fire' \subseteq Tasks
    BY <1>2, <1>5 DEF Refresh, TypeOK
  <2>2. cached_cooldown' \subseteq Prompts /\ cached_randomness' \in {NoRandomness} \cup Windows
    BY <1>5 DEF Refresh, TypeOK, Answers
  <2> QED
    BY <1>1, <1>5, <2>1, <2>2 DEF Refresh, TypeOK
<1>6. CASE Adopt
  <2>1. local_n' \in Checkpoints
    BY <1>6 DEF Adopt, AdoptWith, TypeOK, Answers, Checkpoints
  <2> QED
    BY <1>1, <1>6, <2>1 DEF Adopt, AdoptWith, TypeOK
<1>7. CASE PullFails
  <2>1. fire' \subseteq Tasks
    BY <1>2, <1>7 DEF PullFails
  <2> QED
    BY <1>7, <2>1 DEF PullFails, TypeOK
<1>8. CASE Drain
  <2>1. PICK task \in fire :
          /\ pool' = SubSeq(Ready(task), Reservable(task) + 1, Len(Ready(task)))
          /\ submitted_count' =
               [submitted_count EXCEPT ![task.state.window_n] = @ + Reservable(task)]
          /\ fire' = (fire \ {task}) \cup (IF Reservable(task) = 0 THEN {} ELSE {Reserved(task)})
          /\ UNCHANGED <<served, trigger, seen, cached_randomness, cached_cooldown, local_n,
                         bake, posted, reloaded>>
    BY <1>8, DrainStep
  <2>2. Reservable(task) \in Nat /\ pool' \in Seq(PoolEntries) /\ Reserved(task) \in Tasks
    BY <2>1, DrainParts
  <2>3. submitted_count' \in [Windows -> Nat]
    <3>1. task.state.window_n \in Windows
      BY DEF TypeOK, Tasks, Answers
    <3> QED
      BY <2>1, <2>2, <3>1 DEF TypeOK
  <2> QED
    BY <2>1, <2>2, <2>3 DEF TypeOK
<1>9. CASE Post
  <2>1. PICK task \in fire : \E i \in DOMAIN task.entries :
          /\ \/ /\ Progress(task, i, "sent")
                /\ posted' = [posted EXCEPT ![task.state.window_n] = @ + 1]
             \/ Progress(task, i, "drop") /\ UNCHANGED posted
          /\ UNCHANGED <<served, trigger, seen, cached_randomness, cached_cooldown, local_n,
                         pool, bake, submitted_count, reloaded>>
    BY <1>9 DEF Post
  <2>2. task \in Tasks
    BY DEF TypeOK
  <2>3. fire' \subseteq Tasks
    <3>1. PICK i \in DOMAIN task.entries, p \in {"build", "sent", "drop", "requeue"} :
            Progress(task, i, p)
      BY <2>1
    <3>2. [task EXCEPT !.entries[i].progress = p] \in Tasks
      BY <2>2, ProgressType
    <3> QED
      BY <3>1, <3>2 DEF Progress, TypeOK
  <2>4. posted' \in [Windows -> Nat]
    BY <2>1 DEF TypeOK
  <2> QED
    BY <2>1, <2>3, <2>4 DEF TypeOK
<1>10. CASE Answer
  <2>1. PICK task \in fire : \E i \in DOMAIN task.entries, p \in {"drop", "requeue"} :
          /\ Progress(task, i, p)
          /\ UNCHANGED <<served, trigger, seen, cached_randomness, cached_cooldown, local_n,
                         pool, bake, submitted_count, posted, reloaded>>
    BY <1>10 DEF Answer
  <2>2. task \in Tasks
    BY DEF TypeOK
  <2>3. fire' \subseteq Tasks
    <3>1. PICK i \in DOMAIN task.entries, p \in {"build", "sent", "drop", "requeue"} :
            Progress(task, i, p)
      BY <2>1
    <3>2. [task EXCEPT !.entries[i].progress = p] \in Tasks
      BY <2>2, ProgressType
    <3> QED
      BY <3>1, <3>2 DEF Progress, TypeOK
  <2> QED
    BY <2>1, <2>3 DEF TypeOK
<1>11. CASE Finish
  <2>1. PICK task \in fire : FinishWith(task, fire \ {task})
    BY <1>11 DEF Finish
  <2>2. task \in Tasks
    BY DEF TypeOK
  <2>3. pool' \in Seq(PoolEntries)
    BY <2>1, <2>2, RequeuedType, ConcatProperties DEF FinishWith, TypeOK
  <2> QED
    BY <2>1, <2>3 DEF FinishWith, TypeOK
<1>12. CASE Generator
  <2>1. CASE Pick
    <3> DEFINE left == Prompts \ (cached_cooldown \cup PromptsOf(pool))
               k == IF Cardinality(left) < BAKE_BATCH_SIZE THEN Cardinality(left)
                    ELSE BAKE_BATCH_SIZE
    <3>1. k \in Nat
      BY MinerAssumption, FS_Subset, FS_CardinalityType
    <3>2. PICK picks \in [1..k -> left] :
            bake' = [Idle EXCEPT !.todo = picks, !.checkpoint_n = local_n]
      BY <2>1 DEF Pick, PickWith
    <3> HIDE DEF k
    <3>3. picks \in Seq(Prompts)
      BY <3>1, <3>2, FunctionIsSeq
    <3>4. bake' \in Bakes
      <4>1. -1 \in Checkpoints /\ local_n \in Checkpoints
        BY <1>0 DEF Checkpoints, TypeOK
      <4>2. bake' = [todo |-> picks, checkpoint_n |-> local_n, running |-> FALSE,
                     randomness |-> NoRandomness, checkpoint |-> -1]
        BY <3>2 DEF Idle
      <4> QED
        BY <3>3, <4>1, <4>2 DEF Bakes
    <3>5. ~ bake'.running
      BY <3>2 DEF Idle
    <3> QED
      BY <2>1, <3>4, <3>5 DEF Pick, PickWith, TypeOK
  <2>2. CASE StartEntry
    BY <2>2 DEF StartEntry, TypeOK, Bakes
  <2>3. CASE DeliverEntry
    <3>1. bake.todo \in Seq(Prompts)
      BY DEF TypeOK, Bakes
    <3>2. bake' \in Bakes /\ ~ bake'.running
      <4>1. -1 \in Checkpoints
        BY <1>0 DEF Checkpoints
      <4>2. Tail(bake.todo) \in Seq(Prompts)
        BY <2>3, <3>1, HeadTailProperties DEF DeliverEntry, DeliverTo, TypeOK
      <4> QED
        BY <1>1, <2>3, <4>1, <4>2 DEF DeliverEntry, DeliverTo, TypeOK, Bakes, Idle
    <3>3. Baked \in PoolEntries
      BY <2>3, BakedType DEF DeliverEntry, DeliverTo
    <3>4. pool' \in Seq(PoolEntries)
      <4>1. pool \in Seq(PoolEntries) /\ Append(pool, Baked) \in Seq(PoolEntries)
        BY <3>3, AppendProperties DEF TypeOK
      <4>2. pool' \in {pool, Append(pool, Baked)}
        BY <2>3 DEF DeliverEntry, DeliverTo
      <4> QED
        BY <4>1, <4>2
    <3> QED
      BY <2>3, <3>2, <3>4 DEF DeliverEntry, DeliverTo, TypeOK
  <2> QED
    BY <1>12, <2>1, <2>2, <2>3 DEF Generator
<1>13. CASE UNCHANGED vars
  BY <1>13 DEF vars, TypeOK
<1> QED
  BY <1>3, <1>4, <1>5, <1>6, <1>7, <1>8, <1>9, <1>10, <1>11, <1>12, <1>13
     DEF Next, TriggerLoop, FireTask

\* The state is of its type: the pool holds entries, and a task what it drained.
THEOREM TypeCorrect == Spec => []TypeOK
BY TypeInit, TypeStep, PTL DEF Spec

-----------------------------------------------------------------------------
(***************************************************************************)
(* The budget of a window.  There is one fire task at a time; what it has  *)
(* still to post is reserved, and what it may reserve is still free.       *)
(***************************************************************************)
ToBuild(task) == {i \in DOMAIN task.entries : task.entries[i].progress = "build"}

WithinBudget(task) ==
  LET w == task.state.window_n
  IN  /\ posted[w] + Cardinality(ToBuild(task)) <= submitted_count[w]
      /\ ~ task.drained => /\ task.entries = <<>>
                           /\ submitted_count[w] + task.budget <= MAX_SUBMISSIONS

BudgetInv ==
  /\ \A t, u \in fire : t = u
  /\ \A w \in Windows : posted[w] <= submitted_count[w] /\ submitted_count[w] <= MAX_SUBMISSIONS
  /\ \A task \in fire : WithinBudget(task)

LEMMA BudgetInit == Init => BudgetInv
BY MinerAssumption DEF Init, BudgetInv

\* The entries that are left to build are finitely many.
LEMMA ToBuildFinite ==
  ASSUME NEW task \in Tasks
  PROVE  IsFiniteSet(ToBuild(task)) /\ Cardinality(ToBuild(task)) \in Nat
<1>1. ToBuild(task) \subseteq 1..Len(task.entries) /\ Len(task.entries) \in Nat
  BY LenProperties DEF Tasks, ToBuild
<1>2. IsFiniteSet(1..Len(task.entries))
  BY <1>1, FS_Interval
<1>3. IsFiniteSet(ToBuild(task))
  BY <1>1, <1>2, FS_Subset
<1> QED
  BY <1>3, FS_CardinalityType

\* A new task may reserve what is left of its window.
LEMMA NewTaskBudget ==
  ASSUME TypeOK, BudgetInv, NEW size, FireIfReady(size),
         UNCHANGED <<submitted_count, posted>>
  PROVE  BudgetInv'
<1>1. CASE fire' = fire
  BY <1>1 DEF BudgetInv, WithinBudget
<1>2. CASE fire' # fire
  <2>1. Fireable(size) /\ fire = {} /\ fire' = {NewTask}
    BY <1>2 DEF FireIfReady
  <2>2. PICK t : t = NewTask
    OBVIOUS
  <2>3. /\ t.state = seen /\ t.entries = <<>>
        /\ t.budget = MAX_SUBMISSIONS - submitted_count[seen.window_n]
    BY <2>2 DEF NewTask, Remaining
  <2>4. Cardinality(ToBuild(t)) = 0
    BY <2>3, FS_EmptySet DEF ToBuild
  <2>5. seen.window_n \in Windows
    BY DEF TypeOK, Answers
  <2>6. /\ submitted_count[seen.window_n] \in Nat /\ posted[seen.window_n] \in Nat
        /\ MAX_SUBMISSIONS \in Nat
    BY <2>5, MinerAssumption DEF TypeOK
  <2>7. WithinBudget(t)'
    BY <2>3, <2>4, <2>5, <2>6 DEF WithinBudget, BudgetInv
  <2> QED
    BY <2>1, <2>2, <2>7 DEF BudgetInv
<1> QED
  BY <1>1, <1>2

LEMMA BudgetStep == TypeOK /\ BudgetInv /\ [Next]_vars => BudgetInv'
<1> SUFFICES ASSUME TypeOK, BudgetInv, [Next]_vars PROVE BudgetInv'
  OBVIOUS
<1>1. CASE UNCHANGED <<submitted_count, posted, fire>>
  BY <1>1 DEF BudgetInv, WithinBudget
<1>2. CASE Refresh \/ PullFails
  <2>1. FireIfReady(Len(pool')) \/ FireIfReady(Len(pool)) \/ UNCHANGED fire
    BY <1>2 DEF Refresh, PullFails
  <2>2. UNCHANGED <<submitted_count, posted>>
    BY <1>2 DEF Refresh, PullFails
  <2> QED
    BY <1>1, <2>1, <2>2, NewTaskBudget
<1>3. CASE Drain
  <2>1. PICK task \in fire :
          /\ ~ task.drained
          /\ submitted_count' =
               [submitted_count EXCEPT ![task.state.window_n] = @ + Reservable(task)]
          /\ fire' = (fire \ {task}) \cup (IF Reservable(task) = 0 THEN {} ELSE {Reserved(task)})
          /\ UNCHANGED posted
    BY <1>3, DrainStep
  <2> DEFINE w == task.state.window_n
  <2>2. PICK k, t : k = Reservable(task) /\ t = Reserved(task)
    OBVIOUS
  <2>3. /\ k \in Nat /\ k <= task.budget
        /\ DOMAIN t.entries = 1..k
        /\ t.state = task.state /\ t.drained
    BY <2>2, DrainParts
  <2>4. task \in Tasks /\ w \in Windows /\ task.budget \in Nat
    BY DEF TypeOK, Tasks, Answers
  <2>5. /\ submitted_count[w] \in Nat /\ posted[w] \in Nat /\ MAX_SUBMISSIONS \in Nat
        /\ posted[w] <= submitted_count[w]
        /\ submitted_count[w] + task.budget <= MAX_SUBMISSIONS
    BY <2>1, <2>4, MinerAssumption DEF TypeOK, BudgetInv, WithinBudget
  <2>6. /\ submitted_count'[w] = submitted_count[w] + k
        /\ \A v \in Windows : v # w => submitted_count'[v] = submitted_count[v]
    BY <2>1, <2>2, <2>4 DEF TypeOK
  <2>7. Cardinality(ToBuild(t)) <= k /\ Cardinality(ToBuild(t)) \in Nat
    <3>1. ToBuild(t) \subseteq 1..k
      BY <2>3 DEF ToBuild
    <3>2. IsFiniteSet(1..k) /\ Cardinality(1..k) = k
      BY <2>3, FS_Interval
    <3> QED
      BY <3>1, <3>2, FS_Subset, FS_CardinalityType
  <2>8. WithinBudget(t)'
    BY <2>1, <2>3, <2>5, <2>6, <2>7 DEF WithinBudget
  <2>9. \A v \in Windows : posted'[v] <= submitted_count'[v] /\ submitted_count'[v] <= MAX_SUBMISSIONS
    <3> TAKE v \in Windows
    <3>1. CASE v = w
      BY <2>1, <2>3, <2>4, <2>5, <2>6, <3>1
    <3>2. CASE v # w
      BY <2>1, <2>6, <3>2 DEF BudgetInv
    <3> QED
      BY <3>1, <3>2
  <2>10. fire' \subseteq {t}
    BY <2>1, <2>2 DEF BudgetInv
  <2> QED
    BY <2>8, <2>9, <2>10 DEF BudgetInv
<1>4. CASE Post \/ Answer
  <2>1. PICK task \in fire : \E i \in DOMAIN task.entries, p \in {"sent", "drop", "requeue"} :
          /\ Progress(task, i, p)
          /\ \/ /\ task.entries[i].progress = "build"
                /\ \/ posted' = [posted EXCEPT ![task.state.window_n] = @ + 1]
                   \/ UNCHANGED posted
             \/ task.entries[i].progress = "sent" /\ UNCHANGED posted
          /\ UNCHANGED submitted_count
    BY <1>4 DEF Post, Answer
  <2>2. PICK i \in DOMAIN task.entries, p \in {"sent", "drop", "requeue"} :
          /\ Progress(task, i, p)
          /\ \/ /\ task.entries[i].progress = "build"
                /\ \/ posted' = [posted EXCEPT ![task.state.window_n] = @ + 1]
                   \/ UNCHANGED posted
             \/ task.entries[i].progress = "sent" /\ UNCHANGED posted
          /\ UNCHANGED submitted_count
    BY <2>1
  <2> DEFINE w == task.state.window_n
  <2>3. PICK t : t = [task EXCEPT !.entries[i].progress = p]
    OBVIOUS
  <2>4. task \in Tasks /\ w \in Windows
    BY DEF TypeOK, Tasks, Answers
  <2>5. /\ t.state = task.state /\ t.drained = task.drained
        /\ ToBuild(t) = ToBuild(task) \ {i}
    BY <2>3, <2>4, ProgressType DEF ToBuild
  <2>6. task.drained
    BY <2>2 DEF BudgetInv, WithinBudget
  <2>7. Cardinality(ToBuild(t)) =
          IF task.entries[i].progress = "build" THEN Cardinality(ToBuild(task)) - 1
          ELSE Cardinality(ToBuild(task))
    <3>1. i \in ToBuild(task) <=> task.entries[i].progress = "build"
      BY <2>2 DEF ToBuild
    <3> QED
      BY <2>4, <2>5, <3>1, ToBuildFinite, FS_RemoveElement
  <2>8. /\ submitted_count[w] \in Nat /\ posted[w] \in Nat
        /\ Cardinality(ToBuild(task)) \in Nat
        /\ Cardinality(ToBuild(t)) \in Nat
        /\ posted[w] + Cardinality(ToBuild(task)) <= submitted_count[w]
    <3>1. t \in Tasks
      BY <2>3, <2>4, ProgressType
    <3> QED
      BY <2>4, <3>1, ToBuildFinite DEF TypeOK, BudgetInv, WithinBudget
  <2>9. posted'[w] + Cardinality(ToBuild(t)) <= submitted_count'[w]
    BY <2>2, <2>4, <2>7, <2>8 DEF TypeOK
  <2>10. \A v \in Windows : v # w => posted'[v] = posted[v]
    BY <2>2 DEF TypeOK
  <2>11. posted'[w] <= submitted_count'[w]
    <3>1. posted'[w] \in Nat
      BY <2>2, <2>4, <2>8 DEF TypeOK
    <3> QED
      BY <2>2, <2>8, <2>9, <3>1
  <2>12. fire' = {t}
    BY <2>2, <2>3 DEF Progress, BudgetInv
  <2>13. WithinBudget(t)'
    BY <2>5, <2>6, <2>9 DEF WithinBudget
  <2> QED
    BY <2>2, <2>10, <2>11, <2>12, <2>13 DEF BudgetInv
<1>5. CASE Finish
  <2>1. fire' = {} /\ UNCHANGED <<submitted_count, posted>>
    BY <1>5 DEF Finish, FinishWith, BudgetInv
  <2> QED
    BY <2>1 DEF BudgetInv
<1>6. Refresh \/ PullFails \/ Drain \/ Post \/ Answer \/ Finish
        \/ UNCHANGED <<submitted_count, posted, fire>>
  BY DEF Next, Validator, TriggerLoop, FireTask, Generator, Poll, Adopt, AdoptWith, Pick,
         PickWith, StartEntry, DeliverEntry, DeliverTo, vars
<1> QED
  BY <1>1, <1>2, <1>3, <1>4, <1>5, <1>6

\* A window sees no more requests of the miner than its limit: what is posted
\* was reserved, and every reservation was free when it was made.
THEOREM BudgetKept == Spec => []BudgetHolds
<1>1. TypeOK /\ BudgetInv => BudgetHolds
  BY MinerAssumption DEF TypeOK, BudgetInv, BudgetHolds
<1> QED
  BY <1>1, TypeInit, TypeStep, BudgetInit, BudgetStep, PTL DEF Spec

-----------------------------------------------------------------------------
(***************************************************************************)
(* The checkpoints.  The one of the model in use only grows; the batch in  *)
(* hand is labelled with it or an older one, and the entry that is baked   *)
(* was forced with a checkpoint between the label and the one in use.      *)
(***************************************************************************)
CheckpointInv ==
  /\ trigger = "pull" => seen.checkpoint_n > local_n
  /\ bake.todo # <<>> => bake.checkpoint_n <= local_n
  /\ bake.running => bake.checkpoint_n <= bake.checkpoint /\ bake.checkpoint <= local_n
  /\ \A entry \in Range(pool) : ~ entry.back => entry.checkpoint = local_n

LEMMA CheckpointInit == Init => CheckpointInv
BY DEF Init, CheckpointInv, Idle, Range

LEMMA CheckpointStep == TypeOK /\ CheckpointInv /\ [Next]_vars => CheckpointInv'
<1> SUFFICES ASSUME TypeOK, CheckpointInv, [Next]_vars PROVE CheckpointInv'
  OBVIOUS
<1>1. pool \in Seq(PoolEntries) /\ local_n \in Int /\ seen.checkpoint_n \in Int
  BY MinerAssumption DEF TypeOK, Answers, Checkpoints
<1>2. Range(<<>>) = {}
  BY DEF Range
<1>3. CASE UNCHANGED <<trigger, seen, local_n, pool, bake>>
  BY <1>3 DEF CheckpointInv
<1>4. CASE Poll
  BY <1>4 DEF Poll, CheckpointInv
<1>5. CASE Refresh
  BY <1>2, <1>5 DEF Refresh, CheckpointInv
<1>6. CASE Adopt
  <2>1. local_n' > local_n
    BY <1>6 DEF Adopt, AdoptWith, CheckpointInv
  <2>2. local_n' \in Int /\ bake.checkpoint_n \in Int /\ bake.checkpoint \in Int
    BY <1>1, <1>6, MinerAssumption DEF Adopt, AdoptWith, TypeOK, Bakes, Checkpoints
  <2> QED
    BY <1>1, <1>2, <1>6, <2>1, <2>2 DEF Adopt, AdoptWith, CheckpointInv
<1>7. CASE PullFails
  BY <1>7 DEF PullFails, CheckpointInv
<1>8. CASE Drain
  <2>1. PICK task \in fire :
          /\ pool' = SubSeq(Ready(task), Reservable(task) + 1, Len(Ready(task)))
          /\ UNCHANGED <<trigger, seen, local_n, bake>>
    BY <1>8, DrainStep
  <2>2. Range(pool') \subseteq Range(pool)
    BY <2>1, DrainParts
  <2> QED
    BY <2>1, <2>2 DEF CheckpointInv
<1>9. CASE Finish
  <2>1. PICK task \in fire : FinishWith(task, fire \ {task})
    BY <1>9 DEF Finish
  <2>2. task \in Tasks
    BY DEF TypeOK
  <2>3. PICK back \in Seq(PoolEntries) : pool' = pool \o back /\ \A i \in DOMAIN back : back[i].back
    BY <2>1, <2>2, RequeuedType DEF FinishWith
  <2>4. Range(pool') = Range(pool) \cup Range(back)
    BY <1>1, <2>3, RangeConcatenation
  <2>5. \A entry \in Range(back) : entry.back
    BY <2>3 DEF Range
  <2> QED
    BY <2>1, <2>4, <2>5 DEF FinishWith, CheckpointInv
<1>10. CASE Pick
  <2>1. bake'.checkpoint_n = local_n /\ ~ bake'.running
    BY <1>10 DEF Pick, PickWith, Idle
  <2> QED
    BY <1>1, <1>10, <2>1 DEF Pick, PickWith, CheckpointInv
<1>11. CASE StartEntry
  <2>1. /\ bake'.checkpoint_n = bake.checkpoint_n /\ bake'.checkpoint = local_n
        /\ bake.checkpoint_n <= local_n
    BY <1>11 DEF StartEntry, CheckpointInv, TypeOK, Bakes
  <2> QED
    BY <1>1, <1>11, <2>1 DEF StartEntry, CheckpointInv
<1>12. CASE DeliverEntry
  <2>1. /\ bake.running /\ bake.todo # <<>>
        /\ UNCHANGED <<trigger, seen, local_n>>
        /\ bake' = IF Len(bake.todo) = 1 THEN Idle
                   ELSE [bake EXCEPT !.todo = Tail(@), !.running = FALSE,
                                     !.randomness = NoRandomness, !.checkpoint = -1]
        /\ pool' = pool \/ (Baked.checkpoint_n = local_n /\ pool' = Append(pool, Baked))
    BY <1>12 DEF DeliverEntry, DeliverTo, TypeOK
  <2>2. /\ ~ bake'.running
        /\ bake'.todo # <<>> => bake'.checkpoint_n = bake.checkpoint_n
    BY <2>1 DEF Idle, TypeOK, Bakes
  <2>3. ASSUME Baked.checkpoint_n = local_n PROVE Baked.checkpoint = local_n
    <3>1. bake.checkpoint \in Int /\ bake.checkpoint_n \in Int
      BY MinerAssumption DEF TypeOK, Bakes, Checkpoints
    <3> QED
      BY <1>1, <2>1, <2>3, <3>1 DEF Baked, CheckpointInv
  <2>4. Range(pool') = Range(pool) \/ (Baked.checkpoint_n = local_n /\ Range(pool') = Range(pool) \cup {Baked})
    <3>1. CASE pool' = pool
      BY <3>1
    <3>2. CASE Baked.checkpoint_n = local_n /\ pool' = Append(pool, Baked)
      BY <1>1, <2>1, <3>2, BakedType, RangeAppend
    <3> QED
      BY <2>1, <3>1, <3>2
  <2> QED
    BY <2>1, <2>2, <2>3, <2>4 DEF CheckpointInv
<1>13. \/ UNCHANGED <<trigger, seen, local_n, pool, bake>>
       \/ TriggerLoop \/ Drain \/ Finish \/ Generator
  BY DEF Next, Validator, FireTask, Post, Answer, vars
<1> QED
  BY <1>3, <1>4, <1>5, <1>6, <1>7, <1>8, <1>9, <1>10, <1>11, <1>12, <1>13
     DEF TriggerLoop, Generator

\* What is fired fresh was generated under the checkpoint in use, however the
\* reloads interleave with the picks, the threads and the fire tasks.
THEOREM PoolIsCurrent == Spec => []PoolFromCurrentCheckpoint
<1>1. CheckpointInv => PoolFromCurrentCheckpoint
  BY DEF CheckpointInv, PoolFromCurrentCheckpoint, Range
<1> QED
  BY <1>1, TypeInit, TypeStep, CheckpointInit, CheckpointStep, PTL DEF Spec

-----------------------------------------------------------------------------
(***************************************************************************)
(* The answers that are fired on.  A reload sends the loop back to its     *)
(* poll, which is the only step that forgets it.                           *)
(***************************************************************************)
FreshInv == reloaded => trigger = "poll"

\* No task is created from an answer of before a reload.
THEOREM FiresFresh == Spec => FiresAreFresh
<1> DEFINE Fresh == \A task \in fire' \ fire : task.drained \/ ~ reloaded'
<1>1. Init => FreshInv
  BY DEF Init, FreshInv
<1>2. FreshInv /\ [Next]_vars => FreshInv'
  BY DEF FreshInv, Next, vars, Validator, TriggerLoop, FireTask, Generator, Poll, Refresh, Adopt,
         AdoptWith, PullFails, Drain, Post, Answer, Finish, FinishWith, Pick, PickWith,
         StartEntry, DeliverEntry, DeliverTo
<1>3. TypeOK /\ BudgetInv /\ FreshInv /\ [Next]_vars => [Fresh]_vars
  <2> SUFFICES ASSUME TypeOK, BudgetInv, FreshInv, [Next]_vars PROVE Fresh
    OBVIOUS
  <2>1. CASE fire' \subseteq fire
    BY <2>1
  <2>2. CASE Refresh \/ PullFails
    BY <2>2 DEF Refresh, PullFails, FreshInv
  <2>3. CASE Drain
    <3>1. PICK task \in fire :
            fire' = (fire \ {task}) \cup (IF Reservable(task) = 0 THEN {} ELSE {Reserved(task)})
      BY <2>3, DrainStep
    <3>2. Reserved(task).drained
      BY DrainParts
    <3> QED
      BY <3>1, <3>2
  <2>4. CASE Post \/ Answer
    <3>1. PICK task \in fire : \E i \in DOMAIN task.entries, p \in {"sent", "drop", "requeue"} :
            Progress(task, i, p)
      BY <2>4 DEF Post, Answer
    <3>2. PICK i \in DOMAIN task.entries, p \in {"sent", "drop", "requeue"} : Progress(task, i, p)
      BY <3>1
    <3>3. task \in Tasks /\ task.drained
      BY <3>2 DEF TypeOK, BudgetInv, WithinBudget
    <3>4. [task EXCEPT !.entries[i].progress = p].drained
      BY <3>3, ProgressType
    <3> QED
      BY <3>2, <3>4 DEF Progress
  <2>5. fire' \subseteq fire \/ Refresh \/ PullFails \/ Drain \/ Post \/ Answer
    BY DEF Next, vars, Validator, TriggerLoop, FireTask, Generator, Poll, Adopt, AdoptWith,
           Finish, FinishWith, Pick, PickWith, StartEntry, DeliverEntry, DeliverTo
  <2> QED
    BY <2>1, <2>2, <2>3, <2>4, <2>5
<1> QED
  BY <1>1, <1>2, <1>3, TypeInit, TypeStep, BudgetInit, BudgetStep, PTL DEF Spec, FiresAreFresh
=============================================================================
