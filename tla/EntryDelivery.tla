---------------------------- MODULE EntryDelivery ----------------------------
(***************************************************************************)
(* The way of an entry from the pool of the miner to the validator, with   *)
(* the pool saved on disk: what pool_persistence, the fire task and the    *)
(* client of submitter.py do with it, over a network that loses requests   *)
(* and answers, and with crashes of the miner.  This is the miner without  *)
(* FORCED_SEED_ENFORCE, without a prompt range and with the default        *)
(* RELIQUARY_DROP_POOL_ON_CKPT=0: one burst per window, from a pool that   *)
(* lives on from window to window and from run to run.                     *)
(***************************************************************************)
EXTENDS SequenceFilter, SequencesExt, FiniteSets, FiniteSetsExt

CONSTANTS
  Entries,          \* the entries that are ever baked
  MAX_SUBMISSIONS,  \* MAX_SUBMISSIONS_PER_HOTKEY_PER_WINDOW
  ATTEMPTS,         \* len(_RETRY_DELAYS)
  MaxCrashes        \* bound: how often the miner crashes

ASSUME DeliveryAssumption ==
  MAX_SUBMISSIONS \in Nat \ {0} /\ ATTEMPTS \in Nat \ {0} /\ MaxCrashes \in Nat

VARIABLES
  up,       \* the miner runs
  crashes,
  window,   \* the window of the validator: open, and fired or forfeited by the miner
  pool,     \* _pool
  gen,      \* the generator: baking a batch or saving it, and the entries of the batch
  baked,    \* what has been baked (history)
  disk,     \* the files of the pool directory, the oldest first
  path,     \* the entries in memory with a _persist_path
  fires,    \* the fire tasks: each a function from its entries to their progress
  settled,  \* answered for good, given up, or dropped for its cooldown (history)
  taken,    \* the validator has taken it (history)
  excused   \* saved too late, or crashed before its file was deleted (history)

vars == <<up, crashes, window, pool, gen, baked, disk, path, fires, settled, taken, excused>>

\* Where an entry of a fire task is: built and signed, announced, posted for the
\* n-th time; and how it ended.
At(step) == [at |-> step, n |-> 0]
Post(n) == [at |-> "post", n |-> n]
Ended == {At("accepted"), At("retry"), At("drop")}
Progress == {At("build"), At("precommit")} \cup Ended \cup {Post(n) : n \in 1..ATTEMPTS}

InFire == UNION {DOMAIN task : task \in fires}
Without(files, entries) == Filtered(files, Range(files) \ entries)
NewBatch == [at |-> "bake", entries |-> <<>>]

-----------------------------------------------------------------------------
(***************************************************************************)
(* The generator: the entries of a batch go to the pool one by one, as     *)
(* they are ready, and to the disk when the whole batch is.                *)
(***************************************************************************)
Bake ==
  /\ up /\ gen.at = "bake"
  /\ \E e \in Entries \ baked :
       /\ baked' = baked \cup {e}
       /\ pool' = Append(pool, e)
       /\ gen' = [gen EXCEPT !.entries = Append(@, e)]
  /\ UNCHANGED <<up, crashes, window, disk, path, fires, settled, taken, excused>>

BatchEnds ==
  /\ up /\ gen.at = "bake" /\ gen.entries # <<>>
  /\ gen' = [gen EXCEPT !.at = "save"]
  /\ UNCHANGED <<up, crashes, window, pool, baked, disk, path, fires, settled, taken, excused>>

NextSave ==
  gen' = IF Len(gen.entries) = 1 THEN NewBatch ELSE [gen EXCEPT !.entries = Tail(@)]

\* save_entry writes a file of its own and renames it.
save_entry ==
  LET e == Head(gen.entries)
  IN  /\ up /\ gen.at = "save"
      /\ disk' = Append(disk, e) /\ path' = path \cup {e}
      /\ excused' = excused \cup ({e} \cap settled)
      /\ NextSave
      /\ UNCHANGED <<up, crashes, window, pool, baked, fires, settled, taken>>

\* An OSError leaves the entry in memory only; another error ends the iteration
\* of the generator, and the rest of the batch is not saved either.
SaveFails ==
  /\ up /\ gen.at = "save"
  /\ NextSave \/ gen' = NewBatch
  /\ UNCHANGED <<up, crashes, window, pool, baked, disk, path, fires, settled, taken, excused>>

-----------------------------------------------------------------------------
(***************************************************************************)
(* The validator, as the miner sees it: windows open and close.            *)
(***************************************************************************)
Window ==
  /\ window' = [open |-> ~ window.open, fired |-> FALSE]
  /\ UNCHANGED <<up, crashes, pool, gen, baked, disk, path, fires, settled, taken, excused>>

-----------------------------------------------------------------------------
(***************************************************************************)
(* The trigger loop and the fire task.                                     *)
(***************************************************************************)
_should_fire_for_window == up /\ window.open /\ ~ window.fired /\ pool # <<>>

\* The pool is empty at the first poll of the window, which is forfeited.
Forfeit ==
  /\ up /\ window.open /\ ~ window.fired /\ pool = <<>>
  /\ window' = [window EXCEPT !.fired = TRUE]
  /\ UNCHANGED <<up, crashes, pool, gen, baked, disk, path, fires, settled, taken, excused>>

\* The entries whose prompt is in cooldown are dropped with their files, and the
\* oldest of the others are fired (the first of order), and leave the pool, but for
\* those that are kept.
FireWith(order, kept) ==
  /\ _should_fire_for_window
  /\ window' = [window EXCEPT !.fired = TRUE]
  /\ \E cooldown \in SUBSET Range(pool) :
       LET ready == Without(order, cooldown)
           k == Min({Len(ready), MAX_SUBMISSIONS})
           fire == {ready[i] : i \in 1..k}
       IN  /\ pool' = Without(pool, cooldown \cup (fire \ kept))
           /\ fires' = IF k = 0 THEN fires ELSE fires \cup {[e \in fire |-> At("build")]}
           /\ settled' = settled \cup cooldown
           /\ disk' = Without(disk, cooldown \cap path)
  /\ UNCHANGED <<up, crashes, gen, baked, path, taken, excused>>

\* Slip: the newest entries are fired.
Fire_newest == FireWith(Reverse(pool), {})

\* Slip: what is fired stays in the pool until it is answered.
Fire_keeps == FireWith(pool, Range(pool))

Fire == FireWith(pool, {})

Step(task, e, progress) ==
  /\ up
  /\ fires' = (fires \ {task}) \cup {[task EXCEPT ![e] = progress]}
  /\ UNCHANGED <<up, crashes, window, pool, gen, baked, disk, path, settled, excused>>

\* _finalize_pool_entry and _build_signed_request_sync, which may raise.
Build(task, e) ==
  /\ task[e] = At("build")
  /\ \E progress \in {At("precommit"), At("drop")} : Step(task, e, progress)
  /\ UNCHANGED taken

\* The precommit is posted once.  With a receipt, or if the validator has no
\* such endpoint, the body is posted; a refusal has its reason; an error or no
\* answer is final.
Precommit(task, e) ==
  /\ task[e] = At("precommit")
  /\ \E progress \in {Post(1), At("retry"), At("drop")} : Step(task, e, progress)
  /\ UNCHANGED taken

\* The body is posted: the validator takes it, refuses it for now or for good, or
\* never sees it; and the answer arrives.
PostAnswered(task, e) ==
  /\ task[e].at = "post"
  /\ \/ Step(task, e, At("accepted")) /\ taken' = taken \cup {e}
     \/ \E progress \in {At("retry"), At("drop")} : Step(task, e, progress) /\ UNCHANGED taken

\* The answer is an error of the server or does not arrive, whether or not the
\* body was taken: it is posted again, up to ATTEMPTS times.
PostAgain(task, e, attempts) ==
  /\ task[e].at = "post"
  /\ Step(task, e, IF task[e].n < attempts THEN Post(task[e].n + 1) ELSE At("drop"))
  /\ taken' \in {taken, taken \cup {e}}

PostUnanswered(task, e) == PostAgain(task, e, ATTEMPTS)

Deliver(task, e) ==
  Build(task, e) \/ Precommit(task, e) \/ PostAnswered(task, e) \/ PostUnanswered(task, e)

AllEnded(task) == \A e \in DOMAIN task : task[e] \in Ended
Done(task) == {e \in DOMAIN task : task[e] # At("retry")}

\* When all its entries have ended, the task puts back those that may be posted
\* again, and deletes the files of the others.
FinishDeleting(task, files) ==
  /\ up /\ AllEnded(task)
  /\ \E again \in SetToSeqs(DOMAIN task \ Done(task)) : pool' = pool \o again
  /\ disk' = Without(disk, files)
  /\ settled' = settled \cup Done(task)
  /\ fires' = fires \ {task}
  /\ UNCHANGED <<up, crashes, window, gen, baked, path, taken, excused>>

\* Slip: the files stay.
Finish_none(task) == FinishDeleting(task, {})

\* Slip: the files of all its entries are deleted.
Finish_all(task) == FinishDeleting(task, DOMAIN task \cap path)

Finish(task) == FinishDeleting(task, Done(task) \cap path)

-----------------------------------------------------------------------------
(***************************************************************************)
(* Crash and restart of the miner.                                         *)
(***************************************************************************)
\* A task that has ended may be on the way of deleting its files.
Crash ==
  /\ up /\ crashes < MaxCrashes
  /\ up' = FALSE /\ crashes' = crashes + 1
  /\ LET ending == UNION {Done(task) : task \in {f \in fires : AllEnded(f)}}
         answered == {e \in InFire : \E task \in fires : e \in DOMAIN task /\ task[e] \in {At("accepted"), At("drop")}}
     IN  \E deleted \in SUBSET (ending \cap path) :
           /\ disk' = Without(disk, deleted)
           /\ settled' = settled \cup answered
           /\ excused' = excused \cup (answered \ deleted)
  /\ pool' = <<>> /\ path' = {} /\ fires' = {} /\ gen' = NewBatch
  /\ UNCHANGED <<window, baked, taken>>

\* load_pool: what is on disk, the oldest first.
Restart ==
  /\ ~ up
  /\ up' = TRUE
  /\ pool' = disk /\ path' = Range(disk)
  /\ window' = [window EXCEPT !.fired = FALSE]
  /\ UNCHANGED <<crashes, gen, baked, disk, fires, settled, taken, excused>>

-----------------------------------------------------------------------------
Init ==
  /\ up = TRUE /\ crashes = 0
  /\ window = [open |-> FALSE, fired |-> FALSE]
  /\ pool = <<>> /\ gen = NewBatch /\ baked = {}
  /\ disk = <<>> /\ path = {} /\ fires = {}
  /\ settled = {} /\ taken = {} /\ excused = {}

FireTask ==
  \E task \in fires : Finish(task) \/ \E e \in DOMAIN task : Deliver(task, e)

Next ==
  \/ Bake \/ BatchEnds \/ save_entry \/ SaveFails
  \/ Window \/ Forfeit \/ Fire \/ FireTask
  \/ Crash \/ Restart

Spec == Init /\ [][Next]_vars

\* Windows follow each other, the trigger loop polls every 5 ms and sees each of
\* them open, the calls of a fire task return or time out, and somebody restarts
\* the miner.
FairSpec ==
  /\ Spec
  /\ WF_vars(Window) /\ SF_vars(Fire) /\ WF_vars(FireTask) /\ WF_vars(Restart)

-----------------------------------------------------------------------------
TypeOK ==
  /\ up \in BOOLEAN /\ crashes \in 0..MaxCrashes
  /\ window \in [open : BOOLEAN, fired : BOOLEAN]
  /\ pool \in Seq(Entries) /\ disk \in Seq(Entries)
  /\ gen \in [at : {"bake", "save"}, entries : Seq(Entries)]
  /\ (gen.at = "save" => gen.entries # <<>>)
  /\ \A task \in fires :
       IsFiniteSet(DOMAIN task) /\ task \in [DOMAIN task -> Progress] /\ DOMAIN task \subseteq Entries
  /\ baked \subseteq Entries /\ path \subseteq Entries
  /\ settled \subseteq Entries /\ taken \subseteq Entries /\ excused \subseteq Entries

\* An entry in hand is in one place, so that no two fire tasks ever post it at
\* the same time, whatever is put back, saved late and reloaded.
OneHolder ==
  /\ IsInjective(pool) /\ IsInjective(disk)
  /\ Range(pool) \cap InFire = {}
  /\ \A f, g \in fires : DOMAIN f \cap DOMAIN g # {} => f = g

\* Once saved, an entry outlives every crash until it is settled: a file goes
\* only with the entry it stands for.
SavedIsKept ==
  \A e \in path : e \in settled \/ e \in Range(disk)

\* Delivery is at least once, and this is all there is to it: what was settled
\* comes back to the pool only if the miner crashed between the answer and the
\* deletion of the file, or the file was written after the entry was drained.
SettledComesBackExcused == Range(pool) \cap settled \subseteq excused

\* No entry lies in the pool for ever: it is fired or dropped.
EveryEntryLeaves == \A e \in Entries : e \in Range(pool) ~> e \notin Range(pool)

=============================================================================
