-------------------------- MODULE ValidatorWindow --------------------------
(***************************************************************************)
(* The windows of one validator process, from its start to its end.  Two   *)
(* threads share the state:                                                *)
(*                                                                         *)
(*   - the asyncio event loop runs ValidationService.run (service.py), the *)
(*     POST /submit handler and the coroutine _submit_worker (server.py);  *)
(*     one of them runs at a time, until its next await;                   *)
(*   - the thread that asyncio.to_thread starts for the worker runs        *)
(*     GrpoWindowBatcher.accept_submission (batcher.py) under the lock of  *)
(*     that batcher, at the same time as the event loop.                   *)
(*                                                                         *)
(* A window w has one batcher, named w.  Time is abstract: the window's    *)
(* timeout may strike whenever run() waits.                                *)
(***************************************************************************)
EXTENDS BatchSelection

CONSTANTS
  Submissions,   \* the requests miners ever post, each posted at most once
  Prompts,       \* indices into the environment
  prompt_idx,    \* [Submissions -> Prompts]
  defect,        \* [Submissions -> Defects]: the first check it cannot pass
  B_BATCH,       \* slots of a batch
  MaxWindow      \* bound: windows opened in a behaviour

\* Where in _accept_locked a request fails for a reason of its own: before the
\* rollout loop (checkpoint hash, prompt index, reward, zone), in the loop but
\* before the sketch is verified (schema, tokens, prompt binding, signature),
\* or at or after it (GRAIL, termination, log-probabilities, distribution).
Defects == {"none", "entry", "form", "proof"}

ASSUME WindowAssumption ==
  /\ prompt_idx \in [Submissions -> Prompts]
  /\ defect \in [Submissions -> Defects]
  /\ B_BATCH \in Nat \ {0}
  /\ MaxWindow \in Nat

Windows == 1..MaxWindow

VARIABLES
  pc,              \* where run() is in its loop
  window_n,        \* ValidationService._window_n
  state,           \* ValidatorServer._current_state
  active_batcher,  \* the window of ValidatorServer.active_batcher, 0 for None
  waiter,          \* the future Event.wait put among the event's waiters
  batch,           \* [Windows -> set of entries]: what seal_batch returned
  sealed,          \* the windows for which it did (history)
  payload,         \* the archive that _archive_window built, while it uploads it
  archive          \* the window archives on R2

runVars == <<pc, window_n, state, active_batcher, waiter, batch, sealed, payload, archive>>

VARIABLES
  inbox,           \* every request that was enqueued, with its batcher
  taken            \* how many of them the worker took off _submit_queue

queueVars == <<inbox, taken>>

VARIABLES
  wpc,             \* where the worker, or the thread it awaits, is
  valid,           \* [Windows -> set of entries]: GrpoWindowBatcher._valid
  rejected,        \* [Windows -> set of submissions counted in reject_counts]
  failed,          \* submissions whose accept_submission raised
  randomness,      \* [Windows -> {"", "seed"}]
  seal_flag,       \* [Windows -> BOOLEAN]: the threading.Event
  seal_event,      \* [Windows -> {"none", "unset", "set"}]: the asyncio.Event
  last_batched     \* the validator's CooldownMap

batcherVars == <<wpc, valid, rejected, failed, randomness, seal_flag, seal_event, last_batched>>

vars == <<runVars, queueVars, batcherVars>>

-----------------------------------------------------------------------------
(***************************************************************************)
(* Batchers.                                                               *)
(***************************************************************************)

\* A ValidSubmission.  arrived_at is read from a monotonic clock under the
\* batcher's lock: all that is used of it is the order, so it is the rank of
\* the acceptance.  Ranks are distinct, so no digest is ever consulted.
Entry(s, at) == [sub |-> s, prompt_idx |-> prompt_idx[s], arrived_at |-> at, digest |-> 0]

Entries == [sub : Submissions, prompt_idx : Prompts, arrived_at : Nat, digest : {0}]

\* _claimed_prompts: a prompt is added right before the append to _valid, in
\* the same locked section.
\* Slip: no prompt is ever claimed.
claimed_prompts_forgotten(w) == {}
claimed_prompts(w) == {e.prompt_idx : e \in valid[w]}

distinct_eligible(entries, w) ==
  Cardinality({e.prompt_idx : e \in Eligible(entries, w, last_batched)})

\* The request the worker has in hand.
Job == inbox[taken]

\* accept_submission runs, and holds the lock of its batcher.
Accepting == wpc \in {"verify", "append", "flag", "signal"}

LockFree(w) == Accepting => Job.batcher # w

\* The event loop is inside synchronous code of _train_and_publish, waiting
\* for the batcher's lock or training: no coroutine runs.
LoopBlocked == pc \in {"seal", "train"}

-----------------------------------------------------------------------------
(***************************************************************************)
(* POST /submit.  Every refusal (state not OPEN, no batcher, another       *)
(* window) leaves no trace, and the miner learns of it; a request for the  *)
(* open window is queued and answered with a provisional ACCEPTED.  The    *)
(* queue is unbounded, so the put never suspends.                          *)
(***************************************************************************)
Request(s) == [sub |-> s, batcher |-> active_batcher]

Submit(s) ==
  /\ ~ LoopBlocked
  /\ state = "OPEN"
  /\ active_batcher # 0
  /\ \A i \in 1..Len(inbox) : inbox[i].sub # s
  /\ inbox' = Append(inbox, Request(s))
  /\ UNCHANGED <<runVars, batcherVars, taken>>

-----------------------------------------------------------------------------
(***************************************************************************)
(* The worker: one request at a time, in the order of the queue, for the   *)
(* batcher it was enqueued with, whatever happened to that window since.   *)
(***************************************************************************)
Dequeue ==
  /\ ~ LoopBlocked
  /\ wpc = "idle"
  /\ taken < Len(inbox)
  /\ taken' = taken + 1
  /\ wpc' = "entry"
  /\ UNCHANGED <<runVars, inbox, valid, rejected, failed, randomness,
                 seal_flag, seal_event, last_batched>>

\* A refusal: counted in reject_counts, and the lock is released.
Reject ==
  /\ rejected' = [rejected EXCEPT ![Job.batcher] = @ \cup {Job.sub}]
  /\ wpc' = "idle"
  /\ UNCHANGED <<runVars, queueVars, valid, failed, randomness,
                 seal_flag, seal_event, last_batched>>

\* Slip: cooldown is left to select_batch.
Passes_ignores_cooldown ==
  /\ defect[Job.sub] # "entry"
  /\ prompt_idx[Job.sub] \notin claimed_prompts(Job.batcher)

Passes ==
  /\ defect[Job.sub] # "entry"
  /\ ~ is_in_cooldown(last_batched, prompt_idx[Job.sub], Job.batcher)
  /\ prompt_idx[Job.sub] \notin claimed_prompts(Job.batcher)

\* The lock is taken and the checks that need no GPU are made.
EnterAccept ==
  /\ wpc = "entry"
  /\ Passes
  /\ wpc' = "verify"
  /\ UNCHANGED <<runVars, queueVars, valid, rejected, failed, randomness,
                 seal_flag, seal_event, last_batched>>

RejectAtEntry ==
  /\ wpc = "entry"
  /\ ~ Passes
  /\ Reject

(***************************************************************************)
(* The rollout loop.  verify_commitment_proofs is given the batcher's      *)
(* randomness as it is at that moment, and raises on the empty string; the *)
(* worker logs the exception and takes the next request.  The randomness   *)
(* goes from empty to set once, and a first rollout that was verified had  *)
(* it set, so the later rollouts need no step of their own.                *)
(***************************************************************************)
WellFormed == defect[Job.sub] # "form"

Verify ==
  /\ wpc = "verify"
  /\ WellFormed
  /\ randomness[Job.batcher] # ""
  /\ defect[Job.sub] # "proof"
  /\ wpc' = "append"
  /\ UNCHANGED <<runVars, queueVars, valid, rejected, failed, randomness,
                 seal_flag, seal_event, last_batched>>

RejectInRolloutLoop ==
  /\ wpc = "verify"
  /\ WellFormed => randomness[Job.batcher] # "" /\ defect[Job.sub] = "proof"
  /\ Reject

RaiseThen(next) ==
  /\ wpc = "verify"
  /\ WellFormed
  /\ randomness[Job.batcher] = ""
  /\ failed' = failed \cup {Job.sub}
  /\ wpc' = next
  /\ UNCHANGED <<runVars, queueVars, valid, rejected, randomness,
                 seal_flag, seal_event, last_batched>>

\* Slip: the exception ends the worker.
VerifyRaises_kills_worker == RaiseThen("dead")
VerifyRaises == RaiseThen("idle")

\* The prompt is claimed, the submission appended, and the count of distinct
\* prompts out of cooldown compared with B_BATCH.
AppendWith(quorum) ==
  /\ wpc = "append"
  /\ LET w == Job.batcher
         grown == valid[w] \cup {Entry(Job.sub, Cardinality(valid[w]) + 1)}
     IN  /\ valid' = [valid EXCEPT ![w] = grown]
         /\ wpc' = IF distinct_eligible(grown, w) >= quorum /\ ~ seal_flag[w]
                   THEN "flag" ELSE "idle"
  /\ UNCHANGED <<runVars, queueVars, rejected, failed, randomness,
                 seal_flag, seal_event, last_batched>>

\* Slip: the quorum is one short.
AppendValid_early_quorum == AppendWith(B_BATCH - 1)

AppendValid == AppendWith(B_BATCH)

SetSealFlag ==
  /\ wpc = "flag"
  /\ seal_flag' = [seal_flag EXCEPT ![Job.batcher] = TRUE]
  /\ wpc' = "signal"
  /\ UNCHANGED <<runVars, queueVars, valid, rejected, failed, randomness,
                 seal_event, last_batched>>

\* asyncio.Event.set: if the event is not set yet, it is, and the futures that
\* are enrolled among its waiters now are resolved.
EventSet(w) ==
  /\ seal_event' = [seal_event EXCEPT ![w] = "set"]
  /\ waiter' = IF waiter = "pending" /\ w = active_batcher /\ seal_event[w] = "unset"
               THEN "done" ELSE waiter

\* `if self._seal_event is not None: self._seal_event.set()`, from the thread.
SignalSeal ==
  /\ wpc = "signal"
  /\ wpc' = "idle"
  /\ \/ /\ seal_event[Job.batcher] = "none"
        /\ UNCHANGED <<seal_event, waiter>>
     \/ /\ seal_event[Job.batcher] # "none"
        /\ EventSet(Job.batcher)
  /\ UNCHANGED <<pc, window_n, state, active_batcher, batch, sealed, payload, archive, queueVars,
                 valid, rejected, failed, randomness, seal_flag, last_batched>>

WorkerStep ==
  \/ Dequeue \/ EnterAccept \/ RejectAtEntry
  \/ Verify \/ RejectInRolloutLoop \/ VerifyRaises
  \/ AppendValid \/ SetSealFlag \/ SignalSeal

-----------------------------------------------------------------------------
(***************************************************************************)
(* run(): one iteration of its loop.                                       *)
(***************************************************************************)

\* _open_window.
OpenWindow ==
  /\ pc = "open"
  /\ window_n < MaxWindow
  /\ window_n' = window_n + 1
  /\ active_batcher' = window_n + 1
  /\ state' = "OPEN"
  /\ pc' = "randomness"
  /\ UNCHANGED <<waiter, batch, sealed, payload, archive, queueVars, batcherVars>>

\* _set_window_randomness, once the block hash and the beacon are there.
SetWindowRandomness ==
  /\ pc = "randomness"
  /\ randomness' = [randomness EXCEPT ![active_batcher] = "seed"]
  /\ pc' = "event"
  /\ UNCHANGED <<window_n, state, active_batcher, waiter, batch, sealed, payload, archive,
                 queueVars, wpc, valid, rejected, failed, seal_flag, seal_event, last_batched>>

\* The handler of `except Exception` in run(); then it sleeps and loops.
Recover ==
  /\ active_batcher' = 0
  /\ state' = "READY"
  /\ pc' = "open"
  /\ UNCHANGED <<window_n, waiter, batch, sealed, payload, archive, queueVars, batcherVars>>

RandomnessFails ==
  /\ pc = "randomness"
  /\ Recover

(***************************************************************************)
(* seal_event.wait().  The property seal_event creates the asyncio.Event   *)
(* first and then looks at the flag; Event.wait reads the event's value    *)
(* first and then enrols a future.  A thread may run between the two.      *)
(***************************************************************************)
CreateSealEvent ==
  /\ pc = "event"
  /\ seal_event' = [seal_event EXCEPT ![active_batcher] =
                      IF @ = "none" THEN "unset" ELSE @]
  /\ pc' = "look"
  /\ UNCHANGED <<window_n, state, active_batcher, waiter, batch, sealed, payload, archive,
                 queueVars, wpc, valid, rejected, failed, randomness, seal_flag, last_batched>>

\* Slip: the flag is not looked at after the event was created.
LookAtSealFlag_omitted ==
  /\ pc = "look"
  /\ pc' = "wait"
  /\ UNCHANGED <<window_n, state, active_batcher, waiter, batch, sealed, payload, archive,
                 queueVars, batcherVars>>

LookAtSealFlag ==
  /\ pc = "look"
  /\ IF seal_flag[active_batcher]
     THEN EventSet(active_batcher)
     ELSE UNCHANGED <<seal_event, waiter>>
  /\ pc' = "wait"
  /\ UNCHANGED <<window_n, state, active_batcher, batch, sealed, payload, archive,
                 queueVars, wpc, valid, rejected, failed, randomness, seal_flag, last_batched>>

\* The wait is over: _train_and_publish sets TRAINING and goes for the lock.
GoSeal ==
  /\ state' = "TRAINING"
  /\ waiter' = "none"
  /\ pc' = "seal"
  /\ UNCHANGED <<window_n, active_batcher, batch, sealed, payload, archive, queueVars, batcherVars>>

WaitFindsEventSet ==
  /\ pc = "wait"
  /\ seal_event[active_batcher] = "set"
  /\ GoSeal

WaitFindsEventUnset ==
  /\ pc = "wait"
  /\ seal_event[active_batcher] # "set"
  /\ pc' = "enrol"
  /\ UNCHANGED <<window_n, state, active_batcher, waiter, batch, sealed, payload, archive,
                 queueVars, batcherVars>>

Enrol ==
  /\ pc = "enrol"
  /\ waiter' = "pending"
  /\ pc' = "waiting"
  /\ UNCHANGED <<window_n, state, active_batcher, batch, sealed, payload, archive,
                 queueVars, batcherVars>>

Wake ==
  /\ pc = "waiting"
  /\ waiter = "done"
  /\ GoSeal

\* WINDOW_TIMEOUT_SECONDS passed: the window is sealed with what it has.
\* Slip: the timeout is caught, and the wait resumed.
Timeout_waits_on ==
  /\ pc = "waiting"
  /\ pc' = "wait"
  /\ UNCHANGED <<window_n, state, active_batcher, waiter, batch, sealed, payload, archive,
                 queueVars, batcherVars>>

Timeout ==
  /\ pc = "waiting"
  /\ GoSeal

(***************************************************************************)
(* seal_batch, under the batcher's lock, for which the event loop blocks:  *)
(* the batch is selected and its prompts enter the cooldown map.           *)
(***************************************************************************)
selected == BatchOf(valid[active_batcher], B_BATCH, active_batcher, last_batched)

SealWith(prompts) ==
  /\ pc = "seal"
  /\ LockFree(active_batcher)
  /\ batch' = [batch EXCEPT ![active_batcher] = selected]
  /\ sealed' = sealed \cup {active_batcher}
  /\ last_batched' = record_batched(last_batched, prompts, active_batcher)
  /\ pc' = "train"
  /\ UNCHANGED <<window_n, state, active_batcher, waiter, payload, archive, queueVars,
                 wpc, valid, rejected, failed, randomness, seal_flag, seal_event>>

\* Slip: only a full batch, one that is trained on, enters the cooldown.
SealBatch_cools_full_only ==
  SealWith(IF Cardinality(selected) = B_BATCH
           THEN {e.prompt_idx : e \in selected} ELSE {})

SealBatch == SealWith({e.prompt_idx : e \in selected})

\* A full batch is trained on, a partial one is not; either way PUBLISHING.
TrainOrSkip ==
  /\ pc = "train"
  /\ state' = "PUBLISHING"
  /\ pc' = "publish"
  /\ UNCHANGED <<window_n, active_batcher, waiter, batch, sealed, payload, archive,
                 queueVars, batcherVars>>

TrainFails ==
  /\ pc = "train"
  /\ Cardinality(batch[active_batcher]) >= B_BATCH
  /\ Recover

\* The checkpoint upload, if one is due: its failure is caught.
PublishOrSkip ==
  /\ pc = "publish"
  /\ pc' = "archive"
  /\ UNCHANGED <<window_n, state, active_batcher, waiter, batch, sealed, payload, archive,
                 queueVars, batcherVars>>

\* _archive_window reads valid_submissions() under the lock; batched_keys
\* tells the batch from the rest, a prompt having one submission at most.
BuildArchive ==
  /\ pc = "archive"
  /\ LockFree(active_batcher)
  /\ payload' = {[window_start |-> active_batcher,
                  batch |-> batch[active_batcher],
                  runners_up |-> valid[active_batcher] \ batch[active_batcher]]}
  /\ pc' = "upload"
  /\ UNCHANGED <<window_n, state, active_batcher, waiter, batch, sealed, archive,
                 queueVars, batcherVars>>

\* The end of the window, after the archive was uploaded or failed to be.
Close ==
  /\ active_batcher' = 0
  /\ state' = "READY"
  /\ payload' = {}
  /\ pc' = "open"
  /\ UNCHANGED <<window_n, waiter, batch, sealed, queueVars, batcherVars>>

Upload ==
  /\ pc = "upload"
  /\ archive' = archive \cup payload
  /\ Close

UploadFails ==
  /\ pc = "upload"
  /\ UNCHANGED archive
  /\ Close

RunStep ==
  \/ OpenWindow \/ SetWindowRandomness \/ RandomnessFails
  \/ CreateSealEvent \/ LookAtSealFlag
  \/ WaitFindsEventSet \/ WaitFindsEventUnset \/ Enrol \/ Wake \/ Timeout
  \/ SealBatch \/ TrainOrSkip \/ TrainFails \/ PublishOrSkip
  \/ BuildArchive \/ Upload \/ UploadFails

\* The bound MaxWindow is reached: the program would open the next window.
Exhausted ==
  /\ pc = "open"
  /\ window_n = MaxWindow
  /\ UNCHANGED vars

-----------------------------------------------------------------------------
Init ==
  /\ pc = "open" /\ window_n = 0 /\ state = "READY" /\ active_batcher = 0
  /\ waiter = "none" /\ payload = {} /\ archive = {}
  /\ batch = [w \in Windows |-> {}]
  /\ sealed = {}
  /\ inbox = <<>> /\ taken = 0
  /\ wpc = "idle" /\ failed = {}
  /\ valid = [w \in Windows |-> {}]
  /\ rejected = [w \in Windows |-> {}]
  /\ randomness = [w \in Windows |-> ""]
  /\ seal_flag = [w \in Windows |-> FALSE]
  /\ seal_event = [w \in Windows |-> "none"]
  /\ last_batched = NoPrompts

Next ==
  \/ \E s \in Submissions : Submit(s)
  \/ WorkerStep
  \/ RunStep
  \/ Exhausted

Spec == Init /\ [][Next]_vars

\* The event loop keeps scheduling run() and the worker, the thread runs, the
\* timer of wait_for expires, and the calls to the chain, the beacon and the
\* stores end, with a result or an exception.
Fairness == WF_vars(RunStep) /\ WF_vars(WorkerStep)

FairSpec == Spec /\ Fairness

-----------------------------------------------------------------------------
RunTypeOK ==
  /\ pc \in {"open", "randomness", "event", "look", "wait", "enrol", "waiting",
             "seal", "train", "publish", "archive", "upload"}
  /\ window_n \in 0..MaxWindow
  /\ state \in {"READY", "OPEN", "TRAINING", "PUBLISHING"}
  /\ active_batcher \in {0, window_n}
  /\ active_batcher = 0 <=> pc = "open"
  /\ waiter \in {"none", "pending", "done"}
  /\ sealed \subseteq 1..window_n

Archives == [window_start : Windows, batch : SUBSET Entries, runners_up : SUBSET Entries]

BatchTypeOK ==
  /\ batch \in [Windows -> SUBSET Entries]
  /\ payload \subseteq Archives
  /\ archive \subseteq Archives

Requests == [sub : Submissions, batcher : Windows]

QueueTypeOK ==
  /\ inbox \in Seq(Requests)
  /\ taken \in 0..Len(inbox)
  /\ wpc \in {"idle", "entry", "verify", "append", "flag", "signal"}
  /\ wpc # "idle" => taken > 0

BatcherTypeOK ==
  /\ valid \in [Windows -> SUBSET Entries]
  /\ \A w \in Windows : IsFiniteSet(valid[w])
  /\ rejected \in [Windows -> SUBSET Submissions]
  /\ failed \subseteq Submissions
  /\ randomness \in [Windows -> {"", "seed"}]
  /\ seal_flag \in [Windows -> BOOLEAN]
  /\ seal_event \in [Windows -> {"none", "unset", "set"}]

CooldownTypeOK ==
  /\ DOMAIN last_batched \subseteq Prompts
  /\ \A p \in DOMAIN last_batched : last_batched[p] \in Windows

TypeOK == RunTypeOK /\ BatchTypeOK /\ QueueTypeOK /\ BatcherTypeOK /\ CooldownTypeOK

-----------------------------------------------------------------------------
\* Per window and prompt, at most one submission is accepted ("keeps each
\* prompt single-winner", batcher.py): the claim is checked when the lock is
\* taken and made after the GPU work, still under the lock.
SingleWinner ==
  \A w \in Windows : \A e, f \in valid[w] : e.prompt_idx = f.prompt_idx => e = f

\* A prompt that entered the batch of one window does not enter that of
\* another before the cooldown is over, though the requests were checked
\* against the shared map at other moments than the batch was selected.
NoRebatchInCooldown ==
  COOLDOWN_WINDOWS # 0 =>
    \A v, w \in Windows : v < w =>
      \A e \in batch[v], f \in batch[w] :
        e.prompt_idx = f.prompt_idx => w - v >= COOLDOWN_WINDOWS

\* The flag is raised when the batch that the seal would select is full, and only
\* then, though the one is counted and the other selected: no window is cut
\* short, and none waits for its timeout with its batch complete.
FlagMeansFullBatch ==
  \A w \in Windows \ sealed :
    active_batcher = w /\ LockFree(w) =>
      (seal_flag[w] <=> Cardinality(BatchOf(valid[w], B_BATCH, w, last_batched)) = B_BATCH)

\* The lazily created asyncio.Event and the threading.Event agree: unless one
\* of the two threads is between its two steps, a raised flag shows in the
\* event, whichever of them came first.
EventFollowsFlag ==
  \A w \in Windows :
    seal_flag[w] /\ seal_event[w] # "none" =>
      \/ seal_event[w] = "set"
      \/ w = active_batcher /\ pc = "look"
      \/ wpc = "signal" /\ Job.batcher = w

\* No runner-up of an archive was accepted before a member of the batch, though
\* the batch was selected before and the archive was built after the thread
\* accepted more: whoever was earlier has the slot.
WinnersCameFirst ==
  \A a \in archive : \A e \in a.batch, f \in a.runners_up : e.arrived_at < f.arrived_at

\* Every posted request is judged, though its window may have closed and an
\* exception may have hit the worker before.
EveryRequestIsJudged ==
  \A s \in Submissions :
    (\E i \in 1..Len(inbox) : inbox[i].sub = s) ~>
      \/ s \in failed
      \/ \E w \in Windows : s \in rejected[w] \/ \E e \in valid[w] : e.sub = s

\* Every window ends: with a quorum, by the timeout or by an exception.
EveryWindowEnds ==
  \A w \in Windows : active_batcher = w ~> active_batcher # w

-----------------------------------------------------------------------------
(***************************************************************************)
(* The windows implement PromptLedger: the batch that seal_batch returned  *)
(* is what a window closed on.  A window whose randomness never came is    *)
(* opened and never closed; one that sealed nothing closed on no prompt.   *)
(***************************************************************************)
Ledger == INSTANCE PromptLedger WITH
  opened <- window_n,
  closed <- sealed,
  ledger <- [w \in Windows |-> {e.prompt_idx : e \in batch[w]}]

\* Whatever the threads do to each other, prompts are spent as in PromptLedger.
ImplementsLedger == Ledger!Spec

-----------------------------------------------------------------------------
(***************************************************************************)
(* What the source says and the code does not do.                          *)
(***************************************************************************)

\* "seal_event fires the moment the B-th distinct non-cooldown valid
\* submission lands. Service awaits this to close the window."  So once the
\* thread is done signalling, run() does not sit in the wait unresolved.
SealEventWakesRun ==
  pc = "waiting" /\ seal_flag[active_batcher] =>
    \/ waiter = "done"
    \/ wpc = "signal" /\ Job.batcher = active_batcher

=============================================================================
