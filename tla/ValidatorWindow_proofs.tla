----------------------- MODULE ValidatorWindow_proofs -----------------------
(***************************************************************************)
(* Theorems about ValidatorWindow, for every set of submissions, every     *)
(* number of slots and windows and every cooldown horizon; and, at the     *)
(* end, about the batch selection, the draws and the Merkle roots of       *)
(* MCAlgorithms.                                                           *)
(***************************************************************************)
EXTENDS ValidatorWindow, MCAlgorithms, SequenceFilter_proofs, FiniteSetTheorems

-----------------------------------------------------------------------------
(***************************************************************************)
(* Type correctness.                                                       *)
(***************************************************************************)

LEMMA SelectedIsValid ==
  ASSUME NEW S, NEW b, NEW w, NEW last
  PROVE  BatchOf(S, b, w, last) \subseteq S
BY DEF BatchOf, FirstOf, Leaders, Eligible

\* While a window is active it is the last one that was opened.
LEMMA ActiveType ==
  ASSUME RunTypeOK, active_batcher # 0
  PROVE  active_batcher = window_n /\ active_batcher \in Windows
BY WindowAssumption DEF RunTypeOK, Windows

\* While the worker is busy, its request is one of the queue.
LEMMA JobType ==
  ASSUME QueueTypeOK, wpc # "idle"
  PROVE  /\ taken \in 1..Len(inbox)
         /\ Job \in Requests
         /\ Job.sub \in Submissions
         /\ Job.batcher \in Windows
<1>1. taken \in 1..Len(inbox)
  BY DEF QueueTypeOK
<1>2. Job \in Requests
  <2>1. inbox \in Seq(Requests)
    BY DEF QueueTypeOK
  <2> QED
    BY <1>1, <2>1, ElementOfSeq DEF Job
<1> QED
  BY <1>1, <1>2 DEF Requests

LEMMA EntryType ==
  ASSUME NEW s \in Submissions, NEW at \in Nat
  PROVE  Entry(s, at) \in Entries
BY WindowAssumption DEF Entry, Entries

\* The record of an acceptance is well-typed: the set it joins is finite.
LEMMA GrownType ==
  ASSUME QueueTypeOK, BatcherTypeOK, wpc # "idle"
  PROVE  LET grown == valid[Job.batcher] \cup {Entry(Job.sub, Cardinality(valid[Job.batcher]) + 1)}
         IN  /\ grown \in SUBSET Entries
             /\ IsFiniteSet(grown)
             /\ Cardinality(valid[Job.batcher]) \in Nat
<1> DEFINE S == valid[Job.batcher]
<1>1. Job.batcher \in Windows /\ Job.sub \in Submissions
  BY JobType
<1>2. S \in SUBSET Entries /\ IsFiniteSet(S)
  BY <1>1 DEF BatcherTypeOK
<1>3. Cardinality(S) \in Nat
  BY <1>2, FS_CardinalityType
<1>4. Entry(Job.sub, Cardinality(S) + 1) \in Entries
  BY <1>1, <1>3, EntryType
<1>5. IsFiniteSet(S \cup {Entry(Job.sub, Cardinality(S) + 1)})
  BY <1>2, FS_AddElement
<1> QED
  BY <1>2, <1>3, <1>4, <1>5

\* The state of the program stays within its types, whatever the schedule.
THEOREM TypeCorrect == Spec => []TypeOK
<1>1. Init => TypeOK
  <2> SUFFICES ASSUME Init PROVE TypeOK
    OBVIOUS
  <2>0. MaxWindow \in Nat
    BY WindowAssumption
  <2>1. RunTypeOK
    <3>1. 0 \in 0..MaxWindow
      BY <2>0
    <3> QED
      BY <3>1 DEF Init, RunTypeOK
  <2>2. BatchTypeOK
    BY DEF Init, BatchTypeOK
  <2>3. QueueTypeOK
    <3>1. inbox = << >> /\ taken = 0 /\ wpc = "idle"
      BY DEF Init
    <3>2. << >> \in Seq(Requests)
      BY EmptySeq
    <3>3. 0 \in 0..Len(<< >>)
      OBVIOUS
    <3> QED
      BY <3>1, <3>2, <3>3 DEF QueueTypeOK
  <2>4. BatcherTypeOK
    BY FS_EmptySet DEF Init, BatcherTypeOK
  <2>5. CooldownTypeOK
    BY DEF Init, CooldownTypeOK, NoPrompts
  <2> QED
    BY <2>1, <2>2, <2>3, <2>4, <2>5 DEF TypeOK
<1>2. TypeOK /\ [Next]_vars => TypeOK'
  <2> SUFFICES ASSUME TypeOK, [Next]_vars PROVE TypeOK'
    OBVIOUS
  <2>0. RunTypeOK /\ BatchTypeOK /\ QueueTypeOK /\ BatcherTypeOK /\ CooldownTypeOK
    BY DEF TypeOK
  <2> USE DEF runVars, queueVars, batcherVars
  <2>1. ASSUME NEW s \in Submissions, Submit(s) PROVE TypeOK'
    <3>1. active_batcher \in Windows
      BY <2>0, <2>1, ActiveType DEF Submit
    <3>2. QueueTypeOK'
      <4>1. Request(s) \in Requests
        <5>1. Len(inbox) \in Nat
          BY <2>0 DEF QueueTypeOK
        <5> QED
          BY <3>1, <5>1 DEF Request, Requests
      <4>2. inbox' = Append(inbox, Request(s)) /\ UNCHANGED <<taken, wpc>>
        BY <2>1 DEF Submit
      <4> QED
        BY <2>0, <4>1, <4>2 DEF QueueTypeOK
    <3> QED
      BY <2>0, <2>1, <3>2 DEF Submit, TypeOK, RunTypeOK, BatchTypeOK, BatcherTypeOK,
                              CooldownTypeOK
  <2>2. CASE Dequeue
    <3>1. QueueTypeOK'
      BY <2>0, <2>2 DEF Dequeue, QueueTypeOK
    <3> QED
      BY <2>0, <2>2, <3>1 DEF Dequeue, TypeOK, RunTypeOK, BatchTypeOK, BatcherTypeOK, CooldownTypeOK
  <2>3. CASE EnterAccept \/ Verify
    BY <2>0, <2>3 DEF EnterAccept, Verify, TypeOK, RunTypeOK, BatchTypeOK, QueueTypeOK,
                      BatcherTypeOK, CooldownTypeOK
  <2>4. CASE RejectAtEntry \/ RejectInRolloutLoop \/ VerifyRaises \/ SetSealFlag
    <3>1. wpc # "idle" /\ Job.batcher \in Windows /\ Job.sub \in Submissions
      BY <2>0, <2>4, JobType DEF RejectAtEntry, RejectInRolloutLoop, VerifyRaises, RaiseThen, SetSealFlag
    <3>2. CASE RejectAtEntry \/ RejectInRolloutLoop
      <4>1. Reject
        BY <3>2 DEF RejectAtEntry, RejectInRolloutLoop
      <4>2. BatcherTypeOK'
        BY <2>0, <3>1, <4>1 DEF Reject, BatcherTypeOK
      <4> QED
        BY <2>0, <4>1, <4>2 DEF Reject, TypeOK, RunTypeOK, BatchTypeOK, QueueTypeOK, CooldownTypeOK
    <3>3. CASE VerifyRaises
      BY <2>0, <3>1, <3>3
         DEF VerifyRaises, RaiseThen, TypeOK, RunTypeOK, BatchTypeOK, QueueTypeOK, BatcherTypeOK,
             CooldownTypeOK
    <3>4. CASE SetSealFlag
      BY <2>0, <3>1, <3>4
         DEF SetSealFlag, TypeOK, RunTypeOK, BatchTypeOK, QueueTypeOK, BatcherTypeOK, CooldownTypeOK
    <3> QED
      BY <2>4, <3>2, <3>3, <3>4
  <2>5. CASE AppendValid
    <3>1. wpc # "idle" /\ wpc' \in {"idle", "flag"}
      BY <2>5 DEF AppendValid, AppendWith
    <3>2. Job.batcher \in Windows
      BY <2>0, <3>1, JobType
    <3>3. valid' = [valid EXCEPT ![Job.batcher] =
             @ \cup {Entry(Job.sub, Cardinality(valid[Job.batcher]) + 1)}]
      BY <2>5 DEF AppendValid, AppendWith
    <3>4. /\ valid' \in [Windows -> SUBSET Entries]
          /\ \A w \in Windows : IsFiniteSet(valid'[w])
      BY <2>0, <3>1, <3>2, <3>3, GrownType DEF BatcherTypeOK
    <3> QED
      BY <2>0, <2>5, <3>1, <3>4
         DEF AppendValid, AppendWith, TypeOK, RunTypeOK, BatchTypeOK, QueueTypeOK, BatcherTypeOK,
             CooldownTypeOK
  <2>6. CASE SignalSeal
    <3>1. Job.batcher \in Windows
      BY <2>0, <2>6, JobType DEF SignalSeal
    <3> QED
      BY <2>0, <2>6, <3>1
         DEF SignalSeal, EventSet, TypeOK, RunTypeOK, BatchTypeOK, QueueTypeOK, BatcherTypeOK,
             CooldownTypeOK
  <2>7. CASE OpenWindow
    <3>1. RunTypeOK'
      BY <2>0, <2>7, WindowAssumption DEF OpenWindow, RunTypeOK
    <3> QED
      BY <2>0, <2>7, <3>1 DEF OpenWindow, TypeOK, BatchTypeOK, QueueTypeOK, BatcherTypeOK,
                              CooldownTypeOK
  <2>8. CASE SetWindowRandomness \/ CreateSealEvent \/ LookAtSealFlag
    <3>1. active_batcher \in Windows
      BY <2>0, <2>8, ActiveType DEF SetWindowRandomness, CreateSealEvent, LookAtSealFlag, RunTypeOK
    <3> QED
      BY <2>0, <2>8, <3>1
         DEF SetWindowRandomness, CreateSealEvent, LookAtSealFlag, EventSet, TypeOK, RunTypeOK,
             BatchTypeOK, QueueTypeOK, BatcherTypeOK, CooldownTypeOK
  <2>9. CASE \/ RandomnessFails \/ WaitFindsEventSet \/ WaitFindsEventUnset \/ Enrol \/ Wake
            \/ Timeout \/ TrainOrSkip \/ TrainFails \/ PublishOrSkip
    BY <2>0, <2>9
       DEF RandomnessFails, WaitFindsEventSet, WaitFindsEventUnset, Enrol, Wake, Timeout, TrainOrSkip,
           TrainFails, PublishOrSkip, GoSeal, Recover, TypeOK, RunTypeOK, BatchTypeOK, QueueTypeOK,
           BatcherTypeOK, CooldownTypeOK
  <2>10. CASE SealBatch
    <3>1. active_batcher = window_n /\ active_batcher \in Windows /\ window_n >= 1
      BY <2>0, <2>10, ActiveType DEF SealBatch, SealWith, RunTypeOK, Windows
    <3>2. selected \in SUBSET Entries
      BY <2>0, <3>1, SelectedIsValid DEF selected, BatcherTypeOK
    <3>3. {e.prompt_idx : e \in selected} \subseteq Prompts
      BY <3>2 DEF Entries
    <3>4. CooldownTypeOK'
      BY <2>0, <2>10, <3>1, <3>3 DEF SealBatch, SealWith, record_batched, CooldownTypeOK
    <3>5. BatchTypeOK'
      BY <2>0, <2>10, <3>1, <3>2 DEF SealBatch, SealWith, BatchTypeOK
    <3>6. RunTypeOK'
      <4>1. active_batcher \in 1..window_n
        BY <2>0, <3>1 DEF RunTypeOK
      <4> QED
        BY <2>0, <2>10, <4>1 DEF SealBatch, SealWith, RunTypeOK
    <3> QED
      BY <2>0, <2>10, <3>4, <3>5, <3>6 DEF SealBatch, SealWith, TypeOK, QueueTypeOK, BatcherTypeOK
  <2>11. CASE BuildArchive
    <3>1. active_batcher \in Windows
      BY <2>0, <2>11, ActiveType DEF BuildArchive, RunTypeOK
    <3>2. payload' \subseteq Archives
      <4>1. batch[active_batcher] \in SUBSET Entries /\ valid[active_batcher] \in SUBSET Entries
        BY <2>0, <3>1 DEF BatchTypeOK, BatcherTypeOK
      <4>2. valid[active_batcher] \ batch[active_batcher] \in SUBSET Entries
        BY <4>1
      <4> QED
        BY <2>11, <3>1, <4>1, <4>2 DEF BuildArchive, Archives
    <3> QED
      BY <2>0, <2>11, <3>2 DEF BuildArchive, TypeOK, RunTypeOK, BatchTypeOK, QueueTypeOK,
                               BatcherTypeOK, CooldownTypeOK
  <2>12. CASE Upload \/ UploadFails
    BY <2>0, <2>12 DEF Upload, UploadFails, Close, TypeOK, RunTypeOK, BatchTypeOK, QueueTypeOK,
                       BatcherTypeOK, CooldownTypeOK
  <2>13. CASE UNCHANGED vars
    BY <2>0, <2>13 DEF vars, TypeOK, RunTypeOK, BatchTypeOK, QueueTypeOK, BatcherTypeOK, CooldownTypeOK
  <2> QED
    BY <2>1, <2>2, <2>3, <2>4, <2>5, <2>6, <2>7, <2>8, <2>9, <2>10, <2>11, <2>12, <2>13
       DEF Next, WorkerStep, RunStep, Exhausted
<1> QED
  BY <1>1, <1>2, PTL DEF Spec

\* The part of the state that neither run() nor a refused request touches.
LEMMA RunStepFrame ==
  ASSUME RunStep
  PROVE  UNCHANGED <<inbox, taken, wpc, valid, rejected, failed, seal_flag>>
BY DEF RunStep, OpenWindow, SetWindowRandomness, RandomnessFails, CreateSealEvent, LookAtSealFlag,
       WaitFindsEventSet, WaitFindsEventUnset, Enrol, Wake, Timeout, SealBatch, SealWith,
       TrainOrSkip, TrainFails, PublishOrSkip, BuildArchive, Upload, UploadFails,
       Close, Recover, GoSeal, queueVars, batcherVars

\* What the miners and the worker leave to run().
LEMMA WorkerFrame ==
  ASSUME WorkerStep \/ \E s \in Submissions : Submit(s)
  PROVE  UNCHANGED <<pc, window_n, active_batcher, batch, sealed, payload, archive, last_batched>>
BY DEF WorkerStep, Submit, Dequeue, EnterAccept, RejectAtEntry, Verify,
       RejectInRolloutLoop, VerifyRaises, RaiseThen, AppendValid, AppendWith, SetSealFlag,
       SignalSeal, Reject, runVars, batcherVars

\* A new request leaves the one the worker has in hand as it is.
LEMMA SubmitKeepsJob ==
  ASSUME TypeOK, NEW s \in Submissions, Submit(s), wpc # "idle"
  PROVE  Job' = Job
<1>1. QueueTypeOK /\ active_batcher \in Windows
  BY ActiveType DEF TypeOK, Submit
<1>2. taken \in 1..Len(inbox) /\ inbox \in Seq(Requests) /\ Len(inbox) \in Nat
  BY <1>1, JobType DEF QueueTypeOK
<1>3. Request(s) \in Requests
  BY <1>1, <1>2 DEF Request, Requests
<1>4. inbox' = Append(inbox, Request(s)) /\ taken' = taken
  BY DEF Submit
<1> QED
  BY <1>2, <1>3, <1>4, AppendProperties DEF Job

-----------------------------------------------------------------------------
(***************************************************************************)
(* One winner per prompt.  A prompt is looked up among the claimed ones    *)
(* when the lock is taken and claimed many steps later: what keeps the     *)
(* claim valid in between is that only the worker adds to `valid`, for its *)
(* request in hand.                                                        *)
(***************************************************************************)
ClaimIsFree ==
  wpc \in {"verify", "append"} => prompt_idx[Job.sub] \notin claimed_prompts(Job.batcher)

WinnerInv == SingleWinner /\ ClaimIsFree

LEMMA WinnerInit == Init => WinnerInv
BY DEF Init, WinnerInv, SingleWinner, ClaimIsFree

LEMMA WinnerStep == TypeOK /\ WinnerInv /\ [Next]_vars => WinnerInv'
<1> SUFFICES ASSUME TypeOK, WinnerInv, [Next]_vars PROVE WinnerInv'
  OBVIOUS
<1>0. QueueTypeOK /\ BatcherTypeOK
  BY DEF TypeOK
<1>1. ASSUME NEW s \in Submissions, Submit(s) PROVE WinnerInv'
  <2>1. UNCHANGED <<valid, wpc>>
    BY <1>1 DEF Submit, batcherVars
  <2>2. wpc # "idle" => Job' = Job
    BY <1>1, SubmitKeepsJob
  <2> QED
    BY <2>1, <2>2 DEF WinnerInv, SingleWinner, ClaimIsFree, claimed_prompts
<1>2. CASE EnterAccept
  <2>1. UNCHANGED <<valid, inbox, taken>> /\ Job' = Job
    BY <1>2 DEF EnterAccept, queueVars, Job
  <2>2. prompt_idx[Job.sub] \notin claimed_prompts(Job.batcher)
    BY <1>2 DEF EnterAccept, Passes
  <2> QED
    BY <2>1, <2>2 DEF WinnerInv, SingleWinner, ClaimIsFree, claimed_prompts
<1>3. CASE Verify
  <2>1. UNCHANGED <<valid, inbox, taken>> /\ Job' = Job /\ wpc = "verify"
    BY <1>3 DEF Verify, queueVars, Job
  <2> QED
    BY <2>1 DEF WinnerInv, SingleWinner, ClaimIsFree, claimed_prompts
<1>4. CASE Dequeue \/ RejectAtEntry \/ RejectInRolloutLoop \/ VerifyRaises \/ SetSealFlag \/ SignalSeal
  <2>1. UNCHANGED valid /\ wpc' \notin {"verify", "append"}
    BY <1>4 DEF Dequeue, RejectAtEntry, RejectInRolloutLoop, VerifyRaises, RaiseThen, SetSealFlag,
                SignalSeal, Reject
  <2> QED
    BY <2>1 DEF WinnerInv, SingleWinner, ClaimIsFree
<1>5. CASE AppendValid
  <2> DEFINE w == Job.batcher
             new == Entry(Job.sub, Cardinality(valid[w]) + 1)
  <2>1. wpc = "append" /\ wpc' \notin {"verify", "append"}
    BY <1>5 DEF AppendValid, AppendWith
  <2>2. w \in Windows
    BY <1>0, <2>1, JobType
  <2>3. valid' = [valid EXCEPT ![w] = @ \cup {new}]
    BY <1>5 DEF AppendValid, AppendWith
  <2>4. valid \in [Windows -> SUBSET Entries]
    BY <1>0 DEF BatcherTypeOK
  <2>5. \A e \in valid[w] : e.prompt_idx # new.prompt_idx
    BY <2>1 DEF WinnerInv, ClaimIsFree, claimed_prompts, Entry
  <2>6. SingleWinner'
    <3>1. ASSUME NEW v \in Windows, NEW e \in valid'[v], NEW f \in valid'[v],
                 e.prompt_idx = f.prompt_idx
          PROVE  e = f
      <4>1. CASE v # w
        BY <2>2, <2>3, <2>4, <3>1, <4>1 DEF WinnerInv, SingleWinner
      <4>2. CASE v = w
        <5>1. valid'[v] = valid[w] \cup {new}
          BY <2>2, <2>3, <2>4, <4>2
        <5> QED
          BY <2>2, <2>5, <3>1, <5>1 DEF WinnerInv, SingleWinner
      <4> QED
        BY <4>1, <4>2
    <3> QED
      BY <3>1 DEF SingleWinner
  <2> QED
    BY <2>1, <2>6 DEF WinnerInv, ClaimIsFree
<1>6. CASE RunStep \/ UNCHANGED vars
  <2>1. UNCHANGED <<valid, wpc, inbox, taken>> /\ Job' = Job
    BY <1>6, RunStepFrame DEF vars, queueVars, batcherVars, Job
  <2> QED
    BY <2>1 DEF WinnerInv, SingleWinner, ClaimIsFree, claimed_prompts
<1> QED
  BY <1>1, <1>2, <1>3, <1>4, <1>5, <1>6 DEF Next, WorkerStep, Exhausted

\* At most one submission per window and prompt is ever accepted.
THEOREM OneWinner == Spec => []SingleWinner
<1>1. WinnerInv => SingleWinner
  BY DEF WinnerInv
<1> QED
  BY <1>1, WinnerInit, WinnerStep, TypeCorrect, PTL DEF Spec

-----------------------------------------------------------------------------
(***************************************************************************)
(* The cooldown.  last_batched never forgets: a prompt in the batch of     *)
(* window w is mapped to w or to a later window, so that being out of      *)
(* cooldown by the map is being out of cooldown with every batch.          *)
(***************************************************************************)
BatchesAreSealed == \A w \in Windows : batch[w] # {} => w \in sealed

LastBatchedCovers ==
  \A w \in Windows : \A e \in batch[w] :
    e.prompt_idx \in DOMAIN last_batched /\ last_batched[e.prompt_idx] >= w

\* Until seal_batch was called, the active window is not sealed.
SealsOnce ==
  pc \in {"randomness", "event", "look", "wait", "enrol", "waiting", "seal"} =>
    window_n \notin sealed

LastBatchedIsPast == \A p \in DOMAIN last_batched : last_batched[p] <= window_n

CooldownInv ==
  BatchesAreSealed /\ LastBatchedCovers /\ SealsOnce /\ LastBatchedIsPast /\ NoRebatchInCooldown

LEMMA CooldownInit == Init => CooldownInv
BY DEF Init, CooldownInv, BatchesAreSealed, LastBatchedCovers, SealsOnce, LastBatchedIsPast,
       NoRebatchInCooldown, NoPrompts

\* The steps of run() that neither open nor seal a window.
QuietRunStep ==
  \/ SetWindowRandomness \/ RandomnessFails
  \/ CreateSealEvent \/ LookAtSealFlag
  \/ WaitFindsEventSet \/ WaitFindsEventUnset \/ Enrol \/ Wake \/ Timeout
  \/ TrainOrSkip \/ TrainFails \/ PublishOrSkip
  \/ BuildArchive \/ Upload \/ UploadFails

\* The phases in which the active window has not been sealed.
Unsealed == {"randomness", "event", "look", "wait", "enrol", "waiting", "seal"}

LEMMA QuietRunFrame ==
  ASSUME QuietRunStep
  PROVE  /\ UNCHANGED <<window_n, batch, sealed, last_batched>>
         /\ pc' \in Unsealed => pc \in Unsealed
BY DEF QuietRunStep, Unsealed, SetWindowRandomness, RandomnessFails, CreateSealEvent, LookAtSealFlag,
       WaitFindsEventSet, WaitFindsEventUnset, Enrol, Wake, Timeout, TrainOrSkip, TrainFails,
       PublishOrSkip, BuildArchive, Upload, UploadFails, Close, Recover, GoSeal,
       batcherVars

\* What seal_batch selects is out of cooldown with every batch so far.
LEMMA SelectedIsOutOfCooldown ==
  ASSUME TypeOK, CooldownInv, pc = "seal", COOLDOWN_WINDOWS # 0,
         NEW v \in Windows, NEW e \in batch[v], NEW f \in selected,
         e.prompt_idx = f.prompt_idx
  PROVE  active_batcher - v >= COOLDOWN_WINDOWS
<1>1. ~ is_in_cooldown(last_batched, f.prompt_idx, active_batcher)
  BY DEF selected, BatchOf, FirstOf, Leaders, Eligible
<1>2. f.prompt_idx \in DOMAIN last_batched /\ last_batched[f.prompt_idx] >= v
  BY DEF CooldownInv, LastBatchedCovers
<1>3. last_batched[f.prompt_idx] \in Windows
  BY <1>2 DEF TypeOK, CooldownTypeOK
<1>4. active_batcher \in Windows
  BY ActiveType DEF TypeOK, RunTypeOK
<1>5. active_batcher - last_batched[f.prompt_idx] >= COOLDOWN_WINDOWS
  BY <1>1, <1>2, <1>3, <1>4, CooldownAssumption, WindowAssumption DEF is_in_cooldown, Windows
<1> QED
  BY <1>2, <1>3, <1>4, <1>5, CooldownAssumption, WindowAssumption DEF Windows

LEMMA CooldownStep == TypeOK /\ CooldownInv /\ [Next]_vars => CooldownInv'
<1> SUFFICES ASSUME TypeOK, CooldownInv, [Next]_vars PROVE CooldownInv'
  OBVIOUS
<1>0. window_n \in 0..MaxWindow /\ sealed \subseteq 1..window_n /\ MaxWindow \in Nat
  BY WindowAssumption DEF TypeOK, RunTypeOK
<1>1. CASE \/ WorkerStep \/ \E s \in Submissions : Submit(s)
           \/ QuietRunStep
           \/ UNCHANGED vars
  <2>1. UNCHANGED <<window_n, batch, sealed, last_batched>> /\ (pc' \in Unsealed => pc \in Unsealed)
    BY <1>1, WorkerFrame, QuietRunFrame DEF vars, runVars, batcherVars
  <2> QED
    BY <2>1 DEF CooldownInv, BatchesAreSealed, LastBatchedCovers, SealsOnce, LastBatchedIsPast,
                NoRebatchInCooldown, Unsealed
<1>2. CASE OpenWindow
  <2>1. UNCHANGED <<batch, sealed, last_batched>> /\ window_n' = window_n + 1
    BY <1>2 DEF OpenWindow, batcherVars
  <2>2. SealsOnce' /\ LastBatchedIsPast'
    <3>1. window_n + 1 \notin sealed
      BY <1>0
    <3>2. \A p \in DOMAIN last_batched : last_batched[p] \in Nat
      BY <1>0 DEF TypeOK, CooldownTypeOK, Windows
    <3> QED
      BY <1>0, <2>1, <3>1, <3>2 DEF CooldownInv, SealsOnce, LastBatchedIsPast
  <2> QED
    BY <2>1, <2>2 DEF CooldownInv, BatchesAreSealed, LastBatchedCovers, NoRebatchInCooldown
<1>3. CASE SealBatch
  <2> DEFINE w == active_batcher
             prompts == {e.prompt_idx : e \in selected}
  <2>1. pc = "seal" /\ pc' = "train"
    BY <1>3 DEF SealBatch, SealWith
  <2>2. w \in Windows /\ w = window_n
    BY <2>1, ActiveType DEF TypeOK, RunTypeOK
  <2>3. /\ batch' = [batch EXCEPT ![w] = selected]
        /\ sealed' = sealed \cup {w}
        /\ window_n' = window_n
        /\ last_batched' = record_batched(last_batched, prompts, w)
    BY <1>3 DEF SealBatch, SealWith
  <2>4. batch \in [Windows -> SUBSET Entries]
    BY DEF TypeOK, BatchTypeOK
  <2>5. /\ DOMAIN last_batched' = DOMAIN last_batched \cup prompts
        /\ \A p \in DOMAIN last_batched' :
             last_batched'[p] = IF p \in prompts THEN w ELSE last_batched[p]
    BY <2>3 DEF record_batched
  <2>6. \A v \in Windows : v # w => batch'[v] = batch[v]
    BY <2>2, <2>3, <2>4
  <2>7. batch'[w] = selected
    BY <2>2, <2>3, <2>4
  <2>8. \A v \in Windows : batch[v] # {} => v < w
    <3>1. w \notin sealed
      BY <2>1, <2>2 DEF CooldownInv, SealsOnce
    <3>2. \A v \in Windows : batch[v] # {} => v \in sealed
      BY DEF CooldownInv, BatchesAreSealed
    <3>3. \A v \in 1..window_n : v # w => v < w
      BY <1>0, <2>2
    <3> QED
      BY <1>0, <3>1, <3>2, <3>3
  <2>9. BatchesAreSealed'
    BY <2>3, <2>6 DEF CooldownInv, BatchesAreSealed
  <2>10. LastBatchedIsPast'
    BY <1>0, <2>2, <2>3, <2>5 DEF CooldownInv, LastBatchedIsPast
  <2>11. LastBatchedCovers'
    <3>1. ASSUME NEW v \in Windows, NEW e \in batch'[v]
          PROVE  e.prompt_idx \in DOMAIN last_batched' /\ last_batched'[e.prompt_idx] >= v
      <4>1. CASE v = w
        <5>1. e.prompt_idx \in prompts
          BY <2>7, <3>1, <4>1
        <5> QED
          BY <1>0, <2>2, <2>5, <4>1, <5>1
      <4>2. CASE v # w
        <5>1. e \in batch[v] /\ v < w
          BY <2>6, <2>8, <3>1, <4>2
        <5>2. e.prompt_idx \in DOMAIN last_batched /\ last_batched[e.prompt_idx] >= v
          BY <5>1 DEF CooldownInv, LastBatchedCovers
        <5> QED
          BY <1>0, <2>2, <2>5, <5>1, <5>2 DEF Windows
      <4> QED
        BY <4>1, <4>2
    <3> QED
      BY <3>1 DEF LastBatchedCovers
  <2>12. NoRebatchInCooldown'
    <3>1. ASSUME COOLDOWN_WINDOWS # 0, NEW u \in Windows, NEW v \in Windows, u < v,
                 NEW e \in batch'[u], NEW f \in batch'[v], e.prompt_idx = f.prompt_idx
          PROVE  v - u >= COOLDOWN_WINDOWS
      <4>1. CASE v = w
        <5>1. e \in batch[u] /\ f \in selected
          BY <1>0, <2>2, <2>6, <2>7, <3>1, <4>1
        <5> QED
          BY <2>1, <3>1, <4>1, <5>1, SelectedIsOutOfCooldown
      <4>2. CASE v # w
        <5>1. f \in batch[v] /\ v < w
          BY <2>6, <2>8, <3>1, <4>2
        <5>2. u # w
          BY <1>0, <2>2, <3>1, <5>1 DEF Windows
        <5>3. e \in batch[u]
          BY <2>6, <3>1, <5>2
        <5> QED
          BY <3>1, <5>1, <5>3 DEF CooldownInv, NoRebatchInCooldown
      <4> QED
        BY <4>1, <4>2
    <3> QED
      BY <3>1 DEF NoRebatchInCooldown
  <2>13. SealsOnce'
    BY <2>1 DEF SealsOnce
  <2> QED
    BY <2>9, <2>10, <2>11, <2>12, <2>13 DEF CooldownInv
<1> QED
  BY <1>1, <1>2, <1>3 DEF Next, RunStep, QuietRunStep, Exhausted

\* No prompt enters the batches of two windows within a cooldown.
THEOREM CooldownHolds == Spec => []NoRebatchInCooldown
<1>1. CooldownInv => NoRebatchInCooldown
  BY DEF CooldownInv
<1> QED
  BY <1>1, CooldownInit, CooldownStep, TypeCorrect, PTL DEF Spec

-----------------------------------------------------------------------------
(***************************************************************************)
(* The seal event.  The thread raises the flag and then looks for the      *)
(* event, run() creates the event and then looks at the flag: whichever    *)
(* comes second sees what the other did.                                   *)
(***************************************************************************)

\* A request the worker has in hand is the same after any step.
LEMMA JobIsKept ==
  ASSUME TypeOK, [Next]_vars, wpc # "idle"
  PROVE  Job' = Job
<1>1. ASSUME NEW s \in Submissions, Submit(s) PROVE Job' = Job
  BY <1>1, SubmitKeepsJob
<1>2. CASE WorkerStep
  BY <1>2 DEF WorkerStep, Dequeue, EnterAccept, RejectAtEntry, Verify, RejectInRolloutLoop,
              VerifyRaises, RaiseThen, AppendValid, AppendWith, SetSealFlag, SignalSeal, Reject,
              queueVars, Job
<1>3. CASE RunStep \/ UNCHANGED vars
  BY <1>3, RunStepFrame DEF vars, queueVars, Job
<1> QED
  BY <1>1, <1>2, <1>3 DEF Next, Exhausted

LEMMA EventInit == Init => EventFollowsFlag
BY DEF Init, EventFollowsFlag

LEMMA EventStep == TypeOK /\ EventFollowsFlag /\ [Next]_vars => EventFollowsFlag'
<1> SUFFICES ASSUME TypeOK, EventFollowsFlag, [Next]_vars PROVE EventFollowsFlag'
  OBVIOUS
<1>0. /\ seal_flag \in [Windows -> BOOLEAN]
      /\ seal_event \in [Windows -> {"none", "unset", "set"}]
      /\ RunTypeOK /\ QueueTypeOK
  BY DEF TypeOK, BatcherTypeOK
<1>1. wpc = "signal" => Job' = Job
  BY JobIsKept
<1>2. CASE \/ \E s \in Submissions : Submit(s)
           \/ Dequeue \/ EnterAccept \/ RejectAtEntry \/ Verify \/ RejectInRolloutLoop
           \/ VerifyRaises \/ AppendValid
  <2>1. UNCHANGED <<seal_flag, seal_event, active_batcher, pc>> /\ (wpc = "signal" => wpc' = "signal")
    BY <1>2 DEF Submit, Dequeue, EnterAccept, RejectAtEntry, Verify, RejectInRolloutLoop, VerifyRaises,
                RaiseThen, AppendValid, AppendWith, Reject, runVars, batcherVars
  <2> QED
    BY <1>1, <2>1 DEF EventFollowsFlag
<1>3. CASE SetSealFlag
  <2>1. /\ seal_flag' = [seal_flag EXCEPT ![Job.batcher] = TRUE]
        /\ wpc = "flag" /\ wpc' = "signal"
        /\ UNCHANGED <<seal_event, active_batcher, pc>>
    BY <1>3 DEF SetSealFlag, runVars
  <2>2. Job' = Job
    BY <2>1, JobIsKept
  <2> QED
    BY <1>0, <2>1, <2>2 DEF EventFollowsFlag
<1>4. CASE SignalSeal
  <2>1. wpc = "signal" /\ UNCHANGED <<seal_flag, active_batcher, pc>>
    BY <1>4 DEF SignalSeal
  <2>2. Job.batcher \in Windows
    BY <1>0, <2>1, JobType
  <2>3. CASE seal_event[Job.batcher] = "none" /\ UNCHANGED seal_event
    BY <1>0, <2>1, <2>2, <2>3 DEF EventFollowsFlag
  <2>4. CASE seal_event' = [seal_event EXCEPT ![Job.batcher] = "set"]
    BY <1>0, <2>1, <2>2, <2>4 DEF EventFollowsFlag
  <2> QED
    BY <1>4, <2>3, <2>4 DEF SignalSeal, EventSet
<1>5. CASE CreateSealEvent
  <2>1. active_batcher \in Windows
    BY <1>0, <1>5, ActiveType DEF CreateSealEvent, RunTypeOK
  <2> QED
    BY <1>0, <1>1, <1>5, <2>1 DEF CreateSealEvent, EventFollowsFlag
<1>6. CASE LookAtSealFlag
  <2>1. active_batcher \in Windows
    BY <1>0, <1>6, ActiveType DEF LookAtSealFlag, RunTypeOK
  <2>2. seal_event' = IF seal_flag[active_batcher]
                      THEN [seal_event EXCEPT ![active_batcher] = "set"] ELSE seal_event
    BY <1>6 DEF LookAtSealFlag, EventSet
  <2> QED
    BY <1>0, <1>1, <1>6, <2>1, <2>2 DEF LookAtSealFlag, EventFollowsFlag
<1>7. CASE \/ OpenWindow \/ SetWindowRandomness \/ RandomnessFails
           \/ WaitFindsEventSet \/ WaitFindsEventUnset \/ Enrol \/ Wake \/ Timeout
           \/ SealBatch \/ TrainOrSkip \/ TrainFails \/ PublishOrSkip
           \/ BuildArchive \/ Upload \/ UploadFails
           \/ UNCHANGED vars
  <2>1. /\ UNCHANGED <<seal_flag, seal_event, wpc>>
        /\ pc = "look" => pc' = "look" /\ active_batcher' = active_batcher
    BY <1>7 DEF OpenWindow, SetWindowRandomness, RandomnessFails, WaitFindsEventSet,
                WaitFindsEventUnset, Enrol, Wake, Timeout, SealBatch, SealWith, TrainOrSkip,
                TrainFails, PublishOrSkip, BuildArchive, Upload, UploadFails, Close, Recover, GoSeal,
                vars, runVars, batcherVars
  <2> QED
    BY <1>1, <2>1 DEF EventFollowsFlag
<1> QED
  BY <1>2, <1>3, <1>4, <1>5, <1>6, <1>7 DEF Next, WorkerStep, RunStep, Exhausted

\* A raised flag shows in the event, unless one of the two threads is between
\* its two steps: no wake-up is lost between the flag and the event.
THEOREM FlagReachesEvent == Spec => []EventFollowsFlag
BY EventInit, EventStep, TypeCorrect, PTL DEF Spec

-----------------------------------------------------------------------------
(***************************************************************************)
(* The order of the accepted submissions.  They carry the ranks 1, 2, ...  *)
(* of their acceptance, one each: the batch, of submissions that are all   *)
(* eligible and for distinct prompts, is those with the ranks 1..B_BATCH.  *)
(***************************************************************************)
Ranked(S) ==
  /\ {e.arrived_at : e \in S} = 1..Cardinality(S)
  /\ \A e, f \in S : e.arrived_at = f.arrived_at => e = f

RanksAreOrder == \A w \in Windows : Ranked(valid[w])

\* The submissions with a rank up to n number min(n, all).
LEMMA RanksCount ==
  ASSUME NEW S, IsFiniteSet(S), Ranked(S), NEW n \in Nat
  PROVE  LET early == {e \in S : e.arrived_at <= n}
         IN  /\ IsFiniteSet(early)
             /\ Cardinality(early) = IF n <= Cardinality(S) THEN n ELSE Cardinality(S)
<1> DEFINE early == {e \in S : e.arrived_at <= n}
           m == IF n <= Cardinality(S) THEN n ELSE Cardinality(S)
           rank == [e \in early |-> e.arrived_at]
<1>1. Cardinality(S) \in Nat
  BY FS_CardinalityType
<1>2. m \in Nat
  BY <1>1
<1>3. IsFiniteSet(early)
  BY FS_Subset
<1>4. \A e \in S : e.arrived_at \in 1..Cardinality(S)
  BY DEF Ranked
<1>5. rank \in [early -> 1..m]
  <2>1. ASSUME NEW e \in early PROVE e.arrived_at \in 1..m
    BY <1>1, <1>4
  <2> QED
    BY <2>1
<1>6. \A i \in 1..m : \E e \in early : rank[e] = i
  <2> SUFFICES ASSUME NEW i \in 1..m PROVE \E e \in early : rank[e] = i
    OBVIOUS
  <2>1. i \in 1..Cardinality(S) /\ i <= n
    BY <1>1
  <2>2. PICK e \in S : e.arrived_at = i
    BY <2>1 DEF Ranked
  <2> QED
    BY <2>1, <2>2
<1>7. \A e, f \in early : rank[e] = rank[f] => e = f
  BY DEF Ranked
<1>8. rank \in Bijection(early, 1..m)
  <2> HIDE DEF early, m, rank
  <2> QED
    BY <1>5, <1>6, <1>7 DEF Bijection, Injection, Surjection, IsInjective
<1>9. Cardinality(1..m) = Cardinality(early)
  <2> HIDE DEF early, m, rank
  <2> QED
    BY <1>3, <1>8, FS_Bijection DEF ExistsBijection
<1>10. Cardinality(1..m) = m
  <2> HIDE DEF m
  <2> QED
    BY <1>2, FS_Interval
<1> QED
  BY <1>3, <1>9, <1>10

LEMMA RanksInit == Init => RanksAreOrder
<1> SUFFICES ASSUME Init, NEW w \in Windows PROVE Ranked(valid[w])
  BY DEF RanksAreOrder
<1>1. valid[w] = {} /\ Cardinality({}) = 0
  BY FS_EmptySet DEF Init
<1> QED
  BY <1>1 DEF Ranked

\* The next rank is added to a ranked set.
LEMMA RanksGrow ==
  ASSUME NEW S, IsFiniteSet(S), Ranked(S), NEW e, e.arrived_at = Cardinality(S) + 1
  PROVE  /\ Ranked(S \cup {e})
         /\ Cardinality(S \cup {e}) = Cardinality(S) + 1
<1>1. Cardinality(S) \in Nat
  BY FS_CardinalityType
<1>2. \A f \in S : f.arrived_at \in 1..Cardinality(S)
  BY DEF Ranked
<1>3. e \notin S
  BY <1>1, <1>2
<1>4. Cardinality(S \cup {e}) = Cardinality(S) + 1
  BY <1>3, FS_AddElement
<1>5. {f.arrived_at : f \in S \cup {e}} = {f.arrived_at : f \in S} \cup {Cardinality(S) + 1}
  OBVIOUS
<1>6. (1..Cardinality(S)) \cup {Cardinality(S) + 1} = 1..(Cardinality(S) + 1)
  BY <1>1
<1>7. {f.arrived_at : f \in S \cup {e}} = 1..Cardinality(S \cup {e})
  BY <1>4, <1>5, <1>6 DEF Ranked
<1>8. \A f, g \in S \cup {e} : f.arrived_at = g.arrived_at => f = g
  BY <1>1, <1>2 DEF Ranked
<1> QED
  BY <1>4, <1>7, <1>8 DEF Ranked

\* What an acceptance does to `valid`.
LEMMA AppendStep ==
  ASSUME TypeOK, AppendValid
  PROVE  LET w == Job.batcher
             new == Entry(Job.sub, Cardinality(valid[w]) + 1)
         IN  /\ wpc = "append" /\ w \in Windows /\ Job.sub \in Submissions
             /\ new.arrived_at = Cardinality(valid[w]) + 1
             /\ new.prompt_idx = prompt_idx[Job.sub]
             /\ IsFiniteSet(valid[w])
             /\ valid'[w] = valid[w] \cup {new}
             /\ \A v \in Windows \ {w} : valid'[v] = valid[v]
<1>1. wpc = "append"
  BY DEF AppendValid, AppendWith
<1>2. Job.batcher \in Windows /\ Job.sub \in Submissions
  BY <1>1, JobType DEF TypeOK
<1>3. valid \in [Windows -> SUBSET Entries] /\ IsFiniteSet(valid[Job.batcher])
  BY <1>2 DEF TypeOK, BatcherTypeOK
<1>4. valid' = [valid EXCEPT ![Job.batcher] =
                  @ \cup {Entry(Job.sub, Cardinality(valid[Job.batcher]) + 1)}]
  BY DEF AppendValid, AppendWith
<1> QED
  BY <1>1, <1>2, <1>3, <1>4 DEF Entry

\* Only an acceptance changes `valid`.
LEMMA ValidIsKept ==
  ASSUME [Next]_vars
  PROVE  AppendValid \/ valid' = valid
BY RunStepFrame DEF Next, WorkerStep, Submit, Dequeue, EnterAccept, RejectAtEntry, Verify,
   RejectInRolloutLoop, VerifyRaises, RaiseThen, SetSealFlag, SignalSeal, Reject, Exhausted, vars,
   batcherVars

LEMMA RanksStep == TypeOK /\ RanksAreOrder /\ [Next]_vars => RanksAreOrder'
<1> SUFFICES ASSUME TypeOK, RanksAreOrder, [Next]_vars, NEW w \in Windows PROVE Ranked(valid'[w])
  BY DEF RanksAreOrder, Ranked
<1>1. CASE AppendValid
  BY <1>1, AppendStep, RanksGrow DEF RanksAreOrder
<1>2. CASE valid' = valid
  BY <1>2 DEF RanksAreOrder
<1> QED
  BY <1>1, <1>2, ValidIsKept

-----------------------------------------------------------------------------
(***************************************************************************)
(* The window that collects submissions.  Until it is sealed the cooldown  *)
(* map stands still, so what was accepted for it stays eligible: the count *)
(* that raises the flag and the selection at the seal agree.               *)
(***************************************************************************)
Collecting(w) == w \in Windows \ sealed /\ w = active_batcher

RequestsArePast == \A i \in 1..Len(inbox) : inbox[i].batcher <= window_n

UnopenedIsEmpty == \A w \in Windows : w > window_n => valid[w] = {} /\ ~ seal_flag[w]

StillEligible ==
  \A w \in Windows : Collecting(w) =>
    /\ \A e \in valid[w] : ~ is_in_cooldown(last_batched, e.prompt_idx, w)
    /\ wpc \in {"verify", "append"} /\ Job.batcher = w =>
         ~ is_in_cooldown(last_batched, prompt_idx[Job.sub], w)

Flagging(w) == wpc = "flag" /\ Job.batcher = w

FlagCounts ==
  \A w \in Windows : Collecting(w) =>
    (Cardinality(valid[w]) >= B_BATCH <=> seal_flag[w] \/ Flagging(w))

CollectInv == RequestsArePast /\ UnopenedIsEmpty /\ StillEligible /\ FlagCounts

\* With one submission per prompt, all eligible, prompts count submissions.
LEMMA EligibleCount ==
  ASSUME NEW S, IsFiniteSet(S), NEW w,
         \A e \in S : ~ is_in_cooldown(last_batched, e.prompt_idx, w),
         \A e, f \in S : e.prompt_idx = f.prompt_idx => e = f
  PROVE  distinct_eligible(S, w) = Cardinality(S)
<1> DEFINE prompts == {e.prompt_idx : e \in S}
           prompt == [e \in S |-> e.prompt_idx]
<1>1. Eligible(S, w, last_batched) = S
  BY DEF Eligible
<1>2. prompt \in Bijection(S, prompts)
  <2>1. prompt \in [S -> prompts] /\ \A p \in prompts : \E e \in S : prompt[e] = p
    OBVIOUS
  <2>2. \A e, f \in S : prompt[e] = prompt[f] => e = f
    OBVIOUS
  <2> HIDE DEF prompts, prompt
  <2> QED
    BY <2>1, <2>2 DEF Bijection, Injection, Surjection, IsInjective
<1>3. Cardinality(prompts) = Cardinality(S)
  <2> HIDE DEF prompts, prompt
  <2> QED
    BY <1>2, FS_Bijection DEF ExistsBijection
<1> QED
  BY <1>1, <1>3 DEF distinct_eligible

\* Of ranked entries with distinct prompts, all eligible, the first b are selected.
LEMMA BatchIsEarly ==
  ASSUME NEW S \in SUBSET Entries, IsFiniteSet(S), Ranked(S), NEW b \in Nat, NEW w, NEW last,
         \A e \in S : ~ is_in_cooldown(last, e.prompt_idx, w),
         \A e, f \in S : e.prompt_idx = f.prompt_idx => e = f
  PROVE  BatchOf(S, b, w, last) = {e \in S : e.arrived_at <= b}
<1>1. Leaders(Eligible(S, w, last)) = S
  BY DEF Leaders, Eligible
<1>2. Cardinality(S) \in Nat
  BY FS_CardinalityType
<1>3. ASSUME NEW s \in S
      PROVE  Cardinality({t \in S : Before(t, s)}) < b <=> s.arrived_at <= b
  <2>1. s.arrived_at \in 1..Cardinality(S)
    BY DEF Ranked
  <2>2. s.arrived_at - 1 \in Nat /\ s.arrived_at - 1 <= Cardinality(S)
    BY <1>2, <2>1
  <2>3. \A t \in S : Before(t, s) <=> t.arrived_at <= s.arrived_at - 1
    <3>1. ASSUME NEW t \in S PROVE Before(t, s) <=> t.arrived_at <= s.arrived_at - 1
      <4>1. t.arrived_at \in Nat /\ s.arrived_at \in Nat /\ t.digest = 0 /\ s.digest = 0
        BY DEF Entries
      <4> QED
        BY <4>1 DEF Before
    <3> QED
      BY <3>1
  <2>4. {t \in S : Before(t, s)} = {t \in S : t.arrived_at <= s.arrived_at - 1}
    BY <2>3
  <2>5. Cardinality({t \in S : t.arrived_at <= s.arrived_at - 1}) = s.arrived_at - 1
    BY <2>2, RanksCount
  <2> QED
    BY <1>2, <2>1, <2>4, <2>5
<1> QED
  BY <1>1, <1>3 DEF BatchOf, FirstOf

LEMMA CollectInit == Init => CollectInv
<1> SUFFICES ASSUME Init PROVE CollectInv
  OBVIOUS
<1>1. RequestsArePast
  <2>1. inbox = <<>>
    BY DEF Init
  <2> QED
    BY <2>1 DEF RequestsArePast
<1>2. UnopenedIsEmpty
  BY DEF Init, UnopenedIsEmpty
<1>3. StillEligible /\ FlagCounts
  <2>1. \A w \in Windows : ~ Collecting(w)
    <3>1. active_batcher = 0
      BY DEF Init
    <3> QED
      BY <3>1, WindowAssumption DEF Collecting, Windows
  <2> QED
    BY <2>1 DEF StillEligible, FlagCounts
<1> QED
  BY <1>1, <1>2, <1>3 DEF CollectInv

\* The steps that add no request, open or seal no window, accept nothing and do
\* not touch the flag.
LEMMA CollectFrame ==
  ASSUME TypeOK, CollectInv, [Next]_vars,
         UNCHANGED <<inbox, valid, seal_flag, last_batched, window_n, sealed>>,
         active_batcher' \in {0, active_batcher},
         wpc' = "flag" <=> wpc = "flag",
         \/ wpc' \notin {"verify", "append"}
         \/ wpc \in {"verify", "append"}
         \/ wpc = "entry" /\ ~ is_in_cooldown(last_batched, prompt_idx[Job.sub], Job.batcher)
  PROVE  CollectInv'
<1>1. RequestsArePast' /\ UnopenedIsEmpty'
  BY DEF CollectInv, RequestsArePast, UnopenedIsEmpty
<1>2. \A w \in Windows : Collecting(w)' => Collecting(w)
  BY WindowAssumption DEF Collecting, Windows
<1>3. wpc # "idle" => Job' = Job
  BY JobIsKept
<1>4. StillEligible'
  <2> SUFFICES ASSUME NEW w \in Windows, Collecting(w)'
               PROVE  /\ \A e \in valid'[w] : ~ is_in_cooldown(last_batched', e.prompt_idx, w)
                      /\ wpc' \in {"verify", "append"} /\ Job'.batcher = w =>
                           ~ is_in_cooldown(last_batched', prompt_idx[Job'.sub], w)
    BY DEF StillEligible
  <2>1. /\ \A e \in valid[w] : ~ is_in_cooldown(last_batched, e.prompt_idx, w)
        /\ wpc \in {"verify", "append"} /\ Job.batcher = w =>
             ~ is_in_cooldown(last_batched, prompt_idx[Job.sub], w)
    BY <1>2 DEF CollectInv, StillEligible
  <2> QED
    BY <1>3, <2>1
<1>5. FlagCounts'
  BY <1>2, <1>3 DEF CollectInv, FlagCounts, Flagging
<1> QED
  BY <1>1, <1>4, <1>5 DEF CollectInv

LEMMA CollectStep == TypeOK /\ CooldownInv /\ WinnerInv /\ CollectInv /\ [Next]_vars => CollectInv'
<1> SUFFICES ASSUME TypeOK, CooldownInv, WinnerInv, CollectInv, [Next]_vars PROVE CollectInv'
  OBVIOUS
<1>0. /\ RunTypeOK /\ QueueTypeOK
      /\ seal_flag \in [Windows -> BOOLEAN]
      /\ \A w \in Windows : IsFiniteSet(valid[w]) /\ Cardinality(valid[w]) \in Nat
      /\ B_BATCH \in Nat \ {0} /\ MaxWindow \in Nat
  BY FS_CardinalityType, WindowAssumption DEF TypeOK, BatcherTypeOK
<1>1. ASSUME NEW s \in Submissions, Submit(s) PROVE CollectInv'
  <2>1. /\ inbox' = Append(inbox, Request(s))
        /\ active_batcher # 0
        /\ UNCHANGED <<valid, seal_flag, last_batched, window_n, sealed, active_batcher, wpc>>
    BY <1>1 DEF Submit, runVars, batcherVars
  <2>2. RequestsArePast'
    <3>1. inbox \in Seq(Requests) /\ active_batcher = window_n
      BY <1>0, <2>1, ActiveType DEF QueueTypeOK
    <3>2. Request(s).batcher <= window_n
      BY <1>0, <3>1 DEF Request, RunTypeOK
    <3>3. /\ Len(inbox') = Len(inbox) + 1
          /\ inbox'[Len(inbox) + 1] = Request(s)
          /\ \A i \in 1..Len(inbox) : inbox'[i] = inbox[i]
          /\ Len(inbox) \in Nat
      BY <2>1, <3>1, AppendProperties
    <3> QED
      BY <2>1, <3>2, <3>3 DEF CollectInv, RequestsArePast
  <2>3. wpc # "idle" => Job' = Job
    BY JobIsKept
  <2> QED
    BY <2>1, <2>2, <2>3
       DEF CollectInv, UnopenedIsEmpty, StillEligible, FlagCounts, Collecting, Flagging
<1>2. CASE \/ Dequeue \/ EnterAccept \/ RejectAtEntry \/ Verify \/ RejectInRolloutLoop
           \/ VerifyRaises \/ SignalSeal
  <2>1. /\ UNCHANGED <<inbox, valid, seal_flag, last_batched, window_n, sealed, active_batcher>>
        /\ wpc # "flag" /\ wpc' # "flag"
    BY <1>2 DEF Dequeue, EnterAccept, RejectAtEntry, Verify, RejectInRolloutLoop, VerifyRaises,
                RaiseThen, SignalSeal, Reject, queueVars, runVars
  <2>2. \/ wpc' \notin {"verify", "append"}
        \/ wpc \in {"verify", "append"}
        \/ wpc = "entry" /\ ~ is_in_cooldown(last_batched, prompt_idx[Job.sub], Job.batcher)
    BY <1>2 DEF Dequeue, EnterAccept, Passes, RejectAtEntry, Verify, RejectInRolloutLoop,
                VerifyRaises, RaiseThen, SignalSeal, Reject
  <2> QED
    BY <2>1, <2>2, CollectFrame
<1>3. CASE \/ SetWindowRandomness \/ RandomnessFails \/ CreateSealEvent \/ LookAtSealFlag
           \/ WaitFindsEventSet \/ WaitFindsEventUnset \/ Enrol \/ Wake \/ Timeout
           \/ TrainOrSkip \/ TrainFails \/ PublishOrSkip \/ BuildArchive \/ Upload \/ UploadFails
           \/ UNCHANGED vars
  <2>1. /\ UNCHANGED <<inbox, valid, seal_flag, last_batched, window_n, sealed, wpc>>
        /\ active_batcher' \in {0, active_batcher}
    BY <1>3 DEF SetWindowRandomness, RandomnessFails, CreateSealEvent, LookAtSealFlag,
                WaitFindsEventSet, WaitFindsEventUnset, Enrol, Wake, Timeout, TrainOrSkip, TrainFails,
                PublishOrSkip, BuildArchive, Upload, UploadFails, Close, Recover, GoSeal,
                vars, runVars, queueVars, batcherVars
  <2> QED
    BY <2>1, CollectFrame
<1>4. CASE AppendValid
  <2> DEFINE w == Job.batcher
             new == Entry(Job.sub, Cardinality(valid[w]) + 1)
             grown == valid[w] \cup {new}
  <2>1. /\ wpc = "append" /\ w \in Windows
        /\ new.arrived_at = Cardinality(valid[w]) + 1
        /\ new.prompt_idx = prompt_idx[Job.sub]
        /\ valid'[w] = grown
        /\ \A v \in Windows \ {w} : valid'[v] = valid[v]
    BY <1>4, AppendStep
  <2>2. /\ UNCHANGED <<inbox, taken, seal_flag, last_batched, window_n, sealed, active_batcher>>
        /\ wpc' \in {"idle", "flag"}
        /\ wpc' = "flag" <=> distinct_eligible(grown, w) >= B_BATCH /\ ~ seal_flag[w]
    BY <1>4 DEF AppendValid, AppendWith, runVars, queueVars
  <2>3. Job' = Job
    BY <2>2 DEF Job
  <2>4. w <= window_n
    BY <1>0, <2>1, JobType DEF CollectInv, RequestsArePast, Job
  <2>5. RequestsArePast' /\ UnopenedIsEmpty'
    <3>1. \A v \in Windows : v > window_n => v # w
      BY <1>0, <2>1, <2>4 DEF Windows, RunTypeOK
    <3> QED
      BY <2>1, <2>2, <3>1 DEF CollectInv, RequestsArePast, UnopenedIsEmpty
  <2>6. StillEligible'
    BY <2>1, <2>2 DEF CollectInv, StillEligible, Collecting
  <2>7. FlagCounts'
    <3> SUFFICES ASSUME NEW v \in Windows, Collecting(v)
                 PROVE  Cardinality(valid'[v]) >= B_BATCH
                          <=> seal_flag[v] \/ (wpc' = "flag" /\ w = v)
      BY <2>2, <2>3 DEF FlagCounts, Flagging, Collecting
    <3>1. Cardinality(valid[v]) >= B_BATCH <=> seal_flag[v]
      BY <2>1 DEF CollectInv, FlagCounts, Flagging
    <3>2. CASE v # w
      BY <2>1, <3>1, <3>2
    <3>3. CASE v = w
      <4>1. \A e \in grown : ~ is_in_cooldown(last_batched, e.prompt_idx, w)
        BY <2>1, <3>3 DEF CollectInv, StillEligible
      <4>2. \A e, f \in grown : e.prompt_idx = f.prompt_idx => e = f
        BY <2>1, WinnerStep DEF WinnerInv, SingleWinner
      <4>3. IsFiniteSet(grown) /\ new \notin valid[w] =>
              distinct_eligible(grown, w) = Cardinality(valid[w]) + 1
        <5>1. IsFiniteSet(grown) => distinct_eligible(grown, w) = Cardinality(grown)
          BY <4>1, <4>2, EligibleCount
        <5> QED
          BY <1>0, <2>1, <5>1, FS_AddElement
      <4>4. new \notin valid[w]
        BY <2>1 DEF WinnerInv, ClaimIsFree, claimed_prompts
      <4>5. IsFiniteSet(grown) /\ Cardinality(grown) = Cardinality(valid[w]) + 1
        BY <1>0, <2>1, <4>4, FS_AddElement
      <4>6. Cardinality(valid[w]) >= B_BATCH => Cardinality(valid[w]) + 1 >= B_BATCH
        BY <1>0, <2>1
      <4> QED
        BY <2>1, <2>2, <3>1, <3>3, <4>3, <4>4, <4>5, <4>6
    <3> QED
      BY <3>2, <3>3
  <2> QED
    BY <2>5, <2>6, <2>7 DEF CollectInv
<1>5. CASE SetSealFlag
  <2>1. /\ UNCHANGED <<inbox, taken, valid, last_batched, window_n, sealed, active_batcher>>
        /\ wpc = "flag" /\ wpc' = "signal"
        /\ seal_flag' = [seal_flag EXCEPT ![Job.batcher] = TRUE]
    BY <1>5 DEF SetSealFlag, runVars, queueVars
  <2>2. Job.batcher \in Windows /\ Job.batcher <= window_n /\ Job' = Job
    BY <1>0, <2>1, JobType DEF CollectInv, RequestsArePast, Job
  <2>3. RequestsArePast' /\ StillEligible'
    BY <2>1 DEF CollectInv, RequestsArePast, StillEligible, Collecting
  <2>4. UnopenedIsEmpty'
    <3>1. \A v \in Windows : v > window_n => v # Job.batcher
      BY <1>0, <2>2 DEF Windows, RunTypeOK
    <3> QED
      BY <1>0, <2>1, <3>1 DEF CollectInv, UnopenedIsEmpty
  <2>5. FlagCounts'
    BY <1>0, <2>1, <2>2 DEF CollectInv, FlagCounts, Collecting, Flagging
  <2> QED
    BY <2>3, <2>4, <2>5 DEF CollectInv
<1>6. CASE OpenWindow
  <2>1. /\ UNCHANGED <<inbox, taken, valid, seal_flag, last_batched, sealed, wpc>>
        /\ window_n' = window_n + 1 /\ active_batcher' = window_n + 1
        /\ window_n \in Nat
    BY <1>0, <1>6 DEF OpenWindow, queueVars, batcherVars, RunTypeOK
  <2>2. RequestsArePast'
    <3>1. \A i \in 1..Len(inbox) : inbox[i].batcher \in Nat
      <4>1. inbox \in Seq(Requests)
        BY <1>0 DEF QueueTypeOK
      <4>2. \A i \in 1..Len(inbox) : inbox[i] \in Requests
        BY <4>1, ElementOfSeq
      <4> QED
        BY <1>0, <4>2 DEF Requests, Windows
    <3> QED
      BY <2>1, <3>1 DEF CollectInv, RequestsArePast
  <2>3. UnopenedIsEmpty'
    BY <1>0, <2>1 DEF CollectInv, UnopenedIsEmpty, Windows
  <2>4. \A w \in Windows : Collecting(w)' => w = window_n + 1
    BY <2>1 DEF Collecting
  <2>5. \A w \in Windows : w = window_n + 1 =>
          valid[w] = {} /\ ~ seal_flag[w] /\ Cardinality({}) = 0
    BY <2>1, FS_EmptySet DEF CollectInv, UnopenedIsEmpty
  <2>6. wpc # "idle" => Job.batcher # window_n + 1
    <3>1. wpc # "idle" => Job.batcher \in Windows /\ Job.batcher <= window_n
      BY <1>0, JobType DEF CollectInv, RequestsArePast, Job
    <3> QED
      BY <1>0, <2>1, <3>1 DEF Windows
  <2>7. Job' = Job
    BY <2>1 DEF Job
  <2>8. StillEligible'
    BY <2>1, <2>4, <2>5, <2>6, <2>7 DEF StillEligible
  <2>9. FlagCounts'
    BY <1>0, <2>1, <2>4, <2>5, <2>6, <2>7 DEF FlagCounts, Flagging
  <2> QED
    BY <2>2, <2>3, <2>8, <2>9 DEF CollectInv
<1>7. CASE SealBatch
  <2>1. /\ UNCHANGED <<inbox, valid, seal_flag, window_n, active_batcher>>
        /\ sealed' = sealed \cup {active_batcher}
    BY <1>7 DEF SealBatch, SealWith, queueVars
  <2>2. \A w \in Windows : ~ Collecting(w)'
    BY <2>1 DEF Collecting
  <2>3. StillEligible' /\ FlagCounts'
    BY <2>2 DEF StillEligible, FlagCounts
  <2> QED
    BY <2>1, <2>3 DEF CollectInv, RequestsArePast, UnopenedIsEmpty
<1> QED
  BY <1>1, <1>2, <1>3, <1>4, <1>5, <1>6, <1>7 DEF Next, WorkerStep, RunStep, Exhausted

\* What the two invariants together say of the batch of the window that collects.
LEMMA CollectedBatch ==
  ASSUME TypeOK, WinnerInv, RanksAreOrder, CollectInv, NEW w \in Windows, Collecting(w)
  PROVE  LET S == valid[w]
             b == BatchOf(S, B_BATCH, w, last_batched)
         IN  /\ b = {e \in S : e.arrived_at <= B_BATCH}
             /\ IsFiniteSet(b)
             /\ Cardinality(b) = IF B_BATCH <= Cardinality(S) THEN B_BATCH ELSE Cardinality(S)
             /\ Cardinality(S) \in Nat
<1> DEFINE S == valid[w]
<1>1. S \in SUBSET Entries /\ IsFiniteSet(S) /\ Cardinality(S) \in Nat
  BY FS_CardinalityType DEF TypeOK, BatcherTypeOK
<1>2. \A e \in S : ~ is_in_cooldown(last_batched, e.prompt_idx, w)
  BY DEF CollectInv, StillEligible
<1>3. \A e, f \in S : e.prompt_idx = f.prompt_idx => e = f
  BY DEF WinnerInv, SingleWinner
<1>4. Ranked(S) /\ B_BATCH \in Nat
  BY WindowAssumption DEF RanksAreOrder
<1>5. BatchOf(S, B_BATCH, w, last_batched) = {e \in S : e.arrived_at <= B_BATCH}
  <2> HIDE DEF S
  <2> QED
    BY <1>1, <1>2, <1>3, <1>4, BatchIsEarly
<1> QED
  BY <1>1, <1>4, <1>5, RanksCount

\* What is known of a window up to the choice of its batch.
WindowInv == TypeOK /\ WinnerInv /\ CooldownInv /\ RanksAreOrder /\ CollectInv

\* In every reachable state of accept_submission, its worker and the window loop: a
\* prompt that is checked under the lock is free until it is claimed, the map covers
\* the batches, the times of arrival in a window are 1 to n, and the flag counts
\* prompts that are still eligible.
THEOREM WindowHolds == Spec => []WindowInv
<1>1. Init => WinnerInv /\ CooldownInv /\ RanksAreOrder /\ CollectInv
  BY WinnerInit, CooldownInit, RanksInit, CollectInit
<1>2. TypeOK /\ WinnerInv /\ CooldownInv /\ RanksAreOrder /\ CollectInv /\ [Next]_vars
        => (WinnerInv /\ CooldownInv /\ RanksAreOrder /\ CollectInv)'
  BY WinnerStep, CooldownStep, RanksStep, CollectStep
<1> QED
  BY <1>1, <1>2, TypeCorrect, PTL DEF Spec, WindowInv

\* While no thread is in the middle of an acceptance for it, the flag of the
\* open window is up exactly when the seal would select a full batch.
THEOREM FlagIsExact == Spec => []FlagMeansFullBatch
<1>1. WindowInv => FlagMeansFullBatch
  <2> SUFFICES ASSUME WindowInv, NEW w \in Windows \ sealed, active_batcher = w, LockFree(w)
               PROVE  seal_flag[w] <=>
                        Cardinality(BatchOf(valid[w], B_BATCH, w, last_batched)) = B_BATCH
    BY DEF FlagMeansFullBatch
  <2>1. Collecting(w) /\ ~ Flagging(w)
    BY DEF Collecting, Flagging, LockFree, Accepting
  <2>2. Cardinality(valid[w]) >= B_BATCH <=> seal_flag[w]
    BY <2>1 DEF WindowInv, CollectInv, FlagCounts
  <2>3. /\ Cardinality(BatchOf(valid[w], B_BATCH, w, last_batched)) =
             IF B_BATCH <= Cardinality(valid[w]) THEN B_BATCH ELSE Cardinality(valid[w])
        /\ Cardinality(valid[w]) \in Nat
    BY <2>1, CollectedBatch DEF WindowInv
  <2> QED
    BY <2>2, <2>3, WindowAssumption
<1> QED
  BY <1>1, WindowHolds, PTL

-----------------------------------------------------------------------------
(***************************************************************************)
(* The slots.  The batch takes the lowest ranks when it is selected, and   *)
(* whatever the thread accepts from then on has a higher one.              *)
(***************************************************************************)
SlotsInOrder ==
  \A w \in Windows :
    /\ batch[w] \subseteq valid[w]
    /\ \A e \in batch[w], f \in valid[w] \ batch[w] : e.arrived_at < f.arrived_at

PayloadInOrder ==
  \A a \in payload : \A e \in a.batch, f \in a.runners_up : e.arrived_at < f.arrived_at

SlotInv == SlotsInOrder /\ PayloadInOrder /\ WinnersCameFirst

LEMMA SlotInit == Init => SlotInv
BY DEF Init, SlotInv, SlotsInOrder, PayloadInOrder, WinnersCameFirst

LEMMA SlotStep == WindowInv /\ SlotInv /\ [Next]_vars => SlotInv'
<1> SUFFICES ASSUME WindowInv, SlotInv, [Next]_vars PROVE SlotInv'
  OBVIOUS
<1>0. /\ TypeOK
      /\ batch \in [Windows -> SUBSET Entries]
      /\ valid \in [Windows -> SUBSET Entries]
  BY DEF WindowInv, TypeOK, BatchTypeOK, BatcherTypeOK
<1>1. CASE AppendValid
  <2> DEFINE w == Job.batcher
             new == Entry(Job.sub, Cardinality(valid[w]) + 1)
  <2>1. UNCHANGED <<batch, payload, archive>>
    BY <1>1, WorkerFrame DEF WorkerStep
  <2>2. /\ w \in Windows
        /\ new.arrived_at = Cardinality(valid[w]) + 1
        /\ valid'[w] = valid[w] \cup {new}
        /\ \A v \in Windows \ {w} : valid'[v] = valid[v]
    BY <1>0, <1>1, AppendStep
  <2>3. \A e \in valid[w] : e.arrived_at < new.arrived_at
    <3>1. Cardinality(valid[w]) \in Nat
      BY <1>0, <2>2, FS_CardinalityType DEF TypeOK, BatcherTypeOK
    <3>2. \A e \in valid[w] : e.arrived_at \in 1..Cardinality(valid[w])
      BY <2>2 DEF WindowInv, RanksAreOrder, Ranked
    <3> QED
      BY <2>2, <3>1, <3>2
  <2>4. SlotsInOrder'
    BY <2>1, <2>2, <2>3 DEF SlotInv, SlotsInOrder
  <2> QED
    BY <2>1, <2>4 DEF SlotInv, PayloadInOrder, WinnersCameFirst
<1>2. CASE SealBatch
  <2> DEFINE w == active_batcher
  <2>1. /\ pc = "seal"
        /\ batch' = [batch EXCEPT ![w] = selected]
        /\ UNCHANGED <<valid, payload, archive>>
    BY <1>2 DEF SealBatch, SealWith
  <2>2. w \in Windows /\ w = window_n
    BY <1>0, <2>1, ActiveType DEF TypeOK, RunTypeOK
  <2>3. Collecting(w)
    BY <2>1, <2>2 DEF WindowInv, CooldownInv, SealsOnce, Collecting
  <2>4. selected = {e \in valid[w] : e.arrived_at <= B_BATCH}
    BY <2>2, <2>3, CollectedBatch DEF WindowInv, selected
  <2>5. \A e \in valid[w] : e.arrived_at \in Nat
    BY <1>0, <2>2 DEF Entries
  <2>6. SlotsInOrder'
    <3>1. ASSUME NEW v \in Windows, v # w
          PROVE  /\ batch'[v] \subseteq valid'[v]
                 /\ \A e \in batch'[v], f \in valid'[v] \ batch'[v] : e.arrived_at < f.arrived_at
      BY <1>0, <2>1, <3>1 DEF SlotInv, SlotsInOrder
    <3>2. batch'[w] = selected /\ selected \subseteq valid[w]
      BY <1>0, <2>1, <2>2, <2>4
    <3>3. \A e \in selected, f \in valid[w] \ selected : e.arrived_at < f.arrived_at
      BY <2>4, <2>5, WindowAssumption
    <3> QED
      BY <2>1, <3>1, <3>2, <3>3 DEF SlotsInOrder
  <2> QED
    BY <2>1, <2>6 DEF SlotInv, PayloadInOrder, WinnersCameFirst
<1>3. CASE BuildArchive
  <2>1. /\ UNCHANGED <<batch, valid, archive>>
        /\ payload' = {[window_start |-> active_batcher,
                        batch |-> batch[active_batcher],
                        runners_up |-> valid[active_batcher] \ batch[active_batcher]]}
    BY <1>3 DEF BuildArchive, batcherVars
  <2>2. active_batcher \in Windows
    BY <1>0, <1>3, ActiveType DEF BuildArchive, TypeOK, RunTypeOK
  <2> QED
    BY <2>1, <2>2 DEF SlotInv, SlotsInOrder, PayloadInOrder, WinnersCameFirst
<1>4. CASE Upload \/ UploadFails
  <2>1. /\ UNCHANGED <<batch, valid>> /\ payload' = {}
        /\ archive' \subseteq archive \cup payload
    BY <1>4 DEF Upload, UploadFails, Close, batcherVars
  <2> QED
    BY <2>1 DEF SlotInv, SlotsInOrder, PayloadInOrder, WinnersCameFirst
<1>5. CASE UNCHANGED <<batch, valid, payload, archive>>
  BY <1>5 DEF SlotInv, SlotsInOrder, PayloadInOrder, WinnersCameFirst
<1>6. \/ AppendValid \/ SealBatch \/ BuildArchive \/ Upload \/ UploadFails
      \/ UNCHANGED <<batch, payload, archive>>
  BY WorkerFrame
     DEF Next, RunStep, OpenWindow, SetWindowRandomness, RandomnessFails, CreateSealEvent,
         LookAtSealFlag, WaitFindsEventSet, WaitFindsEventUnset, Enrol, Wake, Timeout, TrainOrSkip,
         TrainFails, PublishOrSkip, Recover, GoSeal, Exhausted, vars, runVars
<1> QED
  BY <1>1, <1>2, <1>3, <1>4, <1>5, <1>6, ValidIsKept

\* Whoever was accepted before a member of the archived batch is in it too.
THEOREM SlotsByArrival == Spec => []WinnersCameFirst
<1>1. SlotInv => WinnersCameFirst
  BY DEF SlotInv
<1> QED
  BY <1>1, SlotInit, SlotStep, WindowHolds, PTL DEF Spec

-----------------------------------------------------------------------------
(***************************************************************************)
(* The refinement of PromptLedger: opening a window is Open, sealing it is *)
(* CloseOn the prompts selected, every other step stutters.                *)
(***************************************************************************)

\* A set of entries has at most as many prompts.
LEMMA FewPrompts ==
  ASSUME NEW S, IsFiniteSet(S)
  PROVE  Cardinality({e.prompt_idx : e \in S}) <= Cardinality(S)
<1> DEFINE prompts == {e.prompt_idx : e \in S}
           prompt == [e \in S |-> e.prompt_idx]
<1>1. prompt \in Surjection(S, prompts)
  BY DEF Surjection
<1> HIDE DEF prompts, prompt
<1>2. Cardinality(prompts) <= Cardinality(S)
  BY <1>1, FS_Surjection
<1> QED
  BY <1>2 DEF prompts

LEMMA LedgerInit == Init => Ledger!Init
<1> SUFFICES ASSUME Init PROVE Ledger!Init
  OBVIOUS
<1>1. \A w \in Windows : batch[w] = {}
  BY DEF Init
<1>2. [w \in Windows |-> {e.prompt_idx : e \in batch[w]}] = [w \in Windows |-> {}]
  BY <1>1
<1> QED
  BY <1>2 DEF Init, Ledger!Init, Ledger!Windows, Windows

LEMMA LedgerStep == WindowInv /\ [Next]_vars => [Ledger!Next]_(Ledger!vars)
<1> SUFFICES ASSUME WindowInv, [Next]_vars PROVE [Ledger!Next]_(Ledger!vars)
  OBVIOUS
<1> DEFINE ledger == [w \in Windows |-> {e.prompt_idx : e \in batch[w]}]
<1>0. /\ TypeOK /\ CooldownInv
      /\ batch \in [Windows -> SUBSET Entries]
      /\ window_n \in 0..MaxWindow /\ sealed \subseteq 1..window_n
      /\ MaxWindow \in Nat
  BY WindowAssumption DEF WindowInv, TypeOK, BatchTypeOK, RunTypeOK
<1>1. CASE OpenWindow
  <2>1. /\ UNCHANGED <<batch, sealed>> /\ window_n' = window_n + 1 /\ window_n < MaxWindow
    BY <1>1 DEF OpenWindow
  <2>2. Ledger!Open
    BY <2>1 DEF Ledger!Open
  <2> QED
    BY <2>2 DEF Ledger!Next
<1>2. CASE SealBatch
  <2> DEFINE w == active_batcher
             won == {e.prompt_idx : e \in selected}
  <2>1. /\ pc = "seal"
        /\ batch' = [batch EXCEPT ![w] = selected]
        /\ sealed' = sealed \cup {w}
        /\ UNCHANGED window_n
    BY <1>2 DEF SealBatch, SealWith
  <2>2. w \in Windows /\ w = window_n
    BY <1>0, <2>1, ActiveType DEF TypeOK, RunTypeOK
  <2>3. Collecting(w)
    BY <1>0, <2>1, <2>2 DEF CooldownInv, SealsOnce, Collecting
  <2>4. /\ IsFiniteSet(selected)
        /\ Cardinality(selected) \in Nat /\ Cardinality(selected) <= B_BATCH
        /\ selected \subseteq valid[w]
    BY <2>2, <2>3, CollectedBatch, SelectedIsValid, FS_CardinalityType, WindowAssumption
       DEF WindowInv, selected
  <2>5. Cardinality(won) <= B_BATCH
    <3>1. Cardinality(won) \in Nat
      <4>1. [e \in selected |-> e.prompt_idx] \in Surjection(selected, won)
        BY DEF Surjection
      <4>2. IsFiniteSet(won)
        <5> HIDE DEF won
        <5> QED
          BY <2>4, <4>1, FS_Surjection
      <4> QED
        BY <4>2, FS_CardinalityType
    <3>2. Cardinality(won) <= Cardinality(selected)
      BY <2>4, FewPrompts
    <3> QED
      BY <2>4, <3>1, <3>2, WindowAssumption
  <2>6. won \in SUBSET Prompts
    <3>1. selected \subseteq Entries
      BY <1>0, <2>2, <2>4 DEF TypeOK, BatcherTypeOK
    <3> QED
      BY <3>1 DEF Entries
  <2>7. won \cap Ledger!Recent(window_n) = {}
    <3> SUFFICES ASSUME NEW f \in selected, f.prompt_idx \in Ledger!Recent(window_n) PROVE FALSE
      OBVIOUS
    <3>1. COOLDOWN_WINDOWS # 0
      BY DEF Ledger!Recent
    <3>2. PICK v \in sealed : window_n - v < COOLDOWN_WINDOWS /\ f.prompt_idx \in ledger[v]
      BY <3>1 DEF Ledger!Recent
    <3>3. v \in Windows
      BY <1>0, <3>2 DEF Windows
    <3>4. PICK e \in batch[v] : e.prompt_idx = f.prompt_idx
      BY <3>2, <3>3
    <3>5. window_n - v >= COOLDOWN_WINDOWS
      BY <1>0, <2>1, <2>2, <3>1, <3>3, <3>4, SelectedIsOutOfCooldown
    <3> QED
      BY <1>0, <3>2, <3>3, <3>5, CooldownAssumption DEF Windows
  <2>8. ledger' = [ledger EXCEPT ![window_n] = won]
    BY <1>0, <2>1, <2>2
  <2>9. window_n \in Ledger!Windows \ sealed
    BY <2>2, <2>3 DEF Collecting, Ledger!Windows, Windows
  <2>10. sealed' = sealed \cup {window_n} /\ UNCHANGED window_n
    BY <2>1, <2>2
  <2> HIDE DEF won, selected, w
  <2>11. PICK q : q = won
    OBVIOUS
  <2>12. Ledger!CloseOn(q)
    <3>1. Ledger!Cardinality(q) = Cardinality(q)
      BY DEF Ledger!Cardinality, Cardinality
    <3>2. Ledger!Cardinality(q) <= B_BATCH
      BY <2>5, <2>11, <3>1
    <3>3. ledger' = [ledger EXCEPT ![window_n] = q]
      BY <2>8, <2>11
    <3>4. q \cap Ledger!Recent(window_n) = {}
      BY <2>7, <2>11
    <3> QED
      BY <2>9, <2>10, <3>2, <3>3, <3>4 DEF Ledger!CloseOn
  <2>13. \E p \in SUBSET Prompts : Ledger!CloseOn(p)
    BY <2>6, <2>11, <2>12
  <2>14. Ledger!Next
    BY <2>13 DEF Ledger!Next
  <2> QED
    BY <2>14
<1>3. CASE UNCHANGED <<window_n, sealed, batch>>
  BY <1>3 DEF Ledger!vars
<1>4. OpenWindow \/ SealBatch \/ UNCHANGED <<window_n, sealed, batch>>
  BY WorkerFrame, QuietRunFrame DEF Next, RunStep, QuietRunStep, Exhausted, vars, runVars
<1> QED
  BY <1>1, <1>2, <1>3, <1>4

\* The windows of a validator, with all their threads, implement the ledger.
THEOREM LedgerImplemented == Spec => ImplementsLedger
BY LedgerInit, LedgerStep, WindowHolds, PTL DEF Spec, ImplementsLedger, Ledger!Spec
-----------------------------------------------------------------------------
(***************************************************************************)
(* The loop of select_batch.  Along a list in order it keeps the leaders   *)
(* of the submissions so far, as many as there are slots.                  *)
(***************************************************************************)
InOrder(seq) ==
  \A i, j \in DOMAIN seq : i < j => Before(seq[i], seq[j]) \/ seq[i] = seq[j]

\* One turn of the loop.
Taken(chosen, sub, b, w, last) ==
  IF \/ Len(chosen) >= b
     \/ \E i \in DOMAIN chosen : chosen[i].prompt_idx = sub.prompt_idx
     \/ is_in_cooldown(last, sub.prompt_idx, w)
  THEN chosen ELSE Append(chosen, sub)

\* f has what is chosen after each turn, the last of them what the loop returns.
TakesPrefixes(f, ordered, b, w, last) ==
  /\ f[0] = <<>>
  /\ \A i \in 1..Len(ordered) : f[i] = Taken(f[i - 1], ordered[i], b, w, last)
  /\ TakeFrom(ordered, b, w, last) = f[Len(ordered)]

LEMMA TakesDef ==
  ASSUME NEW S, NEW ordered \in Seq(S), NEW b, NEW w, NEW last
  PROVE  \E f : TakesPrefixes(f, ordered, b, w, last)
<1> DEFINE n == Len(ordered)
           step == [a \in Seq(S) \X (1..n) |-> Taken(a[1], ordered[a[2]], b, w, last)]
           Body(f, T) == IF T = {} THEN <<>>
                         ELSE Taken(f[T \ {Max(T)}], ordered[Max(T)], b, w, last)
           Satisfies(f) == f = [T \in SUBSET (1..n) |-> Body(f, T)]
           g == CHOOSE f : Satisfies(f)
<1>1. n \in Nat /\ DOMAIN ordered = 1..n /\ \A i \in 1..n : ordered[i] \in S
  BY LenProperties, ElementOfSeq
<1> HIDE DEF n
<1>2. <<>> \in Seq(S) /\ step \in [Seq(S) \X (1..n) -> Seq(S)]
  <2>1. ASSUME NEW s \in Seq(S), NEW i \in 1..n
        PROVE  Taken(s, ordered[i], b, w, last) \in Seq(S)
    BY <1>1, AppendProperties DEF Taken
  <2> QED
    BY <2>1
<1>3. PICK f : FoldSolves(f, Seq(S), <<>>, step, n)
  <2> HIDE DEF step
  <2> QED
    BY <1>1, <1>2, FoldSolution
<1>4. ASSUME NEW T \in SUBSET (1..n) PROVE f[T] = Body(f, T)
  <2>1. CASE T = {}
    BY <1>3, <2>1 DEF FoldSolves
  <2>2. CASE T # {}
    <3>1. Max(T) \in 1..n
      BY <1>1, <2>2, MaxOfNumbers
    <3>2. f[T \ {Max(T)}] \in Seq(S)
      BY <1>3 DEF FoldSolves
    <3>3. f[T] = step[<<f[T \ {Max(T)}], Max(T)>>]
      BY <1>3, <2>2 DEF FoldSolves
    <3> QED
      BY <2>2, <3>1, <3>2, <3>3
  <2> QED
    BY <2>1, <2>2
<1>5. Satisfies(f)
  <2> HIDE DEF Body
  <2>1. f = [T \in SUBSET (1..n) |-> f[T]]
    BY <1>3 DEF FoldSolves
  <2> QED
    BY <1>4, <2>1
<1>6. Satisfies(g)
  <2> HIDE DEF Satisfies
  <2> QED
    BY <1>5
<1>7. TakeFrom(ordered, b, w, last) = g[1..n]
  BY <1>1 DEF TakeFrom, FoldLeft, MapThenFoldSet, Taken
<1> HIDE DEF g, step
<1>8. \A T \in SUBSET (1..n) : g[T] = Body(g, T)
  BY <1>6
<1> HIDE DEF Satisfies
<1> DEFINE k == [i \in 0..n |-> g[1..i]]
<1>9. k[0] = <<>>
  <2>1. 1..0 = {} /\ {} \in SUBSET (1..n) /\ 0 \in 0..n
    BY <1>1
  <2>2. g[{}] = Body(g, {})
    BY <1>8, <2>1
  <2>3. g[{}] = <<>>
    BY <2>2
  <2>4. k[0] = g[1..0]
    BY <2>1
  <2> QED
    BY <2>1, <2>3, <2>4
<1>10. ASSUME NEW i \in 1..n PROVE k[i] = Taken(k[i - 1], ordered[i], b, w, last)
  <2>1. Max(1..i) = i /\ (1..i) \ {i} = 1..(i - 1) /\ 1..i # {} /\ 1..i \in SUBSET (1..n)
    BY <1>1, MaxOfInterval
  <2>2. g[1..i] = Taken(g[1..(i - 1)], ordered[i], b, w, last)
    BY <1>8, <2>1
  <2>3. i \in 0..n /\ i - 1 \in 0..n
    BY <1>1
  <2> QED
    BY <2>2, <2>3
<1>11. k[n] = g[1..n]
  BY <1>1
<1> HIDE DEF k
<1>12. TakesPrefixes(k, ordered, b, w, last)
  BY <1>7, <1>9, <1>10, <1>11 DEF TakesPrefixes, n
<1> QED
  BY <1>12

\* Of leaders in a list, those that come first: all of them if they are few.
Chosen(seq, leaders, b) ==
  /\ Range(seq) = FirstOf(leaders, b)
  /\ \A i, j \in DOMAIN seq : i < j => Before(seq[i], seq[j])
  /\ IF Cardinality(leaders) < b THEN Len(seq) = Cardinality(leaders) ELSE Len(seq) = b

\* Each prompt out of cooldown has a leader.
Led(eligible) ==
  \A s \in eligible : \E l \in Leaders(eligible) : l.prompt_idx = s.prompt_idx

\* seq is chosen from the submissions subs, members of S.
ChosenFrom(seq, subs, S, b, w, last) ==
  /\ Led(Eligible(subs, w, last)) /\ IsFiniteSet(Leaders(Eligible(subs, w, last)))
  /\ seq \in Seq(S) /\ Chosen(seq, Leaders(Eligible(subs, w, last)), b)

\* A submission whose prompt is led already changes nothing.
LEMMA LedAlready ==
  ASSUME NEW S, \A s \in S : s.arrived_at \in Int /\ s.digest \in Int,
         NEW E \in SUBSET S, NEW x \in S, \A s \in E : Before(s, x) \/ s = x,
         Led(E), NEW y \in E, y.prompt_idx = x.prompt_idx
  PROVE  Leaders(E \cup {x}) = Leaders(E) /\ Led(E \cup {x})
<1>1. \A s, t \in S : ~ (Before(s, t) /\ Before(t, s))
  BY DEF Before
<1>2. ASSUME NEW l \in Leaders(E) PROVE l \in Leaders(E \cup {x})
  BY DEF Leaders
<1>3. ASSUME NEW l \in Leaders(E \cup {x}) PROVE l \in Leaders(E)
  <2>1. CASE l \in E
    BY <2>1 DEF Leaders
  <2>2. CASE l \notin E
    <3>1. l = x
      BY <2>2 DEF Leaders
    <3>2. y = x \/ Before(x, y)
      BY <3>1 DEF Leaders
    <3> QED
      BY <1>1, <2>2, <3>1, <3>2
  <2> QED
    BY <2>1, <2>2
<1>4. Leaders(E \cup {x}) = Leaders(E)
  BY <1>2, <1>3
<1> QED
  BY <1>4 DEF Led

\* The leaders of E and of E with x in it.
OneMore(E, x, b) ==
  /\ Leaders(E \cup {x}) = Leaders(E) \cup {x} /\ Led(E \cup {x})
  /\ IsFiniteSet(Leaders(E \cup {x}))
  /\ Cardinality(Leaders(E \cup {x})) = Cardinality(Leaders(E)) + 1
  /\ FirstOf(Leaders(E \cup {x}), b) =
       IF Cardinality(Leaders(E)) < b THEN FirstOf(Leaders(E), b) \cup {x}
       ELSE FirstOf(Leaders(E), b)

\* A submission of another prompt is one more leader, and comes after the others.
LEMMA OneMoreLeader ==
  ASSUME NEW S, \A s \in S : s.arrived_at \in Int /\ s.digest \in Int,
         NEW E \in SUBSET S, NEW x \in S, \A s \in E : Before(s, x) \/ s = x,
         Led(E), \A s \in E : s.prompt_idx # x.prompt_idx,
         IsFiniteSet(Leaders(E)), NEW b \in Nat
  PROVE  OneMore(E, x, b)
<1> DEFINE L == Leaders(E)
<1>1. L \subseteq E /\ x \notin L
  BY DEF Leaders
<1>2. Leaders(E \cup {x}) = L \cup {x}
  BY DEF Leaders
<1>3. Led(E \cup {x})
  BY <1>2 DEF Led
<1>4. IsFiniteSet(L \cup {x}) /\ Cardinality(L \cup {x}) = Cardinality(L) + 1
  BY <1>1, FS_AddElement
<1>5. \A s \in L : Before(s, x) /\ ~ Before(x, s)
  BY <1>1 DEF Before
<1>6. ~ Before(x, x)
  BY DEF Before
<1>7. \A s \in L : {t \in L \cup {x} : Before(t, s)} = {t \in L : Before(t, s)}
  BY <1>5
<1>8. {t \in L \cup {x} : Before(t, x)} = L
  BY <1>5, <1>6
<1> HIDE DEF L
<1>9. FirstOf(L \cup {x}, b) = IF Cardinality(L) < b THEN FirstOf(L, b) \cup {x} ELSE FirstOf(L, b)
  <2>1. \A s \in L : s \in FirstOf(L \cup {x}, b) <=> s \in FirstOf(L, b)
    BY <1>7 DEF FirstOf
  <2>2. x \in FirstOf(L \cup {x}, b) <=> Cardinality(L) < b
    BY <1>8 DEF FirstOf
  <2>3. FirstOf(L, b) \subseteq L /\ FirstOf(L \cup {x}, b) \subseteq L \cup {x} /\ x \notin L
    BY <1>1 DEF FirstOf, L
  <2> DEFINE first == FirstOf(L, b)
             later == FirstOf(L \cup {x}, b)
  <2>4. /\ \A s \in L : s \in later <=> s \in first
        /\ x \in later <=> Cardinality(L) < b
        /\ first \subseteq L /\ later \subseteq L \cup {x}
    BY <2>1, <2>2, <2>3
  <2> HIDE DEF first, later
  <2>5. CASE Cardinality(L) < b
    <3>1. \A s : s \in later <=> s \in first \cup {x}
      BY <2>4, <2>5
    <3>2. later = first \cup {x}
      BY <3>1
    <3> QED
      BY <2>5, <3>2 DEF first, later
  <2>6. CASE ~ (Cardinality(L) < b)
    <3>1. \A s : s \in later <=> s \in first
      BY <2>3, <2>4, <2>6
    <3>2. later = first
      BY <3>1
    <3> QED
      BY <2>6, <3>2 DEF first, later
  <2> QED
    BY <2>5, <2>6
<1> QED
  BY <1>2, <1>3, <1>4, <1>9 DEF L, OneMore

\* Few leaders are all among the first.
LEMMA FewLeaders ==
  ASSUME NEW L, IsFiniteSet(L), NEW b \in Nat, Cardinality(L) < b
  PROVE  FirstOf(L, b) = L
<1>1. ASSUME NEW s \in L PROVE Cardinality({t \in L : Before(t, s)}) < b
  <2>1. {t \in L : Before(t, s)} \in SUBSET L
    OBVIOUS
  <2>2. /\ Cardinality({t \in L : Before(t, s)}) <= Cardinality(L)
        /\ IsFiniteSet({t \in L : Before(t, s)})
    BY <2>1, FS_Subset
  <2> QED
    BY <2>2, FS_CardinalityType
<1> QED
  BY <1>1 DEF FirstOf

\* One turn of the loop, with the submissions so far.
LEMMA TakesLeader ==
  ASSUME NEW S, \A s \in S : s.arrived_at \in Int /\ s.digest \in Int,
         NEW P \in SUBSET S, NEW x \in S, \A s \in P : Before(s, x) \/ s = x,
         NEW b \in Nat, NEW w, NEW last, NEW seq, ChosenFrom(seq, P, S, b, w, last)
  PROVE  ChosenFrom(Taken(seq, x, b, w, last), P \cup {x}, S, b, w, last)
<1> DEFINE E == Eligible(P, w, last)
           L == Leaders(E)
           next == Taken(seq, x, b, w, last)
<1>0. Led(E) /\ IsFiniteSet(L) /\ seq \in Seq(S) /\ Chosen(seq, L, b)
  BY DEF ChosenFrom
<1> SUFFICES /\ Led(Eligible(P \cup {x}, w, last))
             /\ IsFiniteSet(Leaders(Eligible(P \cup {x}, w, last)))
             /\ next \in Seq(S)
             /\ Chosen(next, Leaders(Eligible(P \cup {x}, w, last)), b)
  BY DEF ChosenFrom
<1>1. E \in SUBSET S /\ E \subseteq P /\ L \subseteq E
  BY DEF Eligible, Leaders
<1>2. Eligible(P \cup {x}, w, last) = IF is_in_cooldown(last, x.prompt_idx, w) THEN E ELSE E \cup {x}
  BY DEF Eligible
<1>3. Len(seq) \in Nat /\ DOMAIN seq = 1..Len(seq) /\ Cardinality(L) \in Nat
  BY <1>0, LenProperties, FS_CardinalityType
<1>4. CASE is_in_cooldown(last, x.prompt_idx, w)
  BY <1>0, <1>2, <1>4 DEF Taken
<1>5. CASE ~ is_in_cooldown(last, x.prompt_idx, w) /\ \E y \in E : y.prompt_idx = x.prompt_idx
  <2>1. Leaders(E \cup {x}) = L /\ Led(E \cup {x})
    <3> HIDE DEF E
    <3>1. PICK y \in E : y.prompt_idx = x.prompt_idx
      BY <1>5
    <3>2. Led(E) /\ \A s \in E : Before(s, x) \/ s = x
      BY <1>0, <1>1
    <3>3. E \in SUBSET S /\ \A s \in S : s.arrived_at \in Int /\ s.digest \in Int
      BY <1>1
    <3> QED
      BY <3>1, <3>2, <3>3, LedAlready
  <2>2. next = seq
    <3>1. CASE Len(seq) >= b
      BY <3>1 DEF Taken
    <3>2. CASE ~ (Len(seq) >= b)
      <4>1. Cardinality(L) < b
        <5> HIDE DEF L, E
        <5>1. Cardinality(L) < b \/ Len(seq) = b
          BY <1>0 DEF Chosen
        <5>2. PICK m \in Nat : m = Len(seq)
          BY <1>3
        <5>3. m # b
          BY <3>2, <5>2
        <5> QED
          BY <5>1, <5>2, <5>3
      <4>2. Range(seq) = L
        <5> HIDE DEF L, E
        <5>1. Range(seq) = FirstOf(L, b) /\ IsFiniteSet(L)
          BY <1>0 DEF Chosen
        <5> QED
          BY <4>1, <5>1, FewLeaders
      <4>3. PICK l \in L : l.prompt_idx = x.prompt_idx
        BY <1>0, <1>5 DEF Led
      <4>4. \E i \in DOMAIN seq : seq[i] = l
        BY <4>2 DEF Range
      <4> QED
        BY <4>3, <4>4 DEF Taken
    <3> QED
      BY <3>1, <3>2
  <2> QED
    BY <1>0, <1>2, <1>5, <2>1, <2>2
<1>6. CASE ~ is_in_cooldown(last, x.prompt_idx, w) /\ ~ \E y \in E : y.prompt_idx = x.prompt_idx
  <2>1. /\ Leaders(E \cup {x}) = L \cup {x} /\ Led(E \cup {x})
        /\ IsFiniteSet(Leaders(E \cup {x}))
        /\ Cardinality(Leaders(E \cup {x})) = Cardinality(L) + 1
        /\ FirstOf(Leaders(E \cup {x}), b) =
             IF Cardinality(L) < b THEN FirstOf(L, b) \cup {x} ELSE FirstOf(L, b)
    <3>1. Led(E) /\ IsFiniteSet(Leaders(E)) /\ \A s \in E : Before(s, x) \/ s = x
      BY <1>0, <1>1
    <3>2. \A s \in E : s.prompt_idx # x.prompt_idx
      BY <1>6
    <3>3. E \in SUBSET S /\ \A s \in S : s.arrived_at \in Int /\ s.digest \in Int
      BY <1>1
    <3> HIDE DEF E
    <3>4. OneMore(E, x, b)
      BY <3>1, <3>2, <3>3, OneMoreLeader
    <3> QED
      BY <3>4 DEF OneMore
  <2>2. CASE Cardinality(L) < b
    <3>1. Len(seq) = Cardinality(L) /\ Range(seq) = FirstOf(L, b)
      BY <1>0, <2>2 DEF Chosen
    <3>2. Range(seq) \subseteq L
      BY <3>1 DEF FirstOf
    <3>3. \A i \in DOMAIN seq : seq[i] \in L
      BY <3>2 DEF Range
    <3>4. ~ (Len(seq) >= b) /\ ~ \E i \in DOMAIN seq : seq[i].prompt_idx = x.prompt_idx
      BY <1>1, <1>3, <1>6, <2>2, <3>1, <3>3
    <3>5. next = Append(seq, x)
      BY <1>6, <3>4 DEF Taken
    <3>6. /\ next \in Seq(S) /\ Len(next) = Len(seq) + 1
          /\ \A i \in 1..Len(seq) : next[i] = seq[i]
          /\ next[Len(seq) + 1] = x
      BY <1>0, <3>5, AppendProperties
    <3>7. DOMAIN next = 1..(Len(seq) + 1)
      BY <3>6, LenProperties
    <3>8. Range(next) = Range(seq) \cup {x}
      BY <1>0, <3>5, RangeAppend
    <3>9. ASSUME NEW i \in DOMAIN next, NEW j \in DOMAIN next, i < j PROVE Before(next[i], next[j])
      <4>1. i \in 1..Len(seq)
        BY <1>3, <3>7, <3>9
      <4>2. CASE j \in 1..Len(seq)
        BY <1>0, <1>3, <3>6, <3>9, <4>1, <4>2 DEF Chosen
      <4>3. CASE j = Len(seq) + 1
        <5>1. next[i] \in E /\ next[i].prompt_idx # x.prompt_idx
          BY <1>1, <1>3, <1>6, <3>3, <3>6, <4>1
        <5>2. next[i] # x
          BY <5>1
        <5>3. Before(next[i], x)
          BY <1>1, <5>1, <5>2
        <5> QED
          BY <3>6, <4>3, <5>3
      <4> QED
        BY <1>3, <3>7, <4>2, <4>3
    <3>10. IF Cardinality(L) + 1 < b THEN Len(next) = Cardinality(L) + 1 ELSE Len(next) = b
      BY <1>3, <2>2, <3>1, <3>6
    <3> HIDE DEF next, L, E
    <3>11. Chosen(next, Leaders(E \cup {x}), b)
      BY <2>1, <2>2, <3>1, <3>8, <3>9, <3>10 DEF Chosen
    <3> QED
      BY <1>2, <1>6, <2>1, <3>6, <3>11 DEF next, E
  <2>3. CASE ~ (Cardinality(L) < b)
    <3>1. Len(seq) = b
      BY <1>0, <2>3 DEF Chosen
    <3>2. next = seq
      BY <3>1 DEF Taken
    <3>3. ~ (Cardinality(L) + 1 < b)
      BY <1>3, <2>3
    <3> HIDE DEF L, E
    <3>4. Chosen(seq, Leaders(E \cup {x}), b)
      BY <1>0, <2>1, <2>3, <3>1, <3>3 DEF Chosen
    <3> QED
      BY <1>0, <1>2, <1>6, <2>1, <3>2, <3>4 DEF E
  <2> QED
    BY <2>2, <2>3
<1> QED
  BY <1>4, <1>5, <1>6

\* For a list of submissions in order, the loop returns the batch that the
\* other proofs reason about, each member before the next: the first leaders of
\* the prompts out of cooldown, however many slots there are.
THEOREM LoopTakesLeaders ==
  ASSUME NEW S, \A s \in S : s.arrived_at \in Int /\ s.digest \in Int,
         NEW ordered \in Seq(S), InOrder(ordered), NEW b \in Nat, NEW w, NEW last
  PROVE  LET chosen == TakeFrom(ordered, b, w, last)
         IN  /\ ToSet(chosen) = BatchOf(ToSet(ordered), b, w, last)
             /\ \A i, j \in DOMAIN chosen : i < j => Before(chosen[i], chosen[j])
<1> DEFINE n == Len(ordered)
           P(k) == {ordered[i] : i \in 1..k}
<1>1. n \in Nat /\ DOMAIN ordered = 1..n /\ \A i \in 1..n : ordered[i] \in S
  BY LenProperties, ElementOfSeq
<1>2. PICK f : TakesPrefixes(f, ordered, b, w, last)
  BY TakesDef
<1>3. /\ f[0] = <<>>
      /\ \A i \in 1..n : f[i] = Taken(f[i - 1], ordered[i], b, w, last)
      /\ TakeFrom(ordered, b, w, last) = f[n]
  BY <1>2 DEF TakesPrefixes
<1> HIDE DEF n
<1> DEFINE Good(k) == ChosenFrom(f[k], P(k), S, b, w, last)
           I == {k \in Nat : k <= n => Good(k)}
<1>4. 0 \in I
  <2>1. P(0) = {}
    OBVIOUS
  <2>2. Eligible({}, w, last) = {} /\ Leaders({}) = {} /\ FirstOf({}, b) = {} /\ Led({})
    BY DEF Eligible, Leaders, FirstOf, Led
  <2>3. <<>> \in Seq(S) /\ Len(<<>>) = 0 /\ DOMAIN <<>> = {}
    OBVIOUS
  <2>4. IsFiniteSet({}) /\ Cardinality({}) = 0
    BY FS_EmptySet
  <2>5. Range(<<>>) = {}
    BY <2>3 DEF Range
  <2>6. Chosen(<<>>, {}, b)
    <3>1. IF Cardinality({}) < b THEN Len(<<>>) = Cardinality({}) ELSE Len(<<>>) = b
      BY <2>3, <2>4
    <3>2. Range(<<>>) = FirstOf({}, b)
      BY <2>2, <2>5
    <3>3. \A i, j \in DOMAIN <<>> : i < j => Before(<<>>[i], <<>>[j])
      BY <2>3
    <3> QED
      BY <3>1, <3>2, <3>3 DEF Chosen
  <2> HIDE DEF P
  <2> QED
    BY <1>3, <2>1, <2>2, <2>3, <2>4, <2>6 DEF ChosenFrom
<1>5. ASSUME NEW k \in Nat, k \in I PROVE k + 1 \in I
  <2> SUFFICES ASSUME k + 1 <= n PROVE Good(k + 1)
    OBVIOUS
  <2>1. Good(k)
    BY <1>1, <1>5
  <2>2. k + 1 \in 1..n /\ (k + 1) - 1 = k
    BY <1>1
  <2>3. f[k + 1] = Taken(f[k], ordered[k + 1], b, w, last)
    BY <1>3, <2>2
  <2>4. P(k + 1) = P(k) \cup {ordered[k + 1]}
    <3>1. 1..(k + 1) = (1..k) \cup {k + 1}
      OBVIOUS
    <3> QED
      BY <3>1
  <2>5. P(k) \in SUBSET S /\ ordered[k + 1] \in S
    BY <1>1, <2>2
  <2>6. ASSUME NEW s \in P(k) PROVE Before(s, ordered[k + 1]) \/ s = ordered[k + 1]
    <3>1. PICK i \in 1..k : s = ordered[i]
      OBVIOUS
    <3>2. i \in DOMAIN ordered /\ k + 1 \in DOMAIN ordered /\ i < k + 1
      BY <1>1, <2>2
    <3> QED
      BY <3>1, <3>2 DEF InOrder
  <2> HIDE DEF P, I
  <2> QED
    BY <2>1, <2>3, <2>4, <2>5, <2>6, TakesLeader
<1>6. Nat \subseteq I
  <2> HIDE DEF I
  <2> QED
    BY <1>4, <1>5, NatSetInduction
<1>7. Good(n)
  <2> HIDE DEF Good
  <2>1. n \in I
    BY <1>1, <1>6
  <2> QED
    BY <1>1, <2>1
<1>8. ToSet(ordered) = P(n)
  BY <1>1 DEF ToSet
<1>9. ToSet(f[n]) = Range(f[n])
  BY DEF ToSet, Range
<1> HIDE DEF P
<1> QED
  BY <1>3, <1>7, <1>8, <1>9 DEF ChosenFrom, Chosen, BatchOf

-----------------------------------------------------------------------------
(***************************************************************************)
(* The computations of MCAlgorithms, for any environments, leaves, numbers *)
(* of prompts and bounds: the loop of select_batch takes the leaders, a    *)
(* draw stays in its slice, and a root is that of one list.                *)
(***************************************************************************)
\* The sorted list is in order, and is the same list otherwise.
LEMMA SortedInOrder ==
  ASSUME NEW S, \A s \in S : s.arrived_at \in Int /\ s.digest \in Int,
         \A s, t \in S : s.arrived_at = t.arrived_at /\ s.digest = t.digest => s = t,
         NEW subs \in Seq(S)
  PROVE  Sorted(subs) \in Seq(S) /\ InOrder(Sorted(subs)) /\ ToSet(Sorted(subs)) = ToSet(subs)
<1> DEFINE n == Len(subs)
           D == 1..n
           Earlier(j, i) == \/ Before(subs[j], subs[i])
                            \/ ~ Before(subs[i], subs[j]) /\ j < i
           order == {p \in D \X D : Earlier(p[1], p[2])}
           R(i) == Rank(order, D, i)
           At(k) == CHOOSE i \in D : Place(subs, i) = k
<1>1. n \in Nat /\ DOMAIN subs = D /\ \A i \in D : subs[i] \in S
  BY LenProperties, ElementOfSeq
<1>2. IsFiniteSet(D) /\ Cardinality(D) = n
  <2> HIDE DEF n
  <2>1. IsFiniteSet(1..n) /\ Cardinality(1..n) = IF 1 > n THEN 0 ELSE n - 1 + 1
    BY <1>1, FS_Interval
  <2> QED
    BY <1>1, <2>1
<1> HIDE DEF n
<1>3. \A i, j \in D : <<j, i>> \in order <=> Earlier(j, i)
  OBVIOUS
<1>4. \A i, j \in D : Earlier(j, i) => Before(subs[j], subs[i]) \/ subs[j] = subs[i]
  <2> SUFFICES ASSUME NEW i \in D, NEW j \in D, Earlier(j, i), ~ Before(subs[j], subs[i])
               PROVE  subs[j] = subs[i]
    OBVIOUS
  <2>1. ~ Before(subs[i], subs[j]) /\ subs[i] \in S /\ subs[j] \in S
    BY <1>1
  <2>2. subs[i].arrived_at = subs[j].arrived_at /\ subs[i].digest = subs[j].digest
    BY <2>1 DEF Before
  <2> QED
    BY <2>1, <2>2
<1>5. Orders(order, D)
  <2>1. \A s, t, u \in S : /\ ~ (Before(s, t) /\ Before(t, s)) /\ ~ Before(s, s)
                           /\ Before(s, t) /\ Before(t, u) => Before(s, u)
                           /\ Before(s, t) /\ ~ Before(u, t) => Before(s, u)
                           /\ ~ Before(t, s) /\ Before(t, u) => Before(s, u)
                           /\ ~ Before(t, s) /\ ~ Before(u, t) => ~ Before(u, s)
    BY DEF Before
  <2>2. \A e \in D : ~ Earlier(e, e)
    BY <1>1, <2>1
  <2>3. \A d, e, f \in D : Earlier(d, e) /\ Earlier(e, f) => Earlier(d, f)
    <3> SUFFICES ASSUME NEW d \in D, NEW e \in D, NEW f \in D, Earlier(d, e), Earlier(e, f)
                 PROVE  Earlier(d, f)
      OBVIOUS
    <3>1. subs[d] \in S /\ subs[e] \in S /\ subs[f] \in S /\ d \in Int /\ e \in Int /\ f \in Int
      BY <1>1
    <3> QED
      BY <2>1, <3>1
  <2>4. \A e, f \in D : e # f => Earlier(e, f) \/ Earlier(f, e)
    BY <1>1, <2>1
  <2> HIDE DEF Earlier
  <2>5. order \in SUBSET (D \X D)
    OBVIOUS
  <2> HIDE DEF order
  <2> QED
    BY <1>3, <2>2, <2>3, <2>4, <2>5 DEF Orders
<1>6. ASSUME NEW i \in D PROVE Place(subs, i) = 1 + R(i)
  <2>1. {j \in D : Earlier(j, i)} = {j \in D : <<j, i>> \in order}
    BY <1>3
  <2>2. Place(subs, i) = 1 + Cardinality({j \in D : Earlier(j, i)})
    BY <1>1 DEF Place
  <2> QED
    BY <2>1, <2>2 DEF Rank
<1>7. /\ \A i \in D : R(i) \in Nat /\ R(i) < n
      /\ \A k \in 0..(n - 1) : \E i \in D : R(i) = k
  <2> HIDE DEF order, D
  <2> QED
    BY <1>2, <1>5, RanksAreNumbers
<1>8. \A i, j \in D : <<i, j>> \in order => R(i) < R(j)
  <2> HIDE DEF order, D
  <2> QED
    BY <1>2, <1>5, RankGrows
<1>9. \A i, j \in D : i # j => <<i, j>> \in order \/ <<j, i>> \in order
  BY <1>5 DEF Orders
<1> HIDE DEF order, R
<1>10. ASSUME NEW k \in D PROVE At(k) \in D /\ R(At(k)) = k - 1
  <2>1. k - 1 \in 0..(n - 1)
    BY <1>1
  <2>2. PICK i \in D : R(i) = k - 1
    BY <1>7, <2>1
  <2>3. Place(subs, i) = k
    BY <1>1, <1>6, <2>2
  <2>4. At(k) \in D /\ Place(subs, At(k)) = k
    BY <2>3
  <2> HIDE DEF At
  <2> QED
    BY <1>1, <1>6, <1>7, <2>4
<1>11. Sorted(subs) = [k \in D |-> subs[At(k)]]
  BY <1>1 DEF Sorted
<1> HIDE DEF At
<1>12. [k \in D |-> subs[At(k)]] \in [1..n -> S]
  BY <1>1, <1>10
<1>13. Sorted(subs) \in Seq(S) /\ DOMAIN Sorted(subs) = D
  BY <1>1, <1>11, <1>12, FunctionIsSeq
<1>14. \A k \in D : Sorted(subs)[k] = subs[At(k)]
  BY <1>11
<1>15. InOrder(Sorted(subs))
  <2> SUFFICES ASSUME NEW k \in D, NEW l \in D, k < l
               PROVE  Before(subs[At(k)], subs[At(l)]) \/ subs[At(k)] = subs[At(l)]
    BY <1>13, <1>14 DEF InOrder
  <2>1. At(k) \in D /\ At(l) \in D /\ R(At(k)) = k - 1 /\ R(At(l)) = l - 1
    BY <1>10
  <2>2. At(k) # At(l) /\ ~ (R(At(l)) < R(At(k)))
    BY <1>1, <2>1
  <2>3. <<At(k), At(l)>> \in order
    BY <1>8, <1>9, <2>1, <2>2
  <2> HIDE DEF Earlier
  <2> QED
    BY <1>3, <1>4, <2>1, <2>3
<1>16. ASSUME NEW i \in D PROVE \E k \in D : At(k) = i
  <2>1. R(i) + 1 \in D
    BY <1>1, <1>7
  <2>2. PICK k \in D : k = R(i) + 1
    BY <2>1
  <2>3. At(k) \in D /\ R(At(k)) = R(i)
    BY <1>7, <1>10, <2>2
  <2>4. R(i) \in Nat /\ ~ (R(i) < R(At(k))) /\ ~ (R(At(k)) < R(i))
    BY <1>7, <2>3
  <2>5. At(k) = i
    BY <1>8, <1>9, <2>3, <2>4
  <2> QED
    BY <2>5
<1>17. ToSet(Sorted(subs)) = ToSet(subs)
  <2>1. ToSet(Sorted(subs)) = {subs[At(k)] : k \in D}
    BY <1>13, <1>14 DEF ToSet
  <2>2. ToSet(subs) = {subs[i] : i \in D}
    BY <1>1 DEF ToSet
  <2> QED
    BY <1>10, <1>16, <2>1, <2>2
<1> QED
  BY <1>13, <1>15, <1>17

\* The lists grow by their elements, and what is drawn may be drawn.
AlgorithmsInv ==
  /\ submissions \in Seq(Submission)
  /\ list \in Seq(Leaves)
  /\ draw.eligible \subseteq 0..(Universe - 1)
  /\ draw.prompt # NoPrompt =>
       draw.prompt \in Slice(draw.prompt_range, Universe) \ draw.cooldown

\* Whatever the bias, a draw is from the slice.
LEMMA PicksFromSlice ==
  ASSUME NEW n, NEW e \in SUBSET (0..(n - 1)), NEW c, NEW r
  PROVE  pick_prompt_idx(e, c, r, n) \subseteq Slice(r, n) \ c
<1>1. Candidates(e, r, n) \subseteq Slice(r, n)
  <2>1. CASE r = NO_RANGE
    BY <2>1 DEF Candidates, Slice
  <2>2. CASE r # NO_RANGE
    <3> DEFINE s == Slice(r, n)
    <3>1. Candidates(e, r, n) = IF e \cap s # {} THEN e \cap s ELSE s
      BY <2>2 DEF Candidates
    <3> HIDE DEF s
    <3>2. Candidates(e, r, n) \subseteq s
      BY <3>1
    <3> QED
      BY <3>2 DEF s
  <2> QED
    BY <2>1, <2>2
<1> QED
  BY <1>1 DEF pick_prompt_idx

\* A slice of size prompts has so many, or all if there are fewer.
LEMMA SliceSize ==
  ASSUME NEW n \in Nat \ {0}, NEW size \in Nat \ {0}, NEW seed \in Nat
  PROVE  Cardinality(Slice(window_prompt_range(seed, n, size), n)) = Min({size, n})
<1> DEFINE r == window_prompt_range(seed, n, size)
<1>1. CASE n <= size
  <2>1. r = <<0, n>>
    BY <1>1 DEF window_prompt_range
  <2>2. r # NO_RANGE /\ r[1] = 0 /\ r[2] = n
    BY <2>1, EmptySeq DEF NO_RANGE
  <2> HIDE DEF r
  <2>3. Slice(r, n) = 0..(n - 1)
    BY <2>2 DEF Slice
  <2>4. Cardinality(0..(n - 1)) = n
    BY FS_Interval
  <2>5. Min({size, n}) \in {size, n} /\ Min({size, n}) <= n /\ Min({size, n}) <= size
    BY MinOfTwo
  <2>6. Min({size, n}) = n
    BY <1>1, <2>5
  <2> QED
    BY <2>3, <2>4, <2>6 DEF r
<1>2. CASE size < n
  <2> DEFINE lo == seed % (n - size)
  <2>1. lo \in Nat /\ lo < n - size
    <3>1. n - size \in Nat /\ n - size > 0
      BY <1>2
    <3> QED
      BY <3>1
  <2>2. r = <<lo, lo + size>>
    BY <1>2 DEF window_prompt_range
  <2>3. r # NO_RANGE /\ r[1] = lo /\ r[2] = lo + size
    BY <2>2, EmptySeq DEF NO_RANGE
  <2> HIDE DEF r, lo
  <2>4. Slice(r, n) = lo..(lo + size - 1)
    BY <1>2, <2>1, <2>3 DEF Slice
  <2>5. Cardinality(lo..(lo + size - 1)) = size
    <3>1. lo \in Int /\ lo + size - 1 \in Int /\ ~ (lo > lo + size - 1)
      BY <2>1
    <3>2. Cardinality(lo..(lo + size - 1)) =
            IF lo > lo + size - 1 THEN 0 ELSE (lo + size - 1) - lo + 1
      BY <3>1, FS_Interval
    <3> QED
      BY <2>1, <3>1, <3>2
  <2>6. Min({size, n}) \in {size, n} /\ Min({size, n}) <= n /\ Min({size, n}) <= size
    BY MinOfTwo
  <2>7. Min({size, n}) = size
    BY <1>2, <2>6
  <2> QED
    BY <2>4, <2>5, <2>7 DEF r
<1> QED
  BY <1>1, <1>2

LEMMA AlgorithmsInit == ASSUME AlgorithmsAssumption PROVE TopicInit => AlgorithmsInv
<1> SUFFICES ASSUME TopicInit PROVE AlgorithmsInv
  OBVIOUS
<1>1. submissions = <<>> /\ list = <<>>
  BY DEF TopicInit, StillBatch
<1>2. draw.eligible \subseteq 0..(Universe - 1) /\ draw.prompt = NoPrompt
  <2>1. CASE draw = NoDraw
    BY <2>1 DEF NoDraw, AlgorithmsAssumption
  <2>2. CASE draw \in Draws
    <3> DEFINE All == SUBSET (0..(Universe - 1))
               slices == {_active_prompt_range(armed, seed, Universe, size) :
                            armed \in BOOLEAN, seed \in 0..Universe, size \in 1..(Universe + 1)}
    <3>1. Draws = {[eligible |-> e, cooldown |-> c, prompt_range |-> r, prompt |-> NoPrompt] :
                         e \in All \ {{}}, c \in All, r \in slices}
      BY DEF Draws
    <3> HIDE DEF slices, All
    <3>2. PICK e \in All, c \in All, r \in slices :
            draw = [eligible |-> e, cooldown |-> c, prompt_range |-> r, prompt |-> NoPrompt]
      BY ONLY <2>2, <3>1
    <3> QED
      BY <3>2 DEF All
  <2> QED
    BY <2>1, <2>2 DEF TopicInit
<1> QED
  BY <1>1, <1>2 DEF AlgorithmsInv

LEMMA AlgorithmsStep == AlgorithmsInv /\ [TopicNext]_(topic_vars) => AlgorithmsInv'
<1> SUFFICES ASSUME AlgorithmsInv, [TopicNext]_(topic_vars) PROVE AlgorithmsInv'
  OBVIOUS
<1>1. CASE Arrive
  BY <1>1 DEF AlgorithmsInv, Arrive
<1>2. CASE AddRollout
  BY <1>2 DEF AlgorithmsInv, AddRollout
<1>3. CASE DrawOne
  <2>1. PICK p \in pick_prompt_idx(draw.eligible, draw.cooldown, draw.prompt_range, Universe) :
          draw' = [draw EXCEPT !.prompt = p]
    BY <1>3 DEF DrawOne
  <2>2. /\ draw'.eligible = draw.eligible /\ draw'.cooldown = draw.cooldown
        /\ draw'.prompt_range = draw.prompt_range /\ draw'.prompt = p
    BY <2>1
  <2>3. UNCHANGED <<submissions, list>>
    BY <1>3 DEF DrawOne
  <2>4. p \in Slice(draw.prompt_range, Universe) \ draw.cooldown
    BY PicksFromSlice DEF AlgorithmsInv
  <2> QED
    BY <2>2, <2>3, <2>4 DEF AlgorithmsInv
<1>4. CASE UNCHANGED <<submissions, list, draw>>
  BY <1>4 DEF AlgorithmsInv
<1> QED
  BY <1>1, <1>2, <1>3, <1>4 DEF TopicNext, topic_vars, own_vars

\* LoopSelectsLeaders, for lists of any length: select_batch sorts them and loops,
\* and returns the leaders that a batch is made of by its definition.
THEOREM LoopsSelectLeaders == TopicSpec => []LoopSelectsLeaders
<1> USE AlgorithmsAssumption
<1>1. ASSUME AlgorithmsInv PROVE LoopSelectsLeaders
  <2> DEFINE S == Submission
  <2>1. /\ \A s \in S : s.arrived_at \in Int /\ s.digest \in Int
        /\ \A s, t \in S : s.arrived_at = t.arrived_at /\ s.digest = t.digest => s = t
    <3>1. \A s \in S : \E p \in 1..3, at \in 1..2, d \in 0..1 :
            s = [prompt_idx |-> p, arrived_at |-> at, digest |-> 2 * p + d]
      BY DEF Submission
    <3> HIDE DEF S
    <3>2. ASSUME NEW s \in S, NEW t \in S, s.arrived_at = t.arrived_at, s.digest = t.digest
          PROVE  s = t
      <4>1. PICK p \in 1..3, a \in 1..2, d \in 0..1 :
              s = [prompt_idx |-> p, arrived_at |-> a, digest |-> 2 * p + d]
        BY <3>1
      <4>2. PICK q \in 1..3, b \in 1..2, f \in 0..1 :
              t = [prompt_idx |-> q, arrived_at |-> b, digest |-> 2 * q + f]
        BY <3>1
      <4>3. a = b /\ 2 * p + d = 2 * q + f
        BY <3>2, <4>1, <4>2
      <4>4. p = q /\ d = f
        BY <4>3
      <4> QED
        BY <4>1, <4>2, <4>3, <4>4
    <3> QED
      BY <3>1, <3>2
  <2>2. submissions \in Seq(S) /\ Slots \in Nat
    BY <1>1 DEF AlgorithmsInv, AlgorithmsAssumption
  <2> HIDE DEF S
  <2> DEFINE ordered == Sorted(submissions)
             chosen == TakeFrom(ordered, Slots, CurrentWindow, cooldown_map)
  <2>3. ordered \in Seq(S) /\ InOrder(ordered) /\ ToSet(ordered) = ToSet(submissions)
    BY <2>1, <2>2, SortedInOrder
  <2> HIDE DEF ordered
  <2>4. /\ ToSet(chosen) = BatchOf(ToSet(ordered), Slots, CurrentWindow, cooldown_map)
        /\ \A i, j \in DOMAIN chosen : i < j => Before(chosen[i], chosen[j])
    BY <2>1, <2>2, <2>3, LoopTakesLeaders
  <2>5. select_batch(submissions, Slots, CurrentWindow, cooldown_map) = chosen
    BY DEF select_batch, TakeInOrder, ordered
  <2> HIDE DEF chosen
  <2> QED
    BY <2>3, <2>4, <2>5 DEF LoopSelectsLeaders
<1> QED
  BY <1>1, AlgorithmsInit, AlgorithmsStep, PTL DEF TopicSpec

\* PicksAreInRange, for environments of any size: what is drawn lies in the slice
\* that the validator enforces, and a slice lacks no prompt.
THEOREM DrawsAreInRange == TopicSpec => []PicksAreInRange
<1> USE AlgorithmsAssumption
<1>1. ASSUME AlgorithmsInv PROVE PicksAreInRange
  <2>1. Universe \in Nat \ {0}
    BY DEF AlgorithmsAssumption
  <2>2. ASSUME NEW size \in 1..(Universe + 1), NEW seed \in 0..Universe
        PROVE  Cardinality(Slice(window_prompt_range(seed, Universe, size), Universe))
                 = Min({size, Universe})
    <3>1. size \in Nat \ {0} /\ seed \in Nat
      BY <2>1
    <3> QED
      BY <2>1, <3>1, SliceSize
  <2>3. draw.prompt # NoPrompt =>
          draw.prompt \in Slice(draw.prompt_range, Universe) \ draw.cooldown
    BY <1>1 DEF AlgorithmsInv
  <2> QED
    BY <2>2, <2>3 DEF PicksAreInRange
<1> QED
  BY <1>1, AlgorithmsInit, AlgorithmsStep, PTL DEF TopicSpec

-----------------------------------------------------------------------------
(***************************************************************************)
(* Roots.  The loop of RootOf climbs the levels of a tree, and a root      *)
(* fixes each level below it, down to the leaves.                          *)
(***************************************************************************)
\* The next level, or the same if it is the root alone.
LevelAbove(level) == IF Len(level) = 1 THEN level ELSE Parents(level)

Climbs(f, leaves, k) == f[0] = leaves /\ \A i \in 1..k : f[i] = LevelAbove(f[i - 1])

LEMMA ClimbExists ==
  ASSUME NEW leaves, NEW k \in Nat
  PROVE  \E f : Climbs(f, leaves, k)
<1> DEFINE I == {n \in Nat : \E f : Climbs(f, leaves, n)}
<1>1. 0 \in I
  <2> DEFINE f == [i \in {0} |-> leaves]
  <2>1. Climbs(f, leaves, 0)
    BY DEF Climbs
  <2> QED
    BY <2>1
<1>2. ASSUME NEW n \in Nat, n \in I PROVE n + 1 \in I
  <2>1. PICK f : Climbs(f, leaves, n)
    BY <1>2
  <2> DEFINE g == [i \in 0..(n + 1) |-> IF i = n + 1 THEN LevelAbove(f[n]) ELSE f[i]]
  <2>2. g[0] = leaves
    BY <2>1 DEF Climbs
  <2>3. ASSUME NEW i \in 1..(n + 1) PROVE g[i] = LevelAbove(g[i - 1])
    <3>1. i \in 0..(n + 1) /\ i - 1 \in 0..(n + 1) /\ i - 1 # n + 1
      OBVIOUS
    <3>2. g[i - 1] = f[i - 1]
      BY <3>1
    <3>3. CASE i = n + 1
      <4>1. i - 1 = n
        BY <3>3
      <4> QED
        BY <3>1, <3>2, <3>3, <4>1
    <3>4. CASE i # n + 1
      <4>1. i \in 1..n
        BY <3>4
      <4>2. g[i] = f[i]
        BY <3>1, <3>4
      <4> QED
        BY <2>1, <3>2, <4>1, <4>2 DEF Climbs
    <3> QED
      BY <3>3, <3>4
  <2> HIDE DEF g
  <2>4. Climbs(g, leaves, n + 1)
    BY <2>2, <2>3 DEF Climbs
  <2> QED
    BY <2>4
<1>3. Nat \subseteq I
  <2> HIDE DEF I
  <2> QED
    BY <1>1, <1>2, NatSetInduction
<1> QED
  BY <1>3

\* The loop over the leaves takes as many steps up as there are leaves.
LEMMA RootIsTop ==
  ASSUME NEW leaves, NEW n \in Nat, DOMAIN leaves = 1..n, NEW f, Climbs(f, leaves, n)
  PROVE  RootOf(leaves) = f[n][1]
<1> DEFINE Body(g, T) == IF T = {} THEN leaves ELSE LevelAbove(g[T \ {Max(T)}])
           Satisfies(g) == g = [T \in SUBSET (1..n) |-> Body(g, T)]
           top == CHOOSE g : Satisfies(g)
           h == [T \in SUBSET (1..n) |-> f[Cardinality(T)]]
<1>1. ASSUME NEW T \in SUBSET (1..n) PROVE h[T] = Body(h, T)
  <2>1. IsFiniteSet(1..n) /\ Cardinality(1..n) = IF 1 > n THEN 0 ELSE n - 1 + 1
    BY FS_Interval
  <2>2. IsFiniteSet(T) /\ Cardinality(T) \in Nat /\ Cardinality(T) <= n
    <3>1. IsFiniteSet(T) /\ Cardinality(T) <= Cardinality(1..n)
      BY <2>1, FS_Subset
    <3> QED
      BY <2>1, <3>1, FS_CardinalityType
  <2>3. CASE T = {}
    BY <2>3, FS_EmptySet DEF Climbs
  <2>4. CASE T # {}
    <3>1. Max(T) \in T
      BY <2>4, MaxOfNumbers
    <3>2. Cardinality(T \ {Max(T)}) = Cardinality(T) - 1 /\ T \ {Max(T)} \in SUBSET (1..n)
      BY <2>2, <3>1, FS_RemoveElement
    <3>3. Cardinality(T) # 0
      BY <2>2, <2>4, FS_EmptySet
    <3>4. f[Cardinality(T)] = LevelAbove(f[Cardinality(T) - 1])
      BY <2>2, <3>3 DEF Climbs
    <3> QED
      BY <2>4, <3>2, <3>4
  <2> QED
    BY <2>3, <2>4
<1>2. Satisfies(h)
  <2>1. h = [T \in SUBSET (1..n) |-> h[T]]
    OBVIOUS
  <2> HIDE DEF h, Body
  <2> QED
    BY <1>1, <2>1
<1>3. Satisfies(top)
  <2> HIDE DEF Satisfies
  <2> QED
    BY <1>2
<1>4. RootOf(leaves) = top[1..n][1]
  BY DEF RootOf, FoldLeft, MapThenFoldSet, LevelAbove, Max
<1> HIDE DEF top, h
<1>5. \A T \in SUBSET (1..n) : top[T] = Body(top, T)
  BY <1>3
<1> HIDE DEF Satisfies
<1> DEFINE I == {i \in Nat : i <= n => top[1..i] = f[i]}
<1>6. 0 \in I
  <2>1. 1..0 = {} /\ {} \in SUBSET (1..n)
    OBVIOUS
  <2>2. top[{}] = leaves
    BY <1>5, <2>1
  <2> QED
    BY <2>1, <2>2 DEF Climbs
<1>7. ASSUME NEW i \in Nat, i \in I PROVE i + 1 \in I
  <2> SUFFICES ASSUME i + 1 <= n PROVE top[1..(i + 1)] = f[i + 1]
    OBVIOUS
  <2>1. i + 1 \in 1..n /\ (i + 1) - 1 = i /\ i <= n
    OBVIOUS
  <2>2. /\ Max(1..(i + 1)) = i + 1 /\ (1..(i + 1)) \ {i + 1} = 1..((i + 1) - 1)
        /\ 1..(i + 1) # {} /\ 1..(i + 1) \in SUBSET (1..n)
    BY <2>1, MaxOfInterval
  <2>3. top[1..(i + 1)] = LevelAbove(top[1..i])
    BY <1>5, <2>1, <2>2
  <2>4. top[1..i] = f[i]
    BY <1>7, <2>1
  <2> QED
    BY <2>1, <2>3, <2>4 DEF Climbs
<1>8. Nat \subseteq I
  <2> HIDE DEF I
  <2> QED
    BY <1>6, <1>7, NatSetInduction
<1>9. top[1..n] = f[n]
  BY <1>8
<1> QED
  BY <1>4, <1>9

\* A level of q nodes that differ.
IsLevel(level, q) ==
  /\ q \in Nat \ {0} /\ Len(level) = q
  /\ level = [i \in 1..q |-> level[i]]
  /\ \A i, j \in 1..q : level[i] = level[j] => i = j

LEMMA NodesDiffer == \A a, b, c, d : Node(a, b) = Node(c, d) => a = c /\ b = d
BY DEF Node

\* The level above one of q nodes has half of them, rounded up.
LEMMA ParentsOfLevel ==
  ASSUME NEW level, NEW q, IsLevel(level, q), q # 1
  PROVE  LET p == (q + 1) \div 2
             up == Parents(level)
         IN  /\ IsLevel(up, p) /\ p < q /\ q \in {2 * p - 1, 2 * p}
             /\ \A i \in 1..p : /\ 2 * i - 1 \in 1..q
                                /\ up[i] = Node(level[2 * i - 1],
                                             IF 2 * i <= q THEN level[2 * i] ELSE level[2 * i - 1])
<1> DEFINE p == (q + 1) \div 2
           up == Parents(level)
           Of(i) == Node(level[2 * i - 1], IF 2 * i <= q THEN level[2 * i] ELSE level[2 * i - 1])
<1>1. q \in Nat /\ q >= 2 /\ Len(level) = q
  BY DEF IsLevel
<1>2. p \in Nat \ {0} /\ p < q /\ q \in {2 * p - 1, 2 * p}
  BY <1>1
<1>3. up = [i \in 1..p |-> Of(i)]
  BY <1>1 DEF Parents
<1> HIDE DEF p, up
<1>4. ASSUME NEW i \in 1..p PROVE 2 * i - 1 \in 1..q
  BY <1>1, <1>2
<1>5. \A i \in 1..p : up[i] = Of(i)
  BY <1>3
<1>6. Len(up) = p
  <2>1. [i \in 1..p |-> Of(i)] \in [1..p -> {Of(i) : i \in 1..p}]
    OBVIOUS
  <2> HIDE DEF Of
  <2>2. p \in Nat
    BY <1>2
  <2>3. Len([i \in 1..p |-> Of(i)]) = p
    BY <2>1, <2>2, FunctionIsSeq
  <2> QED
    BY <1>3, <2>3
<1>7. up = [i \in 1..p |-> up[i]]
  BY <1>3
<1>8. ASSUME NEW i \in 1..p, NEW j \in 1..p, up[i] = up[j] PROVE i = j
  <2>1. level[2 * i - 1] = level[2 * j - 1]
    BY <1>5, <1>8, NodesDiffer
  <2>2. 2 * i - 1 = 2 * j - 1
    BY <1>4, <2>1 DEF IsLevel
  <2> QED
    BY <1>2, <2>2
<1>9. IsLevel(up, p)
  BY <1>2, <1>6, <1>7, <1>8 DEF IsLevel
<1> QED
  BY <1>2, <1>4, <1>5, <1>9 DEF p, up

\* A list of leaves that differ, none of which is a node.
IsTree(leaves, n) ==
  IsLevel(leaves, n) /\ \A i \in 1..n : \A a, b : leaves[i] # Node(a, b)

\* Every level has fewer nodes than the one below, until there is one.
LEMMA LevelsShrink ==
  ASSUME NEW leaves, NEW n, IsTree(leaves, n), NEW k \in Nat, NEW f, Climbs(f, leaves, k)
  PROVE  \A i \in 0..k : \E q \in Nat : IsLevel(f[i], q) /\ (q = 1 \/ q + i <= n)
<1> DEFINE Fits(i) == \E q \in Nat : IsLevel(f[i], q) /\ (q = 1 \/ q + i <= n)
           I == {i \in Nat : i <= k => Fits(i)}
<1>1. 0 \in I
  <2>1. f[0] = leaves /\ IsLevel(leaves, n) /\ n \in Nat
    BY DEF Climbs, IsTree, IsLevel
  <2> QED
    BY <2>1
<1>2. ASSUME NEW i \in Nat, i \in I PROVE i + 1 \in I
  <2> SUFFICES ASSUME i + 1 <= k PROVE Fits(i + 1)
    OBVIOUS
  <2>1. PICK q \in Nat : IsLevel(f[i], q) /\ (q = 1 \/ q + i <= n)
    BY <1>2
  <2>2. f[i + 1] = LevelAbove(f[i])
    <3>1. i + 1 \in 1..k /\ (i + 1) - 1 = i
      OBVIOUS
    <3> QED
      BY <3>1 DEF Climbs
  <2>3. CASE q = 1
    <3>1. f[i + 1] = f[i]
      BY <2>1, <2>2, <2>3 DEF IsLevel, LevelAbove
    <3> QED
      BY <2>1, <2>3, <3>1
  <2>4. CASE q # 1
    <3>1. f[i + 1] = Parents(f[i])
      BY <2>1, <2>2, <2>4 DEF IsLevel, LevelAbove
    <3>2. PICK p : IsLevel(Parents(f[i]), p) /\ p < q
      BY <2>1, <2>4, ParentsOfLevel
    <3>3. p \in Nat /\ n \in Nat
      BY <3>2 DEF IsLevel, IsTree
    <3>4. p + (i + 1) <= n
      BY <2>1, <2>4, <3>2, <3>3
    <3> QED
      BY <3>1, <3>2, <3>3, <3>4
  <2> QED
    BY <2>3, <2>4
<1>3. Nat \subseteq I
  <2> HIDE DEF I
  <2> QED
    BY <1>1, <1>2, NatSetInduction
<1> QED
  BY <1>3

\* The levels up to i have each more than one node below them.
Grown(f, i) == \A j \in 0..(i - 1) : Len(f[j]) # 1

\* The first node of a level that is grown is above the one of the level below.
LEMMA FirstNode ==
  ASSUME NEW leaves, NEW n, IsTree(leaves, n), NEW k \in Nat, NEW f, Climbs(f, leaves, k),
         NEW i \in Nat, i + 1 <= k, Grown(f, i + 1)
  PROVE  Grown(f, i) /\ \E b : f[i + 1][1] = Node(f[i][1], b)
<1>1. Grown(f, i)
  BY DEF Grown
<1>2. PICK q \in Nat : IsLevel(f[i], q)
  BY LevelsShrink
<1>3. Len(f[i]) # 1
  BY DEF Grown
<1>4. q # 1
  BY <1>2, <1>3 DEF IsLevel
<1>5. f[i + 1] = Parents(f[i])
  <2>1. i + 1 \in 1..k /\ (i + 1) - 1 = i
    OBVIOUS
  <2> QED
    BY <1>3, <2>1 DEF Climbs, LevelAbove
<1> DEFINE p == (q + 1) \div 2
           other(j) == IF 2 * j <= q THEN f[i][2 * j] ELSE f[i][2 * j - 1]
<1>6. /\ IsLevel(Parents(f[i]), p)
      /\ \A j \in 1..p : Parents(f[i])[j] = Node(f[i][2 * j - 1], other(j))
  BY <1>2, <1>4, ParentsOfLevel
<1> HIDE DEF p, other
<1>7. 1 \in 1..p /\ 2 * 1 - 1 = 1
  BY <1>6 DEF IsLevel
<1>8. Parents(f[i])[1] = Node(f[i][1], other(1))
  BY <1>6, <1>7
<1> QED
  BY <1>1, <1>5, <1>8

\* Trees of different height have different roots.
LEMMA HeightsDiffer ==
  ASSUME NEW l, NEW n, IsTree(l, n), NEW m, NEW o, IsTree(m, o), NEW k \in Nat,
         NEW f, Climbs(f, l, k), NEW g, Climbs(g, m, k)
  PROVE  \A i, j \in 0..k : i < j /\ Grown(f, i) /\ Grown(g, j) => f[i][1] # g[j][1]
<1> DEFINE I == {i \in Nat : \A j \in 0..k : i < j /\ Grown(f, i) /\ Grown(g, j) => f[i][1] # g[j][1]}
<1>1. 0 \in I
  <2> SUFFICES ASSUME NEW j \in 0..k, 0 < j, Grown(g, j) PROVE f[0][1] # g[j][1]
    OBVIOUS
  <2>1. j - 1 \in Nat /\ (j - 1) + 1 = j /\ j <= k
    OBVIOUS
  <2>2. \E b : g[(j - 1) + 1][1] = Node(g[j - 1][1], b)
    BY <2>1, FirstNode
  <2>3. 1 \in 1..n /\ f[0] = l
    BY DEF IsTree, IsLevel, Climbs
  <2> QED
    BY <2>1, <2>2, <2>3 DEF IsTree
<1>2. ASSUME NEW i \in Nat, i \in I PROVE i + 1 \in I
  <2> SUFFICES ASSUME NEW j \in 0..k, i + 1 < j, Grown(f, i + 1), Grown(g, j), f[i + 1][1] = g[j][1]
               PROVE  FALSE
    OBVIOUS
  <2>1. j - 1 \in Nat /\ (j - 1) + 1 = j /\ j <= k /\ i + 1 <= k /\ j - 1 \in 0..k /\ i < j - 1
    OBVIOUS
  <2>2. Grown(g, j - 1) /\ \E b : g[(j - 1) + 1][1] = Node(g[j - 1][1], b)
    BY <2>1, FirstNode
  <2>3. Grown(f, i) /\ \E b : f[i + 1][1] = Node(f[i][1], b)
    BY <2>1, FirstNode
  <2>4. f[i][1] = g[j - 1][1]
    <3>1. PICK a : g[j][1] = Node(g[j - 1][1], a)
      BY <2>1, <2>2
    <3>2. PICK b : f[i + 1][1] = Node(f[i][1], b)
      BY <2>3
    <3>3. Node(f[i][1], b) = Node(g[j - 1][1], a)
      BY <3>1, <3>2
    <3> QED
      BY <3>3, NodesDiffer
  <2> QED
    BY <1>2, <2>1, <2>2, <2>3, <2>4
<1>3. Nat \subseteq I
  <2> HIDE DEF I
  <2> QED
    BY <1>1, <1>2, NatSetInduction
<1> QED
  BY <1>3

\* Above the top of a tree nothing changes.
LEMMA TreeSettles ==
  ASSUME NEW l, NEW n, IsTree(l, n), NEW k \in Nat, NEW f, Climbs(f, l, k)
  PROVE  \A i \in 0..k : \E j \in 0..i : Grown(f, j) /\ f[i] = f[j] /\ (j = i \/ Len(f[i]) = 1)
<1> DEFINE Stands(i) == \E j \in 0..i : Grown(f, j) /\ f[i] = f[j] /\ (j = i \/ Len(f[i]) = 1)
           I == {i \in Nat : i <= k => Stands(i)}
<1>1. 0 \in I
  <2>1. 0 \in 0..0 /\ Grown(f, 0)
    BY DEF Grown
  <2> QED
    BY <2>1
<1>2. ASSUME NEW i \in Nat, i \in I PROVE i + 1 \in I
  <2> SUFFICES ASSUME i + 1 <= k PROVE Stands(i + 1)
    OBVIOUS
  <2>1. PICK j \in 0..i : Grown(f, j) /\ f[i] = f[j] /\ (j = i \/ Len(f[i]) = 1)
    BY <1>2
  <2>2. f[i + 1] = LevelAbove(f[i])
    <3>1. i + 1 \in 1..k /\ (i + 1) - 1 = i
      OBVIOUS
    <3> QED
      BY <3>1 DEF Climbs
  <2>3. CASE Len(f[i]) = 1
    <3>1. f[i + 1] = f[j] /\ Len(f[i + 1]) = 1 /\ j \in 0..(i + 1)
      BY <2>1, <2>2, <2>3 DEF LevelAbove
    <3> QED
      BY <2>1, <3>1
  <2>4. CASE Len(f[i]) # 1
    <3>1. j = i
      BY <2>1, <2>4
    <3>2. Grown(f, i + 1)
      <4> SUFFICES ASSUME NEW h \in 0..((i + 1) - 1) PROVE Len(f[h]) # 1
        BY DEF Grown
      <4>1. h = i \/ h \in 0..(i - 1)
        OBVIOUS
      <4> QED
        BY <2>1, <2>4, <3>1, <4>1 DEF Grown
    <3>3. i + 1 \in 0..(i + 1)
      OBVIOUS
    <3> QED
      BY <3>2, <3>3
  <2> QED
    BY <2>3, <2>4
<1>3. Nat \subseteq I
  <2> HIDE DEF I
  <2> QED
    BY <1>1, <1>2, NatSetInduction
<1> QED
  BY <1>3

\* A level that is one of nodes has no level above that is alone already in
\* another tree.
LEMMA AloneOrNot ==
  ASSUME NEW l, NEW n, IsTree(l, n), NEW m, NEW o, IsTree(m, o), NEW k \in Nat,
         NEW f, Climbs(f, l, k), NEW g, Climbs(g, m, k),
         NEW i \in Nat, i + 1 <= k, f[i + 1] = g[i + 1], Len(f[i]) = 1
  PROVE  Len(g[i]) = 1
<1> SUFFICES ASSUME Len(g[i]) # 1 PROVE FALSE
  OBVIOUS
<1>1. i \in 0..k /\ i + 1 \in 0..k /\ i + 1 \in 1..k /\ (i + 1) - 1 = i
  OBVIOUS
<1>2. Grown(g, i + 1)
  <2>1. PICK j \in 0..i : Grown(g, j) /\ (j = i \/ Len(g[i]) = 1)
    BY <1>1, TreeSettles
  <2>2. Grown(g, i)
    BY <2>1
  <2> SUFFICES ASSUME NEW h \in 0..((i + 1) - 1) PROVE Len(g[h]) # 1
    BY DEF Grown
  <2>3. h = i \/ h \in 0..(i - 1)
    OBVIOUS
  <2> QED
    BY <2>2, <2>3 DEF Grown
<1>3. PICK j \in 0..i : Grown(f, j) /\ f[i] = f[j]
  BY <1>1, TreeSettles
<1>4. f[i + 1] = f[j]
  BY <1>1, <1>3 DEF Climbs, LevelAbove
<1>5. j \in 0..k /\ j < i + 1
  BY <1>1
<1>6. f[j][1] # g[i + 1][1]
  BY <1>1, <1>2, <1>3, <1>5, HeightsDiffer
<1> QED
  BY <1>4, <1>6

\* Two levels whose parents are the same are the same.
LEMMA ParentsFixLevel ==
  ASSUME NEW x, NEW q, IsLevel(x, q), q # 1, NEW y, NEW r, IsLevel(y, r), r # 1,
         Parents(x) = Parents(y), q <= r
  PROVE  x = y
<1> DEFINE p == (q + 1) \div 2
           s == (r + 1) \div 2
           up == Parents(x)
           otherx(i) == IF 2 * i <= q THEN x[2 * i] ELSE x[2 * i - 1]
           othery(i) == IF 2 * i <= r THEN y[2 * i] ELSE y[2 * i - 1]
<1>1. /\ IsLevel(up, p) /\ q \in {2 * p - 1, 2 * p}
      /\ \A i \in 1..p : up[i] = Node(x[2 * i - 1], otherx(i))
  BY ParentsOfLevel
<1>2. /\ IsLevel(up, s) /\ r \in {2 * s - 1, 2 * s}
      /\ \A i \in 1..s : up[i] = Node(y[2 * i - 1], othery(i))
  BY ParentsOfLevel
<1> HIDE DEF p, s, up, otherx, othery
<1>3. p = s /\ p \in Nat \ {0} /\ q \in Nat /\ r \in Nat
  BY <1>1, <1>2 DEF IsLevel
<1>4. \A i \in 1..p : x[2 * i - 1] = y[2 * i - 1] /\ otherx(i) = othery(i)
  <2> SUFFICES ASSUME NEW i \in 1..p PROVE x[2 * i - 1] = y[2 * i - 1] /\ otherx(i) = othery(i)
    OBVIOUS
  <2>1. Node(x[2 * i - 1], otherx(i)) = Node(y[2 * i - 1], othery(i))
    BY <1>1, <1>2, <1>3
  <2> QED
    BY <2>1, NodesDiffer
<1>5. q = r
  <2> SUFFICES ASSUME q # r PROVE FALSE
    OBVIOUS
  <2>1. q = 2 * p - 1 /\ r = 2 * p /\ p \in 1..p
    BY <1>1, <1>2, <1>3
  <2>2. otherx(p) = x[2 * p - 1] /\ othery(p) = y[2 * p]
    BY <1>3, <2>1 DEF otherx, othery
  <2>3. y[2 * p] = y[2 * p - 1]
    BY <1>4, <2>1, <2>2
  <2>4. 2 * p \in 1..r /\ 2 * p - 1 \in 1..r
    BY <1>3, <2>1
  <2>5. 2 * p = 2 * p - 1
    BY <2>3, <2>4 DEF IsLevel
  <2> QED
    BY <1>3, <2>5
<1>6. ASSUME NEW j \in 1..q PROVE x[j] = y[j]
  <2>1. CASE \E i \in 1..p : j = 2 * i - 1
    BY <1>4, <2>1
  <2>2. CASE \E i \in 1..p : j = 2 * i
    <3>1. PICK i \in 1..p : j = 2 * i
      BY <2>2
    <3>2. otherx(i) = x[j] /\ othery(i) = y[j]
      BY <1>3, <1>5, <3>1 DEF otherx, othery
    <3> QED
      BY <1>4, <3>2
  <2>3. (\E i \in 1..p : j = 2 * i - 1) \/ (\E i \in 1..p : j = 2 * i)
    <3>1. PICK i \in Nat : i = (j + 1) \div 2 /\ (j = 2 * i - 1 \/ j = 2 * i)
      BY <1>3
    <3>2. i \in 1..p
      BY <1>1, <1>3, <3>1
    <3> QED
      BY <3>1, <3>2
  <2> QED
    BY <2>1, <2>2, <2>3
<1> QED
  BY <1>5, <1>6 DEF IsLevel

\* Level by level downwards.
LEMMA LevelBelow ==
  ASSUME NEW l, NEW n, IsTree(l, n), NEW m, NEW o, IsTree(m, o), NEW k \in Nat,
         NEW f, Climbs(f, l, k), NEW g, Climbs(g, m, k),
         NEW i \in Nat, i + 1 <= k, f[i + 1] = g[i + 1]
  PROVE  f[i] = g[i]
<1>1. i \in 0..k /\ i + 1 \in 1..k /\ (i + 1) - 1 = i
  OBVIOUS
<1>2. f[i + 1] = LevelAbove(f[i]) /\ g[i + 1] = LevelAbove(g[i])
  BY <1>1 DEF Climbs
<1>3. Len(f[i]) = 1 <=> Len(g[i]) = 1
  BY AloneOrNot
<1>4. CASE Len(f[i]) = 1
  BY <1>2, <1>3, <1>4 DEF LevelAbove
<1>5. CASE Len(f[i]) # 1
  <2>1. PICK q \in Nat, r \in Nat : IsLevel(f[i], q) /\ IsLevel(g[i], r)
    BY <1>1, LevelsShrink
  <2>2. q # 1 /\ r # 1
    BY <1>3, <1>5, <2>1 DEF IsLevel
  <2>3. Parents(f[i]) = Parents(g[i])
    BY <1>2, <1>3, <1>5 DEF LevelAbove
  <2>4. q <= r \/ r <= q
    OBVIOUS
  <2> QED
    BY <2>1, <2>2, <2>3, <2>4, ParentsFixLevel
<1> QED
  BY <1>4, <1>5

\* At the height of as many levels as there are leaves, or more, there is the root.
LEMMA RootAbove ==
  ASSUME NEW l, NEW n, IsTree(l, n), NEW k \in Nat, n <= k, NEW f, Climbs(f, l, k)
  PROVE  f[k] = [i \in 1..1 |-> RootOf(l)]
<1>1. n \in Nat \ {0} /\ DOMAIN l = 1..n
  BY DEF IsTree, IsLevel
<1>2. Climbs(f, l, n)
  BY <1>1 DEF Climbs
<1>3. RootOf(l) = f[n][1]
  BY <1>1, <1>2, RootIsTop
<1>4. ASSUME NEW i \in n..k PROVE IsLevel(f[i], 1)
  <2>1. PICK q \in Nat : IsLevel(f[i], q) /\ (q = 1 \/ q + i <= n)
    BY <1>1, LevelsShrink
  <2>2. q # 0
    BY <2>1 DEF IsLevel
  <2> QED
    BY <1>1, <2>1, <2>2
<1> DEFINE I == {d \in Nat : n + d <= k => f[n + d] = f[n]}
<1>5. 0 \in I
  BY <1>1
<1>6. ASSUME NEW d \in Nat, d \in I PROVE d + 1 \in I
  <2> SUFFICES ASSUME n + (d + 1) <= k PROVE f[n + (d + 1)] = f[n]
    OBVIOUS
  <2>1. n + d \in n..k /\ n + (d + 1) \in 1..k /\ (n + (d + 1)) - 1 = n + d
    BY <1>1
  <2>2. f[n + (d + 1)] = LevelAbove(f[n + d])
    BY <2>1 DEF Climbs
  <2>3. IsLevel(f[n + d], 1)
    BY <1>4, <2>1
  <2>4. Len(f[n + d]) = 1
    BY <2>3 DEF IsLevel
  <2>5. n + d <= k
    BY <1>1
  <2>6. f[n + d] = f[n]
    BY <1>6, <2>5
  <2> QED
    BY <2>2, <2>4, <2>6 DEF LevelAbove
<1>7. Nat \subseteq I
  <2> HIDE DEF I
  <2> QED
    BY <1>5, <1>6, NatSetInduction
<1>8. f[k] = f[n]
  <2>1. k - n \in Nat /\ n + (k - n) = k
    BY <1>1
  <2>2. k - n \in I
    BY <1>7, <2>1
  <2> QED
    BY <2>1, <2>2
<1>9. f[k] = [i \in 1..1 |-> f[k][i]]
  BY <1>1, <1>4 DEF IsLevel
<1>10. [i \in 1..1 |-> f[k][i]] = [i \in 1..1 |-> RootOf(l)]
  BY <1>3, <1>8
<1> QED
  BY <1>9, <1>10

\* One root, one list of leaves, for lists of any two lengths.
THEOREM RootFixesLeaves ==
  ASSUME NEW l, NEW n, IsTree(l, n), NEW m, NEW o, IsTree(m, o), RootOf(l) = RootOf(m)
  PROVE  l = m
<1>1. n \in Nat /\ o \in Nat
  BY DEF IsTree, IsLevel
<1>2. PICK k \in Nat : k = n + o
  BY <1>1
<1>3. PICK f : Climbs(f, l, k)
  BY ClimbExists
<1>4. PICK g : Climbs(g, m, k)
  BY ClimbExists
<1>5. f[k] = g[k]
  <2>1. n <= k /\ o <= k
    BY <1>1, <1>2
  <2> QED
    BY <1>3, <1>4, <2>1, RootAbove
<1> DEFINE I == {d \in Nat : d <= k => f[k - d] = g[k - d]}
<1>6. 0 \in I
  <2>1. k - 0 = k
    OBVIOUS
  <2> QED
    BY <1>5, <2>1
<1>7. ASSUME NEW d \in Nat, d \in I PROVE d + 1 \in I
  <2> SUFFICES ASSUME d + 1 <= k PROVE f[k - (d + 1)] = g[k - (d + 1)]
    OBVIOUS
  <2>1. PICK i \in Nat : i = k - (d + 1) /\ i + 1 = k - d /\ i + 1 <= k
    OBVIOUS
  <2>2. f[i + 1] = g[i + 1]
    BY <1>7, <2>1
  <2>3. f[i] = g[i]
    BY <1>3, <1>4, <2>1, <2>2, LevelBelow
  <2> QED
    BY <2>1, <2>3
<1>8. Nat \subseteq I
  <2> HIDE DEF I
  <2> QED
    BY <1>6, <1>7, NatSetInduction
<1>9. f[0] = g[0]
  <2>1. k \in I /\ k - k = 0
    BY <1>8
  <2> QED
    BY <2>1
<1> QED
  BY <1>3, <1>4, <1>9 DEF Climbs

\* The leaves of a list that is signed for the randomness 0, of both versions, and
\* its rollouts.
OldLeaves(l) ==
  [i \in DOMAIN l |-> <<"leaf", i, l[i].tokens, <<l[i].reward, 0, l[i].signature>>>>]
NewLeaves(l) ==
  [i \in DOMAIN l |->
     <<"leaf", i, l[i].tokens, <<l[i].reward, 0, l[i].signature>>, Environments[1]>>]
SignedRollouts(l) ==
  [i \in DOMAIN l |-> [tokens |-> l[i].tokens, claim |-> <<l[i].reward, 0, l[i].signature>>,
                       env_name |-> Environments[1]]]
Signed(l, wire_v2) ==
  _finalize_pool_entry([rollouts |-> l, env_name |-> Environments[1]], 0,
                           [i \in DOMAIN l |-> l[i].signature], wire_v2)

LEMMA EntryParts ==
  ASSUME NEW e, NEW s, NEW r, e = [rollouts |-> s, merkle_root |-> r]
  PROVE  e.rollouts = s /\ e.merkle_root = r
OBVIOUS

LEMMA SignedParts ==
  ASSUME NEW l
  PROVE  /\ Signed(l, TRUE).rollouts = SignedRollouts(l)
         /\ Signed(l, FALSE).merkle_root = RootOf(OldLeaves(l))
         /\ Signed(l, TRUE).merkle_root = RootOf(NewLeaves(l))
         /\ compute_rollouts_merkle_root(SignedRollouts(l)) = RootOf(NewLeaves(l))
<1> DEFINE S == SignedRollouts(l)
<1>1. \A v \in BOOLEAN : Signed(l, v) = [rollouts |-> S, merkle_root |-> submission_merkle_root(S, v)]
  BY DEF Signed, SignedRollouts, _finalize_pool_entry
<1>2. DOMAIN S = DOMAIN l /\ \A i \in DOMAIN l : /\ S[i].tokens = l[i].tokens
                                                 /\ S[i].claim = <<l[i].reward, 0, l[i].signature>>
                                                 /\ S[i].env_name = Environments[1]
  BY DEF SignedRollouts
<1> HIDE DEF S
<1>3. [i \in DOMAIN S |-> Leaf(S, i)] = NewLeaves(l)
  BY <1>2 DEF NewLeaves, Leaf
<1>4. [i \in DOMAIN S |-> <<"leaf", i, S[i].tokens, S[i].claim>>] = OldLeaves(l)
  BY <1>2 DEF OldLeaves
<1>5. compute_rollouts_merkle_root(S) = RootOf(NewLeaves(l))
  BY <1>3 DEF compute_rollouts_merkle_root
<1>6. _compute_merkle_root(S) = RootOf(OldLeaves(l))
  BY <1>4 DEF _compute_merkle_root
<1>7. Signed(l, TRUE) = [rollouts |-> S, merkle_root |-> RootOf(NewLeaves(l))]
  BY <1>1, <1>5 DEF submission_merkle_root
<1>8. Signed(l, FALSE) = [rollouts |-> S, merkle_root |-> RootOf(OldLeaves(l))]
  BY <1>1, <1>6 DEF submission_merkle_root
<1>9. Signed(l, TRUE).rollouts = S /\ Signed(l, TRUE).merkle_root = RootOf(NewLeaves(l))
  BY <1>7, EntryParts
<1>10. Signed(l, FALSE).merkle_root = RootOf(OldLeaves(l))
  BY <1>8, EntryParts
<1> QED
  BY <1>5, <1>9, <1>10 DEF S

\* The leaves of a list that is not empty are those of a tree, and of no other list.
LEMMA LeavesFixList ==
  ASSUME AlgorithmsAssumption, NEW l \in Seq(Leaves), l # <<>>
  PROVE  /\ IsTree(OldLeaves(l), Len(l)) /\ IsTree(NewLeaves(l), Len(l))
         /\ \A m \in Seq(Leaves) : OldLeaves(l) = OldLeaves(m) \/ NewLeaves(l) = NewLeaves(m) => l = m
<1>1. Len(l) \in Nat \ {0} /\ DOMAIN l = 1..Len(l)
  BY EmptySeq, LenProperties
<1> DEFINE Tree(t) == /\ t = [i \in 1..Len(l) |-> t[i]]
                      /\ \A i \in 1..Len(l) : t[i][1] = "leaf" /\ t[i][2] = i
<1>2. ASSUME NEW t, Tree(t) PROVE IsTree(t, Len(l))
  <2>1. Len(t) = Len(l)
    <3>1. t \in [1..Len(l) -> {t[i] : i \in 1..Len(l)}]
      BY <1>2
    <3>2. Len(l) \in Nat
      BY <1>1
    <3> QED
      BY <3>1, <3>2, FunctionIsSeq
  <2>2. \A i, j \in 1..Len(l) : t[i] = t[j] => i = j
    BY <1>2
  <2>3. \A i \in 1..Len(l) : \A a, b : t[i] # Node(a, b)
    <3>1. \A a, b : Node(a, b)[1] = "node"
      BY DEF Node
    <3>2. "node" # "leaf"
      OBVIOUS
    <3> QED
      BY <1>2, <3>1, <3>2
  <2>4. t = [i \in 1..Len(l) |-> t[i]]
    BY <1>2
  <2> QED
    BY <1>1, <2>1, <2>2, <2>3, <2>4 DEF IsTree, IsLevel
<1>3. Tree(OldLeaves(l)) /\ Tree(NewLeaves(l))
  BY <1>1 DEF OldLeaves, NewLeaves
<1>4. ASSUME NEW m \in Seq(Leaves), OldLeaves(l) = OldLeaves(m) \/ NewLeaves(l) = NewLeaves(m)
      PROVE  l = m
  <2>1. DOMAIN l = DOMAIN m
    BY <1>4 DEF OldLeaves, NewLeaves
  <2>2. ASSUME NEW i \in DOMAIN l PROVE l[i] = m[i]
    <3> DEFINE c == <<l[i].reward, 0, l[i].signature>>
               d == <<m[i].reward, 0, m[i].signature>>
    <3>1. l[i].tokens = m[i].tokens /\ c = d
      <4>1. CASE OldLeaves(l) = OldLeaves(m)
        <5>1. OldLeaves(l)[i] = <<"leaf", i, l[i].tokens, c>> /\ OldLeaves(m)[i] = <<"leaf", i, m[i].tokens, d>>
          BY <2>1 DEF OldLeaves
        <5> HIDE DEF c, d
        <5> QED
          BY <4>1, <5>1
      <4>2. CASE NewLeaves(l) = NewLeaves(m)
        <5>1. /\ NewLeaves(l)[i] = <<"leaf", i, l[i].tokens, c, Environments[1]>>
              /\ NewLeaves(m)[i] = <<"leaf", i, m[i].tokens, d, Environments[1]>>
          BY <2>1 DEF NewLeaves
        <5> HIDE DEF c, d
        <5> QED
          BY <4>2, <5>1
      <4> QED
        BY <1>4, <4>1, <4>2
    <3>2. l[i].reward = m[i].reward /\ l[i].signature = m[i].signature
      BY <3>1
    <3>3. l[i] \in Leaves /\ m[i] \in Leaves
      BY <2>1
    <3> QED
      BY <3>1, <3>2, <3>3 DEF AlgorithmsAssumption
  <2>3. l = [i \in DOMAIN l |-> l[i]] /\ m = [i \in DOMAIN m |-> m[i]]
    OBVIOUS
  <2> QED
    BY <2>1, <2>2, <2>3
<1> QED
  BY <1>2, <1>3, <1>4

\* RootBindsGroup, for lists of any length over any leaves: signed roots are equal
\* only for the same list, in both versions of the wire, and selection digests
\* exactly for the same tokens.
THEOREM RootsBindGroups == TopicSpec => []RootBindsGroup
<1> USE AlgorithmsAssumption
<1>1. ASSUME AlgorithmsInv PROVE RootBindsGroup
  <2> DEFINE Bound(other) ==
               /\ Signed(list, FALSE).merkle_root = Signed(other, FALSE).merkle_root <=> list = other
               /\ submission_merkle_matches(Signed(list, TRUE).merkle_root, Signed(other, TRUE).rollouts)
                    <=> list = other
               /\ compute_rollouts_selection_digest(Signed(list, TRUE).rollouts)
                    = compute_rollouts_selection_digest(Signed(other, TRUE).rollouts)
                  <=> [i \in DOMAIN list |-> list[i].tokens] = [i \in DOMAIN other |-> other[i].tokens]
  <2>0. RootBindsGroup <=>
          (list # <<>> => \A other \in UNION {[1..n -> Leaves] : n \in 1..MaxLeaves} : Bound(other))
    BY DEF RootBindsGroup, Signed
  <2> SUFFICES ASSUME list # <<>>, NEW n \in 1..MaxLeaves, NEW other \in [1..n -> Leaves]
               PROVE  Bound(other)
    <3> HIDE DEF Bound
    <3> QED
      BY <2>0
  <2>1. list \in Seq(Leaves)
    BY <1>1 DEF AlgorithmsInv
  <2>2. other \in Seq(Leaves) /\ other # <<>>
    <3>1. n \in Nat /\ n # 0
      BY DEF AlgorithmsAssumption
    <3>2. other \in Seq(Leaves) /\ Len(other) = n
      BY <3>1, FunctionIsSeq
    <3> QED
      BY <3>1, <3>2, EmptySeq
  <2>3. /\ RootOf(OldLeaves(list)) = RootOf(OldLeaves(other)) => list = other
        /\ RootOf(NewLeaves(list)) = RootOf(NewLeaves(other)) => list = other
    <3>1. /\ IsTree(OldLeaves(list), Len(list)) /\ IsTree(NewLeaves(list), Len(list))
          /\ OldLeaves(list) = OldLeaves(other) \/ NewLeaves(list) = NewLeaves(other) => list = other
      BY <2>1, <2>2, LeavesFixList
    <3>2. IsTree(OldLeaves(other), Len(other)) /\ IsTree(NewLeaves(other), Len(other))
      BY <2>2, LeavesFixList
    <3> QED
      BY <3>1, <3>2, RootFixesLeaves
  <2>4. Signed(list, FALSE).merkle_root = Signed(other, FALSE).merkle_root <=> list = other
    BY <2>3, SignedParts
  <2>5. SignedRollouts(other) # <<>>
    <3>1. DOMAIN SignedRollouts(other) = 1..n
      BY DEF SignedRollouts
    <3>3. 1 \in 1..n
      BY DEF AlgorithmsAssumption
    <3>2. DOMAIN <<>> = {}
      OBVIOUS
    <3> QED
      BY <3>1, <3>2, <3>3
  <2>6. submission_merkle_matches(Signed(list, TRUE).merkle_root, Signed(other, TRUE).rollouts)
          <=> list = other
    BY <2>3, <2>5, SignedParts DEF submission_merkle_matches
  <2>7. compute_rollouts_selection_digest(SignedRollouts(list))
          = compute_rollouts_selection_digest(SignedRollouts(other))
        <=> [i \in DOMAIN list |-> list[i].tokens] = [i \in DOMAIN other |-> other[i].tokens]
    <3> DEFINE Digest(l) == [i \in DOMAIN l |-> <<i, l[i].tokens, Environments[1]>>]
               Streams(l) == [i \in DOMAIN l |-> l[i].tokens]
    <3>1. \A l : compute_rollouts_selection_digest(SignedRollouts(l)) = Digest(l)
      BY DEF compute_rollouts_selection_digest, SignedRollouts
    <3>2. ASSUME Digest(list) = Digest(other) PROVE Streams(list) = Streams(other)
      <4>1. DOMAIN list = DOMAIN other
        BY <3>2
      <4>2. ASSUME NEW i \in DOMAIN list PROVE list[i].tokens = other[i].tokens
        <5>1. Digest(list)[i] = <<i, list[i].tokens, Environments[1]>>
          OBVIOUS
        <5>2. Digest(other)[i] = <<i, other[i].tokens, Environments[1]>>
          BY <4>1
        <5> HIDE DEF Digest
        <5> QED
          BY <3>2, <5>1, <5>2
      <4> QED
        BY <4>1, <4>2
    <3>3. ASSUME Streams(list) = Streams(other) PROVE Digest(list) = Digest(other)
      <4>1. DOMAIN list = DOMAIN other
        BY <3>3
      <4>2. ASSUME NEW i \in DOMAIN list PROVE list[i].tokens = other[i].tokens
        <5>1. Streams(list)[i] = list[i].tokens
          OBVIOUS
        <5>2. Streams(other)[i] = other[i].tokens
          BY <4>1
        <5> HIDE DEF Streams
        <5> QED
          BY <3>3, <5>1, <5>2
      <4> QED
        BY <4>1, <4>2
    <3> HIDE DEF Digest
    <3> QED
      BY <3>1, <3>2, <3>3
  <2> QED
    BY <2>4, <2>6, <2>7, SignedParts
<1> QED
  BY <1>1, AlgorithmsInit, AlgorithmsStep, PTL DEF TopicSpec
=============================================================================
