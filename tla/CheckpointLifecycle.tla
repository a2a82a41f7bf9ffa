------------------------ MODULE CheckpointLifecycle ------------------------
(***************************************************************************)
(* The checkpoints: the trainer numbers them, pushes them to HuggingFace   *)
(* and demands their revision of every submission (service.py,             *)
(* checkpoint.py, resume.py); the miners follow the number they read in    *)
(* GET /state and load the revision (engine.py).  The trainer keeps no     *)
(* state across a restart but what it finds in the history of the HF       *)
(* repository, and the revision the operator may tell it to resume from.   *)
(*                                                                         *)
(* A revision is the position of its commit in the history.  Only window_n *)
(* modulo PUBLISH_EVERY matters here, and only it is kept.                 *)
(***************************************************************************)
EXTENDS Integers, Sequences, FiniteSets

CONSTANTS
  Miners,
  PUBLISH_EVERY,  \* CHECKPOINT_PUBLISH_INTERVAL_WINDOWS
  B_BATCH,        \* submissions that fill a batch, one per miner here
  Mishaps,        \* what goes wrong at a start, of AllMishaps
  MaxCommits,     \* bound: commits in the repository
  MaxRestarts     \* bound: restarts of the trainer

\* The operator resumes from a commit that is not the last; the listing of the
\* commits fails.
AllMishaps == {"old_commit", "no_listing"}

ASSUME CheckpointAssumption ==
  /\ PUBLISH_EVERY \in Nat \ {0}
  /\ B_BATCH \in Nat \ {0}
  /\ Mishaps \subseteq AllMishaps
  /\ MaxCommits \in Nat
  /\ MaxRestarts \in Nat

Revisions == 1..MaxCommits

\* No manifest; no revision demanded or loaded (the base model).
NoManifest == [n |-> 0, rev |-> 0]
Manifests == [n : Nat, rev : Revisions]

VARIABLES
  commits,        \* the numbers in the titles "checkpoint <n>", in commit order
  pc,             \* where the trainer is
  restarts,
  window_n,       \* _window_n modulo PUBLISH_EVERY
  checkpoint_n,   \* _checkpoint_n
  manifest,       \* CheckpointStore._current, also what /state and /checkpoint show
  gate,           \* current_checkpoint_hash of the window's batcher, 0 for ""
  accepted,       \* the miners with a submission in the window
  installed       \* every manifest ever signed and installed (history)

trainerVars == <<commits, pc, restarts, window_n, checkpoint_n, manifest, gate, accepted, installed>>

VARIABLES
  mpc,            \* [Miners -> {"poll", "pull"}]
  seen,           \* [Miners -> manifest of the /state it acts on]
  local_n,        \* [Miners -> _local_n]
  local_hash,     \* [Miners -> _local_hash], 0 for ""
  hf_model,       \* [Miners -> the revision in its proof model]
  gen_model       \* [Miners -> the revision in its generator, -1 if broken]

minerVars == <<mpc, seen, local_n, local_hash, hf_model, gen_model>>

vars == <<trainerVars, minerVars>>

-----------------------------------------------------------------------------
(***************************************************************************)
(* Start of the trainer: _apply_resume_from, then the count of checkpoint  *)
(* commits.                                                                *)
(***************************************************************************)
Resume(i) ==
  /\ pc = "start"
  /\ i \in DOMAIN commits
  /\ i = Len(commits) \/ "old_commit" \in Mishaps
  /\ manifest' = [n |-> commits[i], rev |-> i]
  /\ installed' = installed \cup {manifest'}
  /\ checkpoint_n' = commits[i]
  /\ pc' = "bootstrap"
  /\ UNCHANGED <<commits, restarts, window_n, gate, accepted, minerVars>>

ResumeNothing ==
  /\ pc = "start"
  /\ pc' = "bootstrap"
  /\ UNCHANGED <<commits, restarts, window_n, checkpoint_n, manifest, gate, accepted, installed,
                 minerVars>>

BootstrapWith(n) ==
  /\ pc = "bootstrap"
  /\ checkpoint_n' = n
  /\ pc' = "ready"
  /\ UNCHANGED <<commits, restarts, window_n, manifest, gate, accepted, installed, minerVars>>

\* Slip: the number is not recovered.
Bootstrap_omitted == BootstrapWith(checkpoint_n)
Bootstrap ==
  \E n \in {Len(commits)} \cup (IF "no_listing" \in Mishaps THEN {checkpoint_n} ELSE {}) :
    BootstrapWith(n)

\* The process ends, whatever it was doing, and docker starts it again.  Its
\* window number is that of the last archive, which may lag: any residue.
Crash ==
  /\ restarts < MaxRestarts
  /\ pc # "start"
  /\ restarts' = restarts + 1
  /\ window_n' \in 0..(PUBLISH_EVERY - 1)
  /\ pc' = "start"
  /\ checkpoint_n' = 0
  /\ manifest' = NoManifest
  /\ gate' = 0
  /\ accepted' = {}
  /\ UNCHANGED <<commits, installed, minerVars>>

-----------------------------------------------------------------------------
(***************************************************************************)
(* A window: the batcher is given the revision of the manifest.  A full    *)
(* batch is trained on, and published if the window's turn has come or     *)
(* nothing is published yet; a window that timed out is not.               *)
(***************************************************************************)
OpenWindow ==
  /\ pc = "ready"
  /\ window_n' = (window_n + 1) % PUBLISH_EVERY
  /\ gate' = manifest.rev
  /\ accepted' = {}
  /\ pc' = "open"
  /\ UNCHANGED <<commits, restarts, checkpoint_n, manifest, installed, minerVars>>

should_publish == window_n = 0 \/ manifest = NoManifest

SealFull ==
  /\ pc = "open"
  /\ Cardinality(accepted) >= B_BATCH
  /\ should_publish => Len(commits) < MaxCommits
  /\ pc' = IF should_publish THEN "upload" ELSE "ready"
  /\ UNCHANGED <<commits, restarts, window_n, checkpoint_n, manifest, gate, accepted, installed,
                 minerVars>>

SealPartial ==
  /\ pc = "open"
  /\ \/ Cardinality(accepted) < B_BATCH
     \/ should_publish /\ Len(commits) = MaxCommits   \* the bound
  /\ pc' = "ready"
  /\ UNCHANGED <<commits, restarts, window_n, checkpoint_n, manifest, gate, accepted, installed,
                 minerVars>>

\* upload_folder: the commit is made, and the call returns or raises.
Upload(next) ==
  /\ pc = "upload"
  /\ commits' = Append(commits, checkpoint_n + 1)
  /\ pc' = next
  /\ UNCHANGED <<restarts, window_n, checkpoint_n, manifest, gate, accepted, installed, minerVars>>

UploadReturns == Upload("install")
UploadCommitsAndRaises == Upload("ready")

NoUpload(next) ==
  /\ pc = "upload"
  /\ pc' = next
  /\ UNCHANGED <<commits, restarts, window_n, checkpoint_n, manifest, gate, accepted, installed,
                 minerVars>>

UploadRaises == NoUpload("ready")

\* (n, revision) is signed and installed in the store, then in the server.
InstallAs(n) ==
  /\ pc = "install"
  /\ manifest' = [n |-> n, rev |-> Len(commits)]
  /\ installed' = installed \cup {manifest'}
  /\ checkpoint_n' = n
  /\ pc' = "ready"
  /\ UNCHANGED <<commits, restarts, window_n, gate, accepted, minerVars>>

\* Slip: the number is not advanced.
Install_number_kept == InstallAs(checkpoint_n)
Install == InstallAs(checkpoint_n + 1)

-----------------------------------------------------------------------------
(***************************************************************************)
(* A miner.  /state is served while the trainer has an active batcher.     *)
(***************************************************************************)
Serving == pc \in {"open", "upload", "install"}

Poll(m) ==
  /\ mpc[m] = "poll"
  /\ Serving
  /\ manifest.n > local_n[m]
  /\ manifest # NoManifest
  /\ seen' = [seen EXCEPT ![m] = manifest]
  /\ mpc' = [mpc EXCEPT ![m] = "pull"]
  /\ UNCHANGED <<trainerVars, local_n, local_hash, hf_model, gen_model>>

\* The number and the revision of the state that was polled are taken over,
\* with the models that _load_checkpoint left behind.
Adopt(m, hf, gen) ==
  /\ mpc[m] = "pull"
  /\ local_n' = [local_n EXCEPT ![m] = seen[m].n]
  /\ local_hash' = [local_hash EXCEPT ![m] = seen[m].rev]
  /\ hf_model' = [hf_model EXCEPT ![m] = hf]
  /\ gen_model' = [gen_model EXCEPT ![m] = gen]
  /\ mpc' = [mpc EXCEPT ![m] = "poll"]
  /\ UNCHANGED <<trainerVars, seen>>

Pull(m) == Adopt(m, seen[m].rev, seen[m].rev)

\* _load_checkpoint catches the failure to load either model and returns.
LoadFails(m) ==
  \/ Adopt(m, hf_model[m], gen_model[m])
  \/ Adopt(m, seen[m].rev, -1)

\* The download raises: everything local stays.
\* Slip: the number is taken over before the download.
DownloadFails_keeping_number(m) ==
  /\ mpc[m] = "pull"
  /\ local_n' = [local_n EXCEPT ![m] = seen[m].n]
  /\ mpc' = [mpc EXCEPT ![m] = "poll"]
  /\ UNCHANGED <<trainerVars, seen, local_hash, hf_model, gen_model>>

DownloadFails(m) ==
  /\ mpc[m] = "pull"
  /\ mpc' = [mpc EXCEPT ![m] = "poll"]
  /\ UNCHANGED <<trainerVars, seen, local_n, local_hash, hf_model, gen_model>>

\* A submission passes the gate, and GRAIL if it was made with the revision.
Submit(m) ==
  /\ mpc[m] = "poll"
  /\ pc = "open"
  /\ gate # 0 => gate = local_hash[m] /\ hf_model[m] = gate /\ gen_model[m] = gate
  /\ gen_model[m] # -1
  /\ m \notin accepted
  /\ accepted' = accepted \cup {m}
  /\ UNCHANGED <<commits, pc, restarts, window_n, checkpoint_n, manifest, gate, installed, minerVars>>

-----------------------------------------------------------------------------
Init ==
  /\ commits = <<>> /\ pc = "start" /\ restarts = 0 /\ window_n = 0
  /\ checkpoint_n = 0 /\ manifest = NoManifest /\ gate = 0
  /\ accepted = {} /\ installed = {}
  /\ mpc = [m \in Miners |-> "poll"]
  /\ seen = [m \in Miners |-> NoManifest]
  /\ local_n = [m \in Miners |-> -1]
  /\ local_hash = [m \in Miners |-> 0]
  /\ hf_model = [m \in Miners |-> 0]
  /\ gen_model = [m \in Miners |-> 0]

TrainerStep ==
  \/ \E i \in Revisions : Resume(i)
  \/ ResumeNothing \/ Bootstrap
  \/ OpenWindow \/ SealFull \/ SealPartial
  \/ UploadReturns \/ UploadCommitsAndRaises \/ UploadRaises \/ Install

MinerStep(m) == Poll(m) \/ Pull(m) \/ LoadFails(m) \/ DownloadFails(m) \/ Submit(m)

Next == TrainerStep \/ Crash \/ \E m \in Miners : MinerStep(m)

Spec == Init /\ [][Next]_vars

\* The trainer goes on; a window is open for longer than a miner takes to
\* poll; a download that is tried again and again succeeds in the end.
FairSpec ==
  /\ Spec
  /\ WF_vars(TrainerStep)
  /\ \A m \in Miners : SF_vars(Poll(m)) /\ SF_vars(Pull(m))

-----------------------------------------------------------------------------
TypeOK ==
  /\ commits \in Seq(Nat) /\ Len(commits) <= MaxCommits
  /\ pc \in {"start", "bootstrap", "ready", "open", "upload", "install"}
  /\ restarts \in 0..MaxRestarts
  /\ window_n \in 0..(PUBLISH_EVERY - 1)
  /\ checkpoint_n \in Nat
  /\ manifest \in Manifests \cup {NoManifest}
  /\ gate \in Revisions \cup {0}
  /\ accepted \subseteq Miners
  /\ installed \subseteq Manifests
  /\ mpc \in [Miners -> {"poll", "pull"}]
  /\ seen \in [Miners -> Manifests \cup {NoManifest}]
  /\ local_n \in [Miners -> Nat \cup {-1}]
  /\ local_hash \in [Miners -> Revisions \cup {0}]
  /\ hf_model \in [Miners -> Revisions \cup {0}]
  /\ gen_model \in [Miners -> Revisions \cup {0, -1}]

\* A number is signed with one revision only ("sign (n || revision)"): over
\* failed uploads, uploads that went through though they raised, crashes and
\* resumed commits, no two manifests share their number.
NumberNamesRevision ==
  \A x, y \in installed : x.n = y.n => x.rev = y.rev

\* A miner that polls is never stranded: if the window demands a revision that
\* is not the miner's, then /state shows that revision with a greater number,
\* which is what makes the miner pull it.
NoMinerStranded ==
  pc = "open" /\ gate # 0 =>
    \A m \in Miners : local_hash[m] # gate => manifest.rev = gate /\ manifest.n > local_n[m]

\* Every miner ends up with the revision that is demanded, again and again.
MinersCatchUp ==
  \A m \in Miners : []<>(manifest = NoManifest \/ local_hash[m] = manifest.rev)

\* "The validator advances checkpoint_n monotonically and never rolls back."
NeverRollsBack ==
  manifest # NoManifest => \A x \in installed : x.n <= manifest.n

=============================================================================
