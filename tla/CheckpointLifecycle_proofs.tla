--------------------- MODULE CheckpointLifecycle_proofs ---------------------
(***************************************************************************)
(* Theorems about CheckpointLifecycle: for any miners, any cadence of      *)
(* publishing, any number of commits and restarts, if every resume is from *)
(* the last commit and the history of the repository can be listed.        *)
(***************************************************************************)
EXTENDS CheckpointLifecycle, SequenceTheorems, TLAPS

-----------------------------------------------------------------------------
(***************************************************************************)
(* Type correctness.  An upload is only begun below the bound on the       *)
(* commits, and what is installed was uploaded.                            *)
(***************************************************************************)
UploadBounded ==
  /\ pc = "upload" => Len(commits) < MaxCommits
  /\ pc = "install" => Len(commits) > 0

TypeInv == TypeOK /\ UploadBounded

LEMMA TypeInit == Init => TypeInv
<1> SUFFICES ASSUME Init PROVE TypeInv
  OBVIOUS
<1>1. << >> \in Seq(Nat) /\ Len(<< >>) = 0
  BY EmptySeq
<1>2. 0 \in 0..(PUBLISH_EVERY - 1) /\ 0 \in 0..MaxRestarts /\ 0 <= MaxCommits
  BY CheckpointAssumption
<1> QED
  BY <1>1, <1>2 DEF Init, TypeInv, TypeOK, UploadBounded

\* A commit is appended to the history.
LEMMA UploadAppends ==
  ASSUME TypeInv, NEW next \in {"install", "ready"}, Upload(next)
  PROVE  /\ commits' \in Seq(Nat)
         /\ Len(commits') = Len(commits) + 1
         /\ Len(commits') <= MaxCommits
         /\ \A i \in 1..Len(commits) : commits'[i] = commits[i]
         /\ commits'[Len(commits')] = checkpoint_n + 1
         /\ Len(commits) \in Nat
<1>1. commits \in Seq(Nat) /\ checkpoint_n + 1 \in Nat /\ Len(commits) < MaxCommits /\ MaxCommits \in Nat
  BY CheckpointAssumption DEF TypeInv, TypeOK, UploadBounded, Upload
<1>2. commits' = Append(commits, checkpoint_n + 1)
  BY DEF Upload
<1> QED
  BY <1>1, <1>2, AppendProperties

LEMMA TypeStep == TypeInv /\ [Next]_vars => TypeInv'
<1> SUFFICES ASSUME TypeInv, [Next]_vars PROVE TypeInv'
  OBVIOUS
<1> USE DEF trainerVars, minerVars
<1>1. ASSUME NEW i \in Revisions, Resume(i) PROVE TypeInv'
  <2>1. i \in 1..Len(commits) /\ commits[i] \in Nat
    BY <1>1, ElementOfSeq DEF Resume, TypeInv, TypeOK
  <2> QED
    BY <1>1, <2>1 DEF Resume, TypeInv, TypeOK, UploadBounded, Manifests
<1>2. CASE ResumeNothing
  BY <1>2 DEF ResumeNothing, TypeInv, TypeOK, UploadBounded
<1>3. CASE Bootstrap
  <2>1. Len(commits) \in Nat
    BY DEF TypeInv, TypeOK
  <2> QED
    BY <1>3, <2>1 DEF Bootstrap, BootstrapWith, TypeInv, TypeOK, UploadBounded
<1>4. CASE OpenWindow
  <2>1. window_n' \in 0..(PUBLISH_EVERY - 1)
    BY <1>4, CheckpointAssumption DEF OpenWindow, TypeInv, TypeOK
  <2>2. gate' \in Revisions \cup {0}
    BY <1>4 DEF OpenWindow, TypeInv, TypeOK, Manifests, NoManifest
  <2> QED
    BY <1>4, <2>1, <2>2 DEF OpenWindow, TypeInv, TypeOK, UploadBounded
<1>5. CASE SealFull \/ SealPartial
  BY <1>5 DEF SealFull, SealPartial, TypeInv, TypeOK, UploadBounded
<1>6. CASE UploadReturns \/ UploadCommitsAndRaises
  <2>1. PICK next \in {"install", "ready"} : Upload(next)
    BY <1>6 DEF UploadReturns, UploadCommitsAndRaises
  <2>2. commits' \in Seq(Nat) /\ Len(commits') <= MaxCommits /\ Len(commits') > 0
    BY <2>1, UploadAppends
  <2> QED
    BY <2>1, <2>2 DEF Upload, TypeInv, TypeOK, UploadBounded
<1>7. CASE UploadRaises
  BY <1>7 DEF UploadRaises, NoUpload, TypeInv, TypeOK, UploadBounded
<1>8. CASE Install
  <2>1. Len(commits) \in Revisions
    BY <1>8, CheckpointAssumption DEF Install, InstallAs, TypeInv, TypeOK, UploadBounded, Revisions
  <2>2. checkpoint_n + 1 \in Nat
    BY DEF TypeInv, TypeOK
  <2>3. manifest' \in Manifests
    BY <1>8, <2>1, <2>2 DEF Install, InstallAs, Manifests
  <2> QED
    BY <1>8, <2>2, <2>3 DEF Install, InstallAs, TypeInv, TypeOK, UploadBounded
<1>9. CASE Crash
  <2>1. restarts' \in 0..MaxRestarts
    BY <1>9, CheckpointAssumption DEF Crash, TypeInv, TypeOK
  <2> QED
    BY <1>9, <2>1 DEF Crash, TypeInv, TypeOK, UploadBounded
<1>10. ASSUME NEW m \in Miners, Poll(m) \/ DownloadFails(m) \/ Submit(m) PROVE TypeInv'
  BY <1>10 DEF Poll, DownloadFails, Submit, TypeInv, TypeOK, UploadBounded
<1>11. ASSUME NEW m \in Miners, NEW hf \in Revisions \cup {0}, NEW gen \in Revisions \cup {0, -1},
              Adopt(m, hf, gen)
       PROVE  TypeInv'
  <2>1. seen[m].n \in Nat /\ seen[m].rev \in Revisions \cup {0}
    BY DEF TypeInv, TypeOK, Manifests, NoManifest
  <2> QED
    BY <1>11, <2>1 DEF Adopt, TypeInv, TypeOK, UploadBounded
<1>12. ASSUME NEW m \in Miners, Pull(m) \/ LoadFails(m) PROVE TypeInv'
  <2>1. seen[m].rev \in Revisions \cup {0} /\ hf_model[m] \in Revisions \cup {0}
          /\ gen_model[m] \in Revisions \cup {0, -1}
    BY DEF TypeInv, TypeOK, Manifests, NoManifest
  <2> QED
    BY <1>11, <1>12, <2>1 DEF Pull, LoadFails
<1>13. CASE UNCHANGED vars
  BY <1>13 DEF vars, TypeInv, TypeOK, UploadBounded
<1> QED
  BY <1>1, <1>2, <1>3, <1>4, <1>5, <1>6, <1>7, <1>8, <1>9, <1>10, <1>12, <1>13
     DEF Next, TrainerStep, MinerStep

\* The state of the trainer and its miners stays within its types.
THEOREM TypeCorrect == Spec => []TypeOK
<1>1. TypeInv => TypeOK
  BY DEF TypeInv
<1> QED
  BY <1>1, TypeInit, TypeStep, PTL DEF Spec

-----------------------------------------------------------------------------
(***************************************************************************)
(* The numbers of the commits, of what was installed and of what the       *)
(* miners hold, kept together by the trainer's counter.                    *)
(***************************************************************************)

\* A title never runs ahead of the position of its commit: the count of the
\* commits is a number that no title exceeds.
TitlesBounded == \A i \in 1..Len(commits) : commits[i] \in 1..i

\* What was installed is a commit under its title, the last commit has the
\* greatest number of them, and if a number is that of the last commit, so is
\* the revision.
InstalledAreCommits ==
  \A x \in installed :
    /\ x.rev \in 1..Len(commits)
    /\ x.n = commits[x.rev]
    /\ x.n <= commits[Len(commits)]
    /\ x.n = commits[Len(commits)] => x.rev = Len(commits)

\* Once it is bootstrapped the counter is between what was installed and the
\* count of the commits; it is one behind the commit that is to be installed.
CounterBounded ==
  /\ pc \in {"ready", "open", "upload", "install"} =>
       /\ checkpoint_n <= Len(commits)
       /\ \A x \in installed : x.n <= checkpoint_n
  /\ pc = "install" =>
       Len(commits) > 0 /\ commits[Len(commits)] = checkpoint_n + 1

\* The manifest is the greatest that was installed, and gates the window.
ManifestIsLatest ==
  /\ manifest # NoManifest =>
       manifest \in installed /\ \A x \in installed : x.n <= manifest.n
  /\ pc = "open" => gate = manifest.rev

\* A miner holds the base model or what was installed.
MinersHoldInstalled ==
  \A m \in Miners :
    /\ \/ local_n[m] = -1 /\ local_hash[m] = 0
       \/ [n |-> local_n[m], rev |-> local_hash[m]] \in installed
    /\ mpc[m] = "pull" => seen[m] \in installed

CheckpointInv ==
  /\ TitlesBounded /\ InstalledAreCommits /\ CounterBounded
  /\ NumberNamesRevision /\ ManifestIsLatest /\ MinersHoldInstalled

LEMMA CheckpointInit == Init => CheckpointInv
BY DEF Init, CheckpointInv, TitlesBounded, InstalledAreCommits, CounterBounded, NumberNamesRevision,
       ManifestIsLatest, MinersHoldInstalled

\* What the proofs use of the types.
LEMMA TypeFacts ==
  ASSUME TypeInv
  PROVE  /\ Len(commits) \in Nat
         /\ \A i \in 1..Len(commits) : commits[i] \in Nat
         /\ checkpoint_n \in Nat
         /\ \A x \in installed : x.n \in Nat /\ x.rev \in Nat
         /\ \A m \in Miners : local_n[m] \in Nat \cup {-1}
BY ElementOfSeq, CheckpointAssumption DEF TypeInv, TypeOK, Manifests, Revisions

\* A new manifest that names the last commit by a number that is at least
\* that of all the others keeps the invariant.
LEMMA NewManifest ==
  ASSUME TypeInv, CheckpointInv, Len(commits) > 0,
         NEW x, x = [n |-> commits[Len(commits)], rev |-> Len(commits)],
         manifest' = x, installed' = installed \cup {x},
         UNCHANGED <<commits, mpc, seen, local_n, local_hash>>,
         pc' # "open"
  PROVE  /\ InstalledAreCommits' /\ NumberNamesRevision' /\ ManifestIsLatest'
         /\ MinersHoldInstalled' /\ TitlesBounded'
         /\ \A y \in installed' : y.n <= commits[Len(commits)]
<1> USE TypeFacts
<1>1. \A y \in installed' : y.n <= commits[Len(commits)]
  BY DEF CheckpointInv, InstalledAreCommits
<1>2. InstalledAreCommits'
  BY <1>1 DEF CheckpointInv, InstalledAreCommits
<1>3. NumberNamesRevision'
  BY DEF CheckpointInv, InstalledAreCommits, NumberNamesRevision
<1>4. ManifestIsLatest'
  BY <1>1 DEF ManifestIsLatest
<1>5. MinersHoldInstalled' /\ TitlesBounded'
  BY DEF CheckpointInv, MinersHoldInstalled, TitlesBounded
<1> QED
  BY <1>1, <1>2, <1>3, <1>4, <1>5

LEMMA CheckpointStep ==
  ASSUME Mishaps = {}
  PROVE  TypeInv /\ CheckpointInv /\ [Next]_vars => CheckpointInv'
<1> SUFFICES ASSUME TypeInv, CheckpointInv, [Next]_vars PROVE CheckpointInv'
  OBVIOUS
<1> USE DEF trainerVars, minerVars
<1>0. /\ Len(commits) \in Nat
      /\ \A i \in 1..Len(commits) : commits[i] \in Nat
      /\ checkpoint_n \in Nat
      /\ \A x \in installed : x.n \in Nat /\ x.rev \in Nat
  BY TypeFacts
<1>1. ASSUME NEW i \in Revisions, Resume(i) PROVE CheckpointInv'
  <2>1. i = Len(commits) /\ Len(commits) > 0
    BY <1>0, <1>1 DEF Resume
  <2>2. CounterBounded'
    BY <1>1 DEF Resume, CounterBounded
  <2> QED
    BY <1>1, <2>1, <2>2, NewManifest DEF Resume, CheckpointInv
<1>2. CASE Bootstrap
  <2>1. checkpoint_n' = Len(commits) /\ pc' = "ready"
    BY <1>2 DEF Bootstrap, BootstrapWith
  <2>2. UNCHANGED <<commits, manifest, installed, gate, mpc, seen, local_n, local_hash>>
    BY <1>2 DEF Bootstrap, BootstrapWith
  <2>3. CounterBounded'
    <3>1. \A x \in installed : x.n <= Len(commits)
      BY <1>0 DEF CheckpointInv, InstalledAreCommits, TitlesBounded
    <3> QED
      BY <1>0, <2>1, <2>2, <3>1 DEF CounterBounded
  <2> QED
    BY <2>1, <2>2, <2>3 DEF CheckpointInv, TitlesBounded, InstalledAreCommits, NumberNamesRevision,
                            ManifestIsLatest, MinersHoldInstalled
<1>3. CASE ResumeNothing \/ OpenWindow \/ SealFull \/ SealPartial \/ UploadRaises \/ UNCHANGED vars
  <2>1. UNCHANGED <<commits, checkpoint_n, manifest, installed, mpc, seen, local_n, local_hash>>
    BY <1>3 DEF ResumeNothing, OpenWindow, SealFull, SealPartial, UploadRaises, NoUpload, vars
  <2>2. CounterBounded'
    BY <1>3, <2>1 DEF ResumeNothing, OpenWindow, SealFull, SealPartial, UploadRaises, NoUpload, vars,
                      CheckpointInv, CounterBounded
  <2>3. ManifestIsLatest'
    BY <1>3, <2>1 DEF ResumeNothing, OpenWindow, SealFull, SealPartial, UploadRaises, NoUpload, vars,
                      CheckpointInv, ManifestIsLatest
  <2> QED
    BY <2>1, <2>2, <2>3 DEF CheckpointInv, TitlesBounded, InstalledAreCommits, NumberNamesRevision,
                            MinersHoldInstalled
<1>4. ASSUME NEW next \in {"install", "ready"}, Upload(next) PROVE CheckpointInv'
  <2> DEFINE N == Len(commits)
  <2>1. /\ Len(commits') = N + 1
        /\ \A i \in 1..N : commits'[i] = commits[i]
        /\ commits'[N + 1] = checkpoint_n + 1
    BY <1>4, UploadAppends
  <2>2. pc = "upload" /\ pc' = next
          /\ UNCHANGED <<checkpoint_n, manifest, installed, mpc, seen, local_n, local_hash>>
    BY <1>4 DEF Upload
  <2>3. checkpoint_n <= N /\ \A x \in installed : x.n <= checkpoint_n
    BY <2>2 DEF CheckpointInv, CounterBounded
  <2>4. TitlesBounded'
    BY <1>0, <2>1, <2>3 DEF CheckpointInv, TitlesBounded
  <2>5. InstalledAreCommits'
    BY <1>0, <2>1, <2>2, <2>3 DEF CheckpointInv, InstalledAreCommits
  <2>6. CounterBounded'
    BY <1>0, <2>1, <2>2, <2>3 DEF CounterBounded
  <2> QED
    BY <2>2, <2>4, <2>5, <2>6 DEF CheckpointInv, NumberNamesRevision, ManifestIsLatest,
                                  MinersHoldInstalled
<1>5. CASE Install
  <2>1. Len(commits) > 0 /\ commits[Len(commits)] = checkpoint_n + 1
    BY <1>5 DEF Install, InstallAs, CheckpointInv, CounterBounded
  <2>2. CounterBounded'
    <3>1. checkpoint_n + 1 <= Len(commits)
      BY <1>0, <2>1 DEF CheckpointInv, TitlesBounded
    <3>2. \A x \in installed' : x.n <= checkpoint_n + 1
      BY <1>0, <1>5, <2>1 DEF Install, InstallAs, CheckpointInv, InstalledAreCommits
    <3> QED
      BY <1>5, <3>1, <3>2 DEF Install, InstallAs, CounterBounded
  <2> QED
    BY <1>5, <2>1, <2>2, NewManifest DEF Install, InstallAs, CheckpointInv
<1>6. CASE Crash
  BY <1>6 DEF Crash, CheckpointInv, TitlesBounded, InstalledAreCommits, CounterBounded,
              NumberNamesRevision, ManifestIsLatest, MinersHoldInstalled
<1>7. ASSUME NEW m \in Miners, Poll(m) \/ DownloadFails(m) \/ Submit(m) PROVE CheckpointInv'
  <2>1. UNCHANGED <<commits, pc, checkpoint_n, manifest, gate, installed, local_n, local_hash>>
    BY <1>7 DEF Poll, DownloadFails, Submit
  <2>2. MinersHoldInstalled'
    BY <1>7, <2>1 DEF Poll, DownloadFails, Submit, CheckpointInv, MinersHoldInstalled,
                      ManifestIsLatest, TypeInv, TypeOK
  <2> QED
    BY <2>1, <2>2 DEF CheckpointInv, TitlesBounded, InstalledAreCommits, CounterBounded,
                      NumberNamesRevision, ManifestIsLatest
<1>8. ASSUME NEW m \in Miners, Pull(m) \/ LoadFails(m) PROVE CheckpointInv'
  <2>1. PICK hf, gen : Adopt(m, hf, gen)
    BY <1>8 DEF Pull, LoadFails
  <2>2. UNCHANGED <<commits, pc, checkpoint_n, manifest, gate, installed, seen>>
    BY <2>1 DEF Adopt
  <2>3. seen[m] \in installed /\ seen[m] = [n |-> seen[m].n, rev |-> seen[m].rev]
    <3>1. seen[m] \in installed
      BY <2>1 DEF Adopt, CheckpointInv, MinersHoldInstalled
    <3> QED
      BY <3>1 DEF TypeInv, TypeOK, Manifests
  <2>4. MinersHoldInstalled'
    BY <2>1, <2>2, <2>3 DEF Adopt, CheckpointInv, MinersHoldInstalled, TypeInv, TypeOK
  <2> QED
    BY <2>2, <2>4 DEF CheckpointInv, TitlesBounded, InstalledAreCommits, CounterBounded,
                      NumberNamesRevision, ManifestIsLatest
<1> QED
  BY <1>1, <1>2, <1>3, <1>4, <1>5, <1>6, <1>7, <1>8
     DEF Next, TrainerStep, MinerStep, UploadReturns, UploadCommitsAndRaises

-----------------------------------------------------------------------------
\* A checkpoint number is signed with one revision only.
THEOREM NumbersAreUnique ==
  ASSUME Mishaps = {}
  PROVE  Spec => []NumberNamesRevision
<1>1. CheckpointInv => NumberNamesRevision
  BY DEF CheckpointInv
<1> QED
  BY <1>1, TypeInit, TypeStep, CheckpointInit, CheckpointStep, PTL DEF Spec

\* A miner can always follow the revision that a window demands.
THEOREM NobodyStranded ==
  ASSUME Mishaps = {}
  PROVE  Spec => []NoMinerStranded
<1>1. TypeInv /\ CheckpointInv => NoMinerStranded
  <2> SUFFICES ASSUME TypeInv, CheckpointInv, pc = "open", gate # 0,
                      NEW m \in Miners, local_hash[m] # gate
               PROVE  manifest.rev = gate /\ manifest.n > local_n[m]
    BY DEF NoMinerStranded
  <2>1. manifest.rev = gate /\ manifest # NoManifest
    BY DEF CheckpointInv, ManifestIsLatest, NoManifest
  <2>2. manifest \in installed /\ \A x \in installed : x.n <= manifest.n
    BY <2>1 DEF CheckpointInv, ManifestIsLatest
  <2>3. manifest.n \in Nat /\ local_n[m] \in Nat \cup {-1}
    BY <2>2, TypeFacts
  <2>4. CASE local_n[m] = -1
    BY <2>1, <2>3, <2>4
  <2>5. CASE [n |-> local_n[m], rev |-> local_hash[m]] \in installed
    <3>1. local_n[m] <= manifest.n
      BY <2>2, <2>5
    <3>2. local_n[m] # manifest.n
      BY <2>1, <2>2, <2>5 DEF CheckpointInv, NumberNamesRevision
    <3> QED
      BY <2>1, <2>3, <3>1, <3>2
  <2> QED
    BY <2>4, <2>5 DEF CheckpointInv, MinersHoldInstalled
<1> QED
  BY <1>1, TypeInit, TypeStep, CheckpointInit, CheckpointStep, PTL DEF Spec

\* The number in /state never goes back, across any number of restarts.
THEOREM NoRollback ==
  ASSUME Mishaps = {}
  PROVE  Spec => []NeverRollsBack
<1>1. CheckpointInv => NeverRollsBack
  BY DEF CheckpointInv, ManifestIsLatest, NeverRollsBack
<1> QED
  BY <1>1, TypeInit, TypeStep, CheckpointInit, CheckpointStep, PTL DEF Spec
=============================================================================
