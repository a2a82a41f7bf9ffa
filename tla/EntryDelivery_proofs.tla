------------------------ MODULE EntryDelivery_proofs ------------------------
(***************************************************************************)
(* Theorems about EntryDelivery: for any entries, limit of submissions,    *)
(* number of attempts and number of crashes; and, at the end, about the    *)
(* choice of the group an entry holds (RolloutSelection) and about the     *)
(* loop of its verdicts (VerdictLoop).                                     *)
(***************************************************************************)
EXTENDS EntryDelivery, RolloutSelection, VerdictLoop, SequenceFilter_proofs, FiniteSetTheorems

-----------------------------------------------------------------------------
(***************************************************************************)
(* The steps as what they do to sets of entries.                           *)
(***************************************************************************)
\* A sequence of files or of entries, without some of them.
LEMMA WithoutProperties ==
  ASSUME NEW S, NEW files \in Seq(S), NEW entries
  PROVE  /\ Without(files, entries) \in Seq(S)
         /\ Len(Without(files, entries)) <= Len(files)
         /\ Range(Without(files, entries)) = Range(files) \ entries
         /\ IsInjective(files) => IsInjective(Without(files, entries))
BY FilterProperties DEF Without

\* A burst takes entries of the pool that are not in cooldown, and the pool keeps
\* the others.
LEMMA FireParts ==
  ASSUME TypeOK, Fire
  PROVE  \E cooldown \in SUBSET Range(pool) : \E burst \in SUBSET (Range(pool) \ cooldown) :
           /\ IsFiniteSet(burst)
           /\ pool' = Without(pool, cooldown \cup burst)
           /\ fires' = fires \/ fires' = fires \cup {[e \in burst |-> At("build")]}
           /\ burst # {} => fires' # fires \/ [e \in burst |-> At("build")] \in fires
           /\ settled' = settled \cup cooldown
           /\ disk' = Without(disk, cooldown \cap path)
           /\ up /\ UNCHANGED <<up, crashes, gen, baked, path, taken, excused>>
           /\ window' = [window EXCEPT !.fired = TRUE]
<1>1. PICK cooldown \in SUBSET Range(pool) :
        LET ready == Without(pool, cooldown)
            k == Min({Len(ready), MAX_SUBMISSIONS})
            fire == {ready[i] : i \in 1..k}
        IN  /\ pool' = Without(pool, cooldown \cup (fire \ {}))
            /\ fires' = IF k = 0 THEN fires ELSE fires \cup {[e \in fire |-> At("build")]}
            /\ settled' = settled \cup cooldown
            /\ disk' = Without(disk, cooldown \cap path)
  BY DEF Fire, FireWith
<1> DEFINE ready == Without(pool, cooldown)
           k == Min({Len(ready), MAX_SUBMISSIONS})
           burst == {ready[i] : i \in 1..k}
<1>2. ready \in Seq(Entries) /\ Range(ready) = Range(pool) \ cooldown
  BY WithoutProperties DEF TypeOK
<1>3. Len(ready) \in Nat /\ DOMAIN ready = 1..Len(ready)
  BY <1>2, LenProperties
<1>4. k \in Nat /\ k <= Len(ready)
  BY <1>3, DeliveryAssumption, MinOfTwo
<1> HIDE DEF k, ready
<1>5. burst \subseteq Range(pool) \ cooldown
  BY <1>2, <1>3, <1>4 DEF Range
<1>6. IsFiniteSet(burst)
  <2>1. [i \in 1..k |-> ready[i]] \in Surjection(1..k, burst)
    BY DEF Surjection
  <2>2. IsFiniteSet(1..k)
    BY <1>4, FS_Interval
  <2> QED
    BY <2>1, <2>2, FS_Surjection
<1>7. k = 0 => burst = {}
  BY <1>4
<1>8. /\ pool' = Without(pool, cooldown \cup burst)
      /\ fires' = IF k = 0 THEN fires ELSE fires \cup {[e \in burst |-> At("build")]}
      /\ settled' = settled \cup cooldown
      /\ disk' = Without(disk, cooldown \cap path)
  BY <1>1 DEF k, ready
<1>9. /\ up /\ UNCHANGED <<up, crashes, gen, baked, path, taken, excused>>
      /\ window' = [window EXCEPT !.fired = TRUE]
  BY DEF Fire, FireWith, _should_fire_for_window
<1> HIDE DEF burst
<1> QED
  BY <1>5, <1>6, <1>7, <1>8, <1>9

\* A step of a fire task moves one entry on.
LEMMA DeliverParts ==
  ASSUME TypeOK, NEW task \in fires, NEW e \in DOMAIN task, Deliver(task, e)
  PROVE  \E p \in Progress :
           /\ up
           /\ fires' = (fires \ {task}) \cup {[task EXCEPT ![e] = p]}
           /\ taken' \subseteq taken \cup {e}
           /\ UNCHANGED <<up, crashes, window, pool, gen, baked, disk, path, settled, excused>>
<1> USE DEF Step
<1>1. \A s \in {"build", "precommit", "accepted", "retry", "drop"} : At(s) \in Progress
  BY DEF Progress, Ended
<1>2. Post(1) \in Progress
  BY DeliveryAssumption DEF Progress
<1>3. task[e] \in Progress
  BY DEF TypeOK
<1>4. CASE Build(task, e)
  BY <1>1, <1>4 DEF Build
<1>5. CASE Precommit(task, e)
  BY <1>1, <1>2, <1>5 DEF Precommit
<1>6. CASE PostAnswered(task, e)
  BY <1>1, <1>6 DEF PostAnswered
<1>7. CASE PostUnanswered(task, e)
  <2>1. task[e].at = "post"
    BY <1>7 DEF PostUnanswered, PostAgain
  <2>2. PICK n \in 1..ATTEMPTS : task[e] = Post(n)
    BY <1>3, <2>1 DEF Progress, Ended, At
  <2>3. task[e].n = n
    BY <2>2 DEF Post
  <2>4. n < ATTEMPTS => Post(n + 1) \in Progress
    BY DeliveryAssumption DEF Progress
  <2> QED
    BY <1>1, <1>7, <2>3, <2>4 DEF PostUnanswered, PostAgain
<1> QED
  BY <1>4, <1>5, <1>6, <1>7 DEF Deliver

\* A task that finishes puts entries of its own back, each once.
LEMMA FinishParts ==
  ASSUME TypeOK, NEW task \in fires, Finish(task)
  PROVE  \E again \in Seq(Entries) :
           /\ IsInjective(again)
           /\ Range(again) \subseteq DOMAIN task \ Done(task)
           /\ up /\ pool' = pool \o again
           /\ disk' = Without(disk, Done(task) \cap path)
           /\ settled' = settled \cup Done(task)
           /\ fires' = fires \ {task}
           /\ UNCHANGED <<up, crashes, window, gen, baked, path, taken, excused>>
<1>1. PICK again \in SetToSeqs(DOMAIN task \ Done(task)) : pool' = pool \o again
  BY DEF Finish, FinishDeleting
<1> DEFINE left == DOMAIN task \ Done(task)
           n == Cardinality(left)
<1>2. again \in [1..n -> left] /\ \A i, j \in 1..n : i # j => again[i] # again[j]
  BY <1>1 DEF SetToSeqs
<1>3. n \in Nat
  <2>1. IsFiniteSet(left)
    BY FS_Subset DEF TypeOK
  <2> QED
    BY <2>1, FS_CardinalityType
<1>4. left \subseteq Entries
  BY DEF TypeOK
<1> HIDE DEF n
<1>5. again \in Seq(Entries)
  BY <1>2, <1>3, <1>4
<1>6. IsInjective(again)
  BY <1>2 DEF IsInjective
<1>7. Range(again) \subseteq left
  BY <1>2 DEF Range
<1> QED
  BY <1>1, <1>5, <1>6, <1>7 DEF Finish, FinishDeleting

\* A crash loses what is in memory, and leaves files.
LEMMA CrashParts ==
  ASSUME TypeOK, Crash
  PROVE  \E answered \in SUBSET InFire : \E deleted :
           /\ disk' = Without(disk, deleted)
           /\ settled' = settled \cup answered
           /\ excused' = excused \cup (answered \ deleted)
           /\ ~ up' /\ crashes' = crashes + 1 /\ crashes < MaxCrashes
           /\ pool' = <<>> /\ path' = {} /\ fires' = {} /\ gen' = NewBatch
           /\ UNCHANGED <<window, baked, taken>>
<1> DEFINE answered == {e \in InFire : \E task \in fires :
                          e \in DOMAIN task /\ task[e] \in {At("accepted"), At("drop")}}
           ending == UNION {Done(task) : task \in {f \in fires : AllEnded(f)}}
<1>1. PICK deleted \in SUBSET (ending \cap path) :
        /\ disk' = Without(disk, deleted)
        /\ settled' = settled \cup answered
        /\ excused' = excused \cup (answered \ deleted)
  BY DEF Crash
<1>2. answered \in SUBSET InFire
  OBVIOUS
<1> HIDE DEF answered, ending
<1> QED
  BY <1>1, <1>2 DEF Crash

-----------------------------------------------------------------------------
(***************************************************************************)
(* Types.                                                                  *)
(***************************************************************************)
LEMMA TypeInit == Init => TypeOK
<1>1. <<>> \in Seq(Entries)
  BY EmptySeq
<1> QED
  BY <1>1, DeliveryAssumption DEF Init, TypeOK, NewBatch

\* The rest of a batch that is being saved is a batch.
LEMMA NextSaveType ==
  ASSUME TypeOK, gen.at = "save", NextSave \/ gen' = NewBatch
  PROVE  /\ gen' \in [at : {"bake", "save"}, entries : Seq(Entries)]
         /\ gen'.at = "save" => gen'.entries # <<>>
         /\ gen'.entries = <<>> \/ gen'.entries = Tail(gen.entries)
<1>1. /\ gen.entries \in Seq(Entries) /\ gen.entries # <<>>
      /\ gen \in [at : {"bake", "save"}, entries : Seq(Entries)]
  BY DEF TypeOK
<1>2. <<>> \in Seq(Entries)
  BY EmptySeq
<1>3. CASE gen' = NewBatch
  BY <1>2, <1>3 DEF NewBatch
<1>4. CASE Len(gen.entries) # 1 /\ gen' = [gen EXCEPT !.entries = Tail(@)]
  <2>1. Tail(gen.entries) \in Seq(Entries) /\ Len(Tail(gen.entries)) = Len(gen.entries) - 1
    BY <1>1, HeadTailProperties
  <2>2. Len(gen.entries) \in Nat
    BY <1>1, LenProperties
  <2>3. Tail(gen.entries) # <<>>
    <3>1. Len(<<>>) = 0
      BY EmptySeq
    <3>2. Len(Tail(gen.entries)) # 0
      BY <1>4, <2>1, <2>2
    <3> QED
      BY <3>1, <3>2
  <2> QED
    BY <1>1, <1>4, <2>1, <2>3
<1> QED
  BY <1>3, <1>4 DEF NextSave

LEMMA TypeStep == TypeOK /\ [Next]_vars => TypeOK'
<1> SUFFICES ASSUME TypeOK, [Next]_vars PROVE TypeOK'
  OBVIOUS
<1>1. <<>> \in Seq(Entries)
  BY EmptySeq
<1>2. CASE Bake
  <2>1. PICK e \in Entries \ baked :
          /\ baked' = baked \cup {e} /\ pool' = Append(pool, e)
          /\ gen' = [gen EXCEPT !.entries = Append(@, e)]
    BY <1>2 DEF Bake
  <2>2. pool \in Seq(Entries) /\ gen.entries \in Seq(Entries)
    BY DEF TypeOK
  <2>3. pool' \in Seq(Entries) /\ Append(gen.entries, e) \in Seq(Entries)
    BY <2>1, <2>2, AppendProperties
  <2>4. gen' \in [at : {"bake", "save"}, entries : Seq(Entries)] /\ gen'.at = "bake"
    BY <1>2, <2>1, <2>3 DEF Bake, TypeOK
  <2> QED
    BY <1>2, <2>1, <2>3, <2>4 DEF Bake, TypeOK
<1>3. CASE BatchEnds
  BY <1>3 DEF BatchEnds, TypeOK
<1>4. CASE save_entry
  <2>1. gen.at = "save" /\ NextSave
    BY <1>4 DEF save_entry
  <2>2. Head(gen.entries) \in Entries
    BY <2>1, HeadTailProperties DEF TypeOK
  <2>3. disk' \in Seq(Entries)
    BY <1>4, <2>2, AppendProperties DEF save_entry, TypeOK
  <2>4. path' \subseteq Entries /\ excused' \subseteq Entries
    BY <1>4, <2>2 DEF save_entry, TypeOK
  <2> QED
    BY <1>4, <2>1, <2>3, <2>4, NextSaveType DEF save_entry, TypeOK
<1>5. CASE SaveFails
  BY <1>5, NextSaveType DEF SaveFails, TypeOK
<1>6. CASE Window \/ Forfeit
  <2>1. window' \in [open : BOOLEAN, fired : BOOLEAN]
    <3>1. CASE Window
      <4>1. (~ window.open) \in BOOLEAN /\ FALSE \in BOOLEAN
        OBVIOUS
      <4> QED
        BY <3>1, <4>1 DEF Window
    <3>2. CASE Forfeit
      BY <3>2 DEF Forfeit, TypeOK
    <3> QED
      BY <1>6, <3>1, <3>2
  <2> QED
    BY <1>6, <2>1 DEF Window, Forfeit, TypeOK
<1>7. CASE Fire
  <2>1. PICK cooldown \in SUBSET Range(pool) : \E burst \in SUBSET (Range(pool) \ cooldown) :
           /\ IsFiniteSet(burst)
           /\ pool' = Without(pool, cooldown \cup burst)
           /\ fires' = fires \/ fires' = fires \cup {[e \in burst |-> At("build")]}
           /\ settled' = settled \cup cooldown
           /\ disk' = Without(disk, cooldown \cap path)
           /\ up /\ UNCHANGED <<up, crashes, gen, baked, path, taken, excused>>
           /\ window' = [window EXCEPT !.fired = TRUE]
    BY <1>7, FireParts
  <2>2. PICK burst \in SUBSET (Range(pool) \ cooldown) :
           /\ IsFiniteSet(burst)
           /\ pool' = Without(pool, cooldown \cup burst)
           /\ fires' = fires \/ fires' = fires \cup {[e \in burst |-> At("build")]}
    BY <2>1
  <2>3. Range(pool) \subseteq Entries
    BY RangeOfSeq DEF TypeOK
  <2>4. pool' \in Seq(Entries) /\ disk' \in Seq(Entries)
    BY <2>1, <2>2, WithoutProperties DEF TypeOK
  <2> DEFINE new == [e \in burst |-> At("build")]
  <2>5. DOMAIN new = burst /\ new \in [burst -> Progress]
    BY DEF Progress
  <2> HIDE DEF new
  <2>6. \A task \in fires' :
          IsFiniteSet(DOMAIN task) /\ task \in [DOMAIN task -> Progress] /\ DOMAIN task \subseteq Entries
    BY <2>2, <2>3, <2>5 DEF TypeOK, new
  <2>7. window' \in [open : BOOLEAN, fired : BOOLEAN]
    BY <2>1 DEF TypeOK
  <2>8. settled' \subseteq Entries
    BY <2>1, <2>3 DEF TypeOK
  <2> QED
    BY <2>1, <2>4, <2>6, <2>7, <2>8 DEF TypeOK
<1>8. ASSUME NEW task \in fires, NEW e \in DOMAIN task, Deliver(task, e) PROVE TypeOK'
  <2>1. PICK p \in Progress :
           /\ fires' = (fires \ {task}) \cup {[task EXCEPT ![e] = p]}
           /\ taken' \subseteq taken \cup {e}
           /\ UNCHANGED <<up, crashes, window, pool, gen, baked, disk, path, settled, excused>>
    BY <1>8, DeliverParts
  <2>2. \A t \in fires' :
          IsFiniteSet(DOMAIN t) /\ t \in [DOMAIN t -> Progress] /\ DOMAIN t \subseteq Entries
    <3>1. PICK t : t = [task EXCEPT ![e] = p]
      OBVIOUS
    <3>2. DOMAIN t = DOMAIN task /\ t \in [DOMAIN t -> Progress]
      BY <3>1 DEF TypeOK
    <3> QED
      BY <2>1, <3>1, <3>2 DEF TypeOK
  <2>3. taken' \subseteq Entries
    BY <2>1 DEF TypeOK
  <2> QED
    BY <2>1, <2>2, <2>3 DEF TypeOK
<1>9. ASSUME NEW task \in fires, Finish(task) PROVE TypeOK'
  <2>1. PICK again \in Seq(Entries) :
           /\ pool' = pool \o again
           /\ disk' = Without(disk, Done(task) \cap path)
           /\ settled' = settled \cup Done(task)
           /\ fires' = fires \ {task}
           /\ UNCHANGED <<up, crashes, window, gen, baked, path, taken, excused>>
    BY <1>9, FinishParts
  <2>2. pool' \in Seq(Entries) /\ disk' \in Seq(Entries)
    BY <2>1, ConcatProperties, WithoutProperties DEF TypeOK
  <2>3. settled' \subseteq Entries
    BY <2>1 DEF TypeOK, Done
  <2> QED
    BY <2>1, <2>2, <2>3 DEF TypeOK
<1>10. CASE Crash
  <2>1. PICK answered \in SUBSET InFire : \E deleted :
           /\ disk' = Without(disk, deleted)
           /\ settled' = settled \cup answered
           /\ excused' = excused \cup (answered \ deleted)
           /\ ~ up' /\ crashes' = crashes + 1 /\ crashes < MaxCrashes
           /\ pool' = <<>> /\ path' = {} /\ fires' = {} /\ gen' = NewBatch
           /\ UNCHANGED <<window, baked, taken>>
    BY <1>10, CrashParts
  <2>2. disk' \in Seq(Entries)
    BY <2>1, WithoutProperties DEF TypeOK
  <2>3. InFire \subseteq Entries
    BY DEF InFire, TypeOK
  <2>4. gen' \in [at : {"bake", "save"}, entries : Seq(Entries)] /\ gen'.at = "bake"
    BY <1>1, <2>1 DEF NewBatch
  <2>5. up' \in BOOLEAN /\ crashes' \in 0..MaxCrashes
    <3>1. crashes \in Nat /\ crashes < MaxCrashes /\ crashes' = crashes + 1 /\ MaxCrashes \in Nat
      BY <2>1, DeliveryAssumption DEF TypeOK
    <3>2. up' = FALSE
      BY <1>10 DEF Crash
    <3>3. crashes' \in 0..MaxCrashes
      BY <3>1
    <3>4. up' \in BOOLEAN
      BY <3>2, Zenon
    <3> QED
      BY <3>3, <3>4, Zenon
  <2> QED
    BY <1>1, <2>1, <2>2, <2>3, <2>4, <2>5 DEF TypeOK
<1>11. CASE Restart
  <2>1. Range(disk) \subseteq Entries
    BY RangeOfSeq DEF TypeOK
  <2> QED
    BY <1>11, <2>1 DEF Restart, TypeOK
<1>12. CASE UNCHANGED vars
  BY <1>12 DEF vars, TypeOK
<1> QED
  BY <1>2, <1>3, <1>4, <1>5, <1>6, <1>7, <1>8, <1>9, <1>10, <1>11, <1>12 DEF Next, FireTask

\* The state is of its type; in particular a fire task has finitely many entries.
THEOREM TypeCorrect == Spec => []TypeOK
BY TypeInit, TypeStep, PTL DEF Spec

-----------------------------------------------------------------------------
(***************************************************************************)
(* Who holds an entry.  What is baked next is nowhere yet, what is still   *)
(* to be saved has no file, and a process that is down holds nothing.      *)
(***************************************************************************)
HolderInv ==
  /\ OneHolder
  /\ IsInjective(gen.entries)
  /\ Range(gen.entries) \cap Range(disk) = {}
  /\ Range(pool) \cup Range(disk) \cup InFire \cup Range(gen.entries) \cup settled \subseteq baked
  /\ ~ up => pool = <<>> /\ path = {} /\ fires = {} /\ gen = NewBatch

LEMMA HolderInit == Init => HolderInv
<1>1. Range(<<>>) = {} /\ IsInjective(<<>>)
  BY DEF Range, IsInjective
<1> QED
  BY <1>1 DEF Init, HolderInv, OneHolder, InFire, NewBatch

LEMMA HolderStep == TypeOK /\ HolderInv /\ [Next]_vars => HolderInv'
<1> SUFFICES ASSUME TypeOK, HolderInv, [Next]_vars PROVE HolderInv'
  OBVIOUS
<1>1. Range(<<>>) = {} /\ IsInjective(<<>>)
  BY DEF Range, IsInjective
<1>2. /\ pool \in Seq(Entries) /\ disk \in Seq(Entries) /\ gen.entries \in Seq(Entries)
      /\ IsInjective(pool) /\ IsInjective(disk) /\ IsInjective(gen.entries)
  BY DEF TypeOK, HolderInv, OneHolder
<1>3. CASE Bake
  <2>1. PICK e \in Entries \ baked :
          /\ baked' = baked \cup {e} /\ pool' = Append(pool, e)
          /\ gen'.entries = Append(gen.entries, e)
    BY <1>3 DEF Bake, TypeOK
  <2>2. e \notin Range(pool) /\ e \notin Range(disk) /\ e \notin InFire /\ e \notin Range(gen.entries)
    BY <2>1 DEF HolderInv
  <2>3. /\ Range(pool') = Range(pool) \cup {e} /\ IsInjective(pool')
        /\ Range(gen'.entries) = Range(gen.entries) \cup {e} /\ IsInjective(gen'.entries)
    BY <1>2, <2>1, <2>2, RangeAppend, AppendDistinct
  <2>4. UNCHANGED <<up, disk, fires, settled>> /\ up
    BY <1>3 DEF Bake
  <2> QED
    BY <2>1, <2>2, <2>3, <2>4 DEF HolderInv, OneHolder, InFire
<1>4. CASE BatchEnds
  BY <1>4 DEF BatchEnds, HolderInv, OneHolder, InFire, TypeOK
<1>5. CASE save_entry \/ SaveFails
  <2>1. up /\ gen.at = "save" /\ (NextSave \/ gen' = NewBatch)
    BY <1>5 DEF save_entry, SaveFails
  <2>2. gen.entries # <<>>
    BY <2>1 DEF TypeOK
  <2>3. gen'.entries = <<>> \/ gen'.entries = Tail(gen.entries)
    BY <2>1, NextSaveType
  <2> DEFINE e == Head(gen.entries)
  <2>4. /\ e \in Entries /\ e \in Range(gen.entries)
        /\ Range(gen'.entries) \subseteq Range(gen.entries) \ {e}
        /\ IsInjective(gen'.entries)
    BY <1>1, <1>2, <2>2, <2>3, HeadTailProperties, TailDistinct
  <2>5. e \notin Range(disk)
    BY <2>4 DEF HolderInv
  <2>6. IsInjective(disk') /\ Range(disk') \subseteq Range(disk) \cup {e}
    <3>1. CASE disk' = Append(disk, e)
      BY <1>2, <2>4, <2>5, <3>1, RangeAppend, AppendDistinct
    <3>2. CASE disk' = disk
      BY <1>2, <3>2
    <3> QED
      BY <1>5, <3>1, <3>2 DEF save_entry, SaveFails
  <2>7. UNCHANGED <<up, pool, fires, settled, baked>>
    BY <1>5 DEF save_entry, SaveFails
  <2> HIDE DEF e
  <2> QED
    BY <2>1, <2>4, <2>6, <2>7 DEF HolderInv, OneHolder, InFire
<1>6. CASE UNCHANGED <<up, pool, gen, baked, disk, path, fires, settled>>
  BY <1>6 DEF HolderInv, OneHolder, InFire
<1>7. CASE Fire
  <2>1. PICK cooldown \in SUBSET Range(pool) : \E burst \in SUBSET (Range(pool) \ cooldown) :
           /\ pool' = Without(pool, cooldown \cup burst)
           /\ fires' = fires \/ fires' = fires \cup {[e \in burst |-> At("build")]}
           /\ settled' = settled \cup cooldown
           /\ disk' = Without(disk, cooldown \cap path)
           /\ up /\ UNCHANGED <<up, gen, baked>>
    BY <1>7, FireParts
  <2>2. PICK burst \in SUBSET (Range(pool) \ cooldown) :
           /\ pool' = Without(pool, cooldown \cup burst)
           /\ fires' = fires \/ fires' = fires \cup {[e \in burst |-> At("build")]}
    BY <2>1
  <2>3. /\ IsInjective(pool') /\ Range(pool') = Range(pool) \ (cooldown \cup burst)
        /\ IsInjective(disk') /\ Range(disk') \subseteq Range(disk)
    <3>1. IsInjective(pool') /\ Range(pool') = Range(pool) \ (cooldown \cup burst)
      BY <1>2, <2>2, WithoutProperties
    <3>2. disk' = Without(disk, cooldown \cap path)
      BY <2>1
    <3>3. IsInjective(disk') /\ Range(disk') \subseteq Range(disk)
      BY <1>2, <3>2, WithoutProperties
    <3> QED
      BY <3>1, <3>3
  <2> DEFINE new == [e \in burst |-> At("build")]
  <2>4. DOMAIN new = burst
    OBVIOUS
  <2> HIDE DEF new
  <2>5. fires' \subseteq fires \cup {new}
    BY <2>2 DEF new
  <2>6. burst \cap InFire = {}
    BY DEF HolderInv, OneHolder
  <2>7. \A f, g \in fires' : DOMAIN f \cap DOMAIN g # {} => f = g
    BY <2>4, <2>5, <2>6 DEF HolderInv, OneHolder, InFire
  <2>8. InFire' \subseteq InFire \cup burst
    BY <2>4, <2>5 DEF InFire
  <2>9. Range(pool') \cap InFire' = {}
    BY <2>3, <2>8 DEF HolderInv, OneHolder
  <2>10. OneHolder'
    BY <2>3, <2>7, <2>9 DEF OneHolder
  <2>11. /\ Range(pool') \subseteq baked /\ Range(disk') \subseteq baked
         /\ InFire' \subseteq baked /\ settled' \subseteq baked
    BY <2>1, <2>3, <2>8 DEF HolderInv
  <2>12. up'
    BY <2>1
  <2>13. Range(gen.entries) \cap Range(disk') = {}
    BY <2>3 DEF HolderInv
  <2>14. gen' = gen /\ baked' = baked
    BY <2>1
  <2> QED
    BY <2>10, <2>11, <2>12, <2>13, <2>14 DEF HolderInv
<1>8. ASSUME NEW task \in fires, NEW e \in DOMAIN task, Deliver(task, e) PROVE HolderInv'
  <2>1. PICK p \in Progress :
           /\ fires' = (fires \ {task}) \cup {[task EXCEPT ![e] = p]}
           /\ UNCHANGED <<up, pool, gen, baked, disk, path, settled>>
           /\ up
    BY <1>8, DeliverParts
  <2>2. PICK t : t = [task EXCEPT ![e] = p]
    OBVIOUS
  <2>3. DOMAIN t = DOMAIN task
    BY <2>2
  <2>4. \A f, g \in fires' : DOMAIN f \cap DOMAIN g # {} => f = g
    BY <2>1, <2>2, <2>3 DEF HolderInv, OneHolder
  <2>5. InFire' = InFire
    BY <2>1, <2>2, <2>3 DEF InFire
  <2> QED
    BY <2>1, <2>4, <2>5 DEF HolderInv, OneHolder
<1>9. ASSUME NEW task \in fires, Finish(task) PROVE HolderInv'
  <2>1. PICK again \in Seq(Entries) :
           /\ IsInjective(again)
           /\ Range(again) \subseteq DOMAIN task \ Done(task)
           /\ up /\ pool' = pool \o again
           /\ disk' = Without(disk, Done(task) \cap path)
           /\ settled' = settled \cup Done(task)
           /\ fires' = fires \ {task}
           /\ UNCHANGED <<up, gen, baked>>
    BY <1>9, FinishParts
  <2>2. DOMAIN task \subseteq InFire /\ Done(task) \subseteq DOMAIN task
    BY DEF InFire, Done
  <2>3. IsInjective(pool') /\ Range(pool') = Range(pool) \cup Range(again)
    <3>1. Range(pool) \cap Range(again) = {}
      BY <2>1, <2>2 DEF HolderInv, OneHolder
    <3> QED
      BY <1>2, <2>1, <3>1, ConcatDistinct, RangeConcatenation
  <2>4. IsInjective(disk') /\ Range(disk') \subseteq Range(disk)
    BY <1>2, <2>1, WithoutProperties
  <2>5. InFire' \subseteq InFire \ DOMAIN task
    BY <2>1 DEF HolderInv, OneHolder, InFire
  <2>6. \A f, g \in fires' : DOMAIN f \cap DOMAIN g # {} => f = g
    BY <2>1 DEF HolderInv, OneHolder
  <2> QED
    BY <2>1, <2>2, <2>3, <2>4, <2>5, <2>6 DEF HolderInv, OneHolder
<1>10. CASE Crash
  <2>1. PICK answered \in SUBSET InFire : \E deleted :
           /\ disk' = Without(disk, deleted)
           /\ settled' = settled \cup answered
           /\ pool' = <<>> /\ path' = {} /\ fires' = {} /\ gen' = NewBatch
           /\ ~ up' /\ UNCHANGED baked
    BY <1>10, CrashParts
  <2>2. IsInjective(disk') /\ Range(disk') \subseteq Range(disk)
    BY <1>2, <2>1, WithoutProperties
  <2>3. InFire' = {} /\ gen'.entries = <<>>
    BY <2>1 DEF InFire, NewBatch
  <2> QED
    BY <1>1, <2>1, <2>2, <2>3 DEF HolderInv, OneHolder
<1>11. CASE Restart
  <2>1. pool' = disk /\ up' /\ fires = {} /\ UNCHANGED <<gen, baked, disk, fires, settled>>
    BY <1>11 DEF Restart, HolderInv
  <2>2. InFire = {} /\ InFire' = {}
    BY <2>1 DEF InFire
  <2> QED
    BY <2>1, <2>2 DEF HolderInv, OneHolder
<1>12. CASE Window \/ Forfeit \/ UNCHANGED vars
  BY <1>6, <1>12 DEF Window, Forfeit, vars
<1> QED
  BY <1>3, <1>4, <1>5, <1>7, <1>8, <1>9, <1>10, <1>11, <1>12 DEF Next, FireTask

\* No two fire tasks ever hold the same entry, and none holds one of the pool.
THEOREM OneHolderAlways == Spec => []OneHolder
<1>1. HolderInv => OneHolder
  BY DEF HolderInv
<1> QED
  BY <1>1, TypeInit, TypeStep, HolderInit, HolderStep, PTL DEF Spec

-----------------------------------------------------------------------------
(***************************************************************************)
(* What is settled.  An entry with a file is known to have one, so that    *)
(* settling it deletes the file; what is settled and still somewhere is    *)
(* excused, and the sets of entries are disjoint, so that settling one     *)
(* leaves no copy behind.                                                  *)
(***************************************************************************)
SettledInv ==
  /\ up => Range(disk) \subseteq path
  /\ (Range(pool) \cup Range(disk) \cup InFire) \cap settled \subseteq excused
  /\ SavedIsKept

LEMMA SettledInit == Init => SettledInv
<1>1. Range(<<>>) = {}
  BY DEF Range
<1> QED
  BY <1>1 DEF Init, SettledInv, InFire, SavedIsKept

LEMMA SettledStep == TypeOK /\ HolderInv /\ SettledInv /\ [Next]_vars => SettledInv'
<1> SUFFICES ASSUME TypeOK, HolderInv, SettledInv, [Next]_vars PROVE SettledInv'
  OBVIOUS
<1>1. Range(<<>>) = {}
  BY DEF Range
<1>2. pool \in Seq(Entries) /\ disk \in Seq(Entries) /\ gen.entries \in Seq(Entries)
  BY DEF TypeOK
<1>3. CASE Bake
  <2>1. PICK e \in Entries \ baked : pool' = Append(pool, e)
    BY <1>3 DEF Bake
  <2>2. Range(pool') = Range(pool) \cup {e} /\ e \notin settled
    BY <1>2, <2>1, RangeAppend DEF HolderInv
  <2>3. UNCHANGED <<up, disk, path, fires, settled, excused>>
    BY <1>3 DEF Bake
  <2> QED
    BY <2>2, <2>3 DEF SettledInv, InFire, SavedIsKept
<1>4. CASE save_entry
  <2> DEFINE e == Head(gen.entries)
  <2>1. e \in Entries
    BY <1>2, <1>4, HeadTailProperties DEF save_entry, TypeOK
  <2>2. Range(disk') = Range(disk) \cup {e}
    BY <1>2, <1>4, <2>1, RangeAppend DEF save_entry
  <2>3. /\ path' = path \cup {e} /\ excused' = excused \cup ({e} \cap settled)
        /\ UNCHANGED <<up, pool, fires, settled>> /\ up
    BY <1>4 DEF save_entry
  <2> HIDE DEF e
  <2> QED
    BY <2>2, <2>3 DEF SettledInv, InFire, SavedIsKept
<1>5. CASE UNCHANGED <<up, pool, disk, path, fires, settled, excused>>
  BY <1>5 DEF SettledInv, InFire, SavedIsKept
<1>6. CASE Fire
  <2>1. PICK cooldown \in SUBSET Range(pool) : \E burst \in SUBSET (Range(pool) \ cooldown) :
           /\ pool' = Without(pool, cooldown \cup burst)
           /\ fires' = fires \/ fires' = fires \cup {[e \in burst |-> At("build")]}
           /\ settled' = settled \cup cooldown
           /\ disk' = Without(disk, cooldown \cap path)
           /\ up /\ UNCHANGED <<up, path, excused>>
    BY <1>6, FireParts
  <2>2. PICK burst \in SUBSET (Range(pool) \ cooldown) :
           /\ pool' = Without(pool, cooldown \cup burst)
           /\ fires' = fires \/ fires' = fires \cup {[e \in burst |-> At("build")]}
    BY <2>1
  <2>3. Range(pool') = Range(pool) \ (cooldown \cup burst)
    BY <1>2, <2>2, WithoutProperties
  <2>4. Range(disk') = Range(disk) \ (cooldown \cap path)
    BY <1>2, <2>1, WithoutProperties
  <2>5. InFire' \subseteq InFire \cup burst
    <3>1. PICK new : new = [e \in burst |-> At("build")]
      OBVIOUS
    <3>2. DOMAIN new = burst
      BY <3>1
    <3> QED
      BY <2>2, <3>1, <3>2 DEF InFire
  <2>6. InFire \cap cooldown = {}
    BY DEF HolderInv, OneHolder
  <2>7. (Range(pool') \cup Range(disk') \cup InFire') \cap settled' \subseteq excused
    BY <2>1, <2>2, <2>3, <2>4, <2>5, <2>6 DEF SettledInv
  <2>8. SavedIsKept'
    BY <2>1, <2>4 DEF SettledInv, SavedIsKept
  <2> QED
    BY <2>1, <2>4, <2>7, <2>8 DEF SettledInv
<1>7. ASSUME NEW task \in fires, NEW e \in DOMAIN task, Deliver(task, e) PROVE SettledInv'
  <2>1. PICK p \in Progress :
           /\ fires' = (fires \ {task}) \cup {[task EXCEPT ![e] = p]}
           /\ UNCHANGED <<up, pool, disk, path, settled, excused>>
    BY <1>7, DeliverParts
  <2>2. InFire' = InFire
    <3>1. PICK t : t = [task EXCEPT ![e] = p]
      OBVIOUS
    <3>2. DOMAIN t = DOMAIN task
      BY <3>1
    <3> QED
      BY <2>1, <3>1, <3>2 DEF InFire
  <2> QED
    BY <2>1, <2>2 DEF SettledInv, SavedIsKept
<1>8. ASSUME NEW task \in fires, Finish(task) PROVE SettledInv'
  <2>1. PICK again \in Seq(Entries) :
           /\ Range(again) \subseteq DOMAIN task \ Done(task)
           /\ up /\ pool' = pool \o again
           /\ disk' = Without(disk, Done(task) \cap path)
           /\ settled' = settled \cup Done(task)
           /\ fires' = fires \ {task}
           /\ UNCHANGED <<up, path, excused>>
    BY <1>8, FinishParts
  <2>2. DOMAIN task \subseteq InFire /\ Done(task) \subseteq DOMAIN task
    BY DEF InFire, Done
  <2>3. Range(pool') = Range(pool) \cup Range(again)
    BY <1>2, <2>1, RangeConcatenation
  <2>4. Range(disk') = Range(disk) \ (Done(task) \cap path)
    BY <1>2, <2>1, WithoutProperties
  <2>5. InFire' \subseteq InFire \ DOMAIN task
    BY <2>1 DEF HolderInv, OneHolder, InFire
  <2>6. Range(pool) \cap Done(task) = {}
    BY <2>2 DEF HolderInv, OneHolder
  <2>7. (Range(pool') \cup Range(disk') \cup InFire') \cap settled' \subseteq excused
    BY <2>1, <2>2, <2>3, <2>4, <2>5, <2>6 DEF SettledInv
  <2>8. SavedIsKept'
    BY <2>1, <2>4 DEF SettledInv, SavedIsKept
  <2> QED
    BY <2>1, <2>4, <2>7, <2>8 DEF SettledInv
<1>9. CASE Crash
  <2>1. PICK answered \in SUBSET InFire : \E deleted :
           /\ disk' = Without(disk, deleted)
           /\ settled' = settled \cup answered
           /\ excused' = excused \cup (answered \ deleted)
           /\ ~ up' /\ pool' = <<>> /\ path' = {} /\ fires' = {}
    BY <1>9, CrashParts
  <2>2. PICK deleted :
           /\ disk' = Without(disk, deleted)
           /\ excused' = excused \cup (answered \ deleted)
    BY <2>1
  <2>3. Range(disk') = Range(disk) \ deleted
    BY <1>2, <2>2, WithoutProperties
  <2>4. InFire' = {} /\ Range(pool') = {}
    BY <1>1, <2>1 DEF InFire
  <2>5. (Range(pool') \cup Range(disk') \cup InFire') \cap settled' \subseteq excused'
    BY <2>1, <2>2, <2>3, <2>4 DEF SettledInv
  <2>6. SavedIsKept'
    BY <2>1 DEF SavedIsKept
  <2> QED
    BY <2>1, <2>5, <2>6 DEF SettledInv
<1>10. CASE Restart
  <2>1. /\ pool' = disk /\ path' = Range(disk)
        /\ UNCHANGED <<disk, fires, settled, excused>>
    BY <1>10 DEF Restart
  <2> QED
    BY <2>1 DEF SettledInv, InFire, SavedIsKept
<1>11. CASE BatchEnds \/ SaveFails \/ Window \/ Forfeit \/ UNCHANGED vars
  BY <1>5, <1>11 DEF BatchEnds, SaveFails, Window, Forfeit, vars
<1> QED
  BY <1>3, <1>4, <1>6, <1>7, <1>8, <1>9, <1>10, <1>11 DEF Next, FireTask

\* Once saved, an entry is on disk until it is settled, through any crash.
THEOREM SavedStays == Spec => []SavedIsKept
<1>1. SettledInv => SavedIsKept
  BY DEF SettledInv
<1> QED
  BY <1>1, TypeInit, TypeStep, HolderInit, HolderStep, SettledInit, SettledStep, PTL DEF Spec

\* What is settled comes back to the pool only with an excuse: a crash between
\* the answer and the deletion, or a file written after the entry was drained.
THEOREM ComesBackExcused == Spec => []SettledComesBackExcused
<1>1. SettledInv => SettledComesBackExcused
  BY DEF SettledInv, SettledComesBackExcused
<1> QED
  BY <1>1, TypeInit, TypeStep, HolderInit, HolderStep, SettledInit, SettledStep, PTL DEF Spec

-----------------------------------------------------------------------------
(***************************************************************************)
(* What becomes of the submissions (VerdictLoop): the miner polls the      *)
(* verdicts and gives their outcomes to the mix of environments.  The      *)
(* state of that module is apart from that of the delivery: the roots      *)
(* are those of the entries that were posted.                              *)
(***************************************************************************)
\* A verdict; the place of each in the ring is its ts, and a root is judged once.
Verdicts == [root : Nat, ts : Nat, rewarded : BOOLEAN \cup {NOT_YET}]

RingInv ==
  /\ sent \in Nat /\ DOMAIN submitted_env \subseteq 1..sent
  /\ ring \in Seq(Verdicts)
  /\ \A i \in 1..Len(ring) : ring[i].root \in 1..sent /\ ring[i].ts = i
  /\ \A i, j \in 1..Len(ring) : ring[i].root = ring[j].root => i = j
  /\ verdicts_since \in 0..Len(ring)

\* What was fetched goes on where the cursor is.
ReplyInv ==
  /\ reply \in Seq(Verdicts) /\ verdicts_since + Len(reply) <= Len(ring)
  /\ \A j \in 1..Len(reply) :
       reply[j].root = ring[verdicts_since + j].root /\ reply[j].ts = verdicts_since + j

\* Two roots come in the order of the ring, both not after n.
InRingOrder(root, later, n) ==
  \E k, l \in 1..n : k < l /\ ring[k].root = root /\ ring[l].root = later

\* What was counted is not after the cursor, and in the order of the ring.
FedInv ==
  /\ fed \in Seq(Nat)
  /\ \A i \in 1..Len(fed) : \E k \in 1..verdicts_since : ring[k].root = fed[i]
  /\ \A i, j \in 1..Len(fed) : i < j => InRingOrder(fed[i], fed[j], verdicts_since)

\* Nothing that the miner knows is passed over: also not what had no outcome when
\* the cursor passed it, and has one by now.
PassedInv ==
  \A i \in 1..verdicts_since :
    ring[i].root \in DOMAIN submitted_env => ring[i].root \in Range(fed) \cup unripe

VerdictInv == RingInv /\ ReplyInv /\ FedInv /\ PassedInv

\* The invariant is enough.
LEMMA CountedOnce == ASSUME VerdictInv PROVE OutcomesCountOnce
<1> DEFINE TsOf(root) == CHOOSE i \in DOMAIN ring : ring[i].root = root
<1>1. /\ DOMAIN ring = 1..Len(ring) /\ Len(ring) \in Nat /\ DOMAIN fed = 1..Len(fed)
      /\ verdicts_since \in 0..Len(ring)
      /\ \A i, j \in 1..Len(ring) : ring[i].root = ring[j].root => i = j
  BY LenProperties DEF VerdictInv, RingInv, FedInv
<1>2. ASSUME NEW k \in 1..Len(ring) PROVE TsOf(ring[k].root) = k
  BY <1>1
<1> HIDE DEF TsOf
<1>3. ASSUME NEW i \in DOMAIN fed, NEW j \in DOMAIN fed, i < j PROVE TsOf(fed[i]) < TsOf(fed[j])
  <2>1. PICK k \in 1..verdicts_since, l \in 1..verdicts_since :
          k < l /\ ring[k].root = fed[i] /\ ring[l].root = fed[j]
    <3>1. InRingOrder(fed[i], fed[j], verdicts_since)
      BY <1>1, <1>3 DEF VerdictInv, FedInv
    <3> QED
      BY <3>1 DEF InRingOrder
  <2>2. k \in 1..Len(ring) /\ l \in 1..Len(ring)
    BY <1>1
  <2>3. TsOf(fed[i]) = k /\ TsOf(fed[j]) = l
    BY <1>2, <2>1, <2>2
  <2> QED
    BY <2>1, <2>3
<1>4. ASSUME NEW i \in DOMAIN ring, HasOutcome(ring[i]) /\ i <= verdicts_since
      PROVE  ring[i].root \in ToSet(fed) \cup unripe
  <2>1. i \in 1..verdicts_since /\ ring[i].root \in DOMAIN submitted_env
    BY <1>1, <1>4 DEF HasOutcome
  <2>2. ring[i].root \in Range(fed) \cup unripe
    BY <2>1 DEF VerdictInv, PassedInv
  <2>3. ToSet(fed) = Range(fed)
    BY DEF ToSet, Range
  <2> QED
    BY <2>2, <2>3
<1> QED
  BY <1>3, <1>4 DEF OutcomesCountOnce, TsOf

LEMMA VerdictInitially == VerdictInit => VerdictInv
<1> SUFFICES ASSUME VerdictInit PROVE VerdictInv
  OBVIOUS
<1>1. /\ sent = 0 /\ DOMAIN submitted_env = {} /\ ring = <<>> /\ reply = <<>> /\ fed = <<>>
      /\ verdicts_since = 0
  BY DEF VerdictInit, NobodySubmitted
<1>2. <<>> \in Seq(Verdicts) /\ <<>> \in Seq(Nat) /\ Len(<<>>) = 0 /\ 1..0 = {}
  OBVIOUS
<1>3. RingInv
  BY <1>1, <1>2 DEF RingInv
<1>4. ReplyInv
  BY <1>1, <1>2 DEF ReplyInv
<1>5. FedInv
  BY <1>1, <1>2 DEF FedInv
<1>6. PassedInv
  BY <1>1, <1>2 DEF PassedInv
<1> QED
  BY <1>3, <1>4, <1>5, <1>6 DEF VerdictInv

\* The validator goes on judging, or fills in an outcome.
LEMMA RingGrows ==
  ASSUME VerdictInv, RingInv', Len(ring) <= Len(ring'),
         \A i \in 1..Len(ring) : ring'[i].root = ring[i].root,
         UNCHANGED <<submitted_env, reply, verdicts_since, fed, unripe>>
  PROVE  VerdictInv'
<1>1. /\ Len(ring) \in Nat /\ Len(ring') \in Nat /\ verdicts_since \in 0..Len(ring)
      /\ Len(reply) \in Nat
  BY LenProperties DEF VerdictInv, RingInv, ReplyInv
<1>2. 1..verdicts_since \subseteq 1..Len(ring)
  BY <1>1
<1>3. ReplyInv'
  <2>1. \A j \in 1..Len(reply) : verdicts_since + j \in 1..Len(ring)
    BY <1>1 DEF VerdictInv, ReplyInv
  <2>2. verdicts_since + Len(reply) <= Len(ring')
    BY <1>1 DEF VerdictInv, ReplyInv
  <2> QED
    BY <2>1, <2>2 DEF VerdictInv, ReplyInv
<1>4. FedInv'
  <2>1. \A i \in 1..Len(fed) : \E k \in 1..verdicts_since : ring'[k].root = fed[i]
    BY <1>2 DEF VerdictInv, FedInv
  <2>2. \A i, j \in 1..Len(fed) : i < j =>
          \E k, l \in 1..verdicts_since : k < l /\ ring'[k].root = fed[i] /\ ring'[l].root = fed[j]
    <3> SUFFICES ASSUME NEW i \in 1..Len(fed), NEW j \in 1..Len(fed), i < j
                 PROVE  \E k, l \in 1..verdicts_since :
                          k < l /\ ring'[k].root = fed[i] /\ ring'[l].root = fed[j]
      OBVIOUS
    <3>1. PICK k \in 1..verdicts_since, l \in 1..verdicts_since :
            k < l /\ ring[k].root = fed[i] /\ ring[l].root = fed[j]
      BY DEF VerdictInv, FedInv, InRingOrder
    <3> QED
      BY <1>2, <3>1
  <2> QED
    BY <2>1, <2>2 DEF VerdictInv, FedInv, InRingOrder
<1>5. PassedInv'
  BY <1>2 DEF VerdictInv, PassedInv
<1> QED
  BY <1>3, <1>4, <1>5 DEF VerdictInv

LEMMA RecordKeeps ==
  ASSUME VerdictInv, NEW e, RecordSubmission(e) PROVE VerdictInv'
<1>1. /\ sent' = sent + 1 /\ DOMAIN submitted_env' = DOMAIN submitted_env \cup {sent + 1}
      /\ UNCHANGED <<ring, reply, verdicts_since, fed, unripe>>
  BY DEF RecordSubmission
<1>2. sent \in Nat /\ 1..sent \subseteq 1..(sent + 1) /\ sent + 1 \in 1..(sent + 1) /\ sent + 1 \notin 1..sent
  BY DEF VerdictInv, RingInv
<1>3. RingInv'
  BY <1>1, <1>2 DEF VerdictInv, RingInv
<1>4. PassedInv'
  <2>1. \A i \in 1..verdicts_since : ring[i].root \in 1..sent
    BY DEF VerdictInv, RingInv
  <2> QED
    BY <1>1, <1>2, <2>1 DEF VerdictInv, PassedInv
<1>5. ReplyInv' /\ FedInv'
  BY <1>1 DEF VerdictInv, ReplyInv, FedInv, InRingOrder
<1> QED
  BY <1>3, <1>4, <1>5 DEF VerdictInv

LEMMA JudgeKeeps ==
  ASSUME VerdictInv, NEW root \in 1..sent, Judge(root) PROVE VerdictInv'
<1>1. PICK rewarded \in BOOLEAN \cup {NOT_YET} :
        ring' = Append(ring, [root |-> root, ts |-> Len(ring) + 1, rewarded |-> rewarded])
  BY DEF Judge
<1> DEFINE v == [root |-> root, ts |-> Len(ring) + 1, rewarded |-> rewarded]
<1>2. ring \in Seq(Verdicts) /\ Len(ring) \in Nat /\ DOMAIN ring = 1..Len(ring) /\ root \in Nat
  BY LenProperties DEF VerdictInv, RingInv
<1>3. v \in Verdicts /\ v.root = root /\ v.ts = Len(ring) + 1
  BY <1>2 DEF Verdicts
<1> HIDE DEF v
<1>4. /\ ring' \in Seq(Verdicts) /\ Len(ring') = Len(ring) + 1
      /\ \A i \in 1..Len(ring) : ring'[i] = ring[i]
      /\ ring'[Len(ring) + 1] = v
  BY <1>1, <1>2, <1>3, AppendProperties DEF v
<1>5. \A i \in 1..Len(ring') : i \in 1..Len(ring) \/ i = Len(ring) + 1
  BY <1>2, <1>4
<1>6. \A i \in 1..Len(ring) : ring[i].root # root
  BY <1>2 DEF Judge
<1>7. UNCHANGED <<sent, submitted_env, reply, verdicts_since, fed, unripe>>
  BY DEF Judge
<1>8. RingInv'
  <2>1. \A i \in 1..Len(ring') : ring'[i].root \in 1..sent /\ ring'[i].ts = i
    BY <1>3, <1>4, <1>5 DEF VerdictInv, RingInv
  <2>2. \A i, j \in 1..Len(ring') : ring'[i].root = ring'[j].root => i = j
    BY <1>3, <1>4, <1>5, <1>6 DEF VerdictInv, RingInv
  <2>3. verdicts_since \in 0..Len(ring')
    BY <1>2, <1>4 DEF VerdictInv, RingInv
  <2> QED
    BY <1>4, <1>7, <2>1, <2>2, <2>3 DEF VerdictInv, RingInv
<1>9. Len(ring) <= Len(ring')
  BY <1>2, <1>4
<1> QED
  BY <1>4, <1>7, <1>8, <1>9, RingGrows

LEMMA EnrichKeeps ==
  ASSUME VerdictInv, NEW i \in DOMAIN ring, Enrich(i) PROVE VerdictInv'
<1>1. PICK rewarded \in BOOLEAN : ring' = [ring EXCEPT ![i].rewarded = rewarded]
  BY DEF Enrich
<1>2. ring \in Seq(Verdicts) /\ Len(ring) \in Nat /\ DOMAIN ring = 1..Len(ring)
  BY LenProperties DEF VerdictInv, RingInv
<1>3. \A j \in 1..Len(ring) : ring[j] \in Verdicts
  BY <1>2, ElementOfSeq
<1>4. \A j \in 1..Len(ring) :
        ring'[j] \in Verdicts /\ ring'[j].root = ring[j].root /\ ring'[j].ts = ring[j].ts
  BY <1>1, <1>2, <1>3 DEF Verdicts
<1>5. ring' \in Seq(Verdicts) /\ Len(ring') = Len(ring)
  <2>1. ring' = [j \in 1..Len(ring) |-> ring'[j]]
    BY <1>1, <1>2
  <2>2. ring' \in [1..Len(ring) -> Verdicts]
    BY <1>4, <2>1
  <2> QED
    BY <1>2, <2>2, FunctionIsSeq
<1>6. UNCHANGED <<sent, submitted_env, reply, verdicts_since, fed, unripe>>
  BY DEF Enrich
<1>7. RingInv'
  BY <1>4, <1>5, <1>6 DEF VerdictInv, RingInv
<1>8. Len(ring) <= Len(ring')
  BY <1>2, <1>5
<1> QED
  BY <1>4, <1>6, <1>7, <1>8, RingGrows

\* What is fetched is what the ring has beyond the cursor.
LEMMA FetchKeeps == ASSUME VerdictInv, fetch_verdicts PROVE VerdictInv'
<1> DEFINE keep == {v \in ToSet(ring) : v.ts > verdicts_since}
           k == verdicts_since
<1>1. /\ ring \in Seq(Verdicts) /\ Len(ring) \in Nat /\ DOMAIN ring = 1..Len(ring)
      /\ k \in 0..Len(ring) /\ \A i \in 1..Len(ring) : ring[i].ts = i
  BY LenProperties DEF VerdictInv, RingInv
<1>2. reply' = Filtered(ring, keep)
  BY DEF fetch_verdicts
<1>3. \A i \in 1..Len(ring) : ring[i] \in keep <=> i > k
  BY <1>1 DEF ToSet
<1> HIDE DEF keep
<1>4. /\ reply' \in Seq(Verdicts) /\ Len(reply') = Len(ring) - k
      /\ \A j \in 1..(Len(ring) - k) : reply'[j] = ring[k + j]
  <2> HIDE DEF k
  <2>1. Filtered(ring, keep) \in Seq(Verdicts) /\ IsRest(Filtered(ring, keep), ring, k)
    BY <1>1, <1>3, FilterSuffix
  <2> QED
    BY <1>2, <2>1 DEF IsRest
<1>5. \A j \in 1..(Len(ring) - k) : k + j \in 1..Len(ring)
  BY <1>1
<1>6. UNCHANGED <<sent, submitted_env, ring, verdicts_since, fed, unripe>>
  BY DEF fetch_verdicts
<1>7. ReplyInv'
  <2>1. k + Len(reply') <= Len(ring)
    BY <1>1, <1>4
  <2> QED
    BY <1>1, <1>4, <1>5, <1>6, <2>1 DEF ReplyInv
<1>8. RingInv' /\ FedInv' /\ PassedInv'
  BY <1>6 DEF VerdictInv, RingInv, FedInv, PassedInv, InRingOrder
<1> QED
  BY <1>7, <1>8 DEF VerdictInv

LEMMA RestartKeeps == ASSUME VerdictInv, RestartMiner PROVE VerdictInv'
<1>1. /\ DOMAIN submitted_env' = {} /\ verdicts_since' = 0 /\ reply' = <<>> /\ fed' = <<>>
      /\ UNCHANGED <<sent, ring>>
  BY DEF RestartMiner, NobodySubmitted
<1>2. <<>> \in Seq(Verdicts) /\ <<>> \in Seq(Nat) /\ Len(<<>>) = 0 /\ 1..0 = {} /\ Len(ring) \in Nat
  BY LenProperties DEF VerdictInv, RingInv
<1>3. RingInv'
  <2>1. 0 \in 0..Len(ring)
    BY <1>2
  <2> QED
    BY <1>1, <2>1 DEF VerdictInv, RingInv
<1>4. ReplyInv'
  BY <1>1, <1>2 DEF ReplyInv
<1>5. FedInv'
  BY <1>1, <1>2 DEF FedInv
<1>6. PassedInv'
  BY <1>1, <1>2 DEF PassedInv
<1> QED
  BY <1>3, <1>4, <1>5, <1>6 DEF VerdictInv

\* A poll counts what it has outcomes of, notes what it has none of, and moves the
\* cursor behind all of it.
LEMMA TickKeeps == ASSUME VerdictAssumption, VerdictInv, _tick_verdicts PROVE VerdictInv'
<1> DEFINE known == {v \in ToSet(reply) : HasOutcome(v)}
           outcomes == Filtered(reply, known)
           roots == [i \in DOMAIN outcomes |-> outcomes[i].root]
           since == verdicts_since
           cursor == Max({v.ts : v \in ToSet(reply)} \cup {since})
           n == Len(reply)
<1>1. /\ ring \in Seq(Verdicts) /\ Len(ring) \in Nat /\ since \in 0..Len(ring)
      /\ reply \in Seq(Verdicts) /\ n \in Nat /\ DOMAIN reply = 1..n /\ since + n <= Len(ring)
      /\ \A j \in 1..n : /\ reply[j].root = ring[since + j].root /\ reply[j].ts = since + j
                         /\ reply[j] \in Verdicts
  BY LenProperties, ElementOfSeq DEF VerdictInv, RingInv, ReplyInv
<1>2. /\ reply # <<>> /\ fed' = fed \o roots
      /\ unripe' = unripe \cup {v.root : v \in {v \in ToSet(reply) : v.rewarded = NOT_YET}}
      /\ verdicts_since' = cursor /\ reply' = <<>> /\ UNCHANGED <<sent, ring>>
      /\ DOMAIN submitted_env' \subseteq DOMAIN submitted_env
  BY DEF _tick_verdicts, TickWith
<1>3. n # 0
  BY <1>1, <1>2, EmptySeq
<1>4. cursor = since + n
  <2> DEFINE T == {v.ts : v \in ToSet(reply)} \cup {since}
  <2>1. ToSet(reply) = {reply[j] : j \in 1..n}
    BY <1>1 DEF ToSet
  <2>2. since + n \in T
    <3>1. n \in 1..n
      BY <1>1, <1>3
    <3> QED
      BY <1>1, <2>1, <3>1
  <2>3. \A x \in T : x \in Nat /\ since + n >= x
    <3>1. \A j \in 1..n : reply[j].ts \in Nat /\ since + n >= reply[j].ts
      BY <1>1
    <3>2. since \in Nat /\ since + n >= since
      BY <1>1
    <3> QED
      BY <2>1, <3>1, <3>2
  <2> HIDE DEF T
  <2>4. Max(T) \in T /\ \A x \in T : Max(T) >= x
    BY <2>2, <2>3 DEF Max
  <2>5. Max(T) = since + n
    BY <1>1, <2>2, <2>3, <2>4
  <2> QED
    BY <2>5 DEF T
<1>5. /\ outcomes \in Seq(Verdicts) /\ Range(outcomes) = Range(reply) \cap known
      /\ \A i, j \in 1..Len(outcomes) : i < j =>
           \E p, q \in 1..n : p < q /\ outcomes[i] = reply[p] /\ outcomes[j] = reply[q]
  <2> HIDE DEF known
  <2>1. outcomes \in Seq(Verdicts) /\ Range(outcomes) = Range(reply) \cap known
    BY <1>1, FilterProperties
  <2>2. \A i, j \in 1..Len(outcomes) : i < j =>
          \E p, q \in 1..n : p < q /\ outcomes[i] = reply[p] /\ outcomes[j] = reply[q]
    <3>1. InOrderOf(outcomes, reply)
      BY <1>1, FilterOrder
    <3> HIDE DEF outcomes
    <3> QED
      BY <3>1 DEF InOrderOf
  <2> QED
    BY <2>1, <2>2
<1> HIDE DEF outcomes, cursor
<1>6. Len(outcomes) \in Nat /\ DOMAIN outcomes = 1..Len(outcomes)
  BY <1>5, LenProperties
<1>7. \A i \in 1..Len(outcomes) : \E p \in 1..n : outcomes[i] = reply[p]
  <2>1. Range(outcomes) \subseteq Range(reply)
    BY <1>5
  <2>2. \A i \in 1..Len(outcomes) : outcomes[i] \in Range(reply)
    BY <1>6, <2>1 DEF Range
  <2>3. \A x \in Range(reply) : \E p \in 1..n : x = reply[p]
    BY <1>1 DEF Range
  <2> QED
    BY <2>2, <2>3
<1>8. roots \in Seq(Nat) /\ Len(roots) = Len(outcomes) /\ \A i \in 1..Len(outcomes) : roots[i] = outcomes[i].root
  <2>1. \A i \in 1..Len(outcomes) : outcomes[i].root \in Nat
    <3>1. \A i \in 1..Len(outcomes) : outcomes[i] \in Verdicts
      BY <1>5, ElementOfSeq
    <3> QED
      BY <3>1 DEF Verdicts
  <2>2. roots \in [1..Len(outcomes) -> Nat]
    BY <1>6, <2>1
  <2> QED
    BY <1>6, <2>2, FunctionIsSeq
<1> HIDE DEF roots
<1>9. fed \in Seq(Nat) /\ Len(fed) \in Nat
  BY LenProperties DEF VerdictInv, FedInv
<1>10. /\ fed' \in Seq(Nat) /\ Len(fed') = Len(fed) + Len(outcomes)
       /\ \A i \in 1..Len(fed') :
            fed'[i] = IF i <= Len(fed) THEN fed[i] ELSE roots[i - Len(fed)]
  <2>1. /\ fed \o roots \in Seq(Nat) /\ Len(fed \o roots) = Len(fed) + Len(roots)
        /\ \A i \in 1..Len(fed) + Len(roots) :
             (fed \o roots)[i] = IF i <= Len(fed) THEN fed[i] ELSE roots[i - Len(fed)]
    BY <1>8, <1>9, ConcatProperties
  <2> HIDE DEF known
  <2> QED
    BY <1>2, <1>8, <2>1
<1> HIDE DEF known
<1>11. \A i \in 1..Len(fed') : (i \in 1..Len(fed) /\ fed'[i] = fed[i])
                               \/ (i - Len(fed) \in 1..Len(outcomes) /\ fed'[i] = outcomes[i - Len(fed)].root)
  <2> SUFFICES ASSUME NEW i \in 1..Len(fed')
               PROVE  \/ i \in 1..Len(fed) /\ fed'[i] = fed[i]
                      \/ /\ i - Len(fed) \in 1..Len(outcomes)
                         /\ fed'[i] = outcomes[i - Len(fed)].root
    OBVIOUS
  <2>1. fed'[i] = IF i <= Len(fed) THEN fed[i] ELSE roots[i - Len(fed)]
    BY <1>10
  <2>2. CASE i <= Len(fed)
    BY <1>9, <2>1, <2>2
  <2>3. CASE ~ (i <= Len(fed))
    <3>1. i - Len(fed) \in 1..Len(outcomes)
      BY <1>6, <1>9, <1>10, <2>3
    <3>2. roots[i - Len(fed)] = outcomes[i - Len(fed)].root
      BY <1>8, <3>1
    <3> QED
      BY <2>1, <2>3, <3>1, <3>2
  <2> QED
    BY <2>2, <2>3
<1>12. 1..since \subseteq 1..(since + n) /\ \A p \in 1..n : since + p \in 1..(since + n)
  BY <1>1
<1>13. RingInv'
  <2>1. cursor \in 0..Len(ring)
    BY <1>1, <1>4
  <2> QED
    BY <1>2, <2>1 DEF VerdictInv, RingInv
<1>14. ReplyInv'
  <2>1. <<>> \in Seq(Verdicts) /\ Len(<<>>) = 0 /\ 1..0 = {} /\ cursor + 0 <= Len(ring)
    BY <1>1, <1>4
  <2> QED
    BY <1>2, <2>1 DEF ReplyInv
<1>15. FedInv'
  <2>1. ASSUME NEW i \in 1..Len(fed') PROVE \E k \in 1..(since + n) : ring[k].root = fed'[i]
    <3>1. CASE i \in 1..Len(fed) /\ fed'[i] = fed[i]
      BY <1>12, <3>1 DEF VerdictInv, FedInv
    <3>2. CASE i - Len(fed) \in 1..Len(outcomes) /\ fed'[i] = outcomes[i - Len(fed)].root
      <4>1. PICK p \in 1..n : outcomes[i - Len(fed)] = reply[p]
        BY <1>7, <3>2
      <4> QED
        BY <1>1, <1>12, <3>2, <4>1
    <3> QED
      BY <1>11, <3>1, <3>2
  <2>2. ASSUME NEW i \in 1..Len(fed'), NEW j \in 1..Len(fed'), i < j
        PROVE  InRingOrder(fed'[i], fed'[j], since + n)
    <3>1. CASE i \in 1..Len(fed) /\ fed'[i] = fed[i] /\ j \in 1..Len(fed) /\ fed'[j] = fed[j]
      <4>1. InRingOrder(fed[i], fed[j], since)
        BY <2>2, <3>1 DEF VerdictInv, FedInv
      <4> QED
        BY <1>12, <3>1, <4>1 DEF InRingOrder
    <3>2. CASE /\ i \in 1..Len(fed) /\ fed'[i] = fed[i]
               /\ j - Len(fed) \in 1..Len(outcomes) /\ fed'[j] = outcomes[j - Len(fed)].root
      <4>1. PICK k \in 1..since : ring[k].root = fed[i]
        BY <3>2 DEF VerdictInv, FedInv
      <4>2. PICK p \in 1..n : outcomes[j - Len(fed)] = reply[p]
        BY <1>7, <3>2
      <4>3. k < since + p /\ k \in 1..(since + n) /\ since + p \in 1..(since + n)
        BY <1>1, <1>12
      <4> QED
        BY <1>1, <3>2, <4>1, <4>2, <4>3 DEF InRingOrder
    <3>3. CASE /\ i - Len(fed) \in 1..Len(outcomes) /\ fed'[i] = outcomes[i - Len(fed)].root
               /\ j - Len(fed) \in 1..Len(outcomes) /\ fed'[j] = outcomes[j - Len(fed)].root
      <4>1. i - Len(fed) < j - Len(fed)
        BY <1>9, <2>2
      <4>2. PICK p \in 1..n, q \in 1..n :
              p < q /\ outcomes[i - Len(fed)] = reply[p] /\ outcomes[j - Len(fed)] = reply[q]
        BY <1>5, <3>3, <4>1
      <4>3. since + p < since + q /\ since + p \in 1..(since + n) /\ since + q \in 1..(since + n)
        BY <1>1, <1>12, <4>2
      <4> QED
        BY <1>1, <3>3, <4>2, <4>3 DEF InRingOrder
    <3> QED
      <4>1. j \in 1..Len(fed) => i \in 1..Len(fed)
        BY <1>9, <2>2
      <4>2. i \in 1..Len(fed) => ~ (i - Len(fed) \in 1..Len(outcomes))
        BY <1>9
      <4> QED
        BY <1>11, <3>1, <3>2, <3>3, <4>1, <4>2
  <2>3. verdicts_since' = since + n /\ ring' = ring
    BY <1>2, <1>4
  <2>4. \A i, j \in 1..Len(fed') : i < j =>
          \E k, l \in 1..verdicts_since' : k < l /\ ring'[k].root = fed'[i] /\ ring'[l].root = fed'[j]
    BY <2>2, <2>3 DEF InRingOrder
  <2>5. \A i \in 1..Len(fed') : \E k \in 1..verdicts_since' : ring'[k].root = fed'[i]
    BY <2>1, <2>3
  <2> QED
    BY <1>10, <2>4, <2>5 DEF FedInv, InRingOrder
<1>16. PassedInv'
  <2> SUFFICES ASSUME NEW i \in 1..(since + n), ring[i].root \in DOMAIN submitted_env'
               PROVE  ring[i].root \in Range(fed') \cup unripe'
    BY <1>2, <1>4 DEF PassedInv
  <2>1. DOMAIN fed' = 1..Len(fed') /\ DOMAIN fed = 1..Len(fed)
    BY <1>9, <1>10, LenProperties
  <2>2. CASE i \in 1..since
    <3>1. ring[i].root \in Range(fed) \cup unripe
      BY <1>2, <2>2 DEF VerdictInv, PassedInv
    <3>2. Range(fed) \subseteq Range(fed')
      <4>1. \A k \in 1..Len(fed) : k \in 1..Len(fed') /\ fed'[k] = fed[k]
        BY <1>6, <1>9, <1>10
      <4> QED
        BY <2>1, <4>1 DEF Range
    <3> QED
      BY <1>2, <3>1, <3>2
  <2>3. CASE i \notin 1..since
    <3> DEFINE p == i - since
    <3>1. p \in 1..n /\ since + p = i
      BY <1>1, <2>3
    <3> HIDE DEF p
    <3>2. reply[p].root = ring[i].root /\ reply[p] \in ToSet(reply) /\ reply[p] \in Range(reply)
      BY <1>1, <3>1 DEF ToSet, Range
    <3>3. CASE reply[p].rewarded = NOT_YET
      BY <1>2, <3>2, <3>3
    <3>4. CASE reply[p].rewarded # NOT_YET
      <4>1. reply[p] \in known
        BY <1>2, <3>2, <3>4 DEF HasOutcome, known
      <4>2. PICK k \in 1..Len(outcomes) : outcomes[k] = reply[p]
        BY <1>5, <1>6, <3>2, <4>1 DEF Range
      <4>3. Len(fed) + k \in 1..Len(fed') /\ ~ (Len(fed) + k <= Len(fed)) /\ (Len(fed) + k) - Len(fed) = k
        BY <1>6, <1>9, <1>10
      <4>4. fed'[Len(fed) + k] = ring[i].root
        BY <1>8, <1>10, <3>2, <4>2, <4>3
      <4> QED
        BY <2>1, <4>3, <4>4 DEF Range
    <3> QED
      BY <3>3, <3>4
  <2> QED
    BY <2>2, <2>3
<1> QED
  BY <1>13, <1>14, <1>15, <1>16 DEF VerdictInv

LEMMA VerdictStep ==
  ASSUME VerdictAssumption PROVE VerdictInv /\ [VerdictNext]_(verdict_vars) => VerdictInv'
<1> SUFFICES ASSUME VerdictInv, [VerdictNext]_(verdict_vars) PROVE VerdictInv'
  OBVIOUS
<1>1. CASE UNCHANGED verdict_vars
  BY <1>1 DEF verdict_vars, VerdictInv, RingInv, ReplyInv, FedInv, PassedInv, InRingOrder
<1>2. CASE VerdictNext
  BY <1>2, RecordKeeps, JudgeKeeps, EnrichKeeps, FetchKeeps, TickKeeps, RestartKeeps DEF VerdictNext
<1> QED
  BY <1>1, <1>2

\* The outcome of a submission is counted at most once and none is passed over, for
\* any number of environments and submissions, and any number of roots remembered:
\* the cursor, the fetched verdicts and the ring never come apart.
THEOREM OutcomesAreCountedOnce == VerdictSpec => []OutcomesCountOnce
<1> USE VerdictAssumption
<1>1. VerdictInv => OutcomesCountOnce
  BY CountedOnce
<1> QED
  BY <1>1, VerdictInitially, VerdictStep, PTL DEF VerdictSpec

-----------------------------------------------------------------------------
(***************************************************************************)
(* The slots that the mix hands out (SlotAllocation), after any outcomes   *)
(* that the polls gave it.                                                 *)
(***************************************************************************)
\* The environments are numbered.
LEMMA EnvironmentsAreNumbered ==
  ASSUME SlotAssumption
  PROVE  /\ \E n \in Nat : n >= 1 /\ EnvIdx = 1..n /\ Cardinality(1..n) = n
         /\ IsFiniteSet(EnvIdx) /\ EnvIdx # {} /\ EnvIdx \in SUBSET Int
<1>1. Environments \in Seq({Environments[e] : e \in EnvIdx}) /\ EnvIdx = DOMAIN Environments
      /\ EnvIdx # {}
  BY DEF SlotAssumption, EnvIdx
<1>2. PICK n \in Nat : DOMAIN Environments = 1..n
  <2>1. Len(Environments) \in Nat /\ DOMAIN Environments = 1..Len(Environments)
    BY <1>1, LenProperties
  <2> QED
    BY <2>1
<1>3. n >= 1
  BY <1>1, <1>2
<1>4. IsFiniteSet(1..n) /\ Cardinality(1..n) = n
  <2>1. 1 \in Int /\ n \in Int
    OBVIOUS
  <2>2. IsFiniteSet(1..n) /\ Cardinality(1..n) = IF 1 > n THEN 0 ELSE n - 1 + 1
    BY ONLY <2>1, FS_Interval, Zenon
  <2>3. (IF 1 > n THEN 0 ELSE n - 1 + 1) = n
    OBVIOUS
  <2> QED
    BY <2>2, <2>3
<1> QED
  BY <1>1, <1>2, <1>3, <1>4

\* The yields are of the environments, none of them above 1.
YieldInv ==
  /\ total_slots \in Nat /\ slot_floor \in Nat
  /\ yield \in [EnvIdx -> (0..FULL) \cup {NO_YIELD}]

\* An even split adds up.
LEMMA EvenSplitAddsUp ==
  ASSUME SlotAssumption, YieldInv
  PROVE  /\ EvenSplit \in [EnvIdx -> Nat]
         /\ SumFunctionOnSet(EvenSplit, EnvIdx) = total_slots
         /\ \A e \in EnvIdx : EvenSplit[e] >= total_slots \div Cardinality(EnvIdx)
<1>1. PICK n \in Nat : n >= 1 /\ EnvIdx = 1..n /\ Cardinality(1..n) = n
  BY EnvironmentsAreNumbered
<1>2. IsFiniteSet(1..n)
  BY <1>1, EnvironmentsAreNumbered
<1>3. PICK b \in Nat, m \in Nat :
        b = total_slots \div n /\ m <= n - 1 /\ total_slots = n * b + m
  <2>1. PICK t \in Nat : t = total_slots
    BY DEF YieldInv
  <2>2. t \div n \in Nat /\ t % n \in Nat /\ t % n <= n - 1 /\ t = n * (t \div n) + (t % n)
    BY ONLY n \in Nat, t \in Nat, <1>1, Division
  <2> QED
    BY <2>1, <2>2
<1>4. total_slots - b * n = m
  <2>1. b * n = n * b /\ n * b \in Nat
    OBVIOUS
  <2> QED
    BY <1>3, <2>1
<1> DEFINE U == 1..m
           base == [e \in 1..n |-> b]
           one == [e \in 1..n |-> 1]
           extra == [e \in 1..n |-> IF e <= m THEN 1 ELSE 0]
           split == EvenSplit
<1>5. split = [e \in 1..n |-> b + (IF e <= m THEN 1 ELSE 0)]
  BY <1>1, <1>3, <1>4 DEF EvenSplit
<1>6. base \in [1..n -> Nat] /\ one \in [1..n -> Nat] /\ extra \in [1..n -> Nat]
  OBVIOUS
<1>7. split \in [1..n -> Nat] /\ \A e \in 1..n : split[e] = base[e] + extra[e] /\ split[e] >= b
  <2> HIDE DEF split
  <2> QED
    BY <1>5
<1> HIDE DEF split
<1>8. SumFunctionOnSet(one, 1..n) = n
  <2>1. PICK all \in SUBSET (1..n) : all = 1..n
    OBVIOUS
  <2>2. (\A e \in all : one[e] = 1) /\ \A e \in (1..n) \ all : one[e] = 0
    BY <2>1
  <2> HIDE DEF one
  <2>3. SumFunctionOnSet(one, 1..n) = Cardinality(all)
    BY ONLY <1>2, <1>6, all \in SUBSET (1..n), <2>2, SumOfOnes
  <2> QED
    BY <1>1, <2>1, <2>3
<1>9. SumFunctionOnSet(extra, 1..n) = m
  <2>1. U \in SUBSET (1..n)
    BY <1>3
  <2>2. (\A e \in U : extra[e] = 1) /\ \A e \in (1..n) \ U : extra[e] = 0
    BY <2>1
  <2>3. Cardinality(U) = m
    <3>1. 1 \in Int /\ m \in Int
      OBVIOUS
    <3>2. Cardinality(1..m) = IF 1 > m THEN 0 ELSE m - 1 + 1
      BY ONLY <3>1, FS_Interval, Zenon
    <3>3. (IF 1 > m THEN 0 ELSE m - 1 + 1) = m
      OBVIOUS
    <3> QED
      BY <3>2, <3>3
  <2> HIDE DEF extra, U
  <2>4. SumFunctionOnSet(extra, 1..n) = Cardinality(U)
    BY ONLY <1>2, <1>6, <2>1, <2>2, SumOfOnes
  <2> QED
    BY <2>3, <2>4
<1>10. Equal(1, split, b, one, 1, extra, 1..n)
  <2> SUFFICES ASSUME NEW e \in 1..n PROVE 1 * split[e] = b * one[e] + 1 * extra[e]
    BY DEF Equal
  <2>1. split[e] = b + extra[e] /\ extra[e] \in Nat /\ one[e] = 1
    BY <1>6, <1>7
  <2> HIDE DEF one, extra
  <2> QED
    BY ONLY <2>1, b \in Nat
<1> HIDE DEF one, extra, base
<1>11. EqualSums(1, split, b, one, 1, extra, 1..n)
  <2>1. 1 \in Nat /\ split \in [1..n -> Nat]
    BY <1>7
  <2> QED
    BY ONLY b \in Nat, <1>2, <1>6, <1>10, <2>1, SumEquation
<1>12. SumFunctionOnSet(split, 1..n) \in Nat
  <2>1. split \in [1..n -> Nat]
    BY <1>7
  <2> QED
    BY ONLY <1>2, <2>1, SumIsNat
<1>13. PICK s \in Nat : s = SumFunctionOnSet(split, 1..n)
  BY <1>12
<1>14. 1 * s = b * n + 1 * m
  BY <1>8, <1>9, <1>11, <1>13 DEF EqualSums
<1>15. s = total_slots
  <2>1. b * n = n * b /\ n * b \in Nat
    OBVIOUS
  <2> QED
    BY <1>3, <1>14, <2>1
<1> QED
  BY <1>1, <1>3, <1>7, <1>13, <1>15 DEF split

\* The weight of an environment.
WeightOf(e) == Max({1000 * _effective_yield(e), 1})

\* An environment that was rewarded more often has a larger weight.
LEMMA WeightsGrow ==
  ASSUME SlotAssumption, YieldInv
  PROVE  /\ \A e \in EnvIdx : WeightOf(e) \in Nat /\ WeightOf(e) >= 1
         /\ \A e, f \in EnvIdx :
              _effective_yield(e) > _effective_yield(f) => WeightOf(e) > WeightOf(f)
<1>1. ASSUME NEW x \in Nat PROVE Max({x, 1}) = (IF x >= 1 THEN x ELSE 1)
  <2>1. \E y \in {x, 1} : \A z \in {x, 1} : z <= y
    BY <1>1
  <2>2. Max({x, 1}) \in {x, 1} /\ \A z \in {x, 1} : z <= Max({x, 1})
    BY <2>1 DEF Max
  <2> QED
    BY <2>2
<1>2. ASSUME NEW e \in EnvIdx PROVE _effective_yield(e) \in Nat
  <2>1. FULL \in Nat /\ FULL \div 2 \in Nat
    BY DEF SlotAssumption
  <2>2. yield[e] \in (0..FULL) \cup {NO_YIELD}
    BY DEF YieldInv
  <2>3. yield[e] # NO_YIELD => yield[e] \in Nat
    BY <2>1, <2>2
  <2> QED
    BY <2>1, <2>3 DEF _effective_yield
<1>3. ASSUME NEW x \in Nat PROVE 1000 * x \in Nat /\ (x >= 1 => 1000 * x >= 1) /\ (x = 0 => 1000 * x = 0)
  OBVIOUS
<1>4. ASSUME NEW e \in EnvIdx
      PROVE  WeightOf(e) \in Nat /\ WeightOf(e) >= 1
  <2>1. PICK x \in Nat : x = _effective_yield(e)
    BY <1>2
  <2> QED
    BY <1>1, <1>3, <2>1 DEF WeightOf
<1>5. ASSUME NEW e \in EnvIdx, NEW f \in EnvIdx,
             _effective_yield(e) > _effective_yield(f)
      PROVE  WeightOf(e) > WeightOf(f)
  <2>1. PICK x \in Nat, y \in Nat : x = _effective_yield(e) /\ y = _effective_yield(f)
    BY <1>2
  <2>2. x > y
    BY <1>5, <2>1
  <2>3. Max({1000 * x, 1}) = (IF 1000 * x >= 1 THEN 1000 * x ELSE 1)
        /\ Max({1000 * y, 1}) = (IF 1000 * y >= 1 THEN 1000 * y ELSE 1)
    BY <1>1, <1>3
  <2>4. Max({1000 * x, 1}) > Max({1000 * y, 1})
    BY <2>2, <2>3
  <2> QED
    BY <2>1, <2>4 DEF WeightOf
<1> QED
  BY <1>4, <1>5

\* The proportional part is that of the largest remainders.
LEMMA ProportionalIsLargest ==
  ASSUME NEW R, NEW w
  PROVE  Proportional(R, w) = LargestShares(w, R, EnvIdx)
<1> DEFINE S == EnvIdx
           W == SumFunctionOnSet(w, S)
           rest == Remainders(w, R, W, S)
<1>1. ASSUME NEW e \in S
      PROVE  {f \in S : rest[f] > rest[e] \/ (rest[f] = rest[e] /\ f < e)}
               = {f \in S : <<f, e>> \in LargerFirst(rest, S)}
  BY DEF LargerFirst
<1>2. Proportional(R, w) =
        [e \in S |-> Quotients(w, R, W, S)[e]
           + (IF Cardinality({f \in S : rest[f] > rest[e] \/ (rest[f] = rest[e] /\ f < e)})
                   < R - SumFunctionOnSet(Quotients(w, R, W, S), S) THEN 1 ELSE 0)]
  BY Zenon DEF Proportional, Quotients, Remainders
<1>3. LargestShares(w, R, S) =
        [e \in S |-> Quotients(w, R, W, S)[e]
           + (IF Cardinality({f \in S : <<f, e>> \in LargerFirst(rest, S)})
                   < R - SumFunctionOnSet(Quotients(w, R, W, S), S) THEN 1 ELSE 0)]
  BY DEF LargestShares, Rank
<1> HIDE DEF S, W, rest
<1> QED
  BY <1>1, <1>2, <1>3 DEF S

\* The slots of whatever yields add up.
LEMMA SlotsOfYields ==
  ASSUME SlotAssumption, YieldInv PROVE SlotsAddUp
<1> DEFINE S == EnvIdx
           target == target_slots
           weight == [e \in S |-> WeightOf(e)]
<1>1. PICK n \in Nat : n >= 1 /\ S = 1..n /\ n = Cardinality(S) /\ n = Cardinality(S)
  BY EnvironmentsAreNumbered
<1>2. IsFiniteSet(S) /\ S # {} /\ S \in SUBSET Int
  BY EnvironmentsAreNumbered
<1>3. total_slots \in Nat /\ slot_floor \in Nat
  BY DEF YieldInv
<1>4. PICK F \in Nat : F = slot_floor * n
  BY <1>3
<1>5. target = IF total_slots - F < 0 THEN EvenSplit
               ELSE [e \in S |-> slot_floor + Proportional(total_slots - F, weight)[e]]
  BY <1>1, <1>4 DEF target_slots, WeightOf
<1>6. SlotsAddUp <=>
        /\ SumFunctionOnSet(target, S) = total_slots
        /\ \A e \in S : target[e] >= IF F <= total_slots THEN slot_floor ELSE total_slots \div n
        /\ F <= total_slots => \A e, f \in S :
             _effective_yield(e) > _effective_yield(f) => target[e] >= target[f]
  BY <1>1, <1>4 DEF SlotsAddUp
<1>7. /\ weight \in [S -> Nat] /\ \A e \in S : weight[e] >= 1
      /\ \A e, f \in S : _effective_yield(e) > _effective_yield(f) => weight[e] > weight[f]
  BY WeightsGrow
<1> HIDE DEF target, weight, S
<1>8. CASE total_slots < F
  <2>1. ~ (F <= total_slots) /\ target = EvenSplit
    BY <1>3, <1>5, <1>8
  <2>2. /\ SumFunctionOnSet(target, S) = total_slots
        /\ \A e \in S : target[e] >= total_slots \div n
    BY <1>1, <2>1, EvenSplitAddsUp DEF S
  <2> QED
    BY <1>6, <2>1, <2>2
<1>9. CASE ~ (total_slots < F)
  <2>1. PICK R \in Nat : R = total_slots - F
    BY <1>3, <1>9
  <2> DEFINE share == LargestShares(weight, R, S)
             floors == [e \in S |-> slot_floor]
             one == [e \in S |-> 1]
  <2>2. /\ share \in [S -> Nat] /\ SumFunctionOnSet(share, S) = R
        /\ \A e, f \in S : weight[e] > weight[f] => share[e] >= share[f]
    BY ONLY <1>2, <1>7, R \in Nat, LargestSharesAddUp
  <2>3. target = [e \in S |-> slot_floor + share[e]]
    <3>1. ~ (total_slots - F < 0)
      BY <1>3, <1>9
    <3>2. Proportional(R, weight) = share
      BY ProportionalIsLargest DEF S
    <3> QED
      BY <1>5, <2>1, <3>1, <3>2
  <2> HIDE DEF share
  <2>4. \A e \in S : target[e] = slot_floor + share[e] /\ target[e] \in Nat /\ target[e] >= slot_floor
    BY <1>3, <2>2, <2>3
  <2>5. one \in [S -> Nat] /\ SumFunctionOnSet(one, S) = n
    <3>1. PICK all \in SUBSET S : all = S
      OBVIOUS
    <3>2. one \in [S -> Nat] /\ (\A e \in all : one[e] = 1) /\ \A e \in S \ all : one[e] = 0
      BY <3>1
    <3> HIDE DEF one
    <3>3. SumFunctionOnSet(one, S) = Cardinality(all)
      BY ONLY <1>2, all \in SUBSET S, <3>2, SumOfOnes
    <3> QED
      BY <1>1, <3>1, <3>2, <3>3
  <2>6. Equal(1, target, slot_floor, one, 1, share, S)
    <3> SUFFICES ASSUME NEW e \in S PROVE 1 * target[e] = slot_floor * one[e] + 1 * share[e]
      BY DEF Equal
    <3>1. target[e] = slot_floor + share[e] /\ share[e] \in Nat /\ one[e] = 1
      BY <2>2, <2>4
    <3> HIDE DEF one
    <3> QED
      BY ONLY <1>3, <3>1
  <2> HIDE DEF one
  <2>7. EqualSums(1, target, slot_floor, one, 1, share, S)
    <3>1. 1 \in Nat /\ target \in [S -> Nat] /\ slot_floor \in Nat
      BY <1>3, <2>3, <2>4
    <3>2. one \in [S -> Nat] /\ share \in [S -> Nat]
      BY <2>2, <2>5
    <3> QED
      BY ONLY <1>2, <2>6, <3>1, <3>2, SumEquation
  <2>8. SumFunctionOnSet(target, S) \in Nat
    <3>1. target \in [S -> Nat]
      BY <2>3, <2>4
    <3> QED
      BY ONLY <1>2, <3>1, SumIsNat
  <2>9. PICK s \in Nat : s = SumFunctionOnSet(target, S)
    BY <2>8
  <2>10. 1 * s = slot_floor * n + 1 * R
    BY <2>2, <2>5, <2>7, <2>9 DEF EqualSums
  <2>11. s = total_slots
    BY <1>3, <1>4, <2>1, <2>10
  <2>12. \A e, f \in S : _effective_yield(e) > _effective_yield(f) => target[e] >= target[f]
    <3> SUFFICES ASSUME NEW e \in S, NEW f \in S, _effective_yield(e) > _effective_yield(f)
                 PROVE  target[e] >= target[f]
      OBVIOUS
    <3>1. share[e] >= share[f] /\ share[e] \in Nat /\ share[f] \in Nat
      BY <1>7, <2>2
    <3>2. target[e] = slot_floor + share[e] /\ target[f] = slot_floor + share[f]
      BY <2>4
    <3> QED
      BY ONLY <1>3, <3>1, <3>2
  <2>13. F <= total_slots
    BY <1>3, <1>9
  <2> QED
    BY <1>6, <2>4, <2>9, <2>11, <2>12, <2>13
<1> QED
  BY <1>8, <1>9

\* One outcome leaves a yield between 0 and 1.
LEMMA OutcomeType ==
  ASSUME SlotAssumption, NEW Y, Y = [EnvIdx -> (0..FULL) \cup {NO_YIELD}],
         NEW y \in Y, NEW e, NEW rewarded \in BOOLEAN
  PROVE  record_outcome(y, e, rewarded) \in Y
<1> DEFINE x == IF rewarded THEN FULL ELSE 0
           v == IF y[e] = NO_YIELD THEN x ELSE (9 * y[e] + x) \div 10
<1>1. FULL \in Nat /\ x \in 0..FULL
  BY DEF SlotAssumption
<1>2. record_outcome(y, e, rewarded) = [y EXCEPT ![e] = v]
  BY DEF record_outcome
<1>3. e \in EnvIdx => v \in 0..FULL
  <2> SUFFICES ASSUME e \in EnvIdx PROVE v \in 0..FULL
    OBVIOUS
  <2> HIDE DEF x
  <2>1. CASE y[e] = NO_YIELD
    BY <1>1, <2>1
  <2>2. CASE y[e] # NO_YIELD
    <3>1. y[e] \in 0..FULL
      BY <2>2
    <3>2. PICK z \in 0..FULL, u \in 0..FULL : z = y[e] /\ u = x
      BY <1>1, <3>1
    <3>3. (9 * z + u) \div 10 \in 0..FULL
      BY ONLY <1>1, z \in 0..FULL, u \in 0..FULL
    <3> QED
      BY <2>2, <3>2, <3>3
  <2> QED
    BY <2>1, <2>2
<1> HIDE DEF v
<1> QED
  BY <1>2, <1>3

\* The yields after the outcomes of a poll, fed one after the other.
Learnt(y, outcomes) ==
  LET Learn(yields, v) == record_outcome(yields, submitted_env[v.root], v.rewarded)
  IN  FoldLeft(Learn, y, outcomes)

\* They are still between 0 and 1.
LEMMA LearntType ==
  ASSUME SlotAssumption, YieldInv, NEW outcomes \in Seq(Verdicts),
         \A i \in 1..Len(outcomes) : outcomes[i].rewarded \in BOOLEAN
  PROVE  Learnt(yield, outcomes) \in [EnvIdx -> (0..FULL) \cup {NO_YIELD}]
<1> DEFINE Y == [EnvIdx -> (0..FULL) \cup {NO_YIELD}]
           n == Len(outcomes)
           Learn(yields, v) == record_outcome(yields, submitted_env[v.root], v.rewarded)
           step == [p \in Y \X (1..n) |-> Learn(p[1], outcomes[p[2]])]
           Body(g, T) == IF T = {} THEN yield
                         ELSE Learn(g[T \ {Max(T)}], outcomes[Max(T)])
           Satisfies(g) == g = [T \in SUBSET (1..n) |-> Body(g, T)]
           it == CHOOSE g : Satisfies(g)
<1>1. n \in Nat /\ DOMAIN outcomes = 1..n
  BY LenProperties
<1>2. yield \in Y
  BY DEF YieldInv
<1>3. ASSUME NEW y \in Y, NEW i \in 1..n PROVE Learn(y, outcomes[i]) \in Y
  <2>1. outcomes[i].rewarded \in BOOLEAN
    OBVIOUS
  <2> HIDE DEF Y
  <2> QED
    BY <2>1, OutcomeType DEF Y
<1>4. Learnt(yield, outcomes) = it[1..n]
  BY <1>1 DEF Learnt, FoldLeft, MapThenFoldSet, Max
<1> HIDE DEF n, Y, Learn
<1>5. step \in [Y \X (1..n) -> Y]
  BY <1>3
<1>6. PICK f : FoldSolves(f, Y, yield, step, n)
  <2> HIDE DEF step
  <2> QED
    BY <1>1, <1>2, <1>5, FoldSolution
<1>7. ASSUME NEW T \in SUBSET (1..n) PROVE f[T] = Body(f, T)
  <2>1. CASE T = {}
    BY <1>6, <2>1 DEF FoldSolves
  <2>2. CASE T # {}
    <3>1. Max(T) \in 1..n
      BY <1>1, <2>2, MaxOfNumbers
    <3>2. f[T \ {Max(T)}] \in Y
      BY <1>6 DEF FoldSolves
    <3>3. f[T] = step[<<f[T \ {Max(T)}], Max(T)>>]
      BY <1>6, <2>2 DEF FoldSolves
    <3> QED
      BY <2>2, <3>1, <3>2, <3>3
  <2> QED
    BY <2>1, <2>2
<1>8. Satisfies(f)
  <2> HIDE DEF Body
  <2>1. f = [T \in SUBSET (1..n) |-> f[T]]
    BY <1>6 DEF FoldSolves
  <2> QED
    BY <1>7, <2>1
<1>9. Satisfies(it)
  <2> HIDE DEF Satisfies
  <2> QED
    BY <1>8
<1> HIDE DEF it, step
<1>10. \A T \in SUBSET (1..n) : it[T] = Body(it, T)
  BY <1>9
<1> HIDE DEF Satisfies
<1> DEFINE I == {i \in Nat : i <= n => it[1..i] \in Y}
<1>11. 0 \in I
  <2>1. 1..0 = {} /\ {} \in SUBSET (1..n)
    OBVIOUS
  <2>2. it[{}] = yield
    BY <1>10, <2>1
  <2> QED
    BY <1>2, <2>1, <2>2
<1>12. ASSUME NEW i \in Nat, i \in I PROVE i + 1 \in I
  <2> SUFFICES ASSUME i + 1 <= n PROVE it[1..(i + 1)] \in Y
    OBVIOUS
  <2>1. i + 1 \in 1..n /\ it[1..i] \in Y /\ (i + 1) - 1 = i
    BY <1>1, <1>12
  <2>2. Max(1..(i + 1)) = i + 1 /\ (1..(i + 1)) \ {i + 1} = 1..i /\ 1..(i + 1) # {}
        /\ 1..(i + 1) \in SUBSET (1..n)
    BY <1>1, <2>1, MaxOfInterval
  <2>3. it[1..(i + 1)] = Learn(it[1..i], outcomes[i + 1])
    BY <1>10, <2>2
  <2> QED
    BY <1>3, <2>1, <2>3
<1>13. n \in I
  <2> HIDE DEF I
  <2>1. Nat \subseteq I
    BY <1>11, <1>12, NatSetInduction
  <2> QED
    BY <1>1, <2>1
<1> QED
  BY <1>1, <1>4, <1>13 DEF Y

\* YieldInv is inductive, given VerdictInv for the outcomes of a poll.
LEMMA YieldInitially ==
  ASSUME SlotAssumption PROVE VerdictInit => YieldInv
BY DEF VerdictInit, SlotAssumption, YieldInv

LEMMA YieldStep ==
  ASSUME SlotAssumption
  PROVE  VerdictInv /\ YieldInv /\ [VerdictNext]_(verdict_vars) => YieldInv'
<1> SUFFICES ASSUME VerdictInv, YieldInv, [VerdictNext]_(verdict_vars) PROVE YieldInv'
  OBVIOUS
<1>1. ASSUME UNCHANGED <<total_slots, slot_floor, yield>> PROVE YieldInv'
  BY <1>1 DEF YieldInv, EnvIdx
<1>2. CASE UNCHANGED verdict_vars
  BY <1>1, <1>2 DEF verdict_vars
<1>3. ASSUME NEW e, RecordSubmission(e) PROVE YieldInv'
  BY <1>1, <1>3 DEF RecordSubmission
<1>4. ASSUME NEW root, Judge(root) PROVE YieldInv'
  BY <1>1, <1>4 DEF Judge
<1>5. ASSUME NEW i, Enrich(i) PROVE YieldInv'
  BY <1>1, <1>5 DEF Enrich
<1>6. CASE fetch_verdicts
  BY <1>1, <1>6 DEF fetch_verdicts
<1>7. CASE _tick_verdicts
  <2> DEFINE known == {v \in ToSet(reply) : HasOutcome(v)}
             outcomes == Filtered(reply, known)
  <2>1. yield' = Learnt(yield, outcomes) /\ total_slots' = total_slots /\ slot_floor' = slot_floor
    BY <1>7 DEF _tick_verdicts, TickWith, Learnt
  <2>2. reply \in Seq(Verdicts)
    BY DEF VerdictInv, ReplyInv
  <2> HIDE DEF known
  <2>3. outcomes \in Seq(Verdicts) /\ Range(outcomes) = Range(reply) \cap known
    <3>1. outcomes = Filtered(reply, known)
      OBVIOUS
    <3> HIDE DEF outcomes
    <3> QED
      BY <2>2, <3>1, FilterProperties
  <2> HIDE DEF outcomes
  <2>4. \A i \in 1..Len(outcomes) : outcomes[i].rewarded \in BOOLEAN
    <3> SUFFICES ASSUME NEW i \in 1..Len(outcomes) PROVE outcomes[i].rewarded \in BOOLEAN
      OBVIOUS
    <3>1. outcomes[i] \in Verdicts
      BY <2>3
    <3>2. outcomes[i] \in Range(outcomes)
      BY <2>3 DEF Range
    <3>3. outcomes[i].rewarded # NOT_YET
      BY <2>3, <3>2 DEF known, HasOutcome
    <3> QED
      BY <3>1, <3>3 DEF Verdicts
  <2>5. Learnt(yield, outcomes) \in [EnvIdx -> (0..FULL) \cup {NO_YIELD}]
    BY <2>3, <2>4, LearntType
  <2> QED
    BY <2>1, <2>5 DEF YieldInv, EnvIdx
<1>8. CASE RestartMiner
  BY <1>8 DEF RestartMiner, YieldInv, EnvIdx
<1> QED
  BY <1>2, <1>3, <1>4, <1>5, <1>6, <1>7, <1>8 DEF VerdictNext

\* In every window the slots are all handed out and no more, each environment gets
\* its floor or an even part, and one that was rewarded more often no fewer than
\* one that was rewarded less, after any outcomes and for any number of
\* environments and slots.
THEOREM SlotsAreHandedOut == VerdictSpec => []SlotsAddUp
<1> USE SlotAssumption, VerdictAssumption
<1>1. YieldInv => SlotsAddUp
  BY SlotsOfYields
<1> QED
  BY <1>1, VerdictInitially, VerdictStep, YieldInitially, YieldStep, PTL DEF VerdictSpec

-----------------------------------------------------------------------------
(***************************************************************************)
(* The group of an entry, RolloutSelection.                                *)
(***************************************************************************)
\* The library's sequence of the elements of a set.
LEMMA SetToSeqProperties ==
  ASSUME NEW S, IsFiniteSet(S)
  PROVE  /\ SetToSeq(S) \in [1..Cardinality(S) -> S] /\ IsInjective(SetToSeq(S))
         /\ SetToSeq(S) \in Bijection(1..Cardinality(S), S)
<1>1. \E f \in [1..Cardinality(S) -> S] : IsInjective(f)
  <2>1. ExistsBijection(1..Cardinality(S), S)
    BY FS_CardinalityType
  <2> QED
    BY <2>1 DEF ExistsBijection, Bijection, Injection
<1>2. SetToSeq(S) \in [1..Cardinality(S) -> S] /\ IsInjective(SetToSeq(S))
  BY <1>1 DEF SetToSeq
<1>3. IsFiniteSet(1..Cardinality(S)) /\ Cardinality(1..Cardinality(S)) = Cardinality(S)
  <2>1. PICK c \in Nat : c = Cardinality(S)
    BY FS_CardinalityType
  <2>2. IsFiniteSet(1..c) /\ Cardinality(1..c) = IF 1 > c THEN 0 ELSE c - 1 + 1
    <3>1. 1 \in Int /\ c \in Int
      OBVIOUS
    <3> QED
      BY ONLY <3>1, FS_Interval, Zenon
  <2>3. (IF 1 > c THEN 0 ELSE c - 1 + 1) = c
    BY <2>1
  <2> QED
    BY <2>1, <2>2, <2>3
<1>4. SetToSeq(S) \in Injection(1..Cardinality(S), S)
  BY <1>2 DEF Injection
<1>5. SetToSeq(S) \in Surjection(1..Cardinality(S), S)
  BY <1>3, <1>4, FS_Injection
<1> QED
  BY <1>2, <1>4, <1>5 DEF Bijection

\* A set and its sequence have as many elements of each kind.
LEMMA SetToSeqCounts ==
  ASSUME NEW S, IsFiniteSet(S), NEW T \in SUBSET S
  PROVE  /\ IsFiniteSet({i \in 1..Cardinality(S) : SetToSeq(S)[i] \in T})
         /\ Cardinality({i \in 1..Cardinality(S) : SetToSeq(S)[i] \in T}) = Cardinality(T)
<1> DEFINE D == 1..Cardinality(S)
           f == SetToSeq(S)
           I == {i \in D : f[i] \in T}
           h == [i \in I |-> f[i]]
<1>1. f \in Bijection(D, S)
  BY SetToSeqProperties
<1> HIDE DEF f, D
<1>2. f \in [D -> S] /\ (\A i, j \in D : f[i] = f[j] => i = j) /\ \A e \in S : \E i \in D : f[i] = e
  BY <1>1 DEF Bijection, Injection, Surjection, IsInjective
<1>3. h \in Bijection(I, T)
  <2>1. h \in [I -> T] /\ \A i, j \in I : h[i] = h[j] => i = j
    BY <1>2
  <2>2. \A e \in T : \E i \in I : h[i] = e
    BY <1>2
  <2> QED
    BY <2>1, <2>2 DEF Bijection, Injection, Surjection, IsInjective
<1>4. ExistsBijection(I, T)
  BY <1>3 DEF ExistsBijection
<1>5. IsFiniteSet(D)
  BY FS_CardinalityType, FS_Interval DEF D
<1>6. I \in SUBSET D
  OBVIOUS
<1> HIDE DEF I
<1>7. IsFiniteSet(I) /\ Cardinality(T) = Cardinality(I)
  <2>1. IsFiniteSet(I)
    BY <1>5, <1>6, FS_Subset
  <2> QED
    BY <1>4, <2>1, FS_Bijection
<1> QED
  BY <1>7 DEF I, D, f

\* What a rollout is known by.
LEMMA RolloutType ==
  ASSUME SelectionAssumption, NEW r \in Range(Rollouts)
  PROVE  r.reward \in Nat /\ r.reward <= UNIT /\ (in_eos(r) => EndsWithEos(r)) /\ (bt_ok(r) => verify_termination(r))
<1>1. r.reward \in 0..UNIT /\ UNIT \in Nat
  BY DEF SelectionAssumption
<1>2. r.completion \in Seq(BOOLEAN) /\ r.completion # <<>>
  BY DEF SelectionAssumption
<1>3. in_eos(r) => EndsWithEos(r)
  <2> SUFFICES ASSUME in_eos(r) PROVE r.completion[Len(r.completion)]
    BY DEF EndsWithEos
  <2> DEFINE c == r.completion
  <2>1. {i \in DOMAIN c : c[i]} = {Len(c)}
    BY DEF in_eos, validator_termination_ok
  <2>2. Len(c) \in {i \in DOMAIN c : c[i]}
    BY <2>1
  <2> HIDE DEF c
  <2>3. c[Len(c)]
    BY <2>2
  <2> QED
    BY <2>3 DEF c
<1>4. bt_ok(r) => verify_termination(r)
  BY <1>3 DEF bt_ok, verify_termination
<1> QED
  BY <1>1, <1>3, <1>4

\* The sets of rollouts are finite.
LEMMA RolloutsAreFinite ==
  ASSUME SelectionAssumption, NEW S \in SUBSET Range(Rollouts)
  PROVE  IsFiniteSet(S) /\ Cardinality(S) \in Nat
<1>1. Rollouts \in Seq(Range(Rollouts))
  BY DEF SelectionAssumption
<1>2. PICK n \in Nat : DOMAIN Rollouts = 1..n
  <2>1. Len(Rollouts) \in Nat /\ DOMAIN Rollouts = 1..Len(Rollouts)
    BY <1>1, LenProperties
  <2> QED
    BY <2>1
<1>3. Rollouts \in Surjection(1..n, Range(Rollouts))
  <2>1. Rollouts = [i \in DOMAIN Rollouts |-> Rollouts[i]]
    BY <1>1, LenProperties
  <2> QED
    BY <1>2, <2>1 DEF Surjection, Range
<1>4. ExistsSurjection(1..n, Range(Rollouts))
  BY <1>3 DEF ExistsSurjection
<1>5. IsFiniteSet(Range(Rollouts))
  BY <1>4, FS_NatSurjection
<1> QED
  BY <1>5, FS_Subset, FS_CardinalityType

\* The rollouts of a set that are not bt_ok.
Unfinished(S) == {r \in S : ~ bt_ok(r)}

\* Preferring takes n of S, and of good as many as it can.
LEMMA PreferringTakes ==
  ASSUME NEW S, IsFiniteSet(S), NEW good \in SUBSET S, NEW n \in Nat,
         NEW p \in Preferring(good, n, S)
  PROVE  p \subseteq S /\ Cardinality(p) = n
<1>1. IsFiniteSet(good) /\ Cardinality(good) \in Nat /\ IsFiniteSet(S \ good)
  BY FS_Subset, FS_CardinalityType, FS_Difference
<1>2. CASE Cardinality(good) >= n
  BY <1>2 DEF Preferring, kSubset
<1>3. CASE ~ (Cardinality(good) >= n)
  <2>1. PICK extra \in kSubset(n - Cardinality(good), S \ good) : p = good \cup extra
    BY <1>3 DEF Preferring
  <2>2. extra \subseteq S \ good /\ Cardinality(extra) = n - Cardinality(good)
    BY <2>1 DEF kSubset
  <2>3. IsFiniteSet(extra) /\ good \cap extra = {}
    BY <1>1, <2>2, FS_Subset
  <2>4. Cardinality(p) = Cardinality(good) + Cardinality(extra)
    BY <1>1, <2>1, <2>3, DisjointUnion
  <2>5. PICK a \in Nat : a = Cardinality(good)
    BY <1>1
  <2>6. a + (n - a) = n
    BY <2>5
  <2> QED
    BY <2>1, <2>2, <2>4, <2>5, <2>6
<1> QED
  BY <1>2, <1>3

\* A set with n elements or more lets Preferring take n.
LEMMA PreferringExists ==
  ASSUME NEW S, IsFiniteSet(S), NEW good \in SUBSET S, NEW n \in Nat, n <= Cardinality(S)
  PROVE  Preferring(good, n, S) # {}
<1>1. PICK a \in Nat : a = Cardinality(good)
  BY FS_Subset, FS_CardinalityType
<1>2. IsFiniteSet(good)
  BY FS_Subset
<1>3. CASE a >= n
  <2>1. PICK T \in SUBSET good : Cardinality(T) = n
    BY <1>1, <1>2, <1>3, SubsetOfSize
  <2> QED
    BY <1>1, <1>3, <2>1 DEF Preferring, kSubset
<1>4. CASE ~ (a >= n)
  <2>1. IsFiniteSet(S \ good) /\ Cardinality(S \ good) = Cardinality(S) - Cardinality(S \cap good)
    BY FS_Difference
  <2>2. S \cap good = good
    OBVIOUS
  <2>3. PICK c \in Nat : c = Cardinality(S)
    BY FS_CardinalityType
  <2>4. Cardinality(S \ good) = c - a
    BY <1>1, <2>1, <2>2, <2>3
  <2>5. n - a \in Nat /\ n - a <= c - a
    BY <1>1, <1>4, <2>3
  <2>6. PICK T \in SUBSET (S \ good) : Cardinality(T) = n - a
    BY <2>1, <2>4, <2>5, SubsetOfSize
  <2> QED
    BY <1>1, <1>4, <2>6 DEF Preferring, kSubset
<1> QED
  BY <1>3, <1>4

\* Picked takes n of S, and no choice of n has fewer that are unfinished.
LEMMA PickedTakes ==
  ASSUME NEW S, IsFiniteSet(S), NEW n \in Nat, NEW p \in Picked(n, S)
  PROVE  /\ p \subseteq S /\ Cardinality(p) = n
         /\ \A q \in SUBSET S : Cardinality(q) = n => Cardinality(Unfinished(p)) <= Cardinality(Unfinished(q))
<1> DEFINE ok == {r \in S : bt_ok(r)}
           ended == {r \in S \ ok : in_eos(r)}
<1>1. IsFiniteSet(ok) /\ IsFiniteSet(S \ ok)
  <2>1. ok \in SUBSET S
    OBVIOUS
  <2> QED
    BY <2>1, FS_Subset, FS_Difference
<1>2. PICK a \in Nat : a = Cardinality(ok)
  BY <1>1, FS_CardinalityType
<1>3. \A q \in SUBSET S : IsFiniteSet(Unfinished(q)) /\ Cardinality(Unfinished(q)) \in Nat
  <2>1. \A q \in SUBSET S : Unfinished(q) \in SUBSET S
    BY DEF Unfinished
  <2> QED
    BY <2>1, FS_Subset, FS_CardinalityType
<1>4. CASE a >= n
  <2>1. p \in SUBSET ok /\ Cardinality(p) = n
    BY <1>2, <1>4 DEF Picked, kSubset
  <2>2. Unfinished(p) = {}
    BY <2>1 DEF Unfinished
  <2>3. Cardinality(Unfinished(p)) = 0
    BY <2>2, FS_EmptySet
  <2>4. \A q \in SUBSET S : 0 <= Cardinality(Unfinished(q))
    BY <1>3
  <2> QED
    BY <2>1, <2>3, <2>4
<1>5. CASE ~ (a >= n)
  <2>1. PICK extra \in Preferring(ended, n - a, S \ ok) : p = ok \cup extra
    BY <1>2, <1>5 DEF Picked
  <2>2. extra \subseteq S \ ok /\ Cardinality(extra) = n - a
    <3>1. n - a \in Nat /\ ended \in SUBSET (S \ ok)
      BY <1>5
    <3> QED
      BY <1>1, <2>1, <3>1, PreferringTakes
  <2>3. IsFiniteSet(extra) /\ ok \cap extra = {}
    BY <1>1, <2>2, FS_Subset
  <2>4. Cardinality(p) = n
    <3>1. Cardinality(p) = Cardinality(ok) + Cardinality(extra)
      BY <1>1, <2>1, <2>3, DisjointUnion
    <3>2. a + (n - a) = n
      BY <1>2
    <3> QED
      BY <1>2, <2>2, <3>1, <3>2
  <2>5. Cardinality(Unfinished(p)) = n - a
    <3>1. Unfinished(p) = extra
      BY <2>1, <2>2 DEF Unfinished
    <3> QED
      BY <2>2, <3>1
  <2>6. ASSUME NEW q \in SUBSET S, Cardinality(q) = n PROVE n - a <= Cardinality(Unfinished(q))
    <3> DEFINE done == {r \in q : bt_ok(r)}
    <3>1. q = done \cup Unfinished(q) /\ done \cap Unfinished(q) = {} /\ done \in SUBSET ok
      BY DEF Unfinished
    <3>2. IsFiniteSet(done) /\ Cardinality(done) <= Cardinality(ok)
      BY <1>1, <3>1, FS_Subset
    <3>3. PICK d \in Nat, u \in Nat : d = Cardinality(done) /\ u = Cardinality(Unfinished(q))
      BY <1>3, <3>2, FS_CardinalityType
    <3>4. Cardinality(q) = d + u
      BY <1>3, <3>1, <3>2, <3>3, DisjointUnion
    <3>5. n = d + u /\ d <= a
      BY <1>2, <2>6, <3>2, <3>3, <3>4
    <3>6. n - a <= u
      BY <1>2, <3>3, <3>5
    <3> QED
      BY <3>3, <3>6
  <2> QED
    BY <2>1, <2>2, <2>4, <2>5, <2>6
<1> QED
  BY <1>4, <1>5

\* A set with n elements or more lets Picked take n.
LEMMA PickedExists ==
  ASSUME NEW S, IsFiniteSet(S), NEW n \in Nat, n <= Cardinality(S)
  PROVE  Picked(n, S) # {}
<1> DEFINE ok == {r \in S : bt_ok(r)}
           ended == {r \in S \ ok : in_eos(r)}
<1>1. ok \in SUBSET S /\ IsFiniteSet(ok) /\ IsFiniteSet(S \ ok)
  <2>1. ok \in SUBSET S
    OBVIOUS
  <2> QED
    BY <2>1, FS_Subset, FS_Difference
<1>2. PICK a \in Nat : a = Cardinality(ok)
  BY <1>1, FS_CardinalityType
<1>3. CASE a >= n
  <2>1. PICK T \in SUBSET ok : Cardinality(T) = n
    BY <1>1, <1>2, <1>3, SubsetOfSize
  <2> QED
    BY <1>2, <1>3, <2>1 DEF Picked, kSubset
<1>4. CASE ~ (a >= n)
  <2>1. Cardinality(S \ ok) = Cardinality(S) - Cardinality(S \cap ok)
    BY FS_Difference
  <2>2. S \cap ok = ok
    OBVIOUS
  <2>3. PICK c \in Nat : c = Cardinality(S)
    BY FS_CardinalityType
  <2>4. Cardinality(S \ ok) = c - a
    BY <1>2, <2>1, <2>2, <2>3
  <2>5. n - a \in Nat /\ n - a <= c - a
    BY <1>2, <1>4, <2>3
  <2>6. ended \in SUBSET (S \ ok)
    OBVIOUS
  <2> HIDE DEF ok, ended
  <2>7. Preferring(ended, n - a, S \ ok) # {}
    BY <1>1, <2>4, <2>5, <2>6, PreferringExists
  <2> QED
    BY <1>2, <1>4, <2>7 DEF Picked, ok, ended
<1> QED
  BY <1>3, <1>4

\* Thresholds in hundredths, squared.
LEMMA SquareOfThreshold ==
  ASSUME NEW h \in Nat, h >= 33
  PROVE  h * h \in Nat /\ h * h >= 1089
<1>1. PICK d \in Nat : h = d + 33
  <2>1. h - 33 \in Nat /\ h = (h - 33) + 33
    OBVIOUS
  <2> QED
    BY <2>1
<1>2. h * h = d * d + 66 * d + 1089 /\ d * d \in Nat
  BY <1>1
<1> QED
  BY <1>2

LEMMA AtLeastThreshold ==
  ASSUME NEW v \in Int, NEW q \in Nat, NEW s \in Nat, s >= 1089, v >= s * q
  PROVE  v >= 1089 * q
<1>1. s * q \in Nat /\ s * q >= 1089 * q
  BY TimesMonotone
<1> QED
  BY <1>1

\* The variance when k rewards of m are u and the others 0.
LEMMA VarianceOfBinary ==
  ASSUME NEW m \in Nat, NEW u \in Nat, NEW k \in Nat, k <= m
  PROVE  m * ((u * u) * k) - (u * k) * (u * k) = (k * (m - k)) * (u * u)
OBVIOUS

\* The lists of the size of a group.
Groups == [1..M_ROLLOUTS -> Range(Rollouts)]

\* The variance of a group as whole numbers.
LEMMA VarianceType ==
  ASSUME SelectionAssumption, NEW list \in Groups
  PROVE  /\ Len(list) = M_ROLLOUTS /\ DOMAIN list = 1..M_ROLLOUTS /\ IsFiniteSet(1..M_ROLLOUTS)
         /\ M_ROLLOUTS \in Nat /\ M_ROLLOUTS >= 1 /\ UNIT \in Nat /\ UNIT >= 1
         /\ [i \in DOMAIN list |-> list[i].reward] \in [1..M_ROLLOUTS -> Nat]
         /\ [i \in DOMAIN list |-> list[i].reward * list[i].reward] \in [1..M_ROLLOUTS -> Nat]
         /\ Variance(list) \in Int
<1>1. M_ROLLOUTS \in Nat /\ M_ROLLOUTS >= 1 /\ UNIT \in Nat /\ UNIT >= 1
  BY DEF SelectionAssumption
<1>2. Len(list) = M_ROLLOUTS /\ DOMAIN list = 1..M_ROLLOUTS
  BY <1>1, FunctionIsSeq DEF Groups
<1>3. \A i \in 1..M_ROLLOUTS : list[i].reward \in Nat
  BY RolloutType DEF Groups
<1> DEFINE rewards == [i \in DOMAIN list |-> list[i].reward]
           squares == [i \in DOMAIN list |-> list[i].reward * list[i].reward]
<1>4. rewards \in [1..M_ROLLOUTS -> Nat]
  BY <1>2, <1>3
<1>5. squares \in [1..M_ROLLOUTS -> Nat]
  <2>1. \A i \in 1..M_ROLLOUTS : list[i].reward * list[i].reward \in Nat
    BY <1>3
  <2> QED
    BY <1>2, <2>1
<1>6. IsFiniteSet(1..M_ROLLOUTS)
  BY <1>1, FS_Interval
<1>7. Variance(list) = Len(list) * SumFunctionOnSet(squares, DOMAIN list)
        - SumFunctionOnSet(rewards, DOMAIN list) * SumFunctionOnSet(rewards, DOMAIN list)
  BY DEF Variance
<1> HIDE DEF rewards, squares
<1>8. /\ SumFunctionOnSet(rewards, 1..M_ROLLOUTS) \in Nat
      /\ SumFunctionOnSet(squares, 1..M_ROLLOUTS) \in Nat
  BY <1>4, <1>5, <1>6, SumIsNat
<1>9. Variance(list) \in Int
  BY <1>1, <1>2, <1>7, <1>8
<1> QED
  BY <1>1, <1>2, <1>4, <1>5, <1>6, <1>9 DEF rewards, squares

\* A spread of more than the validator asks for is enough for it.
LEMMA WideIsInZone ==
  ASSUME SelectionAssumption, NEW list \in Groups, NEW h \in Nat, h >= 33, StdAtLeast(list, h)
  PROVE  is_in_zone(list)
<1> DEFINE scale == Len(list) * UNIT
           v == Variance(list)
<1>1. scale \in Nat /\ scale >= 1 /\ v \in Int
  <2>1. scale = M_ROLLOUTS * UNIT
    BY VarianceType
  <2>2. M_ROLLOUTS * UNIT \in Nat /\ M_ROLLOUTS * UNIT >= 1
    BY VarianceType, TimesPositive
  <2> QED
    BY <2>1, <2>2, VarianceType
<1>2. 10000 * v >= h * h * scale * scale
  BY DEF StdAtLeast
<1> HIDE DEF scale, v
<1>3. PICK q \in Nat : q = scale * scale
  BY <1>1
<1>4. q >= 1
  BY <1>1, <1>3, TimesPositive
<1>5. h * h * scale * scale = (h * h) * q /\ 33 * 33 * scale * scale = 1089 * q
  BY <1>1, <1>3
<1>6. h * h >= 1089 /\ h * h \in Nat
  BY SquareOfThreshold
<1>8. 10000 * v >= 1089 * q
  BY <1>1, <1>2, <1>3, <1>5, <1>6, AtLeastThreshold
<1>9. v > 0
  BY <1>1, <1>3, <1>4, <1>8
<1>10. 10000 * v >= 33 * 33 * scale * scale
  BY <1>1, <1>5, <1>8
<1> QED
  BY <1>9, <1>10 DEF is_in_zone, StdAtLeast, scale, v

\* A binary group of the band is in the zone.
LEMMA BandIsInZone ==
  ASSUME SelectionAssumption, BandAssumption, NEW list \in Groups,
         NEW right \in SUBSET (1..M_ROLLOUTS), Cardinality(right) \in K_MIN..K_MAX,
         \A i \in 1..M_ROLLOUTS : list[i].reward = IF i \in right THEN UNIT ELSE 0
  PROVE  is_in_zone(list)
<1> DEFINE rewards == [i \in DOMAIN list |-> list[i].reward]
           squares == [i \in DOMAIN list |-> list[i].reward * list[i].reward]
           ones == [i \in 1..M_ROLLOUTS |-> IF i \in right THEN 1 ELSE 0]
           U == UNIT * UNIT
<1>0. M_ROLLOUTS \in Nat /\ M_ROLLOUTS >= 1 /\ UNIT \in Nat /\ UNIT >= 1
  BY VarianceType
<1>1. /\ Len(list) = M_ROLLOUTS /\ DOMAIN list = 1..M_ROLLOUTS /\ IsFiniteSet(1..M_ROLLOUTS)
      /\ rewards \in [1..M_ROLLOUTS -> Nat] /\ squares \in [1..M_ROLLOUTS -> Nat]
  BY VarianceType
<1>2. PICK k \in Nat : k = Cardinality(right)
  BY <1>1, FS_Subset, FS_CardinalityType
<1>3. k \in K_MIN..K_MAX /\ k >= 1 /\ k <= M_ROLLOUTS - 1
  BY <1>0, <1>2 DEF SelectionAssumption
<1>4. ones \in [1..M_ROLLOUTS -> Nat] /\ SumFunctionOnSet(ones, 1..M_ROLLOUTS) = k
  <2>1. right \in SUBSET (1..M_ROLLOUTS) /\ \A i \in 1..M_ROLLOUTS : ones[i] = IF i \in right THEN 1 ELSE 0
    OBVIOUS
  <2>2. ones \in [1..M_ROLLOUTS -> Nat]
    OBVIOUS
  <2> HIDE DEF ones
  <2>3. IsFiniteSet(1..M_ROLLOUTS) /\ k = Cardinality(right)
    BY <1>1, <1>2
  <2>4. (\A e \in right : ones[e] = 1) /\ \A e \in (1..M_ROLLOUTS) \ right : ones[e] = 0
    BY <2>1
  <2>5. SumFunctionOnSet(ones, 1..M_ROLLOUTS) = Cardinality(right)
    BY ONLY <2>2, <2>3, <2>4, SumOfOnes
  <2> QED
    BY ONLY <2>2, <2>3, <2>5
<1>5. U \in Nat /\ U >= 1
  BY ONLY <1>0, TimesPositive
<1>6. \A i \in 1..M_ROLLOUTS : rewards[i] = UNIT * ones[i] /\ squares[i] = U * ones[i]
  <2> SUFFICES ASSUME NEW i \in 1..M_ROLLOUTS PROVE rewards[i] = UNIT * ones[i] /\ squares[i] = U * ones[i]
    OBVIOUS
  <2>1. rewards[i] = list[i].reward /\ squares[i] = list[i].reward * list[i].reward
    BY <1>1
  <2>2. ones[i] = IF i \in right THEN 1 ELSE 0
    OBVIOUS
  <2>3. list[i].reward = IF i \in right THEN UNIT ELSE 0
    OBVIOUS
  <2>4. UNIT * 1 = UNIT /\ UNIT * 0 = 0 /\ U * 1 = U /\ U * 0 = 0 /\ 0 * 0 = 0
    BY <1>0, <1>5
  <2> HIDE DEF rewards, squares, ones
  <2> QED
    BY <2>1, <2>2, <2>3, <2>4
<1>7. Variance(list) = Len(list) * SumFunctionOnSet(squares, DOMAIN list)
        - SumFunctionOnSet(rewards, DOMAIN list) * SumFunctionOnSet(rewards, DOMAIN list)
  BY DEF Variance
<1> HIDE DEF rewards, squares, ones, U
<1>8. SumFunctionOnSet(rewards, 1..M_ROLLOUTS) = UNIT * k
  <2>1. IsFiniteSet(1..M_ROLLOUTS) /\ rewards \in [1..M_ROLLOUTS -> Nat]
    BY <1>1
  <2> QED
    BY ONLY <1>0, <1>4, <1>6, <2>1, SumScaled
<1>9. SumFunctionOnSet(squares, 1..M_ROLLOUTS) = U * k
  <2>1. IsFiniteSet(1..M_ROLLOUTS) /\ squares \in [1..M_ROLLOUTS -> Nat]
    BY <1>1
  <2> QED
    BY ONLY <1>4, <1>5, <1>6, <2>1, SumScaled
<1>11. PICK w \in Nat : w = k * (M_ROLLOUTS - k) /\ w >= 1
  <2>1. k \in Nat /\ k >= 1 /\ M_ROLLOUTS - k \in Nat /\ M_ROLLOUTS - k >= 1
    BY <1>0, <1>3
  <2>2. k * (M_ROLLOUTS - k) \in Nat /\ k * (M_ROLLOUTS - k) >= 1
    BY <2>1, TimesPositive
  <2> QED
    BY <2>2
<1>12. Variance(list) = w * U
  <2>1. Variance(list) = M_ROLLOUTS * (U * k) - (UNIT * k) * (UNIT * k)
    BY <1>1, <1>7, <1>8, <1>9
  <2>2. M_ROLLOUTS * (U * k) - (UNIT * k) * (UNIT * k) = (k * (M_ROLLOUTS - k)) * U
    <3>1. k <= M_ROLLOUTS
      BY <1>0, <1>3
    <3> QED
      BY <1>0, <1>2, <3>1, VarianceOfBinary DEF U
  <2> QED
    BY <1>11, <2>1, <2>2
<1>13. 10000 * w >= 33 * 33 * (M_ROLLOUTS * M_ROLLOUTS)
  BY <1>3, <1>11 DEF BandAssumption
<1>14. w * U > 0
  BY <1>5, <1>11, TimesPositive
<1>15. 10000 * (w * U) >= 33 * 33 * (M_ROLLOUTS * UNIT) * (M_ROLLOUTS * UNIT)
  <2>1. PICK m \in Nat : m = M_ROLLOUTS * M_ROLLOUTS
    BY <1>0
  <2>2. 33 * 33 * (M_ROLLOUTS * UNIT) * (M_ROLLOUTS * UNIT) = (1089 * m) * U
    BY <1>0, <2>1 DEF U
  <2>3. 10000 * (w * U) = (10000 * w) * U
    BY <1>5, <1>11
  <2>4. 10000 * w >= 1089 * m
    BY <1>13, <2>1
  <2>5. (10000 * w) * U >= (1089 * m) * U
    <3>1. 1089 * m \in Nat /\ 10000 * w \in Nat
      BY <1>11, <2>1
    <3> QED
      BY <1>5, <2>4, <3>1, TimesMonotone
  <2> QED
    BY <2>2, <2>3, <2>5
<1> QED
  BY <1>1, <1>12, <1>14, <1>15 DEF is_in_zone, StdAtLeast

\* What one call generates.
LEMMA GeneratedType ==
  ASSUME SelectionAssumption, NEW list \in Generated
  PROVE  /\ list \in Groups /\ Range(list) \subseteq Range(Rollouts)
         /\ Range(list) = {list[i] : i \in 1..M_ROLLOUTS}
         /\ ~ continuous_reward(env) => \A r \in Range(list) : r.reward \in {0, UNIT}
<1>1. list \in Lists /\ (continuous_reward(env) \/ \A i \in DOMAIN list : list[i].reward \in {0, UNIT})
  BY DEF Generated
<1>2. PICK f \in [1..M_ROLLOUTS -> DOMAIN Rollouts] : list = [i \in DOMAIN f |-> Rollouts[f[i]]]
  BY <1>1 DEF Lists
<1>3. \A j \in DOMAIN Rollouts : Rollouts[j] \in Range(Rollouts)
  BY DEF Range
<1>4. list \in Groups
  BY <1>2, <1>3 DEF Groups
<1>5. DOMAIN list = 1..M_ROLLOUTS
  BY <1>2
<1> QED
  BY <1>1, <1>4, <1>5 DEF Groups, Range

\* The variables take the values that the code gives them: there is a group only
\* once a path has made one, and the rewards of math are binary.
SelectionType ==
  /\ env \in Envs
  /\ budget \in Budgets
  /\ phase \in Nat
  /\ rollouts \subseteq Range(Rollouts)
  /\ phase = 0 => rollouts = {}
  /\ ~ continuous_reward(env) => \A r \in rollouts : r.reward \in {0, UNIT}
  /\ outcome \notin {"composed", "entry"} => group = <<>>

\* The order in which the code tries the numbers of correct rollouts has a first.
LEMMA FirstOfOrder ==
  ASSUME SelectionAssumption, NEW F \in SUBSET (K_MIN..K_MAX), F # {}
  PROVE  \E k \in F : \A j \in F : j = k \/ Precedes(k, j)
<1>0. K_MIN \in Nat /\ K_MAX \in Nat
  BY DEF SelectionAssumption
<1>1. PICK mid \in Int : mid = (K_MIN + K_MAX) \div 2
  BY <1>0
<1> DEFINE D(n) == IF n < mid THEN mid - n ELSE n - mid
           rank(n) == IF n < mid THEN 2 * (mid - n) ELSE 2 * (n - mid) + 1
           R == {rank(n) : n \in F}
<1>2. \A n \in F : n \in Int
  BY <1>0
<1>3. R \subseteq Nat /\ R # {}
  <2>1. \A n \in F : rank(n) \in Nat
    BY <1>2
  <2> HIDE DEF rank
  <2> QED
    BY <2>1
<1>4. PICK r \in R : \A s \in R : r <= s
  <2> HIDE DEF R
  <2> QED
    BY <1>3, MinOfNumbers
<1>5. PICK k \in F : r = rank(k)
  BY <1>4
<1>6. ASSUME NEW j \in F, j # k PROVE Precedes(k, j)
  <2>1. rank(k) <= rank(j) /\ j \in Int /\ k \in Int
    BY <1>2, <1>4, <1>5
  <2>2. D(k) < D(j) \/ (D(k) = D(j) /\ k < j)
    BY <1>6, <2>1
  <2> QED
    BY <1>1, <2>2 DEF Precedes
<1> QED
  BY <1>5, <1>6

\* What _try_select returns is a group that the validator accepts.
LEMMA SelectedGroup ==
  ASSUME SelectionAssumption, BandAssumption, env \in Envs,
         NEW S \in SUBSET Range(Rollouts),
         ~ continuous_reward(env) => \A r \in S : r.reward \in {0, UNIT},
         NEW g \in _try_select(S)
  PROVE  /\ g \in SUBSET S /\ IsFiniteSet(g) /\ Cardinality(g) = M_ROLLOUTS
         /\ WithinBudget(g)
         /\ ~ bft_applicable(env) => \A r \in g : in_eos(r)
         /\ SetToSeq(g) \in Groups
         /\ is_in_zone(SetToSeq(g))
<1> DEFINE kept == terminating_rollouts(S)
<1>0. M_ROLLOUTS \in Nat /\ M_ROLLOUTS >= 1 /\ UNIT >= 1
  BY DEF SelectionAssumption
<1>1. kept \in SUBSET S /\ (~ bft_applicable(env) => \A r \in kept : in_eos(r))
  BY DEF terminating_rollouts
<1>2. Cardinality(kept) >= M_ROLLOUTS
      /\ g \in IF continuous_reward(env) THEN ContinuousGroups(kept) ELSE BinaryGroups(kept)
  <2>1. ~ (Cardinality(kept) < M_ROLLOUTS)
    BY DEF _try_select
  <2>2. g \in IF continuous_reward(env) THEN ContinuousGroups(kept) ELSE BinaryGroups(kept)
    BY <2>1 DEF _try_select
  <2>3. Cardinality(kept) \in Nat
    <3>1. kept \in SUBSET Range(Rollouts)
      BY <1>1
    <3> HIDE DEF kept
    <3> QED
      BY <3>1, RolloutsAreFinite
  <2> QED
    BY <1>0, <2>1, <2>2, <2>3
<1> HIDE DEF kept
<1>3. IsFiniteSet(kept)
  <2>1. kept \in SUBSET Range(Rollouts)
    BY <1>1
  <2> QED
    BY <2>1, RolloutsAreFinite
<1>4. ASSUME g \in SUBSET kept, Cardinality(g) = M_ROLLOUTS
      PROVE  IsFiniteSet(g) /\ SetToSeq(g) \in Groups
  <2>1. IsFiniteSet(g)
    BY <1>3, <1>4, FS_Subset
  <2>2. SetToSeq(g) \in [1..M_ROLLOUTS -> g]
    BY <1>4, <2>1, SetToSeqProperties
  <2>3. g \in SUBSET Range(Rollouts)
    BY <1>1, <1>4
  <2> QED
    BY <2>1, <2>2, <2>3 DEF Groups
<1>5. CASE continuous_reward(env)
  <2>1. g \in ContinuousGroups(kept)
    BY <1>2, <1>5
  <2>2. PICK tried \in SUBSET kept : g \in _select_continuous_subset(tried) /\ WithinBudget(g)
    <3> DEFINE ok == {r \in kept : bt_ok(r)}
               tried == IF Cardinality(ok) >= M_ROLLOUTS THEN ok ELSE kept
    <3>1. tried \in SUBSET kept
      OBVIOUS
    <3>2. g \in _select_continuous_subset(tried) /\ WithinBudget(g)
      BY <2>1 DEF ContinuousGroups
    <3> QED
      BY <3>1, <3>2
  <2>3. g \in Extremes(tried) /\ StdAtLeast(SetToSeq(g), 46)
    BY <2>2 DEF _select_continuous_subset
  <2>4. g \in SUBSET kept /\ Cardinality(g) = M_ROLLOUTS
    BY <2>3 DEF Extremes, Lowest, Highest, kSubset
  <2>5. IsFiniteSet(g) /\ SetToSeq(g) \in Groups
    BY <1>4, <2>4
  <2>6. is_in_zone(SetToSeq(g))
    <3>1. 46 \in Nat /\ 46 >= 33
      OBVIOUS
    <3> QED
      BY <2>3, <2>5, <3>1, WideIsInZone
  <2> QED
    BY <1>1, <2>2, <2>4, <2>5, <2>6
<1>6. CASE ~ continuous_reward(env)
  <2>1. PICK k \in K_MIN..K_MAX : g \in Composed(k, kept) /\ WithinBudget(g)
    BY <1>2, <1>6 DEF BinaryGroups
  <2>2. k \in Nat /\ k >= 1 /\ k <= M_ROLLOUTS - 1 /\ M_ROLLOUTS - k \in Nat /\ k + (M_ROLLOUTS - k) = M_ROLLOUTS
    BY <1>0 DEF SelectionAssumption
  <2>3. PICK correct \in Picked(k, Right(kept)), wrong \in Picked(M_ROLLOUTS - k, Wrong(kept)) :
          g = correct \cup wrong
    BY <2>1 DEF Composed
  <2>4. /\ Right(kept) \in SUBSET kept /\ Wrong(kept) \in SUBSET kept
        /\ IsFiniteSet(Right(kept)) /\ IsFiniteSet(Wrong(kept))
    <3>1. Right(kept) \in SUBSET kept /\ Wrong(kept) \in SUBSET kept
      BY DEF Right, Wrong
    <3> QED
      BY <1>3, <3>1, FS_Subset
  <2>5. correct \subseteq Right(kept) /\ Cardinality(correct) = k
    BY <2>2, <2>3, <2>4, PickedTakes
  <2>6. wrong \subseteq Wrong(kept) /\ Cardinality(wrong) = M_ROLLOUTS - k
    BY <2>2, <2>3, <2>4, PickedTakes
  <2>7. correct \cap wrong = {} /\ g \in SUBSET kept
    <3>1. \A r \in correct : r.reward = UNIT
      BY <2>5 DEF Right
    <3>2. \A r \in wrong : r.reward = 0
      BY <2>6 DEF Wrong
    <3>3. correct \cap wrong = {}
      <4>1. UNIT # 0
        BY <1>0
      <4> QED
        BY ONLY <3>1, <3>2, <4>1
    <3>4. g \in SUBSET kept
      BY <2>3, <2>4, <2>5, <2>6
    <3> QED
      BY <3>3, <3>4
  <2>8. IsFiniteSet(correct) /\ IsFiniteSet(wrong)
    BY <2>4, <2>5, <2>6, FS_Subset
  <2>9. Cardinality(g) = M_ROLLOUTS
    <3>1. Cardinality(g) = Cardinality(correct) + Cardinality(wrong)
      BY ONLY <2>3, <2>7, <2>8, DisjointUnion
    <3> QED
      BY <2>2, <2>5, <2>6, <3>1
  <2>10. IsFiniteSet(g) /\ SetToSeq(g) \in Groups
    BY <1>4, <2>7, <2>9
  <2>11. is_in_zone(SetToSeq(g))
    <3> DEFINE list == SetToSeq(g)
               I == {i \in 1..M_ROLLOUTS : list[i] \in correct}
    <3>1. I \in SUBSET (1..M_ROLLOUTS)
      OBVIOUS
    <3>2. Cardinality(I) = k
      <4>1. correct \in SUBSET g
        BY <2>3
      <4>2. Cardinality({i \in 1..Cardinality(g) : SetToSeq(g)[i] \in correct}) = Cardinality(correct)
        BY <2>10, <4>1, SetToSeqCounts
      <4> QED
        BY <2>5, <2>9, <4>2
    <3>3. \A i \in 1..M_ROLLOUTS : list[i] \in g
      <4>1. list \in [1..M_ROLLOUTS -> g]
        BY <2>9, <2>10, SetToSeqProperties
      <4> HIDE DEF list, I
      <4> QED
        BY ONLY <4>1
    <3>4. \A i \in 1..M_ROLLOUTS : list[i].reward = IF i \in I THEN UNIT ELSE 0
      <4> SUFFICES ASSUME NEW i \in 1..M_ROLLOUTS PROVE list[i].reward = IF i \in I THEN UNIT ELSE 0
        OBVIOUS
      <4>1. i \in I <=> list[i] \in correct
        OBVIOUS
      <4> HIDE DEF I, list
      <4>2. list[i] \in correct \/ list[i] \in wrong
        BY <2>3, <3>3
      <4>3. list[i] \in correct => list[i].reward = UNIT
        BY <2>5 DEF Right
      <4>4. list[i] \in wrong => list[i].reward = 0
        BY <2>6 DEF Wrong
      <4> QED
        BY <4>1, <4>2, <4>3, <4>4
    <3>5. Cardinality(I) \in K_MIN..K_MAX
      BY <3>2
    <3>6. list \in Groups
      BY <2>10
    <3> HIDE DEF I, list
    <3>7. is_in_zone(list)
      BY ONLY SelectionAssumption, BandAssumption, <3>1, <3>4, <3>5, <3>6, BandIsInZone
    <3> QED
      BY <3>7 DEF list
  <2> QED
    BY <1>1, <2>1, <2>7, <2>9, <2>10, <2>11
<1> QED
  BY <1>5, <1>6

\* While the rollouts of a math prompt hold a group that could be submitted,
\* _try_select finds one.
LEMMA TrySelectFinds ==
  ASSUME SelectionAssumption, env \in Envs, bft_applicable(env),
         NEW S \in SUBSET Range(Rollouts), \A r \in S : r.reward \in {0, UNIT},
         budget \in Budgets,
         NEW g \in SUBSET S, Cardinality(g) = M_ROLLOUTS,
         Cardinality(Right(g)) \in K_MIN..K_MAX, WithinBudget(g)
  PROVE  _try_select(S) # {}
<1>0. M_ROLLOUTS \in Nat /\ UNIT >= 1 /\ budget \in Nat
  BY DEF SelectionAssumption
<1>1. \A T \in SUBSET S : IsFiniteSet(T) /\ Cardinality(T) \in Nat
  BY RolloutsAreFinite
<1>2. terminating_rollouts(S) = S /\ ~ continuous_reward(env)
  BY DEF terminating_rollouts, bft_applicable, continuous_reward
<1>3. PICK k \in K_MIN..K_MAX : k = Cardinality(Right(g))
  OBVIOUS
<1>4. k \in Nat /\ M_ROLLOUTS - k \in Nat /\ k + (M_ROLLOUTS - k) = M_ROLLOUTS
  BY <1>0 DEF SelectionAssumption
<1>5. /\ Right(g) \in SUBSET Right(S) /\ Wrong(g) \in SUBSET Wrong(S)
      /\ Right(S) \in SUBSET S /\ Wrong(S) \in SUBSET S
      /\ Right(g) \in SUBSET S /\ Wrong(g) \in SUBSET S
      /\ Right(S) \cap Wrong(S) = {} /\ g = Right(g) \cup Wrong(g)
  <2>1. \A r \in g : r.reward = UNIT \/ r.reward = 0
    OBVIOUS
  <2>2. Right(S) \cap Wrong(S) = {}
    BY <1>0 DEF Right, Wrong
  <2> QED
    BY <2>1, <2>2 DEF Right, Wrong
<1>6. Cardinality(Wrong(g)) = M_ROLLOUTS - k
  <2>1. Right(g) \cap Wrong(g) = {}
    BY <1>5
  <2>2. PICK w \in Nat : w = Cardinality(Wrong(g))
    BY <1>1, <1>5
  <2>3. Cardinality(g) = k + w
    <3>1. IsFiniteSet(Right(g)) /\ IsFiniteSet(Wrong(g)) /\ g = Right(g) \cup Wrong(g)
      BY <1>1, <1>5
    <3> QED
      BY ONLY <1>3, <2>1, <2>2, <3>1, DisjointUnion
  <2>4. M_ROLLOUTS = k + w
    BY <2>3
  <2> QED
    BY <1>0, <1>4, <2>2, <2>4
<1>7. k <= Cardinality(Right(S)) /\ M_ROLLOUTS - k <= Cardinality(Wrong(S))
  <2>1. IsFiniteSet(Right(S)) /\ IsFiniteSet(Wrong(S))
    BY <1>1, <1>5
  <2> QED
    BY ONLY <1>3, <1>5, <1>6, <2>1, FS_Subset
<1>8. IsFiniteSet(Right(S)) /\ IsFiniteSet(Wrong(S))
  BY <1>1, <1>5
<1>9. PICK correct \in Picked(k, Right(S)) : TRUE
  BY ONLY <1>4, <1>7, <1>8, PickedExists
<1>10. PICK wrong \in Picked(M_ROLLOUTS - k, Wrong(S)) : TRUE
  BY ONLY <1>4, <1>7, <1>8, PickedExists
<1>11. /\ correct \subseteq Right(S) /\ Cardinality(correct) = k
       /\ Cardinality(Unfinished(correct)) <= Cardinality(Unfinished(Right(g)))
  BY ONLY <1>3, <1>4, <1>5, <1>8, <1>9, PickedTakes
<1>12. /\ wrong \subseteq Wrong(S) /\ Cardinality(wrong) = M_ROLLOUTS - k
       /\ Cardinality(Unfinished(wrong)) <= Cardinality(Unfinished(Wrong(g)))
  BY ONLY <1>4, <1>5, <1>6, <1>8, <1>10, PickedTakes
<1> DEFINE found == correct \cup wrong
<1>13. \A A, B \in SUBSET S : A \cap B = {} =>
          /\ Cardinality(Unfinished(A \cup B)) = Cardinality(Unfinished(A)) + Cardinality(Unfinished(B))
          /\ Cardinality(Unfinished(A)) \in Nat /\ Cardinality(Unfinished(B)) \in Nat
  <2> SUFFICES ASSUME NEW A \in SUBSET S, NEW B \in SUBSET S, A \cap B = {}
               PROVE  /\ Cardinality(Unfinished(A \cup B)) = Cardinality(Unfinished(A)) + Cardinality(Unfinished(B))
                      /\ Cardinality(Unfinished(A)) \in Nat /\ Cardinality(Unfinished(B)) \in Nat
    OBVIOUS
  <2>1. /\ Unfinished(A) \in SUBSET S /\ Unfinished(B) \in SUBSET S
        /\ Unfinished(A) \cap Unfinished(B) = {}
        /\ Unfinished(A \cup B) = Unfinished(A) \cup Unfinished(B)
    BY DEF Unfinished
  <2>2. IsFiniteSet(Unfinished(A)) /\ IsFiniteSet(Unfinished(B))
    BY <1>1, <2>1
  <2> QED
    BY ONLY <2>1, <2>2, DisjointUnion
<1>14. WithinBudget(found)
  <2>1. correct \cap wrong = {} /\ Right(g) \cap Wrong(g) = {} /\ correct \in SUBSET S /\ wrong \in SUBSET S
    BY <1>5, <1>11, <1>12
  <2>2. PICK a \in Nat, b \in Nat, c \in Nat, d \in Nat :
          /\ a = Cardinality(Unfinished(correct)) /\ b = Cardinality(Unfinished(wrong))
          /\ c = Cardinality(Unfinished(Right(g))) /\ d = Cardinality(Unfinished(Wrong(g)))
          /\ Cardinality(Unfinished(found)) = a + b
          /\ Cardinality(Unfinished(g)) = c + d
    BY ONLY <1>5, <1>13, <2>1
  <2>3. Cardinality(Unfinished(g)) <= budget
    BY DEF WithinBudget, Unfinished
  <2>4. a <= c /\ b <= d /\ c + d <= budget
    BY <1>11, <1>12, <2>2, <2>3
  <2>5. a + b <= budget
    BY <1>0, <2>4
  <2>6. Cardinality(Unfinished(found)) <= budget
    BY <2>2, <2>5
  <2> QED
    BY <2>6 DEF WithinBudget, Unfinished
<1>15. found \in Composed(k, S)
  BY DEF Composed
<1> HIDE DEF found
<1>16. BinaryGroups(S) # {}
  <2> DEFINE Fits(j) == {h \in Composed(j, S) : WithinBudget(h)}
             feasible == {j \in K_MIN..K_MAX : Fits(j) # {}}
             first == {j \in feasible : \A i \in feasible : i = j \/ Precedes(j, i)}
  <2>1. k \in feasible /\ feasible \in SUBSET (K_MIN..K_MAX)
    BY <1>14, <1>15
  <2>2. BinaryGroups(S) = UNION {Fits(j) : j \in first}
    BY DEF BinaryGroups
  <2>3. \E j \in feasible : \A i \in feasible : i = j \/ Precedes(j, i)
    <3> HIDE DEF feasible
    <3> QED
      BY <2>1, FirstOfOrder
  <2>4. PICK j \in first : Fits(j) # {}
    BY <2>3
  <2>5. Fits(j) \in {Fits(i) : i \in first}
    BY <2>4
  <2> HIDE DEF Fits, first
  <2> QED
    BY <2>2, <2>4, <2>5
<1>17. ~ (Cardinality(S) < M_ROLLOUTS)
  <2>1. Cardinality(g) <= Cardinality(S)
    BY <1>1, FS_Subset
  <2> QED
    BY <1>0, <1>1, <2>1
<1> QED
  BY <1>2, <1>16, <1>17 DEF _try_select

\* Of the rollouts that phase 1 drops none makes a group that could be submitted:
\* they are all right or all wrong, or none of them is finished.
LEMMA DroppedHoldNoGroup ==
  ASSUME SelectionAssumption, M_ROLLOUTS \notin Budgets, env \in Envs, bft_applicable(env),
         budget \in Budgets, NEW list \in Generated, DropInPhase1(list),
         NEW g \in SUBSET Range(list), Cardinality(g) = M_ROLLOUTS,
         Cardinality(Right(g)) \in K_MIN..K_MAX
  PROVE  ~ WithinBudget(g)
<1>0. /\ M_ROLLOUTS \in Nat /\ budget \in Nat /\ budget < M_ROLLOUTS
      /\ \A k \in K_MIN..K_MAX : k # 0 /\ k # M_ROLLOUTS
  BY DEF SelectionAssumption
<1>1. /\ list \in Groups /\ Range(list) = {list[i] : i \in 1..M_ROLLOUTS} /\ DOMAIN list = 1..M_ROLLOUTS
      /\ Range(list) \subseteq Range(Rollouts)
  BY GeneratedType DEF Groups
<1>2. CASE \A i, j \in DOMAIN list : list[i].reward = list[j].reward
  <2>1. \A r, t \in g : r.reward = t.reward
    BY <1>1, <1>2
  <2>2. Right(g) = {} \/ Right(g) = g
    BY <2>1 DEF Right
  <2>3. Cardinality(Right(g)) = 0 \/ Cardinality(Right(g)) = M_ROLLOUTS
    BY <2>2, FS_EmptySet
  <2> QED
    BY <1>0, <2>3
<1>3. ASSUME \A r \in Range(list) : ~ bt_ok(r) PROVE ~ WithinBudget(g)
  <2>1. {r \in g : ~ bt_ok(r)} = g
    BY <1>3
  <2>2. WithinBudget(g) => M_ROLLOUTS <= budget
    BY <2>1 DEF WithinBudget
  <2> QED
    BY <1>0, <2>2
<1>4. CASE \A i \in DOMAIN list : ~ EndsWithEos(list[i])
  <2>1. \A r \in Range(list) : ~ EndsWithEos(r) /\ r \in Range(Rollouts)
    BY <1>1, <1>4
  <2>2. \A r \in Range(list) : ~ bt_ok(r)
    BY <2>1, RolloutType DEF bt_ok
  <2> QED
    BY <1>3, <2>2
<1>5. CASE too_many_truncated(list)
  <2> DEFINE ended == {i \in DOMAIN list : bt_ok(list[i])}
  <2>1. Cardinality(ended) = 0
    BY <1>5 DEF too_many_truncated
  <2>2. ended \in SUBSET (1..M_ROLLOUTS)
    BY <1>1
  <2>3. ended = {}
    <3> HIDE DEF ended
    <3>1. IsFiniteSet(ended)
      <4>1. 1 \in Int /\ M_ROLLOUTS \in Int
        BY <1>0
      <4>2. IsFiniteSet(1..M_ROLLOUTS)
        BY ONLY <4>1, FS_Interval
      <4> QED
        BY ONLY <2>2, <4>2, FS_Subset
    <3> QED
      BY <2>1, <3>1, FS_EmptySet
  <2>4. \A r \in Range(list) : ~ bt_ok(r)
    BY <1>1, <2>3
  <2> QED
    BY <1>3, <2>4
<1> QED
  BY <1>2, <1>4, <1>5 DEF DropInPhase1

\* SelectionType is inductive.
LEMMA SelectionTypeHolds ==
  ASSUME SelectionAssumption
  PROVE  /\ SelectionInit => SelectionType
         /\ SelectionType /\ [SelectionNext]_selection_vars => SelectionType'
<1>1. SelectionInit => SelectionType
  BY DEF SelectionInit, SelectionType
<1>2. ASSUME SelectionType, [SelectionNext]_selection_vars PROVE SelectionType'
  <2> USE <1>2 DEF SelectionType
  <2>1. ASSUME NEW list \in Generated, PhaseWith(list)
        PROVE  /\ env' = env /\ budget' = budget /\ phase' \in Nat /\ phase' # 0
               /\ rollouts' \subseteq Range(Rollouts)
               /\ ~ continuous_reward(env) => \A r \in rollouts' : r.reward \in {0, UNIT}
    <3>1. /\ phase' = phase + 1 /\ rollouts' = rollouts \cup Range(list) /\ env' = env /\ budget' = budget
      BY <2>1 DEF PhaseWith
    <3>2. Range(list) \subseteq Range(Rollouts)
          /\ (~ continuous_reward(env) => \A r \in Range(list) : r.reward \in {0, UNIT})
      BY GeneratedType
    <3> QED
      BY <3>1, <3>2
  <2>2. CASE PhaseDrops
    <3>1. PICK list \in Generated : PhaseWith(list)
      BY <2>2 DEF PhaseDrops
    <3>2. outcome = "baking" /\ outcome' = "dropped" /\ group' = group
      BY <2>2 DEF PhaseDrops, PhaseWith
    <3> QED
      BY <2>1, <3>1, <3>2
  <2>3. CASE PhaseSelects
    <3>1. PICK list \in Generated : PhaseWith(list)
      BY <2>3 DEF PhaseSelects
    <3>2. outcome' = "composed"
      BY <2>3 DEF PhaseSelects
    <3> QED
      BY <2>1, <3>1, <3>2
  <2>4. CASE PhaseRetries
    <3>1. PICK list \in Generated : PhaseWith(list)
      BY <2>4 DEF PhaseRetries
    <3>2. outcome = "baking" /\ group' = group
      BY <2>4 DEF PhaseRetries, PhaseWith
    <3> QED
      BY <2>1, <3>1, <3>2
  <2>5. CASE UnderGenerated
    BY <2>5 DEF UnderGenerated
  <2>6. CASE BakeEntry
    BY <2>6 DEF BakeEntry
  <2>7. CASE UNCHANGED selection_vars
    BY <2>7 DEF selection_vars
  <2> QED
    BY <2>2, <2>3, <2>4, <2>5, <2>6, <2>7 DEF SelectionNext
<1> QED
  BY <1>1, <1>2

\* Each path that makes a group makes one that the validator accepts.
LEMMA AcceptedHolds ==
  ASSUME SelectionAssumption, BandAssumption
  PROVE  /\ SelectionInit => SelectionIsAccepted
         /\ SelectionType /\ SelectionIsAccepted /\ [SelectionNext]_selection_vars => SelectionIsAccepted'
<1>1. SelectionInit => SelectionIsAccepted
  BY DEF SelectionInit, SelectionIsAccepted
<1>2. ASSUME SelectionType, SelectionIsAccepted, [SelectionNext]_selection_vars PROVE SelectionIsAccepted'
  <2>1. ASSUME group' = <<>> PROVE SelectionIsAccepted'
    BY <2>1 DEF SelectionIsAccepted
  <2>2. outcome = "baking" => group = <<>>
    BY <1>2 DEF SelectionType
  <2>3. CASE PhaseDrops
    BY <2>1, <2>2, <2>3 DEF PhaseDrops, PhaseWith
  <2>4. CASE PhaseRetries
    BY <2>1, <2>2, <2>4 DEF PhaseRetries, PhaseWith
  <2>5. CASE UnderGenerated
    BY <2>1, <2>2, <2>5 DEF UnderGenerated
  <2>6. CASE BakeEntry
    <3>1. PICK list \in Generated :
            IF _skip_for_out_of_zone(list)
              THEN outcome' = "dropped" /\ UNCHANGED group
              ELSE outcome' = "entry" /\ group' = list
      BY <2>6 DEF BakeEntry
    <3>2. CASE _skip_for_out_of_zone(list)
      BY <2>1, <2>2, <2>6, <3>1, <3>2 DEF BakeEntry
    <3>3. CASE ~ _skip_for_out_of_zone(list)
      <4>1. outcome' = "entry" /\ group' = list
        BY <3>1, <3>3
      <4>2. list \in Groups
        BY GeneratedType
      <4>3. StdAtLeast(list, 43)
        BY <3>3 DEF _skip_for_out_of_zone
      <4>4. is_in_zone(list) /\ Len(list) = M_ROLLOUTS
        <5>1. 43 \in Nat /\ 43 >= 33
          OBVIOUS
        <5> QED
          BY <4>2, <4>3, <5>1, WideIsInZone, VarianceType
      <4>5. is_in_zone(group)' <=> is_in_zone(list)
        BY <4>1 DEF is_in_zone, StdAtLeast, Variance
      <4> QED
        BY <4>1, <4>4, <4>5 DEF SelectionIsAccepted
    <3> QED
      BY <3>2, <3>3
  <2>7. CASE PhaseSelects
    <3>1. PICK list \in Generated : PhaseWith(list) /\ \E g \in _try_select(rollouts') : group' = SetToSeq(g)
      BY <2>7 DEF PhaseSelects
    <3>2. env' = env /\ budget' = budget /\ rollouts' \in SUBSET Range(Rollouts)
          /\ (~ continuous_reward(env) => \A r \in rollouts' : r.reward \in {0, UNIT}) /\ env \in Envs
      <4>1. SelectionType'
        BY <1>2, SelectionTypeHolds
      <4>2. env' = env /\ budget' = budget
        BY <3>1 DEF PhaseWith
      <4> QED
        BY <4>1, <4>2 DEF SelectionType
    <3>3. PICK g \in _try_select(rollouts') : group' = SetToSeq(g)
      BY <3>1
    <3>4. /\ IsFiniteSet(g) /\ Cardinality(g) = M_ROLLOUTS /\ WithinBudget(g)
          /\ (~ bft_applicable(env) => \A r \in g : in_eos(r))
          /\ SetToSeq(g) \in Groups /\ is_in_zone(SetToSeq(g)) /\ g \in SUBSET Range(Rollouts)
      BY <3>2, <3>3, SelectedGroup
    <3> DEFINE s == SetToSeq(g)
    <3>5. /\ Len(s) = M_ROLLOUTS /\ DOMAIN s = 1..M_ROLLOUTS /\ IsInjective(s)
          /\ s \in [1..M_ROLLOUTS -> g]
      BY <3>4, SetToSeqProperties, VarianceType
    <3>6. Cardinality({i \in DOMAIN s : ~ verify_termination(s[i])}) <= budget
      <4> DEFINE bad == {i \in DOMAIN s : ~ verify_termination(s[i])}
                 left == {i \in 1..Cardinality(g) : SetToSeq(g)[i] \in Unfinished(g)}
      <4>1. Unfinished(g) \in SUBSET g
        BY DEF Unfinished
      <4>2. IsFiniteSet(left) /\ Cardinality(left) = Cardinality(Unfinished(g))
        BY <3>4, <4>1, SetToSeqCounts
      <4>3. bad \in SUBSET left
        <5> SUFFICES ASSUME NEW i \in DOMAIN s, ~ verify_termination(s[i]) PROVE i \in left
          OBVIOUS
        <5> HIDE DEF s
        <5>1. s[i] \in g /\ s[i] \in Range(Rollouts) /\ i \in 1..Cardinality(g)
          BY <3>4, <3>5
        <5>2. ~ bt_ok(s[i])
          BY <5>1, RolloutType
        <5> QED
          BY <5>1, <5>2 DEF Unfinished, s
      <4>4. Cardinality(Unfinished(g)) <= budget
        BY <3>4 DEF WithinBudget, Unfinished
      <4> HIDE DEF bad, left
      <4>5. Cardinality(bad) <= Cardinality(left) /\ Cardinality(left) \in Nat /\ Cardinality(bad) \in Nat
        BY <4>2, <4>3, FS_Subset, FS_CardinalityType
      <4>6. budget \in Int
        <5>1. budget \in Budgets
          BY <1>2 DEF SelectionType
        <5>2. Budgets \subseteq 0..M_ROLLOUTS
          BY DEF SelectionAssumption
        <5>3. budget \in 0..M_ROLLOUTS
          BY ONLY <5>1, <5>2
        <5> QED
          BY ONLY <5>3
      <4>7. Cardinality(bad) <= budget
        BY <4>2, <4>4, <4>5, <4>6
      <4> QED
        BY <4>7 DEF bad
    <3>7. ~ bft_applicable(env) => \A i \in DOMAIN s : in_eos(s[i])
      BY <3>4, <3>5
    <3>8. is_in_zone(s)
      BY <3>4
    <3> HIDE DEF s
    <3>9. group' = s
      BY <3>3 DEF s
    <3>10. is_in_zone(group)' <=> is_in_zone(s)
      BY <3>9 DEF is_in_zone, StdAtLeast, Variance
    <3>11. IsInjective(group') /\ Len(group') = M_ROLLOUTS
      BY <3>5, <3>9
    <3> QED
      BY <3>2, <3>6, <3>7, <3>8, <3>9, <3>10, <3>11 DEF SelectionIsAccepted, bft_applicable
  <2>8. CASE UNCHANGED selection_vars
    BY <1>2, <2>8 DEF selection_vars, SelectionIsAccepted, is_in_zone, StdAtLeast, Variance
  <2> QED
    BY <1>2, <2>3, <2>4, <2>5, <2>6, <2>7, <2>8 DEF SelectionNext
<1> QED
  BY <1>1, <1>2

\* Whatever the path and the phase it comes from, the group of an entry has its
\* size and a spread of rewards that is_in_zone takes, and one that _try_select
\* composed has no rollout twice, no more unfinished ones than the budget, counted
\* as the validator judges them, and in code none without its EOS.
THEOREM GroupsAreAccepted == SelectionSpec => []SelectionIsAccepted
<1> USE SelectionAssumption, BandAssumption
<1>1. SelectionInit => SelectionType /\ SelectionIsAccepted
  BY SelectionTypeHolds, AcceptedHolds
<1>2. SelectionType /\ SelectionIsAccepted /\ [SelectionNext]_selection_vars
        => SelectionType' /\ SelectionIsAccepted'
  BY SelectionTypeHolds, AcceptedHolds
<1> QED
  BY <1>1, <1>2, PTL DEF SelectionSpec

\* Neither a drop nor a retry leaves a group behind.
LEMMA NoGroupIsMissedHolds ==
  ASSUME SelectionAssumption, M_ROLLOUTS \notin Budgets
  PROVE  /\ SelectionInit => NoGroupIsMissed
         /\ SelectionType /\ NoGroupIsMissed /\ [SelectionNext]_selection_vars => NoGroupIsMissed'
<1>0. M_ROLLOUTS \in Nat /\ M_ROLLOUTS # 0
  BY DEF SelectionAssumption
<1>1. \A g \in kSubset(M_ROLLOUTS, {}) : FALSE
  <2>1. \A g \in SUBSET {} : Cardinality(g) = 0
    BY FS_EmptySet
  <2> QED
    BY <1>0, <2>1 DEF kSubset
<1>2. ASSUME SelectionInit PROVE NoGroupIsMissed
  BY <1>1, <1>2 DEF SelectionInit, NoGroupIsMissed
<1>3. ASSUME SelectionType, NoGroupIsMissed, [SelectionNext]_selection_vars PROVE NoGroupIsMissed'
  <2>0. env \in Envs /\ budget \in Budgets /\ (phase = 0 => rollouts = {})
    BY <1>3 DEF SelectionType
  <2>1. CASE PhaseDrops
    <3>1. PICK list \in Generated : PhaseWith(list) /\ phase = 0 /\ DropInPhase1(list)
      BY <2>1 DEF PhaseDrops
    <3>2. rollouts' = Range(list) /\ env' = env /\ budget' = budget
      BY <2>0, <3>1 DEF PhaseWith
    <3>3. ASSUME bft_applicable(env), NEW g \in kSubset(M_ROLLOUTS, Range(list)),
                 Cardinality(Right(g)) \in K_MIN..K_MAX, WithinBudget(g)
          PROVE  FALSE
      <4>1. g \in SUBSET Range(list) /\ Cardinality(g) = M_ROLLOUTS
        BY <3>3 DEF kSubset
      <4> QED
        BY <2>0, <3>1, <3>3, <4>1, DroppedHoldNoGroup
    <3> QED
      BY <3>2, <3>3 DEF NoGroupIsMissed, WithinBudget, bft_applicable, Right, bt_ok, in_eos
  <2>2. CASE PhaseSelects
    BY <2>2 DEF PhaseSelects, NoGroupIsMissed
  <2>3. CASE PhaseRetries
    <3>1. PICK list \in Generated : PhaseWith(list) /\ _try_select(rollouts') = {}
      BY <2>3 DEF PhaseRetries
    <3>2. /\ env' = env /\ budget' = budget /\ rollouts' \in SUBSET Range(Rollouts)
          /\ ~ continuous_reward(env) => \A r \in rollouts' : r.reward \in {0, UNIT}
      <4>1. SelectionType'
        BY <1>3, SelectionTypeHolds
      <4>2. env' = env /\ budget' = budget
        BY <3>1 DEF PhaseWith
      <4> QED
        BY <4>1, <4>2 DEF SelectionType
    <3>3. ASSUME bft_applicable(env), NEW g \in kSubset(M_ROLLOUTS, rollouts'),
                 Cardinality(Right(g)) \in K_MIN..K_MAX, WithinBudget(g)
          PROVE  FALSE
      <4>1. g \in SUBSET rollouts' /\ Cardinality(g) = M_ROLLOUTS
        BY <3>3 DEF kSubset
      <4>2. \A r \in rollouts' : r.reward \in {0, UNIT}
        BY <3>2, <3>3 DEF bft_applicable, continuous_reward
      <4> QED
        BY <2>0, <3>1, <3>2, <3>3, <4>1, <4>2, TrySelectFinds
    <3> QED
      BY <3>2, <3>3 DEF NoGroupIsMissed, WithinBudget, bft_applicable, Right, bt_ok, in_eos
  <2>4. CASE UnderGenerated
    BY <2>4 DEF UnderGenerated, NoGroupIsMissed
  <2>5. CASE BakeEntry
    <3>1. rollouts' = {}
      BY <2>0, <2>5 DEF BakeEntry
    <3> QED
      BY <1>1, <3>1 DEF NoGroupIsMissed
  <2>6. CASE UNCHANGED selection_vars
    <3>1. env' = env /\ budget' = budget /\ rollouts' = rollouts /\ outcome' = outcome
      BY <2>6 DEF selection_vars
    <3> QED
      BY <1>3, <3>1 DEF NoGroupIsMissed, WithinBudget, bft_applicable
  <2> QED
    BY <1>3, <2>1, <2>2, <2>3, <2>4, <2>5, <2>6 DEF SelectionNext
<1> QED
  BY <1>2, <1>3

\* A math prompt is neither dropped nor generated once more while its rollouts hold
\* a group that could be submitted.  A budget that admits M_ROLLOUTS unfinished
\* rollouts is left out: phase 1 drops a group without one that is finished, and
\* under that budget it could have been submitted.
THEOREM NoGroupMissed ==
  ASSUME M_ROLLOUTS \notin Budgets
  PROVE  SelectionSpec => []NoGroupIsMissed
<1> USE SelectionAssumption
<1>1. SelectionInit => SelectionType /\ NoGroupIsMissed
  BY SelectionTypeHolds, NoGroupIsMissedHolds
<1>2. SelectionType /\ NoGroupIsMissed /\ [SelectionNext]_selection_vars
        => SelectionType' /\ NoGroupIsMissed'
  BY SelectionTypeHolds, NoGroupIsMissedHolds
<1> QED
  BY <1>1, <1>2, PTL DEF SelectionSpec

=============================================================================
