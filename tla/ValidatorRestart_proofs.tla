----------------------- MODULE ValidatorRestart_proofs -----------------------
(***************************************************************************)
(* Theorems about ValidatorRestart: for any prompts, miners, bounds and    *)
(* cooldown, if the archives can be listed at every start; for the weights *)
(* if nothing goes amiss with the store.                                   *)
(***************************************************************************)
EXTENDS ValidatorRestart, SequenceFilter_proofs, FiniteSetTheorems, TLAPS

-----------------------------------------------------------------------------
(***************************************************************************)
(* What makes an archive final: a process that has read the list of the    *)
(* archives is past all of them, and the window in hand has none yet.      *)
(***************************************************************************)
FinalInv ==
  /\ window_n \in Nat
  /\ DOMAIN archives \subseteq 1..MaxWindow
  /\ pc # "start" => DOMAIN archives \subseteq 1..window_n
  /\ pc = "train" => window_n > 0 /\ window_n <= MaxWindow /\ window_n \notin DOMAIN archives

LEMMA FinalInit == Init => FinalInv
BY RestartAssumption DEF Init, NoArchives, FinalInv

LEMMA FinalStep ==
  ASSUME "no_listing" \notin Mishaps
  PROVE  FinalInv /\ [Next]_vars => FinalInv'
<1> SUFFICES ASSUME FinalInv, [Next]_vars PROVE FinalInv'
  OBVIOUS
<1> USE RestartAssumption
<1>1. CASE BootstrapWindow
  <2>1. window_n' = IF DOMAIN archives = {} THEN 0 ELSE Max(DOMAIN archives)
    BY <1>1 DEF BootstrapWindow, BootstrapAt, Listings
  <2>2. archives' = archives /\ pc' = "scores"
    BY <1>1 DEF BootstrapWindow, BootstrapAt
  <2>3. CASE DOMAIN archives = {}
    BY <2>1, <2>2, <2>3 DEF FinalInv
  <2>4. CASE DOMAIN archives # {}
    <3>1. /\ Max(DOMAIN archives) \in DOMAIN archives
          /\ \A w \in DOMAIN archives : w <= Max(DOMAIN archives)
      BY <2>4, MaxOfNumbers DEF FinalInv
    <3> QED
      BY <2>1, <2>2, <2>4, <3>1 DEF FinalInv
  <2> QED
    BY <2>3, <2>4
<1>2. CASE BootstrapScores \/ RebuildCooldown
  BY <1>2 DEF BootstrapScores, RebuildCooldown, RebuildWith, FinalInv
<1>3. CASE Crash
  BY <1>3 DEF Crash, FinalInv
<1>4. CASE WindowFails
  BY <1>4 DEF WindowFails, FinalInv
<1>5. ASSUME NEW b \in Batches, SealWindow(b) PROVE FinalInv'
  BY <1>5 DEF SealWindow, SealWith, FinalInv
<1>6. CASE TrainFails \/ ArchiveFails
  BY <1>6 DEF TrainFails, ArchiveFails, FinalInv
<1>7. CASE Archive
  <2>1. DOMAIN archives' = DOMAIN archives \cup {window_n}
    BY <1>7 DEF Archive
  <2> QED
    BY <1>7, <2>1 DEF Archive, FinalInv
<1>8. CASE UNCHANGED vars
  BY <1>8 DEF vars, FinalInv
<1> QED
  BY <1>1, <1>2, <1>3, <1>4, <1>5, <1>6, <1>7, <1>8 DEF Next, Exhausted

\* No window of this process or of a later one overwrites an archive, as long
\* as every start manages to list them.
THEOREM ArchivesStay ==
  ASSUME "no_listing" \notin Mishaps
  PROVE  Spec => ArchivesAreFinal
<1> DEFINE Kept == \A w \in DOMAIN archives : w \in DOMAIN archives' /\ archives'[w] = archives[w]
<1>1. FinalInv /\ [Next]_vars => [Kept]_vars
  <2> SUFFICES ASSUME FinalInv, [Next]_vars PROVE Kept
    OBVIOUS
  <2>1. CASE Archive
    BY <2>1 DEF Archive, FinalInv
  <2>2. CASE archives' = archives
    BY <2>2
  <2> QED
    BY <2>1, <2>2 DEF Next, vars, Exhausted, BootstrapWindow, BootstrapAt, BootstrapScores,
       RebuildCooldown, RebuildWith, Crash, WindowFails, SealWindow, SealWith, TrainFails, ArchiveFails
<1> QED
  BY <1>1, FinalInit, FinalStep, PTL DEF Spec, ArchivesAreFinal

-----------------------------------------------------------------------------
(***************************************************************************)
(* The folds over the archives, of rebuild_from_history ("cooldown") and   *)
(* of replay_ema ("scores").  FoldLeft recurs on sets of indices by their  *)
(* largest one.                                                            *)
(***************************************************************************)
FoldBase(fold) == IF fold = "cooldown" THEN NoPrompts ELSE NoScores

FoldStep(fold, value, record, h) ==
  IF fold = "cooldown" THEN ReplayArchive(value, record, h) ELSE update_ema(value, record.entries)

\* The body of the recursion, with the function it recurs on as an argument.
Folded(fold, records, h, f, T) ==
  IF T = {} THEN FoldBase(fold) ELSE FoldStep(fold, f[T \ {Max(T)}], records[Max(T)], h)

FoldsTo(f, fold, records, h, n) ==
  f = [T \in SUBSET (1..n) |-> Folded(fold, records, h, f, T)]

\* There is a function that satisfies the equation.
LEMMA FoldExists ==
  ASSUME NEW fold, NEW records, NEW h, NEW n \in Nat
  PROVE  \E f : FoldsTo(f, fold, records, h, n)
<1> DEFINE Upto(m) == \E f : f = [T \in SUBSET (1..m) |-> Folded(fold, records, h, f, T)]
           I == {m \in Nat : Upto(m)}
<1>1. 0 \in I
  <2> DEFINE f == [T \in SUBSET (1..0) |-> FoldBase(fold)]
  <2>1. \A T \in SUBSET (1..0) : T = {}
    OBVIOUS
  <2>2. f = [T \in SUBSET (1..0) |-> Folded(fold, records, h, f, T)]
    BY <2>1 DEF Folded
  <2> QED
    BY <2>2
<1>2. ASSUME NEW m \in Nat, m \in I PROVE m + 1 \in I
  <2>1. PICK f : f = [T \in SUBSET (1..m) |-> Folded(fold, records, h, f, T)]
    BY <1>2
  <2> DEFINE last(T) == FoldStep(fold, f[T \ {m + 1}], records[m + 1], h)
             g == [T \in SUBSET (1..(m + 1)) |-> IF m + 1 \in T THEN last(T) ELSE f[T]]
  <2>2. ASSUME NEW T \in SUBSET (1..(m + 1)) PROVE g[T] = Folded(fold, records, h, g, T)
    <3>1. CASE m + 1 \in T
      <4>1. Max(T) = m + 1
        <5>1. T # {} /\ m + 1 \in Nat
          BY <3>1
        <5>2. Max(T) \in T /\ \A i \in T : i <= Max(T)
          BY <5>1, MaxOfNumbers
        <5>3. Max(T) \in 1..(m + 1) /\ m + 1 <= Max(T)
          BY <3>1, <5>2
        <5> QED
          BY <5>3
      <4>2. T \ {m + 1} \in SUBSET (1..(m + 1)) /\ m + 1 \notin T \ {m + 1}
        OBVIOUS
      <4>3. g[T \ {m + 1}] = f[T \ {m + 1}]
        BY <4>2
      <4>4. g[T] = last(T)
        BY <3>1
      <4> QED
        BY <3>1, <4>1, <4>3, <4>4 DEF Folded
    <3>2. CASE m + 1 \notin T
      <4>1. T \in SUBSET (1..m)
        BY <3>2
      <4>2. f[T] = Folded(fold, records, h, f, T)
        BY <2>1, <4>1
      <4>3. g[T] = f[T]
        BY <3>2
      <4>4. ASSUME T # {} PROVE g[T \ {Max(T)}] = f[T \ {Max(T)}]
        <5>1. \A x : T \ {x} \in SUBSET (1..(m + 1)) /\ m + 1 \notin T \ {x}
          BY <3>2
        <5> QED
          BY <5>1
      <4> QED
        BY <4>2, <4>3, <4>4 DEF Folded
    <3> QED
      BY <3>1, <3>2
  <2>3. g = [T \in SUBSET (1..(m + 1)) |-> Folded(fold, records, h, g, T)]
    <3>1. g = [T \in SUBSET (1..(m + 1)) |-> g[T]]
      OBVIOUS
    <3> HIDE DEF g
    <3> QED
      BY <2>2, <3>1
  <2> HIDE DEF g
  <2> QED
    BY <2>3
<1>3. Nat \subseteq I
  <2> HIDE DEF I
  <2> QED
    BY <1>1, <1>2, NatSetInduction
<1>4. Upto(n)
  BY <1>3
<1> QED
  BY <1>4 DEF FoldsTo

\* g has the fold of each prefix of the records.
FoldsPrefixes(g, fold, records, h, n) ==
  /\ g[1..0] = FoldBase(fold)
  /\ \A i \in 1..n : g[1..i] = FoldStep(fold, g[1..(i - 1)], records[i], h)

\* So has the function that satisfies the equation.
LEMMA FoldPrefixes ==
  ASSUME NEW fold, NEW records, NEW h, NEW n \in Nat,
         NEW g, FoldsTo(g, fold, records, h, n)
  PROVE  FoldsPrefixes(g, fold, records, h, n)
<1>0. g = [T \in SUBSET (1..n) |-> Folded(fold, records, h, g, T)]
  BY DEF FoldsTo
<1>1. g[1..0] = FoldBase(fold)
  <2>1. 1..0 = {} /\ 1..0 \in SUBSET (1..n)
    OBVIOUS
  <2> QED
    BY <1>0, <2>1 DEF Folded
<1>2. ASSUME NEW i \in 1..n PROVE g[1..i] = FoldStep(fold, g[1..(i - 1)], records[i], h)
  <2>1. Max(1..i) = i
    <3>1. i \in Nat /\ i \in 1..i
      OBVIOUS
    <3>2. Max(1..i) \in 1..i /\ \A j \in 1..i : j <= Max(1..i)
      BY <3>1, MaxOfNumbers
    <3> QED
      BY <3>1, <3>2
  <2>2. (1..i) \ {i} = 1..(i - 1) /\ 1..i # {} /\ 1..i \in SUBSET (1..n)
    <3>1. i \in Nat /\ i \in 1..i /\ i <= n
      OBVIOUS
    <3>2. (1..i) \ {i} = 1..(i - 1)
      BY <3>1
    <3>3. \A j \in 1..i : j \in 1..n
      BY <3>1
    <3> QED
      BY <3>1, <3>2, <3>3
  <2>3. g[1..i] = Folded(fold, records, h, g, 1..i)
    BY <1>0, <2>2
  <2> QED
    BY <2>1, <2>2, <2>3 DEF Folded
<1> QED
  BY <1>1, <1>2 DEF FoldsPrefixes

\* f has the replay of each prefix of the records, the last of them what
\* rebuild_from_history returns.
ReplaysPrefixes(f, records, n, current_window) ==
  /\ f[0] = NoPrompts
  /\ \A i \in 1..n :
       f[i] = ReplayArchive(f[i - 1], records[i], current_window - COOLDOWN_WINDOWS)
  /\ rebuild_from_history(records, current_window) = f[n]

\* rebuild_from_history replays one prefix after the other.
LEMMA RebuildDef ==
  ASSUME NEW records, NEW n \in Nat, DOMAIN records = 1..n, NEW current_window
  PROVE  \E f : ReplaysPrefixes(f, records, n, current_window)
<1> DEFINE h == current_window - COOLDOWN_WINDOWS
           Body(f, T) == IF T = {} THEN NoPrompts
                         ELSE ReplayArchive(f[T \ {Max(T)}], records[Max(T)], h)
           g == CHOOSE f : f = [T \in SUBSET (1..n) |-> Body(f, T)]
<1>1. \A k, T : Folded("cooldown", records, h, k, T) = Body(k, T)
  BY DEF Folded, FoldBase, FoldStep
<1>2. rebuild_from_history(records, current_window) = g[1..n]
  BY DEF rebuild_from_history, FoldLeft, MapThenFoldSet
<1>3. FoldsTo(g, "cooldown", records, h, n)
  <2> HIDE DEF Body
  <2>1. \E k : k = [T \in SUBSET (1..n) |-> Body(k, T)]
    <3>1. PICK k : FoldsTo(k, "cooldown", records, h, n)
      <4> HIDE DEF h, g
      <4> QED
        BY FoldExists
    <3>2. k = [T \in SUBSET (1..n) |-> Body(k, T)]
      BY <1>1, <3>1 DEF FoldsTo
    <3> QED
      BY <3>2
  <2>2. g = [T \in SUBSET (1..n) |-> Body(g, T)]
    BY <2>1
  <2> QED
    BY <1>1, <2>2 DEF FoldsTo
<1> HIDE DEF g, h, Body
<1>4. /\ g[1..0] = NoPrompts
      /\ \A i \in 1..n : g[1..i] = ReplayArchive(g[1..(i - 1)], records[i], h)
  <2>1. FoldsPrefixes(g, "cooldown", records, h, n)
    BY <1>3, FoldPrefixes
  <2> QED
    BY <2>1 DEF FoldsPrefixes, FoldBase, FoldStep
<1> DEFINE f == [i \in 0..n |-> g[1..i]]
<1>5. f[0] = NoPrompts /\ f[n] = g[1..n]
  BY <1>4
<1>6. ASSUME NEW i \in 1..n PROVE f[i] = ReplayArchive(f[i - 1], records[i], h)
  <2>1. i - 1 \in 0..n /\ i \in 0..n
    OBVIOUS
  <2> QED
    BY <1>4, <2>1
<1> HIDE DEF f
<1>7. ReplaysPrefixes(f, records, n, current_window)
  BY <1>2, <1>5, <1>6 DEF ReplaysPrefixes, h
<1> QED
  BY <1>7

\* Record i of the list is within the horizon and has the prompt.
Counts(records, h, i, p) == records[i].window_start > h /\ p \in records[i].batch

\* A map has the prompts of the first k records that count, each with the last
\* of their windows.
Summarises(last, records, h, k) ==
  /\ DOMAIN last = {p \in UNION {records[i].batch : i \in 1..k} :
                      \E i \in 1..k : Counts(records, h, i, p)}
  /\ \A p \in DOMAIN last : \E i \in 1..k :
       Counts(records, h, i, p) /\ last[p] = records[i].window_start
  /\ \A p \in DOMAIN last : \A i \in 1..k :
       Counts(records, h, i, p) => last[p] >= records[i].window_start

\* One more archive, whichever its place in the order of the windows.
LEMMA ReplayStep ==
  ASSUME NEW records, NEW h \in Int, NEW k \in Nat,
         \A i \in 1..(k + 1) : records[i].window_start \in Nat,
         NEW last, Summarises(last, records, h, k)
  PROVE  Summarises(ReplayArchive(last, records[k + 1], h), records, h, k + 1)
<1> DEFINE rec == records[k + 1]
           next == ReplayArchive(last, rec, h)
           newer == {p \in rec.batch : p \in DOMAIN last => last[p] < rec.window_start}
<1>0. \A i \in 1..(k + 1) : i = k + 1 \/ i \in 1..k
  OBVIOUS
<1>1. \A p : (\E i \in 1..(k + 1) : Counts(records, h, i, p))
             <=> Counts(records, h, k + 1, p) \/ \E i \in 1..k : Counts(records, h, i, p)
  BY <1>0
<1>2. \A p : p \in DOMAIN last <=> \E i \in 1..k : Counts(records, h, i, p)
  BY DEF Summarises, Counts
<1>3. \A p \in DOMAIN last : last[p] \in Nat
  BY DEF Summarises
<1>4. CASE rec.window_start <= h
  <2>1. next = last
    BY <1>4 DEF ReplayArchive
  <2>2. \A p : ~ Counts(records, h, k + 1, p)
    BY <1>4 DEF Counts
  <2>3. \A p : p \in DOMAIN next <=> \E i \in 1..(k + 1) : Counts(records, h, i, p)
    BY <1>1, <1>2, <2>1, <2>2
  <2>4. DOMAIN next = {p \in UNION {records[i].batch : i \in 1..(k + 1)} :
                         \E i \in 1..(k + 1) : Counts(records, h, i, p)}
    <3> HIDE DEF next
    <3> QED
      BY <2>3 DEF Counts
  <2> QED
    BY <1>0, <2>1, <2>2, <2>4 DEF Summarises
<1>5. CASE ~ (rec.window_start <= h)
  <2>1. /\ DOMAIN next = DOMAIN last \cup newer
        /\ \A p \in DOMAIN next : next[p] = IF p \in newer THEN rec.window_start ELSE last[p]
    BY <1>5 DEF ReplayArchive, record_batched
  <2>2. rec.window_start > h /\ rec.window_start \in Nat
    BY <1>5
  <2>3. \A p : Counts(records, h, k + 1, p) <=> p \in rec.batch
    BY <2>2 DEF Counts
  <2>4. \A p : p \in DOMAIN next <=> \E i \in 1..(k + 1) : Counts(records, h, i, p)
    BY <1>1, <1>2, <2>1, <2>3
  <2>5. DOMAIN next = {p \in UNION {records[i].batch : i \in 1..(k + 1)} :
                         \E i \in 1..(k + 1) : Counts(records, h, i, p)}
    <3> HIDE DEF next
    <3> QED
      BY <2>4 DEF Counts
  <2>6. ASSUME NEW p \in DOMAIN next
        PROVE  \E i \in 1..(k + 1) : Counts(records, h, i, p) /\ next[p] = records[i].window_start
    <3>1. CASE p \in newer
      BY <2>1, <2>3, <3>1
    <3>2. CASE p \notin newer
      <4>1. p \in DOMAIN last /\ next[p] = last[p]
        BY <2>1, <3>2
      <4>2. PICK i \in 1..k : Counts(records, h, i, p) /\ last[p] = records[i].window_start
        BY <4>1 DEF Summarises
      <4> QED
        BY <4>1, <4>2
    <3> QED
      BY <3>1, <3>2
  <2>7. ASSUME NEW p \in DOMAIN next, NEW i \in 1..(k + 1), Counts(records, h, i, p)
        PROVE  next[p] >= records[i].window_start
    <3>1. CASE p \in newer
      <4>1. next[p] = rec.window_start
        BY <2>1, <3>1
      <4>2. CASE i = k + 1
        BY <2>2, <4>1, <4>2
      <4>3. CASE i \in 1..k
        <5>1. p \in DOMAIN last
          BY <1>2, <2>7, <4>3
        <5>2. last[p] >= records[i].window_start /\ last[p] < rec.window_start
          BY <2>7, <3>1, <4>3, <5>1 DEF Summarises
        <5> QED
          BY <1>3, <2>2, <4>1, <5>1, <5>2
      <4> QED
        BY <1>0, <4>2, <4>3
    <3>2. CASE p \notin newer
      <4>1. p \in DOMAIN last /\ next[p] = last[p]
        BY <2>1, <3>2
      <4>2. CASE i = k + 1
        <5>1. ~ (last[p] < rec.window_start)
          BY <2>3, <2>7, <3>2, <4>1, <4>2
        <5> QED
          BY <1>3, <2>2, <4>1, <4>2, <5>1
      <4>3. CASE i \in 1..k
        BY <2>7, <4>1, <4>3 DEF Summarises
      <4> QED
        BY <1>0, <4>2, <4>3
    <3> QED
      BY <3>1, <3>2
  <2> HIDE DEF next
  <2>8. Summarises(next, records, h, k + 1)
    BY <2>5, <2>6, <2>7 DEF Summarises
  <2> QED
    BY <2>8 DEF next
<1> QED
  BY <1>4, <1>5

\* The map that is rebuilt summarises all the archives.
LEMMA RebuildSummarises ==
  ASSUME NEW records, NEW n \in Nat, DOMAIN records = 1..n, NEW current_window \in Int,
         \A i \in 1..n : records[i].window_start \in Nat
  PROVE  Summarises(rebuild_from_history(records, current_window), records,
                    current_window - COOLDOWN_WINDOWS, n)
<1> DEFINE h == current_window - COOLDOWN_WINDOWS
<1>0. PICK f : ReplaysPrefixes(f, records, n, current_window)
  BY RebuildDef
<1>1. /\ f[0] = NoPrompts
      /\ \A i \in 1..n : f[i] = ReplayArchive(f[i - 1], records[i], h)
      /\ rebuild_from_history(records, current_window) = f[n]
  BY <1>0 DEF ReplaysPrefixes
<1>2. h \in Int
  BY CooldownAssumption
<1> HIDE DEF h
<1> DEFINE I == {k \in Nat : k <= n => Summarises(f[k], records, h, k)}
<1>3. 0 \in I
  <2>1. DOMAIN f[0] = {} /\ 1..0 = {}
    BY <1>1 DEF NoPrompts
  <2>2. Summarises(f[0], records, h, 0)
    BY <2>1 DEF Summarises
  <2> QED
    BY <2>2
<1>4. ASSUME NEW k \in Nat, k \in I PROVE k + 1 \in I
  <2> SUFFICES ASSUME k + 1 <= n PROVE Summarises(f[k + 1], records, h, k + 1)
    OBVIOUS
  <2>1. Summarises(f[k], records, h, k)
    BY <1>4
  <2>2. k + 1 \in 1..n /\ (k + 1) - 1 = k
    OBVIOUS
  <2>3. f[k + 1] = ReplayArchive(f[k], records[k + 1], h)
    BY <1>1, <2>2
  <2>4. \A i \in 1..(k + 1) : records[i].window_start \in Nat
    BY <2>2
  <2> QED
    BY <1>2, <2>1, <2>3, <2>4, ReplayStep
<1>5. Nat \subseteq I
  <2> HIDE DEF I
  <2> QED
    BY <1>3, <1>4, NatSetInduction
<1> QED
  BY <1>1, <1>5 DEF h

-----------------------------------------------------------------------------
(***************************************************************************)
(* The archives that are listed, and the map that is rebuilt from them.    *)
(***************************************************************************)

\* The list has a record of each archive of the interval, and no other.
LEMMA ListedArchives ==
  ASSUME NEW stored \in SUBSET Nat, NEW current_window \in Nat, NEW n \in Nat
  PROVE  LET list == list_recent_datasets(stored, current_window, n)
             asked == {w \in stored : w >= current_window - n /\ w < current_window}
         IN  \E m \in Nat :
               /\ DOMAIN list = 1..m
               /\ \A i \in 1..m : \E w \in asked : list[i] = Record(w)
               /\ \A w \in asked : \E i \in 1..m : list[i] = Record(w)
<1> DEFINE start == Max({0, current_window - n})
           tried == [i \in 1..(current_window - start) |-> start + i - 1]
           present == Filtered(tried, stored)
           asked == {w \in stored : w >= current_window - n /\ w < current_window}
<1>1. /\ start \in Nat /\ start >= current_window - n
      /\ start = 0 \/ start = current_window - n
      /\ current_window - start \in Nat
  <2>1. \E x \in {0, current_window - n} : \A y \in {0, current_window - n} : x >= y
    OBVIOUS
  <2>2. start \in {0, current_window - n} /\ \A y \in {0, current_window - n} : start >= y
    BY <2>1 DEF Max
  <2> HIDE DEF start
  <2> QED
    BY <2>2
<1> HIDE DEF start
<1>2. tried \in Seq(Nat) /\ Len(tried) = current_window - start
  <2>1. tried \in [1..(current_window - start) -> Nat]
    BY <1>1
  <2> QED
    BY <1>1, <2>1, FunctionIsSeq
<1>3. \A w \in Nat : w \in Range(tried) <=> w >= current_window - n /\ w < current_window
  <2> SUFFICES ASSUME NEW w \in Nat
               PROVE  w \in Range(tried) <=> w >= current_window - n /\ w < current_window
    OBVIOUS
  <2>1. ASSUME w \in Range(tried) PROVE w >= current_window - n /\ w < current_window
    <3>1. PICK i \in 1..(current_window - start) : w = start + i - 1
      BY <2>1 DEF Range
    <3> QED
      BY <1>1, <3>1
  <2>2. ASSUME w >= current_window - n, w < current_window PROVE w \in Range(tried)
    <3>1. w - start + 1 \in 1..(current_window - start) /\ start + (w - start + 1) - 1 = w
      BY <1>1, <2>2
    <3>2. tried[w - start + 1] = w
      BY <3>1
    <3> QED
      BY <3>1, <3>2 DEF Range
  <2> QED
    BY <2>1, <2>2
<1> HIDE DEF tried
<1>4. present \in Seq(Nat) /\ Range(present) = Range(tried) \cap stored
  BY <1>2, FilterProperties
<1>5. Range(present) = asked
  <2>1. Range(tried) \subseteq Nat
    BY <1>2 DEF Range
  <2> QED
    BY <1>3, <1>4, <2>1
<1>6. Len(present) \in Nat /\ DOMAIN present = 1..Len(present)
  BY <1>4, LenProperties
<1>7. list_recent_datasets(stored, current_window, n)
        = [i \in 1..Len(present) |-> Record(present[i])]
  BY DEF list_recent_datasets, start, tried
<1>8. \A i \in 1..Len(present) : present[i] \in asked
  BY <1>5, <1>6 DEF Range
<1>9. \A w \in asked : \E i \in 1..Len(present) : present[i] = w
  BY <1>5, <1>6 DEF Range
<1> HIDE DEF present, asked
<1>10. /\ DOMAIN list_recent_datasets(stored, current_window, n) = 1..Len(present)
       /\ \A i \in 1..Len(present) :
            list_recent_datasets(stored, current_window, n)[i] = Record(present[i])
  BY <1>7
<1> QED
  BY <1>6, <1>8, <1>9, <1>10 DEF asked

\* The map rebuilt when _window_n is n, from all the archives.
Rebuilt(n) ==
  rebuild_from_history(list_recent_datasets(DOMAIN archives, n + 1, COOLDOWN_WINDOWS), n)

\* It knows of every recent archive, and of nothing else.
LEMMA RebuiltMap ==
  ASSUME NEW n \in Nat, DOMAIN archives \subseteq 1..n
  PROVE  /\ \A w \in DOMAIN archives : \A p \in PromptsOf(archives[w]) :
              w > n - COOLDOWN_WINDOWS => p \in DOMAIN Rebuilt(n) /\ Rebuilt(n)[p] >= w
         /\ \A p \in DOMAIN Rebuilt(n) :
              /\ Rebuilt(n)[p] \in DOMAIN archives
              /\ p \in PromptsOf(archives[Rebuilt(n)[p]])
              /\ Rebuilt(n)[p] > n - COOLDOWN_WINDOWS
<1> DEFINE list == list_recent_datasets(DOMAIN archives, n + 1, COOLDOWN_WINDOWS)
           asked == {w \in DOMAIN archives : w >= (n + 1) - COOLDOWN_WINDOWS /\ w < n + 1}
           h == n - COOLDOWN_WINDOWS
<1>1. PICK m \in Nat :
        /\ DOMAIN list = 1..m
        /\ \A i \in 1..m : \E w \in asked : list[i] = Record(w)
        /\ \A w \in asked : \E i \in 1..m : list[i] = Record(w)
  <2>1. DOMAIN archives \in SUBSET Nat /\ n + 1 \in Nat /\ COOLDOWN_WINDOWS \in Nat
    BY CooldownAssumption
  <2> QED
    BY <2>1, ListedArchives
<1> HIDE DEF list
<1>2. \A w \in DOMAIN archives : w \in asked <=> w > h
  BY CooldownAssumption
<1>3. \A w : Record(w).window_start = w /\ Record(w).batch = PromptsOf(archives[w])
  BY DEF Record
<1>4. \A i \in 1..m : list[i].window_start \in Nat
  BY <1>1, <1>3
<1>5. Summarises(Rebuilt(n), list, h, m)
  <2>1. Rebuilt(n) = rebuild_from_history(list, n)
    BY DEF Rebuilt, list
  <2>2. n \in Int /\ DOMAIN list = 1..m
    BY <1>1
  <2>3. Summarises(rebuild_from_history(list, n), list, n - COOLDOWN_WINDOWS, m)
    BY <1>4, <2>2, RebuildSummarises
  <2> QED
    BY <2>1, <2>3
<1>6. ASSUME NEW w \in DOMAIN archives, NEW p \in PromptsOf(archives[w]), w > h
      PROVE  p \in DOMAIN Rebuilt(n) /\ Rebuilt(n)[p] >= w
  <2>1. PICK i \in 1..m : list[i] = Record(w)
    BY <1>1, <1>2, <1>6
  <2>2. Counts(list, h, i, p) /\ list[i].window_start = w
    BY <1>3, <1>6, <2>1 DEF Counts
  <2>3. p \in DOMAIN Rebuilt(n)
    BY <1>5, <2>2 DEF Summarises, Counts
  <2> QED
    BY <1>5, <2>2, <2>3 DEF Summarises
<1>7. ASSUME NEW p \in DOMAIN Rebuilt(n)
      PROVE  /\ Rebuilt(n)[p] \in DOMAIN archives
             /\ p \in PromptsOf(archives[Rebuilt(n)[p]])
             /\ Rebuilt(n)[p] > h
  <2>1. PICK i \in 1..m : Counts(list, h, i, p) /\ Rebuilt(n)[p] = list[i].window_start
    BY <1>5 DEF Summarises
  <2>2. PICK w \in asked : list[i] = Record(w)
    BY <1>1
  <2> QED
    BY <1>3, <2>1, <2>2 DEF Counts
<1> QED
  BY <1>6, <1>7

-----------------------------------------------------------------------------
(***************************************************************************)
(* The cooldown across restarts.  Once rebuilt, the map is never behind    *)
(* the archives within the horizon; and it is ahead of them only if this   *)
(* process lost an archive.                                                *)
(***************************************************************************)

\* The cooldown map has been rebuilt since the start.
Running == pc \in {"ready", "train"}

\* No archive that still matters is missing from the map ...
MapCovers ==
  Running =>
    \A w \in DOMAIN archives : \A p \in PromptsOf(archives[w]) :
      w > window_n - COOLDOWN_WINDOWS => p \in DOMAIN last_batched /\ last_batched[p] >= w

\* ... nor is the batch in hand, whose prompts were out of cooldown.
BatchInHand ==
  pc = "train" =>
    /\ \A p \in PromptsOf(batch) : p \in DOMAIN last_batched /\ last_batched[p] = window_n
    /\ COOLDOWN_WINDOWS # 0 =>
         \A w \in DOMAIN archives :
           PromptsOf(archives[w]) \cap PromptsOf(batch) # {} => window_n - w >= COOLDOWN_WINDOWS

MapIsPast == Running => \A p \in DOMAIN last_batched : last_batched[p] \in Nat

\* If every window was archived, nothing but the archives is in the map.
MapIsArchived ==
  Running /\ ~ lost =>
    \A p \in DOMAIN last_batched :
      \/ last_batched[p] \in DOMAIN archives /\ p \in PromptsOf(archives[last_batched[p]])
      \/ pc = "train" /\ last_batched[p] = window_n /\ p \in PromptsOf(batch)

RestartInv ==
  FinalInv /\ MapCovers /\ BatchInHand /\ MapIsPast /\ MapIsArchived /\ NoRebatchInArchives

LEMMA RestartInit == Init => RestartInv
<1> SUFFICES ASSUME Init PROVE RestartInv
  OBVIOUS
<1>1. FinalInv
  BY FinalInit
<1>2. ~ Running /\ DOMAIN archives = {} /\ pc = "start"
  BY DEF Init, Running, NoArchives
<1> QED
  BY <1>1, <1>2
     DEF RestartInv, MapCovers, BatchInHand, MapIsPast, MapIsArchived, NoRebatchInArchives

LEMMA RestartStep ==
  ASSUME Mishaps = {}
  PROVE  RestartInv /\ [Next]_vars => RestartInv'
<1> SUFFICES ASSUME RestartInv, [Next]_vars PROVE RestartInv'
  OBVIOUS
<1>0. FinalInv /\ FinalInv' /\ window_n \in Nat /\ COOLDOWN_WINDOWS \in Nat /\ MaxWindow \in Nat
  BY FinalStep, CooldownAssumption, RestartAssumption DEF RestartInv, FinalInv
<1>1. CASE BootstrapWindow \/ BootstrapScores \/ Crash
  <2>1. archives' = archives /\ pc' \in {"scores", "cooldown", "start"}
    BY <1>1 DEF BootstrapWindow, BootstrapAt, BootstrapScores, Crash
  <2> QED
    BY <1>0, <2>1
       DEF RestartInv, MapCovers, BatchInHand, MapIsPast, MapIsArchived, NoRebatchInArchives, Running
<1>2. CASE RebuildCooldown
  <2>1. /\ last_batched' = Rebuilt(window_n)
        /\ pc = "cooldown" /\ pc' = "ready"
        /\ UNCHANGED <<archives, window_n, batch, lost>>
    BY <1>2 DEF RebuildCooldown, RebuildWith, Downloads, Rebuilt
  <2>2. DOMAIN archives \subseteq 1..window_n
    BY <1>0, <2>1 DEF FinalInv
  <2>3. /\ \A w \in DOMAIN archives : \A p \in PromptsOf(archives[w]) :
             w > window_n - COOLDOWN_WINDOWS =>
               p \in DOMAIN last_batched' /\ last_batched'[p] >= w
        /\ \A p \in DOMAIN last_batched' :
             /\ last_batched'[p] \in DOMAIN archives
             /\ p \in PromptsOf(archives[last_batched'[p]])
    BY <1>0, <2>1, <2>2, RebuiltMap
  <2>4. \A p \in DOMAIN last_batched' : last_batched'[p] \in Nat
    BY <2>2, <2>3
  <2> QED
    BY <1>0, <2>1, <2>3, <2>4
       DEF RestartInv, MapCovers, BatchInHand, MapIsPast, MapIsArchived, NoRebatchInArchives
<1>3. CASE WindowFails
  <2>1. /\ UNCHANGED <<archives, pc, last_batched, lost>>
        /\ pc = "ready" /\ window_n' = window_n + 1
    BY <1>3 DEF WindowFails
  <2>2. MapCovers'
    <3>1. \A w \in DOMAIN archives :
            w > (window_n + 1) - COOLDOWN_WINDOWS => w > window_n - COOLDOWN_WINDOWS
      BY <1>0 DEF FinalInv
    <3> QED
      BY <2>1, <3>1 DEF RestartInv, MapCovers, Running
  <2> QED
    BY <1>0, <2>1, <2>2
       DEF RestartInv, BatchInHand, MapIsPast, MapIsArchived, NoRebatchInArchives, Running
<1>4. ASSUME NEW b \in Batches, SealWindow(b) PROVE RestartInv'
  <2>1. /\ pc = "ready" /\ pc' = "train"
        /\ window_n' = window_n + 1 /\ batch' = b
        /\ PromptsOf(b) \cap current_cooldown_set(last_batched, window_n + 1) = {}
        /\ last_batched' = record_batched(last_batched, PromptsOf(b), window_n + 1)
        /\ UNCHANGED <<archives, lost>>
    BY <1>4 DEF SealWindow, SealWith
  <2>2. /\ DOMAIN last_batched' = DOMAIN last_batched \cup PromptsOf(b)
        /\ \A p \in DOMAIN last_batched' :
             last_batched'[p] = IF p \in PromptsOf(b) THEN window_n + 1 ELSE last_batched[p]
    BY <2>1 DEF record_batched
  <2>3. DOMAIN archives \subseteq 1..window_n
    BY <1>0, <2>1 DEF FinalInv
  <2>4. MapCovers'
    <3> SUFFICES ASSUME NEW w \in DOMAIN archives, NEW p \in PromptsOf(archives[w]),
                        w > (window_n + 1) - COOLDOWN_WINDOWS
                 PROVE  p \in DOMAIN last_batched' /\ last_batched'[p] >= w
      BY <2>1 DEF MapCovers, PromptsOf
    <3>1. p \in DOMAIN last_batched /\ last_batched[p] >= w
      BY <1>0, <2>1, <2>3 DEF RestartInv, MapCovers, Running
    <3>2. window_n + 1 >= w
      BY <1>0, <2>3
    <3> QED
      BY <2>2, <3>1, <3>2
  <2>5. BatchInHand'
    <3>1. \A p \in PromptsOf(b) : p \in DOMAIN last_batched' /\ last_batched'[p] = window_n + 1
      BY <2>2
    <3>2. ASSUME COOLDOWN_WINDOWS # 0, NEW w \in DOMAIN archives,
                 NEW p \in PromptsOf(archives[w]), p \in PromptsOf(b)
          PROVE  (window_n + 1) - w >= COOLDOWN_WINDOWS
      <4>1. CASE w > window_n - COOLDOWN_WINDOWS
        <5>1. p \in DOMAIN last_batched /\ last_batched[p] >= w /\ last_batched[p] \in Nat
          BY <2>1, <4>1 DEF RestartInv, MapCovers, MapIsPast, Running
        <5>2. ~ ((window_n + 1) - last_batched[p] < COOLDOWN_WINDOWS)
          BY <2>1, <3>2, <5>1 DEF current_cooldown_set, is_in_cooldown
        <5>3. w \in Nat
          BY <2>3
        <5> QED
          BY <1>0, <5>1, <5>2, <5>3
      <4>2. CASE ~ (w > window_n - COOLDOWN_WINDOWS)
        <5>1. w \in Nat
          BY <2>3
        <5> QED
          BY <1>0, <4>2, <5>1
      <4> QED
        BY <4>1, <4>2
    <3> QED
      BY <2>1, <3>1, <3>2 DEF BatchInHand, PromptsOf
  <2>6. MapIsPast'
    BY <1>0, <2>1, <2>2 DEF RestartInv, MapIsPast, Running
  <2>7. MapIsArchived'
    <3> SUFFICES ASSUME ~ lost, NEW p \in DOMAIN last_batched'
                 PROVE  \/ /\ last_batched'[p] \in DOMAIN archives
                           /\ p \in PromptsOf(archives[last_batched'[p]])
                        \/ last_batched'[p] = window_n + 1 /\ p \in PromptsOf(b)
      BY <2>1 DEF MapIsArchived, PromptsOf
    <3>1. CASE p \in PromptsOf(b)
      BY <2>2, <3>1
    <3>2. CASE p \notin PromptsOf(b)
      BY <2>1, <2>2, <3>2 DEF RestartInv, MapIsArchived, Running
    <3> QED
      BY <3>1, <3>2
  <2> QED
    BY <1>0, <2>1, <2>4, <2>5, <2>6, <2>7 DEF RestartInv, NoRebatchInArchives
<1>5. CASE TrainFails \/ ArchiveFails
  <2>1. /\ UNCHANGED <<archives, window_n, last_batched>>
        /\ pc = "train" /\ pc' = "ready" /\ lost' = TRUE
    BY <1>5 DEF TrainFails, ArchiveFails
  <2> QED
    BY <1>0, <2>1
       DEF RestartInv, MapCovers, BatchInHand, MapIsPast, MapIsArchived, NoRebatchInArchives, Running
<1>6. CASE Archive
  <2>1. /\ UNCHANGED <<window_n, last_batched, lost>>
        /\ pc = "train" /\ pc' = "ready"
        /\ DOMAIN archives' = DOMAIN archives \cup {window_n}
        /\ \A w \in DOMAIN archives' : archives'[w] = IF w = window_n THEN batch ELSE archives[w]
    BY <1>6 DEF Archive
  <2>2. DOMAIN archives \subseteq 1..window_n /\ window_n \notin DOMAIN archives
    BY <1>0, <2>1 DEF FinalInv
  <2>3. /\ archives'[window_n] = batch
        /\ \A w \in DOMAIN archives : archives'[w] = archives[w]
    BY <2>1, <2>2
  <2>4. MapCovers'
    BY <1>0, <2>1, <2>3 DEF RestartInv, MapCovers, BatchInHand, Running
  <2>5. MapIsArchived'
    BY <2>1, <2>3 DEF RestartInv, MapIsArchived, Running
  <2>6. NoRebatchInArchives'
    <3> SUFFICES ASSUME COOLDOWN_WINDOWS # 0,
                        NEW v \in DOMAIN archives', NEW w \in DOMAIN archives', v < w,
                        PromptsOf(archives'[v]) \cap PromptsOf(archives'[w]) # {}
                 PROVE  w - v >= COOLDOWN_WINDOWS
      BY DEF NoRebatchInArchives, PromptsOf
    <3>1. v \in DOMAIN archives
      BY <1>0, <2>1, <2>2
    <3>2. CASE w = window_n
      <4>1. archives'[v] = archives[v] /\ archives'[w] = batch
        BY <2>3, <3>1, <3>2
      <4> QED
        BY <2>1, <3>1, <3>2, <4>1 DEF RestartInv, BatchInHand
    <3>3. CASE w # window_n
      <4>1. w \in DOMAIN archives
        BY <2>1, <3>3
      <4>2. archives'[v] = archives[v] /\ archives'[w] = archives[w]
        BY <2>3, <3>1, <4>1
      <4> QED
        BY <3>1, <4>1, <4>2 DEF RestartInv, NoRebatchInArchives
    <3> QED
      BY <3>2, <3>3
  <2> QED
    BY <1>0, <2>1, <2>4, <2>5, <2>6 DEF RestartInv, BatchInHand, MapIsPast, Running
<1>7. CASE UNCHANGED vars
  BY <1>0, <1>7
     DEF vars, RestartInv, MapCovers, BatchInHand, MapIsPast, MapIsArchived, NoRebatchInArchives, Running,
         PromptsOf
<1> QED
  BY <1>1, <1>2, <1>3, <1>4, <1>5, <1>6, <1>7 DEF Next, Exhausted

\* No prompt is archived twice within a cooldown, however often the validator
\* restarts and whatever uploads fail, if what is on R2 can be read at each start.
THEOREM CooldownSurvives ==
  ASSUME Mishaps = {}
  PROVE  Spec => []NoRebatchInArchives
<1>1. RestartInv => NoRebatchInArchives
  BY DEF RestartInv
<1> QED
  BY <1>1, RestartInit, RestartStep, PTL DEF Spec

\* A validator that lost no archive refuses what one that starts now would.
THEOREM CooldownIsRebuilt ==
  ASSUME Mishaps = {}
  PROVE  Spec => []CooldownIsDurable
<1>1. RestartInv => CooldownIsDurable
  <2> SUFFICES ASSUME RestartInv, pc = "ready", ~ lost
               PROVE  current_cooldown_set(Rebuilt(window_n), window_n + 1)
                        = current_cooldown_set(last_batched, window_n + 1)
    BY DEF CooldownIsDurable, Rebuilt
  <2>1. /\ window_n \in Nat /\ COOLDOWN_WINDOWS \in Nat
        /\ DOMAIN archives \subseteq 1..window_n
    BY CooldownAssumption DEF RestartInv, FinalInv
  <2>2. \A w \in DOMAIN archives : \A p \in PromptsOf(archives[w]) :
          w > window_n - COOLDOWN_WINDOWS =>
            /\ p \in DOMAIN last_batched /\ last_batched[p] >= w
            /\ p \in DOMAIN Rebuilt(window_n) /\ Rebuilt(window_n)[p] >= w
    BY <2>1, RebuiltMap DEF RestartInv, MapCovers, Running
  <2>3. \A p \in DOMAIN Rebuilt(window_n) :
          /\ Rebuilt(window_n)[p] \in DOMAIN archives
          /\ p \in PromptsOf(archives[Rebuilt(window_n)[p]])
          /\ Rebuilt(window_n)[p] > window_n - COOLDOWN_WINDOWS
    BY <2>1, RebuiltMap
  <2>4. \A p \in DOMAIN last_batched :
          last_batched[p] \in DOMAIN archives /\ p \in PromptsOf(archives[last_batched[p]])
    BY DEF RestartInv, MapIsArchived, Running
  <2>5. ASSUME NEW p, is_in_cooldown(Rebuilt(window_n), p, window_n + 1)
        PROVE  is_in_cooldown(last_batched, p, window_n + 1)
    <3>1. /\ COOLDOWN_WINDOWS # 0 /\ p \in DOMAIN Rebuilt(window_n)
          /\ (window_n + 1) - Rebuilt(window_n)[p] < COOLDOWN_WINDOWS
      BY <2>5 DEF is_in_cooldown
    <3>2. p \in DOMAIN last_batched /\ last_batched[p] >= Rebuilt(window_n)[p]
      BY <2>2, <2>3, <3>1
    <3>3. Rebuilt(window_n)[p] \in Nat /\ last_batched[p] \in Nat
      BY <2>1, <2>3, <2>4, <3>1, <3>2
    <3> QED
      BY <2>1, <3>1, <3>2, <3>3 DEF is_in_cooldown
  <2>6. ASSUME NEW p, is_in_cooldown(last_batched, p, window_n + 1)
        PROVE  is_in_cooldown(Rebuilt(window_n), p, window_n + 1)
    <3>1. /\ COOLDOWN_WINDOWS # 0 /\ p \in DOMAIN last_batched
          /\ (window_n + 1) - last_batched[p] < COOLDOWN_WINDOWS
      BY <2>6 DEF is_in_cooldown
    <3>2. /\ last_batched[p] \in DOMAIN archives /\ p \in PromptsOf(archives[last_batched[p]])
          /\ last_batched[p] \in Nat
      BY <2>1, <2>4, <3>1
    <3>3. last_batched[p] > window_n - COOLDOWN_WINDOWS
      BY <2>1, <3>1, <3>2
    <3>4. p \in DOMAIN Rebuilt(window_n) /\ Rebuilt(window_n)[p] >= last_batched[p]
      BY <2>2, <3>2, <3>3
    <3>5. Rebuilt(window_n)[p] \in Nat
      BY <2>1, <2>3, <3>4
    <3> QED
      BY <2>1, <3>1, <3>2, <3>4, <3>5 DEF is_in_cooldown
  <2>7. \A last, p : is_in_cooldown(last, p, window_n + 1) => p \in DOMAIN last
    BY DEF is_in_cooldown
  <2> QED
    BY <2>5, <2>6, <2>7 DEF current_cooldown_set
<1> QED
  BY <1>1, RestartInit, RestartStep, PTL DEF Spec
-----------------------------------------------------------------------------
(***************************************************************************)
(* Totals of the scores.                                                   *)
(***************************************************************************)
\* A bound of each score is a bound of their totals.
LEMMA TotalBound ==
  ASSUME NEW r \in [Hotkeys -> Nat], NEW s \in [Hotkeys -> Nat], NEW o \in [Hotkeys -> Nat],
         NEW d \in Nat, NEW a \in Nat, NEW c \in Nat,
         \A h \in Hotkeys : d * r[h] <= a * s[h] + c * o[h]
  PROVE  /\ Total(r) \in Nat /\ Total(s) \in Nat /\ Total(o) \in Nat
         /\ d * Total(r) <= a * Total(s) + c * Total(o)
<1>1. IsFiniteSet(Hotkeys)
  BY RestartAssumption
<1>2. AtMost(d, r, a, s, c, o, Hotkeys)
  BY DEF AtMost
<1>3. SumsAtMost(d, r, a, s, c, o, Hotkeys)
  BY <1>1, <1>2, SumBound
<1>4. Total(r) \in Nat /\ Total(s) \in Nat /\ Total(o) \in Nat
  BY <1>1, SumIsNat DEF Total
<1> QED
  BY <1>3, <1>4 DEF Total, SumsAtMost

\* Each entry of a batch is credited to one miner.
LEMMA CreditsBound ==
  ASSUME NEW b, IsFiniteSet(b)
  PROVE  /\ [h \in Hotkeys |-> Credits(b, h)] \in [Hotkeys -> Nat]
         /\ Total([h \in Hotkeys |-> Credits(b, h)]) \in Nat
         /\ Total([h \in Hotkeys |-> Credits(b, h)]) <= Cardinality(b)
<1> DEFINE credits == [h \in Hotkeys |-> Credits(b, h)]
           Of(T) == {e \in b : e.hotkey \in T}
<1>1. \A T : IsFiniteSet(Of(T)) /\ Cardinality(Of(T)) \in Nat /\ Cardinality(Of(T)) <= Cardinality(b)
  <2> SUFFICES ASSUME NEW T
               PROVE  /\ IsFiniteSet(Of(T)) /\ Cardinality(Of(T)) \in Nat
                      /\ Cardinality(Of(T)) <= Cardinality(b)
    OBVIOUS
  <2>1. Of(T) \in SUBSET b
    OBVIOUS
  <2> HIDE DEF Of
  <2> QED
    BY <2>1, FS_Subset, FS_CardinalityType
<1>2. \A h : Credits(b, h) = Cardinality(Of({h}))
  <2> SUFFICES ASSUME NEW h PROVE Credits(b, h) = Cardinality(Of({h}))
    OBVIOUS
  <2>1. {e \in b : e.hotkey = h} = Of({h})
    OBVIOUS
  <2> QED
    BY <2>1 DEF Credits
<1>3. \A h : Credits(b, h) \in Nat
  BY <1>1, <1>2
<1>4. PICK f : SumsUp(f, credits, Hotkeys) /\ Total(credits) = f[Hotkeys]
  BY RestartAssumption, SumDef DEF Total
<1> DEFINE I == {T \in SUBSET Hotkeys : f[T] = Cardinality(Of(T))}
<1>5. {} \in I
  <2>1. Of({}) = {}
    OBVIOUS
  <2>2. f[{}] = Cardinality(Of({}))
    BY <1>4, <2>1, FS_EmptySet DEF SumsUp
  <2> QED
    BY <2>2
<1>6. ASSUME NEW T \in SUBSET Hotkeys, T # {}, T \ {AnyOf(T)} \in I PROVE T \in I
  <2> DEFINE h == AnyOf(T)
             U == T \ {h}
  <2>1. h \in T
    BY <1>6 DEF AnyOf
  <2>2. f[T] = Credits(b, h) + f[U]
    BY <1>4, <1>6, <2>1 DEF SumsUp
  <2>3. f[U] = Cardinality(Of(U))
    BY <1>6
  <2>4. Of(T) = Of({h}) \cup Of(U) /\ Of({h}) \cap Of(U) = {}
    BY <2>1
  <2> HIDE DEF h, U, Of
  <2>5. Cardinality(Of(T)) = Cardinality(Of({h})) + Cardinality(Of(U)) - Cardinality({})
    BY <1>1, <2>4, FS_Union
  <2>6. Cardinality(Of(T)) = Cardinality(Of({h})) + Cardinality(Of(U))
    BY <1>1, <2>5, FS_EmptySet
  <2> QED
    BY <1>2, <2>2, <2>3, <2>6
<1>7. Hotkeys \in I
  <2>1. SUBSET Hotkeys \subseteq I
    <3> HIDE DEF I
    <3> QED
      BY <1>5, <1>6, RestartAssumption, SubsetInduction
  <2> QED
    BY <2>1
<1> HIDE DEF Of
<1> QED
  BY <1>1, <1>3, <1>4, <1>7

\* Division rounds down.
LEMMA DivBound ==
  ASSUME NEW x \in Nat, NEW y \in Nat \ {0}
  PROVE  x \div y \in Nat /\ y * (x \div y) <= x
OBVIOUS

\* A common factor of a comparison cancels.
LEMMA DivisorCancels ==
  ASSUME NEW y \in Nat \ {0}, NEW m \in Nat, NEW n \in Nat, y * m <= y * n
  PROVE  m <= n
<1> SUFFICES ASSUME n + 1 <= m PROVE FALSE
  OBVIOUS
<1>1. PICK k \in Nat : m = n + 1 + k
  <2>1. m - (n + 1) \in Nat /\ m = n + 1 + (m - (n + 1))
    OBVIOUS
  <2> QED
    BY <2>1
<1>2. y * m = y * n + y + y * k
  BY <1>1
<1>3. y * k \in Nat /\ y * n \in Nat
  BY <1>1
<1> QED
  BY <1>2, <1>3

-----------------------------------------------------------------------------
(***************************************************************************)
(* The shares.  What a window gives and what it leaves of the old scores   *)
(* is rounded down, so the scores never take more than the whole.          *)
(***************************************************************************)
Shares(scores) == scores \in [Hotkeys -> Nat] /\ Total(scores) \in Nat /\ Total(scores) <= SCALE

\* No miner has a score at first.
LEMMA NoShares == Shares(NoScores)
<1>1. NoScores \in [Hotkeys -> Nat] /\ \A h \in Hotkeys : NoScores[h] = 0
  BY DEF NoScores
<1>2. \A h \in Hotkeys : 1 * NoScores[h] <= 0 * NoScores[h] + 0 * NoScores[h]
  BY <1>1
<1>3. Total(NoScores) \in Nat /\ 1 * Total(NoScores) <= 0 * Total(NoScores) + 0 * Total(NoScores)
  BY <1>1, <1>2, TotalBound
<1> QED
  BY <1>1, <1>3, RestartAssumption DEF Shares

\* A batch is a finite set, for it has an entry per prompt.
LEMMA BatchIsFinite ==
  ASSUME NEW b \in Batches
  PROVE  IsFiniteSet(b) /\ Cardinality(b) \in Nat /\ Cardinality(b) <= B_BATCH
<1> DEFINE prompt == [e \in b |-> e.prompt_idx]
<1>1. prompt \in Injection(b, Prompts)
  <2>1. prompt \in [b -> Prompts]
    BY DEF Batches
  <2>2. \A e, f \in b : prompt[e] = prompt[f] => e = f
    BY DEF Batches
  <2> HIDE DEF prompt
  <2> QED
    BY <2>1, <2>2 DEF Injection, IsInjective
<1>2. IsFiniteSet(b)
  <2> HIDE DEF prompt
  <2> QED
    BY <1>1, RestartAssumption, FS_Injection
<1> QED
  BY <1>2, FS_CardinalityType DEF Batches

\* A window keeps the scores within the whole.
LEMMA UpdateShares ==
  ASSUME NEW scores, Shares(scores), NEW b \in Batches
  PROVE  Shares(update_ema(scores, b))
<1> DEFINE credits == [h \in Hotkeys |-> Credits(b, h)]
           given == [h \in Hotkeys |-> (Credits(b, h) * SCALE) \div B_BATCH]
           blended == [h \in Hotkeys |-> Blend(scores[h], given[h])]
           pruned == Prune(blended)
<1> USE RestartAssumption
<1>0. /\ scores \in [Hotkeys -> Nat] /\ Total(scores) \in Nat /\ Total(scores) <= SCALE
      /\ ALPHA_DEN - ALPHA_NUM \in Nat
  BY DEF Shares
<1>1. update_ema(scores, b) = pruned
  BY DEF update_ema
<1>2. credits \in [Hotkeys -> Nat] /\ Total(credits) \in Nat /\ Total(credits) <= B_BATCH
  <2>1. Total(credits) <= Cardinality(b) /\ credits \in [Hotkeys -> Nat] /\ Total(credits) \in Nat
    BY BatchIsFinite, CreditsBound
  <2> QED
    BY <2>1, BatchIsFinite
<1>3. \A h \in Hotkeys : given[h] \in Nat /\ B_BATCH * given[h] <= SCALE * credits[h]
  <2> SUFFICES ASSUME NEW h \in Hotkeys
               PROVE  given[h] \in Nat /\ B_BATCH * given[h] <= SCALE * credits[h]
    OBVIOUS
  <2>1. credits[h] = Credits(b, h) /\ credits[h] \in Nat
    BY <1>2
  <2> HIDE DEF credits
  <2>2. credits[h] * SCALE \in Nat /\ given[h] = (credits[h] * SCALE) \div B_BATCH
    BY <2>1
  <2>3. credits[h] * SCALE = SCALE * credits[h]
    BY <2>1
  <2> HIDE DEF given
  <2> QED
    BY <2>2, <2>3, DivBound
<1>4. given \in [Hotkeys -> Nat]
  BY <1>3
<1>5. Total(given) \in Nat /\ Total(given) <= SCALE
  <2> HIDE DEF given, credits
  <2>1. \A h \in Hotkeys : B_BATCH * given[h] <= SCALE * credits[h] + 0 * credits[h]
    BY <1>2, <1>3
  <2>2. /\ Total(given) \in Nat
        /\ B_BATCH * Total(given) <= SCALE * Total(credits) + 0 * Total(credits)
    BY <1>2, <1>4, <2>1, TotalBound
  <2>3. SCALE * Total(credits) <= SCALE * B_BATCH
    BY <1>2
  <2>4. B_BATCH * Total(given) <= B_BATCH * SCALE
    BY <1>2, <2>2, <2>3
  <2> QED
    BY <2>2, <2>4, DivisorCancels
<1> HIDE DEF given, credits
<1>6. \A h \in Hotkeys :
        /\ blended[h] \in Nat
        /\ ALPHA_DEN * blended[h] <= ALPHA_NUM * given[h] + (ALPHA_DEN - ALPHA_NUM) * scores[h]
  <2> SUFFICES ASSUME NEW h \in Hotkeys
               PROVE  /\ blended[h] \in Nat
                      /\ ALPHA_DEN * blended[h]
                           <= ALPHA_NUM * given[h] + (ALPHA_DEN - ALPHA_NUM) * scores[h]
    OBVIOUS
  <2> DEFINE sum == ALPHA_NUM * given[h] + (ALPHA_DEN - ALPHA_NUM) * scores[h]
  <2>1. sum \in Nat
    <3>1. given[h] \in Nat /\ scores[h] \in Nat
      BY <1>0, <1>4
    <3> QED
      BY <1>0, <3>1
  <2>2. blended[h] = sum \div ALPHA_DEN
    BY DEF Blend
  <2> HIDE DEF sum, blended
  <2>3. ALPHA_DEN \in Nat \ {0}
    OBVIOUS
  <2>4. sum \div ALPHA_DEN \in Nat /\ ALPHA_DEN * (sum \div ALPHA_DEN) <= sum
    BY <2>1, <2>3, DivBound
  <2> QED
    BY <2>2, <2>4 DEF sum
<1>7. blended \in [Hotkeys -> Nat]
  BY <1>6
<1>8. Total(blended) \in Nat /\ Total(blended) <= SCALE
  <2> HIDE DEF blended
  <2>1. /\ Total(blended) \in Nat
        /\ ALPHA_DEN * Total(blended)
             <= ALPHA_NUM * Total(given) + (ALPHA_DEN - ALPHA_NUM) * Total(scores)
    BY <1>0, <1>4, <1>6, <1>7, TotalBound
  <2>2. /\ ALPHA_NUM * Total(given) <= ALPHA_NUM * SCALE
        /\ (ALPHA_DEN - ALPHA_NUM) * Total(scores) <= (ALPHA_DEN - ALPHA_NUM) * SCALE
    BY <1>0, <1>5
  <2>3. ALPHA_NUM * SCALE + (ALPHA_DEN - ALPHA_NUM) * SCALE = ALPHA_DEN * SCALE
    OBVIOUS
  <2>4. ALPHA_DEN * Total(blended) <= ALPHA_DEN * SCALE
    <3>1. /\ ALPHA_DEN * Total(blended) \in Nat /\ ALPHA_NUM * Total(given) \in Nat
          /\ (ALPHA_DEN - ALPHA_NUM) * Total(scores) \in Nat
          /\ ALPHA_NUM * SCALE \in Nat /\ (ALPHA_DEN - ALPHA_NUM) * SCALE \in Nat
      BY <1>0, <1>5, <2>1
    <3> QED
      BY <2>1, <2>2, <2>3, <3>1
  <2> QED
    BY <2>1, <2>4, DivisorCancels
<1>9. \A h \in Hotkeys : pruned[h] \in Nat /\ pruned[h] <= blended[h]
  <2> HIDE DEF blended
  <2> QED
    BY <1>7 DEF Prune
<1>10. pruned \in [Hotkeys -> Nat]
  <2>1. pruned = [h \in Hotkeys |-> pruned[h]]
    BY DEF Prune
  <2> HIDE DEF pruned
  <2> QED
    BY <1>9, <2>1
<1>11. Total(pruned) \in Nat /\ Total(pruned) <= SCALE
  <2> HIDE DEF pruned, blended
  <2>1. \A h \in Hotkeys : 1 * pruned[h] <= 1 * blended[h] + 0 * blended[h]
    BY <1>7, <1>9
  <2>2. /\ Total(pruned) \in Nat
        /\ 1 * Total(pruned) <= 1 * Total(blended) + 0 * Total(blended)
    BY <1>7, <1>10, <2>1, TotalBound
  <2> QED
    BY <1>8, <2>2
<1> QED
  BY <1>1, <1>10, <1>11 DEF Shares

-----------------------------------------------------------------------------
(***************************************************************************)
(* The replay of the EMA.  One archive after the other, and the windows    *)
(* without an archive change nothing.                                      *)
(***************************************************************************)

\* f has the replay of each prefix of the records, the last of them what
\* replay_ema returns.
ScoresPrefixes(f, records, n) ==
  /\ f[0] = NoScores
  /\ \A i \in 1..n : f[i] = update_ema(f[i - 1], records[i].entries)
  /\ replay_ema(records) = f[n]

\* replay_ema replays one prefix after the other.
LEMMA EmaDef ==
  ASSUME NEW records, NEW n \in Nat, DOMAIN records = 1..n
  PROVE  \E f : ScoresPrefixes(f, records, n)
<1> DEFINE Body(f, T) == IF T = {} THEN NoScores
                         ELSE update_ema(f[T \ {Max(T)}], records[Max(T)].entries)
           g == CHOOSE f : f = [T \in SUBSET (1..n) |-> Body(f, T)]
<1>1. \A k, T : Folded("scores", records, 0, k, T) = Body(k, T)
  BY DEF Folded, FoldBase, FoldStep
<1>2. replay_ema(records) = g[1..n]
  BY DEF replay_ema, FoldLeft, MapThenFoldSet
<1>3. FoldsTo(g, "scores", records, 0, n)
  <2> HIDE DEF Body
  <2>1. \E k : k = [T \in SUBSET (1..n) |-> Body(k, T)]
    <3>1. PICK k : FoldsTo(k, "scores", records, 0, n)
      <4> HIDE DEF g
      <4> QED
        BY FoldExists
    <3>2. k = [T \in SUBSET (1..n) |-> Body(k, T)]
      BY <1>1, <3>1 DEF FoldsTo
    <3> QED
      BY <3>2
  <2>2. g = [T \in SUBSET (1..n) |-> Body(g, T)]
    BY <2>1
  <2> QED
    BY <1>1, <2>2 DEF FoldsTo
<1> HIDE DEF g, Body
<1>4. /\ g[1..0] = NoScores
      /\ \A i \in 1..n : g[1..i] = update_ema(g[1..(i - 1)], records[i].entries)
  <2>1. FoldsPrefixes(g, "scores", records, 0, n)
    BY <1>3, FoldPrefixes
  <2> QED
    BY <2>1 DEF FoldsPrefixes, FoldBase, FoldStep
<1> DEFINE f == [i \in 0..n |-> g[1..i]]
<1>5. f[0] = NoScores /\ f[n] = g[1..n]
  BY <1>4
<1>6. ASSUME NEW i \in 1..n PROVE f[i] = update_ema(f[i - 1], records[i].entries)
  <2>1. i - 1 \in 0..n /\ i \in 0..n
    OBVIOUS
  <2> QED
    BY <1>4, <2>1
<1> HIDE DEF f
<1>7. ScoresPrefixes(f, records, n)
  BY <1>2, <1>5, <1>6 DEF ScoresPrefixes
<1> QED
  BY <1>7

\* The replay of equal entries is the same ...
LEMMA EmaAgrees ==
  ASSUME NEW r, NEW s, NEW n \in Nat, NEW f, NEW g, NEW m \in Nat, n <= m,
         ScoresPrefixes(f, r, n), ScoresPrefixes(g, s, m),
         \A i \in 1..n : s[i].entries = r[i].entries
  PROVE  g[n] = f[n]
<1> DEFINE I == {i \in Nat : i <= n => g[i] = f[i]}
<1>1. 0 \in I
  BY DEF ScoresPrefixes
<1>2. ASSUME NEW i \in Nat, i \in I PROVE i + 1 \in I
  <2> SUFFICES ASSUME i + 1 <= n PROVE g[i + 1] = f[i + 1]
    OBVIOUS
  <2>1. i + 1 \in 1..n /\ i + 1 \in 1..m /\ (i + 1) - 1 = i
    OBVIOUS
  <2>2. g[i] = f[i]
    BY <1>2
  <2>3. f[i + 1] = update_ema(f[i], r[i + 1].entries) /\ g[i + 1] = update_ema(g[i], s[i + 1].entries)
    BY <2>1 DEF ScoresPrefixes
  <2>4. s[i + 1].entries = r[i + 1].entries
    BY <2>1
  <2> QED
    BY <2>2, <2>3, <2>4
<1>3. Nat \subseteq I
  <2> HIDE DEF I
  <2> QED
    BY <1>1, <1>2, NatSetInduction
<1> QED
  BY <1>3

\* ... and one more record is one more update.
LEMMA EmaExtends ==
  ASSUME NEW r, NEW s, NEW n \in Nat,
         DOMAIN r = 1..n, \A i \in 1..n : s[i].entries = r[i].entries
  PROVE  /\ DOMAIN s = 1..n => replay_ema(s) = replay_ema(r)
         /\ DOMAIN s = 1..(n + 1) => replay_ema(s) = update_ema(replay_ema(r), s[n + 1].entries)
<1>1. PICK f : ScoresPrefixes(f, r, n)
  BY EmaDef
<1>2. ASSUME DOMAIN s = 1..n PROVE replay_ema(s) = replay_ema(r)
  <2>1. PICK g : ScoresPrefixes(g, s, n)
    BY <1>2, EmaDef
  <2>2. PICK m \in Nat : m = n
    OBVIOUS
  <2>3. g[n] = f[n]
    <3>1. n <= m /\ ScoresPrefixes(g, s, m)
      BY <2>1, <2>2
    <3> QED
      BY <1>1, <3>1, EmaAgrees
  <2> QED
    BY <1>1, <2>1, <2>3 DEF ScoresPrefixes
<1>3. ASSUME DOMAIN s = 1..(n + 1) PROVE replay_ema(s) = update_ema(replay_ema(r), s[n + 1].entries)
  <2>1. n + 1 \in Nat /\ n <= n + 1
    OBVIOUS
  <2>2. PICK g : ScoresPrefixes(g, s, n + 1)
    BY <1>3, <2>1, EmaDef
  <2>3. g[n] = f[n]
    <3>1. PICK m \in Nat : m = n + 1
      OBVIOUS
    <3>2. n <= m /\ ScoresPrefixes(g, s, m)
      BY <2>1, <2>2, <3>1
    <3> QED
      BY <1>1, <3>2, EmaAgrees
  <2>4. g[n + 1] = update_ema(g[n], s[n + 1].entries)
    <3>1. n + 1 \in 1..(n + 1) /\ (n + 1) - 1 = n
      OBVIOUS
    <3> QED
      BY <2>2, <3>1 DEF ScoresPrefixes
  <2> QED
    BY <1>1, <2>2, <2>3, <2>4 DEF ScoresPrefixes
<1> QED
  BY <1>2, <1>3

\* The replay keeps the scores within the whole.
LEMMA EmaShares ==
  ASSUME NEW records, NEW n \in Nat, DOMAIN records = 1..n,
         \A i \in 1..n : records[i].entries \in Batches
  PROVE  Shares(replay_ema(records))
<1>1. PICK f : ScoresPrefixes(f, records, n)
  BY EmaDef
<1> DEFINE I == {i \in Nat : i <= n => Shares(f[i])}
<1>2. 0 \in I
  BY <1>1, NoShares DEF ScoresPrefixes
<1>3. ASSUME NEW i \in Nat, i \in I PROVE i + 1 \in I
  <2> SUFFICES ASSUME i + 1 <= n PROVE Shares(f[i + 1])
    OBVIOUS
  <2>1. i + 1 \in 1..n /\ (i + 1) - 1 = i
    OBVIOUS
  <2>2. Shares(f[i])
    BY <1>3
  <2>3. f[i + 1] = update_ema(f[i], records[i + 1].entries)
    BY <1>1, <2>1 DEF ScoresPrefixes
  <2> QED
    BY <2>1, <2>2, <2>3, UpdateShares
<1>4. Nat \subseteq I
  <2> HIDE DEF I
  <2> QED
    BY <1>2, <1>3, NatSetInduction
<1> QED
  BY <1>1, <1>4 DEF ScoresPrefixes

-----------------------------------------------------------------------------
\* The windows below n, the ones of them with an archive, and their records,
\* for a function arch from windows to batches.
Below(n) == [i \in 1..n |-> i - 1]

Kept(arch, n) == Filtered(Below(n), DOMAIN arch)

Records(arch, n) ==
  [i \in 1..Len(Kept(arch, n)) |->
     [window_start |-> Kept(arch, n)[i], batch |-> PromptsOf(arch[Kept(arch, n)[i]]),
      entries |-> arch[Kept(arch, n)[i]]]]

\* The scores that the archives of the windows below n give.
Scored(arch, n) == replay_ema(Records(arch, n))

\* The windows that are kept.
LEMMA KeptWindows ==
  ASSUME NEW n \in Nat, NEW arch
  PROVE  /\ Below(n) \in Seq(Nat) /\ Len(Below(n)) = n
         /\ Kept(arch, n) \in Seq(Nat) /\ Len(Kept(arch, n)) \in Nat
         /\ \A i \in 1..Len(Kept(arch, n)) :
              Kept(arch, n)[i] \in DOMAIN arch /\ Kept(arch, n)[i] \in 0..(n - 1)
<1>1. Below(n) \in [1..n -> Nat]
  BY DEF Below
<1>2. Below(n) \in Seq(Nat) /\ Len(Below(n)) = n
  BY <1>1, FunctionIsSeq
<1>3. Kept(arch, n) \in Seq(Nat) /\ Range(Kept(arch, n)) = Range(Below(n)) \cap DOMAIN arch
  BY <1>2, FilterProperties DEF Kept
<1>4. Len(Kept(arch, n)) \in Nat /\ DOMAIN Kept(arch, n) = 1..Len(Kept(arch, n))
  BY <1>3, LenProperties
<1>5. \A x \in Range(Below(n)) : x \in 0..(n - 1)
  BY DEF Below, Range
<1>6. \A i \in 1..Len(Kept(arch, n)) : Kept(arch, n)[i] \in Range(Kept(arch, n))
  BY <1>4 DEF Range
<1> QED
  BY <1>2, <1>3, <1>4, <1>5, <1>6

\* What the list gives when it reaches back to window 0.
LEMMA ListedRecords ==
  ASSUME NEW n \in Nat, NEW horizon \in Nat, n <= horizon
  PROVE  list_recent_datasets(DOMAIN archives, n, horizon) = Records(archives, n)
<1> DEFINE start == Max({0, n - horizon})
           tried == [i \in 1..(n - start) |-> start + i - 1]
<1>1. start = 0
  <2>1. \E x \in {0, n - horizon} : \A y \in {0, n - horizon} : x >= y
    OBVIOUS
  <2>2. start \in {0, n - horizon} /\ \A y \in {0, n - horizon} : start >= y
    BY <2>1 DEF Max
  <2> HIDE DEF start
  <2> QED
    BY <2>2
<1>2. tried = Below(n)
  BY <1>1 DEF Below
<1>3. list_recent_datasets(DOMAIN archives, n, horizon)
        = [i \in 1..Len(Kept(archives, n)) |-> Record(Kept(archives, n)[i])]
  BY <1>2 DEF list_recent_datasets, Kept
<1> QED
  BY <1>3 DEF Records, Record

\* One more window: it counts if it has an archive.
LEMMA ScoredStep ==
  ASSUME NEW arch, NEW brch, NEW n \in Nat,
         \A w \in 0..(n - 1) : /\ w \in DOMAIN arch <=> w \in DOMAIN brch
                               /\ w \in DOMAIN arch => brch[w] = arch[w]
  PROVE  Scored(brch, n + 1) =
           IF n \in DOMAIN brch THEN update_ema(Scored(arch, n), brch[n]) ELSE Scored(arch, n)
<1> DEFINE k == Kept(arch, n)
           l == Kept(brch, n + 1)
           m == Len(k)
<1>1. n + 1 \in Nat
  OBVIOUS
<1>2. l = IF n \in DOMAIN brch THEN Append(k, n) ELSE k
  <2>1. /\ Below(n) \in Seq(Nat) /\ Len(Below(n)) = n
        /\ Below(n + 1) \in Seq(Nat) /\ Len(Below(n + 1)) = n + 1
    BY <1>1, KeptWindows
  <2>2. \A i \in 1..Len(Below(n)) :
          /\ Below(n + 1)[i] = Below(n)[i]
          /\ Below(n)[i] \in DOMAIN arch <=> Below(n)[i] \in DOMAIN brch
    BY <2>1 DEF Below
  <2>3. Below(n + 1)[n + 1] = n
    BY DEF Below
  <2>4. Filtered(Below(n + 1), DOMAIN brch) =
          IF Below(n + 1)[Len(Below(n + 1))] \in DOMAIN brch
          THEN Append(Filtered(Below(n), DOMAIN arch), Below(n + 1)[Len(Below(n + 1))])
          ELSE Filtered(Below(n), DOMAIN arch)
    <3> DEFINE seq == Below(n)
               longer == Below(n + 1)
               keep == DOMAIN arch
               kept == DOMAIN brch
    <3>1. seq \in Seq(Nat) /\ longer \in Seq(Nat) /\ Len(longer) = Len(seq) + 1
      BY <2>1
    <3>2. \A i \in 1..Len(seq) : longer[i] = seq[i] /\ (seq[i] \in keep <=> seq[i] \in kept)
      BY <2>2
    <3> HIDE DEF seq, longer, keep, kept
    <3>3. Filtered(longer, kept) =
            IF longer[Len(longer)] \in kept THEN Append(Filtered(seq, keep), longer[Len(longer)])
            ELSE Filtered(seq, keep)
      BY <3>1, <3>2, FilterExtends
    <3> QED
      BY <3>3 DEF seq, longer, keep, kept
  <2> QED
    BY <2>1, <2>3, <2>4 DEF Kept
<1>3. /\ k \in Seq(Nat) /\ m \in Nat
      /\ \A i \in 1..m : k[i] \in DOMAIN arch /\ k[i] \in 0..(n - 1)
  BY KeptWindows
<1>4. \A i \in 1..m : brch[k[i]] = arch[k[i]]
  BY <1>3
<1>5. DOMAIN Records(arch, n) = 1..m /\ \A i \in 1..m : Records(arch, n)[i].entries = arch[k[i]]
  BY DEF Records
<1>6. /\ DOMAIN Records(brch, n + 1) = 1..Len(l)
      /\ \A i \in 1..Len(l) : Records(brch, n + 1)[i].entries = brch[l[i]]
  BY DEF Records
<1> HIDE DEF k, l, m
<1>7. CASE n \notin DOMAIN brch
  <2>1. l = k /\ Len(l) = m
    BY <1>2, <1>7 DEF m
  <2>2. /\ DOMAIN Records(brch, n + 1) = 1..m
        /\ \A i \in 1..m : Records(brch, n + 1)[i].entries = Records(arch, n)[i].entries
    BY <1>4, <1>5, <1>6, <2>1
  <2>3. replay_ema(Records(brch, n + 1)) = replay_ema(Records(arch, n))
    BY <1>3, <1>5, <2>2, EmaExtends
  <2> QED
    BY <1>7, <2>3 DEF Scored
<1>8. CASE n \in DOMAIN brch
  <2>1. l = Append(k, n)
    BY <1>2, <1>8
  <2>2. Len(l) = m + 1 /\ l[m + 1] = n /\ \A i \in 1..m : l[i] = k[i]
    BY <1>3, <2>1, AppendProperties DEF m
  <2>3. m + 1 \in 1..(m + 1) /\ \A i \in 1..m : i \in 1..(m + 1)
    BY <1>3
  <2>4. /\ DOMAIN Records(brch, n + 1) = 1..(m + 1)
        /\ \A i \in 1..m : Records(brch, n + 1)[i].entries = Records(arch, n)[i].entries
        /\ Records(brch, n + 1)[m + 1].entries = brch[n]
    BY <1>4, <1>5, <1>6, <2>2, <2>3
  <2>5. replay_ema(Records(brch, n + 1))
          = update_ema(replay_ema(Records(arch, n)), Records(brch, n + 1)[m + 1].entries)
    BY <1>3, <1>5, <2>4, EmaExtends
  <2> QED
    BY <1>8, <2>4, <2>5 DEF Scored
<1> QED
  BY <1>7, <1>8

\* The windows after the last archive give nothing.
LEMMA ScoredLater ==
  ASSUME NEW arch, NEW m \in Nat, NEW n \in Nat, m <= n,
         \A w \in DOMAIN arch : w \in Nat /\ w < m
  PROVE  Scored(arch, n) = Scored(arch, m)
<1> DEFINE I == {k \in Nat : Scored(arch, m + k) = Scored(arch, m)}
<1>1. 0 \in I
  OBVIOUS
<1>2. ASSUME NEW k \in Nat, k \in I PROVE k + 1 \in I
  <2>1. m + k \in Nat /\ m + k \notin DOMAIN arch /\ m + (k + 1) = (m + k) + 1
    OBVIOUS
  <2>2. Scored(arch, (m + k) + 1) = Scored(arch, m + k)
    BY <2>1, ScoredStep
  <2> QED
    BY <1>2, <2>1, <2>2
<1>3. Nat \subseteq I
  <2> HIDE DEF I
  <2> QED
    BY <1>1, <1>2, NatSetInduction
<1>4. n - m \in I /\ m + (n - m) = n
  BY <1>3
<1> QED
  BY <1>4

-----------------------------------------------------------------------------
(***************************************************************************)
(* The weights.  The archives are batches, so the scores are shares of the *)
(* whole, whatever the starts manage to read.                              *)
(***************************************************************************)
SharesInv ==
  /\ window_n \in 0..MaxWindow
  /\ pc = "train" => window_n > 0
  /\ DOMAIN archives \subseteq 1..MaxWindow
  /\ archives = [w \in DOMAIN archives |-> archives[w]]
  /\ \A w \in DOMAIN archives : archives[w] \in Batches
  /\ batch \in Batches
  /\ Shares(ema)

\* The scores and the burn make the whole: the burn is not cut off at zero.
SharesAddUp == Total(ema) + _submit_weights(ema, Hotkeys).burn = SCALE

\* Nothing is sealed in a window that is empty.
LEMMA EmptyBatch == {} \in Batches
<1>1. Cardinality({}) = 0
  BY FS_EmptySet
<1> QED
  BY <1>1, RestartAssumption DEF Batches

LEMMA SharesInit == Init => SharesInv
<1> SUFFICES ASSUME Init PROVE SharesInv
  OBVIOUS
<1>1. DOMAIN NoArchives = {} /\ NoArchives = [w \in DOMAIN NoArchives |-> NoArchives[w]]
  BY DEF NoArchives
<1> QED
  BY <1>1, RestartAssumption, NoShares, EmptyBatch DEF Init, SharesInv

\* Every record of a list is of an archive.
LEMMA ListedShares ==
  ASSUME SharesInv, NEW stored \in SUBSET DOMAIN archives, NEW n \in Nat, NEW horizon \in Nat
  PROVE  Shares(replay_ema(list_recent_datasets(stored, n, horizon)))
<1> DEFINE list == list_recent_datasets(stored, n, horizon)
           asked == {w \in stored : w >= n - horizon /\ w < n}
<1>1. stored \in SUBSET Nat
  BY DEF SharesInv
<1>2. PICK m \in Nat :
        /\ DOMAIN list = 1..m
        /\ \A i \in 1..m : \E w \in asked : list[i] = Record(w)
  BY <1>1, ListedArchives
<1> HIDE DEF list
<1>3. \A i \in 1..m : list[i].entries \in Batches
  BY <1>2 DEF SharesInv, Record
<1>4. Shares(replay_ema(list))
  BY <1>2, <1>3, EmaShares
<1> QED
  BY <1>4 DEF list

LEMMA SharesStep == SharesInv /\ [Next]_vars => SharesInv'
<1> SUFFICES ASSUME SharesInv, [Next]_vars PROVE SharesInv'
  OBVIOUS
<1> USE RestartAssumption
<1>1. CASE BootstrapWindow
  <2>1. PICK keys \in Listings : window_n' = IF keys = {} THEN 0 ELSE Max(keys)
    BY <1>1 DEF BootstrapWindow, BootstrapAt
  <2>2. keys \in SUBSET (1..MaxWindow)
    BY <2>1 DEF Listings, SharesInv
  <2>3. window_n' \in 0..MaxWindow
    <3>1. keys # {} => Max(keys) \in keys
      BY <2>2, MaxOfNumbers
    <3> QED
      BY <2>1, <2>2, <3>1
  <2> QED
    BY <1>1, <2>3 DEF BootstrapWindow, BootstrapAt, SharesInv, Shares
<1>2. CASE BootstrapScores
  <2>1. PICK stored \in Downloads :
          ema' = replay_ema(list_recent_datasets(stored, window_n + 1, EMA_HORIZON))
    BY <1>2 DEF BootstrapScores
  <2>2. stored \in SUBSET DOMAIN archives /\ window_n + 1 \in Nat
    BY <2>1 DEF Downloads, SharesInv
  <2>3. Shares(ema')
    BY <2>1, <2>2, ListedShares
  <2> QED
    BY <1>2, <2>3 DEF BootstrapScores, SharesInv
<1>3. CASE RebuildCooldown
  BY <1>3 DEF RebuildCooldown, RebuildWith, SharesInv
<1>4. CASE Crash
  BY <1>4, NoShares, EmptyBatch DEF Crash, SharesInv
<1>5. CASE WindowFails
  BY <1>5 DEF WindowFails, SharesInv
<1>6. ASSUME NEW b \in Batches, SealWindow(b) PROVE SharesInv'
  <2>1. Shares(ema')
    BY <1>6, UpdateShares DEF SealWindow, SealWith, SharesInv
  <2> QED
    BY <1>6, <2>1 DEF SealWindow, SealWith, SharesInv
<1>7. CASE TrainFails \/ ArchiveFails
  BY <1>7, EmptyBatch DEF TrainFails, ArchiveFails, SharesInv
<1>8. CASE Archive
  <2>1. /\ archives' = [w \in DOMAIN archives \cup {window_n} |->
                          IF w = window_n THEN batch ELSE archives[w]]
        /\ batch' = {} /\ pc = "train" /\ pc' = "ready" /\ UNCHANGED <<window_n, ema>>
    BY <1>8 DEF Archive
  <2>2. /\ DOMAIN archives' = DOMAIN archives \cup {window_n}
        /\ \A w \in DOMAIN archives' : archives'[w] = IF w = window_n THEN batch ELSE archives[w]
        /\ archives' = [w \in DOMAIN archives' |-> archives'[w]]
    BY <2>1
  <2>3. DOMAIN archives' \subseteq 1..MaxWindow
    BY <2>1, <2>2 DEF SharesInv
  <2>4. \A w \in DOMAIN archives' : archives'[w] \in Batches
    BY <2>2 DEF SharesInv
  <2> QED
    BY <2>1, <2>2, <2>3, <2>4, EmptyBatch DEF SharesInv
<1>9. CASE UNCHANGED vars
  BY <1>9 DEF vars, SharesInv
<1> QED
  BY <1>1, <1>2, <1>3, <1>4, <1>5, <1>6, <1>7, <1>8, <1>9 DEF Next, Exhausted

\* The scores that are within the whole leave the rest to the burn.
LEMMA BurnIsRest ==
  ASSUME Shares(ema)
  PROVE  SharesAddUp
<1> DEFINE rest == SCALE - Total(ema)
           burn == Max({0, rest})
<1>1. rest \in Nat
  BY RestartAssumption DEF Shares
<1>2. burn = rest
  <2> HIDE DEF rest
  <2>1. \E x \in {0, rest} : \A y \in {0, rest} : x >= y
    BY <1>1
  <2>2. burn \in {0, rest} /\ \A y \in {0, rest} : burn >= y
    BY <2>1 DEF Max
  <2> HIDE DEF burn
  <2> QED
    BY <1>1, <2>2
<1>3. _submit_weights(ema, Hotkeys).burn = burn
  BY DEF _submit_weights
<1> QED
  BY <1>2, <1>3, RestartAssumption DEF Shares, SharesAddUp

\* At any time, whatever was lost and whatever a start failed to read, the
\* scores and the burn make the whole.
THEOREM WeightsShareTheWhole == Spec => []SharesAddUp
<1>1. SharesInv => SharesAddUp
  BY BurnIsRest DEF SharesInv
<1> QED
  BY <1>1, SharesInit, SharesStep, PTL DEF Spec

-----------------------------------------------------------------------------
(***************************************************************************)
(* The EMA across restarts: it is what the archives give, up to the window *)
(* in hand, whose batch is in it before it is archived.                    *)
(***************************************************************************)
EmaIsReplayed ==
  ~ lost =>
    /\ pc \in {"cooldown", "ready"} => ema = Scored(archives, window_n + 1)
    /\ pc = "train" => ema = update_ema(Scored(archives, window_n), batch)

AgreeInv == FinalInv /\ SharesInv /\ EmaIsReplayed

LEMMA AgreeStep ==
  ASSUME Mishaps = {}, EMA_HORIZON > MaxWindow
  PROVE  AgreeInv /\ [Next]_vars => AgreeInv'
<1> SUFFICES ASSUME AgreeInv, [Next]_vars PROVE EmaIsReplayed'
  BY FinalStep, SharesStep DEF AgreeInv
<1>0. /\ window_n \in Nat /\ window_n <= MaxWindow /\ MaxWindow \in Nat /\ EMA_HORIZON \in Nat
      /\ pc # "start" => DOMAIN archives \subseteq 1..window_n
  BY RestartAssumption DEF AgreeInv, FinalInv, SharesInv
<1>1. CASE BootstrapWindow \/ Crash
  BY <1>1 DEF BootstrapWindow, BootstrapAt, Crash, EmaIsReplayed
<1>2. CASE BootstrapScores
  <2>1. /\ ema' = replay_ema(list_recent_datasets(DOMAIN archives, window_n + 1, EMA_HORIZON))
        /\ pc' = "cooldown" /\ UNCHANGED <<archives, window_n>>
    BY <1>2 DEF BootstrapScores, Downloads
  <2>2. window_n + 1 \in Nat /\ window_n + 1 <= EMA_HORIZON
    BY <1>0
  <2>3. list_recent_datasets(DOMAIN archives, window_n + 1, EMA_HORIZON)
          = Records(archives, window_n + 1)
    BY <1>0, <2>2, ListedRecords
  <2>4. ema' = Scored(archives, window_n + 1)
    BY <2>1, <2>3 DEF Scored
  <2> QED
    BY <2>1, <2>4 DEF EmaIsReplayed
<1>3. CASE RebuildCooldown
  BY <1>3 DEF RebuildCooldown, RebuildWith, AgreeInv, EmaIsReplayed
<1>4. CASE WindowFails
  <2>1. pc = "ready" /\ window_n' = window_n + 1 /\ UNCHANGED <<archives, pc, ema, lost>>
    BY <1>4 DEF WindowFails
  <2>2. window_n + 1 \in Nat /\ window_n + 1 \notin DOMAIN archives
    BY <1>0, <2>1
  <2>3. Scored(archives, (window_n + 1) + 1) = Scored(archives, window_n + 1)
    BY <2>2, ScoredStep
  <2> QED
    BY <2>1, <2>3 DEF AgreeInv, EmaIsReplayed
<1>5. ASSUME NEW b \in Batches, SealWindow(b) PROVE EmaIsReplayed'
  BY <1>5 DEF SealWindow, SealWith, AgreeInv, EmaIsReplayed
<1>6. CASE TrainFails \/ ArchiveFails
  BY <1>6 DEF TrainFails, ArchiveFails, EmaIsReplayed
<1>7. CASE Archive
  <2>1. /\ archives' = [w \in DOMAIN archives \cup {window_n} |->
                          IF w = window_n THEN batch ELSE archives[w]]
        /\ pc = "train" /\ pc' = "ready" /\ UNCHANGED <<window_n, ema, lost>>
    BY <1>7 DEF Archive
  <2>2. \A w \in 0..(window_n - 1) :
          /\ w \in DOMAIN archives <=> w \in DOMAIN archives'
          /\ w \in DOMAIN archives => archives'[w] = archives[w]
    BY <1>0, <2>1
  <2>3. window_n \in DOMAIN archives' /\ archives'[window_n] = batch
    BY <2>1
  <2>4. Scored(archives', window_n + 1) = update_ema(Scored(archives, window_n), batch)
    <3>1. PICK brch : brch = archives'
      OBVIOUS
    <3>2. Scored(brch, window_n + 1) =
            IF window_n \in DOMAIN brch THEN update_ema(Scored(archives, window_n), brch[window_n])
            ELSE Scored(archives, window_n)
      BY <1>0, <2>2, <3>1, ScoredStep
    <3> QED
      BY <2>3, <3>1, <3>2
  <2> QED
    BY <2>1, <2>4 DEF AgreeInv, EmaIsReplayed
<1>8. CASE UNCHANGED vars
  BY <1>8 DEF vars, AgreeInv, EmaIsReplayed
<1> QED
  BY <1>1, <1>2, <1>3, <1>4, <1>5, <1>6, <1>7, <1>8 DEF Next, Exhausted

\* A trainer that lost no archive and a validator that only sets weights submit
\* the same ones, if what is on R2 can be read at each start, as long as the
\* windows are within the horizon of the replay.
THEOREM WeightsAreReplayed ==
  ASSUME Mishaps = {}, EMA_HORIZON > MaxWindow
  PROVE  Spec => []WeightsAgree
<1>1. AgreeInv => WeightsAgree
  <2> SUFFICES ASSUME AgreeInv, pc = "ready", ~ lost PROVE
        /\ archives # NoArchives =>
             \A registered \in SUBSET Hotkeys :
               _submit_weights(ema, registered) = weight_only_weights(registered)
        /\ SharesAddUp
    BY DEF WeightsAgree, SharesAddUp
  <2>1. SharesAddUp
    BY BurnIsRest DEF AgreeInv, SharesInv
  <2>2. ASSUME archives # NoArchives, NEW registered
        PROVE  _submit_weights(ema, registered) = weight_only_weights(registered)
    <3> DEFINE last == Max(DOMAIN archives)
    <3>1. DOMAIN archives # {}
      BY <2>2 DEF NoArchives, AgreeInv, SharesInv
    <3>2. /\ window_n \in Nat /\ window_n <= MaxWindow /\ MaxWindow \in Nat /\ EMA_HORIZON \in Nat
          /\ DOMAIN archives \in SUBSET (1..window_n)
      BY RestartAssumption DEF AgreeInv, FinalInv, SharesInv
    <3>3. last \in DOMAIN archives /\ \A w \in DOMAIN archives : w <= last
      BY <3>1, <3>2, MaxOfNumbers
    <3> HIDE DEF last
    <3>4. /\ last + 1 \in Nat /\ window_n + 1 \in Nat
          /\ last + 1 <= window_n + 1 /\ last + 1 <= EMA_HORIZON
          /\ \A w \in DOMAIN archives : w \in Nat /\ w < last + 1
      BY <3>2, <3>3
    <3>5. list_recent_datasets(DOMAIN archives, last + 1, EMA_HORIZON) = Records(archives, last + 1)
      BY <3>2, <3>4, ListedRecords
    <3>6. Scored(archives, window_n + 1) = Scored(archives, last + 1)
      BY <3>4, ScoredLater
    <3>7. ema = replay_ema(list_recent_datasets(DOMAIN archives, last + 1, EMA_HORIZON))
      BY <3>5, <3>6 DEF AgreeInv, EmaIsReplayed, Scored
    <3> QED
      BY <3>7 DEF weight_only_weights, last
  <2> QED
    BY <2>1, <2>2
<1>2. Init => AgreeInv
  BY FinalInit, SharesInit DEF AgreeInv, EmaIsReplayed, Init
<1> QED
  BY <1>1, <1>2, AgreeStep, PTL DEF Spec
=============================================================================
