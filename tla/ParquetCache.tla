---------------------------- MODULE ParquetCache ----------------------------
(***************************************************************************)
(* VirtualParquetDataset: the rows of a pinned data set, fetched by row    *)
(* group on demand and kept in a small LRU, for several threads at once.   *)
(* The manifest is built once behind an unlocked look at its sentinel      *)
(* _total; _lock makes every look at the LRU one step here; _io_lock is    *)
(* held over the footers, the open handles and the reads.                  *)
(***************************************************************************)
EXTENDS SequenceFilter, SequencesExt, FiniteSets

CONSTANTS
  Threads,
  Shards,     \* the files of the data set: for each, the sizes of its row groups
  Indexes,    \* the indexes that are asked for
  CACHE_CAP,  \* _cache_cap
  HANDLES     \* how many files stay open

ASSUME CacheAssumption ==
  /\ CACHE_CAP \in Nat \ {0} /\ HANDLES \in Nat \ {0}
  /\ Shards \in Seq(Seq(Nat)) /\ Indexes \subseteq Int

VARIABLES
  manifest,  \* layout: _files, _rg_start and _rg_loc are set; total: _total is
  cache,     \* _cache, the least recently used row group first
  pf,        \* _pf, likewise
  io_lock,   \* the threads that are inside _io_lock
  pc, idx, rows, answer   \* of each thread

parquet_vars == <<manifest, cache, pf, io_lock, pc, idx, rows, answer>>

-----------------------------------------------------------------------------
(***************************************************************************)
(* The index space.                                                        *)
(***************************************************************************)
\* The row groups in the order of the footers, and the rows each begins with.
rg_loc == FlattenSeq([f \in DOMAIN Shards |-> [g \in DOMAIN Shards[f] |-> <<f, g>>]])
SizeOf(key) == Shards[key[1]][key[2]]
rg_start == [i \in DOMAIN rg_loc |-> FoldLeft(LAMBDA n, key : n + SizeOf(key), 0, SubSeq(rg_loc, 1, i - 1))]
Total == FoldLeft(LAMBDA n, key : n + SizeOf(key), 0, rg_loc)

\* The data set has a row: _total is asserted not to be 0.
ASSUME RowsAssumption == Total > 0

\* bisect_right(rg_start, i)
BisectRight(i) == Cardinality({k \in DOMAIN rg_start : rg_start[k] <= i})

GroupOf(i) == BisectRight(i % Total)

KeyOf(t) == rg_loc[GroupOf(idx[t])]

\* The rows of a group, and the one among them that is asked for.
RowsOf(key) == [n \in 1..SizeOf(key) |-> <<key, n>>]
Pick(t, group) ==
  LET n == (idx[t] % Total) - rg_start[GroupOf(idx[t])] + 1
  IN  IF n \in DOMAIN group THEN group[n] ELSE <<"IndexError">>

\* What the list of all the rows holds at an index.
TheRow(i) == FlattenSeq([k \in DOMAIN rg_loc |-> RowsOf(rg_loc[k])])[(i % Total) + 1]

-----------------------------------------------------------------------------
Moved(seq, x) == Append(Filtered(seq, Range(seq) \ {x}), x)

Capped(seq, n) == IF Len(seq) > n THEN Tail(seq) ELSE seq
Cached(key) == \E i \in DOMAIN cache : cache[i].key = key
Entry(key) == CHOOSE c \in Range(cache) : c.key = key

Goto(t, next) == pc' = [pc EXCEPT ![t] = next]
Acquire(t) == io_lock = {} /\ io_lock' = {t}
Release(t) == io_lock' = io_lock \ {t}

\* An exception leaves the locks it passes through.
Raise(t, exception) ==
  /\ Goto(t, "idle")
  /\ answer' = [answer EXCEPT ![t] = <<exception>>]
  /\ Release(t)

Return(t, group) ==
  /\ Goto(t, "idle")
  /\ answer' = [answer EXCEPT ![t] = Pick(t, group)]

-----------------------------------------------------------------------------
(***************************************************************************)
(* get_row and _ensure_manifest.                                           *)
(***************************************************************************)
get_row(t) ==
  /\ pc[t] = "idle"
  /\ \E i \in Indexes : idx' = [idx EXCEPT ![t] = i]
  /\ Goto(t, IF manifest.total THEN "locate" ELSE "manifest")
  /\ answer' = [answer EXCEPT ![t] = <<>>]
  /\ UNCHANGED <<manifest, cache, pf, io_lock, rows>>

\* The second look at the sentinel, inside the lock.
EnterManifest(t) ==
  /\ pc[t] = "manifest"
  /\ IF manifest.total
       THEN io_lock = {} /\ Goto(t, "locate") /\ UNCHANGED io_lock
       ELSE Acquire(t) /\ Goto(t, "footers")
  /\ UNCHANGED <<manifest, cache, pf, idx, rows, answer>>

\* Slip: the sentinel comes first.
ReadFooters_total_first(t) ==
  /\ pc[t] = "footers"
  /\ Goto(t, "sentinel")
  /\ manifest' = [manifest EXCEPT !.total = TRUE]
  /\ UNCHANGED <<cache, pf, io_lock, idx, rows, answer>>

\* The listing and the footers are read; the layout is set before the total.
ReadFooters(t) ==
  /\ pc[t] = "footers"
  /\ Goto(t, "sentinel")
  /\ manifest' = [manifest EXCEPT !.layout = TRUE]
  /\ UNCHANGED <<cache, pf, io_lock, idx, rows, answer>>

SetTotal(t) ==
  /\ pc[t] = "sentinel"
  /\ Goto(t, "locate")
  /\ manifest' = [layout |-> TRUE, total |-> TRUE]
  /\ Release(t)
  /\ UNCHANGED <<cache, pf, idx, rows, answer>>

FootersFail(t) ==
  /\ pc[t] = "footers"
  /\ Raise(t, "IOError")
  /\ UNCHANGED <<manifest, cache, pf, idx, rows>>

Locate(t) ==
  /\ pc[t] = "locate"
  /\ IF manifest.layout
       THEN Goto(t, "lookup") /\ UNCHANGED <<answer, io_lock>>
       ELSE Raise(t, "AssertionError")
  /\ UNCHANGED <<manifest, cache, pf, idx, rows>>

\* The look at the cache that makes a group the most recently used.
Lookup(t) ==
  /\ pc[t] = "lookup"
  /\ IF Cached(KeyOf(t))
       THEN /\ cache' = Moved(cache, Entry(KeyOf(t)))
            /\ Return(t, Entry(KeyOf(t)).rows)
       ELSE Goto(t, "miss") /\ UNCHANGED <<cache, answer>>
  /\ UNCHANGED <<manifest, pf, io_lock, idx, rows>>

\* Slip: the cache is not looked at again inside the lock.
EnterMiss_no_recheck(t) ==
  /\ pc[t] = "miss"
  /\ Acquire(t) /\ Goto(t, "open")
  /\ UNCHANGED <<manifest, cache, pf, idx, rows, answer>>

\* The second look, inside _io_lock, leaves the order of the cache alone.
EnterMiss(t) ==
  /\ pc[t] = "miss"
  /\ IF Cached(KeyOf(t))
       THEN io_lock = {} /\ Return(t, Entry(KeyOf(t)).rows) /\ UNCHANGED io_lock
       ELSE Acquire(t) /\ Goto(t, "open") /\ UNCHANGED answer
  /\ UNCHANGED <<manifest, cache, pf, idx, rows>>

\* _parquet_file: the handle of the file, opened if need be; the handle used
\* longest ago is closed.
Open(t) ==
  /\ pc[t] = "open"
  /\ pf' = Capped(Moved(pf, KeyOf(t)[1]), HANDLES)
  /\ Goto(t, "read")
  /\ UNCHANGED <<manifest, cache, io_lock, idx, rows, answer>>

\* Slip: the lock is not left when the fetch fails.
FetchFails_keeps_lock(t) ==
  /\ \/ pc[t] = "open" /\ KeyOf(t)[1] \notin Range(pf)
     \/ pc[t] = "read"
  /\ Goto(t, "idle") /\ answer' = [answer EXCEPT ![t] = <<"IOError">>]
  /\ UNCHANGED <<manifest, cache, pf, io_lock, idx, rows>>

\* The file cannot be opened, or the row group cannot be read.
FetchFails(t) ==
  /\ \/ pc[t] = "open" /\ KeyOf(t)[1] \notin Range(pf)
     \/ pc[t] = "read"
  /\ Raise(t, "IOError")
  /\ UNCHANGED <<manifest, cache, pf, idx, rows>>

Read(t) ==
  /\ pc[t] = "read"
  /\ rows' = [rows EXCEPT ![t] = RowsOf(KeyOf(t))]
  /\ Goto(t, "insert")
  /\ UNCHANGED <<manifest, cache, pf, io_lock, idx, answer>>

\* The fetched group becomes the most recently used, and the least recently used
\* ones go.
Insert(t) ==
  /\ pc[t] = "insert"
  /\ cache' = Capped(Append(cache, [key |-> KeyOf(t), rows |-> rows[t]]), CACHE_CAP)
  /\ rows' = [rows EXCEPT ![t] = <<>>]
  /\ Return(t, rows[t])
  /\ Release(t)
  /\ UNCHANGED <<manifest, pf, idx>>

-----------------------------------------------------------------------------
ParquetInit ==
  /\ manifest = [layout |-> FALSE, total |-> FALSE]
  /\ cache = <<>> /\ pf = <<>> /\ io_lock = {}
  /\ pc = [t \in Threads |-> "idle"]
  /\ idx \in [Threads -> {0}]
  /\ rows = [t \in Threads |-> <<>>] /\ answer = [t \in Threads |-> <<>>]

Step(t) ==
  \/ EnterManifest(t) \/ ReadFooters(t) \/ SetTotal(t) \/ FootersFail(t)
  \/ Locate(t) \/ Lookup(t) \/ EnterMiss(t)
  \/ Open(t) \/ FetchFails(t) \/ Read(t) \/ Insert(t)

ParquetNext == \E t \in Threads : get_row(t) \/ Step(t)

ParquetSpec == ParquetInit /\ [][ParquetNext]_parquet_vars

\* A thread that waits for _io_lock gets it when it is released again and again.
ParquetFairSpec == ParquetSpec /\ \A t \in Threads : SF_parquet_vars(Step(t))

-----------------------------------------------------------------------------
\* A call that returns returns the row of its index, and the only error it may
\* raise is that of the storage: whatever other threads build, evict or close
\* meanwhile, nobody works with half a manifest or the rows of another group.
AnswersAreRows ==
  \A t \in Threads : answer[t] \in {<<>>, <<"IOError">>, TheRow(idx[t])}

\* The handle in use is open and nobody else's, and what it fetches is not in
\* the cache: threads that miss the same group at once cause one read.
FetchesAreNeeded ==
  \A t \in Threads : pc[t] \in {"read", "insert"} =>
    /\ io_lock = {t}
    /\ KeyOf(t)[1] \in Range(pf)
    /\ ~ Cached(KeyOf(t))

\* Every call ends, also when the one that holds the lock fails.
EveryCallEnds == \A t \in Threads : pc[t] # "idle" ~> pc[t] = "idle"
=============================================================================
