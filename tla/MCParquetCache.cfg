CONSTANTS
  Threads <- MCThreads
  Shards <- MCShards
  Indexes <- MCIndexes
  t1 = t1
  t2 = t2
  t3 = t3
  CACHE_CAP = 2
  HANDLES = 1
SPECIFICATION ParquetFairSpec
INVARIANTS
  AnswersAreRows
  FetchesAreNeeded
PROPERTIES
  EveryCallEnds
