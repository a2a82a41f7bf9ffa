CONSTANTS
  m1 = m1
  m2 = m2
  Miners <- MCMiners
  PUBLISH_EVERY = 2
  B_BATCH = 1
  Mishaps = {}
  MaxCommits = 3
  MaxRestarts = 2
SPECIFICATION FairSpec
INVARIANTS
  NumberNamesRevision
  NoMinerStranded
PROPERTIES
  MinersCatchUp
