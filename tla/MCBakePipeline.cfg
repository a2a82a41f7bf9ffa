CONSTANTS
  Prompts <- MCPrompts
  p1 = p1
  p2 = p2
  p3 = p3
  BAKE_BATCH_SIZE = 3
  BAKE_CHUNK = 2
  BUILD_ATTEMPTS = 2
  MaxRandomness = 2
  MaxCheckpoint = 1
SPECIFICATION FairSpec
INVARIANTS
  OneStreamPerEntry
PROPERTIES
  EveryBakeEnds
