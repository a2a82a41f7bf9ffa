CONSTANTS
  Prompts <- MCPrompts
  Cooldowns <- MCCooldowns
  p1 = p1
  p2 = p2
  MAX_SUBMISSIONS = 2
  POOL_MAX_SIZE = 2
  BAKE_BATCH_SIZE = 2
  MaxWindow = 2
  MaxCheckpoint = 1
SPECIFICATION FairSpec
INVARIANTS
  BudgetHolds
  PoolFromCurrentCheckpoint
PROPERTIES
  FiresAreFresh
  PoolIsFired
