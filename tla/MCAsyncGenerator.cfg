CONSTANTS
  Prompts <- MCPrompts
  ENVS <- MCEnvs
  TARGET_SLOTS <- MCTargets
  Modes <- MCModes
  Slice <- MCSlice
  Cooldown <- MCCooldown
  math = math
  code = code
  p1 = p1
  p2 = p2
  POOL_MAX_SIZE = 1
  MAX_SUBMISSIONS = 1
  MAX_PHASES = 2
  TIE_CYCLE = 2
  MaxWindow = 1
  MaxCheckpoint = 0
SPECIFICATION FairSpec
INVARIANTS
  EachPromptOnce
  

  
CHECK_DEADLOCK FALSE
