CONSTANTS
  COOLDOWN_WINDOWS = 3
  Prompts = {1, 2, 3}
  Hotkeys <- MCHotkeys
  h1 = h1
  h2 = h2
  B_BATCH = 2
  ALPHA_NUM = 1
  ALPHA_DEN = 2
  SCALE = 1000
  PRUNE = 1
  EMA_HORIZON = 5
  Mishaps = {}
  MaxWindow = 4
  MaxRestarts = 2
SPECIFICATION Spec
INVARIANTS
  NoRebatchInArchives
  CooldownIsDurable
  
PROPERTIES
  ArchivesAreFinal
