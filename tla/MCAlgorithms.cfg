CONSTANTS
  COOLDOWN_WINDOWS = 2
  MaxSubmissions = 3
  Slots = 2
  CurrentWindow = 2
  M_ROLLOUTS = 4
  K_MIN = 1
  K_MAX = 3
  MAX_PHASES = 3
  DROP_BTOK0_PHASE1 = TRUE
  max_truncated_allowed = 0
  UNIT = 2
  Rollouts <- MCRollouts
  Budgets = {0, 1}
  Leaves <- MCLeaves
  MaxLeaves = 4
  Environments <- MCEnvironments
  SlotTotals = {1, 5}
  SlotFloors = {0, 1}
  NO_YIELD = no_yield
  FULL = 10
  MAX_SUBMITTED = 2
  NOT_YET = not_yet
  MaxSent = 3
  Universe = 4
SPECIFICATION TopicSpec
CHECK_DEADLOCK FALSE
INVARIANTS
  LoopSelectsLeaders
  
  NoGroupIsMissed
  RootBindsGroup
  SlotsAddUp
  OutcomesCountOnce
  PicksAreInRange
