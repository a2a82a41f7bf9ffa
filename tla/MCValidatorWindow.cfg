CONSTANTS
  COOLDOWN_WINDOWS = 2
  B_BATCH = 2
  MaxWindow = 3
  s1 = s1
  s2 = s2
  s3 = s3
  s4 = s4
  Submissions <- MCSubmissions
  Prompts <- MCPrompts
  prompt_idx <- MCPromptIdx
  defect <- MCDefect
SPECIFICATION Spec
INVARIANTS
  SingleWinner
  NoRebatchInCooldown
  FlagMeansFullBatch
  EventFollowsFlag
  WinnersCameFirst
PROPERTIES
  ImplementsLedger
SYMMETRY Symmetry
