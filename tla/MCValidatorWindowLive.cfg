CONSTANTS
  COOLDOWN_WINDOWS = 2
  B_BATCH = 2
  MaxWindow = 2
  s1 = s1
  s2 = s2
  s3 = s3
  s4 = s4
  Submissions <- MCFewSubmissions
  Prompts <- MCPrompts
  prompt_idx <- MCPromptIdx
  defect <- MCDefect
SPECIFICATION FairSpec
PROPERTIES
  EveryRequestIsJudged
  EveryWindowEnds
