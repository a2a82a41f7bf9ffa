CONSTANTS
  BatchPrompts <- MCPrompts
  M_ROLLOUTS = 3
  ROWS = 2
  BFT_THINKING_BUDGET = 2
  BFT_ANSWER_BUDGET = 2
  PAD = "eos"
  PRIMARY_EOS = "im_end"
SPECIFICATION StreamSpec
INVARIANTS
  RolloutsReplay
  PicksAreOwn
