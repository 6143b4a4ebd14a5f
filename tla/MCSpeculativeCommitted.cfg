SPECIFICATION MCSpec
CONSTANTS
  Token = {0, 1}
  ZeroToken = 0
  NoToken = NoToken
  DRAFT_K = 2
  POSW = 2
  MODEL_DIM = 2
  Models <- MCModels
  NumPasses = {1, 2}
  MAX_PASSES = 3
  MAX_BATCHES = 2
PROPERTY ImplementsCommittedGreedy
