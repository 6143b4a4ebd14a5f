SPECIFICATION MCSpec
CONSTANTS
  L = 2
  E = 7
  K = 3
  TOKENS = 4
  MAX_B = 3
  KEEP = 1
  Draws <- MCDraws
  Pattern = {0, 2, 3}
  Slots = {2, 5}
  Channels = {2, 4}
  Shuffles <- MCShuffles
  Shard = {s1, s2}
  Config = config
  Token = {0, 1}
  Corpus <- MCCorpus
  Linear = {l1, l2}
  N_WEIGHTS = 1
  Product <- MCProduct
  MAX_FAILS = 1
  NaN = NaN
  Inf = Inf
  NegInf = NegInf
CHECK_DEADLOCK FALSE
INVARIANTS
  LayoutIsBalanced
  MeasureIsSound
  BatchingAmortizes
  OnlyCompleteIsLoaded
  FiguresAgree
PROPERTIES
  ReplayIsLru
