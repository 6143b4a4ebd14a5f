SPECIFICATION MCSpec
CONSTANTS
  EB = 8
  MB = 10
  BM = 7
  ACC_FRAC = 18
  MAXLEN = 3
  BYTE = 4
  BUFW = 8
  DECODER_RESETS = 1
  Case <- MCCase
  PE_N = 2
  BLK = 3
  KMAX = 9
  Model <- MCModel
  LOADER_RESETS = 1
CHECK_DEADLOCK FALSE
INVARIANTS
  Lossless
  CodesAreOptimal
  MatmulGetsCheckpoint
  ImageIsComplete
PROPERTY WeightsArrive
