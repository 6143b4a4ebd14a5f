SPECIFICATION NumericsSpec
CONSTANTS
  EB = 8
  MB = 10
  BM = 7
  ACC_FRAC = 18
  blk = 2
  HALVINGS = 5
  Operand <- MCOperand
  Converted <- MCConverted
  Shift <- MCShift
  Factor <- MCFactor
  BlockSums <- MCBlockSums
  Tile <- MCTile
  GivenShift <- MCGivenShift
CHECK_DEADLOCK FALSE
INVARIANTS
  KernelsAreGolden
  RoundsToNearest
  DerivedShiftIsTight
  ContractIsGolden
