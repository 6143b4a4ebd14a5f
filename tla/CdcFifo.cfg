SPECIFICATION FairSpec
CONSTANTS
  ADDR_W = 2
  STAGES = 2
  Word = {0, 1}
  ZeroWord = 0
  Unwritten = Unwritten
PROPERTIES
  ImplementsFifo
  FlagsCatchUp
