SPECIFICATION FairSpec
CONSTANTS
  ADDR_W = 2
  STAGES = 1
  Word = {0, 1}
  ZeroWord = 0
  Unwritten = Unwritten
  MAX_RUNS = 2
INVARIANTS
  OwedIsOnTheWay
PROPERTIES
  ImplementsPort
  HostIsServed
