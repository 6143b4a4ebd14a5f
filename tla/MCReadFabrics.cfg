SPECIFICATION FabricsSpec
CONSTANTS
  N_CH = 2
  RESP_QD = 2
  PHY_DEPTH = 2
  Addr = {0, 1, 2}
  Tag = {t1}
  BANK_LSB = 1
  Unwritten = Unwritten
INVARIANTS
  OutstandingCounts
  NeverBackpressured
PROPERTIES
  RotationAdvances
  ImplementsReadFabric
  Ddr5ImplementsReadFabric
  NoChannelStarves
