SPECIFICATION MCSpec
CONSTANTS
  SEG_MAX = 3
  BURST = 2
  ADDR_W = 3
  Segment <- MCSegment
  Unwritten = Unwritten
  RESIDENT = 4
  POSW = 3
  Row = {r0, r1}
  ZeroRow = r0
  NoGather = NoGather
  APPENDS = 7
INVARIANTS
  PipelineIsExact
  WindowIsExact
PROPERTIES
  ImplementsBlockCopy
  BootCompletes
  ImplementsKvLog
