SPECIFICATION MCSpec
CONSTANTS
  SLOTS = 2
  Expert = {0, 1, 2}
  None = None
  Builds <- MCSlowHits
  FREQ_MAX = 3
  AGE_PERIOD = 4
  FLASH_LAT = 2
  Jobs = {"cache"}
  SystemBuilds = {}
  EFIFO_DEPTH = 2
  Episode <- MCEpisode
  Window = {0, 2}
  RESIDENT = 1
  POSW = 3
  Row = {r0}
  ZeroRow = r0
  NoGather = NoGather
  APPENDS = 4
INVARIANTS
  ResponseHoldsExpert
