SPECIFICATION MCSpec
CONSTANTS
  SLOTS = 3
  Expert = {0, 1, 2, 3}
  None = None
  Builds <- MCAllBuilds
  FREQ_MAX = 2
  AGE_PERIOD = 3
  FLASH_LAT = 2
  Jobs = {"cache", "system"}
  SystemBuilds <- MCSystemBuilds
  EFIFO_DEPTH = 2
  Episode <- MCEpisode
  Window = {0, 2}
  RESIDENT = 1
  POSW = 3
  Row = {r0}
  ZeroRow = r0
  NoGather = NoGather
  APPENDS = 3
INVARIANTS
  HitsAreSound
  DemandIsServed
PROPERTIES
  ImplementsLru
  DrivesFlashAsCtrl
  FetchesEndWhenServed
