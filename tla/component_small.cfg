\* Up to two channels with two chips each, narrow and wide dispatch.
CONSTANTS
  IFC_SAMPLE_TILES = 4
  IFC_READ_SLICES_PER_REQUEST = 2
  IFC_SSDSIM_MAX_CHANNELS = 2
  IFC_SSDSIM_MAX_CHIPS_PER_CHANNEL = 2
  IFC_SSDSIM_MAX_DIES_PER_CHIP = 1
  IFC_SSDSIM_MAX_PLANES_PER_DIE = 2
  IFC_SSDSIM_MAX_COMMANDS = 16
  Platforms <- SmallPlatforms
  Timings <- SmallTimings
  Configs <- SmallConfigs
  CycleTicks = 2
  TraceMayFail = TRUE
SPECIFICATION FairSpec
INVARIANTS
  OnePlace
  UnitsExact
  LateOnlyIfCut
  StopsClean
PROPERTIES
  Completes
  ImplementsService
