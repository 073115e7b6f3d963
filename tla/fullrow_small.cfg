\* Two issue slots a cycle for up to three channels.
CONSTANTS
  IFC_SAMPLE_TILES = 4
  IFC_READ_SLICES_PER_REQUEST = 2
  IFC_SSDSIM_MAX_CHANNELS = 3
  IFC_SSDSIM_MAX_CHIPS_PER_CHANNEL = 2
  IFC_SSDSIM_MAX_DIES_PER_CHIP = 2
  IFC_SSDSIM_MAX_PLANES_PER_DIE = 2
  IFC_SSDSIM_MAX_COMMANDS = 64
  IFC_MICRO_STAGE_ISSUE_WIDTH = 3
  IFC_MICRO_ISSUE_FIFO_DEPTH = 2
  BucketSlack = 1
  Platforms <- SmallPlatforms
  Timings <- SmallTimings
  Demands <- SmallDemands
  Efficiencies = {0, 84}
  Clocks = {1, 3}
  Hashes <- SmallHashes
  AllocMayFail = TRUE
SPECIFICATION FairSpec
INVARIANTS
  TableExact
  WidthRespected
  SlicesSpread
  SlicesFindPlaneIdle
PROPERTIES
  ImplementsListSchedule
  Completes
