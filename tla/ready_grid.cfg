\* Every platform of the 2x2x2x2 grid, six tiles in groups of two.
CONSTANTS
  IFC_SAMPLE_TILES = 6
  IFC_READ_SLICES_PER_REQUEST = 2
  IFC_SSDSIM_MAX_CHANNELS = 2
  IFC_SSDSIM_MAX_CHIPS_PER_CHANNEL = 2
  IFC_SSDSIM_MAX_DIES_PER_CHIP = 2
  IFC_SSDSIM_MAX_PLANES_PER_DIE = 2
  IFC_SSDSIM_MAX_COMMANDS = 24
  Platforms <- GridPlatforms
  Timings <- GridTimings
  TraceMayFail = TRUE
SPECIFICATION Spec
INVARIANTS
  ReadyExact
  SlicesFindPlaneIdle
  ReportExact
PROPERTY ImplementsListSchedule
