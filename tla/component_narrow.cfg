\* The default platform with --issue-width 1.
CONSTANTS
  IFC_SAMPLE_TILES = 16
  IFC_READ_SLICES_PER_REQUEST = 4
  IFC_SSDSIM_MAX_CHANNELS = 8
  IFC_SSDSIM_MAX_CHIPS_PER_CHANNEL = 2
  IFC_SSDSIM_MAX_DIES_PER_CHIP = 2
  IFC_SSDSIM_MAX_PLANES_PER_DIE = 2
  IFC_SSDSIM_MAX_COMMANDS = 256
  Platforms <- DefaultPlatforms
  Timings <- DefaultTimings
  Configs <- NarrowConfigs
  CycleTicks = 2
  TraceMayFail = FALSE
SPECIFICATION Spec
INVARIANT OnTime
