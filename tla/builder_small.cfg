\* Seven tiles in groups of three: a last group that stays incomplete.
CONSTANTS
  IFC_SAMPLE_TILES = 7
  IFC_READ_SLICES_PER_REQUEST = 3
  IFC_SSDSIM_MAX_CHANNELS = 3
  IFC_SSDSIM_MAX_CHIPS_PER_CHANNEL = 3
  IFC_SSDSIM_MAX_DIES_PER_CHIP = 2
  IFC_SSDSIM_MAX_PLANES_PER_DIE = 3
  IFC_SSDSIM_MAX_COMMANDS = 30
  Platforms <- SmallPlatforms
SPECIFICATION BuilderSpec
INVARIANTS
  BuildsStream
