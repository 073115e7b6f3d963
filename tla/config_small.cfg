\* Two models, two platforms, a sweep of six contexts.
CONSTANTS
  IFC_MODEL_COUNT = 2
  IFC_PLATFORM_COUNT = 2
  TableFiles <- SmallTableFiles
  SystemFiles <- SmallSystemFiles
  Defaults <- SmallDefaults
  DefaultSystem <- SmallDefaultSystem
  NotGiven = NotGiven
  Missing = Missing
  Blank = Blank
  Name <- SmallName
  WeightTime <- SmallWeightTime
  CacheTime <- SmallCacheTime
  AttentionOps <- SmallAttentionOps
  TokensPerSecond <- SmallTokensPerSecond
  SpeedScale = 100000
  CONTEXT_SWEEP_MAX = 6
  FitWindow = {2, 3, 4}
SPECIFICATION ReproductionSpec
INVARIANTS
  AllOrNothing
  PeakOfLastValues
  SummariesAgree
  FitIsBest
  CheckerAgrees
