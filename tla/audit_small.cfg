\* Two targets at once, three files, one failing write.
CONSTANTS
  Platform = "p"
  NotGiven = NotGiven
  Missing = Missing
  Targets <- SmallTargets
  Component = "systemc-component"
  Outputs <- SmallOutputs
  Kind <- SmallKind
  EventStats = "event_stats"
  Differences <- SmallDifferences
  StageEvents = 40
  EventFiles <- SmallEventFiles
  MaxJobs = 2
  MaxFaults = 1
SPECIFICATION Spec
INVARIANTS
  VerdictSound
  AlarmsReal
  OverlayExact
