\* Five models of one to three layers.
CONSTANTS
  Models <- SmallModels
  Rates <- SmallRates
  TraceMayFail = TRUE
SPECIFICATION TraceSpec
INVARIANTS
  TraceAddsUp
PROPERTY TotalsCollected
