CONSTANTS
  t1 = t1
  t2 = t2
  Tracks <- TwoTracks
  MaxEvents = 2
  MaxRuns = 1
  MaxSteps = 3
  MaxPhotons = 2
  MaxPrimarySteps = 1
  EventKinds <- NonEmpty
  KillEscapedChoices <- KilledOrNot
  OutputFile = TRUE
  HasEfficiency = TRUE
SYMMETRY Symmetry
SPECIFICATION Spec
INVARIANTS TypeOK AllIsWLSPlusPrimary EveryDeathCountedOnce RunTotalsAreTheDeaths DetectedIffTouched FramesHoldTheirOwnEvent KilledPhotonsAreNotNonCaptured
CHECK_DEADLOCK FALSE
