CONSTANTS
  t1 = t1
  t2 = t2
  Tracks <- TwoTracks
  Rows <- TwoRows
  OutsideLayer <- BeyondRows
  Deposits <- NoneOrOne
  Threshold = 0
  PtCutIsZero = FALSE
  LowPtStepLimits <- OnlyOff
  MaxSeparation = 1
  DecaysInFlight = FALSE
  MaxEvents = 1
  MaxSteps = 4
SYMMETRY Symmetry
SPECIFICATION Spec
INVARIANTS HitsOfOneTrack
CHECK_DEADLOCK FALSE
