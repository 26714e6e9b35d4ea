CONSTANTS
  t1 = t1
  t2 = t2
  Tracks <- TwoTracks
  Rows <- TwoRows
  OutsideLayer <- BeyondRows
  Deposits <- NoneOrOne
  Threshold = 0
  PtCutIsZero = FALSE
  LowPtStepLimits <- OnAndOff
  MaxSeparation = 1
  DecaysInFlight = FALSE
  MaxEvents = 2
  MaxSteps = 3
SYMMETRY Symmetry
SPECIFICATION Spec
INVARIANTS NoEnergyInvented NoEnergyLost DepositsHaveTheirStep HitsOfTheirOwn LowPtHitsAreConnected
CHECK_DEADLOCK FALSE
