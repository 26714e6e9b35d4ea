CONSTANTS
  t1 = t1
  t2 = t2
  Tracks <- TwoTracks
  Fibres <- MirroredFibres
  NbOfZRot = 2
  MaxSignal = 1
  Arrivals <- TwoTimes
  TimeBinWidth = 2
  DefaultWidth = 1
  Tolerance = 1
  MaxDeposits = 2
SYMMETRY Symmetry
SPECIFICATION Spec
INVARIANTS
  HitsAreTheFibresLight
  OneContributionPerBin
  EachPhotonDrawnOnce
  BarrelLightIsReflected
CHECK_DEADLOCK FALSE
