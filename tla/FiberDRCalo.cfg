CONSTANTS
  FiberLen = 10
  Safety = 1
  NoLimit = 1000
  TrackIDs <- TwoThenOther
  CherFibres = {"c"}
  ScinFibres = {"s"}
  Origins <- MCOrigins
  Hops <- MCHops
  NILLs <- MCNILLs
  TimeStart = 7
  TimeStep = 1
  TimeBins = 1
  ProcessSets = {{"abs"}, {"wls"}}
  MaxChanges = 1
  MaxTurns = 1
  MaxDeposits = 1
  MaxPhotons = 2
  MaxEvents = 2

SPECIFICATION Spec
INVARIANTS
  HitsAreThePhotonsCounted
  HitTimeWithinSafety
  KilledWouldBeAbsorbed
  TimeIsTheWay
  MovedOnceAndSafely
CHECK_DEADLOCK FALSE
