CONSTANTS
  t1 = t1
  t2 = t2
  Tracks <- OneTrack
  MaxEvents = 2
  MaxRuns = 2
  MaxSteps = 2
  MaxPhotons = 2
  MaxPrimarySteps = 1
  EventKinds <- Charged
  KillEscapedChoices <- NotKilled
  OutputFile = TRUE
  HasEfficiency = TRUE
SPECIFICATION Spec
INVARIANTS EachEventFoldedOnce
CHECK_DEADLOCK FALSE
