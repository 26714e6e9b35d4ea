CONSTANTS
  TrackerColls = {"t"}
  CaloColls = {"c"}
  DRColls = {"d"}
  Configs <- MCConfigs
  MaxParticles = 1
  Tracks <- MCTracks
  DRHits <- MCDRHits
  MaxRuns = 1
  MaxEvents = 3
  InputRun = 7

SPECIFICATION Spec
INVARIANTS
  TypeOK
  FramesHoldOneEvent
  CommittedEventsAreKept
  FinishedFilesAreComplete
CHECK_DEADLOCK FALSE
