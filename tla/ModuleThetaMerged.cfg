CONSTANTS
  LastLayer = 3
  NumModules = 12
  FirstTheta <- MCFirstTheta
  LastTheta <- MCLastTheta
  Readouts <- MCReadouts
SPECIFICATION WalkSpec
INVARIANTS NeighboursAreTheTouchingCells CrosstalkIsByPosition
