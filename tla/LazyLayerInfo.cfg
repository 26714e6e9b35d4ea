CONSTANTS
  Null = Null
  Threads = {"t1", "t2"}
  Runner = "t1"
  Blocks = {"b1", "b2", "b3"}
  Cells = {"c1", "c2", "bad"}
  BadCells = {"bad"}
  NumLayers = 2
  LayersAsked = {0, 2}
  MaxLookups = 2

SPECIFICATION MCSpec
INVARIANTS
  TypeOK
  ReadsAreOfTables
  NothingIsLost
PROPERTIES
  RunnersQueryReturns
  ChosenOnce
CHECK_DEADLOCK FALSE
