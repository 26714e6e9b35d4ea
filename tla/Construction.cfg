SPECIFICATION Spec
CONSTANTS
  EndcapFiles <- MCEndcapFiles
  BarrelFiles <- MCBarrelFiles
  LadderFiles <- MCLadderFiles
  RodFiles <- MCRodFiles
  DiscFiles <- MCDiscFiles
  DetailedBarrelFiles <- MCDetailedBarrelFiles
  DetailedEndcapFiles <- MCDetailedEndcapFiles
  StaveFiles <- MCStaveFiles
  TowerFiles <- MCTowerFiles
  PolygonFiles <- MCPolygonFiles
  PanelFiles <- MCPanelFiles
  ForwardFiles <- MCForwardFiles
  PrototypeFiles <- MCPrototypeFiles
  ChamberBarrelFiles <- MCChamberBarrelFiles
  ChamberEndcapFiles <- MCChamberEndcapFiles
  AroundTPCFiles <- MCAroundTPCFiles
  YokeBarrelFiles <- MCYokeBarrelFiles
  YokeEndcapFiles <- MCYokeEndcapFiles
  TurbineFiles <- MCTurbineFiles
  PlateFiles <- MCPlateFiles
  UprightDiscFiles <- MCUprightDiscFiles
  TileBarrelFiles <- MCTileBarrelFiles
  TilePartsFiles <- MCTilePartsFiles
INVARIANTS
  CellIdsNameOneSensor
  ElementsSitOnTheirSensors
  SlicesFitTheirStack
  RecordsDescribeTheSensors
  LayerDataDescribeTheLayers
  NeighboursAreNextToEachOther
  OtherSideIsMirrored
  AbsorberGrowsEvenly
CHECK_DEADLOCK FALSE
