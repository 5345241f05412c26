SPECIFICATION Spec
CONSTANTS
  Stop <- MCStop
  At <- MCAt
  StopPrefix <- MCPrefix
  CELL_LAT <- MCCellLat
  CELL_LON <- MCCellLon
  Query <- MCQuery
INVARIANTS
  TypeOK
  CellWidthCovered
  MaskFallsBackWhole
CHECK_DEADLOCK FALSE
