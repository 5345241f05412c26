SPECIFICATION Spec
CONSTANTS
  Stop <- MCStop
  At <- MCAt
  StopPrefix <- MCPrefix
  CELL_LAT <- MCCellLat
  CELL_LON <- MCCellLon
  Query <- MCQuery
INVARIANT AllWithinRadius
CHECK_DEADLOCK FALSE
