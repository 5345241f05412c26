SPECIFICATION Spec
CONSTANTS
  Stop <- CorridorStop
  At <- CorridorAt
  StopPrefix <- CorridorPrefix
  CELL_LAT <- MCCellLat
  CELL_LON <- MCCellLon
  Trip <- CorridorTrip
  StopTimes <- CorridorStopTimes
  TripMode <- CorridorTripMode
  Request <- CorridorRequest
  INF <- MCInf
CHECK_DEADLOCK FALSE
INVARIANT FindsCheapest
