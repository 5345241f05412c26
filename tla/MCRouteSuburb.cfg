SPECIFICATION Spec
CONSTANTS
  Stop <- SuburbStop
  At <- SuburbAt
  StopPrefix <- SuburbPrefix
  CELL_LAT <- MCCellLat
  CELL_LON <- MCCellLon
  Trip <- SuburbTrip
  StopTimes <- SuburbStopTimes
  TripMode <- SuburbTripMode
  Request <- SuburbRequest
  INF <- MCInf
  BUS_FARE = 20
  MICROBUS_FARE = 10
  METRO_TIERS <- MCTiers
CHECK_DEADLOCK FALSE
INVARIANT OptimalUndominated
