SPECIFICATION FairSpec
CONSTANTS
  Stop <- CityStop
  At <- CityAt
  StopPrefix <- CityPrefix
  CELL_LAT <- MCCellLat
  CELL_LON <- MCCellLon
  Trip <- CityTrip
  StopTimes <- CityStopTimes
  TripMode <- CityTripMode
  Request <- CityRequest
  INF <- MCInf
  BUS_FARE = 20
  MICROBUS_FARE = 10
  METRO_TIERS <- MCTiers
  TripRows <- MCTripRows
  ShapeRows <- MCShapeRows
  AgencyOf <- MCAgencyOf
  MetroSpelled = {"M_CAI-METRO"}
  MbSpelled = {"MB_CAI_BUS"}
CHECK_DEADLOCK FALSE
INVARIANTS
  TypeOK
  LabelsRealised
  ParentsCheaper
  SegmentsAccountForTotal
  TotalsBounded
  FilterHonoured
  ChoiceIsBest
  DurationsWithinTotal
  RidesAreListed
  FastestLeads
  DrawnAsRidden
PROPERTIES
  ExpandedFinal
  Termination
