SPECIFICATION GatewaySpec
CONSTANTS
  Thread = {w1, w2}
  Place <- MCPlace
  InCairo <- MCInCairo
  Text <- MCText
  ModelReads <- MCModelReads
  Word <- MCWord
  Alias <- MCAlias
  KnownPlace <- MCKnownPlace
  GOOGLE = TRUE
  GoogleReply <- MCGoogleInTown
  CairoReply <- MCCairoInTown
  NominatimReply <- MCNominatimInTown
  MAX_REQUESTS = 3
  Asked <- MCAsked
  MAX_CALLS = 2
CHECK_DEADLOCK FALSE
INVARIANTS
  GatewayTypeOK
  PlacesAreOfTheirNames
  CairoPreferred
  RememberedIsLocated
  TextsReadAsMeant
  OneVerdict
PROPERTY CallersGoOn
