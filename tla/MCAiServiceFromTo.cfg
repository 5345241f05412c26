SPECIFICATION Spec
CONSTANTS
  Thread = {w1}
  Place <- MCPlace
  InCairo <- MCInCairo
  Text <- MCTextFromTo
  ModelReads <- MCModelReads
  Word <- MCWord
  Alias <- MCAlias
  KnownPlace <- MCKnownPlace
  GOOGLE = TRUE
  GoogleReply <- MCGoogleReply
  CairoReply <- MCCairoReply
  NominatimReply <- MCNominatimReply
  MAX_REQUESTS = 1
CHECK_DEADLOCK FALSE
INVARIANT ToMeansTo
