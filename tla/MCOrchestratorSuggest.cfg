SPECIFICATION Spec
CONSTANTS
  Worker = {w1, w2}
  Place <- MCPlace
  Phrase <- MCPhrase
  Request <- MCRequestSearch
  AiReply <- MCAiReply
  Found <- MCFound
  AiFailure <- MCAiFailure
  RoutingFailure <- MCRoutingFailure
  Resemblance <- MCResemblance
  WINDOW = 2
  MAX_REQUESTS = 3
CHECK_DEADLOCK FALSE
SYMMETRY MCSymmetry
INVARIANT SuggestionsTraceable
