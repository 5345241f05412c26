SPECIFICATION AnalyticsSpec
CONSTANTS
  Worker = {w1, w2}
  Place <- MCPlace
  Phrase <- MCPhrase
  Request <- MCRequestAll
  AiReply <- MCAiReply
  Found <- MCFound
  AiFailure <- MCAiFailure
  RoutingFailure <- MCRoutingFailure
  Resemblance <- MCResemblance
  Query <- MCQuery
  WINDOW = 2
  MAX_REQUESTS = 2
CHECK_DEADLOCK FALSE
INVARIANTS
  TypeOK
  AnswersRecorded
  OverviewAddsUp
  HistoryShowsAnswered
PROPERTIES
  Served
  ServiceKept
  ReportsAgree
