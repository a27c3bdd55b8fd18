CONSTANTS
  text = text
  torn = torn
  Request = {r1, r2}
  Content = {text}
  ContentOf <- MCContentOf
  MaxRetries = 2
  RedisConfigured = TRUE
  Torn <- MCTorn
SPECIFICATION FairSpec
INVARIANTS
  TypeOK
  FailClosed
  WithheldTextsAreKept
  AnsweredTicketsWork
  TicketsHaveIssues
  TwinsNeedAnOutage
PROPERTIES
  EverySubmissionEnds
CHECK_DEADLOCK FALSE
