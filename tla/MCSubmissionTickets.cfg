CONSTANTS
  text = text
  torn = torn
  Request = {r1, r2}
  Content = {text}
  ContentOf <- MCContentOf
  MaxRetries = 1
  RedisConfigured = TRUE
  Torn <- MCTorn
SPECIFICATION FairSpec
INVARIANT TicketsPersist
CHECK_DEADLOCK FALSE
