\* A session outlives a window and ends before the clock does; the token can
\* change and change back.
CONSTANTS
  Key = {k1}
  Limit = 1
  Window = 1
  MaxTime = 3
  MaxCount = 2
  Token = {t1, t2}
  TTL = 2
  None = None
SYMMETRY Tokens
SPECIFICATION AdminSpec
INVARIANT SessionsAreEarned
