\* Two challenges of one client are needed for a block to catch a challenge
\* other than the one that caused it; two clients for a challenge used by the
\* wrong one.  MaxTime lets a block run out and a challenge expire after it.
CONSTANTS
  ChallengeId = {c1, c2}
  ClientIP = {ip1, ip2}
  PoWBits = {0, 20}
  TTL = 3
  Skew = 1
  FailThreshold = 2
  BlockDuration = 2
  MaxTime = 5
  None = None
SYMMETRY Identities
SPECIFICATION Spec
INVARIANTS TypeOK SingleUse FailureBudget BlockServedInFull
PROPERTIES RedeemedInTime BlockedClientsWait SweptByEveryCall
