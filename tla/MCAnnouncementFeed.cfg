\* A place fewer than keys, so that the store fills up and empties.  What a
\* list says can change, and change back, while a copy of either cache is old.
CONSTANTS
  Key = {k1, k2}
  Content <- MCContent
  Tidy <- MCTidy
  Valid <- MCValid
  MaxRecords = 1
  EdgeAge = 2
  Grace = 1
  ClientAge = 2
  None = None
SYMMETRY Keys
SPECIFICATION FeedSpec
INVARIANTS FeedTypeOK MemoryIsDurable SeenIsRecent
