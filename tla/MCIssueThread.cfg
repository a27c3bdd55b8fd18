CONSTANTS
  Comment = {k1, k2}
  Outside = {d}
  Query = {q1, q2}
  TTL = 2
  MaxWait = 1
  None = None
SPECIFICATION Spec
INVARIANTS
  TypeOK
  WithheldCommentsAreKept
  StaleOnlyByCrossing
PROPERTIES
  AnswersAreRecent
SYMMETRY Identities
