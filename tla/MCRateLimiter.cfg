\* Two clients, so that one's window opens when the other's is long over, and
\* time for two windows and the sweep of an old one.
CONSTANTS
  Key = {k1, k2}
  Limit = 2
  Window = 2
  MaxTime = 4
  MaxCount = 3
  None = None
SYMMETRY Clients
SPECIFICATION Spec
INVARIANTS TypeOK BudgetHolds
PROPERTY RefusedOnlyAtLimit
