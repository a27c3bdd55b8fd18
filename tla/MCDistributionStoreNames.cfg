CONSTANTS
  Key = {k1, k2}
  Blob = {b1, b2}
  Download = {d}
  MaxRecords = 2
  None = None
SPECIFICATION Spec
INVARIANT AcceptedNamesLoad
CHECK_DEADLOCK FALSE
