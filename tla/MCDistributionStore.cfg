\* A crash after an upload whose stored name load refuses is the end: the
\* process does not start again.
CONSTANTS
  Key = {k1, k2}
  Blob = {b1, b2}
  Download = {d}
  MaxRecords = 2
  None = None
SPECIFICATION Spec
INVARIANTS
  TypeOK
  OnlyNamesRefuseAStart
  MemoryIsDurable
  FilesStayWhileListed
CHECK_DEADLOCK FALSE
