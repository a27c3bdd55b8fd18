\* Two jobs, so that they could overlap; two seconds, so that their backups can
\* have one name or two.
SPECIFICATION FairSpec
CONSTANTS
  Tag = {v0, v1, v2}
  Prerelease = {v2}
  First = v0
  Job = {j1, j2}
  MaxAttempts = 2
  MaxSecond = 1
  None = None
  Torn = Torn
INVARIANTS
  TypeOK
  BinaryIsWhole
  ReplacedBinariesAreKept
  RecordFollowsBinary
PROPERTIES
  EveryJobEnds
