SPECIFICATION Spec
CONSTANTS
  Tag = {v0, v1, v2}
  Prerelease = {v2}
  First = v0
  Job = {j1, j2}
  MaxAttempts = 2
  MaxSecond = 0
  None = None
  Torn = Torn
INVARIANTS
  UpdateTakesEffect
