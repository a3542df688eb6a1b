SPECIFICATION Spec
CONSTANTS
  Ids = {d1}
  Programs = {p1}
  Keys = {owner}
  Owner = owner
  NoId = NoId
  NoKey = NoKey
  Workers = {w1}
  MaxKeys = 1
  MaxFaults = 0
  MaxCrashes = 1
INVARIANT OrphanBlobHasNoKey
