SPECIFICATION FairSpec
CONSTANTS
  Ids = {d1}
  Programs = {p1}
  Keys = {owner, alice}
  Owner = owner
  NoId = NoId
  NoKey = NoKey
  Workers = {w1}
  MaxKeys = 2
  MaxFaults = 2
  MaxCrashes = 2
PROPERTIES
  UseEnds
  DeletionResumes
