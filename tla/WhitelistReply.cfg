SPECIFICATION ReplySpec
CONSTANTS
  Ids = {d1}
  Programs = {p1, p2}
  Keys = {owner, alice}
  Owner = owner
  NoId = NoId
  NoKey = NoKey
  Workers = {w1}
  MaxKeys = 1
  MaxFaults = 1
  MaxCrashes = 0
INVARIANT EditAnsweredWithItsList
