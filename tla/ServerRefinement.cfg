SPECIFICATION Spec
CONSTANTS
  Ids = {d1, d2}
  Programs = {prog}
  Keys = {o, u}
  o = o
  u = u
  d1 = d1
  d2 = d2
  prog = prog
  NoKey = NoKey
  NoRequest = NoRequest
  Sessions <- AllSessions
  Workers = {w1, w2}
  Window = 1
  Ahead = 0
  Latency = 1
SYMMETRY Symmetric
INVARIANTS
  TypeOK
  HeldByOneRun
  EffectOnce
  DeletedProgramStaysOut
  RunsByConsent
PROPERTIES
  EditStands
  RefusedForGood
  KeepsContract
CHECK_DEADLOCK FALSE
