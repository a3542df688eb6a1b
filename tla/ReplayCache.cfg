SPECIFICATION Spec
CONSTANTS
  Requests = {r1, r2}
  Handlers = {h1, h2}
  Window = 2
  Ahead = 1
  Latency = 1
  MaxClock = 6
INVARIANTS
  TypeOK
  AtMostOnce
  AcceptedAgainWithinReach
