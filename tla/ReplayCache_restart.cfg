SPECIFICATION Spec
CONSTANTS
  Requests = {r1}
  Handlers = {h1, h2}
  Window = 2
  Ahead = 2
  Latency = 0
  MaxClock = 6
INVARIANTS
  AcceptedAgainWithinWindow
