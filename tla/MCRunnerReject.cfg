SPECIFICATION RunnerSpec
CONSTANTS
  RemoteCalls = {p1}
  MaxMishaps = 0
INVARIANTS RejectionDefinitive
CHECK_DEADLOCK FALSE
