SPECIFICATION ProgressSpec
CONSTANTS
  c1 = c1  c2 = c2  f1 = f1  NoFrame = NoFrame
  Requests = {c1, c2}
  Frames = {f1}
  Direct = {}
  Capacity = 2
  PendingLimit = 2
  MaxRestarts = 1
  MaxEvents = 3
  MaxRuntimes = 2
  MaxFaults = 2
  DeferLimit = 1
  EarlyLimit = 1
  KeepEntries = 2
  Rebinds = FALSE
  e1 = e1  e2 = e2  h1 = h1  h2 = h2
  Environments = {e1, e2}
  Holders = {h1, h2}
  Home <- Homes
  Concurrent = 1
  Backlog = 2
  MaxMishaps = 1
  d1 = d1  d2 = d2  m1 = m1  m2 = m2  g1 = g1  n1 = n1  n2 = n2
  Devices = {d1, d2}
  Endpoints = {m1, m2, g1}
  Platform <- PlatformOf
  Notices = {n1, n2}
  RoomNotices = {n2}
  NoEndpoint = NoEndpoint  NoItem = NoItem
  OutboxLimit = 3
  DeviceLimit = 2
  AttemptsMax = 2
  MaxTurmoil = 2
  MaxLosses = 1
  PartCount = 2
  Needs <- Chain
  AttemptLimit = 1
  WakeLimit = 2
  MaxTurns = 2
  MaxOps = 3
  MaxActivation = 2
PROPERTIES StopStands
CHECK_DEADLOCK FALSE
