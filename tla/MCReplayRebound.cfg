SPECIFICATION ReplaySpec
CONSTANTS
  MaxEvents = 3
  MaxRuntimes = 2
  MaxFaults = 2
  DeferLimit = 1
  EarlyLimit = 1
  KeepEntries = 2
  Rebinds = TRUE
INVARIANT NumberSeen
CHECK_DEADLOCK FALSE
