SPECIFICATION FairMirrorSpec
CONSTANTS
  MessageCount = 2
  Versions = 2
  Revised = {1}
  Servers = {"server"}
  EventPage = 1
  AppendPage = 2
  PidStays = TRUE
  MaxSetbacks = 1
PROPERTY MirrorEnds
CHECK_DEADLOCK FALSE
