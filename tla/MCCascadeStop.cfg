SPECIFICATION RunSpec
CONSTANTS
  a1 = a1  a2 = a2  a3 = a3
  Members = {a1, a2, a3}
  Admin = a1
  Modes = {"host"}
  AutomaticBots = {}
  Rounds = 3
  Speakers <- Silence
  Leavers = {}
  Stoppable = {a2, a3}
  MaxWorks = 8
  MaxCrashes = 0
INVARIANT CompletedWorkReviewed
CHECK_DEADLOCK FALSE
