SPECIFICATION ConversationSpec
CONSTANTS
  a1 = a1  a2 = a2
  Members = {a1, a2}
  Admin = a1
  Modes = {"free"}
  AutomaticBots = {a2}
  Rounds = 2
  Speakers <- Silence
  Leavers = {}
  Stoppable = {a2}
  MaxWorks = 4
  MaxCrashes = 1
  s1 = s1  s2 = s2
  MessageCount = 2
  Versions = 2
  Revised = {1}
  Servers = {s1, s2}
  EventPage = 1
  AppendPage = 2
  PidStays = FALSE
  MaxSetbacks = 1
  p1 = p1
  RemoteCalls = {p1}
  MaxMishaps = 1
  ChatReplies = 2
  Before = 1
  ChatPage = 1
  Totals = TRUE
  MaxUpsets = 1
  MaxRequests = 2
INVARIANTS ConversationTypeOK MirrorExact CommandsHonest HistoryTrue
PROPERTIES RunSettles MirrorEnds ChannelsClose RepairsEnd
CHECK_DEADLOCK FALSE
