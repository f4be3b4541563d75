SPECIFICATION ChatSpec
CONSTANTS
  ChatReplies = 2
  Before = 1
  ChatPage = 1
  Totals = TRUE
  MaxUpsets = 1
  MaxRequests = 0
INVARIANT RunsWithHermes
CHECK_DEADLOCK FALSE
