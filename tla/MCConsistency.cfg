SPECIFICATION ConsistencySpec
CONSTANTS
  c1 = c1  c2 = c2  f1 = f1  f2 = f2  NoFrame = NoFrame
  Requests = {c1, c2}
  Frames = {f1, f2}
  Direct = {c2}
  Capacity = 2
  PendingLimit = 2
  MaxRestarts = 1
  k1 = k1  k2 = k2  x = x  y = y  NoArguments = NoArguments
  Calls = {k1, k2}
  Human = {k2}
  Arguments = {x, y}
  CallLimit = 1
  MaxTrouble = 3
  list = list  chat = chat  rename = rename  event = event  r1 = r1
  Keys = {list, chat}
  Tags <- ReadTags
  Mutations = {rename, event}
  Touches <- ChangeTags
  StaleKeys = {list}
  Readers = {r1}
  LoadLimit = 2
  EntryLimit = 1
  MaxChanges = 3
  q1 = q1  q2 = q2  NoReply = NoReply  Computer = Computer
  Questions = {q1, q2}
  Automatic = {q1}
  Replies = {"once"}
  MaxBreaks = 2
  Period = 2
  Day = 3
  Hands = {x}
  MaxTime = 5
  MaxRecords = 3
  MaxEdits = 2
  a1 = a1  a2 = a2  a3 = a3
  Members = {a1, a2, a3}
  Admin = a1
  Modes = {"host", "discussion"}
  AutomaticBots = {}
  Rounds = 3
  Speakers <- TwoSpeakers
  Leavers = {a3}
  Stoppable = {}
  MaxWorks = 6
  MaxCrashes = 1
INVARIANTS ConsistencyTypeOK ExecutedOnce ReceiptTruthful EffectOnce AnswersTrue ReadsCurrent AnsweredOnce WaitingAgrees CatchesUpOnce
INVARIANTS DiscussionInOrder OneBatchAtATime BatchesReviewed
PROPERTIES SettledForGood
CHECK_DEADLOCK FALSE
