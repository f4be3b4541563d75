SPECIFICATION FairSpec
CONSTANTS
  w1 = w1  w2 = w2
  r1 = r1  r2 = r2  t1 = t1  a1 = a1  a2 = a2
  NoWork = NoWork
  Works = {w1, w2}
  Runs = {r1, r2}
  Tasks = {t1}
  Agents = {a1, a2}
  RunOf <- PairRunOf
  TaskOf <- PairTaskOf
  AgentOf <- PairAgentOf
  BatchOf <- PairBatchOf
  ParentOf <- PairParentOf
  Mode <- PairMode
  Admin <- PairAdmin
  Discussed = {}
  Assigned = {r2}
  Leavers = {a2}
  ConcurrencyLimit = 2
  TaskLimit = 2
  FaultBudget = 1
CONSTRAINT LeaveOrFault
PROPERTIES StopConfirmed QueueMoves
CHECK_DEADLOCK FALSE
