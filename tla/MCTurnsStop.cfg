SPECIFICATION FairSpec
CONSTANTS
  w1 = w1  w2 = w2
  r1 = r1  r2 = r2  t1 = t1  a1 = a1  a2 = a2
  NoWork = NoWork
  Works = {w1, w2}
  Runs = {r1, r2}
  Tasks = {t1}
  Agents = {a1}
  RunOf <- DirectRunOf
  TaskOf <- DirectTaskOf
  AgentOf <- DirectAgentOf
  BatchOf <- DirectBatchOf
  ParentOf <- DirectParentOf
  Mode <- DirectMode
  Admin <- DirectAdmin
  Discussed = {}
  Assigned = {}
  Leavers = {}
  ConcurrencyLimit = 2
  TaskLimit = 2
  FaultBudget = 0
PROPERTY StopConfirmed
CHECK_DEADLOCK FALSE
