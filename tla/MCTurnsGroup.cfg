SPECIFICATION CastSpec
CONSTANTS
  w1 = w1  w2 = w2  w3 = w3  w4 = w4  w5 = w5
  r1 = r1  r2 = r2  r3 = r3  t1 = t1
  a1 = a1  a2 = a2  a3 = a3
  NoWork = NoWork
  Works = {w1, w2, w3, w4, w5}
  Runs = {r1, r2, r3}
  Tasks = {t1}
  Agents = {a1, a2, a3}
  RunOf <- GroupRunOf
  TaskOf <- GroupTaskOf
  AgentOf <- GroupAgentOf
  BatchOf <- GroupBatchOf
  ParentOf <- GroupParentOf
  Mode <- GroupMode
  Admin <- GroupAdmin
  Discussed = {}
  Assigned = {r3}
  Leavers = {a3}
  ConcurrencyLimit = 2
  TaskLimit = 2
  FaultBudget = 1
INVARIANTS TypeOK NoOrphanPrompt OnePromptPerSession TurnExclusivity
PROPERTIES NoPromptAfterStop KeepsPromise
CHECK_DEADLOCK FALSE
