SPECIFICATION FairSpec
CONSTANTS
  Requests = {r}
  Tasks = {k1, k2}
  Loop = loop
  None = None
  Commands = {"send", "queue", "reemit", "cancel", "retry_now", "interrupt", "close"}
  Max = 1
  MaxCommands = 2
  MaxFailures = 2
  MaxRestarts = 1
INVARIANTS TypeOK CountdownServed BudgetKept RecordTells
PROPERTIES HeldBack Resumed
CHECK_DEADLOCK FALSE
