SPECIFICATION FairSpec
CONSTANTS
  Requests = {r}
  Tasks = {k1, k2}
  Loop = loop
  None = None
  Commands = {"queue"}
  Max = 2
  MaxCommands = 1
  MaxFailures = 1
  MaxRestarts = 0
PROPERTY FailedFirst
CHECK_DEADLOCK FALSE
