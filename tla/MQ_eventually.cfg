SPECIFICATION FairSpec
CONSTANTS
  Sessions = {s1}
  Texts = {a, b}
  Threads = {t1, t2}
  Savers = {x1, x2}
  None = None
  MaxOps = 2
  MaxRestarts = 1
PROPERTIES EventuallySaved
CHECK_DEADLOCK FALSE
