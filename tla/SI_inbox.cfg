SPECIFICATION Spec
CONSTANTS
  EngineThreads = {e1, e2}
  WebThreads = {w1, w2}
  None = None
  Cap = 2
  MaxReports = 3
  MaxSends = 2
  MaxTexts = 1
  MaxFaults = 1
  MaxRestarts = 1
SYMMETRY Symmetry
INVARIANTS TypeOK LostOnlyToOverlap NoticedUnlessMissed
PROPERTY DeliveredGoFirst
CHECK_DEADLOCK FALSE
