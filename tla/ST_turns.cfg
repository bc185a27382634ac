SPECIFICATION FairSpec
CONSTANTS
  Threads = {t1, t2}
  Timers = {d1}
  Loop = Loop
  None = None
  MaxMessages = 2
  MaxInterrupts = 0
  MaxCloses = 0
  MaxResumes = 1
  MaxFailures = 0
INVARIANTS TypeOK OneTurn WorkingIsServed RestIsRest
CHECK_DEADLOCK FALSE
PROPERTY Delivered
