SPECIFICATION Spec
CONSTANTS
  Threads = {t1, t2}
  Timers = {}
  Loop = Loop
  None = None
  MaxMessages = 2
  MaxInterrupts = 0
  MaxCloses = 0
  MaxResumes = 0
  MaxFailures = 1
INVARIANT NoSelfDeadlock
CHECK_DEADLOCK FALSE
