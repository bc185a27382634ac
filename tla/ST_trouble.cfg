SPECIFICATION Spec
CONSTANTS
  Threads = {t1, t2}
  Timers = {}
  Loop = Loop
  None = None
  MaxMessages = 1
  MaxInterrupts = 1
  MaxCloses = 1
  MaxResumes = 1
  MaxFailures = 1
SYMMETRY Symmetry
INVARIANT SentOnce
PROPERTY StaleHandsOff
CHECK_DEADLOCK FALSE
