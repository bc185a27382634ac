SPECIFICATION Spec
CONSTANTS
  None = None
  AckEvery = 2
  OrphanAfter = 0
  ExitGrace = 0
  MaxLines = 3
  MaxEngines = 2
  MaxSends = 1
  MaxTime = 3
INVARIANTS TypeOK NothingMissing OnceInOrder AnsweredOnce TurnAgreed
CHECK_DEADLOCK FALSE
