SPECIFICATION FairSpec
CONSTANTS
  None = None
  Jobs = {j1}
  Clients = {web}
  Supervisor = supervisor
  MaxRelaunches = 1
  MaxLaunches = 3
  MaxFaults = 1
INVARIANT TypeOK
PROPERTY NoSecondRun
PROPERTY RelaunchIsDue
PROPERTY Settled
