SPECIFICATION FairSpec
CONSTANTS
  None = None
  Callers = {r}
  Heartbeat = heartbeat
  Reader = reader
  Reconnects = {x, y}
  Conns = {1, 2}
  MaxClients = 2
  MaxCalls = 1
  MaxFaults = 2
CONSTRAINT AfterACollision
INVARIANT TypeOK
INVARIANT NoLeak
INVARIANT SomeoneReconnects
PROPERTY Recovers
CHECK_DEADLOCK FALSE
