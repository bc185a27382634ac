SPECIFICATION FairSpec
CONSTANTS
  None = None
  Prompts = {p, q}
  Tabs = {a, b}
  MaxTurns = 1
  MaxTroubles = 2
INVARIANTS TypeOK Answerable StateTells
PROPERTY Returned
CHECK_DEADLOCK FALSE
