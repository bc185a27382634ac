SPECIFICATION Spec
CONSTANTS
  Sessions = {s1, s2}
  Texts = {a, b}
  Threads = {t1, t2}
  Savers = {x1, x2}
  None = None
  MaxOps = 3
  MaxRestarts = 1
SYMMETRY Symmetry
INVARIANTS TypeOK InOnePlace NothingVanishes QuietMeansSaved
PROPERTY Delivers
CHECK_DEADLOCK FALSE
