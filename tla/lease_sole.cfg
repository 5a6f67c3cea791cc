SPECIFICATION Spec
CONSTANTS
  Runs = {r1, r2, r3}
  None = None
  TTL = 3
  Budget = 2
  MaxTime = 7
SYMMETRY Symmetry
INVARIANTS
  TypeOK
  SoleWorker
CHECK_DEADLOCK FALSE
