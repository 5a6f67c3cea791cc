SPECIFICATION FairSpec
CONSTANTS
  a = a
  b = b
  c = c
  p1 = p1
  p2 = p2
  Processes = {p1, p2}
  Requests = {a, b, c}
  Home <- TwoAndOne
  Concurrency = 1
  Interval = 1
  SlotTtl = 2
  Floods = {1, 2}
  Deadlines <- SomeDeadlines
  MayFail = TRUE
  Off = Off
INVARIANTS
  TypeOK
  NoLostWakeup
  SlotBound
PROPERTIES
  FloodHonoured
  EveryoneAnswered
CHECK_DEADLOCK FALSE
