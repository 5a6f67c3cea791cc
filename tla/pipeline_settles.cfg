SPECIFICATION FairSpec
CONSTANTS
  Items = {m1}
  DWorkers = {d1}
  UWorkers = {u1, u2}
  NoItem = NoItem
  NoWorker = NoWorker
  Stamps = {1, 2, 3, 4, 5, 6}
  NoStamp = 0
  MaxAttempts = 1
  MaxFaults = 1
  MaxReplays = 0
  FaultKinds = {"io", "crash", "stall", "inactive"}
  Senders = {"registered", "whitelisted", "unknown"}
  Overwrites = TRUE
PROPERTIES
  EventuallySettled
  FailedIsRetried
ACTION_CONSTRAINT TakenInTurn
CHECK_DEADLOCK FALSE
