SPECIFICATION Spec
CONSTANTS
  Items = {m1}
  DWorkers = {d1}
  UWorkers = {u1}
  NoItem = NoItem
  NoWorker = NoWorker
  Stamps = {1, 2, 3, 4, 5, 6}
  NoStamp = 0
  MaxAttempts = 2
  MaxFaults = 1
  MaxReplays = 0
  FaultKinds = {"io"}
  Senders = {"registered"}
  Overwrites = FALSE
PROPERTIES
  NoReupload
CHECK_DEADLOCK FALSE
