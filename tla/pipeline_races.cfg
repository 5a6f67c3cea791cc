SPECIFICATION Spec
CONSTANTS
  Items = {m1}
  DWorkers = {d1, d2}
  UWorkers = {u1}
  NoItem = NoItem
  NoWorker = NoWorker
  Stamps = {1, 2, 3, 4, 5, 6, 7, 8}
  NoStamp = 0
  MaxAttempts = 2
  MaxFaults = 2
  MaxReplays = 1
  FaultKinds = {"telegram", "slow", "stall"}
  Senders = {"registered"}
  Overwrites = FALSE
SYMMETRY WorkerSymmetry
PROPERTIES
  LiveDownloadKept
  FinalNotRequeued
CHECK_DEADLOCK FALSE
