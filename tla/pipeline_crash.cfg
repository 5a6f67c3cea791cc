SPECIFICATION Spec
CONSTANTS
  Items = {m1}
  DWorkers = {d1}
  UWorkers = {u1}
  NoItem = NoItem
  NoWorker = NoWorker
  Stamps = {1, 2, 3, 4, 5, 6, 7, 8}
  NoStamp = 0
  MaxAttempts = 2
  MaxFaults = 2
  MaxReplays = 1
  FaultKinds = {"telegram", "io", "drive", "crash", "inactive"}
  Senders = {"registered"}
  Overwrites = FALSE
INVARIANTS
  TypeOK
  UploadsWholeFiles
PROPERTIES
  StagedFileKept
  NoSecondDownload
  ImplementsLifecycle
CHECK_DEADLOCK FALSE
