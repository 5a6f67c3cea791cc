SPECIFICATION FairSpec
CONSTANTS
  MaxMessage = 6
  Service = {5}
  PageSize = 4
  HistoryCap = 4
  MaxPages = 2
  Lookbacks = {2}
  Live = {l1}
  Backfillers = {b1}
  Burst = 1
  MaxEvents = 2
  MaxCuts = 1
  MayDeactivate = TRUE
INVARIANTS
  TypeOK
PROPERTIES
  CheckpointsCover
  EventuallyStored
CHECK_DEADLOCK FALSE
