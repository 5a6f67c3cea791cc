SPECIFICATION FairSpec
CONSTANTS
  MaxMessage = 5
  Service = {}
  PageSize = 2
  HistoryCap = 2
  MaxPages = 3
  Lookbacks = {2, 3}
  Live = {l1}
  Backfillers = {}
  Burst = 5
  MaxEvents = 1
  MaxCuts = 0
  MayDeactivate = FALSE
PROPERTIES
  EventuallyStored
CHECK_DEADLOCK FALSE
