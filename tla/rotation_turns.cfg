SPECIFICATION FairSpec
CONSTANTS
  Chats = {1, 2, 3, 4}
  Caps = {2, 3}
  PerRuns = {1, 2}
  Workers = {2}
  Times <- ThreeTimes
  Settings <- AllSettings
  Cycle = 48
  MaxSlips = 1
INVARIANTS
  TypeOK
PROPERTIES
  OncePerWindow
  EveryChatTried
CHECK_DEADLOCK FALSE
