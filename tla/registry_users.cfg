SPECIFICATION FairSpec
CONSTANTS
  s1 = s1
  s2 = s2
  n1 = n1
  None = None
  Ids = {1, 2}
  Senders = {s1, s2}
  Names = {n1}
  Registries <- SomeTables
  Edits <- SomeEdits
  Files <- SomeFiles
  Handlers = {h1}
  MaxPosts = 2
  MaxEdits = 1
  MaxRenames = 1
INVARIANTS
  TypeOK
  IndexTrue
PROPERTIES
  OthersKept
  EventuallyAccepted
CHECK_DEADLOCK FALSE
