SPECIFICATION Spec
CONSTANTS
  Instances = {a1,a2}
  Chats = {c1,c2}
  Today = Today
  Manuals = {m1}
  Senders = 2
  MaxFaults = 2
  FaultKinds = {"db", "telegram", "crash"}
  NoRun = NoRun
  NoInstance = NoInstance
SYMMETRY Symmetry
INVARIANTS
  TypeOK
  RemindedOnce
  HonestReport
PROPERTIES
  KeepsPromise
CHECK_DEADLOCK FALSE
