SPECIFICATION MCSpec
CONSTANTS
  FirstMonth = 11
  LastMonth = 25
  MonthStart <- MCMonthStart
  Users = {u1, u2}
  NoSender = NoSender
  Items = {m1, m2, m3}
  NoRow = NoRow
  Instants <- MCInstants
  Types = {"photo", "document"}
  Years <- MCYears
  Schedules <- MCSchedules
  Horizon = 12
  HistoryDays = 2
  FailedTake = 2
  FailedLines = 1
  MaxChanges = 2
  Reminders = {s1, s2}
  Campaigns = {c1, c2}
  ConsoleMonths <- MCConsoleMonths
  None = None
  NewRow = NewRow
  Waiting = Waiting
  Failed = Failed
  MaxCalls = 3
  MaxMounts = 2
INVARIANTS
  TypeOK
  MonthsAddUp
  DaysAgree
  RemindedAreListed
  NextRunIsNext
  SelectionShown
  RowsHoldTheirOwn
  ResolvedIntoItsForm
PROPERTIES
  NotStuck
CHECK_DEADLOCK FALSE
