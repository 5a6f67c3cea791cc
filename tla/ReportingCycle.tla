--------------------------- MODULE ReportingCycle ---------------------------
(***************************************************************************)
(* The calendar of the reports and the reminders.  A month is 12 * year +    *)
(* its index; the reporting cycle of a month runs from day 20 of the month   *)
(* before to day 19, in the time zone Asia/Ho_Chi_Minh.  The statistics, the *)
(* reminder schedules and the daily summary each compute their own windows   *)
(* and dates from an instant: hours since an epoch, UTC, stand for           *)
(* milliseconds, and a day number for a calendar date.                       *)
(***************************************************************************)
EXTENDS Integers

CONSTANTS
  FirstMonth, LastMonth,   \* bounds: the months of the instance
  MonthStart               \* the day number on which a month begins

Months == FirstMonth..LastMonth
Days == MonthStart[FirstMonth]..(MonthStart[LastMonth + 1] - 1)

ASSUME CalendarAssumption ==
  /\ FirstMonth \in Int /\ LastMonth \in Int /\ FirstMonth <= LastMonth
  /\ MonthStart \in [FirstMonth..(LastMonth + 1) -> Int]
  /\ \A j, k \in FirstMonth..(LastMonth + 1) : j < k => MonthStart[j] + 28 <= MonthStart[k]
  /\ \A d \in Days : \E k \in Months : MonthStart[k] <= d /\ d < MonthStart[k + 1]

DayLength == 24
Offset == 7            \* analyticsOffsetMs
StartDay == 20         \* REPORTING_CYCLE_START_DAY
----------------------------------------------------------------------------
(* Dates *)

\* What an instant is in a time zone that is zone hours ahead of UTC.
DateIn(t, zone) == (t + zone) \div DayLength
HourIn(t, zone) == (t + zone) % DayLength

MonthOf == [d \in Days |-> CHOOSE k \in Months : MonthStart[k] <= d /\ d < MonthStart[k + 1]]
DayOfMonth(d) == d - MonthStart[MonthOf[d]] + 1

formatAnalyticsDate(t) == DateIn(t, Offset)

\* The instants a backfill reads for two dates: a date without a time is a day of
\* the time zone +07:00.
backfillWindow(from, to) ==
  [start |-> DayLength * from - Offset, end |-> DayLength * to + DayLength - 1 - Offset]

\* Date.UTC(year, month, day)
DateUTC(k, day) == DayLength * (MonthStart[k] + day - 1)
----------------------------------------------------------------------------
(* The cycle, as the statistics compute it *)

monthWindowFromParts(k) ==
  [start |-> DateUTC(k - 1, StartDay) - Offset, end |-> DateUTC(k, StartDay) - Offset - 1]

InWindow(t, window) == window.start <= t /\ t <= window.end

\* Mutant: the month's own day 20 still belongs to it.
KeyLate(t) ==
  LET d == DateIn(t, Offset)
  IN  IF DayOfMonth(d) > StartDay THEN MonthOf[d] + 1 ELSE MonthOf[d]
monthKeyFromDate(t) ==
  LET d == DateIn(t, Offset)
  IN  IF DayOfMonth(d) >= StartDay THEN MonthOf[d] + 1 ELSE MonthOf[d]
----------------------------------------------------------------------------
(* The cycle, as the reminders compute it *)

\* Mutant: the cycle the UTC date is in.
ReportingWindowUTC(t) ==
  LET d == DateIn(t, 0)
      k == IF DayOfMonth(d) >= StartDay THEN MonthOf[d] ELSE MonthOf[d] - 1
  IN  [start |-> DateUTC(k, StartDay) - Offset, end |-> DateUTC(k + 1, StartDay) - Offset - 1]
currentReportingWindow(t) ==
  LET d == DateIn(t, Offset)
      k == IF DayOfMonth(d) >= StartDay THEN MonthOf[d] ELSE MonthOf[d] - 1
  IN  [start |-> DateUTC(k, StartDay) - Offset, end |-> DateUTC(k + 1, StartDay) - Offset - 1]
----------------------------------------------------------------------------
(* Schedules: [days, hour, zone] *)

isScheduleDue(s, t) ==
  DayOfMonth(DateIn(t, s.zone)) \in s.days /\ HourIn(t, s.zone) = s.hour

\* The dates nextRunLabel looks at: those of now and of every 24 hours after it, in the
\* zone of the schedule.
Candidates(s, t, horizon) == {DateIn(t + DayLength * i, s.zone) : i \in 0..(horizon - 1)}

\* It shows the first that is a day of the schedule, unless it is today and the time
\* has come.
\* Mutant: a day whose time has passed is still shown.
NextDatesToday(s, t, horizon) == {d \in Candidates(s, t, horizon) : DayOfMonth(d) \in s.days}
NextDates(s, t, horizon) ==
  {d \in Candidates(s, t, horizon) :
     DayOfMonth(d) \in s.days /\ ~(d = DateIn(t, s.zone) /\ s.hour <= HourIn(t, s.zone))}
=============================================================================
